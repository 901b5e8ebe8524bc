------------------------------ MODULE Streams ------------------------------
(***************************************************************************)
(* The live connections of the API console (apiclient/streams.go) and the  *)
(* goroutines that pump them: one for a WebSocket or a Socket.IO session   *)
(* (wsconnect.go, socketioconnect.go), a reader and a command goroutine for *)
(* a broker (mqttconnect.go), plus the one that closes a cancelled broker's *)
(* socket and the one that waits out a Close.  The peer may refuse, stall, *)
(* drop the connection or leave it at any point.                           *)
(*                                                                         *)
(* A connection is one call of connect; its id is the caller's, and another *)
(* call may come under the same one.  A frame is a member of a queue; what  *)
(* it says is left out.                                                    *)
(***************************************************************************)
EXTENDS Naturals, Sequences

CONSTANTS
    Conns,        \* the connections ever opened
    Ids,          \* the ids they are opened under
    Senders,      \* the commands that write into them
    None,         \* no connection
    QueueSize,    \* capacity of a connection's command channel
    MaxSends      \* bound: commands sent

ASSUME StreamsAssumption ==
    /\ None \notin Conns
    /\ QueueSize \in Nat \ {0} /\ MaxSends \in Nat

Transports == {"websocket", "socket.io", "mqtt"}

VARIABLES
    live,         \* the registry: the connection under each id
    id,           \* of each connection
    transport,
    pc,           \* the connecting command, then the pump (mqtt: the reader)
    writer,       \* the side that writes: the pump too (mqtt: drainCommands)
    socket,       \* up, lost by the peer, or shut by us
    commands,     \* the command channel
    cancelled,    \* whose context is done
    finished,     \* whose done channel is closed
    closing,      \* mqtt: a deliberate shutdown
    grace,        \* whose Close is still waited out
    verdict,      \* the status and detail a pump is about to report
    status,       \* the last one reported
    holding,      \* the connection a send has looked up
    sends,        \* commands sent so far (bound)
    \* History, read by the properties only.
    asked,        \* closed, with the request in the queue
    forced,       \* replaced, or out of grace
    goodbye       \* whose peer was told

registry == <<live, id, transport>>
pumps    == <<pc, writer, socket, verdict, status>>
contexts == <<cancelled, finished, closing, grace>>
callers  == <<holding, sends>>
history  == <<asked, forced, goodbye>>
vars == <<registry, pumps, contexts, callers, history, commands>>

Init ==
    /\ live = [i \in Ids |-> None]
    /\ id \in [Conns -> Ids]
    /\ transport \in [Conns -> Transports]
    /\ pc = [c \in Conns |-> "none"]
    /\ writer = [c \in Conns |-> "off"]
    /\ socket = [c \in Conns |-> "none"]
    /\ commands = [c \in Conns |-> <<>>]
    /\ cancelled = {} /\ finished = {} /\ closing = {} /\ grace = {}
    /\ verdict = [c \in Conns |-> "none"]
    /\ status = [c \in Conns |-> "none"]
    /\ holding = [s \in Senders |-> None]
    /\ sends = 0
    /\ asked = {} /\ forced = {} /\ goodbye = {}

Goto(c, phase)   == pc' = [pc EXCEPT ![c] = phase]
WriterTo(c, at)  == writer' = [writer EXCEPT ![c] = at]
Report(c, s)     == status' = [status EXCEPT ![c] = s]

\* The socket closed from our side; one the peer left stays lost.
ShutSocket(c) ==
    socket' = [socket EXCEPT ![c] = IF socket[c] = "up" THEN "shut" ELSE socket[c]]

\* A pump leaves its loop: the socket first, then (below) the rest of its
\* deferred function.
Leave(c, s) ==
    /\ Goto(c, "unregister")
    /\ verdict' = [verdict EXCEPT ![c] = s]
    /\ ShutSocket(c)

Broker(c) == transport[c] = "mqtt"

\* What ends the pump of a WebSocket or of a session ends its writing too.
PumpLeaves(c, s) == ~Broker(c) /\ Leave(c, s) /\ WriterTo(c, "gone")
-----------------------------------------------------------------------------
(***************************************************************************)
(* Connect: register, dial, and for a broker the handshake.                *)
(***************************************************************************)
\* Registered before the dial; a live connection under the same id is replaced.
Register(c) ==
    /\ pc[c] = "none"
    /\ Goto(c, "dialing")
    /\ live' = [live EXCEPT ![id[c]] = c]
    /\ cancelled' = cancelled \cup ({live[id[c]]} \ {None})
    /\ forced' = forced \cup ({live[id[c]]} \ {None})
    /\ Report(c, "connecting")
    /\ UNCHANGED <<id, transport, writer, socket, verdict, finished, closing, grace, callers,
                   asked, goodbye, commands>>

\* Within TimeoutMs, and not once its context is done.  A WebSocket is open at
\* once, a Socket.IO session only when its server says so.
Dial(c) ==
    /\ pc[c] = "dialing"
    /\ \/ /\ c \notin cancelled
          /\ socket' = [socket EXCEPT ![c] = "up"]
          /\ Goto(c, IF Broker(c) THEN "handshake" ELSE "live")
          /\ WriterTo(c, IF Broker(c) THEN "off" ELSE "select")
          /\ Report(c, IF transport[c] = "websocket" THEN "open" ELSE status[c])
          /\ UNCHANGED verdict
       \/ /\ Leave(c, "error")
          /\ UNCHANGED <<writer, status>>
    /\ UNCHANGED <<registry, contexts, callers, history, commands>>

\* CONNECT and CONNACK, under a read deadline; a done context does not stop it.
Handshake(c) ==
    /\ pc[c] = "handshake"
    /\ \/ /\ socket[c] = "up"
          /\ Goto(c, "live") /\ WriterTo(c, "select") /\ Report(c, "open")
          /\ UNCHANGED <<socket, verdict>>
       \/ /\ Leave(c, "error")
          /\ UNCHANGED <<writer, status>>
    /\ UNCHANGED <<registry, contexts, callers, history, commands>>

\* The server's CONNECT packet, any number of times.
Ready(c) ==
    /\ pc[c] = "live" /\ transport[c] = "socket.io"
    /\ writer[c] = "select" /\ socket[c] = "up"
    /\ Report(c, "open")
    /\ UNCHANGED <<registry, pc, writer, socket, verdict, contexts, callers, history, commands>>
-----------------------------------------------------------------------------
(***************************************************************************)
(* The writing side: one select over the context, the commands and the      *)
(* keepalive.  A write lasts until the peer takes it or the socket dies.    *)
(***************************************************************************)
TakeFrame(c) ==
    /\ writer[c] = "select"
    /\ commands[c] # <<>> /\ Head(commands[c]) = "frame"
    /\ commands' = [commands EXCEPT ![c] = Tail(commands[c])]
    /\ WriterTo(c, "writing")
    /\ UNCHANGED <<registry, pc, socket, verdict, status, contexts, callers, history>>

Keepalive(c) ==
    /\ writer[c] = "select"
    /\ WriterTo(c, "pinging")
    /\ UNCHANGED <<registry, pc, socket, verdict, status, contexts, callers, history, commands>>

Written(c) ==
    /\ writer[c] \in {"writing", "pinging"}
    /\ socket[c] = "up"
    /\ WriterTo(c, "select")
    /\ UNCHANGED <<registry, pc, socket, verdict, status, contexts, callers, history, commands>>

\* Nothing to wait for any more: the socket is gone, or (a WebSocket's write
\* has a context) the connection is cancelled.
Hopeless(c) == socket[c] # "up" \/ (~Broker(c) /\ c \in cancelled)

\* A failed write, or a frame that cannot be written, ends a pump; a broker's
\* reports it and goes on, and only a failed ping ends it.
WriteFails(c) ==
    /\ writer[c] \in {"writing", "pinging"}
    /\ writer[c] = "writing" \/ Hopeless(c)
    /\ \/ PumpLeaves(c, "error")
       \/ /\ Broker(c)
          /\ WriterTo(c, IF writer[c] = "pinging" THEN "gone" ELSE "select")
          /\ UNCHANGED <<pc, socket, verdict>>
    /\ UNCHANGED <<registry, status, contexts, callers, history, commands>>

\* A goodbye that forgets to mark the shutdown as deliberate.
TakeCloseQuietly(c) ==
    /\ writer[c] = "select"
    /\ commands[c] # <<>> /\ Head(commands[c]) = "close"
    /\ commands' = [commands EXCEPT ![c] = Tail(commands[c])]
    /\ IF transport[c] = "websocket"
       THEN /\ PumpLeaves(c, "closed")
            /\ goodbye' = IF socket[c] = "up" THEN goodbye \cup {c} ELSE goodbye
       ELSE /\ WriterTo(c, "parting")
            /\ UNCHANGED <<pc, socket, verdict, goodbye>>
    /\ UNCHANGED <<registry, status, contexts, callers, asked, forced>>

\* The close command.  A WebSocket's goodbye is the close frame that closing the
\* socket sends; the others have one of their own.
TakeClose(c) ==
    /\ writer[c] = "select"
    /\ commands[c] # <<>> /\ Head(commands[c]) = "close"
    /\ commands' = [commands EXCEPT ![c] = Tail(commands[c])]
    /\ closing' = IF Broker(c) THEN closing \cup {c} ELSE closing
    /\ IF transport[c] = "websocket"
       THEN /\ PumpLeaves(c, "closed")
            /\ goodbye' = IF socket[c] = "up" THEN goodbye \cup {c} ELSE goodbye
       ELSE /\ WriterTo(c, "parting")
            /\ UNCHANGED <<pc, socket, verdict, goodbye>>
    /\ UNCHANGED <<registry, status, cancelled, finished, grace, callers, asked, forced>>

SayGoodbye(c) ==
    /\ writer[c] = "parting"
    /\ WriterTo(c, "parted")
    /\ \/ socket[c] = "up" /\ goodbye' = goodbye \cup {c}
       \/ Hopeless(c) /\ UNCHANGED goodbye
    /\ UNCHANGED <<registry, pc, socket, verdict, status, contexts, callers, asked, forced,
                   commands>>

HangUp(c) ==
    /\ writer[c] = "parted"
    /\ \/ PumpLeaves(c, "closed")
       \/ /\ Broker(c)
          /\ ShutSocket(c) /\ WriterTo(c, "gone")
          /\ UNCHANGED <<pc, verdict>>
    /\ UNCHANGED <<registry, status, contexts, callers, history, commands>>

Stopped(c) ==
    /\ writer[c] = "select"
    /\ c \in cancelled
    /\ \/ PumpLeaves(c, "closed")
       \/ Broker(c) /\ WriterTo(c, "gone") /\ UNCHANGED <<pc, socket, verdict>>
    /\ UNCHANGED <<registry, status, contexts, callers, history, commands>>
-----------------------------------------------------------------------------
(***************************************************************************)
(* The reading side.                                                       *)
(***************************************************************************)
\* The peer goes away, with a goodbye of its own or without.
PeerLeaves(c) ==
    /\ socket[c] = "up"
    /\ socket' = [socket EXCEPT ![c] = "lost"]
    /\ UNCHANGED <<registry, pc, writer, verdict, status, contexts, callers, history, commands>>

\* A pump hears of it between two writes.
PumpReadEnds(c) ==
    /\ writer[c] = "select"
    /\ socket[c] = "lost"
    /\ \E s \in {"closed", "error"} : PumpLeaves(c, s)
    /\ UNCHANGED <<registry, status, contexts, callers, history, commands>>

\* A reader that only stops when it is told to.
BrokerReadWaits(c) ==
    /\ Broker(c) /\ pc[c] = "live"
    /\ c \in closing \cup cancelled
    /\ Leave(c, "closed")
    /\ UNCHANGED <<registry, writer, status, contexts, callers, history, commands>>

\* readBroker: a socket that died because we closed it is not news.
BrokerReadEnds(c) ==
    /\ Broker(c) /\ pc[c] = "live"
    /\ socket[c] # "up"
    /\ \/ Leave(c, "closed")
       \/ /\ socket[c] = "lost" /\ c \notin closing \cup cancelled
          /\ Leave(c, "error")
    /\ UNCHANGED <<registry, writer, status, contexts, callers, history, commands>>

\* mqtt-closer, the goroutine that unblocks a broker's read.
CloseCancelled(c) ==
    /\ Broker(c) /\ pc[c] = "live"
    /\ c \in cancelled /\ socket[c] = "up"
    /\ closing' = closing \cup {c}
    /\ ShutSocket(c)
    /\ UNCHANGED <<registry, pc, writer, verdict, status, cancelled, finished, grace, callers,
                   history, commands>>
-----------------------------------------------------------------------------
(***************************************************************************)
(* The rest of the deferred function, in its order.                        *)
(***************************************************************************)
\* Whatever is there.
UnregisterAnything(c) ==
    /\ pc[c] = "unregister"
    /\ live' = [live EXCEPT ![id[c]] = None]
    /\ Goto(c, "finish")
    /\ UNCHANGED <<id, transport, writer, socket, verdict, status, contexts, callers, history,
                   commands>>

\* Only if it is still the same one.
Unregister(c) ==
    /\ pc[c] = "unregister"
    /\ live' = [live EXCEPT ![id[c]] = IF @ = c THEN None ELSE @]
    /\ Goto(c, "finish")
    /\ UNCHANGED <<id, transport, writer, socket, verdict, status, contexts, callers, history,
                   commands>>

\* A connect that failed has no pump to be finished.
Finish(c) ==
    /\ pc[c] = "finish"
    /\ Goto(c, "report")
    /\ finished' = IF writer[c] = "off" THEN finished ELSE finished \cup {c}
    /\ cancelled' = cancelled \cup {c}
    /\ UNCHANGED <<registry, writer, socket, verdict, status, closing, grace, callers, history,
                   commands>>

ReportEnd(c) ==
    /\ pc[c] = "report"
    /\ Goto(c, "ended")
    /\ Report(c, verdict[c])
    /\ UNCHANGED <<registry, writer, socket, verdict, contexts, callers, history, commands>>
-----------------------------------------------------------------------------
(***************************************************************************)
(* The commands.                                                           *)
(***************************************************************************)
\* The request and the cancel at once.
CloseAndCancel(i) ==
    /\ live[i] # None
    /\ LET c == live[i] IN
          /\ asked' = asked \cup {c}
          /\ cancelled' = cancelled \cup {c}
          /\ commands' = IF Len(commands[c]) < QueueSize
                         THEN [commands EXCEPT ![c] = Append(commands[c], "close")]
                         ELSE commands
    /\ live' = [live EXCEPT ![i] = None]
    /\ UNCHANGED <<id, transport, pumps, finished, closing, grace, callers, forced, goodbye>>

\* The request, and no cancel behind it.
CloseAndTrust(i) ==
    /\ live[i] # None
    /\ LET c == live[i] IN
          /\ asked' = asked \cup {c}
          /\ commands' = IF Len(commands[c]) < QueueSize
                         THEN [commands EXCEPT ![c] = Append(commands[c], "close")]
                         ELSE commands
    /\ live' = [live EXCEPT ![i] = None]
    /\ UNCHANGED <<id, transport, pumps, contexts, callers, forced, goodbye>>

\* The request first, unless the channel is full; an unknown id is no error.
Close(i) ==
    /\ live[i] # None
    /\ LET c == live[i] IN
          /\ asked' = asked \cup {c}
          /\ grace' = grace \cup {c}
          /\ commands' = IF Len(commands[c]) < QueueSize
                         THEN [commands EXCEPT ![c] = Append(commands[c], "close")]
                         ELSE commands
    /\ live' = [live EXCEPT ![i] = None]
    /\ UNCHANGED <<id, transport, pumps, cancelled, finished, closing, callers, forced, goodbye>>

\* stream-close: cancelled once it is done, or out of grace.
Backstop(c) ==
    /\ c \in grace
    /\ grace' = grace \ {c}
    /\ cancelled' = cancelled \cup {c}
    /\ forced' = IF c \in finished THEN forced ELSE forced \cup {c}
    /\ UNCHANGED <<registry, pumps, finished, closing, callers, asked, goodbye, commands>>

\* send: the channel is taken out from under the lock,
LookUp(s, i) ==
    /\ holding[s] = None
    /\ live[i] # None
    /\ sends < MaxSends
    /\ holding' = [holding EXCEPT ![s] = live[i]]
    /\ sends' = sends + 1
    /\ UNCHANGED <<registry, pumps, contexts, history, commands>>

\* and written to when there is room, or not at all after five seconds.
Post(s) ==
    /\ holding[s] # None
    /\ LET c == holding[s] IN
          commands' = IF Len(commands[c]) < QueueSize
                      THEN [commands EXCEPT ![c] = Append(commands[c], "frame")]
                      ELSE commands
    /\ holding' = [holding EXCEPT ![s] = None]
    /\ UNCHANGED <<registry, pumps, contexts, sends, history>>
-----------------------------------------------------------------------------
Writer(c) ==
    \/ TakeFrame(c) \/ Keepalive(c) \/ Written(c) \/ WriteFails(c)
    \/ TakeClose(c) \/ SayGoodbye(c) \/ HangUp(c) \/ Stopped(c)

Pump(c) ==
    \/ Dial(c) \/ Handshake(c) \/ Ready(c) \/ Writer(c)
    \/ PumpReadEnds(c) \/ BrokerReadEnds(c) \/ CloseCancelled(c)
    \/ Unregister(c) \/ Finish(c) \/ ReportEnd(c)

Backend ==
    \/ \E c \in Conns : Pump(c) \/ PeerLeaves(c) \/ Backstop(c)
    \/ \E s \in Senders : Post(s)

Next ==
    \/ Backend
    \/ \E c \in Conns : Register(c)
    \/ \E i \in Ids : Close(i)
    \/ \E s \in Senders, i \in Ids : LookUp(s, i)

Spec == Init /\ [][Next]_vars

(***************************************************************************)
(* Every goroutine is scheduled, a timer fires, and a select that finds a   *)
(* case ready again and again takes it: Go picks among the ready ones at    *)
(* random.  The peer owes nothing: a write it does not take never ends.     *)
(***************************************************************************)
Fairness ==
    \A c \in Conns :
        /\ WF_vars(Dial(c)) /\ WF_vars(Handshake(c))
        /\ SF_vars(TakeFrame(c) \/ TakeClose(c)) /\ SF_vars(Stopped(c))
        /\ SF_vars(PumpReadEnds(c))
        /\ WF_vars(Hopeless(c) /\ (WriteFails(c) \/ SayGoodbye(c)))
        /\ WF_vars(HangUp(c))
        /\ WF_vars(BrokerReadEnds(c)) /\ WF_vars(CloseCancelled(c))
        /\ WF_vars(Unregister(c)) /\ WF_vars(Finish(c)) /\ WF_vars(ReportEnd(c))
        /\ WF_vars(Backstop(c))

FairSpec == Spec /\ Fairness
-----------------------------------------------------------------------------
(***************************************************************************)
(* Properties.                                                             *)
(***************************************************************************)
Phases ==
    {"none", "dialing", "handshake", "live", "unregister", "finish", "report", "ended"}

Connecting == {"dialing", "handshake", "live"}

Torn == {"unregister", "finish", "report", "ended"}

\* The shape of the state, and no channel beyond its capacity.
TypeOK ==
    /\ live \in [Ids -> Conns \cup {None}]
    /\ id \in [Conns -> Ids] /\ transport \in [Conns -> Transports]
    /\ pc \in [Conns -> Phases]
    /\ writer \in [Conns -> {"off", "select", "writing", "pinging", "parting", "parted", "gone"}]
    /\ socket \in [Conns -> {"none", "up", "lost", "shut"}]
    /\ commands \in [Conns -> Seq({"frame", "close"})]
    /\ \A c \in Conns : Len(commands[c]) <= QueueSize
    /\ cancelled \subseteq Conns /\ finished \subseteq Conns
    /\ closing \subseteq Conns /\ grace \subseteq Conns
    /\ verdict \in [Conns -> {"none", "closed", "error"}]
    /\ status \in [Conns -> {"none", "connecting", "open", "closed", "error"}]
    /\ holding \in [Senders -> Conns \cup {None}]
    /\ sends \in 0..MaxSends
    /\ asked \subseteq Conns /\ forced \subseteq Conns /\ goodbye \subseteq Conns

\* The registry holds what is alive under its own id, never a connection whose
\* end was reported; and a connection nobody closed or replaced is in it from
\* before its dial, whichever dying pump under the same id clears up meanwhile
\* (API-048).
RegistryHoldsTheLiving ==
    /\ \A i \in Ids : live[i] # None =>
           id[live[i]] = i /\ pc[live[i]] \in Connecting \cup {"unregister"}
    /\ \A c \in Conns :
           pc[c] \in Connecting /\ c \notin asked \cup forced => live[id[c]] = c

\* A connection that was asked to close says goodbye before its socket goes,
\* however its writer, its reader and the backstop interleave: only a peer that
\* left first, a replacement or the end of the grace comes before it.
GoodbyeFirst ==
    \A c \in Conns :
        /\ pc[c] \in Torn /\ verdict[c] = "closed"
        /\ c \in asked \ forced
        /\ socket[c] = "shut"
        => c \in goodbye

\* And what follows a goodbye is a close, never the failure that the reader
\* takes the peer's hanging up for.
GoodbyeIsNoFailure ==
    \A c \in goodbye : pc[c] \in Torn => verdict[c] = "closed"

\* A connection that was asked to close ends, however its peer stalls: the grace
\* of a pump that cannot say goodbye runs out.
EndsWhenAsked ==
    \A c \in Conns : c \in asked ~> pc[c] = "ended"

\* A connection whose peer is gone ends, whatever it was writing: nothing stays
\* in the registry for a socket that is dead.
EndsWhenLeft ==
    \A c \in Conns : socket[c] = "lost" ~> pc[c] = "ended"
=============================================================================
