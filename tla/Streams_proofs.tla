--------------------------- MODULE Streams_proofs ---------------------------
(***************************************************************************)
(* What the registry holds and what a peer is told, for any number of      *)
(* connections, ids and senders, every capacity of the command channel and *)
(* every interleaving of the goroutines.                                   *)
(***************************************************************************)
EXTENDS Streams, SequenceTheorems, TLAPS

Before  == {"none", "dialing", "handshake"}
Writing == {"select", "writing", "pinging", "parting", "parted"}

\* Where a connection's two sides can be.
Placed(c) ==
    /\ pc[c] \in Before => writer[c] = "off"
    /\ pc[c] \in {"none", "dialing"} => socket[c] = "none"
    /\ pc[c] \in Torn => socket[c] # "up"
    /\ ~Broker(c) /\ writer[c] \in Writing => pc[c] = "live"
    /\ ~Broker(c) /\ pc[c] = "live" => socket[c] # "shut"
    /\ c \in finished => pc[c] \in {"report", "ended"}
    /\ c \in cancelled => c \in forced \/ pc[c] \in {"report", "ended"}

\* A socket shut by us, unless the connection was forced, was told goodbye.
Told(c) ==
    c \notin forced =>
        /\ writer[c] = "parted" /\ socket[c] = "up" => c \in goodbye
        /\ Broker(c) /\ pc[c] = "live" /\ socket[c] = "shut" => c \in goodbye
        /\ pc[c] \in Torn /\ verdict[c] = "closed" /\ socket[c] = "shut" => c \in goodbye

\* A goodbye is the last thing written, and a broker's reader knows of it.
Parted(c) ==
    /\ c \in goodbye =>
           /\ writer[c] \in {"parted", "gone"}
           /\ pc[c] = "live" \/ (pc[c] \in Torn /\ verdict[c] = "closed")
    /\ ~Broker(c) /\ writer[c] = "gone" => pc[c] \in Torn
    /\ Broker(c) /\ (writer[c] \in {"parting", "parted"} \/ c \in goodbye) => c \in closing

Sound(c) == Placed(c) /\ Told(c) /\ Parted(c)

IInv == TypeOK /\ RegistryHoldsTheLiving /\ \A c \in Conns : Sound(c)
-----------------------------------------------------------------------------
LEMMA InitIInv == Init => IInv
  <1> SUFFICES ASSUME Init PROVE IInv
    OBVIOUS
  <1>1. TypeOK
    BY StreamsAssumption DEF Init, TypeOK, Phases
  <1>2. RegistryHoldsTheLiving
    BY DEF Init, RegistryHoldsTheLiving, Connecting
  <1>3. \A c \in Conns : Sound(c)
    BY DEF Init, Sound, Placed, Told, Parted, Torn, Writing
  <1>. QED
    BY <1>1, <1>2, <1>3 DEF IInv

(***************************************************************************)
(* The command channels.                                                   *)
(***************************************************************************)
Channels == [Conns -> Seq({"frame", "close"})]

InCapacity(q) == \A c \in Conns : Len(q[c]) <= QueueSize

\* A command taken leaves room, and one is put only where there is room.
LEMMA ChannelType ==
    ASSUME commands \in Channels, InCapacity(commands), NEW c \in Conns
    PROVE  /\ commands[c] # <<>> =>
                 /\ [commands EXCEPT ![c] = Tail(commands[c])] \in Channels
                 /\ InCapacity([commands EXCEPT ![c] = Tail(commands[c])])
           /\ \A m \in {"frame", "close"} : Len(commands[c]) < QueueSize =>
                 /\ [commands EXCEPT ![c] = Append(commands[c], m)] \in Channels
                 /\ InCapacity([commands EXCEPT ![c] = Append(commands[c], m)])
  <1>1. commands[c] \in Seq({"frame", "close"}) /\ Len(commands[c]) <= QueueSize
    BY DEF Channels, InCapacity
  <1>2. ASSUME commands[c] # <<>>
        PROVE  /\ Tail(commands[c]) \in Seq({"frame", "close"})
               /\ Len(Tail(commands[c])) <= QueueSize
    BY <1>1, <1>2, HeadTailProperties, StreamsAssumption
  <1>3. ASSUME NEW m \in {"frame", "close"}, Len(commands[c]) < QueueSize
        PROVE  /\ Append(commands[c], m) \in Seq({"frame", "close"})
               /\ Len(Append(commands[c], m)) <= QueueSize
    BY <1>1, <1>3, AppendProperties, StreamsAssumption
  <1>. QED
    BY <1>2, <1>3 DEF Channels, InCapacity
-----------------------------------------------------------------------------
(***************************************************************************)
(* Types.                                                                  *)
(***************************************************************************)
LEMMA PumpType ==
    ASSUME TypeOK, NEW c \in Conns, Pump(c) \/ PeerLeaves(c) \/ Backstop(c) \/ Register(c)
    PROVE  TypeOK'
  <1> USE DEF TypeOK, registry, pumps, contexts, callers, history, Phases
  <1>1. CASE Dial(c)
    BY <1>1, ZenonT(40) DEF Dial, Goto, WriterTo, Report, Leave, ShutSocket
  <1>2. CASE Handshake(c)
    BY <1>2 DEF Handshake, Goto, WriterTo, Report, Leave, ShutSocket
  <1>3. CASE Ready(c)
    BY <1>3 DEF Ready, Report
  <1>4. CASE TakeFrame(c)
    <2>1. commands' \in Channels /\ InCapacity(commands')
      BY <1>4, ChannelType DEF TakeFrame, Channels, InCapacity
    <2>. QED
      BY <1>4, <2>1 DEF TakeFrame, Channels, InCapacity, WriterTo
  <1>5. CASE Keepalive(c)
    BY <1>5 DEF Keepalive, WriterTo
  <1>6. CASE Written(c)
    BY <1>6 DEF Written, WriterTo
  <1>7. CASE WriteFails(c)
    BY <1>7, ZenonT(40) DEF WriteFails, WriterTo, PumpLeaves, Leave, Goto, ShutSocket
  <1>8. CASE TakeClose(c)
    <2>1. commands' \in Channels /\ InCapacity(commands')
      BY <1>8, ChannelType DEF TakeClose, Channels, InCapacity
    <2>2. /\ pc' \in [Conns -> Phases] /\ verdict' \in [Conns -> {"none", "closed", "error"}]
          /\ socket' \in [Conns -> {"none", "up", "lost", "shut"}]
          /\ \/ WriterTo(c, "gone") \/ WriterTo(c, "parting")
      BY <1>8, ZenonT(40) DEF TakeClose, PumpLeaves, Leave, Goto, ShutSocket
    <2>3. closing' \subseteq Conns /\ goodbye' \subseteq Conns
      BY <1>8 DEF TakeClose
    <2>. QED
      BY <1>8, <2>1, <2>2, <2>3 DEF TakeClose, Channels, InCapacity, WriterTo
  <1>9. CASE SayGoodbye(c)
    BY <1>9 DEF SayGoodbye, WriterTo
  <1>10. CASE HangUp(c)
    BY <1>10 DEF HangUp, WriterTo, PumpLeaves, Leave, Goto, ShutSocket
  <1>11. CASE Stopped(c)
    BY <1>11 DEF Stopped, WriterTo, PumpLeaves, Leave, Goto, ShutSocket
  <1>12. CASE PumpReadEnds(c)
    BY <1>12 DEF PumpReadEnds, WriterTo, PumpLeaves, Leave, Goto, ShutSocket
  <1>13. CASE BrokerReadEnds(c)
    BY <1>13 DEF BrokerReadEnds, Leave, Goto, ShutSocket
  <1>14. CASE CloseCancelled(c)
    BY <1>14 DEF CloseCancelled, ShutSocket
  <1>15. CASE Unregister(c)
    BY <1>15 DEF Unregister, Goto
  <1>16. CASE Finish(c)
    BY <1>16 DEF Finish, Goto
  <1>17. CASE ReportEnd(c)
    BY <1>17 DEF ReportEnd, Goto, Report
  <1>18. CASE PeerLeaves(c)
    BY <1>18 DEF PeerLeaves
  <1>19. CASE Backstop(c)
    BY <1>19 DEF Backstop
  <1>20. CASE Register(c)
    BY <1>20 DEF Register, Goto, Report
  <1>. QED
    BY <1>1, <1>2, <1>3, <1>4, <1>5, <1>6, <1>7, <1>8, <1>9, <1>10, <1>11, <1>12, <1>13, <1>14, <1>15, <1>16, <1>17, <1>18, <1>19, <1>20 DEF Pump, Writer

LEMMA NextType == TypeOK /\ [Next]_vars => TypeOK'
  <1> SUFFICES ASSUME TypeOK, [Next]_vars PROVE TypeOK'
    OBVIOUS
  <1> commands \in Channels /\ InCapacity(commands)
    BY DEF TypeOK, Channels, InCapacity
  <1>1. ASSUME NEW c \in Conns, Pump(c) \/ PeerLeaves(c) \/ Backstop(c) \/ Register(c)
        PROVE  TypeOK'
    BY <1>1, PumpType
  <1>2. ASSUME NEW i \in Ids, Close(i) PROVE TypeOK'
    <2>1. live[i] \in Conns
      BY <1>2 DEF Close, TypeOK
    <2>2. commands' \in Channels /\ InCapacity(commands')
      BY <1>2, <2>1, ChannelType DEF Close
    <2>. QED
      BY <1>2, <2>1, <2>2 DEF Close, TypeOK, Channels, InCapacity, pumps, callers
  <1>3. ASSUME NEW s \in Senders, NEW i \in Ids, LookUp(s, i) PROVE TypeOK'
    BY <1>3, StreamsAssumption DEF LookUp, TypeOK, registry, pumps, contexts, history
  <1>4. ASSUME NEW s \in Senders, Post(s) PROVE TypeOK'
    <2>1. holding[s] \in Conns
      BY <1>4 DEF Post, TypeOK
    <2>2. commands' \in Channels /\ InCapacity(commands')
      BY <1>4, <2>1, ChannelType DEF Post
    <2>. QED
      BY <1>4, <2>2 DEF Post, TypeOK, Channels, InCapacity, registry, pumps, contexts, history
  <1>5. CASE UNCHANGED vars
    BY <1>5 DEF vars, registry, pumps, contexts, callers, history, TypeOK
  <1>. QED
    BY <1>1, <1>2, <1>3, <1>4, <1>5 DEF Next, Backend
-----------------------------------------------------------------------------
(***************************************************************************)
(* The registry.                                                           *)
(***************************************************************************)
Pumping == Connecting \cup {"unregister"}

\* A step that leaves the registry alone, and takes no connection into or out of
\* those it is about but by forcing it.
LEMMA RegistryKept ==
    ASSUME RegistryHoldsTheLiving,
           UNCHANGED <<live, id>>, asked \subseteq asked', forced \subseteq forced',
           \A d \in Conns : pc[d] \in Pumping => pc'[d] \in Pumping,
           \A d \in Conns : pc'[d] \in Connecting => pc[d] \in Connecting,
           TypeOK
    PROVE  RegistryHoldsTheLiving'
  BY DEF RegistryHoldsTheLiving, TypeOK, Pumping

LEMMA NextRegistry ==
    ASSUME TypeOK, RegistryHoldsTheLiving, [Next]_vars
    PROVE  RegistryHoldsTheLiving'
  <1>1. ASSUME NEW c \in Conns, Register(c) PROVE RegistryHoldsTheLiving'
    <2>1. /\ live' = [live EXCEPT ![id[c]] = c] /\ id' = id /\ asked' = asked
          /\ forced' = forced \cup ({live[id[c]]} \ {None})
          /\ pc[c] = "none" /\ pc' = [pc EXCEPT ![c] = "dialing"]
          /\ id[c] \in Ids
      BY <1>1 DEF Register, Goto, TypeOK
    <2>2. \A i \in Ids : live'[i] # None =>
              id'[live'[i]] = i /\ pc'[live'[i]] \in Connecting \cup {"unregister"}
      BY <2>1 DEF RegistryHoldsTheLiving, TypeOK, Connecting
    <2>3. ASSUME NEW d \in Conns, pc'[d] \in Connecting, d \notin asked' \cup forced'
          PROVE  live'[id'[d]] = d
      BY <2>1, <2>3, StreamsAssumption DEF RegistryHoldsTheLiving, TypeOK, Connecting
    <2>. QED
      BY <2>2, <2>3 DEF RegistryHoldsTheLiving
  <1>2. ASSUME NEW c \in Conns, Unregister(c) PROVE RegistryHoldsTheLiving'
    <2>1. /\ live' = [live EXCEPT ![id[c]] = IF live[id[c]] = c THEN None ELSE live[id[c]]]
          /\ id' = id /\ asked' = asked /\ forced' = forced
          /\ pc[c] = "unregister" /\ pc' = [pc EXCEPT ![c] = "finish"]
          /\ id[c] \in Ids
      BY <1>2 DEF Unregister, Goto, TypeOK, history
    <2>2. \A i \in Ids : live'[i] # None =>
              id'[live'[i]] = i /\ pc'[live'[i]] \in Connecting \cup {"unregister"}
      BY <2>1 DEF RegistryHoldsTheLiving, TypeOK, Connecting
    <2>3. ASSUME NEW d \in Conns, pc'[d] \in Connecting, d \notin asked' \cup forced'
          PROVE  live'[id'[d]] = d
      BY <2>1, <2>3 DEF RegistryHoldsTheLiving, TypeOK, Connecting
    <2>. QED
      BY <2>2, <2>3 DEF RegistryHoldsTheLiving
  <1>3. ASSUME NEW i \in Ids, Close(i) PROVE RegistryHoldsTheLiving'
    BY <1>3 DEF Close, RegistryHoldsTheLiving, TypeOK, pumps
  <1>4. ASSUME NEW c \in Conns, Pump(c), ~Unregister(c) PROVE RegistryHoldsTheLiving'
    <2>1. UNCHANGED <<live, id, asked, forced>>
      BY <1>4 DEF Pump, Writer, Dial, Handshake, Ready, TakeFrame, Keepalive, Written, WriteFails,
         TakeClose, SayGoodbye, HangUp, Stopped, PumpReadEnds, BrokerReadEnds, CloseCancelled,
         Finish, ReportEnd, registry, history
    <2>2. \/ UNCHANGED pc
          \/ pc[c] \in Connecting /\ \E to \in Connecting : Goto(c, to)
          \/ Goto(c, "unregister")
          \/ pc[c] \notin Pumping /\ (Goto(c, "report") \/ Goto(c, "ended"))
      BY <1>4 DEF Pump, Writer, Dial, Handshake, Ready, TakeFrame, Keepalive, Written, WriteFails,
         TakeClose, SayGoodbye, HangUp, Stopped, PumpReadEnds, BrokerReadEnds, CloseCancelled,
         Finish, ReportEnd, PumpLeaves, Leave, Pumping, Connecting, pumps
    <2>3. /\ \A d \in Conns : pc[d] \in Pumping => pc'[d] \in Pumping
          /\ \A d \in Conns : pc'[d] \in Connecting => pc[d] \in Connecting
      BY <2>2 DEF Goto, TypeOK, Pumping, Connecting
    <2>. QED
      BY <2>1, <2>3, RegistryKept
  <1>5. ASSUME NEW c \in Conns, PeerLeaves(c) \/ Backstop(c) PROVE RegistryHoldsTheLiving'
    <2>1. UNCHANGED <<live, id, pc>> /\ asked \subseteq asked' /\ forced \subseteq forced'
      BY <1>5 DEF PeerLeaves, Backstop, registry, history, pumps
    <2>. QED
      BY <2>1, RegistryKept
  <1>6. ASSUME NEW s \in Senders, Post(s) \/ \E i \in Ids : LookUp(s, i)
        PROVE  RegistryHoldsTheLiving'
    <2>1. UNCHANGED <<live, id, pc, asked, forced>>
      BY <1>6 DEF Post, LookUp, registry, history, pumps
    <2>. QED
      BY <2>1, RegistryKept
  <1>7. CASE UNCHANGED vars
    BY <1>7, RegistryKept DEF vars, registry, pumps, history
  <1>. QED
    BY <1>1, <1>2, <1>3, <1>4, <1>5, <1>6, <1>7 DEF Next, Backend
-----------------------------------------------------------------------------
(***************************************************************************)
(* Every connection.                                                       *)
(***************************************************************************)
\* A connection that a step leaves alone, or that is only asked to close.
Untouched(d) ==
    /\ pc'[d] = pc[d] /\ writer'[d] = writer[d] /\ socket'[d] = socket[d]
    /\ verdict'[d] = verdict[d] /\ transport'[d] = transport[d]
    /\ d \in finished' <=> d \in finished
    /\ d \in cancelled' <=> d \in cancelled
    /\ d \in forced' <=> d \in forced
    /\ d \in closing' <=> d \in closing
    /\ d \in goodbye' <=> d \in goodbye

LEMMA UntouchedSound ==
    ASSUME NEW d \in Conns, Sound(d), Untouched(d)
    PROVE  Sound(d)'
  BY DEF Sound, Placed, Told, Parted, Untouched, Broker

\* A step of a connection's own pump.
LEMMA PumpSound ==
    ASSUME TypeOK, NEW c \in Conns, Sound(c), Pump(c)
    PROVE  Sound(c)'
  <1> USE DEF TypeOK, registry, pumps, contexts, callers, history, Broker,
          Sound, Placed, Told, Parted, Torn, Before, Writing
  <1>1. CASE Dial(c)
    BY <1>1 DEF Dial, Goto, WriterTo, Report, Leave, ShutSocket
  <1>2. CASE Handshake(c)
    BY <1>2 DEF Handshake, Goto, WriterTo, Report, Leave, ShutSocket
  <1>3. CASE Ready(c)
    BY <1>3 DEF Ready, Report
  <1>4. CASE TakeFrame(c)
    BY <1>4 DEF TakeFrame, WriterTo
  <1>5. CASE Keepalive(c)
    BY <1>5 DEF Keepalive, WriterTo
  <1>6. CASE Written(c)
    BY <1>6 DEF Written, WriterTo
  <1>7. CASE WriteFails(c)
    <2>1. CASE Broker(c)
      BY <1>7, <2>1 DEF WriteFails, WriterTo, PumpLeaves
    <2>2. CASE ~Broker(c)
      <3>1. writer[c] \in {"writing", "pinging"} /\ Leave(c, "error") /\ WriterTo(c, "gone")
        BY <1>7, <2>2 DEF WriteFails, PumpLeaves
      <3>2. c \notin goodbye /\ pc[c] = "live"
        BY <2>2, <3>1
      <3>. QED
        BY <1>7, <2>2, <3>1, <3>2 DEF WriteFails, WriterTo, Leave, Goto, ShutSocket
    <2>. QED
      BY <2>1, <2>2
  <1>8. CASE TakeClose(c)
    <2>1. CASE transport[c] = "websocket"
      <3>1. /\ Leave(c, "closed") /\ WriterTo(c, "gone")
            /\ goodbye' = IF socket[c] = "up" THEN goodbye \cup {c} ELSE goodbye
            /\ writer[c] = "select" /\ closing' = closing
            /\ UNCHANGED <<transport, cancelled, finished, forced>>
        BY <1>8, <2>1 DEF TakeClose, PumpLeaves
      <3>2. c \notin goodbye /\ pc[c] = "live"
        BY <2>1, <3>1
      <3>. QED
        BY <2>1, <3>1, <3>2 DEF WriterTo, Leave, Goto, ShutSocket
    <2>2. CASE transport[c] # "websocket"
      <3>1. /\ WriterTo(c, "parting") /\ UNCHANGED <<pc, socket, verdict, goodbye>>
            /\ writer[c] = "select"
            /\ closing' = IF Broker(c) THEN closing \cup {c} ELSE closing
            /\ UNCHANGED <<transport, cancelled, finished, forced>>
        BY <1>8, <2>2 DEF TakeClose
      <3>. QED
        BY <2>2, <3>1 DEF WriterTo
    <2>. QED
      BY <2>1, <2>2
  <1>9. CASE SayGoodbye(c)
    <2>1. /\ writer[c] = "parting" /\ WriterTo(c, "parted")
          /\ UNCHANGED <<pc, socket, verdict, transport, cancelled, finished, forced, closing>>
      BY <1>9 DEF SayGoodbye
    <2>2. CASE socket[c] = "up" /\ goodbye' = goodbye \cup {c}
      <3>1. pc[c] = "live"
        BY <2>1, <2>2 DEF Phases
      <3>. QED
        BY <2>1, <2>2, <3>1 DEF WriterTo
    <2>3. CASE Hopeless(c) /\ UNCHANGED goodbye
      <3>1. socket[c] # "up" \/ c \in forced
        BY <2>1, <2>3 DEF Hopeless
      <3>2. c \notin goodbye
        BY <2>1
      <3>. QED
        BY <2>1, <2>3, <3>1, <3>2 DEF WriterTo
    <2>. QED
      BY <1>9, <2>2, <2>3 DEF SayGoodbye
  <1>10. CASE HangUp(c)
    BY <1>10 DEF HangUp, WriterTo, PumpLeaves, Leave, Goto, ShutSocket
  <1>11. CASE Stopped(c)
    BY <1>11 DEF Stopped, WriterTo, PumpLeaves, Leave, Goto, ShutSocket
  <1>12. CASE PumpReadEnds(c)
    BY <1>12 DEF PumpReadEnds, WriterTo, PumpLeaves, Leave, Goto, ShutSocket
  <1>13. CASE BrokerReadEnds(c)
    BY <1>13 DEF BrokerReadEnds, Leave, Goto, ShutSocket
  <1>14. CASE CloseCancelled(c)
    BY <1>14 DEF CloseCancelled, ShutSocket
  <1>15. CASE Unregister(c)
    BY <1>15 DEF Unregister, Goto
  <1>16. CASE Finish(c)
    BY <1>16 DEF Finish, Goto
  <1>17. CASE ReportEnd(c)
    BY <1>17 DEF ReportEnd, Goto, Report
  <1>. QED
    BY <1>1, <1>2, <1>3, <1>4, <1>5, <1>6, <1>7, <1>8, <1>9, <1>10, <1>11, <1>12, <1>13, <1>14, <1>15, <1>16, <1>17 DEF Pump, Writer

\* Which leaves every other one alone.
LEMMA PumpAlone ==
    ASSUME TypeOK, NEW c \in Conns, Pump(c), NEW d \in Conns \ {c}
    PROVE  Untouched(d)
  <1> USE DEF TypeOK, registry, pumps, contexts, callers, history, Untouched
  <1>1. CASE Dial(c)
    BY <1>1 DEF Dial, Goto, WriterTo, Report, Leave, ShutSocket
  <1>2. CASE Handshake(c)
    BY <1>2 DEF Handshake, Goto, WriterTo, Report, Leave, ShutSocket
  <1>3. CASE Ready(c)
    BY <1>3 DEF Ready, Report
  <1>4. CASE TakeFrame(c)
    BY <1>4 DEF TakeFrame, WriterTo
  <1>5. CASE Keepalive(c)
    BY <1>5 DEF Keepalive, WriterTo
  <1>6. CASE Written(c)
    BY <1>6 DEF Written, WriterTo
  <1>7. CASE WriteFails(c)
    BY <1>7 DEF WriteFails, WriterTo, PumpLeaves, Leave, Goto, ShutSocket
  <1>8. CASE TakeClose(c)
    BY <1>8 DEF TakeClose, WriterTo, PumpLeaves, Leave, Goto, ShutSocket
  <1>9. CASE SayGoodbye(c)
    BY <1>9 DEF SayGoodbye, WriterTo
  <1>10. CASE HangUp(c)
    BY <1>10 DEF HangUp, WriterTo, PumpLeaves, Leave, Goto, ShutSocket
  <1>11. CASE Stopped(c)
    BY <1>11 DEF Stopped, WriterTo, PumpLeaves, Leave, Goto, ShutSocket
  <1>12. CASE PumpReadEnds(c)
    BY <1>12 DEF PumpReadEnds, WriterTo, PumpLeaves, Leave, Goto, ShutSocket
  <1>13. CASE BrokerReadEnds(c)
    BY <1>13 DEF BrokerReadEnds, Leave, Goto, ShutSocket
  <1>14. CASE CloseCancelled(c)
    BY <1>14 DEF CloseCancelled, ShutSocket
  <1>15. CASE Unregister(c)
    BY <1>15 DEF Unregister, Goto
  <1>16. CASE Finish(c)
    BY <1>16 DEF Finish, Goto
  <1>17. CASE ReportEnd(c)
    BY <1>17 DEF ReportEnd, Goto, Report
  <1>. QED
    BY <1>1, <1>2, <1>3, <1>4, <1>5, <1>6, <1>7, <1>8, <1>9, <1>10, <1>11, <1>12, <1>13, <1>14, <1>15, <1>16, <1>17 DEF Pump, Writer

LEMMA NextSound ==
    ASSUME TypeOK, RegistryHoldsTheLiving, \A c \in Conns : Sound(c), [Next]_vars
    PROVE  \A c \in Conns : Sound(c)'
  <1> TAKE d \in Conns
  <1>s. Sound(d)
    OBVIOUS
  <1>1. ASSUME NEW c \in Conns, Pump(c) PROVE Sound(d)'
    BY <1>1, <1>s, PumpSound, PumpAlone, UntouchedSound
  <1>2. ASSUME NEW c \in Conns, PeerLeaves(c) PROVE Sound(d)'
    BY <1>2, <1>s DEF PeerLeaves, TypeOK, registry, pumps, contexts, history, Broker,
       Sound, Placed, Told, Parted, Torn
  <1>3. ASSUME NEW c \in Conns, Backstop(c) PROVE Sound(d)'
    BY <1>3, <1>s DEF Backstop, TypeOK, registry, pumps, history, Broker,
       Sound, Placed, Told, Parted
  <1>4. ASSUME NEW c \in Conns, Register(c) PROVE Sound(d)'
    <2>1. /\ UNCHANGED <<transport, writer, socket, verdict, finished, closing, goodbye>>
          /\ pc[c] = "none" /\ pc' = [pc EXCEPT ![c] = "dialing"]
          /\ \E old \in SUBSET Conns :
                cancelled' = cancelled \cup old /\ forced' = forced \cup old
      <3>1. {live[id[c]]} \ {None} \in SUBSET Conns
        BY DEF TypeOK
      <3>. QED
        BY <1>4, <3>1 DEF Register, Goto
    <2>. QED
      BY <2>1, <1>s DEF TypeOK, Broker, Sound, Placed, Told, Parted, Torn, Before, Writing
  <1>5. ASSUME NEW i \in Ids, Close(i) PROVE Sound(d)'
    BY <1>5, <1>s, UntouchedSound DEF Close, pumps, Untouched
  <1>6. ASSUME NEW s \in Senders, Post(s) \/ \E i \in Ids : LookUp(s, i) PROVE Sound(d)'
    BY <1>6, <1>s, UntouchedSound DEF Post, LookUp, registry, pumps, contexts, history, Untouched
  <1>7. CASE UNCHANGED vars
    BY <1>7, <1>s, UntouchedSound DEF vars, registry, pumps, contexts, history, Untouched
  <1>. QED
    BY <1>1, <1>2, <1>3, <1>4, <1>5, <1>6, <1>7 DEF Next, Backend
-----------------------------------------------------------------------------
(***************************************************************************)
(* The theorems.                                                           *)
(***************************************************************************)
LEMMA Invariance == Spec => []IInv
  <1>1. Init => IInv
    BY InitIInv
  <1>2. IInv /\ [Next]_vars => IInv'
    BY NextType, NextRegistry, NextSound DEF IInv
  <1>. QED
    BY <1>1, <1>2, PTL DEF Spec

\* The state keeps its shape, and no channel holds more than it can: a Close
\* never waits for room (Streams.Close).
THEOREM TypeCorrect == Spec => []TypeOK
  <1>1. IInv => TypeOK
    BY DEF IInv
  <1>. QED
    BY <1>1, Invariance, PTL

\* However many connections come under one id, the registry never keeps a dead
\* one nor loses a live one (Streams.unregister, API-048).
THEOREM RegistrySound == Spec => []RegistryHoldsTheLiving
  <1>1. IInv => RegistryHoldsTheLiving
    BY DEF IInv
  <1>. QED
    BY <1>1, Invariance, PTL

\* A connection closed on purpose is announced to its peer before the socket
\* goes (Streams.Close, drainCommands).
THEOREM GoodbyeComesFirst == Spec => []GoodbyeFirst
  <1>1. IInv => GoodbyeFirst
    BY DEF IInv, Sound, Told, GoodbyeFirst
  <1>. QED
    BY <1>1, Invariance, PTL

\* And is never reported as a connection that failed (readBroker).
THEOREM NoFalseAlarm == Spec => []GoodbyeIsNoFailure
  <1>1. IInv => GoodbyeIsNoFailure
    BY DEF IInv, TypeOK, Sound, Parted, GoodbyeIsNoFailure, Torn
  <1>. QED
    BY <1>1, Invariance, PTL
=============================================================================
