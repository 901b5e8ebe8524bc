------------------------------ MODULE Watcher ------------------------------
(***************************************************************************)
(* backend/files/watcher.go: one watcher per repository the screen shows,  *)
(* started and stopped by commands that run side by side, and the loop     *)
(* that turns the file system's bursts into "repo:fs-changed".             *)
(*                                                                         *)
(* A watcher is named by the call that made it.  The loop's clock counts   *)
(* the time since it last announced something, up to minEmitInterval: no   *)
(* later moment differs from that one.                                     *)
(***************************************************************************)
EXTENDS Integers, Sequences

CONSTANTS
    MaxCalls,       \* bound: calls of start_watching, stop_watching and StopAll
    Paths,          \* repositories
    None,           \* no watcher
    BufferSize,     \* eventBuffer: events the channel holds
    Window,         \* minEmitInterval, in units of the model's clock
    MaxChanges,     \* bound: changes of the user's files
    MaxNoise        \* bound: writes of git's own bookkeeping

\* Calls are numbered as they come in.
Calls == 1..MaxCalls

ASSUME WatcherAssumption ==
    /\ MaxCalls \in Nat /\ None \notin Calls
    /\ BufferSize \in Nat \ {0} /\ Window \in Nat
    /\ MaxChanges \in Nat /\ MaxNoise \in Nat

VARIABLES
    call,       \* each call: what it does, of which path, where it is, the
                \* watcher it took out and the paths StopAll has left
    registry,   \* r.watchers
    heard,      \* the channels the library writes into
    queue,      \* watcher.events
    stop,       \* the watchers whose stop channel is closed
    loop,       \* each watcher's goroutine
    pending,    \* the loop's pending, of each watcher
    since,      \* time since the loop's lastEmit
    writes,     \* how many changes and how much noise there has been
    owed,       \* history: the watchers that have had a change and not spoken
                \* since, and what the change came to: a word on its way, or
                \* nothing at all
    raced       \* the paths two starts of which were under way at once

vars == <<call, registry, heard, queue, stop, loop, pending, since, writes, owed, raced>>

Stages == {"idle", "list", "take", "close", "wait", "silence", "watch", "install", "returned"}

Call == [op: {"start", "stop", "stopAll", None}, path: Paths \union {None}, at: Stages,
         old: Calls \union {None}, left: SUBSET Paths]

TypeOK ==
    /\ call \in [Calls -> Call]
    /\ registry \in [Paths -> Calls \union {None}]
    /\ heard \subseteq Calls
    /\ queue \in [Calls -> Seq({"change", "noise"})]
    /\ \A w \in Calls : Len(queue[w]) <= BufferSize
    /\ stop \subseteq Calls
    /\ loop \in [Calls -> {"unborn", "running", "done"}]
    /\ pending \subseteq Calls
    /\ since \in [Calls -> 0..Window]
    /\ writes \in [changes: 0..MaxChanges, noise: 0..MaxNoise]
    /\ owed \subseteq Calls \X {"heard", "dropped"}
    /\ raced \subseteq Paths

Init ==
    /\ call = [c \in Calls |-> [op |-> None, path |-> None, at |-> "idle", old |-> None, left |-> {}]]
    /\ registry = [p \in Paths |-> None]
    /\ heard = {} /\ stop = {} /\ pending = {} /\ owed = {} /\ raced = {}
    /\ queue = [w \in Calls |-> <<>>]
    /\ loop = [w \in Calls |-> "unborn"]
    /\ since = [w \in Calls |-> Window]
    /\ writes = [changes |-> 0, noise |-> 0]

-----------------------------------------------------------------------------
(* The calls.  Every one runs in a goroutine of its own, and two of them    *)
(* wait for each other nowhere but at the registry's lock.                  *)

Goes(c, stage) == call' = [call EXCEPT ![c].at = stage]

Busy(c) == call[c].at \notin {"idle", "returned"}

\* A Start that refuses to stop anything: it watches at once.
EntryStraight(op) == IF op = "stopAll" THEN "list" ELSE IF op = "start" THEN "watch" ELSE "take"

\* Start calls Stop before it does anything of its own.
Entry(op) == IF op = "stopAll" THEN "list" ELSE "take"

Begin(c, op, p) ==
    /\ call[c].at = "idle"
    /\ \A d \in 1..(c - 1) : call[d].at # "idle"
    /\ call' = [call EXCEPT ![c].at = Entry(op), ![c].op = op, ![c].path = p]
    /\ raced' = IF op = "start" /\ \E d \in Calls : Busy(d) /\ call[d].op = "start" /\ call[d].path = p
                THEN raced \union {p} ELSE raced
    /\ UNCHANGED <<registry, heard, queue, stop, loop, pending, since, writes, owed>>

\* StopAll's next path, or the end of it.
NextOf(c, left) ==
    IF left = {}
    THEN call' = [call EXCEPT ![c].at = "returned", ![c].left = {}]
    ELSE \E p \in left :
            call' = [call EXCEPT ![c].at = "take", ![c].path = p, ![c].left = left \ {p}]

\* StopAll lists the paths under the lock and stops them one by one after it.
List(c) ==
    /\ call[c].at = "list"
    /\ NextOf(c, {p \in Paths : registry[p] # None})
    /\ UNCHANGED <<registry, heard, queue, stop, loop, pending, since, writes, owed, raced>>

\* What follows once a Stop is over: a Start goes on to its own watch.
AfterStop(c) ==
    CASE call[c].op = "start" -> Goes(c, "watch")
      [] call[c].op = "stop" -> Goes(c, "returned")
      [] call[c].op = "stopAll" -> NextOf(c, call[c].left)

\* Looked up and left in the registry until the loop has ended.
TakeLeaving(c) ==
    LET p == call[c].path IN
    /\ call[c].at = "take"
    /\ IF registry[p] = None
       THEN AfterStop(c)
       ELSE call' = [call EXCEPT ![c].at = "close", ![c].old = registry[p]]
    /\ UNCHANGED <<registry, heard, queue, stop, loop, pending, since, writes, owed, raced>>

\* Looked up and deleted under one lock.
Take(c) ==
    LET p == call[c].path IN
    /\ call[c].at = "take"
    /\ registry' = [registry EXCEPT ![p] = None]
    /\ IF registry[p] = None
       THEN AfterStop(c)
       ELSE call' = [call EXCEPT ![c].at = "close", ![c].old = registry[p]]
    /\ UNCHANGED <<heard, queue, stop, loop, pending, since, writes, owed, raced>>

\* The channel is left open for the loop to notice by itself.
CloseNothing(c) ==
    /\ call[c].at = "close"
    /\ Goes(c, "wait")
    /\ UNCHANGED <<registry, heard, queue, stop, loop, pending, since, writes, owed, raced>>

Close(c) ==
    /\ call[c].at = "close"
    /\ stop' = stop \union {call[c].old}
    /\ Goes(c, "wait")
    /\ UNCHANGED <<registry, heard, queue, loop, pending, since, writes, owed, raced>>

Wait(c) ==
    /\ call[c].at = "wait"
    /\ loop[call[c].old] = "done"
    /\ Goes(c, "silence")
    /\ UNCHANGED <<registry, heard, queue, stop, loop, pending, since, writes, owed, raced>>

\* notify.Stop, and on to what the call does next.
Silence(c) ==
    /\ call[c].at = "silence"
    /\ heard' = heard \ {call[c].old}
    /\ AfterStop(c)
    /\ UNCHANGED <<registry, queue, stop, loop, pending, since, writes, owed, raced>>

\* notify.Watch, whose failure is the command's answer: the watch that was
\* replaced is gone either way.
Watch(c) ==
    /\ call[c].at = "watch"
    /\ \/ /\ heard' = heard \union {c}
          /\ Goes(c, "install")
       \/ /\ Goes(c, "returned")
          /\ UNCHANGED heard
    /\ UNCHANGED <<registry, queue, stop, loop, pending, since, writes, owed, raced>>

\* Into the registry, whatever is there, and the loop begins.
Install(c) ==
    /\ call[c].at = "install"
    /\ registry' = [registry EXCEPT ![call[c].path] = c]
    /\ loop' = [loop EXCEPT ![c] = "running"]
    /\ Goes(c, "returned")
    /\ UNCHANGED <<heard, queue, stop, pending, since, writes, owed, raced>>

-----------------------------------------------------------------------------
(* The file system.  The library drops what does not fit.                   *)

Delivered(w, kind) == IF Len(queue[w]) < BufferSize THEN Append(queue[w], kind) ELSE queue[w]

\* Between the end of a loop and notify.Stop nobody reads the channel.
Listeners(p) == {w \in heard : call[w].path = p /\ loop[w] # "done"}

Happens(p, kind) ==
    queue' = [w \in Calls |-> IF w \in Listeners(p) THEN Delivered(w, kind) ELSE queue[w]]

\* A change that finds the buffer full is dropped; another that is in the buffer
\* or pending speaks for it, but git's bookkeeping does not.
Heard(w) ==
    \/ Len(queue[w]) < BufferSize
    \/ w \in pending
    \/ \E i \in DOMAIN queue[w] : queue[w][i] = "change"

Change(p) ==
    /\ writes.changes < MaxChanges
    /\ writes' = [writes EXCEPT !.changes = @ + 1]
    /\ Happens(p, "change")
    /\ owed' = owed \union {<<w, IF Heard(w) THEN "heard" ELSE "dropped">> : w \in Listeners(p)}
    /\ UNCHANGED <<call, registry, heard, stop, loop, pending, since, raced>>

Noise(p) ==
    /\ writes.noise < MaxNoise
    /\ writes' = [writes EXCEPT !.noise = @ + 1]
    /\ Happens(p, "noise")
    /\ UNCHANGED <<call, registry, heard, stop, loop, pending, since, owed, raced>>

-----------------------------------------------------------------------------
(* The loop.                                                                *)

\* Once a watcher has spoken, or has ended, it owes nothing.
Settled(w) == {o \in owed : o[1] # w}

\* A plain leading-edge throttle: what falls inside the window is forgotten.
FlushOnce(w, flagged) ==
    /\ pending' = pending \ {w}
    /\ IF flagged /\ since[w] >= Window
       THEN /\ since' = [since EXCEPT ![w] = 0]
            /\ owed' = Settled(w)
       ELSE UNCHANGED <<since, owed>>

\* flush, with the flag as it is after the event: it speaks if something is
\* pending and the window is over, and otherwise leaves the flag for later.
Flush(w, flagged) ==
    IF flagged /\ since[w] >= Window
    THEN /\ pending' = pending \ {w}
         /\ since' = [since EXCEPT ![w] = 0]
         /\ owed' = Settled(w)
    ELSE /\ pending' = IF flagged THEN pending \union {w} ELSE pending
         /\ UNCHANGED <<since, owed>>

Hear(w) ==
    /\ loop[w] = "running"
    /\ queue[w] # <<>>
    /\ queue' = [queue EXCEPT ![w] = Tail(@)]
    /\ Flush(w, w \in pending \/ Head(queue[w]) = "change")
    /\ UNCHANGED <<call, registry, heard, stop, loop, writes, raced>>

\* A tick that finds nothing to say changes nothing.
Tick(w) ==
    /\ loop[w] = "running"
    /\ w \in pending /\ since[w] >= Window
    /\ Flush(w, TRUE)
    /\ UNCHANGED <<call, registry, heard, queue, stop, loop, writes, raced>>

\* select takes any case that is ready: a closed stop may have to wait for
\* events that are in the buffer too.  Nothing reads what the loop leaves
\* behind, so it leaves nothing.
LoopEnds(w) ==
    /\ loop[w] = "running"
    /\ w \in stop
    /\ loop' = [loop EXCEPT ![w] = "done"]
    /\ queue' = [queue EXCEPT ![w] = <<>>]
    /\ since' = [since EXCEPT ![w] = Window]
    /\ pending' = pending \ {w}
    /\ owed' = Settled(w)
    /\ UNCHANGED <<call, registry, heard, stop, writes, raced>>

TimePasses(w) ==
    /\ loop[w] = "running"
    /\ since[w] < Window
    /\ since' = [since EXCEPT ![w] = @ + 1]
    /\ UNCHANGED <<call, registry, heard, queue, stop, loop, pending, writes, owed, raced>>

-----------------------------------------------------------------------------
CallStep(c) == List(c) \/ Take(c) \/ Close(c) \/ Wait(c) \/ Silence(c)
               \/ Watch(c) \/ Install(c)

Next ==
    \/ \E c \in Calls, op \in {"start", "stop", "stopAll"}, p \in Paths : Begin(c, op, p)
    \/ \E c \in Calls : CallStep(c)
    \/ \E p \in Paths : Change(p) \/ Noise(p)
    \/ \E w \in Calls : Hear(w) \/ Tick(w) \/ LoopEnds(w) \/ TimePasses(w)

Spec == Init /\ [][Next]_vars

\* A call that began goes on, the runtime schedules every loop and serves
\* every case of its select, and time passes.  Nobody has to call or write.
Fairness ==
    /\ \A c \in Calls : WF_vars(CallStep(c))
    /\ \A w \in Calls : /\ WF_vars(Hear(w)) /\ WF_vars(Tick(w))
                        /\ WF_vars(LoopEnds(w)) /\ WF_vars(TimePasses(w))

FairSpec == Spec /\ Fairness

-----------------------------------------------------------------------------
(* Two calls never have hold of one watcher, and none holds one whose stop   *)
(* channel another closed: closing a closed channel panics (watcher.go:125). *)
StoppedOnce ==
    /\ \A c, d \in Calls :
         c # d /\ {call[c].at, call[d].at} \subseteq {"close", "wait"} => call[c].old # call[d].old
    /\ \A c \in Calls : call[c].at = "close" => call[c].old \notin stop

(* A watcher that runs and that nobody is about to stop is the one in the    *)
(* registry, where the next Start or Stop will find it -- unless two Starts  *)
(* of its path were under way at once (watcher.go:79): "a second watcher on  *)
(* the same path would double every event".                                  *)
OnlyARaceLeaks ==
    \A w \in Calls :
        loop[w] = "running" /\ w \notin stop /\ call[w].path \notin raced =>
            \/ registry[call[w].path] = w
            \/ \E c \in Calls : call[c].at \in {"close", "wait"} /\ call[c].old = w

(* What Start says of itself: it replaces the watch already running for the  *)
(* path, since "a second watcher on the same path would double every event"  *)
(* (watcher.go:77).  The code does not keep it: of two Starts that overlap   *)
(* the one that installs last hides the other, which nobody stops again.     *)
OneWatcherAPath ==
    \A v, w \in Calls :
        /\ {loop[v], loop[w]} = {"running"} /\ {v, w} \cap stop = {}
        /\ call[v].path = call[w].path
        => v = w

(* A call waits for a loop and nothing else: it returns, whatever the other  *)
(* calls and the file system do (watcher.go:126).                            *)
EveryCallReturns == \A c \in Calls : Busy(c) ~> (call[c].at = "returned")

Announced(w, what) == (<<w, what>> \in owed) ~> (<<w, what>> \notin owed \/ w \in stop)

(* A change of a file is announced even if nothing happens after it, the     *)
(* burst it ends falls inside the window and its own event was dropped from  *)
(* a buffer that holds another change: "silently lost whatever landed inside *)
(* the window" (watcher.go:20) is the bug the design is there to prevent.    *)
WhatIsHeardIsAnnounced == \A w \in Calls : Announced(w, "heard")

(* What eventBuffer says of the events that are dropped: one of them costs   *)
(* nothing "as long as at least one arrives, and the throttle below          *)
(* guarantees one does" (watcher.go:43), so every change is announced.  The  *)
(* code does not keep it: a buffer full of git's own bookkeeping drops the   *)
(* change, and the loop discards all that is left (watcher.go:166).          *)
EveryChangeIsAnnounced == \A w \in Calls : Announced(w, "heard") /\ Announced(w, "dropped")
=============================================================================
