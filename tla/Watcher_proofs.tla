--------------------------- MODULE Watcher_proofs ---------------------------
(***************************************************************************)
(* One watcher per repository and every watcher stopped once, for any      *)
(* number of calls that overlap in any way, any number of repositories and *)
(* any size of the event channel.                                          *)
(***************************************************************************)
EXTENDS Watcher, SequenceTheorems, TLAPS

\* The stages of a call that has taken a watcher out of the registry.
Holding == {"close", "wait", "silence"}

\* The stages of a Start between its Stop and its return.
Watching == {"watch", "install"}

\* What a call's stage says of what it was asked.
Placed ==
    \A c \in Calls :
        /\ call[c].at # "idle" =>
               call[c].op \in {"start", "stop", "stopAll"} /\ call[c].path \in Paths
        /\ call[c].at \in Watching => call[c].op = "start"
        /\ call[c].at = "list" => call[c].op = "stopAll"
        /\ call[c].at \in Holding => call[c].old \in Calls

\* A loop is born when its Start returns, and dies with its stop channel closed.
Born ==
    \A w \in Calls :
        loop[w] # "unborn" => call[w].op = "start" /\ call[w].at = "returned"

\* The registry holds running watchers of its paths that nobody has hold of.
Registered ==
    \A p \in Paths : registry[p] # None =>
        /\ loop[registry[p]] = "running" /\ registry[p] \notin stop
        /\ call[registry[p]].path = p
        /\ \A c \in Calls : call[c].at \in Holding => call[c].old # registry[p]

\* Whoever holds a watcher took it out of the registry, and nobody else did.
Held ==
    \A c \in Calls : call[c].at \in Holding =>
        /\ loop[call[c].old] # "unborn"
        /\ call[c].at = "close" => call[c].old \notin stop /\ loop[call[c].old] = "running"
        /\ call[c].at = "silence" => loop[call[c].old] = "done"
        /\ \A d \in Calls \ {c} : call[d].at \in Holding => call[d].old # call[c].old

\* Two Starts of one path that are under way at once are a race.
Races ==
    \A c, d \in Calls :
        c # d /\ Busy(c) /\ Busy(d) /\ call[c].op = "start" /\ call[d].op = "start"
        /\ call[c].path = call[d].path => call[c].path \in raced

\* Without one, a Start that has stopped what there was finds the registry empty.
Cleared ==
    \A c \in Calls :
        call[c].op = "start" /\ call[c].at \in Holding \union Watching
        /\ call[c].path \notin raced => registry[call[c].path] = None

Stopping == \A w \in stop : loop[w] # "unborn"

IInv == /\ TypeOK /\ Placed /\ Born /\ Registered /\ Held /\ Races /\ Cleared /\ Stopping
        /\ OnlyARaceLeaks

-----------------------------------------------------------------------------
(***************************************************************************)
(* What a call's step leaves alone.                                        *)
(***************************************************************************)

\* A record with another stage, and what goes with it, is a record of a call.
LEMMA CallFields ==
    ASSUME NEW r \in Call, NEW s \in Stages
    PROVE  /\ [r EXCEPT !.at = s] \in Call
           /\ \A w \in Calls : [r EXCEPT !.at = s, !.old = w] \in Call
           /\ \A l \in SUBSET Paths :
                /\ [r EXCEPT !.at = s, !.left = l] \in Call
                /\ \A p \in Paths : [r EXCEPT !.at = s, !.path = p, !.left = l] \in Call
  BY DEF Call

\* A function of calls with another record in one place.
LEMMA OneCall ==
    ASSUME call \in [Calls -> Call], NEW c \in Calls, NEW r \in Call,
           call' = [call EXCEPT ![c] = r]
    PROVE  /\ call' \in [Calls -> Call]
           /\ call'[c] = r
           /\ \A d \in Calls \ {c} : call'[d] = call[d]
  OBVIOUS

\* A call that goes on to a stage.
LEMMA GoesFrame ==
    ASSUME TypeOK, NEW c \in Calls, NEW s \in Stages, Goes(c, s)
    PROVE  /\ call' \in [Calls -> Call]
           /\ \A d \in Calls \ {c} : call'[d] = call[d]
           /\ call'[c].op = call[c].op /\ call'[c].old = call[c].old
           /\ call'[c].path = call[c].path /\ call'[c].at = s
  <1>1. call[c] \in Call /\ call \in [Calls -> Call]
    BY DEF TypeOK
  <1>2. [call[c] EXCEPT !.at = s] \in Call
    BY <1>1, CallFields
  <1>3. call' = [call EXCEPT ![c] = [call[c] EXCEPT !.at = s]]
    BY DEF Goes
  <1>. QED
    BY <1>1, <1>2, <1>3, OneCall DEF Call

\* The next path of StopAll: only the call itself moves.
LEMMA NextOfFrame ==
    ASSUME TypeOK, NEW c \in Calls, NEW left \in SUBSET Paths, NextOf(c, left)
    PROVE  /\ call' \in [Calls -> Call]
           /\ \A d \in Calls \ {c} : call'[d] = call[d]
           /\ call'[c].op = call[c].op /\ call'[c].old = call[c].old
           /\ \/ call'[c].at = "returned" /\ call'[c].path = call[c].path
              \/ call'[c].at = "take" /\ call'[c].path \in Paths
  <1>. call[c] \in Call /\ call \in [Calls -> Call] /\ {"returned", "take"} \subseteq Stages
    BY DEF TypeOK, Stages
  <1>1. CASE left = {}
    <2>1. call' = [call EXCEPT ![c] = [call[c] EXCEPT !.at = "returned", !.left = {}]]
      BY <1>1 DEF NextOf
    <2>2. [call[c] EXCEPT !.at = "returned", !.left = {}] \in Call
      BY <1>1, CallFields
    <2>. QED
      BY <2>1, <2>2, OneCall DEF Call
  <1>2. CASE left # {}
    <2>1. PICK p \in left :
            call' = [call EXCEPT ![c].at = "take", ![c].path = p, ![c].left = left \ {p}]
      BY <1>2 DEF NextOf
    <2>2. call' = [call EXCEPT ![c] = [call[c] EXCEPT !.at = "take", !.path = p, !.left = left \ {p}]]
      BY <2>1
    <2>3. [call[c] EXCEPT !.at = "take", !.path = p, !.left = left \ {p}] \in Call
      BY CallFields
    <2>. QED
      BY <2>2, <2>3, OneCall DEF Call
  <1>. QED
    BY <1>1, <1>2

\* What follows a Stop: a Start goes on to its watch and keeps its path.
LEMMA AfterStopFrame ==
    ASSUME TypeOK, Placed, NEW c \in Calls, call[c].at # "idle", AfterStop(c)
    PROVE  /\ call' \in [Calls -> Call]
           /\ \A d \in Calls \ {c} : call'[d] = call[d]
           /\ call'[c].op = call[c].op /\ call'[c].old = call[c].old
           /\ call'[c].path \in Paths
           /\ call'[c].at \in {"watch", "take", "returned"}
           /\ call[c].op = "start" => call'[c].at = "watch" /\ call'[c].path = call[c].path
           /\ call[c].op # "start" => call'[c].at # "watch"
  <1>. call[c].op \in {"start", "stop", "stopAll"} /\ call[c].path \in Paths
    BY DEF Placed
  <1>. {"watch", "returned"} \subseteq Stages
    BY DEF Stages
  <1>1. CASE call[c].op = "start"
    BY <1>1, GoesFrame DEF AfterStop
  <1>2. CASE call[c].op = "stop"
    BY <1>2, GoesFrame DEF AfterStop
  <1>3. CASE call[c].op = "stopAll"
    <2>1. NextOf(c, call[c].left)
      BY <1>3 DEF AfterStop
    <2>2. call[c].left \in SUBSET Paths
      BY DEF TypeOK, Call
    <2>. QED
      BY <1>3, <2>1, <2>2, NextOfFrame
  <1>. QED
    BY <1>1, <1>2, <1>3

\* Where a call has come from.
Follows(c) ==
    /\ call'[c].at # "list"
    /\ call'[c].at = "close"   => call[c].at = "take"
    /\ call'[c].at = "wait"    => call[c].at = "close"
    /\ call'[c].at = "silence" => call[c].at = "wait"
    /\ call'[c].at = "watch"   => call[c].at \in {"take", "silence"}
    /\ call'[c].at = "install" => call[c].at = "watch"

\* A call's step as the others see it.
Moves(c) ==
    /\ call' \in [Calls -> Call]
    /\ \A d \in Calls \ {c} : call'[d] = call[d]
    /\ call'[c].op = call[c].op
    /\ call[c].op = "start" => call'[c].path = call[c].path
    /\ call'[c].at \in Holding => call'[c].path = call[c].path /\ call'[c].old \in Calls
    /\ call'[c].at = "close" => call'[c].old = registry[call[c].path]
    /\ call'[c].at \in {"wait", "silence"} => call'[c].old = call[c].old
    /\ call'[c].path \in Paths
    /\ Busy(c) /\ call'[c].at # "idle"
    /\ call'[c].at = "watch" => call[c].op = "start"
    /\ Follows(c)

LEMMA CallMoves ==
    ASSUME TypeOK, Placed, NEW c \in Calls, CallStep(c)
    PROVE  Moves(c)
  <1>. {"close", "wait", "silence", "install", "returned"} \subseteq Stages
    BY DEF Stages
  <1>1. CASE List(c)
    <2>1. call[c].at = "list" /\ NextOf(c, {p \in Paths : registry[p] # None})
      BY <1>1 DEF List
    <2>2. call[c].op = "stopAll" /\ call[c].path \in Paths
      BY <2>1 DEF Placed
    <2>. QED
      BY <2>1, <2>2, NextOfFrame DEF Moves, Follows, Busy, Holding
  <1>2. CASE Take(c)
    <2>1. call[c].at = "take" /\ call[c].path \in Paths
      BY <1>2 DEF Take, Placed
    <2>2. CASE registry[call[c].path] = None
      BY <1>2, <2>1, <2>2, AfterStopFrame DEF Take, Moves, Follows, Busy, Holding
    <2>3. CASE registry[call[c].path] # None
      <3>1. call' = [call EXCEPT ![c] = [call[c] EXCEPT !.at = "close", !.old = registry[call[c].path]]]
        BY <1>2, <2>3 DEF Take
      <3>2. registry[call[c].path] \in Calls /\ call[c] \in Call /\ call \in [Calls -> Call]
        BY <2>1, <2>3 DEF TypeOK
      <3>3. [call[c] EXCEPT !.at = "close", !.old = registry[call[c].path]] \in Call
        BY <3>2, CallFields
      <3>. QED
        BY <2>1, <3>1, <3>2, <3>3, OneCall DEF Moves, Follows, Busy, Holding, Call
    <2>. QED
      BY <2>2, <2>3
  <1>3. CASE Close(c)
    BY <1>3, GoesFrame DEF Close, Placed, Holding, Moves, Follows, Busy
  <1>4. CASE Wait(c)
    BY <1>4, GoesFrame DEF Wait, Placed, Holding, Moves, Follows, Busy
  <1>5. CASE Silence(c)
    BY <1>5, AfterStopFrame DEF Silence, Moves, Follows, Busy, Holding
  <1>6. CASE Watch(c)
    <2>1. call[c].at = "watch" /\ (Goes(c, "install") \/ Goes(c, "returned"))
      BY <1>6 DEF Watch
    <2>. QED
      BY <2>1, GoesFrame DEF Placed, Holding, Moves, Follows, Busy
  <1>7. CASE Install(c)
    BY <1>7, GoesFrame DEF Install, Placed, Holding, Moves, Follows, Busy
  <1>. QED
    BY <1>1, <1>2, <1>3, <1>4, <1>5, <1>6, <1>7 DEF CallStep

-----------------------------------------------------------------------------
(***************************************************************************)
(* The invariant at the start, and under the steps of a call.              *)
(***************************************************************************)
LEMMA InitIInv == Init => IInv
  <1> SUFFICES ASSUME Init PROVE IInv
    OBVIOUS
  <1>1. TypeOK
    <2>1. call \in [Calls -> Call]
      BY DEF Init, Call, Stages
    <2>2. \A w \in Calls : queue[w] = <<>> /\ Len(queue[w]) <= BufferSize
      BY WatcherAssumption DEF Init
    <2>3. /\ registry \in [Paths -> Calls \union {None}]
          /\ loop \in [Calls -> {"unborn", "running", "done"}]
          /\ since \in [Calls -> 0..Window]
          /\ writes \in [changes: 0..MaxChanges, noise: 0..MaxNoise]
      BY WatcherAssumption DEF Init
    <2>4. queue \in [Calls -> Seq({"change", "noise"})]
      BY DEF Init
    <2>. QED
      BY <2>1, <2>2, <2>3, <2>4 DEF Init, TypeOK
  <1>2. /\ \A c \in Calls : call[c].at = "idle"
        /\ \A p \in Paths : registry[p] = None
        /\ \A w \in Calls : loop[w] = "unborn"
        /\ stop = {}
    BY DEF Init
  <1>. QED
    BY <1>1, <1>2, WatcherAssumption
    DEF IInv, Placed, Born, Registered, Held, Races, Cleared, Stopping, OnlyARaceLeaks,
        Holding, Watching, Busy

\* The channels keep their shape and their size.
QueueOK == queue \in [Calls -> Seq({"change", "noise"})] /\ \A w \in Calls : Len(queue[w]) <= BufferSize

LEMMA QueueKept ==
    ASSUME TypeOK
    PROVE  /\ \A p \in Paths, kind \in {"change", "noise"} : Happens(p, kind) => QueueOK'
           /\ \A w \in Calls : queue[w] # <<>> /\ queue' = [queue EXCEPT ![w] = Tail(@)] => QueueOK'
           /\ \A w \in Calls : queue' = [queue EXCEPT ![w] = <<>>] => QueueOK'
           /\ UNCHANGED queue => QueueOK'
  <1>. queue \in [Calls -> Seq({"change", "noise"})] /\ (\A w \in Calls : Len(queue[w]) <= BufferSize)
       /\ BufferSize \in Nat \ {0}
    BY WatcherAssumption DEF TypeOK
  <1>1. ASSUME NEW p \in Paths, NEW kind \in {"change", "noise"}, Happens(p, kind) PROVE QueueOK'
    <2>1. ASSUME NEW w \in Calls
          PROVE  Delivered(w, kind) \in Seq({"change", "noise"}) /\ Len(Delivered(w, kind)) <= BufferSize
      BY <2>1 DEF Delivered
    <2>2. queue' = [w \in Calls |-> IF w \in Listeners(p) THEN Delivered(w, kind) ELSE queue[w]]
      BY <1>1 DEF Happens
    <2>. QED
      BY <2>1, <2>2 DEF QueueOK
  <1>2. ASSUME NEW w \in Calls, queue[w] # <<>>, queue' = [queue EXCEPT ![w] = Tail(@)] PROVE QueueOK'
    <2>1. Tail(queue[w]) \in Seq({"change", "noise"}) /\ Len(Tail(queue[w])) <= BufferSize
      BY <1>2
    <2>. QED
      BY <1>2, <2>1 DEF QueueOK
  <1>3. ASSUME NEW w \in Calls, queue' = [queue EXCEPT ![w] = <<>>] PROVE QueueOK'
    BY <1>3 DEF QueueOK
  <1>4. UNCHANGED queue => QueueOK'
    BY DEF QueueOK
  <1>. QED
    BY <1>1, <1>2, <1>3, <1>4

\* A call's step keeps the shape of the state.
LEMMA CallKeepsType ==
    ASSUME TypeOK, Placed, NEW c \in Calls, CallStep(c)
    PROVE  TypeOK'
  <1>1. Moves(c)
    BY CallMoves
  <1>2. QueueOK'
    <2>1. UNCHANGED queue
      BY DEF CallStep, List, Take, Close, Wait, Silence, Watch, Install
    <2>. QED
      BY <2>1, QueueKept
  <1>3. registry' \in [Paths -> Calls \union {None}]
    <2>1. CASE Take(c)
      BY <2>1 DEF Take, TypeOK
    <2>2. CASE Install(c)
      BY <2>2 DEF Install, TypeOK
    <2>3. CASE UNCHANGED registry
      BY <2>3 DEF TypeOK
    <2>. QED
      BY <2>1, <2>2, <2>3 DEF CallStep, List, Close, Wait, Silence, Watch
  <1>5. stop' \subseteq Calls
    BY DEF CallStep, List, Take, Close, Wait, Silence, Watch, Install, TypeOK, Placed, Holding
  <1>6. heard' \subseteq Calls
    BY DEF CallStep, List, Take, Close, Wait, Silence, Watch, Install, TypeOK
  <1>7. loop' \in [Calls -> {"unborn", "running", "done"}]
    BY DEF CallStep, List, Take, Close, Wait, Silence, Watch, Install, TypeOK
  <1>4. UNCHANGED <<pending, since, writes, owed, raced>>
    BY DEF CallStep, List, Take, Close, Wait, Silence, Watch, Install
  <1>. QED
    BY <1>1, <1>2, <1>3, <1>4, <1>5, <1>6, <1>7 DEF TypeOK, Moves, QueueOK

\* A call's step keeps every stage where it belongs, and no race is forgotten.
LEMMA CallKeepsPlaced ==
    ASSUME IInv, NEW c \in Calls, CallStep(c)
    PROVE  Placed' /\ Races'
  <1>1. Moves(c) /\ Placed /\ Races /\ UNCHANGED raced
    BY CallMoves DEF IInv, CallStep, List, Take, Close, Wait, Silence, Watch, Install
  <1>2. call[c].op \in {"start", "stop", "stopAll"} /\ call[c].at # "idle"
    BY <1>1 DEF Moves, Busy, Placed
  <1>3. ASSUME NEW d \in Calls, Busy(d)' PROVE Busy(d)
    BY <1>1, <1>3 DEF Moves, Busy
  <1>4. ASSUME NEW d \in Calls
        PROVE  call'[d].op = call[d].op /\ (call[d].op = "start" => call'[d].path = call[d].path)
    BY <1>1 DEF Moves
  <1>5. Races'
    BY <1>1, <1>3, <1>4 DEF Races
  <1>6. ASSUME NEW d \in Calls
        PROVE  /\ call'[d].at # "idle" =>
                      call'[d].op \in {"start", "stop", "stopAll"} /\ call'[d].path \in Paths
               /\ call'[d].at \in Watching => call'[d].op = "start"
               /\ call'[d].at = "list" => call'[d].op = "stopAll"
               /\ call'[d].at \in Holding => call'[d].old \in Calls
    <2>1. CASE d # c
      BY <1>1, <2>1 DEF Moves, Placed
    <2>2. CASE d = c /\ call'[c].at = "install"
      BY <1>1, <1>2, <2>2 DEF Moves, Follows, Placed, Busy, Watching, Holding
    <2>3. CASE d = c /\ call'[c].at # "install"
      BY <1>1, <1>2, <2>3 DEF Moves, Follows, Placed, Busy, Watching, Holding
    <2>. QED
      BY <2>1, <2>2, <2>3
  <1>. QED
    BY <1>5, <1>6 DEF Placed

\* The part of the invariant about who has hold of which watcher.
Owners == Born /\ Registered /\ Held /\ Cleared /\ Stopping /\ OnlyARaceLeaks

\* A call that has not returned owns no watcher, and the watchers there are
\* belong to calls that a step leaves as they are.
LEMMA Idlers ==
    ASSUME IInv, NEW c \in Calls, CallStep(c)
    PROVE  /\ loop[c] = "unborn" /\ c \notin stop
           /\ \A p \in Paths : registry[p] # c
           /\ \A d \in Calls : call[d].at \in Holding => call[d].old # c
           /\ \A w \in Calls : loop[w] # "unborn" => w # c /\ call'[w] = call[w]
  <1>1. Moves(c) /\ Busy(c)
    BY CallMoves DEF IInv, Moves
  <1>2. loop[c] = "unborn"
    BY <1>1 DEF IInv, Born, Busy, TypeOK
  <1>. QED
    BY <1>1, <1>2, WatcherAssumption DEF IInv, Stopping, Registered, Held, Moves

\* As long as nobody takes hold of a watcher, the registry stays as sound as it was.
LEMMA RegistryKept ==
    ASSUME IInv, NEW c \in Calls, CallStep(c), UNCHANGED <<registry, loop>>,
           \A p \in Paths : registry[p] # None => registry[p] \notin stop',
           \A d \in Calls : call'[d].at \in Holding =>
               call[d].at \in Holding /\ call'[d].old = call[d].old
    PROVE  Registered'
  <1>. SUFFICES ASSUME NEW p \in Paths, registry[p] # None
                PROVE  /\ loop[registry[p]] = "running" /\ call'[registry[p]].path = p
                       /\ \A d \in Calls : call'[d].at \in Holding => call'[d].old # registry[p]
    BY DEF Registered
  <1>1. registry[p] \in Calls
    BY DEF IInv, TypeOK
  <1>2. /\ loop[registry[p]] = "running" /\ call[registry[p]].path = p
        /\ \A d \in Calls : call[d].at \in Holding => call[d].old # registry[p]
    BY DEF IInv, Registered
  <1>3. call'[registry[p]] = call[registry[p]]
    BY <1>1, <1>2, Idlers
  <1>. QED
    BY <1>2, <1>3

LEMMA ListKeeps == ASSUME IInv, NEW c \in Calls, List(c) PROVE Owners'
  <1>. CallStep(c)
    BY DEF CallStep
  <1>1. Moves(c)
    BY CallMoves DEF IInv
  <1>2. call[c].at = "list" /\ call'[c].at \notin Holding \union Watching
        /\ UNCHANGED <<registry, stop, loop, raced>>
    BY <1>1, NextOfFrame DEF List, IInv, Moves, Follows, Holding, Watching
  <1>3. \A d \in Calls : call'[d].at \in Holding \union Watching => call'[d] = call[d]
    BY <1>1, <1>2 DEF Moves
  <1>4. Born' /\ Stopping'
    BY <1>2, Idlers DEF IInv, Born, Stopping, TypeOK
  <1>5. Registered'
    BY <1>2, <1>3, RegistryKept DEF IInv, Registered
  <1>6. Held'
    BY <1>2, <1>3 DEF IInv, Held, Holding
  <1>7. Cleared'
    BY <1>2, <1>3 DEF IInv, Cleared
  <1>8. OnlyARaceLeaks'
    BY <1>1, <1>2, Idlers DEF IInv, OnlyARaceLeaks, Moves
  <1>. QED
    BY <1>4, <1>5, <1>6, <1>7, <1>8 DEF Owners

LEMMA TakeKeeps == ASSUME IInv, NEW c \in Calls, Take(c) PROVE Owners'
  <1> DEFINE p == call[c].path
  <1>. CallStep(c)
    BY DEF CallStep
  <1>1. Moves(c) /\ p \in Paths /\ call[c].at = "take"
    BY CallMoves DEF IInv, Placed, Take
  <1>2. /\ UNCHANGED <<stop, loop, raced>>
        /\ registry'[p] = None
        /\ \A q \in Paths \ {p} : registry'[q] = registry[q]
    BY <1>1 DEF Take, IInv, TypeOK
  <1>3. \/ registry[p] = None /\ call'[c].at \notin Holding
        \/ registry[p] \in Calls /\ call'[c].at = "close" /\ call'[c].old = registry[p]
    <2>1. CASE registry[p] = None
      BY <1>1, <2>1, AfterStopFrame DEF Take, IInv, Holding
    <2>2. CASE registry[p] # None
      <3>1. registry[p] \in Calls
        BY <1>1, <2>2 DEF IInv, TypeOK
      <3>2. call'[c].at = "close"
        BY <1>1, <2>2, <3>1 DEF Take, IInv, TypeOK, Call
      <3>. QED
        BY <1>1, <3>1, <3>2 DEF Moves
    <2>. QED
      BY <2>1, <2>2
  <1>4. Born' /\ Stopping'
    BY <1>2, Idlers DEF IInv, Born, Stopping, TypeOK
  <1>5. Registered'
    <2>. SUFFICES ASSUME NEW q \in Paths, registry'[q] # None
                  PROVE  /\ loop'[registry'[q]] = "running" /\ registry'[q] \notin stop'
                         /\ call'[registry'[q]].path = q
                         /\ \A d \in Calls : call'[d].at \in Holding => call'[d].old # registry'[q]
      BY DEF Registered
    <2>1. q # p /\ registry'[q] = registry[q] /\ registry[q] \in Calls
      BY <1>2 DEF IInv, TypeOK
    <2>2. /\ loop[registry[q]] = "running" /\ registry[q] \notin stop /\ call[registry[q]].path = q
          /\ \A d \in Calls : call[d].at \in Holding => call[d].old # registry[q]
      BY <2>1 DEF IInv, Registered
    <2>3. call'[registry[q]].path = q
      BY <2>1, <2>2, Idlers
    <2>4. registry[p] # registry[q]
      BY <1>1, <2>1, <2>2 DEF IInv, Registered
    <2>. QED
      BY <1>1, <1>2, <1>3, <2>1, <2>2, <2>3, <2>4 DEF Moves
  <1>6. Held'
    <2>1. ASSUME call'[c].at \in Holding
          PROVE  /\ call'[c].at = "close" /\ call'[c].old = registry[p] /\ registry[p] \in Calls
                 /\ loop[registry[p]] = "running" /\ registry[p] \notin stop
                 /\ \A d \in Calls : call[d].at \in Holding => call[d].old # registry[p]
      BY <1>1, <1>3, <2>1, WatcherAssumption DEF IInv, Registered
    <2>2. \A d \in Calls \ {c} : call'[d] = call[d]
      BY <1>1 DEF Moves
    <2>. QED
      BY <1>1, <1>2, <2>1, <2>2 DEF IInv, Held, Holding
  <1>7. Cleared'
    <2>. SUFFICES ASSUME NEW d \in Calls, call'[d].op = "start", call'[d].at \in Holding \union Watching,
                         call'[d].path \notin raced'
                  PROVE  registry'[call'[d].path] = None
      BY DEF Cleared
    <2>1. CASE d = c
      BY <1>1, <1>2, <2>1 DEF Moves
    <2>2. CASE d # c
      <3>1. registry[call[d].path] = None /\ call'[d] = call[d] /\ call[d].path \in Paths
        BY <1>1, <1>2, <2>2 DEF Moves, IInv, Cleared, Placed, Holding, Watching
      <3>. QED
        BY <1>2, <3>1
    <2>. QED
      BY <2>1, <2>2
  <1>8. OnlyARaceLeaks'
    <2>. SUFFICES ASSUME NEW w \in Calls, loop'[w] = "running", w \notin stop', call'[w].path \notin raced'
                  PROVE  \/ registry'[call'[w].path] = w
                         \/ \E d \in Calls : call'[d].at \in {"close", "wait"} /\ call'[d].old = w
      BY DEF OnlyARaceLeaks
    <2>1. call'[w] = call[w] /\ call[w].path \in Paths
      BY <1>2, Idlers DEF IInv, Born, Placed
    <2>2. CASE registry[call[w].path] = w
      BY <1>2, <1>3, <2>1, <2>2, WatcherAssumption
    <2>3. CASE \E d \in Calls : call[d].at \in {"close", "wait"} /\ call[d].old = w
      BY <1>1, <2>3 DEF Moves
    <2>. QED
      BY <1>2, <2>1, <2>2, <2>3 DEF IInv, OnlyARaceLeaks
  <1>. QED
    BY <1>4, <1>5, <1>6, <1>7, <1>8 DEF Owners

LEMMA CloseKeeps == ASSUME IInv, NEW c \in Calls, Close(c) PROVE Owners'
  <1> DEFINE w0 == call[c].old
  <1>. CallStep(c)
    BY DEF CallStep
  <1>1. Moves(c) /\ w0 \in Calls /\ call[c].at = "close" /\ loop[w0] # "unborn"
    BY CallMoves DEF IInv, Placed, Held, Holding, Close
  <1>2. call'[c].at = "wait" /\ call'[c].old = w0 /\ call'[c].path = call[c].path
        /\ UNCHANGED <<registry, loop, raced>> /\ stop' = stop \union {w0}
    BY <1>1, GoesFrame DEF Close, IInv, Stages
  <1>3. \A d \in Calls : /\ d # c => call'[d] = call[d]
                         /\ call'[d].at \in Holding => call[d].at \in Holding
                         /\ call'[d].old = call[d].old /\ call'[d].path = call[d].path
    BY <1>1, <1>2 DEF Moves, Holding
  <1>4. Born' /\ Stopping'
    BY <1>1, <1>2, Idlers DEF IInv, Born, Stopping, TypeOK
  <1>5. Registered'
    <2>1. \A p \in Paths : registry[p] # None => registry[p] \notin stop'
      BY <1>1, <1>2 DEF IInv, Registered, Holding
    <2>. QED
      BY <1>2, <1>3, <2>1, RegistryKept
  <1>6. Held'
    BY <1>1, <1>2, <1>3 DEF IInv, Held, Holding
  <1>7. Cleared'
    BY <1>1, <1>2, <1>3 DEF IInv, Cleared, Moves, Holding
  <1>8. OnlyARaceLeaks'
    BY <1>1, <1>2, <1>3, Idlers DEF IInv, OnlyARaceLeaks
  <1>. QED
    BY <1>4, <1>5, <1>6, <1>7, <1>8 DEF Owners

LEMMA WaitKeeps == ASSUME IInv, NEW c \in Calls, Wait(c) PROVE Owners'
  <1>. CallStep(c)
    BY DEF CallStep
  <1>1. Moves(c) /\ call[c].at = "wait" /\ loop[call[c].old] = "done"
    BY CallMoves DEF IInv, Wait
  <1>2. call'[c].at = "silence" /\ call'[c].old = call[c].old /\ call'[c].path = call[c].path
        /\ UNCHANGED <<registry, loop, raced, stop>>
    BY <1>1, GoesFrame DEF Wait, IInv, Stages
  <1>3. \A d \in Calls : /\ d # c => call'[d] = call[d]
                         /\ call'[d].at \in Holding => call[d].at \in Holding
                         /\ call'[d].old = call[d].old /\ call'[d].path = call[d].path
    BY <1>1, <1>2 DEF Moves, Holding
  <1>4. Born' /\ Stopping'
    BY <1>1, <1>2, Idlers DEF IInv, Born, Stopping, TypeOK
  <1>5. Registered'
    <2>1. \A p \in Paths : registry[p] # None => registry[p] \notin stop'
      BY <1>1, <1>2 DEF IInv, Registered, Holding
    <2>. QED
      BY <1>2, <1>3, <2>1, RegistryKept
  <1>6. Held'
    BY <1>1, <1>2, <1>3 DEF IInv, Held, Holding
  <1>7. Cleared'
    BY <1>1, <1>2, <1>3 DEF IInv, Cleared, Moves, Holding
  <1>8. OnlyARaceLeaks'
    BY <1>1, <1>2, <1>3, Idlers DEF IInv, OnlyARaceLeaks
  <1>. QED
    BY <1>4, <1>5, <1>6, <1>7, <1>8 DEF Owners

\* A call that lets its watcher go, or that holds none and goes on to watch.
LEMMA LetsGo ==
    ASSUME IInv, NEW c \in Calls, CallStep(c), call[c].at \in {"silence", "watch"},
           UNCHANGED <<registry, loop, stop, raced>>, call'[c].at \notin Holding
    PROVE  Owners'
  <1>1. Moves(c)
    BY CallMoves DEF IInv
  <1>2. \A d \in Calls : call'[d].at \in Holding => d # c /\ call'[d] = call[d]
    BY <1>1 DEF Moves
  <1>3. Born' /\ Stopping'
    BY <1>1, Idlers DEF IInv, Born, Stopping, TypeOK
  <1>4. Registered'
    BY <1>2, RegistryKept DEF IInv, Registered
  <1>5. Held'
    BY <1>2 DEF IInv, Held, Holding
  <1>6. Cleared'
    BY <1>1 DEF IInv, Cleared, Moves, Holding, Watching
  <1>7. OnlyARaceLeaks'
    BY <1>1, Idlers DEF IInv, OnlyARaceLeaks, Moves
  <1>. QED
    BY <1>3, <1>4, <1>5, <1>6, <1>7 DEF Owners

LEMMA SilenceKeeps == ASSUME IInv, NEW c \in Calls, Silence(c) PROVE Owners'
  <1>1. CallStep(c) /\ call[c].at = "silence" /\ UNCHANGED <<registry, loop, stop, raced>>
    BY DEF CallStep, Silence
  <1>2. call'[c].at \notin Holding
    BY <1>1, AfterStopFrame DEF Silence, IInv, Holding
  <1>. QED
    BY <1>1, <1>2, LetsGo

LEMMA WatchKeeps == ASSUME IInv, NEW c \in Calls, Watch(c) PROVE Owners'
  <1>1. CallStep(c) /\ call[c].at = "watch" /\ UNCHANGED <<registry, loop, stop, raced>>
    BY DEF CallStep, Watch
  <1>2. call'[c].at \in {"install", "returned"}
    BY GoesFrame DEF Watch, IInv, Stages
  <1>. QED
    BY <1>1, <1>2, LetsGo DEF Holding

LEMMA InstallKeeps == ASSUME IInv, NEW c \in Calls, Install(c) PROVE Owners'
  <1> DEFINE p == call[c].path
  <1>. CallStep(c)
    BY DEF CallStep
  <1>1. Moves(c) /\ call[c].at = "install" /\ call[c].op = "start" /\ p \in Paths
    BY CallMoves DEF IInv, Install, Placed, Watching
  <1>2. /\ call'[c].at = "returned" /\ call'[c].path = p /\ call'[c].op = "start"
        /\ UNCHANGED <<raced, stop>>
        /\ registry'[p] = c /\ \A q \in Paths \ {p} : registry'[q] = registry[q]
        /\ loop'[c] = "running" /\ \A w \in Calls \ {c} : loop'[w] = loop[w]
    BY <1>1, GoesFrame DEF Install, IInv, Stages, TypeOK
  <1>3. \A d \in Calls : call'[d].at \in Holding \union Watching => d # c /\ call'[d] = call[d]
    BY <1>1, <1>2 DEF Moves, Holding, Watching
  <1>4. Born' /\ Stopping'
    <2>1. Born'
      BY <1>1, <1>2, Idlers DEF IInv, Born
    <2>2. Stopping'
      BY <1>2, Idlers DEF IInv, Stopping, TypeOK
    <2>. QED
      BY <2>1, <2>2
  <1>5. Registered'
    <2>. SUFFICES ASSUME NEW q \in Paths, registry'[q] # None
                  PROVE  /\ loop'[registry'[q]] = "running" /\ registry'[q] \notin stop'
                         /\ call'[registry'[q]].path = q
                         /\ \A d \in Calls : call'[d].at \in Holding => call'[d].old # registry'[q]
      BY DEF Registered
    <2>1. CASE q = p
      BY <1>2, <1>3, <2>1, Idlers
    <2>2. CASE q # p
      <3>1. registry'[q] = registry[q] /\ registry[q] \in Calls
        BY <1>2, <2>2 DEF IInv, TypeOK
      <3>2. /\ loop[registry[q]] = "running" /\ registry[q] \notin stop /\ call[registry[q]].path = q
            /\ \A d \in Calls : call[d].at \in Holding => call[d].old # registry[q]
        BY <3>1 DEF IInv, Registered
      <3>3. registry[q] # c /\ call'[registry[q]] = call[registry[q]]
        BY <3>1, <3>2, Idlers
      <3>. QED
        BY <1>2, <1>3, <3>1, <3>2, <3>3
    <2>. QED
      BY <2>1, <2>2
  <1>6. Held'
    <2>1. \A d \in Calls : call[d].at \in Holding => loop'[call[d].old] = loop[call[d].old]
      BY <1>2, Idlers DEF IInv, Placed
    <2>. QED
      BY <1>2, <1>3, <2>1 DEF IInv, Held, Holding
  <1>7. Cleared'
    <2>. SUFFICES ASSUME NEW d \in Calls, call'[d].op = "start", call'[d].at \in Holding \union Watching,
                         call'[d].path \notin raced'
                  PROVE  registry'[call'[d].path] = None
      BY DEF Cleared
    <2>1. d # c /\ call'[d] = call[d] /\ Busy(d) /\ Busy(c)
      BY <1>1, <1>3 DEF Holding, Watching, Busy
    <2>2. call[d].path # p /\ call[d].path \in Paths
      BY <1>1, <1>2, <2>1 DEF IInv, Races, Placed, Busy
    <2>. QED
      BY <1>2, <2>1, <2>2 DEF IInv, Cleared
  <1>8. OnlyARaceLeaks'
    <2>. SUFFICES ASSUME NEW w \in Calls, loop'[w] = "running", w \notin stop', call'[w].path \notin raced'
                  PROVE  \/ registry'[call'[w].path] = w
                         \/ \E d \in Calls : call'[d].at \in {"close", "wait"} /\ call'[d].old = w
      BY DEF OnlyARaceLeaks
    <2>1. CASE w = c
      BY <1>2, <2>1
    <2>2. CASE w # c
      <3>1. loop[w] = "running" /\ call'[w] = call[w] /\ call[w].path \in Paths
        BY <1>2, <2>2, Idlers DEF IInv, Born, Placed
      <3>2. CASE registry[call[w].path] = w
        <4>1. p \notin raced => registry[p] = None
          BY <1>1 DEF IInv, Cleared, Watching
        <4>2. call[w].path # p
          BY <1>2, <3>1, <3>2, <4>1, WatcherAssumption
        <4>. QED
          BY <1>2, <3>1, <3>2, <4>2
      <3>3. CASE \E d \in Calls : call[d].at \in {"close", "wait"} /\ call[d].old = w
        BY <1>1, <3>3 DEF Moves
      <3>. QED
        BY <1>2, <3>1, <3>2, <3>3 DEF IInv, OnlyARaceLeaks
    <2>. QED
      BY <2>1, <2>2
  <1>. QED
    BY <1>4, <1>5, <1>6, <1>7, <1>8 DEF Owners

-----------------------------------------------------------------------------
(***************************************************************************)
(* The other steps, and the theorems.                                      *)
(***************************************************************************)
LEMMA BeginKeeps ==
    ASSUME IInv, NEW c \in Calls, NEW op \in {"start", "stop", "stopAll"}, NEW p \in Paths,
           Begin(c, op, p)
    PROVE  IInv'
  <1> DEFINE r == [call[c] EXCEPT !.at = Entry(op), !.op = op, !.path = p]
  <1>1. /\ call[c].at = "idle" /\ call' = [call EXCEPT ![c] = r]
        /\ UNCHANGED <<registry, heard, queue, stop, loop, pending, since, writes, owed>>
        /\ raced \subseteq raced' /\ raced' \subseteq Paths
    BY DEF Begin, IInv, TypeOK
  <1>2. Entry(op) \in Stages /\ Entry(op) \in {"list", "take"} /\ (Entry(op) = "list" => op = "stopAll")
    BY DEF Entry, Stages
  <1>3. r \in Call
    <2>1. call[c] \in Call
      BY DEF IInv, TypeOK
    <2>. QED
      BY <1>2, <2>1 DEF Call
  <1>4. /\ call' \in [Calls -> Call] /\ call'[c] = r
        /\ \A d \in Calls \ {c} : call'[d] = call[d]
    BY <1>1, <1>3, OneCall DEF IInv, TypeOK
  <1>5. r.at = Entry(op) /\ r.op = op /\ r.path = p
    BY DEF IInv, TypeOK, Call
  <1>6. TypeOK'
    BY <1>1, <1>4 DEF IInv, TypeOK
  <1>7. Placed'
    BY <1>1, <1>2, <1>4, <1>5 DEF IInv, Placed, Holding, Watching
  <1>8. \A w \in Calls : loop[w] # "unborn" => w # c /\ call'[w] = call[w]
    BY <1>1, <1>4 DEF IInv, Born
  <1>9. \A d \in Calls : call'[d].at \in Holding \union Watching => d # c /\ call'[d] = call[d]
    BY <1>2, <1>4, <1>5 DEF Holding, Watching
  <1>10. Born' /\ Stopping'
    BY <1>1, <1>8 DEF IInv, Born, Stopping
  <1>11. Registered'
    <2>. SUFFICES ASSUME NEW q \in Paths, registry[q] # None
                  PROVE  /\ loop[registry[q]] = "running" /\ registry[q] \notin stop
                         /\ call'[registry[q]].path = q
                         /\ \A d \in Calls : call'[d].at \in Holding => call'[d].old # registry[q]
      BY <1>1 DEF Registered
    <2>1. registry[q] \in Calls
      BY DEF IInv, TypeOK
    <2>. QED
      BY <1>8, <1>9, <2>1 DEF IInv, Registered
  <1>12. Held'
    BY <1>1, <1>9 DEF IInv, Held, Holding
  <1>13. Cleared'
    BY <1>1, <1>9 DEF IInv, Cleared
  <1>14. OnlyARaceLeaks'
    BY <1>1, <1>4, <1>8 DEF IInv, OnlyARaceLeaks
  <1>15. Races'
    <2>. SUFFICES ASSUME NEW d \in Calls, NEW e \in Calls, d # e, Busy(d)', Busy(e)',
                         call'[d].op = "start", call'[e].op = "start", call'[d].path = call'[e].path
                  PROVE  call'[d].path \in raced'
      BY DEF Races
    <2>1. CASE d # c /\ e # c
      BY <1>1, <1>4, <2>1 DEF IInv, Races, Busy
    <2>2. ASSUME NEW f \in Calls \ {c}, Busy(f)', call'[f].op = "start", call'[f].path = call'[c].path,
                 call'[c].op = "start"
          PROVE  call'[c].path \in raced'
      <3>1. Busy(f) /\ call[f].op = "start" /\ call[f].path = p /\ op = "start"
        BY <1>4, <1>5, <2>2 DEF Busy
      <3>. QED
        BY <1>4, <1>5, <3>1 DEF Begin
    <2>. QED
      BY <2>1, <2>2
  <1>. QED
    BY <1>6, <1>7, <1>10, <1>11, <1>12, <1>13, <1>14, <1>15 DEF IInv

\* What happens to files and in loops changes no call and no registry.
LEMMA QuietKeeps ==
    ASSUME IInv, TypeOK', UNCHANGED <<call, registry, stop, raced>>,
           \A w \in Calls : loop'[w] # loop[w] => /\ loop[w] = "running" /\ loop'[w] = "done"
                                                  /\ w \in stop
    PROVE  IInv'
  <1>1. Placed' /\ Races' /\ Cleared'
    BY DEF IInv, Placed, Races, Cleared, Busy
  <1>2. Born' /\ Stopping'
    BY DEF IInv, Born, Stopping, TypeOK
  <1>3. Registered'
    BY DEF IInv, Registered, TypeOK
  <1>4. Held'
    BY DEF IInv, Held, Placed
  <1>5. OnlyARaceLeaks'
    BY DEF IInv, OnlyARaceLeaks
  <1>. QED
    BY <1>1, <1>2, <1>3, <1>4, <1>5 DEF IInv

LEMMA WritesKeep ==
    ASSUME IInv, NEW p \in Paths, Change(p) \/ Noise(p)
    PROVE  IInv'
  <1>1. UNCHANGED <<call, registry, heard, stop, loop, pending, since, raced>>
    BY DEF Change, Noise
  <1>2. QueueOK'
    BY QueueKept DEF IInv, Change, Noise
  <1>3. owed' \subseteq Calls \X {"heard", "dropped"}
    <2>1. owed \subseteq Calls \X {"heard", "dropped"} /\ Listeners(p) \subseteq Calls
      BY DEF Listeners, IInv, TypeOK
    <2>. QED
      BY <2>1 DEF Change, Noise
  <1>4. writes' \in [changes: 0..MaxChanges, noise: 0..MaxNoise]
    <2>1. writes \in [changes: 0..MaxChanges, noise: 0..MaxNoise]
      BY DEF IInv, TypeOK
    <2>2. CASE Change(p)
      BY <2>1, <2>2, WatcherAssumption DEF Change
    <2>3. CASE Noise(p)
      BY <2>1, <2>3, WatcherAssumption DEF Noise
    <2>. QED
      BY <2>2, <2>3
  <1>5. TypeOK'
    BY <1>1, <1>2, <1>3, <1>4 DEF IInv, TypeOK, QueueOK
  <1>. QED
    BY <1>1, <1>5, QuietKeeps

LEMMA LoopsKeep ==
    ASSUME IInv, NEW w \in Calls, Hear(w) \/ Tick(w) \/ LoopEnds(w) \/ TimePasses(w)
    PROVE  IInv'
  <1>1. UNCHANGED <<call, registry, heard, stop, writes, raced>>
    BY DEF Hear, Tick, LoopEnds, TimePasses
  <1>2. QueueOK'
    BY QueueKept DEF IInv, Hear, Tick, LoopEnds, TimePasses
  <1>3. owed' \subseteq Calls \X {"heard", "dropped"} /\ pending' \subseteq Calls
    BY DEF Hear, Tick, LoopEnds, TimePasses, Flush, Settled, IInv, TypeOK
  <1>4. since' \in [Calls -> 0..Window]
    BY WatcherAssumption DEF Hear, Tick, LoopEnds, TimePasses, Flush, IInv, TypeOK
  <1>5. /\ loop' \in [Calls -> {"unborn", "running", "done"}]
        /\ \A v \in Calls : loop'[v] # loop[v] =>
               loop[v] = "running" /\ loop'[v] = "done" /\ v \in stop
    BY DEF Hear, Tick, LoopEnds, TimePasses, IInv, TypeOK
  <1>6. TypeOK'
    BY <1>1, <1>2, <1>3, <1>4, <1>5 DEF IInv, TypeOK, QueueOK
  <1>. QED
    BY <1>1, <1>5, <1>6, QuietKeeps

LEMMA Inductive == IInv /\ [Next]_vars => IInv'
  <1>. SUFFICES ASSUME IInv, [Next]_vars PROVE IInv'
    OBVIOUS
  <1>1. ASSUME NEW c \in Calls, NEW op \in {"start", "stop", "stopAll"}, NEW p \in Paths, Begin(c, op, p)
        PROVE  IInv'
    BY <1>1, BeginKeeps
  <1>2. ASSUME NEW c \in Calls, CallStep(c) PROVE IInv'
    <2>1. TypeOK' /\ Placed' /\ Races'
      BY <1>2, CallKeepsType, CallKeepsPlaced DEF IInv
    <2>2. Owners'
      BY <1>2, ListKeeps, TakeKeeps, CloseKeeps, WaitKeeps, SilenceKeeps, WatchKeeps, InstallKeeps
      DEF CallStep
    <2>. QED
      BY <2>1, <2>2 DEF IInv, Owners
  <1>3. ASSUME NEW p \in Paths, Change(p) \/ Noise(p) PROVE IInv'
    BY <1>3, WritesKeep
  <1>4. ASSUME NEW w \in Calls, Hear(w) \/ Tick(w) \/ LoopEnds(w) \/ TimePasses(w) PROVE IInv'
    BY <1>4, LoopsKeep
  <1>5. CASE UNCHANGED vars
    BY <1>5, QueueKept DEF vars, IInv, TypeOK, QueueOK, Placed, Born, Registered, Held, Races,
                           Cleared, Stopping, OnlyARaceLeaks, Busy
  <1>. QED
    BY <1>1, <1>2, <1>3, <1>4, <1>5 DEF Next

LEMMA Invariant == Spec => []IInv
  <1>. QED
    BY InitIInv, Inductive, PTL DEF Spec

(* The state keeps its shape, however many calls overlap and events pour in: *)
(* the channel never holds more than eventBuffer (watcher.go:40-50).         *)
THEOREM TypeCorrect == Spec => []TypeOK
  <1>1. IInv => TypeOK
    BY DEF IInv
  <1>. QED
    BY <1>1, Invariant, PTL

(* No channel is closed twice and no two calls wait for one loop, for any    *)
(* number of Start, Stop and StopAll in any order (watcher.go:113-127).      *)
THEOREM ClosedOnce == Spec => []StoppedOnce
  <1>1. IInv => StoppedOnce
    BY DEF IInv, StoppedOnce, Held, Holding
  <1>. QED
    BY <1>1, Invariant, PTL

(* A repository that no two Starts race for has one watcher that is heard    *)
(* at most, and the registry knows it (watcher.go:74-108).                   *)
THEOREM NoLeakWithoutARace == Spec => []OnlyARaceLeaks
  <1>1. IInv => OnlyARaceLeaks
    BY DEF IInv
  <1>. QED
    BY <1>1, Invariant, PTL
=============================================================================
