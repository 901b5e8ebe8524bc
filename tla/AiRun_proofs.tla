---------------------------- MODULE AiRun_proofs ----------------------------
(***************************************************************************)
(* Proofs about AiRun, for any number of operations, pipes, chunks, repair *)
(* rounds and any silence window.                                          *)
(***************************************************************************)
EXTENDS AiRun, TLAPS

(***************************************************************************)
(* The inductive invariant.  Counting: what an operation has started is    *)
(* bounded by its round and its attempt, and the attempt by its phase.     *)
(* Processes: only a running operation has an unreaped child, and a pump   *)
(* that is done left nothing behind and nobody to write more.              *)
(***************************************************************************)
Counted(o) ==
    /\ op[o].pc \in {"idle", "protect"} =>
          /\ op[o].round = 0 /\ op[o].attempt = 0 /\ op[o].spawned = 0
          /\ op[o].outcome = "none"
    /\ op[o].pc = "begin" => op[o].spawned <= 2 * op[o].round
    /\ op[o].pc = "prepare" => op[o].attempt = 0
    /\ op[o].pc = "spawn" => op[o].attempt <= 1
    /\ op[o].spawned <= 2 * op[o].round + op[o].attempt
    /\ op[o].kind # "draw" => op[o].round = 0
    /\ ~ReadOnly(op[o].kind) /\ op[o].pc = "spawn" => op[o].attempt = 0
    /\ ~ReadOnly(op[o].kind) => op[o].attempt <= 1
    /\ op[o].pc \in {"judged", "end", "after", "over"} => op[o].outcome # "none"

Supervised(o) ==
    /\ IF op[o].pc = "running"
       THEN cli[o].child \in {"alive", "exited"}
       ELSE cli[o].child \in {"none", "reaped"}
    /\ \A s \in Streams \ cli[o].pumps :
          cli[o].heard[s] = cli[o].said[s] /\ ~Writing(o)
    /\ op[o].pc = "waited" =>
          cli[o].pumps = {} /\ cli[o].stdin \in {"fed", "broken"}
    /\ op[o].pc \in {"prepare", "spawn", "running", "waited"} =>
          op[o].outcome # "reply"
    /\ op[o].outcome = "reply" /\ op[o].engine # "http" =>
          cli[o].pumps = {} /\ cli[o].stdin = "fed"

IInv == TypeOK /\ \A o \in Ops : Counted(o) /\ Supervised(o)
-----------------------------------------------------------------------------
USE AiRunAssumption DEF AiRunAssumption

\* A process that does not exist has the type of one.
LEMMA NoProcessType == NoProcess \in CliType
  BY DEF NoProcess, CliType, Verdicts

\* Nothing has started: every count is zero and there is no process.
LEMMA InitIInv == Init => IInv
<1> SUFFICES ASSUME Init PROVE IInv
  OBVIOUS
<1>1. TypeOK
  <2>1. op \in [Ops -> OpType]
    BY DEF Init, OpType, Phases, AllKinds, Engines, Rounds, Answers
  <2>2. cli \in [Ops -> CliType]
    BY NoProcessType DEF Init
  <2> QED
    BY <2>1, <2>2 DEF Init, TypeOK, Rounds, NoRun
<1>2. ASSUME NEW o \in Ops PROVE Counted(o) /\ Supervised(o)
  BY DEF Init, Counted, Supervised, NoProcess, Writing, ReadOnly
<1> QED
  BY <1>1, <1>2 DEF IInv
-----------------------------------------------------------------------------
\* A step that touches one operation's records has only that one to answer for.
LEMMA OneOperation ==
    ASSUME IInv, TypeOK', NEW o \in Ops,
           \A q \in Ops \ {o} : op'[q] = op[q] /\ cli'[q] = cli[q],
           Counted(o)', Supervised(o)'
    PROVE  IInv'
<1> SUFFICES ASSUME NEW q \in Ops PROVE Counted(q)' /\ Supervised(q)'
  BY DEF IInv
<1>1. CASE q = o
  BY <1>1
<1>2. CASE q # o
  BY <1>2 DEF IInv, Counted, Supervised, Writing
<1> QED
  BY <1>1, <1>2

\* What the invariant says of one operation's records.
LEMMA TypeOfOne ==
    ASSUME IInv, NEW o \in Ops
    PROVE  /\ op \in [Ops -> OpType] /\ op[o] \in OpType
           /\ cli \in [Ops -> CliType] /\ cli[o] \in CliType
           /\ Counted(o) /\ Supervised(o)
  BY DEF IInv, TypeOK

\* The operation's own steps.
LEMMA OperationIInv ==
    ASSUME IInv, NEW o \in Ops, Operation(o)
    PROVE  IInv'
<1>0. /\ op \in [Ops -> OpType] /\ op[o] \in OpType
      /\ cli \in [Ops -> CliType] /\ cli[o] \in CliType
      /\ Counted(o) /\ Supervised(o)
  BY TypeOfOne
<1>1. CASE Protect(o)
  <2>1. op'[o] \in OpType
    BY <1>0, <1>1 DEF Protect, Goto, OpType, Phases, Counted, Answers, Verdicts, Rounds, ReadOnly
  <2>2. cli'[o] \in CliType
    BY <1>0, <1>1, NoProcessType DEF Protect, Goto, CliType
  <2>3. op' \in [Ops -> OpType] /\ cli' \in [Ops -> CliType]
    BY <1>0, <1>1, <2>1, <2>2 DEF Protect, Goto
  <2>4. TypeOK'
    BY <1>1, <2>3 DEF Protect, Goto, IInv, TypeOK, OpType
  <2>5. \A q \in Ops \ {o} : op'[q] = op[q] /\ cli'[q] = cli[q]
    BY <1>0, <1>1 DEF Protect, Goto
  <2>6. Counted(o)'
    BY <1>0, <1>1, <2>1 DEF Protect, Goto, Counted, ReadOnly, OpType, Rounds
  <2>7. Supervised(o)'
    BY <1>0, <1>1 DEF Protect, Goto, Supervised, Writing, NoProcess, OpType, CliType, Verdicts
  <2> QED
    BY <2>4, <2>5, <2>6, <2>7, OneOperation
<1>2. CASE Begin(o)
  <2>1. op'[o] \in OpType
    <3>1. op'[o] = [pc |-> "prepare", kind |-> op[o].kind,
                    engine |-> op[o].engine, round |-> op[o].round,
                    attempt |-> 0, spawned |-> op[o].spawned,
                    outcome |-> "none"]
      BY <1>0, <1>2 DEF Begin, OpType
    <3> QED
      BY <1>0, <3>1 DEF OpType, Phases
  <2>2. cli'[o] \in CliType
    BY <1>0, <1>2, NoProcessType DEF Begin, CliType
  <2>3. op' \in [Ops -> OpType] /\ cli' \in [Ops -> CliType]
    BY <1>0, <1>2, <2>1, <2>2 DEF Begin
  <2>4. TypeOK'
    BY <1>2, <2>3 DEF Begin, IInv, TypeOK, OpType
  <2>5. \A q \in Ops \ {o} : op'[q] = op[q] /\ cli'[q] = cli[q]
    BY <1>0, <1>2 DEF Begin
  <2>6. Counted(o)'
    BY <1>0, <1>2, <2>1 DEF Begin, Counted, ReadOnly, OpType, Rounds
  <2>7. Supervised(o)'
    BY <1>0, <1>2 DEF Begin, Supervised, Writing, NoProcess, OpType, CliType, Verdicts
  <2> QED
    BY <2>4, <2>5, <2>6, <2>7, OneOperation
<1>3. CASE HTTPTurn(o)
  <2>1. op'[o] \in OpType
    <3>1. PICK v \in Verdicts : Conclude(o, "after", v)
      BY <1>3 DEF HTTPTurn
    <3> QED
      BY <1>0, <3>1 DEF Conclude, OpType, Phases, Answers
  <2>2. cli'[o] \in CliType
    BY <1>0, <1>3, NoProcessType DEF HTTPTurn, Conclude, CliType
  <2>3. op' \in [Ops -> OpType] /\ cli' \in [Ops -> CliType]
    BY <1>0, <1>3, <2>1, <2>2 DEF HTTPTurn, Conclude
  <2>4. TypeOK'
    BY <1>3, <2>3 DEF HTTPTurn, Conclude, IInv, TypeOK, OpType
  <2>5. \A q \in Ops \ {o} : op'[q] = op[q] /\ cli'[q] = cli[q]
    BY <1>0, <1>3 DEF HTTPTurn, Conclude
  <2>6. Counted(o)'
    <3>1. PICK v \in Verdicts : Conclude(o, "after", v)
      BY <1>3 DEF HTTPTurn
    <3>2. op[o].pc = "begin" /\ v # "none"
      BY <1>3 DEF HTTPTurn, Verdicts
    <3> QED
      BY <1>0, <3>1, <3>2 DEF Conclude, Counted, ReadOnly, OpType
  <2>7. Supervised(o)'
    BY <1>0, <1>3 DEF HTTPTurn, Conclude, Supervised, Writing, NoProcess, OpType, CliType, Verdicts
  <2> QED
    BY <2>4, <2>5, <2>6, <2>7, OneOperation
<1>4. CASE Prepare(o)
  <2>1. op[o].pc = "prepare" /\ cli' = cli
    BY <1>4 DEF Prepare
  <2>2. CASE Goto(o, "spawn")
    <3>1. op'[o] \in OpType
      BY <1>0, <2>2 DEF Goto, OpType, Phases
    <3>2. op' \in [Ops -> OpType]
      BY <1>0, <2>2, <3>1 DEF Goto
    <3>3. TypeOK'
      BY <1>4, <3>2 DEF Prepare, IInv, TypeOK
    <3>4. Counted(o)'
      BY <1>0, <2>1, <2>2 DEF Goto, Counted, OpType, ReadOnly
    <3>5. Supervised(o)'
      BY <1>0, <2>1, <2>2 DEF Goto, Supervised, Writing, OpType
    <3> QED
      BY <1>0, <2>1, <2>2, <3>3, <3>4, <3>5, OneOperation DEF Goto
  <2>3. CASE Conclude(o, "end", "refused")
    <3>1. op'[o] \in OpType
      BY <1>0, <2>3 DEF Conclude, OpType, Phases, Answers
    <3>2. op' \in [Ops -> OpType]
      BY <1>0, <2>3, <3>1 DEF Conclude
    <3>3. TypeOK'
      BY <1>4, <3>2 DEF Prepare, IInv, TypeOK
    <3>4. Counted(o)'
      BY <1>0, <2>1, <2>3 DEF Conclude, Counted, OpType, ReadOnly
    <3>5. Supervised(o)'
      BY <1>0, <2>1, <2>3 DEF Conclude, Supervised, Writing, OpType
    <3> QED
      BY <1>0, <2>1, <2>3, <3>3, <3>4, <3>5, OneOperation DEF Conclude
  <2> QED
    BY <1>4, <2>2, <2>3 DEF Prepare
<1>5. CASE Spawn(o)
  <2>1. op[o].pc = "spawn"
    BY <1>5 DEF Spawn
  <2>2. op[o].attempt + 1 \in 0..2
    BY <1>0, <2>1 DEF Counted, OpType
  <2>3. op[o].spawned + 1 \in 0..(2 * (MaxRepairRounds + 1))
    BY <1>0, <2>1 DEF Counted, OpType, Rounds
  <2>4. CASE op' = [op EXCEPT ![o] =
                [@ EXCEPT !.pc = "running", !.attempt = op[o].attempt + 1,
                          !.spawned = op[o].spawned + 1]]
    <3> DEFINE input == IF op[o].engine = "stdin" THEN "feeding" ELSE "fed"
               process == [NoProcess EXCEPT !.child = "alive", !.killer = "armed",
                                            !.pumps = Streams, !.stdin = input]
    <3>0. op'[o] = [pc |-> "running", kind |-> op[o].kind, engine |-> op[o].engine,
                    round |-> op[o].round, attempt |-> op[o].attempt + 1,
                    spawned |-> op[o].spawned + 1, outcome |-> op[o].outcome]
      BY <1>0, <2>4 DEF OpType
    <3>1. op'[o] \in OpType
      BY <1>0, <2>2, <2>3, <3>0 DEF OpType, Phases
    <3>2. op' \in [Ops -> OpType]
      BY <1>0, <2>4, <3>1
    <3>3. cli' = [cli EXCEPT ![o] = process]
      <4>1. op'[o].pc = "running"
        BY <1>0, <2>4 DEF OpType
      <4>2. CASE op' = [op EXCEPT ![o] =
                [@ EXCEPT !.pc = "judged", !.attempt = op[o].attempt + 1,
                          !.outcome = "not_started"]]
        <5>1. op'[o].pc = "judged"
          BY <1>0, <4>2 DEF OpType
        <5> QED
          BY <4>1, <5>1
      <4> QED
        BY <1>5, <4>2 DEF Spawn
    <3>4. process \in CliType
      BY NoProcessType DEF CliType
    <3>5. cli' \in [Ops -> CliType]
      BY <1>0, <3>3, <3>4
    <3>6. TypeOK'
      BY <1>5, <3>2, <3>5 DEF Spawn, IInv, TypeOK
    <3>7. Counted(o)'
      BY <1>0, <2>1, <2>2, <2>3, <3>0 DEF Counted, ReadOnly, OpType, Rounds
    <3>8. Supervised(o)'
      <4>1. cli'[o].child = "alive" /\ cli'[o].pumps = Streams
        BY <1>0, <3>3 DEF NoProcess
      <4>2. op'[o].pc = "running" /\ op'[o].outcome = op[o].outcome
        BY <1>0, <2>4 DEF OpType
      <4> QED
        BY <1>0, <2>1, <4>1, <4>2 DEF Supervised
    <3> QED
      BY <1>0, <2>4, <3>3, <3>6, <3>7, <3>8, OneOperation
  <2>5. CASE /\ op' = [op EXCEPT ![o] =
                   [@ EXCEPT !.pc = "judged", !.attempt = op[o].attempt + 1,
                             !.outcome = "not_started"]]
             /\ cli' = cli
    <3>0. op'[o] = [pc |-> "judged", kind |-> op[o].kind, engine |-> op[o].engine,
                    round |-> op[o].round, attempt |-> op[o].attempt + 1,
                    spawned |-> op[o].spawned, outcome |-> "not_started"]
      BY <1>0, <2>5 DEF OpType
    <3>1. op'[o] \in OpType
      BY <1>0, <2>2, <3>0 DEF OpType, Phases, Answers
    <3>2. op' \in [Ops -> OpType]
      BY <1>0, <2>5, <3>1
    <3>3. TypeOK'
      BY <1>5, <2>5, <3>2 DEF Spawn, IInv, TypeOK
    <3>4. Counted(o)'
      BY <1>0, <2>1, <2>2, <3>0 DEF Counted, ReadOnly, OpType, Rounds
    <3>5. Supervised(o)'
      BY <1>0, <2>1, <2>5 DEF Supervised, Writing, OpType
    <3> QED
      BY <1>0, <2>5, <3>3, <3>4, <3>5, OneOperation
  <2> QED
    BY <1>5, <2>4, <2>5 DEF Spawn
<1>6. CASE Reap(o)
  <2>1. op'[o] \in OpType
    BY <1>0, <1>6 DEF Reap, Goto, OpType, Phases, Counted, Answers, Verdicts, Rounds, ReadOnly
  <2>2. cli'[o] \in CliType
    BY <1>0, <1>6, NoProcessType DEF Reap, Goto, CliType
  <2>3. op' \in [Ops -> OpType] /\ cli' \in [Ops -> CliType]
    BY <1>0, <1>6, <2>1, <2>2 DEF Reap, Goto
  <2>4. TypeOK'
    BY <1>6, <2>3 DEF Reap, Goto, IInv, TypeOK, OpType
  <2>5. \A q \in Ops \ {o} : op'[q] = op[q] /\ cli'[q] = cli[q]
    BY <1>0, <1>6 DEF Reap, Goto
  <2>6. Counted(o)'
    BY <1>0, <1>6, <2>1 DEF Reap, Goto, Counted, ReadOnly, OpType, Rounds
  <2>7. Supervised(o)'
    BY <1>0, <1>6 DEF Reap, Goto, Supervised, Writing, NoProcess, OpType, CliType, Verdicts
  <2> QED
    BY <2>4, <2>5, <2>6, <2>7, OneOperation
<1>7. CASE Decide(o)
  <2>0. OutcomeOf(o) \in Answers
    BY <1>0 DEF OutcomeOf, Answers, CliType
  <2>1. op'[o] \in OpType
    BY <1>0, <1>7, <2>0 DEF Decide, Conclude, OpType, Phases
  <2>2. cli'[o] \in CliType
    BY <1>0, <1>7, NoProcessType DEF Decide, Conclude, OutcomeOf, CliType
  <2>3. op' \in [Ops -> OpType] /\ cli' \in [Ops -> CliType]
    BY <1>0, <1>7, <2>1, <2>2 DEF Decide, Conclude, OutcomeOf
  <2>4. TypeOK'
    BY <1>7, <2>3 DEF Decide, Conclude, OutcomeOf, IInv, TypeOK, OpType
  <2>5. \A q \in Ops \ {o} : op'[q] = op[q] /\ cli'[q] = cli[q]
    BY <1>0, <1>7 DEF Decide, Conclude, OutcomeOf
  <2>6. Counted(o)'
    <3>1. OutcomeOf(o) # "none"
      BY <2>0 DEF Answers, Verdicts
    <3> QED
      BY <1>0, <1>7, <3>1 DEF Decide, Conclude, Counted, ReadOnly, OpType
  <2>7. Supervised(o)'
    BY <1>0, <1>7 DEF Decide, Conclude, OutcomeOf, Supervised, Writing, NoProcess, OpType, CliType, Verdicts
  <2> QED
    BY <2>4, <2>5, <2>6, <2>7, OneOperation
<1>8. CASE Judge(o)
  <2>1. op'[o] \in OpType
    BY <1>0, <1>8 DEF Judge, Goto, Repeats, OpType, Phases, Counted, Answers, Verdicts, Rounds, ReadOnly
  <2>2. cli'[o] \in CliType
    BY <1>0, <1>8, NoProcessType DEF Judge, Goto, Repeats, CliType
  <2>3. op' \in [Ops -> OpType] /\ cli' \in [Ops -> CliType]
    BY <1>0, <1>8, <2>1, <2>2 DEF Judge, Goto, Repeats
  <2>4. TypeOK'
    BY <1>8, <2>3 DEF Judge, Goto, Repeats, IInv, TypeOK, OpType
  <2>5. \A q \in Ops \ {o} : op'[q] = op[q] /\ cli'[q] = cli[q]
    BY <1>0, <1>8 DEF Judge, Goto, Repeats
  <2>6. Counted(o)'
    BY <1>0, <1>8, <2>1 DEF Judge, Goto, Repeats, Counted, ReadOnly, OpType, Rounds
  <2>7. Supervised(o)'
    BY <1>0, <1>8 DEF Judge, Goto, Repeats, Supervised, Writing, NoProcess, OpType, CliType, Verdicts
  <2> QED
    BY <2>4, <2>5, <2>6, <2>7, OneOperation
<1>9. CASE End(o)
  <2>1. op'[o] \in OpType
    BY <1>0, <1>9 DEF End, Goto, OpType, Phases, Counted, Answers, Verdicts, Rounds, ReadOnly
  <2>2. cli'[o] \in CliType
    BY <1>0, <1>9, NoProcessType DEF End, Goto, CliType
  <2>3. op' \in [Ops -> OpType] /\ cli' \in [Ops -> CliType]
    BY <1>0, <1>9, <2>1, <2>2 DEF End, Goto
  <2>4. TypeOK'
    BY <1>9, <2>3 DEF End, Goto, IInv, TypeOK, OpType
  <2>5. \A q \in Ops \ {o} : op'[q] = op[q] /\ cli'[q] = cli[q]
    BY <1>0, <1>9 DEF End, Goto
  <2>6. Counted(o)'
    BY <1>0, <1>9, <2>1 DEF End, Goto, Counted, ReadOnly, OpType, Rounds
  <2>7. Supervised(o)'
    BY <1>0, <1>9 DEF End, Goto, Supervised, Writing, NoProcess, OpType, CliType, Verdicts
  <2> QED
    BY <2>4, <2>5, <2>6, <2>7, OneOperation
<1>10. CASE Settle(o)
  <2>1. op[o].pc = "after" /\ cli' = cli
    BY <1>10 DEF Settle
  <2>2. CASE Goto(o, "over")
    <3>1. op'[o] \in OpType
      BY <1>0, <2>2 DEF Goto, OpType, Phases
    <3>2. op' \in [Ops -> OpType]
      BY <1>0, <2>2, <3>1 DEF Goto
    <3>3. TypeOK'
      BY <1>10, <3>2 DEF Settle, IInv, TypeOK
    <3>4. Counted(o)'
      BY <1>0, <2>1, <2>2 DEF Goto, Counted, OpType, ReadOnly
    <3>5. Supervised(o)'
      BY <1>0, <2>1, <2>2 DEF Goto, Supervised, Writing, OpType
    <3> QED
      BY <1>0, <2>1, <2>2, <3>3, <3>4, <3>5, OneOperation DEF Goto
  <2>3. CASE Conclude(o, "over", "invalid")
    <3>1. op'[o] \in OpType
      BY <1>0, <2>3 DEF Conclude, OpType, Phases, Answers
    <3>2. op' \in [Ops -> OpType]
      BY <1>0, <2>3, <3>1 DEF Conclude
    <3>3. TypeOK'
      BY <1>10, <3>2 DEF Settle, IInv, TypeOK
    <3>4. Counted(o)'
      BY <1>0, <2>1, <2>3 DEF Conclude, Counted, OpType, ReadOnly
    <3>5. Supervised(o)'
      BY <1>0, <2>1, <2>3 DEF Conclude, Supervised, Writing, OpType
    <3> QED
      BY <1>0, <2>1, <2>3, <3>3, <3>4, <3>5, OneOperation DEF Conclude
  <2>4. CASE /\ op[o].kind = "draw" /\ MayRepair(o)
             /\ op' = [op EXCEPT ![o] = [@ EXCEPT !.pc = "begin", !.round = op[o].round + 1]]
    <3>1. op[o].round + 1 \in Rounds
      BY <1>0, <2>4 DEF MayRepair, OpType, Rounds
    <3>0. op'[o] = [pc |-> "begin", kind |-> op[o].kind, engine |-> op[o].engine,
                    round |-> op[o].round + 1, attempt |-> op[o].attempt,
                    spawned |-> op[o].spawned, outcome |-> op[o].outcome]
      BY <1>0, <2>4 DEF OpType
    <3>2. op'[o] \in OpType
      BY <1>0, <3>0, <3>1 DEF OpType, Phases
    <3>3. op' \in [Ops -> OpType]
      BY <1>0, <2>4, <3>2
    <3>4. TypeOK'
      BY <1>10, <3>3 DEF Settle, IInv, TypeOK
    <3>5. Counted(o)'
      BY <1>0, <2>1, <2>4, <3>0 DEF Counted, OpType, ReadOnly, Rounds
    <3>6. Supervised(o)'
      BY <1>0, <2>1, <2>4 DEF Supervised, Writing, OpType
    <3> QED
      BY <1>0, <2>1, <2>4, <3>4, <3>5, <3>6, OneOperation
  <2> QED
    BY <1>10, <2>2, <2>3, <2>4 DEF Settle
<1> QED
  BY <1>1, <1>2, <1>3, <1>4, <1>5, <1>6, <1>7, <1>8, <1>9, <1>10 DEF Operation

\* A process record stays one when one of its fields is assigned.
LEMMA CliFields ==
    ASSUME NEW c \in CliType
    PROVE  /\ \A x \in {"none", "alive", "exited", "reaped"} :
                 [c EXCEPT !.child = x] \in CliType
           /\ \A x \in {"none", "holding", "detached"} :
                 [c EXCEPT !.grand = x] \in CliType
           /\ \A x \in {"idle", "feeding", "fed", "broken"} :
                 [c EXCEPT !.stdin = x] \in CliType
           /\ \A x \in SUBSET Streams : [c EXCEPT !.pumps = x] \in CliType
           /\ \A x \in [Streams -> 0..MaxChunks] :
                 [c EXCEPT !.said = x] \in CliType
           /\ \A x \in [Streams -> 0..MaxChunks] :
                 [c EXCEPT !.heard = x] \in CliType
           /\ \A x \in Verdicts : [c EXCEPT !.verdict = x] \in CliType
           /\ \A x \in {"off", "armed", "done"} :
                 [c EXCEPT !.killer = x] \in CliType
<1>1. c = [child |-> c.child, grand |-> c.grand, stdin |-> c.stdin,
           killer |-> c.killer, said |-> c.said, heard |-> c.heard,
           pumps |-> c.pumps, verdict |-> c.verdict]
  BY DEF CliType
<1> QED
  BY <1>1 DEF CliType

\* The goroutines that carry one attempt's bytes and stop it.
LEMMA GoroutinesIInv ==
    ASSUME IInv, NEW o \in Ops, Stdio(o) \/ StopWatch(o)
    PROVE  IInv'
<1>0. /\ op \in [Ops -> OpType] /\ op[o] \in OpType
      /\ cli \in [Ops -> CliType] /\ cli[o] \in CliType
      /\ Counted(o) /\ Supervised(o)
  BY TypeOfOne
<1>1. CASE FeedStdin(o)
  <2>1. op' = op
    BY <1>1 DEF FeedStdin
  <2>2. cli'[o] \in CliType
    BY <1>0, <1>1, CliFields DEF FeedStdin
  <2>3. cli' \in [Ops -> CliType]
    BY <1>0, <1>1, <2>2 DEF FeedStdin
  <2>4. TypeOK'
    BY <1>1, <2>1, <2>3 DEF FeedStdin, IInv, TypeOK
  <2>5. \A q \in Ops \ {o} : op'[q] = op[q] /\ cli'[q] = cli[q]
    BY <1>0, <1>1 DEF FeedStdin
  <2>6. Counted(o)'
    BY <1>0, <2>1 DEF Counted
  <2>7. Supervised(o)'
    <3>1. PICK x \in {"fed", "broken"} :
             /\ cli[o].stdin = "feeding"
             /\ cli'[o] = [cli[o] EXCEPT !.stdin = x]
      BY <1>0, <1>1 DEF FeedStdin
    <3>2. op[o].pc # "waited" /\ ~(op[o].outcome = "reply" /\ op[o].engine # "http")
      BY <1>0, <3>1 DEF Supervised
    <3> QED
      BY <1>0, <2>1, <3>1, <3>2 DEF Supervised, Writing, CliType
  <2> QED
    BY <2>4, <2>5, <2>6, <2>7, OneOperation
<1>2. CASE \E s \in Streams : PumpRead(o, s)
  <2>1. op' = op
    BY <1>2 DEF PumpRead
  <2>2. cli'[o] \in CliType
    <3>1. PICK s \in Streams : PumpRead(o, s)
      BY <1>2
    <3>2. [cli[o].heard EXCEPT ![s] = @ + 1] \in [Streams -> 0..MaxChunks]
      BY <1>0, <3>1 DEF PumpRead, CliType
    <3>3. cli'[o] = [cli[o] EXCEPT !.heard = [cli[o].heard EXCEPT ![s] = @ + 1]]
      BY <1>0, <3>1 DEF PumpRead, CliType
    <3>4. \A x \in [Streams -> 0..MaxChunks] :
             [cli[o] EXCEPT !.heard = x] \in CliType
      BY <1>0, CliFields
    <3> QED
      BY <3>2, <3>3, <3>4
  <2>3. cli' \in [Ops -> CliType]
    BY <1>0, <1>2, <2>2 DEF PumpRead
  <2>4. TypeOK'
    BY <1>2, <2>1, <2>3 DEF PumpRead, IInv, TypeOK
  <2>5. \A q \in Ops \ {o} : op'[q] = op[q] /\ cli'[q] = cli[q]
    BY <1>0, <1>2 DEF PumpRead
  <2>6. Counted(o)'
    BY <1>0, <2>1 DEF Counted
  <2>7. Supervised(o)'
    BY <1>0, <1>2, <2>1 DEF PumpRead, Supervised, Writing, CliType
  <2> QED
    BY <2>4, <2>5, <2>6, <2>7, OneOperation
<1>3. CASE \E s \in Streams : PumpEOF(o, s)
  <2>1. op' = op
    BY <1>3 DEF PumpEOF
  <2>2. cli'[o] \in CliType
    <3>1. PICK s \in Streams : PumpEOF(o, s)
      BY <1>3
    <3>2. cli[o].pumps \ {s} \in SUBSET Streams
      BY <1>0 DEF CliType
    <3> QED
      BY <1>0, <3>1, <3>2, CliFields DEF PumpEOF
  <2>3. cli' \in [Ops -> CliType]
    BY <1>0, <1>3, <2>2 DEF PumpEOF
  <2>4. TypeOK'
    BY <1>3, <2>1, <2>3 DEF PumpEOF, IInv, TypeOK
  <2>5. \A q \in Ops \ {o} : op'[q] = op[q] /\ cli'[q] = cli[q]
    BY <1>0, <1>3 DEF PumpEOF
  <2>6. Counted(o)'
    BY <1>0, <2>1 DEF Counted
  <2>7. Supervised(o)'
    BY <1>0, <1>3, <2>1 DEF PumpEOF, Supervised, Writing, CliType
  <2> QED
    BY <2>4, <2>5, <2>6, <2>7, OneOperation
<1>4. CASE StopWatch(o)
  <2>1. op' = op
    BY <1>4 DEF StopWatch
  <2>2. cli'[o] \in CliType
    <3>1. CASE cli' = [cli EXCEPT ![o].killer = "done"]
      BY <1>0, <3>1, CliFields
    <3>2. CASE cli' = [cli EXCEPT ![o] =
                [@ EXCEPT !.killer = "done",
                          !.child = Killed(cli[o].child),
                          !.grand = IF cli[o].child = "reaped"
                                    THEN cli[o].grand ELSE "none"]]
      <4> DEFINE c == Killed(cli[o].child)
                 g == IF cli[o].child = "reaped" THEN cli[o].grand ELSE "none"
      <4>1. cli'[o] = [child |-> c, grand |-> g, stdin |-> cli[o].stdin,
                       killer |-> "done", said |-> cli[o].said,
                       heard |-> cli[o].heard, pumps |-> cli[o].pumps,
                       verdict |-> cli[o].verdict]
        BY <1>0, <3>2 DEF CliType
      <4> QED
        BY <1>0, <4>1 DEF CliType, Killed
    <3> QED
      BY <1>4, <3>1, <3>2 DEF StopWatch
  <2>3. cli' \in [Ops -> CliType]
    BY <1>0, <1>4, <2>2 DEF StopWatch
  <2>4. TypeOK'
    BY <1>4, <2>1, <2>3 DEF StopWatch, IInv, TypeOK
  <2>5. \A q \in Ops \ {o} : op'[q] = op[q] /\ cli'[q] = cli[q]
    BY <1>0, <1>4 DEF StopWatch
  <2>6. Counted(o)'
    BY <1>0, <2>1 DEF Counted
  <2>7. Supervised(o)'
    <3>1. CASE cli' = [cli EXCEPT ![o].killer = "done"]
      BY <1>0, <2>1, <3>1 DEF Supervised, Writing, CliType
    <3>2. CASE cli' = [cli EXCEPT ![o] =
                [@ EXCEPT !.killer = "done",
                          !.child = Killed(cli[o].child),
                          !.grand = IF cli[o].child = "reaped"
                                    THEN cli[o].grand ELSE "none"]]
      <4>1. /\ cli'[o].heard = cli[o].heard /\ cli'[o].said = cli[o].said
            /\ cli'[o].pumps = cli[o].pumps /\ cli'[o].stdin = cli[o].stdin
        BY <1>0, <3>2 DEF CliType
      <4>2. /\ \/ cli'[o].child = cli[o].child
               \/ cli[o].child = "alive" /\ cli'[o].child = "exited"
            /\ cli'[o].grand \in {cli[o].grand, "none"}
        BY <1>0, <3>2 DEF CliType, Killed
      <4> QED
        BY <1>0, <2>1, <4>1, <4>2 DEF Supervised, Writing
    <3> QED
      BY <1>4, <3>1, <3>2 DEF StopWatch
  <2> QED
    BY <2>4, <2>5, <2>6, <2>7, OneOperation
<1> QED
  BY <1>1, <1>2, <1>3, <1>4 DEF Stdio

\* Whatever the child process does.
LEMMA ChildIInv ==
    ASSUME IInv, NEW o \in Ops, Child(o)
    PROVE  IInv'
<1>0. /\ op \in [Ops -> OpType] /\ op[o] \in OpType
      /\ cli \in [Ops -> CliType] /\ cli[o] \in CliType
      /\ Counted(o) /\ Supervised(o)
  BY TypeOfOne
<1>1. CASE ChildForks(o)
  <2>1. op' = op
    BY <1>1 DEF ChildForks
  <2>2. cli'[o] \in CliType
    BY <1>0, <1>1, CliFields, ZenonT(40) DEF ChildForks
  <2>3. cli' \in [Ops -> CliType]
    BY <1>0, <1>1, <2>2 DEF ChildForks
  <2>4. TypeOK'
    BY <1>1, <2>1, <2>3 DEF ChildForks, IInv, TypeOK
  <2>5. \A q \in Ops \ {o} : op'[q] = op[q] /\ cli'[q] = cli[q]
    BY <1>0, <1>1 DEF ChildForks
  <2>6. Counted(o)'
    BY <1>0, <2>1 DEF Counted
  <2>7. Supervised(o)'
    BY <1>0, <1>1, <2>1 DEF ChildForks, Supervised, Writing, CliType
  <2> QED
    BY <2>4, <2>5, <2>6, <2>7, OneOperation
<1>2. CASE ChildExits(o)
  <2>1. op' = op
    BY <1>2 DEF ChildExits
  <2>2. cli'[o] \in CliType
    <3>1. PICK v \in Verdicts :
             cli' = [cli EXCEPT ![o] = [@ EXCEPT !.child = "exited", !.verdict = v]]
      BY <1>2 DEF ChildExits
    <3>2. cli'[o] = [[cli[o] EXCEPT !.child = "exited"] EXCEPT !.verdict = v]
      BY <1>0, <3>1
    <3>3. [cli[o] EXCEPT !.child = "exited"] \in CliType
      BY <1>0, CliFields
    <3> QED
      BY <3>2, <3>3, CliFields
  <2>3. cli' \in [Ops -> CliType]
    BY <1>0, <1>2, <2>2 DEF ChildExits
  <2>4. TypeOK'
    BY <1>2, <2>1, <2>3 DEF ChildExits, IInv, TypeOK
  <2>5. \A q \in Ops \ {o} : op'[q] = op[q] /\ cli'[q] = cli[q]
    BY <1>0, <1>2 DEF ChildExits
  <2>6. Counted(o)'
    BY <1>0, <2>1 DEF Counted
  <2>7. Supervised(o)'
    BY <1>0, <1>2, <2>1 DEF ChildExits, Supervised, Writing, CliType
  <2> QED
    BY <2>4, <2>5, <2>6, <2>7, OneOperation
<1>3. CASE GrandchildExits(o)
  <2>1. op' = op
    BY <1>3 DEF GrandchildExits
  <2>2. cli'[o] \in CliType
    BY <1>0, <1>3 DEF GrandchildExits, CliType
  <2>3. cli' \in [Ops -> CliType]
    BY <1>0, <1>3, <2>2 DEF GrandchildExits
  <2>4. TypeOK'
    BY <1>3, <2>1, <2>3 DEF GrandchildExits, IInv, TypeOK
  <2>5. \A q \in Ops \ {o} : op'[q] = op[q] /\ cli'[q] = cli[q]
    BY <1>0, <1>3 DEF GrandchildExits
  <2>6. Counted(o)'
    BY <1>0, <2>1 DEF Counted
  <2>7. Supervised(o)'
    BY <1>0, <1>3, <2>1 DEF GrandchildExits, Supervised, Writing, CliType
  <2> QED
    BY <2>4, <2>5, <2>6, <2>7, OneOperation
<1>4. CASE \E s \in Streams : ChildWrites(o, s)
  <2>1. op' = op
    BY <1>4 DEF ChildWrites
  <2>2. cli'[o] \in CliType
    <3>1. PICK s \in Streams : ChildWrites(o, s)
      BY <1>4
    <3>2. [cli[o].said EXCEPT ![s] = @ + 1] \in [Streams -> 0..MaxChunks]
      BY <1>0, <3>1 DEF ChildWrites, CliType
    <3>3. cli'[o] = [cli[o] EXCEPT !.said = [cli[o].said EXCEPT ![s] = @ + 1]]
      BY <1>0, <3>1 DEF ChildWrites, CliType
    <3>4. \A x \in [Streams -> 0..MaxChunks] :
             [cli[o] EXCEPT !.said = x] \in CliType
      BY <1>0, CliFields
    <3> QED
      BY <3>2, <3>3, <3>4
  <2>3. cli' \in [Ops -> CliType]
    BY <1>0, <1>4, <2>2 DEF ChildWrites
  <2>4. TypeOK'
    BY <1>4, <2>1, <2>3 DEF ChildWrites, IInv, TypeOK
  <2>5. \A q \in Ops \ {o} : op'[q] = op[q] /\ cli'[q] = cli[q]
    BY <1>0, <1>4 DEF ChildWrites
  <2>6. Counted(o)'
    BY <1>0, <2>1 DEF Counted
  <2>7. Supervised(o)'
    BY <1>0, <1>4, <2>1 DEF ChildWrites, Supervised, Writing, CliType
  <2> QED
    BY <2>4, <2>5, <2>6, <2>7, OneOperation
<1> QED
  BY <1>1, <1>2, <1>3, <1>4 DEF Child

\* Every other step leaves operations and processes alone.
LEMMA BystanderIInv ==
    ASSUME IInv, op' = op, cli' = cli, TypeOK'
    PROVE  IInv'
  BY DEF IInv, Counted, Supervised, Writing

\* The registry's marks, the clock, the button and the shutdown.
LEMMA MarksIInv ==
    ASSUME IInv,
           \/ \E o \in Ops : \/ WatchSilence(o) \/ Tick(o) \/ Cancel(o)
                            \/ MarkCancelled(o) \/ Press(o)
           \/ CancelAll \/ Exit \/ Done
    PROVE  IInv'
<1> USE DEF IInv, TypeOK
<1>1. ASSUME NEW o \in Ops, WatchSilence(o) PROVE IInv'
  <2>1. RunOf(o) \in RunVals
    BY DEF RunOf, RunVals, OpType
  <2>2. TypeOK'
    BY <1>1, <2>1 DEF WatchSilence
  <2> QED
    BY <1>1, <2>2, BystanderIInv DEF WatchSilence
<1>2. ASSUME NEW o \in Ops, Tick(o) PROVE IInv'
  <2>1. TypeOK'
    BY <1>2 DEF Tick
  <2> QED
    BY <1>2, <2>1, BystanderIInv DEF Tick
<1>3. ASSUME NEW o \in Ops, Cancel(o) PROVE IInv'
  <2>1. TypeOK'
    BY <1>3 DEF Cancel, Rounds, NoRun
  <2> QED
    BY <1>3, <2>1, BystanderIInv DEF Cancel
<1>4. ASSUME NEW o \in Ops, MarkCancelled(o) PROVE IInv'
  <2>1. TypeOK'
    BY <1>4 DEF MarkCancelled, RunVals
  <2> QED
    BY <1>4, <2>1, BystanderIInv DEF MarkCancelled
<1>5. ASSUME NEW o \in Ops, Press(o) PROVE IInv'
  <2>1. TypeOK'
    BY <1>5 DEF Press
  <2> QED
    BY <1>5, <2>1, BystanderIInv DEF Press
<1>6. CASE CancelAll
  <2>1. TypeOK'
    BY <1>6 DEF CancelAll
  <2> QED
    BY <1>6, <2>1, BystanderIInv DEF CancelAll
<1>7. CASE Exit
  <2>1. TypeOK'
    BY <1>7 DEF Exit
  <2> QED
    BY <1>7, <2>1, BystanderIInv DEF Exit
<1>8. CASE Done
  BY <1>8, BystanderIInv DEF Done, vars
<1> QED
  BY <1>1, <1>2, <1>3, <1>4, <1>5, <1>6, <1>7, <1>8

\* A new request.
LEMMA AskIInv ==
    ASSUME IInv, NEW o \in Ops, NEW k \in Kinds, NEW e \in Engines, Ask(o, k, e)
    PROVE  IInv'
<1>0. /\ op \in [Ops -> OpType] /\ op[o] \in OpType
      /\ cli \in [Ops -> CliType] /\ cli[o] \in CliType
      /\ Counted(o) /\ Supervised(o)
  BY TypeOfOne
<1>1. op'[o] \in OpType
  <2>1. k \in AllKinds
    OBVIOUS
  <2>2. op'[o] = [pc |-> IF ReadOnly(k) THEN "begin" ELSE "protect", kind |-> k,
                  engine |-> e, round |-> op[o].round,
                  attempt |-> op[o].attempt, spawned |-> op[o].spawned,
                  outcome |-> op[o].outcome]
    BY <1>0 DEF Ask, OpType
  <2> QED
    BY <1>0, <2>1, <2>2 DEF OpType, Phases
<1>2. op' \in [Ops -> OpType]
  BY <1>0, <1>1 DEF Ask
<1>3. TypeOK'
  BY <1>2 DEF Ask, IInv, TypeOK
<1>4. \A q \in Ops \ {o} : op'[q] = op[q] /\ cli'[q] = cli[q]
  BY <1>0 DEF Ask
<1>5. /\ op[o].round = 0 /\ op[o].attempt = 0 /\ op[o].spawned = 0
      /\ op[o].pc = "idle" /\ op[o].outcome = "none"
  BY <1>0 DEF Ask, Counted
<1>6. /\ op'[o].round = 0 /\ op'[o].attempt = 0 /\ op'[o].spawned = 0
      /\ op'[o].pc \in {"protect", "begin"} /\ op'[o].outcome = "none"
  BY <1>0, <1>5 DEF Ask, OpType
<1>7. Counted(o)'
  BY <1>6 DEF Counted
<1>8. Supervised(o)'
  BY <1>0, <1>5, <1>6 DEF Ask, Supervised, Writing, OpType
<1> QED
  BY <1>3, <1>4, <1>7, <1>8, OneOperation
-----------------------------------------------------------------------------
\* One step of the specification.
LEMMA NextIInv == IInv /\ [Next]_vars => IInv'
<1> SUFFICES ASSUME IInv, [Next]_vars PROVE IInv'
  OBVIOUS
<1>1. ASSUME NEW o \in Ops, Program(o) PROVE IInv'
  BY <1>1, OperationIInv, GoroutinesIInv, MarksIInv DEF Program
<1>2. ASSUME NEW o \in Ops, Child(o) PROVE IInv'
  BY <1>2, ChildIInv
<1>3. ASSUME NEW o \in Ops, User(o) PROVE IInv'
  BY <1>3, AskIInv, MarksIInv DEF User
<1>4. CASE CancelAll \/ Exit \/ Done
  BY <1>4, MarksIInv
<1>5. CASE UNCHANGED vars
  BY <1>5, MarksIInv, BystanderIInv DEF vars, IInv, TypeOK
<1> QED
  BY <1>1, <1>2, <1>3, <1>4, <1>5 DEF Next

\* The invariant holds of every behaviour.
LEMMA Invariance == Spec => []IInv
  BY InitIInv, NextIInv, PTL DEF Spec

\* AiRun: the state keeps its shape whatever the operations, the children, the
\* deadlines and the stop button do; in particular Execute never makes a third
\* attempt and draw never starts one round more than it may.
THEOREM TypeCorrect == Spec => []TypeOK
<1>1. IInv => TypeOK
  BY DEF IInv
<1> QED
  BY <1>1, Invariance, PTL

\* AI-055, by the mark the code goes by: an operation that is not marked ReadOnly
\* starts its engine at most once, one that is at most twice per round.
THEOREM StartsStayInBudget == Spec => []StartsWithinBudget
<1>1. ASSUME IInv, NEW o \in Ops PROVE op[o].spawned <= Budget(op[o].kind)
  <2>1. /\ op[o] \in OpType /\ Counted(o)
    BY <1>1, TypeOfOne
  <2>2. op[o].spawned <= 2 * op[o].round + op[o].attempt
    BY <2>1 DEF Counted
  <2>3. CASE ~ReadOnly(op[o].kind)
    BY <2>1, <2>2, <2>3 DEF Counted, ReadOnly, Budget, OpType, Rounds
  <2>4. CASE op[o].kind = "draw"
    BY <2>1, <2>2, <2>4 DEF ReadOnly, Budget, OpType, Rounds
  <2>5. CASE ReadOnly(op[o].kind) /\ op[o].kind # "draw"
    BY <2>1, <2>2, <2>5 DEF Counted, Budget, OpType, Rounds
  <2> QED
    BY <2>3, <2>4, <2>5
<1>2. IInv => StartsWithinBudget
  BY <1>1 DEF StartsWithinBudget
<1> QED
  BY <1>2, Invariance, PTL

\* AI-010, AI-054: a reply was read from everything both pipes carried, by an
\* engine that was handed its whole input.
THEOREM WholeReply == Spec => []ReplyIsWhole
<1>1. ASSUME IInv, NEW o \in Ops,
             op[o].outcome = "reply", op[o].engine # "http"
      PROVE  cli[o].heard = cli[o].said /\ cli[o].stdin = "fed"
  <2>1. /\ cli[o] \in CliType /\ Supervised(o)
    BY <1>1, TypeOfOne
  <2>2. cli[o].pumps = {} /\ cli[o].stdin = "fed"
    BY <1>1, <2>1 DEF Supervised
  <2>3. \A s \in Streams : cli[o].heard[s] = cli[o].said[s]
    BY <2>1, <2>2 DEF Supervised
  <2> QED
    BY <2>1, <2>2, <2>3 DEF CliType
<1>2. IInv => ReplyIsWhole
  BY <1>1 DEF ReplyIsWhole
<1> QED
  BY <1>2, Invariance, PTL-----------------------------------------------------------------------------
\* A step that changes nothing the contract sees of any operation is a stutter.
LEMMA Unseen ==
    ASSUME \A q \in Ops :
              /\ PhaseOf(q)' = PhaseOf(q) /\ AnswerOf(q)' = AnswerOf(q)
              /\ op'[q].kind = op[q].kind /\ op'[q].spawned = op[q].spawned
              /\ cli'[q].child \in {"alive", "exited"}
                    <=> cli[q].child \in {"alive", "exited"}
    PROVE  UNCHANGED Contract!contractVars
<1>1. phaseBar' = phaseBar /\ answerBar' = answerBar
  BY DEF phaseBar, answerBar
<1>2. kindBar' = kindBar /\ startsBar' = startsBar
  BY DEF kindBar, startsBar
<1>3. liveBar' = liveBar
  BY DEF liveBar
<1> QED
  BY <1>1, <1>2, <1>3 DEF Contract!contractVars

\* What a step of one operation does to what the contract sees.
LEMMA SeenOf ==
    ASSUME NEW o \in Ops,
           \A q \in Ops \ {o} : op'[q] = op[q] /\ cli'[q] = cli[q]
    PROVE  /\ phaseBar' = [phaseBar EXCEPT ![o] = PhaseOf(o)']
           /\ kindBar' = [kindBar EXCEPT ![o] = op'[o].kind]
           /\ startsBar' = [startsBar EXCEPT ![o] = op'[o].spawned]
           /\ answerBar' = [answerBar EXCEPT ![o] = AnswerOf(o)']
           /\ liveBar' \ {o} = liveBar \ {o}
<1>1. \A q \in Ops \ {o} : PhaseOf(q)' = PhaseOf(q) /\ AnswerOf(q)' = AnswerOf(q)
  BY DEF PhaseOf, AnswerOf
<1>2. phaseBar' = [phaseBar EXCEPT ![o] = PhaseOf(o)']
  BY <1>1 DEF phaseBar
<1>3. kindBar' = [kindBar EXCEPT ![o] = op'[o].kind]
  BY DEF kindBar
<1>4. startsBar' = [startsBar EXCEPT ![o] = op'[o].spawned]
  BY DEF startsBar
<1>5. answerBar' = [answerBar EXCEPT ![o] = AnswerOf(o)']
  BY <1>1 DEF answerBar
<1>6. liveBar' \ {o} = liveBar \ {o}
  BY DEF liveBar
<1> QED
  BY <1>2, <1>3, <1>4, <1>5, <1>6

\* Init of the program is an initial state of the contract.
LEMMA InitRefines == Init => Contract!Init
<1> SUFFICES ASSUME Init PROVE Contract!Init
  OBVIOUS
<1>1. \A o \in Ops : /\ PhaseOf(o) = "idle" /\ AnswerOf(o) = "none"
                     /\ op[o].kind \in AllKinds /\ op[o].spawned = 0
                     /\ cli[o].child = "none"
  BY DEF Init, PhaseOf, AnswerOf, NoProcess, AllKinds
<1> QED
  BY <1>1 DEF Contract!Init, phaseBar, kindBar, startsBar, liveBar, answerBar

\* A request opens an operation.
LEMMA AskRefines ==
    ASSUME IInv, NEW o \in Ops, NEW k \in Kinds, NEW e \in Engines, Ask(o, k, e)
    PROVE  Contract!Ask(o)
<1>0. /\ op \in [Ops -> OpType] /\ op[o] \in OpType
  BY TypeOfOne
<1>1. \A q \in Ops \ {o} : op'[q] = op[q] /\ cli'[q] = cli[q]
  BY <1>0 DEF Ask
<1>2. /\ op[o].pc = "idle" /\ op'[o].pc \in {"protect", "begin"}
      /\ op'[o].kind = k /\ op'[o].spawned = op[o].spawned
  BY <1>0 DEF Ask, OpType
<1>3. PhaseOf(o) = "idle" /\ PhaseOf(o)' = "open"
  BY <1>2 DEF PhaseOf
<1>4. AnswerOf(o) = "none" /\ AnswerOf(o)' = "none"
  BY <1>2 DEF AnswerOf
<1>5. startsBar' = startsBar /\ answerBar' = answerBar
  <2>1. \A q \in Ops : op'[q].spawned = op[q].spawned
    BY <1>1, <1>2
  <2>2. \A q \in Ops : AnswerOf(q)' = AnswerOf(q)
    BY <1>1, <1>4 DEF AnswerOf
  <2> QED
    BY <2>1, <2>2 DEF startsBar, answerBar
<1>6. liveBar' = liveBar
  BY DEF Ask, liveBar
<1>7. phaseBar[o] = "idle" /\ phaseBar' = [phaseBar EXCEPT ![o] = "open"]
  BY <1>1, <1>3, SeenOf DEF phaseBar
<1>8. kindBar' = [kindBar EXCEPT ![o] = k] /\ k \in AllKinds
  BY <1>1, <1>2, SeenOf
<1> QED
  BY <1>5, <1>6, <1>7, <1>8 DEF Contract!Ask

\* A step that leaves an operation's kind, its count, whether its process is
\* reaped and whether it is over, is a stutter of the contract.
LEMMA QuietStep ==
    ASSUME NEW o \in Ops,
           \A q \in Ops \ {o} : op'[q] = op[q] /\ cli'[q] = cli[q],
           op[o].pc \notin {"idle", "over"}, op'[o].pc \notin {"idle", "over"},
           op'[o].kind = op[o].kind, op'[o].spawned = op[o].spawned,
           cli'[o].child \in {"alive", "exited"}
               <=> cli[o].child \in {"alive", "exited"}
    PROVE  UNCHANGED Contract!contractVars
<1>1. PhaseOf(o)' = PhaseOf(o) /\ AnswerOf(o)' = AnswerOf(o)
  BY DEF PhaseOf, AnswerOf
<1>2. \A q \in Ops : PhaseOf(q)' = PhaseOf(q) /\ AnswerOf(q)' = AnswerOf(q)
  BY <1>1 DEF PhaseOf, AnswerOf
<1> QED
  BY <1>2, Unseen

\* execute starts a process: within the budget of its kind, and when the one
\* before it is reaped.
LEMMA SpawnRefines ==
    ASSUME IInv, NEW o \in Ops, Spawn(o)
    PROVE  Contract!Start(o) \/ UNCHANGED Contract!contractVars
<1>0. /\ op \in [Ops -> OpType] /\ op[o] \in OpType
      /\ cli \in [Ops -> CliType] /\ cli[o] \in CliType
      /\ Counted(o) /\ Supervised(o)
  BY TypeOfOne
<1>1. op[o].pc = "spawn" /\ cli[o].child \notin {"alive", "exited"}
  BY <1>0 DEF Spawn, Supervised
<1>2. CASE /\ op' = [op EXCEPT ![o] =
                [@ EXCEPT !.pc = "running", !.attempt = op[o].attempt + 1,
                          !.spawned = op[o].spawned + 1]]
           /\ cli' = [cli EXCEPT ![o] =
                [NoProcess EXCEPT !.child = "alive", !.killer = "armed",
                                  !.pumps = Streams,
                                  !.stdin = IF op[o].engine = "stdin"
                                            THEN "feeding" ELSE "fed"]]
  <2>1. \A q \in Ops \ {o} : op'[q] = op[q] /\ cli'[q] = cli[q]
    BY <1>0, <1>2
  <2>2. /\ op'[o].pc = "running" /\ op'[o].kind = op[o].kind
        /\ op'[o].spawned = op[o].spawned + 1
    BY <1>0, <1>2 DEF OpType
  <2>3. cli'[o].child = "alive"
    BY <1>0, <1>2 DEF NoProcess
  <2>4. op[o].spawned < Budget(op[o].kind)
    <3>1. op[o].spawned <= 2 * op[o].round + op[o].attempt
      BY <1>0 DEF Counted
    <3>2. CASE ~ReadOnly(op[o].kind)
      BY <1>0, <1>1, <3>1, <3>2 DEF Counted, ReadOnly, Budget, OpType, Rounds
    <3>3. CASE op[o].kind = "draw"
      BY <1>0, <1>1, <3>1, <3>3 DEF Counted, ReadOnly, Budget, OpType, Rounds
    <3>4. CASE ReadOnly(op[o].kind) /\ op[o].kind # "draw"
      BY <1>0, <1>1, <3>1, <3>4 DEF Counted, Budget, OpType, Rounds
    <3> QED
      BY <3>2, <3>3, <3>4
  <2>5. PhaseOf(o) = "open" /\ PhaseOf(o)' = "open"
    BY <1>1, <2>2 DEF PhaseOf
  <2>6. \A q \in Ops : /\ PhaseOf(q)' = PhaseOf(q) /\ AnswerOf(q)' = AnswerOf(q)
                       /\ op'[q].kind = op[q].kind
    BY <1>1, <2>1, <2>2 DEF PhaseOf, AnswerOf
  <2>7. phaseBar' = phaseBar /\ answerBar' = answerBar /\ kindBar' = kindBar
    BY <2>6 DEF phaseBar, answerBar, kindBar
  <2>8. startsBar' = [startsBar EXCEPT ![o] = startsBar[o] + 1]
    BY <2>1, <2>2, SeenOf DEF startsBar
  <2>9. o \notin liveBar /\ liveBar' = liveBar \cup {o}
    BY <1>1, <2>1, <2>3 DEF liveBar
  <2>10. phaseBar[o] = "open" /\ startsBar[o] < Budget(kindBar[o])
    BY <2>4, <2>5 DEF phaseBar, startsBar, kindBar
  <2> QED
    BY <2>7, <2>8, <2>9, <2>10 DEF Contract!Start
<1>3. CASE /\ op' = [op EXCEPT ![o] =
                [@ EXCEPT !.pc = "judged", !.attempt = op[o].attempt + 1,
                          !.outcome = "not_started"]]
           /\ cli' = cli
  <2>1. \A q \in Ops \ {o} : op'[q] = op[q] /\ cli'[q] = cli[q]
    BY <1>0, <1>3
  <2>2. /\ op'[o].pc = "judged" /\ op'[o].kind = op[o].kind
        /\ op'[o].spawned = op[o].spawned
    BY <1>0, <1>3 DEF OpType
  <2> QED
    BY <1>1, <1>3, <2>1, <2>2, QuietStep
<1> QED
  BY <1>2, <1>3 DEF Spawn

\* Wait reaps it.
LEMMA ReapRefines ==
    ASSUME IInv, NEW o \in Ops, Reap(o)
    PROVE  Contract!Finish(o)
<1>0. /\ op \in [Ops -> OpType] /\ op[o] \in OpType
      /\ cli \in [Ops -> CliType] /\ cli[o] \in CliType
  BY TypeOfOne
<1>1. \A q \in Ops \ {o} : op'[q] = op[q] /\ cli'[q] = cli[q]
  BY <1>0 DEF Reap, Goto
<1>2. /\ op[o].pc = "running" /\ op'[o].pc = "waited"
      /\ op'[o].kind = op[o].kind /\ op'[o].spawned = op[o].spawned
  BY <1>0 DEF Reap, Goto, OpType
<1>3. cli[o].child = "exited" /\ cli'[o].child = "reaped"
  BY <1>0 DEF Reap, CliType
<1>4. \A q \in Ops :
         /\ PhaseOf(q)' = PhaseOf(q) /\ AnswerOf(q)' = AnswerOf(q)
         /\ op'[q].kind = op[q].kind /\ op'[q].spawned = op[q].spawned
  BY <1>1, <1>2 DEF PhaseOf, AnswerOf
<1>5. /\ phaseBar' = phaseBar /\ answerBar' = answerBar
      /\ kindBar' = kindBar /\ startsBar' = startsBar
  BY <1>4 DEF phaseBar, answerBar, kindBar, startsBar
<1>6. o \in liveBar /\ liveBar' = liveBar \ {o}
  BY <1>1, <1>3 DEF liveBar
<1> QED
  BY <1>5, <1>6 DEF Contract!Finish

\* The caller hands the answer over, or sends a diagram back.
LEMMA SettleRefines ==
    ASSUME IInv, NEW o \in Ops, Settle(o)
    PROVE  Contract!Answer(o) \/ UNCHANGED Contract!contractVars
<1>0. /\ op \in [Ops -> OpType] /\ op[o] \in OpType
      /\ Counted(o) /\ Supervised(o)
  BY TypeOfOne
<1>1. /\ op[o].pc = "after" /\ cli' = cli
      /\ cli[o].child \notin {"alive", "exited"}
  BY <1>0 DEF Settle, Supervised
<1>2. op[o].outcome \in Answers
  BY <1>0, <1>1 DEF Counted, OpType
<1>3. ASSUME NEW a \in Answers,
             \A q \in Ops \ {o} : op'[q] = op[q],
             op'[o].pc = "over", op'[o].outcome = a,
             op'[o].kind = op[o].kind, op'[o].spawned = op[o].spawned
      PROVE  Contract!Answer(o)
  <2>1. \A q \in Ops \ {o} : op'[q] = op[q] /\ cli'[q] = cli[q]
    BY <1>1, <1>3
  <2>2. PhaseOf(o) = "open" /\ PhaseOf(o)' = "over" /\ AnswerOf(o)' = a
    BY <1>1, <1>3 DEF PhaseOf, AnswerOf
  <2>3. \A q \in Ops : op'[q].kind = op[q].kind /\ op'[q].spawned = op[q].spawned
    BY <1>3
  <2>4. kindBar' = kindBar /\ startsBar' = startsBar
    BY <2>3 DEF kindBar, startsBar
  <2>5. o \notin liveBar /\ liveBar' = liveBar
    BY <1>1 DEF liveBar
  <2>6. phaseBar' = [phaseBar EXCEPT ![o] = "over"] /\ phaseBar[o] = "open"
    BY <2>1, <2>2, SeenOf DEF phaseBar
  <2>7. answerBar' = [answerBar EXCEPT ![o] = a]
    BY <2>1, <2>2, SeenOf
  <2> QED
    BY <2>4, <2>5, <2>6, <2>7 DEF Contract!Answer
<1>4. CASE Goto(o, "over")
  BY <1>0, <1>2, <1>3, <1>4 DEF Goto, OpType
<1>5. CASE Conclude(o, "over", "invalid")
  <2>1. "invalid" \in Answers
    BY DEF Answers
  <2> QED
    BY <1>0, <1>3, <1>5, <2>1 DEF Conclude, OpType
<1>6. CASE op' = [op EXCEPT ![o] =
                    [@ EXCEPT !.pc = "begin", !.round = op[o].round + 1]]
  <2>1. \A q \in Ops \ {o} : op'[q] = op[q] /\ cli'[q] = cli[q]
    BY <1>0, <1>1, <1>6
  <2>2. /\ op'[o].pc = "begin" /\ op'[o].kind = op[o].kind
        /\ op'[o].spawned = op[o].spawned
    BY <1>0, <1>6 DEF OpType
  <2> QED
    BY <1>1, <2>1, <2>2, QuietStep
<1> QED
  BY <1>4, <1>5, <1>6 DEF Settle

\* The steps of an operation that no caller can tell apart.
LEMMA OperationRefines ==
    ASSUME IInv, NEW o \in Ops, Operation(o)
    PROVE  [Contract!Next]_(Contract!contractVars)
<1>0. /\ op \in [Ops -> OpType] /\ op[o] \in OpType
      /\ cli \in [Ops -> CliType] /\ cli[o] \in CliType
      /\ Counted(o) /\ Supervised(o)
  BY TypeOfOne
<1>1. CASE Protect(o)
  BY <1>0, <1>1, QuietStep DEF Protect, Goto, OpType
<1>2. CASE Begin(o)
  <2>1. \A q \in Ops \ {o} : op'[q] = op[q] /\ cli'[q] = cli[q]
    BY <1>0, <1>2 DEF Begin
  <2>2. /\ op[o].pc = "begin" /\ op'[o].pc = "prepare"
        /\ op'[o].kind = op[o].kind /\ op'[o].spawned = op[o].spawned
    BY <1>0, <1>2 DEF Begin, OpType
  <2>3. cli'[o].child = "none" /\ cli[o].child \notin {"alive", "exited"}
    BY <1>0, <1>2, <2>2 DEF Begin, NoProcess, Supervised
  <2> QED
    BY <2>1, <2>2, <2>3, QuietStep
<1>3. CASE HTTPTurn(o)
  <2>1. PICK v \in Verdicts : Conclude(o, "after", v)
    BY <1>3 DEF HTTPTurn
  <2> QED
    BY <1>0, <1>3, <2>1, QuietStep DEF HTTPTurn, Conclude, OpType
<1>4. CASE Prepare(o)
  <2>1. op[o].pc = "prepare" /\ cli' = cli
    BY <1>4 DEF Prepare
  <2>2. CASE Goto(o, "spawn")
    BY <1>0, <2>1, <2>2, QuietStep DEF Goto, OpType
  <2>3. CASE Conclude(o, "end", "refused")
    BY <1>0, <2>1, <2>3, QuietStep DEF Conclude, OpType
  <2> QED
    BY <1>4, <2>2, <2>3 DEF Prepare
<1>5. CASE Spawn(o)
  BY <1>5, SpawnRefines DEF Contract!Next
<1>6. CASE Reap(o)
  BY <1>6, ReapRefines DEF Contract!Next
<1>7. CASE Decide(o)
  BY <1>0, <1>7, QuietStep DEF Decide, Conclude, OpType
<1>8. CASE Judge(o)
  BY <1>0, <1>8, QuietStep DEF Judge, Goto, OpType
<1>9. CASE End(o)
  BY <1>0, <1>9, QuietStep DEF End, Goto, OpType
<1>10. CASE Settle(o)
  BY <1>10, SettleRefines DEF Contract!Next
<1> QED
  BY <1>1, <1>2, <1>3, <1>4, <1>5, <1>6, <1>7, <1>8, <1>9, <1>10 DEF Operation

\* Pipes, kills and whatever the child does reap nobody.
LEMMA ProcessRefines ==
    ASSUME IInv, NEW o \in Ops, Stdio(o) \/ StopWatch(o) \/ Child(o)
    PROVE  UNCHANGED Contract!contractVars
<1>0. cli \in [Ops -> CliType] /\ cli[o] \in CliType
  BY TypeOfOne
<1>1. op' = op
  BY DEF Stdio, FeedStdin, PumpRead, PumpEOF, StopWatch, Child, ChildForks,
         ChildExits, GrandchildExits, ChildWrites
<1> DEFINE Reaps == ~ /\ \A q \in Ops \ {o} : cli'[q] = cli[q]
                      /\ \/ cli'[o].child = cli[o].child
                         \/ cli[o].child = "alive" /\ cli'[o].child = "exited"
<1>2. ~Reaps
  <2>1. CASE FeedStdin(o)
    BY <1>0, <2>1 DEF FeedStdin, CliType
  <2>2. ASSUME NEW s \in Streams, PumpRead(o, s) \/ PumpEOF(o, s)
        PROVE  ~Reaps
    BY <1>0, <2>2 DEF PumpRead, PumpEOF, CliType
  <2>3. CASE StopWatch(o)
    <3>1. CASE cli' = [cli EXCEPT ![o].killer = "done"]
      BY <1>0, <3>1 DEF CliType
    <3>2. CASE cli' = [cli EXCEPT ![o] =
                [@ EXCEPT !.killer = "done",
                          !.child = Killed(cli[o].child),
                          !.grand = IF cli[o].child = "reaped"
                                    THEN cli[o].grand ELSE "none"]]
      BY <1>0, <3>2 DEF CliType, Killed
    <3> QED
      BY <2>3, <3>1, <3>2 DEF StopWatch
  <2>4. CASE ChildForks(o) \/ GrandchildExits(o)
    BY <1>0, <2>4 DEF ChildForks, GrandchildExits, CliType
  <2>5. CASE ChildExits(o)
    BY <1>0, <2>5 DEF ChildExits, CliType
  <2>6. ASSUME NEW s \in Streams, ChildWrites(o, s)
        PROVE  ~Reaps
    BY <1>0, <2>6 DEF ChildWrites, CliType
  <2> QED
    BY <2>1, <2>2, <2>3, <2>4, <2>5, <2>6 DEF Stdio, Child
<1> QED
  BY <1>1, <1>2, Unseen DEF PhaseOf, AnswerOf

\* Every step of the program is a step of the contract or none.
LEMMA NextRefines ==
    IInv /\ [Next]_vars => [Contract!Next]_(Contract!contractVars)
<1> SUFFICES ASSUME IInv, [Next]_vars
             PROVE  [Contract!Next]_(Contract!contractVars)
  OBVIOUS
<1>1. ASSUME op' = op, cli' = cli PROVE UNCHANGED Contract!contractVars
  BY <1>1, Unseen DEF PhaseOf, AnswerOf
<1>2. ASSUME NEW o \in Ops, Program(o)
      PROVE  [Contract!Next]_(Contract!contractVars)
  <2>1. CASE Operation(o)
    BY <2>1, OperationRefines
  <2>2. CASE Stdio(o) \/ StopWatch(o)
    BY <2>2, ProcessRefines
  <2>3. CASE WatchSilence(o) \/ Tick(o) \/ Cancel(o) \/ MarkCancelled(o)
    BY <1>1, <2>3 DEF WatchSilence, Tick, Cancel, MarkCancelled
  <2> QED
    BY <1>2, <2>1, <2>2, <2>3 DEF Program
<1>3. ASSUME NEW o \in Ops, Child(o)
      PROVE  [Contract!Next]_(Contract!contractVars)
  BY <1>3, ProcessRefines
<1>4. ASSUME NEW o \in Ops, User(o)
      PROVE  [Contract!Next]_(Contract!contractVars)
  <2>1. CASE Press(o)
    BY <1>1, <2>1 DEF Press
  <2>2. ASSUME NEW k \in Kinds, NEW e \in Engines, Ask(o, k, e)
        PROVE  Contract!Next
    BY <2>2, AskRefines DEF Contract!Next
  <2> QED
    BY <1>4, <2>1, <2>2 DEF User
<1>5. CASE CancelAll \/ Exit \/ Done \/ UNCHANGED vars
  BY <1>1, <1>5 DEF CancelAll, Exit, Done, vars
<1> QED
  BY <1>2, <1>3, <1>4, <1>5 DEF Next

\* AiRun keeps the promise of RunContract: one process at a time, within the
\* budget of its kind, one answer, and none while a process is unreaped.
THEOREM KeepsTheContract == Spec => ImplementsContract
<1>1. Init => Contract!Init
  BY InitRefines
<1>2. IInv /\ [Next]_vars => [Contract!Next]_(Contract!contractVars)
  BY NextRefines
<1> QED
  BY <1>1, <1>2, Invariance, PTL DEF Spec, ImplementsContract, Contract!Contract

=============================================================================
