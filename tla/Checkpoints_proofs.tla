------------------------- MODULE Checkpoints_proofs -------------------------
(***************************************************************************)
(* That nothing an agent did is ever without its undo, and that a restore  *)
(* puts back what it says, for any number of agents, replaces, visits to   *)
(* the dialog and files, every interleaving and every crash.               *)
(***************************************************************************)
EXTENDS Checkpoints, FiniteSetTheorems, TLAPS

Seen == Paths \ Hidden

\* A checkpoint that was there has been made from a snapshot that is final.
Finished(j) == pc[j] \notin {"idle", "snapshot", "park"}

Known ==
    /\ \A j \in parked : Finished(j)
    /\ \A j \in Jobs : victims[j] \subseteq parked
    /\ \A u \in Undos : listed[u] \subseteq parked
    /\ \A u \in Undos :
          upc[u] \in {"resolve", "diff", "writing", "restored"} => target[u] \in parked

\* The agent of j left nothing of its own behind in the file p.
Clean(j, p) == writer[p] = j => tree[p] = snap[j][p]

\* A checkpoint about to be discarded protects nothing; nor did one that
\* neither the user nor a prune took, and its agent writes no more.
Discarded ==
    \A j \in Turns :
        /\ pc[j] = "discard" => \A p \in Seen : Clean(j, p)
        /\ j \in parked \ (refs \cup pruned \cup forgotten) =>
               pc[j] = "over" /\ \A p \in Seen : Clean(j, p)

\* A path a restore is done with, as far as git read it.
PutBack(u, p) ==
    \/ p \in disturbed[u] \cup misread[u]
    \/ tree[p] = snap[target[u]][p]
    \/ Faulty /\ snap[target[u]][p] = Absent

Restored(u) ==
    /\ upc[u] = "restored" => todo[u] = {}
    /\ upc[u] \in {"writing", "restored"} =>
           \A p \in Seen : p \in todo[u] \/ PutBack(u, p)

Restoring == \A u \in Undos : Restored(u)

IInv == TypeOK /\ Known /\ Discarded /\ Restoring
-----------------------------------------------------------------------------
\* The index of a tree holds every file that is never hidden as it is.
LEMMA VisibleSeen ==
    ASSUME NEW t \in [Paths -> State], NEW p \in Seen
    PROVE  Visible(t)[p] = t[p]
  BY DEF Visible, Seen

\* And it is a tree.
LEMMA VisibleType ==
    ASSUME NEW t \in [Paths -> State]
    PROVE  Visible(t) \in [Paths -> State]
  BY CheckpointsAssumption DEF Visible, State

\* The paths that differ are paths, and every path seen that does not differ is
\* as in the snapshot.
LEMMA ChangedType ==
    ASSUME TypeOK, NEW j \in Jobs
    PROVE  /\ ChangedPaths(j) \subseteq Paths
           /\ \A p \in Seen : p \in ChangedPaths(j) \/ tree[p] = snap[j][p]
  BY VisibleSeen DEF ChangedPaths, TypeOK, Seen

LEMMA InitIInv == Init => IInv
  <1> SUFFICES ASSUME Init PROVE IInv
    OBVIOUS
  <1>1. TypeOK
    BY CheckpointsAssumption
    DEF Init, TypeOK, JobPhases, UndoPhases, Jobs, Writers, State
  <1>2. Known
    BY DEF Init, Known, Finished
  <1>3. Discarded
    BY DEF Init, Discarded, Jobs
  <1>4. Restoring
    BY DEF Init, Restoring, Restored
  <1>. QED
    BY <1>1, <1>2, <1>3, <1>4 DEF IInv
-----------------------------------------------------------------------------
(***************************************************************************)
(* Types.                                                                  *)
(***************************************************************************)
LEMMA WriteType ==
    ASSUME TypeOK, NEW w \in Writers, NEW p \in Paths, NEW c \in State, Write(w, p, c)
    PROVE  /\ tree' \in [Paths -> State]
           /\ writer' \in [Paths -> Writers]
           /\ disturbed' \in [Undos -> SUBSET Paths]
  BY DEF TypeOK, Write

LEMMA JobType ==
    ASSUME TypeOK, Known, NEW j \in Jobs, Job(j)
    PROVE  TypeOK'
  <1> USE CheckpointsAssumption
  <1> j \in Writers
    BY DEF Writers
  <1>1. CASE Begin(j)
    BY <1>1 DEF TypeOK, Begin, Goto, JobPhases, gitVars, undoVars, diskVars, markVars
  <1>2. CASE Plan(j)
    <2>1. plan' \in [Jobs -> [Paths -> State]] /\ pc' \in [Jobs -> JobPhases]
      BY <1>2 DEF TypeOK, Plan, Goto, JobPhases
    <2>. QED
      BY <1>2, <2>1 DEF TypeOK, Plan, Goto, gitVars, undoVars, diskVars, markVars
  <1>3. CASE Snapshot(j)
    <2>1. Visible(tree) \in [Paths -> State]
      BY VisibleType DEF TypeOK
    <2>2. snap' \in [Jobs -> [Paths -> State]]
      <3>1. snap \in [Jobs -> [Paths -> State]]
        BY DEF TypeOK
      <3>2. snap' = [snap EXCEPT ![j] = Visible(tree)] \/ snap' = snap
        BY <1>3 DEF Snapshot
      <3>. QED
        BY <2>1, <3>1, <3>2
    <2>3. at' \in [Jobs -> Nat]
      <3>1. at \in [Jobs -> Nat] /\ now \in Nat
        BY DEF TypeOK
      <3>2. at' = [at EXCEPT ![j] = now] \/ at' = at
        BY <1>3 DEF Snapshot
      <3>. QED
        BY <3>1, <3>2
    <2>4. existed' \in [Jobs -> SUBSET Paths]
      <3>1. {p \in Paths : tree[p] # Absent} \in SUBSET Paths
        OBVIOUS
      <3>. QED
        <4>1. existed \in [Jobs -> SUBSET Paths]
          BY DEF TypeOK
        <4>2. \/ existed' = [existed EXCEPT ![j] = {p \in Paths : tree[p] # Absent}]
              \/ existed' = existed
          BY <1>3 DEF Snapshot
        <4>. QED
          BY <3>1, <4>1, <4>2
    <2>5. /\ pc' \in [Jobs -> JobPhases]
          /\ \A k \in Jobs : pc'[k] = "dropping" => pc[k] = "dropping"
      BY <1>3 DEF TypeOK, Snapshot, Goto, JobPhases
    <2>. QED
      BY <1>3, <2>2, <2>3, <2>4, <2>5 DEF TypeOK, Snapshot, gitVars, undoVars, diskVars, markVars
  <1>4. CASE Park(j)
    <2>1. /\ pc' \in [Jobs -> JobPhases]
          /\ \A k \in Jobs : pc'[k] = "dropping" => pc[k] = "dropping"
      BY <1>4 DEF TypeOK, Park, Goto, JobPhases
    <2>2. refs' \subseteq parked' /\ parked' \subseteq Jobs /\ parked \subseteq parked'
      BY <1>4 DEF TypeOK, Park
    <2>. QED
      BY <1>4, <2>1, <2>2 DEF TypeOK, Park, undoVars, diskVars
  <1>5. CASE PruneList(j)
    <2>1. CASE HasTooMany /\ Goto(j, "dropping")
      <3>1. PICK old \in SUBSET refs :
                Oldest(old) /\ victims' = [victims EXCEPT ![j] = old]
        BY <1>5, <2>1 DEF PruneList, Goto, TypeOK
      <3>2. old # {}
        BY <2>1, <3>1 DEF HasTooMany, Oldest
      <3>3. /\ pc' \in [Jobs -> JobPhases] /\ victims' \in [Jobs -> SUBSET Jobs]
            /\ \A k \in Jobs : pc'[k] = "dropping" => victims'[k] # {}
        BY <2>1, <3>1, <3>2 DEF TypeOK, Goto, JobPhases
      <3>. QED
        BY <1>5, <3>3 DEF TypeOK, PruneList, gitVars, undoVars, diskVars, markVars
    <2>2. CASE Goto(j, "work") /\ UNCHANGED victims
      BY <1>5, <2>2 DEF TypeOK, PruneList, Goto, JobPhases, gitVars, undoVars, diskVars, markVars
    <2>. QED
      BY <1>5, <2>1, <2>2 DEF PruneList
  <1>6. CASE PruneDrop(j)
    <2>1. PICK v \in victims[j] :
            /\ refs' = refs \ {v} \/ UNCHANGED refs
            /\ victims' = [victims EXCEPT ![j] = victims[j] \ {v}]
            /\ pruned' = pruned \cup {v}
            /\ Goto(j, IF victims[j] = {v} THEN "work" ELSE "dropping")
      BY <1>6 DEF PruneDrop
    <2>2. /\ pc' \in [Jobs -> JobPhases] /\ victims' \in [Jobs -> SUBSET Jobs]
          /\ \A k \in Jobs : pc'[k] = "dropping" => victims'[k] # {}
      BY <2>1 DEF TypeOK, Goto, JobPhases
    <2>3. refs' \subseteq parked /\ pruned' \subseteq parked
      BY <2>1 DEF TypeOK, Known
    <2>. QED
      BY <1>6, <2>2, <2>3 DEF TypeOK, PruneDrop, undoVars, diskVars
  <1>7. CASE TurnEnds(j)
    BY <1>7, ZenonT(40) DEF TypeOK, TurnEnds, Goto, JobPhases, gitVars, undoVars, diskVars, markVars
  <1>8. CASE WritePlanned(j)
    <2>1. /\ tree' \in [Paths -> State] /\ writer' \in [Paths -> Writers]
          /\ disturbed' \in [Undos -> SUBSET Paths]
      <3>1. CASE UNCHANGED diskVars
        BY <3>1 DEF TypeOK, diskVars
      <3>2. ASSUME NEW p \in Paths, Write(j, p, plan[j][p]) PROVE <2>1
        <4>1. plan[j][p] \in State
          BY DEF TypeOK
        <4>. QED
          BY <3>2, <4>1, WriteType
      <3>. QED
        BY <1>8, <3>1, <3>2 DEF WritePlanned
    <2>2. plan' \in [Jobs -> [Paths -> State]]
      <3>1. plan \in [Jobs -> [Paths -> State]] /\ Absent \in State
        BY DEF TypeOK, State
      <3>2. \/ \E p \in Paths : plan' = [plan EXCEPT ![j] = [plan[j] EXCEPT ![p] = Absent]]
            \/ plan' = plan
        BY <1>8 DEF WritePlanned
      <3>3. \A p \in Paths : [plan[j] EXCEPT ![p] = Absent] \in [Paths -> State]
        BY <3>1
      <3>. QED
        BY <3>1, <3>2, <3>3
    <2>3. /\ pc' \in [Jobs -> JobPhases]
          /\ \A k \in Jobs : pc'[k] = "dropping" => pc[k] = "dropping"
      BY <1>8 DEF TypeOK, WritePlanned, Goto, JobPhases
    <2>. QED
      BY <1>8, <2>1, <2>2, <2>3 DEF TypeOK, WritePlanned, gitVars, undoVars, markVars
  <1>9. CASE Resolve(j)
    BY <1>9 DEF TypeOK, Resolve, Goto, JobPhases, gitVars, undoVars, diskVars, markVars
  <1>10. CASE Compare(j)
    BY <1>10 DEF TypeOK, Compare, Goto, JobPhases, gitVars, undoVars, diskVars, markVars
  <1>11. CASE Discard(j)
    BY <1>11 DEF TypeOK, Discard, Goto, JobPhases, undoVars, diskVars, markVars
  <1>12. ASSUME NEW p \in Paths, NEW c \in State, AgentWrites(j, p, c)
         PROVE  TypeOK'
    <2>1. /\ tree' \in [Paths -> State] /\ writer' \in [Paths -> Writers]
          /\ disturbed' \in [Undos -> SUBSET Paths]
      BY <1>12, WriteType DEF AgentWrites
    <2>2. edits' \in [Writers -> Nat]
      BY <1>12 DEF TypeOK, AgentWrites
    <2>. QED
      BY <1>12, <2>1, <2>2 DEF TypeOK, AgentWrites, gitVars, jobVars, undoVars
  <1>. QED
    BY <1>1, <1>2, <1>3, <1>4, <1>5, <1>6, <1>7, <1>8, <1>9, <1>10, <1>11, <1>12
    DEF Job, Create

LEMMA UndoType ==
    ASSUME TypeOK, Known, NEW u \in Undos, Undo(u)
    PROVE  TypeOK'
  <1> USE CheckpointsAssumption
  <1>1. CASE List(u)
    <2>1. listed' \in [Undos -> SUBSET Jobs] /\ upc' \in [Undos -> UndoPhases]
      BY <1>1 DEF TypeOK, List, UndoPhases
    <2>. QED
      BY <1>1, <2>1 DEF TypeOK, List, gitVars, jobVars, diskVars, markVars
  <1>2. ASSUME NEW j \in Jobs, Choose(u, j) PROVE TypeOK'
    BY <1>2 DEF TypeOK, Choose, UndoPhases, gitVars, jobVars, diskVars, markVars
  <1>3. CASE RestoreResolve(u)
    BY <1>3 DEF TypeOK, RestoreResolve, UndoPhases, gitVars, jobVars, diskVars, markVars
  <1>4. CASE RestoreDiff(u)
    <2>1. ChangedPaths(target[u]) \subseteq Paths
      BY DEF ChangedPaths
    <2>2. /\ todo' \in [Undos -> SUBSET Paths] /\ upc' \in [Undos -> UndoPhases]
          /\ disturbed' \in [Undos -> SUBSET Paths]
      <3>1. /\ todo \in [Undos -> SUBSET Paths] /\ upc \in [Undos -> UndoPhases]
            /\ disturbed \in [Undos -> SUBSET Paths]
        BY DEF TypeOK
      <3>2. /\ todo' = [todo EXCEPT ![u] = ChangedPaths(target[u])] \/ todo' = todo
            /\ disturbed' = [disturbed EXCEPT ![u] = {}] \/ disturbed' = disturbed
            /\ \E c \in {"restored", "writing", "failed"} : upc' = [upc EXCEPT ![u] = c]
        BY <1>4 DEF RestoreDiff
      <3>. QED
        BY <2>1, <3>1, <3>2 DEF UndoPhases
    <2>. QED
      BY <1>4, <2>2 DEF TypeOK, RestoreDiff, gitVars, jobVars, markVars
  <1>5. CASE RestoreWrite(u)
    <2>1. target[u] \in Jobs
      BY <1>5 DEF RestoreWrite, Known, TypeOK
    <2>2. /\ tree' \in [Paths -> State] /\ writer' \in [Paths -> Writers]
          /\ disturbed' \in [Undos -> SUBSET Paths]
      <3>1. CASE UNCHANGED diskVars
        BY <3>1 DEF TypeOK, diskVars
      <3>2. ASSUME NEW p \in Paths, NEW blob \in State, Write(u, p, blob) PROVE <2>2
        <4>1. u \in Writers
          BY DEF Writers
        <4>. QED
          BY <3>2, <4>1, WriteType
      <3>. QED
        BY <1>5, <3>1, <3>2 DEF RestoreWrite
    <2>3. /\ todo' \in [Undos -> SUBSET Paths] /\ upc' \in [Undos -> UndoPhases]
          /\ misread' \in [Undos -> SUBSET Paths]
      <3>1. /\ todo \in [Undos -> SUBSET Paths] /\ upc \in [Undos -> UndoPhases]
            /\ misread \in [Undos -> SUBSET Paths]
        BY DEF TypeOK
      <3>2. \/ \E p \in Paths : todo' = [todo EXCEPT ![u] = todo[u] \ {p}]
            \/ todo' = todo
        BY <1>5 DEF RestoreWrite
      <3>3. \E c \in {"restored", "writing", "failed"} : upc' = [upc EXCEPT ![u] = c]
        BY <1>5 DEF RestoreWrite
      <3>4. \/ \E S \in SUBSET Paths : misread' = [misread EXCEPT ![u] = misread[u] \cup S]
            \/ misread' = misread
        <4>1. ASSUME NEW p \in Paths, NEW blob \in State
              PROVE  (IF blob = snap[target[u]][p] THEN {} ELSE {p}) \in SUBSET Paths
          OBVIOUS
        <4>. QED
          BY <1>5, <4>1 DEF RestoreWrite
      <3>5. todo' \in [Undos -> SUBSET Paths]
        <4>1. ASSUME NEW p \in Paths PROVE todo[u] \ {p} \in SUBSET Paths
          BY <3>1
        <4>. QED
          BY <3>1, <3>2, <4>1
      <3>6. upc' \in [Undos -> UndoPhases]
        BY <3>1, <3>3 DEF UndoPhases
      <3>7. misread' \in [Undos -> SUBSET Paths]
        <4>1. ASSUME NEW S \in SUBSET Paths PROVE misread[u] \cup S \in SUBSET Paths
          BY <3>1
        <4>. QED
          BY <3>1, <3>4, <4>1
      <3>. QED
        BY <3>5, <3>6, <3>7
    <2>. QED
      BY <1>5, <2>2, <2>3 DEF TypeOK, RestoreWrite, gitVars, jobVars, markVars
  <1>. QED
    BY <1>1, <1>2, <1>3, <1>4, <1>5 DEF Undo

LEMMA NextType ==
    ASSUME TypeOK, Known, [Next]_vars
    PROVE  TypeOK'
  <1> USE CheckpointsAssumption
  <1>1. CASE \E j \in Jobs : Job(j)
    BY <1>1, JobType
  <1>2. ASSUME NEW j \in Jobs, Forget(j) PROVE TypeOK'
    BY <1>2 DEF TypeOK, Forget, jobVars, undoVars, diskVars
  <1>3. CASE \E u \in Undos : Undo(u)
    BY <1>3, UndoType
  <1>4. ASSUME NEW p \in Paths, NEW c \in State, UserWrites(p, c) PROVE TypeOK'
    <2>0. User \in Writers
      BY DEF Writers
    <2>1. /\ tree' \in [Paths -> State] /\ writer' \in [Paths -> Writers]
          /\ disturbed' \in [Undos -> SUBSET Paths]
      BY <1>4, <2>0, WriteType DEF UserWrites
    <2>2. edits' \in [Writers -> Nat]
      BY <1>4, <2>0 DEF TypeOK, UserWrites
    <2>. QED
      BY <1>4, <2>1, <2>2 DEF TypeOK, UserWrites, gitVars, jobVars, undoVars
  <1>5. CASE Crash
    <2>1. /\ pc' \in [Jobs -> JobPhases] /\ upc' \in [Undos -> UndoPhases]
          /\ \A j \in Jobs : pc'[j] # "dropping"
      BY <1>5 DEF TypeOK, Crash, JobPhases, UndoPhases
    <2>. QED
      BY <1>5, <2>1 DEF TypeOK, Crash, gitVars, diskVars, markVars
  <1>6. CASE Tick
    BY <1>6 DEF TypeOK, Tick, jobVars, undoVars, diskVars, markVars
  <1>7. CASE UNCHANGED vars
    BY <1>7 DEF TypeOK, vars, gitVars, jobVars, undoVars, diskVars, markVars
  <1>. QED
    BY <1>1, <1>2, <1>3, <1>4, <1>5, <1>6, <1>7 DEF Next
-----------------------------------------------------------------------------
(***************************************************************************)
(* What is known of a checkpoint.                                          *)
(***************************************************************************)
LEMMA NextKnown ==
    ASSUME TypeOK, Known, [Next]_vars
    PROVE  Known'
  <1> USE CheckpointsAssumption
  \* The steps that leave every part of it alone, or only let a job go on.
  <1>0. ASSUME parked' = parked, victims' = victims, listed' = listed,
               target' = target, upc' = upc,
               \A k \in Jobs : Finished(k) => Finished(k)'
        PROVE  Known'
    BY <1>0 DEF Known, TypeOK
  <1>1. ASSUME NEW j \in Jobs, Job(j) PROVE Known'
    <2>1. CASE Begin(j) \/ Plan(j) \/ Snapshot(j)
      <3>1. j \notin parked /\ \A k \in Jobs \ {j} : pc'[k] = pc[k]
        BY <2>1 DEF Known, Finished, Begin, Plan, Snapshot, Goto, TypeOK
      <3>2. UNCHANGED <<parked, victims, listed, target, upc>>
        BY <2>1 DEF Begin, Plan, Snapshot, undoVars, markVars
      <3>. QED
        BY <3>1, <3>2 DEF Known, Finished, TypeOK
    <2>2. CASE Park(j)
      <3>1. parked' \subseteq parked \cup {j} /\ Finished(j)' /\ parked \subseteq parked'
        BY <2>2 DEF Park, Goto, Finished, TypeOK
      <3>2. \A k \in Jobs \ {j} : pc'[k] = pc[k]
        BY <2>2 DEF Park, Goto, TypeOK
      <3>3. UNCHANGED <<victims, listed, target, upc>>
        BY <2>2 DEF Park, undoVars
      <3>. QED
        BY <3>1, <3>2, <3>3 DEF Known, Finished, TypeOK
    <2>3. CASE PruneList(j)
      <3>1. \A k \in Jobs : Finished(k) => Finished(k)'
        BY <2>3 DEF PruneList, Goto, Finished, TypeOK
      <3>2. victims'[j] \subseteq parked /\ \A k \in Jobs \ {j} : victims'[k] = victims[k]
        BY <2>3 DEF PruneList, TypeOK, Known
      <3>3. UNCHANGED <<parked, listed, target, upc>>
        BY <2>3 DEF PruneList, undoVars, markVars
      <3>. QED
        BY <3>1, <3>2, <3>3 DEF Known, TypeOK
    <2>4. CASE PruneDrop(j)
      <3>1. \A k \in Jobs : Finished(k) => Finished(k)'
        BY <2>4 DEF PruneDrop, Goto, Finished, TypeOK
      <3>2. victims'[j] \subseteq parked /\ \A k \in Jobs \ {j} : victims'[k] = victims[k]
        BY <2>4 DEF PruneDrop, TypeOK, Known
      <3>3. UNCHANGED <<parked, listed, target, upc>>
        BY <2>4 DEF PruneDrop, undoVars
      <3>. QED
        BY <3>1, <3>2, <3>3 DEF Known, TypeOK
    <2>5. CASE TurnEnds(j) \/ Resolve(j) \/ Compare(j) \/ Discard(j)
      <3>1. \A k \in Jobs : Finished(k) => Finished(k)'
        BY <2>5 DEF TurnEnds, Resolve, Compare, Discard, Goto, Finished, TypeOK
      <3>. QED
        BY <1>0, <2>5, <3>1
        DEF TurnEnds, Resolve, Compare, Discard, undoVars, markVars
    <2>6. CASE WritePlanned(j)
      <3>1. \A k \in Jobs : Finished(k) => Finished(k)'
        BY <2>6 DEF WritePlanned, Goto, Finished, TypeOK
      <3>. QED
        BY <1>0, <2>6, <3>1 DEF WritePlanned, undoVars, markVars
    <2>7. CASE \E p \in Paths, c \in State : AgentWrites(j, p, c)
      <3>1. UNCHANGED <<pc, parked, victims, listed, target, upc>>
        BY <2>7 DEF AgentWrites, jobVars, undoVars
      <3>. QED
        BY <1>0, <3>1 DEF Finished
    <2>. QED
      BY <1>1, <2>1, <2>2, <2>3, <2>4, <2>5, <2>6, <2>7 DEF Job, Create
  <1>2. ASSUME NEW j \in Jobs, Forget(j) PROVE Known'
    BY <1>0, <1>2 DEF Forget, jobVars, undoVars, Finished
  <1>3. ASSUME NEW u \in Undos, Undo(u) PROVE Known'
    <2>0. \/ List(u) \/ RestoreResolve(u) \/ RestoreDiff(u) \/ RestoreWrite(u)
          \/ \E j \in Jobs : Choose(u, j)
      BY <1>3 DEF Undo
    <2>1. UNCHANGED <<pc, parked, victims>>
      BY <2>0 DEF List, RestoreResolve, RestoreDiff, RestoreWrite, Choose, jobVars, markVars
    <2>2. \A v \in Undos : listed'[v] \subseteq parked
      <3>1. listed' = [listed EXCEPT ![u] = refs] \/ listed' = listed
        BY <2>0 DEF List, RestoreResolve, RestoreDiff, RestoreWrite, Choose
      <3>2. /\ listed \in [Undos -> SUBSET Jobs] /\ refs \subseteq parked
            /\ \A v \in Undos : listed[v] \subseteq parked
        BY DEF Known, TypeOK
      <3>. QED
        BY <3>1, <3>2
    <2>3. ASSUME NEW v \in Undos,
                 upc'[v] \in {"resolve", "diff", "writing", "restored"}
          PROVE  target'[v] \in parked
      <3>1. CASE v # u
        <4>1. upc'[v] = upc[v] /\ target'[v] = target[v]
          BY <2>0, <3>1 DEF List, RestoreResolve, RestoreDiff, RestoreWrite, Choose, TypeOK
        <4>. QED
          BY <2>3, <4>1 DEF Known
      <3>2. CASE v = u
        <4>1. CASE List(u)
          BY <2>3, <3>2, <4>1 DEF List, TypeOK
        <4>2. CASE \E j \in Jobs : Choose(u, j)
          BY <3>2, <4>2 DEF Choose, TypeOK, Known
        <4>3. CASE RestoreResolve(u) \/ RestoreDiff(u) \/ RestoreWrite(u)
          BY <3>2, <4>3 DEF RestoreResolve, RestoreDiff, RestoreWrite, Known
        <4>. QED
          BY <2>0, <4>1, <4>2, <4>3
      <3>. QED
        BY <3>1, <3>2
    <2>. QED
      BY <2>1, <2>2, <2>3 DEF Known, Finished
  <1>4. CASE \E p \in Paths, c \in State : UserWrites(p, c)
    BY <1>0, <1>4 DEF UserWrites, jobVars, undoVars, Finished
  <1>5. CASE Crash
    <2>1. \A k \in Jobs : Finished(k) => Finished(k)'
      BY <1>5 DEF Crash, Finished, TypeOK
    <2>2. \A u \in Undos : upc'[u] \in {"resolve", "diff", "writing", "restored"}
                               => upc'[u] = upc[u]
      BY <1>5 DEF Crash, TypeOK
    <2>3. UNCHANGED <<parked, victims, listed, target>>
      BY <1>5 DEF Crash, markVars
    <2>. QED
      BY <2>1, <2>2, <2>3 DEF Known, TypeOK
  <1>6. CASE Tick
    BY <1>0, <1>6 DEF Tick, jobVars, undoVars, markVars, Finished
  <1>7. CASE UNCHANGED vars
    BY <1>0, <1>7 DEF vars, jobVars, undoVars, markVars, Finished
  <1>. QED
    BY <1>1, <1>2, <1>3, <1>4, <1>5, <1>6, <1>7 DEF Next
-----------------------------------------------------------------------------
(***************************************************************************)
(* The undo of an agent's edits.                                           *)
(***************************************************************************)
\* Whoever else writes leaves nothing of this agent's behind.
LEMMA OthersWriteClean ==
    ASSUME TypeOK, NEW w \in Writers, NEW p \in Paths, NEW c \in State,
           Write(w, p, c), snap' = snap,
           NEW j \in Jobs, w # j, NEW q \in Seen, Clean(j, q)
    PROVE  Clean(j, q)'
  <1>1. CASE q = p
    BY <1>1 DEF Write, Clean, TypeOK
  <1>2. CASE q # p
    BY <1>2 DEF Write, Clean, TypeOK, Seen
  <1>. QED
    BY <1>1, <1>2

LEMMA NextDiscarded ==
    ASSUME TypeOK, Known, Discarded, [Next]_vars
    PROVE  Discarded'
  <1> USE CheckpointsAssumption
  <1>j. Turns \subseteq Jobs /\ Replaces \subseteq Jobs
    BY DEF Jobs
  \* The steps that write nothing, delete nothing and start no discard.
  <1>0. ASSUME UNCHANGED <<tree, writer, snap, refs, parked, pruned, forgotten>>,
               \A j \in Turns : pc'[j] = "discard" => pc[j] = "discard",
               \A j \in Turns : pc[j] = "over" => pc'[j] = "over"
        PROVE  Discarded'
    <2>1. \A j \in Turns, q \in Seen : Clean(j, q) => Clean(j, q)'
      BY <1>0 DEF Clean
    <2>2. ASSUME NEW j \in Turns
          PROVE  /\ pc'[j] = "discard" => \A q \in Seen : Clean(j, q)'
                 /\ j \in parked \ (refs \cup pruned \cup forgotten) =>
                        pc'[j] = "over" /\ \A q \in Seen : Clean(j, q)'
      <3>1. CASE pc'[j] = "discard"
        BY <1>0, <2>1, <3>1 DEF Discarded
      <3>2. CASE j \in parked \ (refs \cup pruned \cup forgotten)
        BY <1>0, <2>1, <3>2 DEF Discarded
      <3>. QED
        BY <3>1, <3>2
    <2>. QED
      BY <1>0, <2>2 DEF Discarded
  \* The writes of somebody whose agent is not one of the turns that are over.
  <1>w. ASSUME NEW w \in Writers, NEW p \in Paths, NEW c \in State, Write(w, p, c),
               UNCHANGED <<snap, refs, parked, pruned, forgotten>>,
               \A j \in Turns : pc'[j] = pc[j],
               w \in Turns => pc[w] \in {"work", "orphaned"}
        PROVE  Discarded'
    <2> SUFFICES ASSUME NEW j \in Turns
                 PROVE  /\ pc'[j] = "discard" => \A q \in Seen : Clean(j, q)'
                        /\ j \in parked \ (refs \cup pruned \cup forgotten) =>
                               pc'[j] = "over" /\ \A q \in Seen : Clean(j, q)'
      BY <1>w DEF Discarded
    <2>1. CASE w = j
      BY <1>w, <2>1 DEF Discarded
    <2>2. CASE w # j
      <3>1. \A q \in Seen : Clean(j, q) => Clean(j, q)'
        BY <1>j, <1>w, <2>2, OthersWriteClean
      <3>. QED
        BY <1>w, <3>1 DEF Discarded
    <2>. QED
      BY <2>1, <2>2
  <1>1. ASSUME NEW j \in Jobs, Job(j) PROVE Discarded'
    <2>1. CASE Begin(j) \/ Plan(j) \/ PruneList(j) \/ TurnEnds(j) \/ Resolve(j)
      <3>1. UNCHANGED <<tree, writer, snap, refs, parked, pruned, forgotten>>
        BY <2>1 DEF Begin, Plan, PruneList, TurnEnds, Resolve, gitVars, diskVars, markVars
      <3>2. /\ \A k \in Jobs \ {j} : pc'[k] = pc[k]
            /\ pc[j] # "over" /\ pc'[j] # "discard"
        BY <2>1 DEF Begin, Plan, PruneList, TurnEnds, Resolve, Goto, TypeOK
      <3>. QED
        BY <1>0, <1>j, <3>1, <3>2
    <2>2. CASE Snapshot(j)
      <3>1. UNCHANGED <<tree, writer, refs, parked, pruned, forgotten>>
        BY <2>2 DEF Snapshot, gitVars, diskVars, markVars
      <3>2. /\ \A k \in Jobs \ {j} : pc'[k] = pc[k] /\ snap'[k] = snap[k]
            /\ j \notin parked /\ pc'[j] # "discard"
        BY <2>2 DEF Snapshot, Goto, TypeOK, Known, Finished
      <3>. QED
        BY <1>j, <3>1, <3>2 DEF Discarded, Clean
    <2>3. CASE Park(j)
      <3>1. UNCHANGED <<tree, writer, snap, pruned, forgotten>>
        BY <2>3 DEF Park, diskVars
      <3>2. /\ \A k \in Jobs \ {j} : pc'[k] = pc[k]
            /\ pc'[j] # "discard" /\ j \notin parked
        BY <2>3 DEF Park, Goto, TypeOK, Known, Finished
      <3>3. parked' \ refs' = parked \ refs
        BY <2>3, <3>2 DEF Park, TypeOK
      <3>4. \A k \in Turns, q \in Seen : Clean(k, q) => Clean(k, q)'
        BY <3>1 DEF Clean
      <3>5. \A k \in Jobs : k \in parked' \ (refs' \cup pruned \cup forgotten) =>
                k # j /\ k \in parked \ (refs \cup pruned \cup forgotten)
        BY <3>2, <3>3
      <3>. QED
        BY <1>j, <3>1, <3>2, <3>4, <3>5 DEF Discarded
    <2>4. CASE PruneDrop(j)
      <3>1. UNCHANGED <<tree, writer, snap, parked, forgotten>>
        BY <2>4 DEF PruneDrop, diskVars
      <3>2. \A k \in Jobs : k \in pruned' \cup refs' <=> k \in pruned' \cup refs
        BY <2>4 DEF PruneDrop
      <3>3. pruned \subseteq pruned'
        BY <2>4 DEF PruneDrop
      <3>4. /\ \A k \in Jobs \ {j} : pc'[k] = pc[k]
            /\ pc[j] = "dropping" /\ pc'[j] # "discard"
        BY <2>4 DEF PruneDrop, Goto, TypeOK
      <3>. QED
        BY <1>j, <3>1, <3>2, <3>3, <3>4 DEF Discarded, Clean
    <2>5. CASE Compare(j)
      <3>1. UNCHANGED <<tree, writer, snap, refs, parked, pruned, forgotten>>
        BY <2>5 DEF Compare, gitVars, diskVars, markVars
      <3>2. /\ \A k \in Jobs \ {j} : pc'[k] = pc[k]
            /\ pc[j] = "compare"
            /\ pc'[j] = "discard" => UnchangedSince(j)
        BY <2>5 DEF Compare, Goto, TypeOK
      <3>3. UnchangedSince(j) => \A p \in Seen : tree[p] = snap[j][p]
        BY ChangedType DEF UnchangedSince
      <3>. QED
        BY <1>j, <3>1, <3>2, <3>3 DEF Discarded, Clean
    <2>6. CASE Discard(j)
      <3>1. UNCHANGED <<tree, writer, snap, parked, pruned, forgotten>>
        BY <2>6 DEF Discard, diskVars, markVars
      <3>2. /\ \A k \in Jobs \ {j} : pc'[k] = pc[k] /\ (k \in refs' <=> k \in refs)
            /\ pc[j] = "discard" /\ pc'[j] = "over"
        BY <2>6 DEF Discard, Goto, TypeOK
      <3>. QED
        BY <1>j, <3>1, <3>2 DEF Discarded, Clean
    <2>7. CASE WritePlanned(j)
      <3>1. /\ UNCHANGED <<snap, refs, parked, pruned, forgotten>>
            /\ j \notin Turns /\ \A k \in Turns : pc'[k] = pc[k]
        BY <1>j, <2>7 DEF WritePlanned, Goto, TypeOK, gitVars, markVars
      <3>2. CASE UNCHANGED diskVars
        BY <1>0, <3>1, <3>2 DEF diskVars
      <3>3. ASSUME NEW p \in Paths, Write(j, p, plan[j][p]) PROVE Discarded'
        <4>1. plan[j][p] \in State /\ j \in Writers
          BY DEF TypeOK, Writers
        <4>. QED
          BY <1>w, <3>1, <3>3, <4>1
      <3>. QED
        BY <2>7, <3>2, <3>3 DEF WritePlanned
    <2>8. ASSUME NEW p \in Paths, NEW c \in State, AgentWrites(j, p, c)
          PROVE  Discarded'
      <3>1. /\ UNCHANGED <<snap, refs, parked, pruned, forgotten, pc>>
            /\ Write(j, p, c) /\ pc[j] \in {"work", "orphaned"}
        BY <2>8 DEF AgentWrites, gitVars, jobVars
      <3>. QED
        BY <1>w, <3>1 DEF Writers
    <2>. QED
      BY <1>1, <2>1, <2>2, <2>3, <2>4, <2>5, <2>6, <2>7, <2>8 DEF Job, Create
  <1>2. ASSUME NEW j \in Jobs, Forget(j) PROVE Discarded'
    <2>1. UNCHANGED <<tree, writer, snap, pc, parked, pruned>>
      BY <1>2 DEF Forget, diskVars, jobVars
    <2>2. /\ forgotten \subseteq forgotten'
          /\ \A k \in Jobs : k \in forgotten' \cup refs' <=> k \in forgotten' \cup refs
      BY <1>2 DEF Forget
    <2>. QED
      BY <1>j, <2>1, <2>2 DEF Discarded, Clean
  <1>3. ASSUME NEW u \in Undos, Undo(u) PROVE Discarded'
    <2>1. CASE List(u) \/ RestoreResolve(u) \/ RestoreDiff(u) \/ \E j \in Jobs : Choose(u, j)
      <3>1. UNCHANGED <<tree, writer, snap, refs, parked, pruned, forgotten, pc>>
        BY <2>1 DEF List, RestoreResolve, RestoreDiff, Choose, gitVars, jobVars, diskVars, markVars
      <3>. QED
        BY <1>0, <3>1
    <2>2. CASE RestoreWrite(u)
      <3>1. UNCHANGED <<snap, refs, parked, pruned, forgotten, pc>>
        BY <2>2 DEF RestoreWrite, gitVars, jobVars, markVars
      <3>2. CASE UNCHANGED diskVars
        BY <1>0, <3>1, <3>2 DEF diskVars
      <3>3. ASSUME NEW p \in Paths, NEW blob \in State, Write(u, p, blob)
            PROVE  Discarded'
        <4>2. u \in Writers /\ u \notin Turns
          BY <1>j DEF Writers
        <4>. QED
          BY <1>w, <3>1, <3>3, <4>2
      <3>. QED
        BY <2>2, <3>2, <3>3 DEF RestoreWrite
    <2>. QED
      BY <1>3, <2>1, <2>2 DEF Undo
  <1>4. ASSUME NEW p \in Paths, NEW c \in State, UserWrites(p, c) PROVE Discarded'
    <2>1. /\ UNCHANGED <<snap, refs, parked, pruned, forgotten, pc>>
          /\ Write(User, p, c) /\ User \in Writers /\ User \notin Turns
      BY <1>4, <1>j DEF UserWrites, gitVars, jobVars, Writers
    <2>. QED
      BY <1>w, <2>1
  <1>5. CASE Crash
    <2>1. UNCHANGED <<tree, writer, snap, refs, parked, pruned, forgotten>>
      BY <1>5 DEF Crash, gitVars, diskVars, markVars
    <2>2. /\ \A j \in Turns : pc'[j] = "discard" => pc[j] = "discard"
          /\ \A j \in Turns : pc[j] = "over" => pc'[j] = "over"
      BY <1>5, <1>j DEF Crash, TypeOK
    <2>. QED
      BY <1>0, <2>1, <2>2
  <1>6. CASE Tick \/ UNCHANGED vars
    BY <1>0, <1>6 DEF Tick, vars, gitVars, jobVars, diskVars, markVars
  <1>. QED
    BY <1>1, <1>2, <1>3, <1>4, <1>5, <1>6 DEF Next
-----------------------------------------------------------------------------
(***************************************************************************)
(* Restoring.                                                              *)
(***************************************************************************)
\* A restore loses nothing to what others write: it no longer answers for it.
LEMMA OthersWriteRestored ==
    ASSUME TypeOK, NEW w \in Writers, NEW p \in Paths, NEW c \in State,
           Write(w, p, c), NEW u \in Undos, u # w, Restored(u),
           upc'[u] = upc[u], todo'[u] = todo[u], target'[u] = target[u], snap' = snap,
           misread'[u] = misread[u]
    PROVE  Restored(u)'
  <1>1. CASE upc[u] \in {"writing", "restored"}
    <2>1. disturbed'[u] = disturbed[u] \cup {p}
      BY <1>1 DEF Write
    <2>2. ASSUME NEW q \in Seen PROVE q \in todo[u] \/ PutBack(u, q)'
      <3>1. q = p \/ tree'[q] = tree[q]
        BY DEF Write, TypeOK, Seen
      <3>2. q \in todo[u] \/ PutBack(u, q)
        BY <1>1 DEF Restored
      <3>. QED
        BY <2>1, <3>1, <3>2 DEF PutBack
    <2>. QED
      BY <1>1, <2>2 DEF Restored
  <1>2. CASE upc[u] \notin {"writing", "restored"}
    BY <1>2 DEF Restored
  <1>. QED
    BY <1>1, <1>2

\* Nor to anything that leaves the disk and its own records alone.
LEMMA OthersStepRestored ==
    ASSUME NEW u \in Undos, Restored(u), UNCHANGED diskVars,
           upc'[u] = upc[u], todo'[u] = todo[u], target'[u] = target[u],
           misread'[u] = misread[u],
           upc[u] \in {"writing", "restored"} => snap'[target[u]] = snap[target[u]]
    PROVE  Restored(u)'
  BY DEF Restored, PutBack, diskVars

LEMMA NextRestoring ==
    ASSUME TypeOK, Known, Restoring, [Next]_vars
    PROVE  Restoring'
  <1> USE CheckpointsAssumption
  <1> SUFFICES ASSUME NEW u \in Undos PROVE Restored(u)'
    BY DEF Restoring
  <1>r. Restored(u)
    BY DEF Restoring
  <1>1. ASSUME NEW j \in Jobs, Job(j) PROVE Restored(u)'
    <2>0. j \in Writers /\ j # u
      BY DEF Writers
    <2>1. CASE WritePlanned(j)
      <3>1. UNCHANGED <<snap, upc, todo, target, misread>>
        BY <2>1 DEF WritePlanned, undoVars
      <3>2. CASE UNCHANGED diskVars
        BY <1>r, <3>1, <3>2, OthersStepRestored
      <3>3. ASSUME NEW p \in Paths, Write(j, p, plan[j][p]) PROVE Restored(u)'
        <4>1. plan[j][p] \in State
          BY DEF TypeOK
        <4>. QED
          BY <1>r, <2>0, <3>1, <3>3, <4>1, OthersWriteRestored
      <3>. QED
        BY <2>1, <3>2, <3>3 DEF WritePlanned
    <2>2. ASSUME NEW p \in Paths, NEW c \in State, AgentWrites(j, p, c)
          PROVE  Restored(u)'
      <3>1. UNCHANGED <<snap, upc, todo, target, misread>> /\ Write(j, p, c)
        BY <2>2 DEF AgentWrites, jobVars, undoVars
      <3>. QED
        BY <1>r, <2>0, <3>1, OthersWriteRestored
    <2>3. CASE Snapshot(j)
      <3>1. UNCHANGED <<upc, todo, target, misread>> /\ UNCHANGED diskVars
        BY <2>3 DEF Snapshot, undoVars
      <3>2. /\ j \notin parked
            /\ \A k \in Jobs \ {j} : snap'[k] = snap[k]
        BY <2>3 DEF Snapshot, Known, Finished, TypeOK
      <3>3. upc[u] \in {"writing", "restored"} => target[u] \in Jobs \ {j}
        BY <3>2 DEF Known, TypeOK
      <3>. QED
        BY <1>r, <3>1, <3>2, <3>3, OthersStepRestored
    <2>4. CASE \/ Begin(j) \/ Plan(j) \/ Park(j) \/ PruneList(j) \/ PruneDrop(j)
               \/ TurnEnds(j) \/ Resolve(j) \/ Compare(j) \/ Discard(j)
      <3>1. UNCHANGED <<snap, upc, todo, target, misread>> /\ UNCHANGED diskVars
        BY <2>4 DEF Begin, Plan, Park, PruneList, PruneDrop, TurnEnds, Resolve,
                    Compare, Discard, undoVars
      <3>. QED
        BY <1>r, <3>1, OthersStepRestored
    <2>. QED
      BY <1>1, <2>1, <2>2, <2>3, <2>4 DEF Job, Create
  <1>2. ASSUME NEW j \in Jobs, Forget(j) PROVE Restored(u)'
    <2>1. UNCHANGED <<snap, upc, todo, target, misread>> /\ UNCHANGED diskVars
      BY <1>2 DEF Forget, jobVars, undoVars
    <2>. QED
      BY <1>r, <2>1, OthersStepRestored
  <1>3. ASSUME NEW v \in Undos, Undo(v), v # u PROVE Restored(u)'
    <2>1. CASE RestoreWrite(v)
      <3>1. /\ snap' = snap
            /\ upc'[u] = upc[u] /\ todo'[u] = todo[u] /\ target'[u] = target[u]
            /\ misread'[u] = misread[u]
        BY <1>3, <2>1 DEF RestoreWrite, jobVars, TypeOK
      <3>2. CASE UNCHANGED diskVars
        BY <1>r, <3>1, <3>2, OthersStepRestored
      <3>3. ASSUME NEW p \in Paths, NEW blob \in State, Write(v, p, blob)
            PROVE  Restored(u)'
        <4>2. v \in Writers
          BY DEF Writers
        <4>. QED
          BY <1>r, <1>3, <3>1, <3>3, <4>2, OthersWriteRestored
      <3>. QED
        BY <2>1, <3>2, <3>3 DEF RestoreWrite
    <2>2. CASE RestoreDiff(v)
      <3>1. /\ snap' = snap /\ tree' = tree /\ disturbed'[u] = disturbed[u]
            /\ upc'[u] = upc[u] /\ todo'[u] = todo[u] /\ target'[u] = target[u]
            /\ misread'[u] = misread[u]
        BY <1>3, <2>2 DEF RestoreDiff, jobVars, TypeOK
      <3>. QED
        BY <1>r, <3>1 DEF Restored, PutBack
    <2>3. CASE List(v) \/ RestoreResolve(v) \/ \E j \in Jobs : Choose(v, j)
      <3>1. /\ snap' = snap /\ UNCHANGED diskVars
            /\ upc'[u] = upc[u] /\ todo'[u] = todo[u] /\ target'[u] = target[u]
            /\ misread'[u] = misread[u]
        BY <1>3, <2>3 DEF List, RestoreResolve, Choose, jobVars, TypeOK
      <3>. QED
        BY <1>r, <3>1, OthersStepRestored
    <2>. QED
      BY <1>3, <2>1, <2>2, <2>3 DEF Undo
  <1>4. CASE Undo(u)
    <2>1. CASE List(u) \/ RestoreResolve(u) \/ \E j \in Jobs : Choose(u, j)
      BY <2>1 DEF List, RestoreResolve, Choose, Restored, TypeOK
    <2>2. CASE RestoreDiff(u)
      <3>1. target[u] \in Jobs
        BY <2>2 DEF RestoreDiff, Known, TypeOK
      <3>2. CASE upc'[u] = "failed"
        BY <3>2 DEF Restored
      <3>3. CASE /\ todo' = [todo EXCEPT ![u] = ChangedPaths(target[u])]
                 /\ upc' = [upc EXCEPT ![u] =
                        IF ChangedPaths(target[u]) = {} THEN "restored" ELSE "writing"]
        <4>1. /\ todo'[u] = ChangedPaths(target[u]) /\ tree' = tree /\ snap' = snap
              /\ target' = target /\ misread' = misread
              /\ upc'[u] = "restored" => ChangedPaths(target[u]) = {}
          BY <2>2, <3>3 DEF RestoreDiff, jobVars, TypeOK
        <4>2. \A p \in Seen : p \in ChangedPaths(target[u]) \/ tree[p] = snap[target[u]][p]
          BY <3>1, ChangedType
        <4>. QED
          BY <4>1, <4>2 DEF Restored, PutBack
      <3>. QED
        BY <2>2, <3>2, <3>3 DEF RestoreDiff, TypeOK
    <2>3. CASE RestoreWrite(u)
      <3>1. /\ snap' = snap /\ target' = target /\ upc[u] = "writing"
            /\ \A q \in Seen : q \in todo[u] \/ PutBack(u, q)
        BY <1>r, <2>3 DEF RestoreWrite, jobVars, Restored
      <3>2. CASE upc'[u] = "failed"
        BY <3>2 DEF Restored
      <3>3. ASSUME NEW p \in Paths, NEW blob \in State,
                   \/ Write(u, p, blob)
                   \/ Faulty /\ blob = Absent /\ UNCHANGED diskVars,
                   misread' = [misread EXCEPT ![u] = misread[u] \cup
                      (IF blob = snap[target[u]][p] THEN {} ELSE {p})],
                   todo' = [todo EXCEPT ![u] = todo[u] \ {p}],
                   upc' = [upc EXCEPT ![u] =
                      IF todo[u] = {p} THEN "restored" ELSE "writing"]
            PROVE  Restored(u)'
        <4>1. /\ todo'[u] = todo[u] \ {p}
              /\ upc'[u] = "restored" => todo'[u] = {}
          BY <3>3 DEF TypeOK
        <4>m. misread'[u] = misread[u] \cup
                  (IF blob = snap[target[u]][p] THEN {} ELSE {p})
          BY <3>3 DEF TypeOK
        <4>2. PutBack(u, p)'
          <5>1. CASE blob # snap[target[u]][p]
            BY <4>m, <5>1 DEF PutBack
          <5>2. CASE blob = snap[target[u]][p]
            BY <3>1, <3>3, <5>2 DEF PutBack, Write, diskVars, TypeOK
          <5>. QED
            BY <5>1, <5>2
        <4>3. \A q \in Seen \ {p} : PutBack(u, q) => PutBack(u, q)'
          <5>1. CASE Write(u, p, blob)
            BY <3>1, <4>m, <5>1 DEF PutBack, Write, TypeOK, Seen
          <5>2. CASE UNCHANGED diskVars
            BY <3>1, <4>m, <5>2 DEF PutBack, diskVars
          <5>. QED
            BY <3>3, <5>1, <5>2
        <4>. QED
          BY <3>1, <4>1, <4>2, <4>3 DEF Restored
      <3>. QED
        BY <2>3, <3>2, <3>3 DEF RestoreWrite, TypeOK
    <2>. QED
      BY <1>4, <2>1, <2>2, <2>3 DEF Undo
  <1>5. ASSUME NEW p \in Paths, NEW c \in State, UserWrites(p, c) PROVE Restored(u)'
    <2>1. /\ UNCHANGED <<snap, upc, todo, target, misread>> /\ Write(User, p, c)
          /\ User \in Writers /\ User # u
      BY <1>5 DEF UserWrites, jobVars, undoVars, Writers
    <2>. QED
      BY <1>r, <2>1, OthersWriteRestored
  <1>6. CASE Crash
    <2>1. /\ UNCHANGED <<snap, todo, target, misread>> /\ UNCHANGED diskVars
          /\ upc'[u] = upc[u] \/ upc'[u] = "failed"
      BY <1>6 DEF Crash
    <2>2. CASE upc'[u] = "failed"
      BY <2>2 DEF Restored
    <2>. QED
      BY <1>r, <2>1, <2>2, OthersStepRestored
  <1>7. CASE Tick \/ UNCHANGED vars
    <2>1. UNCHANGED <<snap, upc, todo, target, misread>> /\ UNCHANGED diskVars
      BY <1>7 DEF Tick, vars, jobVars, undoVars
    <2>. QED
      BY <1>r, <2>1, OthersStepRestored
  <1>. QED
    BY <1>1, <1>2, <1>3, <1>4, <1>5, <1>6, <1>7 DEF Next
-----------------------------------------------------------------------------
(***************************************************************************)
(* Pruning.                                                                *)
(***************************************************************************)
\* As many others as are kept are at least as recent as v.
Superseded(v) ==
    \E newer \in SUBSET (parked \ {v}) :
        Cardinality(newer) >= MaxCheckpoints /\ \A k \in newer : at[k] >= at[v]

\* So it is with whatever a prune deleted, or has on its list.
Condemned == {v \in parked : v \in pruned \/ \E j \in Jobs : v \in victims[j]}

ListedForAReason == \A v \in Condemned : Superseded(v)

\* What the prunes that are deleting will leave.
Spared == {c \in refs : \A k \in Jobs : pc[k] = "dropping" => c \notin victims[k]}

\* Once all prunes under way have taken their lists, these together leave no
\* more than are kept.
Dwindling ==
    /\ IsFiniteSet(refs)
    /\ (\E k \in Jobs : pc[k] = "dropping") /\ (\A k \in Jobs : pc[k] # "prune")
           => Cardinality(Spared) <= MaxCheckpoints

\* A step that prunes nothing.
Quiet ==
    /\ UNCHANGED <<parked, pruned, victims>> /\ refs' \subseteq refs
    /\ \A k \in parked : at'[k] = at[k]
    /\ \A k \in Jobs : \A phase \in {"prune", "dropping"} : pc'[k] = phase <=> pc[k] = phase

LEMMA QuietOrPruning ==
    ASSUME TypeOK, Known, [Next]_vars
    PROVE  Quiet \/ Crash \/ \E j \in Jobs : Park(j) \/ PruneList(j) \/ PruneDrop(j)
  <1>1. ASSUME UNCHANGED <<refs, parked, pruned, victims, at, pc>>
        PROVE  Quiet
    BY <1>1 DEF Quiet
  <1>2. ASSUME NEW j \in Jobs,
               \/ Begin(j) \/ Plan(j) \/ TurnEnds(j) \/ WritePlanned(j)
               \/ Resolve(j) \/ Compare(j) \/ Discard(j)
        PROVE  Quiet
    <2>1. /\ UNCHANGED <<parked, pruned, victims, at>> /\ refs' \subseteq refs
      BY <1>2 DEF Begin, Plan, TurnEnds, WritePlanned, Resolve, Compare, Discard, gitVars, markVars
    <2>2. /\ pc[j] \notin {"prune", "dropping"} /\ pc'[j] \notin {"prune", "dropping"}
          /\ \A k \in Jobs \ {j} : pc'[k] = pc[k]
      BY <1>2 DEF Begin, Plan, TurnEnds, WritePlanned, Resolve, Compare, Discard, Goto, TypeOK
    <2>. QED
      BY <2>1, <2>2 DEF Quiet
  <1>3. ASSUME NEW j \in Jobs, Snapshot(j)
        PROVE  Quiet
    <2>1. UNCHANGED <<refs, parked, pruned, victims>> /\ \A k \in Jobs \ {j} : at'[k] = at[k]
      BY <1>3 DEF Snapshot, gitVars, markVars, TypeOK
    <2>2. /\ pc[j] = "snapshot" /\ pc'[j] \notin {"prune", "dropping"}
          /\ \A k \in Jobs \ {j} : pc'[k] = pc[k]
      BY <1>3 DEF Snapshot, Goto, TypeOK
    <2>3. j \notin parked /\ parked \subseteq Jobs
      BY <2>2 DEF Known, Finished, TypeOK
    <2>. QED
      BY <2>1, <2>2, <2>3 DEF Quiet
  <1>4. ASSUME NEW j \in Jobs, \E p \in Paths, c \in State : AgentWrites(j, p, c)
        PROVE  Quiet
    BY <1>1, <1>4 DEF AgentWrites, gitVars, jobVars
  <1>5. ASSUME NEW j \in Jobs, Forget(j)
        PROVE  Quiet
    BY <1>5 DEF Forget, jobVars, Quiet
  <1>6. ASSUME NEW u \in Undos, Undo(u)
        PROVE  Quiet
    BY <1>1, <1>6 DEF Undo, List, Choose, RestoreResolve, RestoreDiff, RestoreWrite,
                      gitVars, jobVars, markVars
  <1>7. CASE (\E p \in Paths, c \in State : UserWrites(p, c)) \/ Tick \/ UNCHANGED vars
    BY <1>1, <1>7 DEF UserWrites, Tick, vars, gitVars, jobVars, markVars
  <1>. QED
    BY <1>2, <1>3, <1>4, <1>5, <1>6, <1>7 DEF Next, Job, Create

\* Checkpoints do not become older, nor fewer of those there were.
LEMMA StaysSuperseded ==
    ASSUME parked \subseteq parked', \A k \in parked : at'[k] = at[k],
           NEW v \in parked, Superseded(v)
    PROVE  Superseded(v)'
  BY DEF Superseded

LEMMA NextListed ==
    ASSUME TypeOK, Known, ListedForAReason, [Next]_vars
    PROVE  ListedForAReason'
  <1> USE CheckpointsAssumption
  <1>0. ASSUME parked \subseteq parked', \A k \in parked : at'[k] = at[k],
               \A v \in Condemned' : v \in Condemned \/ Superseded(v)'
        PROVE  ListedForAReason'
    <2>1. ASSUME NEW v \in Condemned PROVE Superseded(v)'
      <3>1. v \in parked /\ Superseded(v)
        BY <2>1 DEF ListedForAReason, Condemned
      <3>. QED
        BY <1>0, <3>1, StaysSuperseded
    <2>. QED
      BY <1>0, <2>1 DEF ListedForAReason
  <1>1. CASE Quiet \/ Crash
    <2>1. UNCHANGED <<parked, pruned, victims>> /\ \A k \in parked : at'[k] = at[k]
      BY <1>1 DEF Quiet, Crash, markVars
    <2>2. Condemned' = Condemned
      BY <2>1 DEF Condemned
    <2>. QED
      BY <1>0, <2>1, <2>2
  <1>2. ASSUME NEW j \in Jobs, Park(j)
        PROVE  ListedForAReason'
    <2>1. parked \subseteq parked' /\ UNCHANGED <<at, pruned, victims>>
      BY <1>2 DEF Park
    <2>2. Condemned' \subseteq Condemned
      BY <2>1 DEF TypeOK, Known, Condemned
    <2>. QED
      BY <1>0, <2>1, <2>2
  <1>3. ASSUME NEW j \in Jobs, PruneList(j)
        PROVE  ListedForAReason'
    <2>1. UNCHANGED <<refs, parked, pruned, at>>
      BY <1>3 DEF PruneList, gitVars, markVars
    <2>2. CASE UNCHANGED victims
      <3>1. Condemned' = Condemned
        BY <2>1, <2>2 DEF Condemned
      <3>. QED
        BY <1>0, <2>1, <3>1
    <2>3. ASSUME NEW old \in SUBSET refs, Oldest(old), victims' = [victims EXCEPT ![j] = old]
          PROVE  ListedForAReason'
      <3>1. victims'[j] = old /\ \A k \in Jobs \ {j} : victims'[k] = victims[k]
        BY <2>3 DEF TypeOK
      <3>2. ASSUME NEW v \in old PROVE Superseded(v)
        <4>1. refs \ old \in SUBSET (parked \ {v})
          BY <3>2 DEF TypeOK
        <4>2. Cardinality(refs \ old) >= MaxCheckpoints /\ \A k \in refs \ old : at[k] >= at[v]
          BY <2>3, <3>2 DEF Oldest
        <4>. QED
          BY <4>1, <4>2 DEF Superseded
      <3>3. \A v \in old : Superseded(v)'
        BY <2>1, <3>2 DEF Superseded
      <3>4. Condemned' \subseteq Condemned \union old
        BY <2>1, <3>1 DEF Condemned
      <3>5. \A v \in Condemned' : v \in Condemned \/ Superseded(v)'
        BY <3>3, <3>4
      <3>. QED
        BY <1>0, <2>1, <3>5
    <2>. QED
      BY <1>3, <2>2, <2>3 DEF PruneList
  <1>4. ASSUME NEW j \in Jobs, PruneDrop(j)
        PROVE  ListedForAReason'
    <2>1. PICK v \in victims[j] :
            victims' = [victims EXCEPT ![j] = victims[j] \ {v}] /\ pruned' = pruned \cup {v}
      BY <1>4 DEF PruneDrop
    <2>2. UNCHANGED <<parked, at>>
      BY <1>4 DEF PruneDrop
    <2>3. \A k \in Jobs : victims'[k] \subseteq victims[k]
      BY <2>1 DEF TypeOK
    <2>4. Condemned' \subseteq Condemned
      BY <2>1, <2>2, <2>3 DEF Condemned
    <2>. QED
      BY <1>0, <2>2, <2>4
  <1>. QED
    BY <1>1, <1>2, <1>3, <1>4, QuietOrPruning

\* Of fewer there are fewer.
LEMMA FewerAreFewer ==
    ASSUME NEW S, IsFiniteSet(S), NEW T \in SUBSET S, Cardinality(S) <= MaxCheckpoints
    PROVE  IsFiniteSet(T) /\ Cardinality(T) <= MaxCheckpoints
  <1>1. IsFiniteSet(T) /\ Cardinality(T) <= Cardinality(S)
    BY FS_Subset
  <1>2. Cardinality(S) \in Nat /\ Cardinality(T) \in Nat
    BY <1>1, FS_CardinalityType
  <1>. QED
    BY <1>1, <1>2, CheckpointsAssumption

\* A list that was just taken leaves as many as are kept; without one there are
\* no more than that.
LEMMA PruneListLeaves ==
    ASSUME TypeOK, Dwindling, Faulty = FALSE, NEW j \in Jobs, PruneList(j)
    PROVE  /\ UNCHANGED refs
           /\ \/ pc'[j] = "work" /\ Cardinality(refs) <= MaxCheckpoints
              \/ pc'[j] = "dropping" /\ Cardinality(refs \ victims'[j]) <= MaxCheckpoints
  <1>1. UNCHANGED refs /\ IsFiniteSet(refs) /\ Cardinality(refs) \in Nat
    BY FS_CardinalityType DEF PruneList, gitVars, Dwindling
  <1>2. CASE ~HasTooMany /\ Goto(j, "work")
    BY <1>1, <1>2, CheckpointsAssumption DEF HasTooMany, Goto, TypeOK
  <1>3. CASE /\ \E old \in SUBSET refs : Oldest(old) /\ victims' = [victims EXCEPT ![j] = old]
             /\ Goto(j, "dropping")
    <2>1. PICK old \in SUBSET refs : Oldest(old) /\ victims' = [victims EXCEPT ![j] = old]
      BY <1>3
    <2>2. pc'[j] = "dropping" /\ victims'[j] = old
      BY <1>3, <2>1 DEF Goto, TypeOK
    <2>3. Cardinality(refs \ old) = MaxCheckpoints /\ MaxCheckpoints \in Nat
      BY <2>1, CheckpointsAssumption DEF Oldest
    <2>4. Cardinality(refs \ victims'[j]) <= MaxCheckpoints
      BY <2>2, <2>3
    <2>. QED
      BY <1>1, <2>2, <2>4
  <1>. QED
    BY <1>1, <1>2, <1>3 DEF PruneList

LEMMA NextDwindling ==
    ASSUME TypeOK, Known, Dwindling, Faulty = FALSE, [Next]_vars
    PROVE  Dwindling'
  <1> USE CheckpointsAssumption
  <1>f. IsFiniteSet(refs) /\ Spared \subseteq refs /\ IsFiniteSet(Spared)
    BY FS_Subset DEF Dwindling, Spared
  \* As long as nobody is about to take a list, what will be left only shrinks.
  <1>0. ASSUME IsFiniteSet(refs'), Spared' \subseteq Spared,
               (\E k \in Jobs : pc'[k] = "dropping") => \E k \in Jobs : pc[k] = "dropping",
               \A k \in Jobs : pc[k] = "prune" => pc'[k] = "prune"
        PROVE  Dwindling'
    BY <1>0, <1>f, FewerAreFewer DEF Dwindling
  <1>1. CASE Quiet
    <2>1. IsFiniteSet(refs') /\ Spared' \subseteq Spared
      BY <1>1, <1>f, FS_Subset DEF Quiet, Spared
    <2>. QED
      BY <1>0, <1>1, <2>1 DEF Quiet
  <1>2. CASE Crash
    BY <1>2, <1>f DEF Crash, gitVars, Dwindling, TypeOK
  <1>3. ASSUME NEW j \in Jobs, Park(j)
        PROVE  Dwindling'
    <2>1. pc'[j] = "prune" /\ refs' = refs \cup {j}
      BY <1>3 DEF Park, Goto, TypeOK
    <2>2. IsFiniteSet(refs')
      BY <1>f, <2>1, FS_AddElement
    <2>. QED
      BY <2>1, <2>2 DEF Dwindling
  <1>4. ASSUME NEW j \in Jobs, PruneList(j)
        PROVE  Dwindling'
    <2>1. UNCHANGED refs /\ IsFiniteSet(refs')
      BY <1>4, <1>f, PruneListLeaves
    <2>2. Cardinality(Spared') <= MaxCheckpoints
      <3>1. CASE Cardinality(refs) <= MaxCheckpoints
        <4>1. Spared' \in SUBSET refs
          BY <2>1 DEF Spared
        <4>. QED
          BY <1>f, <3>1, <4>1, FewerAreFewer
      <3>2. CASE pc'[j] = "dropping" /\ Cardinality(refs \ victims'[j]) <= MaxCheckpoints
        <4>1. Spared' \in SUBSET (refs \ victims'[j])
          BY <2>1, <3>2 DEF Spared
        <4>2. IsFiniteSet(refs \ victims'[j])
          BY <1>f, FS_Subset
        <4>. QED
          BY <3>2, <4>1, <4>2, FewerAreFewer
      <3>. QED
        BY <1>4, <3>1, <3>2, PruneListLeaves
    <2>. QED
      BY <2>1, <2>2 DEF Dwindling
  <1>5. ASSUME NEW j \in Jobs, PruneDrop(j)
        PROVE  Dwindling'
    <2>1. PICK v \in victims[j] :
            /\ refs' = refs \ {v}
            /\ victims' = [victims EXCEPT ![j] = victims[j] \ {v}]
            /\ pc' = [pc EXCEPT ![j] = IF victims[j] = {v} THEN "work" ELSE "dropping"]
            /\ pc[j] = "dropping"
      BY <1>5 DEF PruneDrop, Goto
    <2>2. /\ \A k \in Jobs \ {j} : pc'[k] = pc[k] /\ victims'[k] = victims[k]
          /\ victims'[j] = victims[j] \ {v} /\ pc'[j] \in {"work", "dropping"}
          /\ pc'[j] = "work" => victims[j] = {v}
      BY <2>1 DEF TypeOK
    <2>3. IsFiniteSet(refs')
      BY <1>f, <2>1, FS_Subset
    <2>4. ASSUME NEW c \in Spared' PROVE c \in Spared
      <3>1. c \in refs /\ c # v /\ \A k \in Jobs : pc'[k] = "dropping" => c \notin victims'[k]
        BY <2>1, <2>4 DEF Spared
      <3>2. c \notin victims[j]
        BY <2>2, <3>1
      <3>3. \A k \in Jobs \ {j} : pc[k] = "dropping" => c \notin victims[k]
        BY <2>2, <3>1
      <3>. QED
        BY <3>1, <3>2, <3>3 DEF Spared
    <2>. QED
      BY <1>0, <2>1, <2>2, <2>3, <2>4
  <1>. QED
    BY <1>1, <1>2, <1>3, <1>4, <1>5, QuietOrPruning

\* The last of the prunes under way leaves no more than are kept.
LEMMA LastPruneLeaves ==
    ASSUME TypeOK, Known, Dwindling, Faulty = FALSE, [Next]_vars,
           NEW j \in Jobs, pc[j] \in {"prune", "dropping"}, pc'[j] = "work",
           \A k \in Jobs \ {j} : pc[k] \notin {"prune", "dropping"}
    PROVE  Cardinality(refs') <= MaxCheckpoints
  <1> USE CheckpointsAssumption
  <1>1. ~Quiet
    BY DEF Quiet
  <1>2. ~Crash
    BY DEF Crash
  <1>3. PICK k \in Jobs : Park(k) \/ PruneList(k) \/ PruneDrop(k)
    BY <1>1, <1>2, QuietOrPruning
  <1>4. k = j
    BY <1>3 DEF Park, PruneList, PruneDrop, Goto, TypeOK
  <1>5. CASE PruneList(j)
    BY <1>5, PruneListLeaves
  <1>6. CASE PruneDrop(j)
    <2>1. PICK v \in victims[j] :
            /\ refs' = refs \ {v}
            /\ pc' = [pc EXCEPT ![j] = IF victims[j] = {v} THEN "work" ELSE "dropping"]
            /\ pc[j] = "dropping"
      BY <1>6 DEF PruneDrop, Goto
    <2>2. victims[j] = {v}
      BY <2>1 DEF TypeOK
    <2>3. Cardinality(Spared) <= MaxCheckpoints
      BY <2>1 DEF Dwindling
    <2>4. Spared = refs'
      BY <2>1, <2>2 DEF Spared
    <2>. QED
      BY <2>3, <2>4
  <1>7. CASE Park(j)
    BY <1>7 DEF Park
  <1>. QED
    BY <1>3, <1>4, <1>5, <1>6, <1>7
-----------------------------------------------------------------------------
(***************************************************************************)
(* The theorems.                                                           *)
(***************************************************************************)
\* The invariant holds of every state.
LEMMA Invariance == Spec => []IInv
  <1>1. Init => IInv
    BY InitIInv
  <1>2. IInv /\ [Next]_vars => IInv'
    BY NextType, NextKnown, NextDiscarded, NextRestoring DEF IInv
  <1>. QED
    BY <1>1, <1>2, PTL DEF Spec

\* The state keeps the shape the code gives it, for any number of jobs, visits
\* and files (git/checkpoints.go).
THEOREM TypeCorrect == Spec => []TypeOK
  <1>1. IInv => TypeOK
    BY DEF IInv
  <1>. QED
    BY <1>1, Invariance, PTL

\* What an agent changed and nobody changed since has its undo, unless the user
\* forgot it or a prune took it (RemoveCheckpointIfUnchanged, AI-052).
THEOREM UndoSurvives == Spec => []AgentEditsUndoable
  <1>1. IInv => AgentEditsUndoable
    BY DEF IInv, Discarded, Clean, AgentEditsUndoable, Seen
  <1>. QED
    BY <1>1, Invariance, PTL

\* A restore that came to its end put back every path that nobody else wrote
\* meanwhile and whose blob git did not fail to read (RestoreCheckpoint, GIT-024).
THEOREM RestoreExceptMisread == Spec => []RestoreMissesOnlyTheMisread
  <1>1. IInv => RestoreMissesOnlyTheMisread
    BY DEF IInv, Restoring, Restored, PutBack, RestoreMissesOnlyTheMisread, Seen
  <1>. QED
    BY <1>1, Invariance, PTL

\* Whatever a prune took, as many as are kept were at least as recent: for any
\* number of prunes that run side by side, each with a list of its own, and
\* failures and crashes in between (pruneCheckpoints, GIT-023).
THEOREM NewestAreKept == Spec => []PruneKeepsTheNewest
  <1>1. Init => ListedForAReason
    BY DEF Init, ListedForAReason, Condemned
  <1>2. IInv /\ ListedForAReason /\ [Next]_vars => ListedForAReason'
    BY NextListed DEF IInv
  <1>3. IInv /\ ListedForAReason => PruneKeepsTheNewest
    BY DEF IInv, TypeOK, ListedForAReason, Condemned, Superseded, PruneKeepsTheNewest
  <1>. QED
    BY <1>1, <1>2, <1>3, Invariance, PTL DEF Spec

\* As long as git does not fail, the last creation to finish its prune leaves no
\* more than maxCheckpoints, whatever crashes left over before it and however
\* many creations ran side by side (pruneCheckpoints, GIT-023).
THEOREM NoMoreThanMax == ASSUME Faulty = FALSE PROVE Spec => AtMostMaxCheckpoints
  <1>1. Init => Dwindling
    BY FS_EmptySet DEF Init, Dwindling
  <1>2. IInv /\ Dwindling /\ [Next]_vars => Dwindling'
    BY NextDwindling DEF IInv
  <1> DEFINE Left == \A j \in Jobs :
                        /\ pc[j] \in {"prune", "dropping"} /\ pc'[j] = "work"
                        /\ \A k \in Jobs \ {j} : pc[k] \notin {"prune", "dropping"}
                        => Cardinality(refs') <= MaxCheckpoints
  <1>3. IInv /\ Dwindling /\ [Next]_vars => [Left]_vars
    BY LastPruneLeaves DEF IInv
  <1>. QED
    BY <1>1, <1>2, <1>3, Invariance, PTL DEF Spec, AtMostMaxCheckpoints
=============================================================================
