---------------------------- MODULE Checkpoints ----------------------------
(***************************************************************************)
(* The undo behind everything that edits the user's files (git/             *)
(* checkpoints.go) and the three callers that take a checkpoint: a chat    *)
(* turn and a finding's fix (ai/chat.go, ai/commands.go), which drop it     *)
(* again when nothing differs from it, and a repo-wide replace              *)
(* (files/search.go), which plans before it and writes after it.  The      *)
(* agents, the user's editor and the restore-points dialog all work in the *)
(* same directory at once; git runs one command at a time, each of which   *)
(* may fail; the application may die between any two of them.              *)
(*                                                                         *)
(* A job takes at most one checkpoint, so a checkpoint is named by its job. *)
(***************************************************************************)
EXTENDS Naturals, FiniteSets

CONSTANTS
    Turns,            \* agent runs that can write: chat turns and fixes
    Replaces,         \* repo-wide replaces
    Undos,            \* visits to the restore-points dialog
    User,             \* the user, typing in an editor
    Paths,            \* the files, numbered in the order git sorts them
    IgnoreFile,       \* the one that is .gitignore
    Hidden,           \* untracked paths that its rule, while it is there, hides
    Contents,         \* what a file may hold
    Hiding,           \* the content of .gitignore that has the rule
    Absent,           \* no file, or no checkpoint
    MaxCheckpoints,   \* maxCheckpoints
    AgentEdits,       \* bound: edits of each agent
    UserEdits,        \* bound: edits of the user
    LastSecond,       \* bound: the clock
    Faulty            \* whether git and the disk may fail

Jobs    == Turns \cup Replaces
Writers == Jobs \cup Undos \cup {User}
State   == Contents \cup {Absent}

ASSUME CheckpointsAssumption ==
    /\ Paths \subseteq Nat /\ IgnoreFile \in Paths
    /\ Hidden \subseteq Paths \ {IgnoreFile}
    /\ Hiding \in Contents /\ Absent \notin Contents
    /\ Turns \cap Replaces = {} /\ Jobs \cap Undos = {}
    /\ User \notin Jobs \cup Undos
    /\ MaxCheckpoints \in Nat \ {0}
    /\ AgentEdits \in Nat /\ UserEdits \in Nat /\ LastSecond \in Nat
    /\ Faulty \in BOOLEAN

VARIABLES
    tree,        \* the working directory
    refs,        \* the checkpoints under refs/codeflow/checkpoints/
    now,         \* unix seconds
    pc,          \* where each job is
    snap,        \* the tree of each job's commit
    at,          \* its committer date
    victims,     \* what a job's prune still has to delete
    plan,        \* a replace's planned edits: new text by path, or Absent
    upc,         \* where each visit to the dialog is
    listed,      \* the checkpoints it lists
    target,      \* the checkpoint it restores
    todo,        \* the paths still to put back
    edits,       \* edits made so far, by writer (bound)
    \* History, read by the properties only.
    writer,      \* who wrote each path last
    parked,      \* the checkpoints that were ever there
    pruned,      \* those a prune deleted, or tried to
    forgotten,   \* those the user deleted
    existed,     \* what was on disk at each snapshot, ignored or not
    disturbed,   \* what others wrote since each restore compared
    misread      \* what each restore took for absent from the snapshot

gitVars   == <<refs, now>>
jobVars   == <<pc, snap, at, victims, plan, existed>>
undoVars  == <<upc, listed, target, todo, misread>>
diskVars  == <<tree, writer, disturbed>>
markVars  == <<edits, parked, pruned, forgotten>>
vars == <<gitVars, jobVars, undoVars, diskVars, markVars>>

(***************************************************************************)
(* The snapshot index.                                                     *)
(***************************************************************************)
\* `read-tree HEAD` and `add -A`: every path there is, except the ignored ones.
\* Each command is one step: what it reads of a path it reads once.
Visible(t) == [p \in Paths |-> IF p \in Hidden /\ t[IgnoreFile] = Hiding
                               THEN Absent ELSE t[p]]

\* `add .` in the place of `add -A`: a file that was removed goes unseen.
ChangedIgnoringRemovals(j) ==
    {p \in Paths : Visible(tree)[p] # snap[j][p] /\ tree[p] # Absent}

\* `diff --cached --no-renames` against the checkpoint's tree.
ChangedPaths(j) == {p \in Paths : Visible(tree)[p] # snap[j][p]}

\* A write to the working directory.
Write(who, p, c) ==
    /\ tree' = [tree EXCEPT ![p] = c]
    /\ writer' = [writer EXCEPT ![p] = who]
    /\ disturbed' = [u \in Undos |-> IF u = who \/ upc[u] \notin {"writing", "restored"}
                                     THEN disturbed[u] ELSE disturbed[u] \cup {p}]

First(p, S) == p \in S /\ \A q \in S : p <= q

Goto(j, phase) == pc' = [pc EXCEPT ![j] = phase]

Init ==
    /\ tree \in [Paths -> State]
    /\ refs = {} /\ now = 0
    /\ pc = [j \in Jobs |-> "idle"]
    /\ snap = [j \in Jobs |-> [p \in Paths |-> Absent]]
    /\ at = [j \in Jobs |-> 0]
    /\ victims = [j \in Jobs |-> {}]
    /\ plan = [j \in Jobs |-> [p \in Paths |-> Absent]]
    /\ existed = [j \in Jobs |-> {}]
    /\ upc = [u \in Undos |-> "idle"]
    /\ listed = [u \in Undos |-> {}]
    /\ target = [u \in Undos |-> Absent]
    /\ todo = [u \in Undos |-> {}]
    /\ edits = [w \in Writers |-> 0]
    /\ writer = [p \in Paths |-> User]
    /\ parked = {} /\ pruned = {} /\ forgotten = {}
    /\ disturbed = [u \in Undos |-> {}]
    /\ misread = [u \in Undos |-> {}]
-----------------------------------------------------------------------------
(***************************************************************************)
(* CreateCheckpoint.  Best effort: a job whose snapshot fails goes to work *)
(* without one.                                                            *)
(***************************************************************************)
Begin(j) ==
    /\ j \in Turns
    /\ pc[j] = "idle"
    /\ Goto(j, "snapshot")
    /\ UNCHANGED <<gitVars, snap, at, victims, plan, existed, undoVars, diskVars, markVars>>

\* Every edit is planned before anything is written, from the files' text as it
\* is now.  No match: there is nothing to do.
Plan(j) ==
    /\ j \in Replaces
    /\ pc[j] = "idle"
    /\ \E new \in [Paths -> State] :
          /\ \A p \in Paths : new[p] # Absent =>
                 Visible(tree)[p] # Absent /\ new[p] # tree[p]
          /\ plan' = [plan EXCEPT ![j] = new]
          /\ Goto(j, IF \A p \in Paths : new[p] = Absent THEN "over" ELSE "snapshot")
    /\ UNCHANGED <<gitVars, snap, at, victims, existed, undoVars, diskVars, markVars>>

\* snapshotIndex, write-tree and commit-tree.
Snapshot(j) ==
    /\ pc[j] = "snapshot"
    /\ \/ /\ Goto(j, "park")
          /\ snap' = [snap EXCEPT ![j] = Visible(tree)]
          /\ at' = [at EXCEPT ![j] = now]
          /\ existed' = [existed EXCEPT ![j] = {p \in Paths : tree[p] # Absent}]
       \/ /\ Faulty
          /\ Goto(j, "work")
          /\ UNCHANGED <<snap, at, existed>>
    /\ UNCHANGED <<gitVars, victims, plan, undoVars, diskVars, markVars>>

\* update-ref: from here on the checkpoint is one the user can restore.
Park(j) ==
    /\ pc[j] = "park"
    /\ \/ /\ Goto(j, "prune")
          /\ refs' = refs \cup {j}
          /\ parked' = parked \cup {j}
       \/ /\ Faulty
          /\ Goto(j, "work")
          /\ UNCHANGED <<refs, parked>>
    /\ UNCHANGED <<now, snap, at, victims, plan, existed, undoVars, diskVars, edits, pruned, forgotten>>

\* Sorted the other way round.
NewestFirst(old) ==
    /\ Cardinality(refs \ old) = MaxCheckpoints
    /\ \A k \in refs \ old, v \in old : at[k] <= at[v]

\* refs[maxCheckpoints:] of the refs sorted by date, newest first.  Those of one
\* second are in the order of their names, which end in a random suffix.
Oldest(old) ==
    /\ Cardinality(refs \ old) = MaxCheckpoints
    /\ \A k \in refs \ old, v \in old : at[k] >= at[v]

\* One too few.
TooMany == Cardinality(refs) >= MaxCheckpoints

HasTooMany == Cardinality(refs) > MaxCheckpoints

\* pruneCheckpoints, up to its loop: the list it works from is taken once.
PruneList(j) ==
    /\ pc[j] = "prune"
    /\ \/ /\ HasTooMany
          /\ \E old \in SUBSET refs :
                 Oldest(old) /\ victims' = [victims EXCEPT ![j] = old]
          /\ Goto(j, "dropping")
       \/ /\ ~HasTooMany \/ Faulty
          /\ Goto(j, "work")
          /\ UNCHANGED victims
    /\ UNCHANGED <<gitVars, snap, at, plan, existed, undoVars, diskVars, markVars>>

\* Gives up after the first.
PruneDropOnce(j) ==
    /\ pc[j] = "dropping"
    /\ \E v \in victims[j] :
          /\ refs' = refs \ {v}
          /\ victims' = [victims EXCEPT ![j] = {}]
          /\ pruned' = pruned \cup {v}
          /\ Goto(j, "work")
    /\ UNCHANGED <<now, snap, at, plan, existed, undoVars, diskVars, edits, parked, forgotten>>

\* Its loop: each deletion is on its own, and a failed one is passed over.
PruneDrop(j) ==
    /\ pc[j] = "dropping"
    /\ \E v \in victims[j] :
          /\ \/ refs' = refs \ {v}
             \/ Faulty /\ UNCHANGED refs
          /\ victims' = [victims EXCEPT ![j] = victims[j] \ {v}]
          /\ pruned' = pruned \cup {v}
          /\ Goto(j, IF victims[j] = {v} THEN "work" ELSE "dropping")
    /\ UNCHANGED <<now, snap, at, plan, existed, undoVars, diskVars, edits, parked, forgotten>>
-----------------------------------------------------------------------------
(***************************************************************************)
(* The work that was protected.                                            *)
(***************************************************************************)
\* The agent of a turn; it outlives the application it was started by.
AgentWrites(j, p, c) ==
    /\ j \in Turns
    /\ pc[j] \in {"work", "orphaned"}
    /\ edits[j] < AgentEdits
    /\ c # tree[p]
    /\ Write(j, p, c)
    /\ edits' = [edits EXCEPT ![j] = @ + 1]
    /\ UNCHANGED <<gitVars, jobVars, undoVars, parked, pruned, forgotten>>

\* However the run ended.  A turn without a checkpoint has nothing to drop.
TurnEnds(j) ==
    /\ j \in Turns
    /\ \/ pc[j] = "work" /\ Goto(j, IF j \in parked THEN "resolve" ELSE "over")
       \/ pc[j] = "orphaned" /\ Goto(j, "dead")
    /\ UNCHANGED <<gitVars, snap, at, victims, plan, existed, undoVars, diskVars, markVars>>

\* The planned text, whatever the file holds by now; the first failure aborts.
WritePlanned(j) ==
    /\ j \in Replaces
    /\ pc[j] = "work"
    /\ \E p \in Paths :
          /\ First(p, {q \in Paths : plan[j][q] # Absent})
          /\ \/ /\ Write(j, p, plan[j][p])
                /\ plan' = [plan EXCEPT ![j] = [plan[j] EXCEPT ![p] = Absent]]
                /\ Goto(j, IF \A q \in Paths \ {p} : plan[j][q] = Absent
                           THEN "over" ELSE "work")
             \/ /\ Faulty
                /\ Goto(j, "over")
                /\ UNCHANGED <<plan, diskVars>>
    /\ UNCHANGED <<gitVars, snap, at, victims, existed, undoVars, markVars>>

(***************************************************************************)
(* RemoveCheckpointIfUnchanged: three commands, and the tree may change    *)
(* between any two.  Its own failure leaves the checkpoint.                *)
(***************************************************************************)
Resolve(j) ==
    /\ pc[j] = "resolve"
    /\ \/ j \in refs /\ Goto(j, "compare")
       \/ (j \notin refs \/ Faulty) /\ Goto(j, "over")
    /\ UNCHANGED <<gitVars, snap, at, victims, plan, existed, undoVars, diskVars, markVars>>

\* A diff that does not see the files git does not know yet.
UnchangedTracked(j) == \A p \in ChangedPaths(j) : snap[j][p] = Absent

UnchangedSince(j) == ChangedPaths(j) = {}

Compare(j) ==
    /\ pc[j] = "compare"
    /\ \/ UnchangedSince(j) /\ Goto(j, "discard")
       \/ (~UnchangedSince(j) \/ Faulty) /\ Goto(j, "over")
    /\ UNCHANGED <<gitVars, snap, at, victims, plan, existed, undoVars, diskVars, markVars>>

Discard(j) ==
    /\ pc[j] = "discard"
    /\ Goto(j, "over")
    /\ \/ refs' = refs \ {j}
       \/ Faulty /\ UNCHANGED refs
    /\ UNCHANGED <<now, snap, at, victims, plan, existed, undoVars, diskVars, markVars>>
-----------------------------------------------------------------------------
(***************************************************************************)
(* The user: the editor and the restore-points dialog.                     *)
(***************************************************************************)
UserWrites(p, c) ==
    /\ edits[User] < UserEdits
    /\ c # tree[p]
    /\ Write(User, p, c)
    /\ edits' = [edits EXCEPT ![User] = @ + 1]
    /\ UNCHANGED <<gitVars, jobVars, undoVars, parked, pruned, forgotten>>

\* ListCheckpoints, when the dialog opens.
List(u) ==
    /\ upc[u] = "idle"
    /\ upc' = [upc EXCEPT ![u] = "listed"]
    /\ listed' = [listed EXCEPT ![u] = refs]
    /\ UNCHANGED <<gitVars, jobVars, target, todo, misread, diskVars, markVars>>

\* A checkpoint it lists, confirmed.
Choose(u, j) ==
    /\ upc[u] = "listed"
    /\ j \in listed[u]
    /\ upc' = [upc EXCEPT ![u] = "resolve"]
    /\ target' = [target EXCEPT ![u] = j]
    /\ UNCHANGED <<gitVars, jobVars, listed, todo, misread, diskVars, markVars>>

\* DeleteCheckpoint: deleting one that is not there is not an error.
Forget(j) ==
    /\ j \in refs
    /\ refs' = refs \ {j}
    /\ forgotten' = forgotten \cup {j}
    /\ UNCHANGED <<now, jobVars, undoVars, diskVars, edits, parked, pruned>>

\* RestoreCheckpoint: readCheckpoint,
RestoreResolve(u) ==
    /\ upc[u] = "resolve"
    /\ upc' = [upc EXCEPT ![u] = IF target[u] \in refs THEN "diff" ELSE "failed"]
    /\ UNCHANGED <<gitVars, jobVars, listed, target, todo, misread, diskVars, markVars>>

\* snapshotIndex and changedPaths,
RestoreDiff(u) ==
    /\ upc[u] = "diff"
    /\ \/ /\ todo' = [todo EXCEPT ![u] = ChangedPaths(target[u])]
          /\ upc' = [upc EXCEPT ![u] =
                IF ChangedPaths(target[u]) = {} THEN "restored" ELSE "writing"]
          /\ disturbed' = [disturbed EXCEPT ![u] = {}]
       \/ /\ Faulty
          /\ upc' = [upc EXCEPT ![u] = "failed"]
          /\ UNCHANGED <<todo, disturbed>>
    /\ UNCHANGED <<gitVars, jobVars, listed, target, misread, tree, writer, markVars>>

\* blobAt, for a path of the snapshot: what it has there.  Any failure of
\* `cat-file` is taken for a path that it does not have.
Blobs(u, p) == {snap[target[u]][p]} \cup (IF Faulty THEN {Absent} ELSE {})

\* and the loop, a path at a time: written, or removed when blobAt found nothing.
\* A failed removal is ignored; a failed write, or a git that could not be run,
\* aborts it.
RestoreWrite(u) ==
    /\ upc[u] = "writing"
    /\ \E p \in Paths, blob \in State :
          /\ First(p, todo[u]) /\ blob \in Blobs(u, p)
          /\ \/ /\ \/ Write(u, p, blob)
                   \/ Faulty /\ blob = Absent /\ UNCHANGED diskVars
                /\ misread' = [misread EXCEPT ![u] =
                      misread[u] \cup (IF blob = snap[target[u]][p] THEN {} ELSE {p})]
                /\ todo' = [todo EXCEPT ![u] = todo[u] \ {p}]
                /\ upc' = [upc EXCEPT ![u] =
                      IF todo[u] = {p} THEN "restored" ELSE "writing"]
             \/ /\ Faulty
                /\ upc' = [upc EXCEPT ![u] = "failed"]
                /\ UNCHANGED <<todo, misread, diskVars>>
    /\ UNCHANGED <<gitVars, jobVars, listed, target, markVars>>
-----------------------------------------------------------------------------
\* The application dies.  Refs, files and the agents stay; nobody drops a
\* checkpoint of a turn that was running.
Crash ==
    /\ pc' = [j \in Jobs |->
          CASE pc[j] \in {"idle", "over", "dead", "orphaned"} -> pc[j]
            [] pc[j] = "work" /\ j \in Turns                  -> "orphaned"
            [] OTHER                                          -> "dead"]
    /\ upc' = [u \in Undos |->
          IF upc[u] \in {"idle", "restored", "failed"} THEN upc[u] ELSE "failed"]
    /\ UNCHANGED <<gitVars, snap, at, victims, plan, existed, listed, target, todo,
                   misread, diskVars, markVars>>

Tick ==
    /\ now < LastSecond
    /\ now' = now + 1
    /\ UNCHANGED <<refs, jobVars, undoVars, diskVars, markVars>>

Create(j) == Snapshot(j) \/ Park(j) \/ PruneList(j) \/ PruneDrop(j)

Job(j) ==
    \/ Begin(j) \/ Plan(j) \/ Create(j)
    \/ TurnEnds(j) \/ WritePlanned(j)
    \/ Resolve(j) \/ Compare(j) \/ Discard(j)
    \/ \E p \in Paths, c \in State : AgentWrites(j, p, c)

Undo(u) ==
    \/ List(u) \/ RestoreResolve(u) \/ RestoreDiff(u) \/ RestoreWrite(u)
    \/ \E j \in Jobs : Choose(u, j)

Next ==
    \/ \E j \in Jobs : Job(j) \/ Forget(j)
    \/ \E u \in Undos : Undo(u)
    \/ \E p \in Paths, c \in State : UserWrites(p, c)
    \/ Crash \/ Tick

Spec == Init /\ [][Next]_vars
-----------------------------------------------------------------------------
(***************************************************************************)
(* Properties.                                                             *)
(***************************************************************************)
JobPhases ==
    {"idle", "snapshot", "park", "prune", "dropping", "work", "orphaned",
     "resolve", "compare", "discard", "over", "dead"}

UndoPhases == {"idle", "listed", "resolve", "diff", "writing", "restored", "failed"}

\* The shape of the state; and a prune that is deleting has something to delete.
TypeOK ==
    /\ tree \in [Paths -> State] /\ writer \in [Paths -> Writers]
    /\ now \in Nat
    /\ pc \in [Jobs -> JobPhases]
    /\ snap \in [Jobs -> [Paths -> State]] /\ at \in [Jobs -> Nat]
    /\ plan \in [Jobs -> [Paths -> State]]
    /\ victims \in [Jobs -> SUBSET Jobs]
    /\ upc \in [Undos -> UndoPhases]
    /\ listed \in [Undos -> SUBSET Jobs]
    /\ target \in [Undos -> Jobs \cup {Absent}]
    /\ todo \in [Undos -> SUBSET Paths]
    /\ edits \in [Writers -> Nat]
    /\ refs \subseteq parked /\ parked \subseteq Jobs
    /\ pruned \subseteq parked /\ forgotten \subseteq parked
    /\ existed \in [Jobs -> SUBSET Paths]
    /\ disturbed \in [Undos -> SUBSET Paths]
    /\ misread \in [Undos -> SUBSET Paths]
    /\ \A j \in Jobs : pc[j] = "dropping" => victims[j] # {}

\* What an agent changed and nobody changed after it can be undone, unless the
\* user forgot the checkpoint or a prune took it: dropping the checkpoints that
\* are clutter never drops one that is not, whoever else edits meanwhile and
\* wherever the application dies (AI-052).
AgentEditsUndoable ==
    \A j \in Turns, p \in Paths \ Hidden :
        /\ j \in parked \ (pruned \cup forgotten)
        /\ writer[p] = j
        /\ tree[p] # snap[j][p]
        => j \in refs

\* A restore that came to its end left every path as the snapshot has it,
\* except those others wrote since it compared, the files the disk refused to
\* remove, which RestoreCheckpoint counts as removed, and those whose blob git
\* failed to read (GIT-024; for the last see RestoreIsExact).
RestoreMissesOnlyTheMisread ==
    \A u \in Undos, p \in Paths \ Hidden :
        upc[u] = "restored" =>
            \/ p \in disturbed[u] \cup misread[u]
            \/ tree[p] = snap[target[u]][p]
            \/ Faulty /\ snap[target[u]][p] = Absent

\* A prune takes a checkpoint only when maxCheckpoints others are at least as
\* recent: no race of two prunes, each with a list of its own, takes one of the
\* newest (GIT-023).
PruneKeepsTheNewest ==
    \A j \in pruned \ (refs \cup forgotten) :
            \E newer \in SUBSET (parked \ {j}) :
                /\ Cardinality(newer) >= MaxCheckpoints
                /\ \A k \in newer : at[k] >= at[j]

\* The last creation to finish its prune leaves no more than maxCheckpoints,
\* also after a crash left some over (GIT-023).
AtMostMaxCheckpoints ==
    [][\A j \in Jobs :
          /\ pc[j] \in {"prune", "dropping"} /\ pc'[j] = "work"
          /\ \A k \in Jobs \ {j} : pc[k] \notin {"prune", "dropping"}
          => Cardinality(refs') <= MaxCheckpoints]_vars

(***************************************************************************)
(* What the repository says of this code and the code does not do.         *)
(***************************************************************************)
\* RestoreCheckpoint "writes every differing path back to its snapshotted content
\* and deletes the ones the run created": so a path the snapshot has is there when
\* it ends without an error.
RestoreIsExact ==
    \A u \in Undos, p \in Paths \ Hidden :
        upc[u] = "restored" /\ snap[target[u]][p] # Absent =>
            p \in disturbed[u] \/ tree[p] = snap[target[u]][p]

\* RestoreCheckpoint: "Absent from the snapshot: the run created it, so undoing
\* means removing it."  A file the checkpoint's moment had on disk is not one
\* the run created.
RemovesOnlyWhatWasCreated ==
    [][\A u \in Undos, p \in Paths :
          upc[u] = "writing" /\ p \in todo[u] \ todo'[u] /\ tree'[p] = Absent
              => p \notin existed[target[u]]]_vars

\* ReplaceInRepo: "The checkpoint is taken after planning and before the first
\* write, so undo restores the state the user actually had."  So what a write
\* of the replace overwrites is in the checkpoint.
ReplaceIsUndoable ==
    [][\A j \in Replaces, p \in Paths :
          j \in parked /\ pc[j] = "work" /\ plan'[j][p] # plan[j][p]
              => tree[p] = snap[j][p]]_vars
=============================================================================
