-------------------------- MODULE RepoScreen_proofs --------------------------
(***************************************************************************)
(* What the panels show, for any number of repositories, slices and        *)
(* operations under way, whatever fails and in whatever order the answers  *)
(* come in.                                                                *)
(***************************************************************************)
EXTENDS RepoScreen, TLAPS

\* What a checkout alone changes: visible to every proof.
USE DEF generation

\* What an operation's stage says of it.
Placed(r) ==
    /\ r.pc # "idle" => r.kind \in DOMAIN Refreshed /\ r.repo \in Repos
    /\ r.pc = "asking" => r.kind = "project"
    /\ r.pc \in {"writing", "stashed", "rewriting"} => r.kind \notin {"project", "watch"}
    /\ \A s \in Slices : r.read[s] # "done" => r.pc = "reading"

\* What it has read is of its own repository, and none the newer for having
\* been left behind by a checkout.
Dated(r, now) ==
    /\ r.seq <= now
    /\ \A s \in Slices : r.got[s].left => r.seq < now
    /\ \A s \in Slices : r.read[s] = "answered" => r.got[s].repo = r.repo /\ r.got[s].by = r.kind

Sound(r, now) == r \in Task /\ Placed(r) /\ Dated(r, now)

IInv ==
    /\ TypeOK /\ ScreenIsOfOneRepo /\ NothingFromBeforeTheCheckout /\ FlagsHaveOwners
    /\ \A t \in Tasks : Sound(task[t], refreshSeq)

\* The checkout that has been the only one so far.
Alone == Running({"checkout"}) \ beside

\* There is but one of them, the flag is up for as long, and every refresh that
\* the watcher asked for is older than it.
OneCheckout ==
    /\ \A c \in Alone, d \in Running({"checkout"}) : c = d
    /\ Alone # {} => checkingOutBranch
    /\ \A c \in Alone, w \in Running({"watch"}) : task[w].seq < refreshSeq
    /\ \A w \in Running({"watch"}), s \in Slices :
         task[w].got[s].half = "alone" => task[w].seq < refreshSeq

WInv == IInv /\ OneCheckout /\ OnlyOverlapsShowHalf
-----------------------------------------------------------------------------
(***************************************************************************)
(* Records.                                                                *)
(***************************************************************************)
LEMMA Kinds ==
    /\ {"project", "watch", "checkout", "fetch", "pull", "push"} \subseteq DOMAIN Refreshed
    /\ "none" \notin DOMAIN Refreshed
  BY DEF Refreshed

LEMMA BlankIsSound ==
    /\ Nothing \in Readings /\ Blank \in [Slices -> Readings] /\ NoTask \in Task
    /\ NoTask.kind = "none" /\ NoTask.pc = "idle" /\ NoTask.seq = 0 /\ NoTask.got = Blank
    /\ \A s \in Slices : NoTask.read[s] = "done" /\ Blank[s].left = FALSE /\ Blank[s].half = "no"
  <1>1. Nothing \in Readings /\ Nothing.left = FALSE /\ Nothing.half = "no"
    BY DEF Nothing, Readings
  <1>2. Blank \in [Slices -> Readings] /\ \A s \in Slices : Blank[s] = Nothing
    BY <1>1 DEF Blank
  <1>3. NoTask \in Task
    BY <1>2, RepoScreenAssumption DEF NoTask, Task
  <1>. QED
    BY <1>1, <1>2, <1>3 DEF NoTask

LEMMA NoTaskIsSound == ASSUME NEW now \in Nat PROVE Sound(NoTask, now)
  BY BlankIsSound DEF Sound, Placed, Dated

\* An operation at a stage before its reads.
LEMMA EarlyIsSound ==
    ASSUME NEW kind \in DOMAIN Refreshed, NEW r \in Repos, NEW now \in Nat,
           NEW stage \in {"asking", "writing"},
           stage = "asking" => kind = "project",
           stage = "writing" => kind \notin {"project", "watch"}
    PROVE  Sound([NoTask EXCEPT !.kind = kind, !.pc = stage, !.repo = r], now)
  <1> DEFINE x == [NoTask EXCEPT !.kind = kind, !.pc = stage, !.repo = r]
  <1>1. x \in Task /\ x.kind = kind /\ x.pc = stage /\ x.repo = r /\ x.seq = 0
        /\ x.read = NoTask.read /\ x.got = Blank
    BY BlankIsSound DEF Task
  <1>. QED
    BY <1>1, BlankIsSound DEF Sound, Placed, Dated

\* An operation that reads is sound in the generation it begins to read in.
LEMMA ReadingIsSound ==
    ASSUME TypeOK, NEW kind \in DOMAIN Refreshed, repoPath # None
    PROVE  /\ Sound(Reading(kind), refreshSeq)
           /\ Reading(kind).kind = kind /\ Reading(kind).repo = repoPath
           /\ Reading(kind).seq = refreshSeq /\ Reading(kind).got = Blank
           /\ Reading(kind).pc = "reading"
  <1> DEFINE read == [s \in Slices |-> IF s \in Refreshed[kind] THEN "asked" ELSE "done"]
  <1>1. read \in [Slices -> {"asked", "answered", "done"}] /\ \A s \in Slices : read[s] # "answered"
    OBVIOUS
  <1>2. repoPath \in Repos /\ refreshSeq \in 0 .. MaxSeq
    BY DEF TypeOK
  <1> HIDE DEF read
  <1>3. Reading(kind) = [NoTask EXCEPT !.kind = kind, !.pc = "reading", !.repo = repoPath,
                                       !.seq = refreshSeq, !.read = read]
    BY DEF Reading, read
  <1>4. Reading(kind) = [kind |-> kind, pc |-> "reading", repo |-> repoPath,
                         seq |-> refreshSeq, read |-> read, got |-> Blank]
    BY <1>3 DEF NoTask
  <1>5. kind \in DOMAIN Refreshed \cup {"none"} /\ Blank \in [Slices -> Readings]
    BY BlankIsSound
  <1>6. Reading(kind) \in Task
    BY <1>1, <1>2, <1>4, <1>5 DEF Task
  <1>7. Placed(Reading(kind))
    BY <1>2, <1>4 DEF Placed
  <1>8. Dated(Reading(kind), refreshSeq)
    BY <1>1, <1>2, <1>4, BlankIsSound, RepoScreenAssumption DEF Dated
  <1>. QED
    BY <1>4, <1>6, <1>7, <1>8 DEF Sound

-----------------------------------------------------------------------------
(***************************************************************************)
(* The end of an operation, or of its command.                             *)
(***************************************************************************)

\* Only one operation changes, and what it has become is sound.
Changes(t) ==
    /\ task' \in [Tasks -> Task] /\ Sound(task'[t], refreshSeq)
    /\ \A u \in Tasks \ {t} : task'[u] = task[u]

LEMMA OneTask ==
    ASSUME TypeOK, NEW t \in Tasks, NEW r, Sound(r, refreshSeq), task' = [task EXCEPT ![t] = r]
    PROVE  Changes(t) /\ task'[t] = r
  BY DEF TypeOK, Changes, Sound

GateOK == projectLoading \in BOOLEAN /\ checkingOutBranch \in BOOLEAN /\ remoteOp \in RemoteOps \cup {"none"}

\* An operation that ends takes down the flag it owns.
LEMMA OverKeeps ==
    ASSUME IInv, NEW t \in Tasks, Over(t), UNCHANGED repoPath
    PROVE  Changes(t) /\ task'[t] = NoTask /\ GateOK' /\ FlagsHaveOwners'
  <1>1. Changes(t) /\ task'[t] = NoTask
    <2>1. TypeOK /\ refreshSeq \in Nat
      BY RepoScreenAssumption DEF IInv, TypeOK
    <2>2. Sound(NoTask, refreshSeq) /\ task' = [task EXCEPT ![t] = NoTask]
      BY <2>1, NoTaskIsSound DEF Over
    <2>. QED
      BY <2>1, <2>2, OneTask
  <1>2. GateOK'
    BY DEF Over, IInv, TypeOK, GateOK
  <1>3. projectLoading' => \E u \in Tasks : task'[u].kind = "project" /\ task'[u].repo = repoPath
    BY <1>1 DEF Over, IInv, FlagsHaveOwners, Running, Changes
  <1>4. checkingOutBranch' => \E u \in Tasks : task'[u].kind = "checkout"
    BY <1>1 DEF Over, IInv, FlagsHaveOwners, Running, Changes
  <1>5. remoteOp' # "none" => \E u \in Tasks : task'[u].kind \in RemoteOps /\ task'[u].kind = remoteOp'
    BY <1>1 DEF Over, IInv, FlagsHaveOwners, Running, Changes
  <1>. QED
    BY <1>1, <1>2, <1>3, <1>4, <1>5 DEF FlagsHaveOwners, Running

\* An operation that goes on, as what it was, is still its flag's owner.
LEMMA OwnerStays ==
    ASSUME IInv, NEW t \in Tasks, Changes(t), UNCHANGED <<gate, repoPath>>,
           task'[t].kind = task[t].kind,
           task[t].kind = "project" /\ task[t].repo = repoPath => task'[t].repo = repoPath
    PROVE  FlagsHaveOwners'
  <1>1. \A u \in Tasks : task'[u].kind = task[u].kind
    BY DEF Changes
  <1>2. \A u \in Tasks : task[u].kind = "project" /\ task[u].repo = repoPath => task'[u].repo = repoPath
    BY DEF Changes
  <1>. QED
    BY <1>1, <1>2 DEF IInv, FlagsHaveOwners, Running, gate

LEMMA ReadAgainKeeps ==
    ASSUME IInv, NEW t \in Tasks, ReadAgain(t), UNCHANGED repoPath, task[t].pc # "idle",
           task[t].kind = "project" => task[t].repo = repoPath
    PROVE  Changes(t) /\ GateOK' /\ FlagsHaveOwners'
  <1>1. CASE Over(t)
    BY <1>1, OverKeeps
  <1>2. CASE repoPath # None /\ task' = [task EXCEPT ![t] = Reading(task[t].kind)] /\ UNCHANGED gate
    <2>1. task[t].kind \in DOMAIN Refreshed
      BY DEF IInv, Sound, Placed
    <2>2. Changes(t) /\ task'[t] = Reading(task[t].kind)
      BY <1>2, <2>1, ReadingIsSound, OneTask DEF IInv
    <2>3. FlagsHaveOwners'
      BY <1>2, <2>1, <2>2, ReadingIsSound, OwnerStays DEF IInv, gate
    <2>. QED
      BY <1>2, <2>2, <2>3 DEF IInv, TypeOK, GateOK, gate
  <1>. QED
    BY <1>1, <1>2 DEF ReadAgain

-----------------------------------------------------------------------------
(***************************************************************************)
(* Every step.                                                             *)
(***************************************************************************)

\* A step that changes one operation and no more of the screen than it may.
LEMMA Collect ==
    ASSUME IInv, NEW t \in Tasks, Changes(t), GateOK', FlagsHaveOwners', UNCHANGED <<repoPath, generation>>,
           isGitRepo' \in {"unknown", "yes", "no"}, failed' \subseteq {"read", "command"},
           shown' \in [Slices -> Readings], ScreenIsOfOneRepo', NothingFromBeforeTheCheckout'
    PROVE  IInv'
  <1>1. TypeOK'
    BY DEF IInv, TypeOK, Changes, GateOK
  <1>2. \A u \in Tasks : Sound(task'[u], refreshSeq')
    BY DEF IInv, Changes
  <1>. QED
    BY <1>1, <1>2 DEF IInv

\* In particular one that leaves the screen alone.
LEMMA CollectQuietly ==
    ASSUME IInv, NEW t \in Tasks, Changes(t), GateOK', FlagsHaveOwners',
           UNCHANGED <<repoPath, generation, shown>>,
           isGitRepo' \in {"unknown", "yes", "no"}, failed' \subseteq {"read", "command"}
    PROVE  IInv'
  <1>1. /\ shown' \in [Slices -> Readings] /\ ScreenIsOfOneRepo' /\ NothingFromBeforeTheCheckout'
    BY DEF IInv, TypeOK, ScreenIsOfOneRepo, NothingFromBeforeTheCheckout
  <1>. QED
    BY <1>1, Collect

LEMMA InitIInv == Init => IInv
  <1>. SUFFICES ASSUME Init PROVE IInv
    OBVIOUS
  <1>1. TypeOK
    <2>1. refreshSeq \in 0 .. MaxSeq /\ task \in [Tasks -> Task] /\ shown \in [Slices -> Readings]
      BY BlankIsSound, RepoScreenAssumption DEF Init
    <2>. QED
      BY <2>1 DEF Init, TypeOK
  <1>2. ScreenIsOfOneRepo
    BY DEF Init, ScreenIsOfOneRepo, Blank
  <1>3. NothingFromBeforeTheCheckout
    BY BlankIsSound, RepoScreenAssumption DEF Init, NothingFromBeforeTheCheckout
  <1>4. FlagsHaveOwners
    BY DEF Init, FlagsHaveOwners
  <1>5. \A t \in Tasks : Sound(task[t], refreshSeq)
    BY NoTaskIsSound DEF Init
  <1>. QED
    BY <1>1, <1>2, <1>3, <1>4, <1>5 DEF IInv

LEMMA AnswerKeeps ==
    ASSUME IInv, NEW t \in Tasks, NEW s \in Slices, Answer(t, s)
    PROVE  /\ IInv' /\ Changes(t) /\ task'[t].kind = task[t].kind /\ task'[t].seq = task[t].seq
           /\ \A x \in Slices : task'[t].got[x].half = "alone" =>
                  task[t].got[x].half = "alone" \/ Alone # {}
  <1> DEFINE g == [repo |-> task[t].repo, by |-> task[t].kind, left |-> FALSE,
                   half |-> Halfway(task[t].repo)]
             r == [task[t] EXCEPT !.read[s] = "answered", !.got[s] = g]
  <1>1. /\ task[t] \in Task /\ task[t].pc = "reading"
        /\ task[t].kind \in DOMAIN Refreshed /\ task[t].repo \in Repos
    BY DEF Answer, IInv, Sound, Placed
  <1>2. /\ g \in Readings /\ g.repo = task[t].repo /\ g.by = task[t].kind /\ g.left = FALSE
        /\ g.half = "alone" => Alone # {}
    BY <1>1 DEF Readings, Halfway, Alone
  <1> HIDE DEF g
  <1>3. /\ r \in Task /\ r.kind = task[t].kind /\ r.pc = task[t].pc /\ r.repo = task[t].repo
        /\ r.seq = task[t].seq
        /\ r.read[s] = "answered" /\ \A x \in Slices \ {s} : r.read[x] = task[t].read[x]
        /\ r.got[s] = g /\ \A x \in Slices \ {s} : r.got[x] = task[t].got[x]
    BY <1>1, <1>2 DEF Task
  <1>4. Placed(task[t]) /\ Dated(task[t], refreshSeq)
    BY DEF IInv, Sound
  <1>5. Sound(r, refreshSeq)
    <2>1. Placed(r)
      BY <1>1, <1>3, <1>4 DEF Placed
    <2>2. Dated(r, refreshSeq)
      BY <1>2, <1>3, <1>4 DEF Dated
    <2>. QED
      BY <1>3, <2>1, <2>2 DEF Sound
  <1>6. task' = [task EXCEPT ![t] = r] /\ UNCHANGED <<gate, screen, failed>>
    BY DEF Answer, g
  <1>7. Changes(t) /\ task'[t] = r
    BY <1>5, <1>6, OneTask DEF IInv
  <1>8. FlagsHaveOwners' /\ GateOK'
    BY <1>3, <1>6, <1>7, OwnerStays DEF IInv, TypeOK, GateOK, gate, screen
  <1>9. IInv'
    BY <1>6, <1>7, <1>8, CollectQuietly DEF screen, IInv, TypeOK
  <1>. QED
    BY <1>2, <1>3, <1>7, <1>9

\* The end of one read.
LEMMA ReadDoneKeeps ==
    ASSUME IInv, NEW t \in Tasks, NEW s \in Slices, ReadDone(t, s), task[t].pc = "reading",
           UNCHANGED repoPath
    PROVE  Changes(t) /\ GateOK' /\ FlagsHaveOwners'
  <1> DEFINE read == [task[t].read EXCEPT ![s] = "done"]
             r == [task[t] EXCEPT !.read = read]
  <1>1. CASE Over(t)
    BY <1>1, OverKeeps
  <1>2. CASE task' = [task EXCEPT ![t].read = read] /\ UNCHANGED gate
    <2>1. task[t] \in Task /\ Placed(task[t]) /\ Dated(task[t], refreshSeq)
      BY DEF IInv, Sound
    <2>2. /\ read \in [Slices -> {"asked", "answered", "done"}]
          /\ \A x \in Slices : read[x] = "answered" => task[t].read[x] = "answered"
      BY <2>1 DEF Task
    <2> HIDE DEF read
    <2>3. /\ r \in Task /\ r.kind = task[t].kind /\ r.pc = task[t].pc /\ r.repo = task[t].repo
          /\ r.seq = task[t].seq /\ r.got = task[t].got /\ r.read = read
      BY <2>1, <2>2 DEF Task
    <2>4. Sound(r, refreshSeq)
      BY <2>1, <2>2, <2>3 DEF Sound, Placed, Dated
    <2>5. Changes(t) /\ task'[t] = r
      BY <1>2, <2>4, OneTask DEF IInv
    <2>6. FlagsHaveOwners'
      BY <1>2, <2>3, <2>5, OwnerStays
    <2>. QED
      BY <1>2, <2>5, <2>6 DEF IInv, TypeOK, GateOK, gate
  <1>. QED
    BY <1>1, <1>2 DEF ReadDone

LEMMA LandKeeps ==
    ASSUME IInv, NEW t \in Tasks, NEW s \in Slices, Land(t, s)
    PROVE  IInv'
  <1>1. task[t].read[s] = "answered" /\ ReadDone(t, s) /\ UNCHANGED <<repoPath, generation, isGitRepo, failed>>
    BY DEF Land
  <1>2. Sound(task[t], refreshSeq) /\ task[t].pc = "reading"
    BY <1>1 DEF IInv, Sound, Placed
  <1>3. Changes(t) /\ GateOK' /\ FlagsHaveOwners'
    BY <1>1, <1>2, ReadDoneKeeps
  <1>4. CASE IsCurrent(t)
    <2>1. shown' = [shown EXCEPT ![s] = task[t].got[s]]
      BY <1>4 DEF Land
    <2>2. task[t].got[s] \in Readings /\ task[t].got[s].repo = repoPath
      BY <1>1, <1>2, <1>4 DEF Sound, Task, Dated, IsCurrent
    <2>3. ~task[t].got[s].left
      BY <1>2, <1>4 DEF Sound, Task, Dated, IsCurrent, IInv, TypeOK
    <2>4. shown' \in [Slices -> Readings]
      BY <2>1, <2>2 DEF IInv, TypeOK
    <2>5. ScreenIsOfOneRepo'
      BY <1>1, <2>1, <2>2 DEF IInv, TypeOK, ScreenIsOfOneRepo
    <2>6. NothingFromBeforeTheCheckout'
      BY <2>1, <2>3, RepoScreenAssumption DEF IInv, TypeOK, NothingFromBeforeTheCheckout
    <2>. QED
      BY <1>1, <1>3, <2>4, <2>5, <2>6, Collect DEF IInv, TypeOK
  <1>5. CASE ~IsCurrent(t)
    BY <1>1, <1>3, <1>5, CollectQuietly DEF Land, IInv, TypeOK
  <1>. QED
    BY <1>4, <1>5

LEMMA LoseKeeps ==
    ASSUME IInv, NEW t \in Tasks, NEW s \in Slices, Lose(t, s)
    PROVE  IInv'
  <1>1. task[t].read[s] = "asked" /\ ReadDone(t, s) /\ UNCHANGED screen
        /\ failed' = failed \cup {"read"}
    BY DEF Lose
  <1>2. task[t].pc = "reading"
    BY <1>1 DEF IInv, Sound, Placed
  <1>3. Changes(t) /\ GateOK' /\ FlagsHaveOwners'
    BY <1>1, <1>2, ReadDoneKeeps DEF screen
  <1>. QED
    BY <1>1, <1>3, CollectQuietly DEF screen, IInv, TypeOK

LEMMA ShowProjectKeeps ==
    ASSUME IInv, NEW t \in Tasks, NEW p \in Repos \cup {None}, ShowProject(t, p)
    PROVE  IInv' /\ Changes(t) /\ task'[t].kind \in {"project", "none"}
  <1> DEFINE r == [NoTask EXCEPT !.kind = "project", !.pc = "asking", !.repo = p]
  <1>1. /\ repoPath' = p /\ isGitRepo' = "unknown" /\ shown' = Blank /\ projectLoading' = (p # None)
        /\ task[t] = NoTask /\ UNCHANGED <<generation, checkingOutBranch, remoteOp, failed>>
    BY DEF ShowProject
  <1>2. TypeOK /\ refreshSeq \in Nat
    BY RepoScreenAssumption DEF IInv, TypeOK
  <1>3. /\ Changes(t) /\ task'[t].kind \in {"project", "none"}
        /\ p # None => task'[t] = r /\ r.kind = "project" /\ r.repo = p
    <2>1. CASE p = None
      BY <1>1, <2>1, BlankIsSound DEF ShowProject, IInv, TypeOK, Changes
    <2>2. CASE p # None
      <3>1. Sound(r, refreshSeq)
        BY <1>2, <2>2, EarlyIsSound, Kinds
      <3>2. r.kind = "project" /\ r.repo = p
        BY BlankIsSound DEF Task
      <3>. QED
        BY <1>2, <2>2, <3>1, <3>2, OneTask DEF ShowProject
    <2>. QED
      BY <2>1, <2>2
  <1>4. GateOK'
    BY <1>1 DEF IInv, TypeOK, GateOK
  <1>5. FlagsHaveOwners'
    <2>1. projectLoading' => \E u \in Tasks : task'[u].kind = "project" /\ task'[u].repo = repoPath'
      BY <1>1, <1>3
    <2>2. \A u \in Tasks : task[u].kind # "none" => task'[u] = task[u]
      BY <1>1, <1>3, BlankIsSound DEF Changes
    <2>3. checkingOutBranch' => \E u \in Tasks : task'[u].kind = "checkout"
      BY <1>1, <2>2 DEF IInv, FlagsHaveOwners, Running
    <2>4. remoteOp' # "none" => \E u \in Tasks : task'[u].kind \in RemoteOps /\ task'[u].kind = remoteOp'
      BY <1>1, <2>2 DEF IInv, FlagsHaveOwners, Running
    <2>. QED
      BY <2>1, <2>3, <2>4 DEF FlagsHaveOwners, Running
  <1>6. TypeOK'
    BY <1>1, <1>3, <1>4, BlankIsSound DEF IInv, TypeOK, Changes, GateOK
  <1>7. ScreenIsOfOneRepo' /\ NothingFromBeforeTheCheckout'
    BY <1>1, BlankIsSound, RepoScreenAssumption
    DEF ScreenIsOfOneRepo, NothingFromBeforeTheCheckout, Blank, Nothing
  <1>8. \A u \in Tasks : Sound(task'[u], refreshSeq')
    BY <1>1, <1>3 DEF IInv, Changes
  <1>. QED
    BY <1>3, <1>5, <1>6, <1>7, <1>8 DEF IInv

LEMMA LearnKindKeeps ==
    ASSUME IInv, NEW t \in Tasks, LearnKind(t)
    PROVE  IInv'
  <1>1. task[t].pc = "asking" /\ UNCHANGED <<repoPath, generation, shown, failed>>
    BY DEF LearnKind
  <1>2. CASE task[t].repo # repoPath
    <2>1. task' = [task EXCEPT ![t] = NoTask] /\ UNCHANGED <<gate, isGitRepo>>
      BY <1>2 DEF LearnKind
    <2>2. Changes(t) /\ task'[t] = NoTask
      <3>1. TypeOK /\ refreshSeq \in Nat
        BY RepoScreenAssumption DEF IInv, TypeOK
      <3>. QED
        BY <2>1, <3>1, OneTask, NoTaskIsSound
    <2>3. task[t].kind = "project"
      BY <1>1 DEF IInv, Sound, Placed
    <2>4. \A u \in Tasks : \/ task'[u] = task[u]
                           \/ task[u].kind = "project" /\ task[u].repo # repoPath
      BY <1>2, <2>2, <2>3 DEF Changes
    <2>5. FlagsHaveOwners'
      <3>1. projectLoading => \E u \in Tasks : task'[u].kind = "project" /\ task'[u].repo = repoPath
        BY <2>4 DEF IInv, FlagsHaveOwners, Running
      <3>2. checkingOutBranch => \E u \in Tasks : task'[u].kind = "checkout"
        BY <2>4 DEF IInv, FlagsHaveOwners, Running
      <3>3. remoteOp # "none" => \E u \in Tasks : task'[u].kind \in RemoteOps /\ task'[u].kind = remoteOp
        BY <2>4 DEF IInv, FlagsHaveOwners, Running, RemoteOps
      <3>. QED
        BY <1>1, <2>1, <3>1, <3>2, <3>3 DEF FlagsHaveOwners, Running, gate
    <2>. QED
      BY <1>1, <2>1, <2>2, <2>5, CollectQuietly DEF IInv, TypeOK, GateOK, gate
  <1>3. CASE task[t].repo = repoPath
    <2>1. /\ isGitRepo' \in {"yes", "no"} 
          /\ ReadAgain(t) \/ Over(t)
      BY <1>3 DEF LearnKind
    <2>2. Changes(t) /\ GateOK' /\ FlagsHaveOwners'
      BY <1>1, <1>3, <2>1, OverKeeps, ReadAgainKeeps
    <2>. QED
      BY <1>1, <2>1, <2>2, CollectQuietly DEF IInv, TypeOK
  <1>. QED
    BY <1>2, <1>3

LEMMA StartKeeps ==
    ASSUME IInv, NEW t \in Tasks, NEW kind \in Commands, Start(t, kind)
    PROVE  IInv' /\ Changes(t) /\ task'[t].kind = kind
  <1> DEFINE r == Command(kind)
  <1>1. /\ kind \in DOMAIN Refreshed \ {"project", "watch"} /\ repoPath \in Repos /\ TypeOK
        /\ refreshSeq \in Nat /\ task[t] = NoTask
    BY RepoScreenAssumption DEF Start, IInv, TypeOK
  <1>2. Sound(r, refreshSeq) /\ r.kind = kind
    BY <1>1, EarlyIsSound, BlankIsSound DEF Command, Task
  <1>3. Changes(t) /\ task'[t] = r
    BY <1>1, <1>2, OneTask DEF Start
  <1>4. \A u \in Tasks : task[u].kind # "none" => task'[u] = task[u]
    BY <1>1, <1>3, BlankIsSound DEF Changes
  <1>5. /\ UNCHANGED <<projectLoading, checkingOutBranch, screen, failed>>
        /\ remoteOp' = IF kind \in RemoteOps THEN kind ELSE remoteOp
    BY DEF Start
  <1>6. FlagsHaveOwners'
    <2>1. projectLoading => \E u \in Tasks : task'[u].kind = "project" /\ task'[u].repo = repoPath
      BY <1>4 DEF IInv, FlagsHaveOwners, Running
    <2>2. checkingOutBranch => \E u \in Tasks : task'[u].kind = "checkout"
      BY <1>4 DEF IInv, FlagsHaveOwners, Running
    <2>3. remoteOp' # "none" => \E u \in Tasks : task'[u].kind \in RemoteOps /\ task'[u].kind = remoteOp'
      <3>1. CASE kind \in RemoteOps
        BY <1>2, <1>3, <1>5, <3>1
      <3>2. CASE kind \notin RemoteOps
        <4>1. remoteOp # "none" => \E u \in Tasks : task[u].kind \in RemoteOps /\ task[u].kind = remoteOp
          BY DEF IInv, FlagsHaveOwners, Running
        <4>2. "none" \notin RemoteOps
          BY DEF RemoteOps
        <4>. QED
          BY <1>4, <1>5, <3>2, <4>1, <4>2
      <3>. QED
        BY <3>1, <3>2
    <2>. QED
      BY <1>5, <2>1, <2>2, <2>3 DEF FlagsHaveOwners, Running, screen
  <1>7. GateOK'
    BY <1>5 DEF IInv, TypeOK, GateOK
  <1>. QED
    BY <1>2, <1>3, <1>5, <1>6, <1>7, CollectQuietly DEF IInv, TypeOK, screen

\* A reading that a checkout leaves behind is the reading it was.
LEMMA LeftReading ==
    ASSUME NEW g \in Readings, repoPath # None
    PROVE  /\ Left(g) \in Readings /\ Left(g).repo = g.repo /\ Left(g).by = g.by
           /\ Left(g).half = g.half
           /\ g = Nothing => Left(g) = Nothing
  <1>1. CASE g = Nothing
    <2>1. Left(g) = Nothing
      BY <1>1 DEF Left, Nothing
    <2>. QED
      BY <1>1, <2>1
  <1>2. CASE g # Nothing
    <2>1. g \in [repo : Repos, by : DOMAIN Refreshed, half : {"no", "alone", "beside"}, left : BOOLEAN]
      BY <1>2 DEF Readings
    <2>. QED
      BY <1>2, <2>1 DEF Left, Readings
  <1>. QED
    BY <1>1, <1>2

Marked(r) == [r EXCEPT !.got = [s \in Slices |-> Left(r.got[s])]]

LEMMA MarkedIsSound ==
    ASSUME NEW now \in 0 .. MaxSeq, NEW r, Sound(r, now), repoPath # None
    PROVE  /\ Sound(Marked(r), now + 1)
           /\ Marked(r).kind = r.kind /\ Marked(r).repo = r.repo /\ Marked(r).seq = r.seq
           /\ \A s \in Slices : Marked(r).got[s].half = r.got[s].half
  <1> DEFINE got == [s \in Slices |-> Left(r.got[s])]
  <1>1. r \in Task /\ Placed(r) /\ Dated(r, now)
    BY DEF Sound
  <1>2. \A s \in Slices : r.got[s] \in Readings
    BY <1>1 DEF Task
  <1>3. /\ got \in [Slices -> Readings]
        /\ \A s \in Slices : /\ got[s].repo = r.got[s].repo /\ got[s].by = r.got[s].by
                             /\ got[s].half = r.got[s].half
    BY <1>2, LeftReading
  <1> HIDE DEF got
  <1>4. /\ Marked(r) \in Task /\ Marked(r).kind = r.kind /\ Marked(r).pc = r.pc
        /\ Marked(r).repo = r.repo /\ Marked(r).seq = r.seq /\ Marked(r).read = r.read
        /\ Marked(r).got = got
    <2>1. Marked(r) = [r EXCEPT !.got = got]
      BY DEF Marked, got
    <2>. QED
      BY <1>1, <1>3, <2>1 DEF Task
  <1>5. Placed(Marked(r))
    BY <1>1, <1>4 DEF Placed
  <1>6. Dated(Marked(r), now + 1)
    <2>1. r.seq \in Nat /\ now \in Nat /\ r.seq <= now
      BY <1>1, RepoScreenAssumption DEF Task, Dated
    <2>. QED
      BY <1>1, <1>3, <1>4, <2>1 DEF Dated
  <1>. QED
    BY <1>3, <1>4, <1>5, <1>6 DEF Sound

\* What a checkout does to the operations under way.
LEMMA StartCheckoutTasks ==
    ASSUME IInv, NEW t \in Tasks, StartCheckout(t)
    PROVE  /\ task' \in [Tasks -> Task] /\ \A u \in Tasks : Sound(task'[u], refreshSeq')
           /\ task'[t].kind = "checkout"
           /\ \A u \in Tasks \ {t} : task'[u] = Marked(task[u])
  <1>1. /\ repoPath \in Repos /\ refreshSeq \in 0 .. MaxSeq /\ refreshSeq' = refreshSeq + 1
        /\ repoPath # None /\ refreshSeq' \in Nat
    BY RepoScreenAssumption DEF StartCheckout, IInv, TypeOK
  <1>2. Sound(Command("checkout"), refreshSeq') /\ Command("checkout").kind = "checkout"
    BY <1>1, EarlyIsSound, BlankIsSound, Kinds DEF Command, Task
  <1>3. task' = [u \in Tasks |-> IF u = t THEN Command("checkout") ELSE Marked(task[u])]
    BY DEF StartCheckout, Marked
  <1>4. \A u \in Tasks : Sound(Marked(task[u]), refreshSeq')
    BY <1>1, MarkedIsSound DEF IInv
  <1>. QED
    BY <1>2, <1>3, <1>4 DEF Sound

LEMMA StartCheckoutKeeps ==
    ASSUME IInv, NEW t \in Tasks, StartCheckout(t)
    PROVE  IInv'
  <1>1. /\ repoPath \in Repos /\ repoPath # None /\ refreshSeq' \in 0 .. MaxSeq /\ checkingOutBranch' = TRUE
        /\ task[t] = NoTask /\ UNCHANGED <<repoPath, isGitRepo, projectLoading, remoteOp, failed>>
    BY RepoScreenAssumption DEF StartCheckout, IInv, TypeOK
  <1>2. shown' = [s \in Slices |-> IF s = "status" THEN Nothing ELSE Left(shown[s])]
    BY DEF StartCheckout
  <1>3. \A s \in Slices : shown[s] \in Readings
    BY DEF IInv, TypeOK
  <1>4. shown' \in [Slices -> Readings]
    BY <1>1, <1>2, <1>3, LeftReading, BlankIsSound
  <1>5. ScreenIsOfOneRepo'
    BY <1>1, <1>2, <1>3, LeftReading DEF IInv, ScreenIsOfOneRepo
  <1>6. NothingFromBeforeTheCheckout'
    BY <1>2, RepoScreenAssumption DEF NothingFromBeforeTheCheckout, Nothing
  <1>7. \A u \in Tasks : task[u].kind # "none" =>
            u # t /\ task'[u].kind = task[u].kind /\ task'[u].repo = task[u].repo
    BY <1>1, StartCheckoutTasks, MarkedIsSound, BlankIsSound DEF IInv, TypeOK
  <1>8. FlagsHaveOwners'
    <2>1. projectLoading => \E u \in Tasks : task'[u].kind = "project" /\ task'[u].repo = repoPath
      BY <1>7 DEF IInv, FlagsHaveOwners, Running
    <2>2. remoteOp # "none" => \E u \in Tasks : task'[u].kind \in RemoteOps /\ task'[u].kind = remoteOp
      BY <1>7 DEF IInv, FlagsHaveOwners, Running
    <2>. QED
      BY <1>1, <2>1, <2>2, StartCheckoutTasks DEF FlagsHaveOwners, Running
  <1>9. beside' \subseteq Tasks
    BY DEF StartCheckout, Beside, Running
  <1>10. TypeOK'
    BY <1>1, <1>4, <1>9, StartCheckoutTasks DEF IInv, TypeOK
  <1>. QED
    BY <1>5, <1>6, <1>8, <1>10, StartCheckoutTasks DEF IInv

\* A command that goes on to another stage.
LEMMA StageKeeps ==
    ASSUME IInv, NEW t \in Tasks, NEW stage \in {"stashed", "rewriting"},
           task[t].pc \in {"writing", "stashed"}, task' = [task EXCEPT ![t].pc = stage],
           UNCHANGED <<gate, screen, failed>>
    PROVE  IInv' /\ Changes(t) /\ task'[t] = [task[t] EXCEPT !.pc = stage]
  <1> DEFINE r == [task[t] EXCEPT !.pc = stage]
  <1>1. task[t] \in Task /\ Placed(task[t]) /\ Dated(task[t], refreshSeq)
    BY DEF IInv, Sound
  <1>2. /\ r \in Task /\ r.kind = task[t].kind /\ r.pc = stage /\ r.repo = task[t].repo
        /\ r.seq = task[t].seq /\ r.read = task[t].read /\ r.got = task[t].got
    BY <1>1 DEF Task
  <1>3. Sound(r, refreshSeq)
    BY <1>1, <1>2 DEF Sound, Placed, Dated
  <1>4. Changes(t) /\ task'[t] = r
    BY <1>3, OneTask DEF IInv
  <1>5. FlagsHaveOwners' /\ GateOK'
    BY <1>2, <1>4, OwnerStays DEF IInv, TypeOK, GateOK, gate, screen
  <1>. QED
    BY <1>4, <1>5, CollectQuietly DEF screen, IInv, TypeOK

\* The end of a command.
LEMMA CommandEnds ==
    ASSUME IInv, NEW t \in Tasks, CallOff(t) \/ Succeed(t) \/ Fail(t)
    PROVE  IInv'
  <1>1. /\ task[t].pc \in {"writing", "stashed", "rewriting"} /\ UNCHANGED screen
        /\ failed' \subseteq {"read", "command"}
        /\ ReadAgain(t) \/ Over(t)
    BY DEF CallOff, Succeed, Fail, IInv, TypeOK
  <1>2. task[t].kind # "project"
    BY <1>1 DEF IInv, Sound, Placed
  <1>3. Changes(t) /\ GateOK' /\ FlagsHaveOwners'
    BY <1>1, <1>2, OverKeeps, ReadAgainKeeps DEF screen
  <1>. QED
    BY <1>1, <1>3, CollectQuietly DEF screen, IInv, TypeOK

LEMMA AnnounceKeeps ==
    ASSUME IInv, NEW t \in Tasks, Announce(t)
    PROVE  IInv' /\ Changes(t) /\ task'[t] = Reading("watch")
  <1>1. /\ task[t] = NoTask /\ repoPath # None /\ task' = [task EXCEPT ![t] = Reading("watch")]
        /\ UNCHANGED <<gate, screen, failed>>
    BY DEF Announce
  <1>2. Changes(t) /\ task'[t] = Reading("watch")
    BY <1>1, ReadingIsSound, OneTask, Kinds DEF IInv
  <1>3. \A u \in Tasks : task[u].kind # "none" => task'[u] = task[u]
    BY <1>1, <1>2, BlankIsSound DEF Changes
  <1>4. FlagsHaveOwners'
    <2>1. projectLoading => \E u \in Tasks : task'[u].kind = "project" /\ task'[u].repo = repoPath
      BY <1>3 DEF IInv, FlagsHaveOwners, Running
    <2>2. checkingOutBranch => \E u \in Tasks : task'[u].kind = "checkout"
      BY <1>3 DEF IInv, FlagsHaveOwners, Running
    <2>3. remoteOp # "none" => \E u \in Tasks : task'[u].kind \in RemoteOps /\ task'[u].kind = remoteOp
      BY <1>3 DEF IInv, FlagsHaveOwners, Running, RemoteOps
    <2>. QED
      BY <1>1, <2>1, <2>2, <2>3 DEF FlagsHaveOwners, Running, gate, screen
  <1>. QED
    BY <1>1, <1>2, <1>4, CollectQuietly DEF IInv, TypeOK, GateOK, gate, screen

LEMMA StutterKeeps == IInv /\ UNCHANGED vars => IInv'
  BY DEF vars, gate, screen, IInv, TypeOK, ScreenIsOfOneRepo, NothingFromBeforeTheCheckout,
         FlagsHaveOwners, Running

LEMMA Inductive == IInv /\ [Next]_vars => IInv'
  <1>. SUFFICES ASSUME IInv, Next PROVE IInv'
    BY StutterKeeps
  <1>. PICK t \in Tasks :
         \/ \E s \in Slices : Answer(t, s) \/ Land(t, s) \/ Lose(t, s)
         \/ \E p \in Repos \cup {None} : ShowProject(t, p)
         \/ LearnKind(t)
         \/ \E kind \in Commands : Start(t, kind)
         \/ "checkout" \in Commands /\ StartCheckout(t)
         \/ StashFirst(t) \/ CallOff(t) \/ Rewrite(t) \/ Succeed(t) \/ Fail(t)
         \/ Announce(t)
    BY DEF Next
  <1>1. ASSUME NEW s \in Slices, Answer(t, s) \/ Land(t, s) \/ Lose(t, s) PROVE IInv'
    BY <1>1, AnswerKeeps, LandKeeps, LoseKeeps
  <1>2. ASSUME NEW p \in Repos \cup {None}, ShowProject(t, p) PROVE IInv'
    BY <1>2, ShowProjectKeeps
  <1>3. ASSUME NEW kind \in Commands, Start(t, kind) PROVE IInv'
    BY <1>3, StartKeeps
  <1>4. CASE StashFirst(t)
    BY <1>4, StageKeeps DEF StashFirst
  <1>5. CASE Rewrite(t)
    BY <1>5, StageKeeps DEF Rewrite
  <1>. QED
    BY <1>1, <1>2, <1>3, <1>4, <1>5, LearnKindKeeps, StartCheckoutKeeps, CommandEnds, AnnounceKeeps

LEMMA Invariant == Spec => []IInv
  BY InitIInv, Inductive, PTL DEF Spec

(* The store keeps its shape, however many operations overlap in it.         *)
THEOREM TypeCorrect == Spec => []TypeOK
  <1>1. IInv => TypeOK
    BY DEF IInv
  <1>. QED
    BY <1>1, Invariant, PTL

(* No answer about a project that was left is ever shown as that of the one  *)
(* on screen (isCurrent, repoStore.ts:146-148).                              *)
THEOREM OneRepoOnScreen == Spec => []ScreenIsOfOneRepo
  <1>1. IInv => ScreenIsOfOneRepo
    BY DEF IInv
  <1>. QED
    BY <1>1, Invariant, PTL

(* No working tree read before a checkout began is shown after it, through   *)
(* however many projects and checkouts (repoStore.ts:232-300).               *)
THEOREM NoOldTree == Spec => []NothingFromBeforeTheCheckout
  <1>1. IInv => NothingFromBeforeTheCheckout
    BY DEF IInv
  <1>. QED
    BY <1>1, Invariant, PTL

(* No skeleton, spinner or lock is left up by operations that end in any     *)
(* order (the finally of each).                                              *)
THEOREM FlagsAreOwned == Spec => []FlagsHaveOwners
  <1>1. IInv => FlagsHaveOwners
    BY DEF IInv
  <1>. QED
    BY <1>1, Invariant, PTL

-----------------------------------------------------------------------------
(***************************************************************************)
(* The watcher and a checkout that is the only one under way.              *)
(***************************************************************************)

\* A step that changes one operation, and makes no checkout of it and no
\* refresh of the watcher's, keeps the one checkout there is.
LEMMA OneCheckoutKept ==
    ASSUME IInv, OneCheckout, NEW t \in Tasks, Changes(t), UNCHANGED generation,
           task'[t].kind \in {"checkout", "watch"} =>
               task'[t].kind = task[t].kind
               /\ (task'[t].kind = "watch" => task'[t].seq = task[t].seq),
           task'[t].kind = "watch" =>
               \A s \in Slices : task'[t].got[s].half = "alone" =>
                   task[t].got[s].half = "alone" \/ task[t].seq < refreshSeq,
           Alone' # {} => checkingOutBranch'
    PROVE  OneCheckout'
  <1>1. \A u \in Tasks : task'[u].kind \in {"checkout", "watch"} =>
            /\ task'[u].kind = task[u].kind
            /\ task'[u].kind = "watch" => task'[u].seq = task[u].seq
    BY DEF Changes
  <1>2. \A c \in Alone', d \in Running({"checkout"})' : c = d
    BY <1>1 DEF OneCheckout, Alone, Running
  <1>3. \A c \in Alone', w \in Running({"watch"})' : task'[w].seq < refreshSeq'
    BY <1>1 DEF OneCheckout, Alone, Running
  <1>4. \A w \in Running({"watch"})', s \in Slices : task'[w].got[s].half = "alone" => task'[w].seq < refreshSeq'
    BY <1>1 DEF OneCheckout, Alone, Running, Changes
  <1>. QED
    BY <1>2, <1>3, <1>4 DEF OneCheckout

\* The end of the checkout takes its flag down.
LEMMA OverKeepsOne ==
    ASSUME IInv, OneCheckout, NEW t \in Tasks, Over(t), UNCHANGED <<repoPath, generation>>
    PROVE  OneCheckout'
  <1>1. Changes(t) /\ task'[t] = NoTask /\ task'[t].kind = "none"
    BY OverKeeps, BlankIsSound
  <1>2. Alone' # {} => checkingOutBranch'
    <2>. SUFFICES ASSUME NEW u \in Tasks, task'[u].kind = "checkout", u \notin beside
                  PROVE  checkingOutBranch'
      BY DEF Alone, Running
    <2>1. u # t /\ task[u].kind = "checkout"
      BY <1>1 DEF Changes
    <2>2. task[t].kind # "checkout" /\ checkingOutBranch
      BY <2>1 DEF OneCheckout, Alone, Running
    <2>. QED
      BY <2>2 DEF Over
  <1>. QED
    BY <1>1, <1>2, OneCheckoutKept

LEMMA ReadAgainKeepsOne ==
    ASSUME IInv, OneCheckout, NEW t \in Tasks, ReadAgain(t), UNCHANGED <<repoPath, generation>>,
           task[t].pc # "idle", task[t].kind = "project" => task[t].repo = repoPath,
           task[t].kind # "watch"
    PROVE  OneCheckout'
  <1>1. CASE Over(t)
    BY <1>1, OverKeepsOne
  <1>2. CASE repoPath # None /\ task' = [task EXCEPT ![t] = Reading(task[t].kind)] /\ UNCHANGED gate
    <2>1. task[t].kind \in DOMAIN Refreshed
      BY DEF IInv, Sound, Placed
    <2>2. Changes(t) /\ task'[t].kind = task[t].kind
      <3>1. TypeOK /\ Sound(Reading(task[t].kind), refreshSeq) /\ Reading(task[t].kind).kind = task[t].kind
        BY <1>2, <2>1, ReadingIsSound DEF IInv
      <3>. QED
        BY <1>2, <3>1, OneTask
    <2>3. Alone' # {} => checkingOutBranch'
      BY <1>2, <2>2 DEF OneCheckout, Alone, Running, Changes, gate
    <2>. QED
      BY <2>2, <2>3, OneCheckoutKept
  <1>. QED
    BY <1>1, <1>2 DEF ReadAgain

LEMMA AnswerKeepsOne ==
    ASSUME IInv, OneCheckout, NEW t \in Tasks, NEW s \in Slices, Answer(t, s)
    PROVE  OneCheckout'
  <1>1. /\ Changes(t) /\ task'[t].kind = task[t].kind /\ task'[t].seq = task[t].seq
        /\ \A x \in Slices : task'[t].got[x].half = "alone" => task[t].got[x].half = "alone" \/ Alone # {}
    BY AnswerKeeps
  <1>2. UNCHANGED <<gate, screen>>
    BY DEF Answer
  <1>3. task[t].kind = "watch" /\ Alone # {} => task[t].seq < refreshSeq
    BY DEF OneCheckout, Alone, Running
  <1>4. Alone' # {} => checkingOutBranch'
    BY <1>1, <1>2 DEF OneCheckout, Alone, Running, Changes, gate, screen
  <1>. QED
    BY <1>1, <1>2, <1>3, <1>4, OneCheckoutKept DEF screen

LEMMA ReadDoneKeepsOne ==
    ASSUME IInv, OneCheckout, NEW t \in Tasks, NEW s \in Slices, ReadDone(t, s), task[t].pc = "reading",
           UNCHANGED <<repoPath, generation>>
    PROVE  OneCheckout'
  <1> DEFINE read == [task[t].read EXCEPT ![s] = "done"]
  <1>1. CASE Over(t)
    BY <1>1, OverKeepsOne
  <1>2. CASE task' = [task EXCEPT ![t].read = read] /\ UNCHANGED gate
    <2>1. Changes(t)
      BY ReadDoneKeeps
    <2>2. task[t] \in Task /\ task'[t] = [task[t] EXCEPT !.read = read]
      BY <1>2 DEF IInv, TypeOK
    <2>3. task'[t].kind = task[t].kind /\ task'[t].seq = task[t].seq /\ task'[t].got = task[t].got
      BY <2>2 DEF Task
    <2>4. Alone' # {} => checkingOutBranch'
      BY <1>2, <2>1, <2>3 DEF OneCheckout, Alone, Running, Changes, gate
    <2>. QED
      BY <2>1, <2>3, <2>4, OneCheckoutKept
  <1>. QED
    BY <1>1, <1>2 DEF ReadDone

LEMMA LearnKindKeepsOne ==
    ASSUME IInv, OneCheckout, NEW t \in Tasks, LearnKind(t)
    PROVE  OneCheckout'
  <1>1. task[t].pc = "asking" /\ UNCHANGED <<repoPath, generation>>
    BY DEF LearnKind
  <1>2. task[t].kind = "project"
    BY <1>1 DEF IInv, Sound, Placed
  <1>3. CASE task[t].repo # repoPath
    <2>1. task' = [task EXCEPT ![t] = NoTask] /\ UNCHANGED gate
      BY <1>3 DEF LearnKind
    <2>2. TypeOK /\ refreshSeq \in Nat
      BY RepoScreenAssumption DEF IInv, TypeOK
    <2>3. Changes(t) /\ task'[t].kind = "none"
      <3>1. Sound(NoTask, refreshSeq) /\ NoTask.kind = "none"
        BY <2>2, NoTaskIsSound, BlankIsSound
      <3>. QED
        BY <2>1, <2>2, <3>1, OneTask
    <2>4. Alone' # {} => checkingOutBranch'
      BY <1>1, <2>1, <2>3 DEF OneCheckout, Alone, Running, Changes, gate
    <2>. QED
      BY <1>1, <2>3, <2>4, OneCheckoutKept
  <1>4. CASE task[t].repo = repoPath
    BY <1>1, <1>2, <1>4, OverKeepsOne, ReadAgainKeepsOne DEF LearnKind
  <1>. QED
    BY <1>3, <1>4

LEMMA StartCheckoutKeepsOne ==
    ASSUME IInv, OneCheckout, NEW t \in Tasks, StartCheckout(t)
    PROVE  OneCheckout'
  <1>1. checkingOutBranch' = TRUE /\ refreshSeq' = refreshSeq + 1 /\ repoPath # None
    BY DEF StartCheckout
  <1>2. \A u \in Tasks \ {t} : /\ task'[u].kind = task[u].kind /\ task'[u].seq = task[u].seq
                               /\ task[u].seq <= refreshSeq /\ task[u].seq \in Nat
    <2>. SUFFICES ASSUME NEW u \in Tasks \ {t}
                  PROVE  /\ task'[u].kind = task[u].kind /\ task'[u].seq = task[u].seq
                         /\ task[u].seq <= refreshSeq /\ task[u].seq \in Nat
      OBVIOUS
    <2>1. Sound(task[u], refreshSeq) /\ refreshSeq \in 0 .. MaxSeq
      BY DEF IInv, TypeOK
    <2>2. task'[u] = Marked(task[u])
      BY StartCheckoutTasks
    <2>3. Marked(task[u]).kind = task[u].kind /\ Marked(task[u]).seq = task[u].seq
      BY <1>1, <2>1, MarkedIsSound
    <2>4. task[u].seq <= refreshSeq /\ task[u].seq \in Nat
      BY <2>1, RepoScreenAssumption DEF Sound, Dated, Task
    <2>. QED
      BY <2>2, <2>3, <2>4
  <1>3. \A c \in Alone', d \in Running({"checkout"})' : c = d
    <2>1. \A u \in Tasks : task'[u].kind = "checkout" => u = t \/ u \in Running({"checkout"})
      BY <1>2 DEF Running
    <2>2. CASE Running({"checkout"}) = {}
      BY <2>1, <2>2 DEF Alone, Running
    <2>3. CASE Running({"checkout"}) # {}
      <3>1. beside' = Running({"checkout"}) \cup {t}
        BY <2>3 DEF StartCheckout, Beside
      <3>. QED
        BY <2>1, <3>1 DEF Alone, Running
    <2>. QED
      BY <2>2, <2>3
  <1>4. \A u \in Tasks : task'[u].kind = "watch" => task'[u].seq < refreshSeq'
    <2>1. refreshSeq \in Nat
      BY RepoScreenAssumption DEF IInv, TypeOK
    <2>. QED
      BY <1>1, <1>2, <2>1, StartCheckoutTasks
  <1>. QED
    BY <1>1, <1>3, <1>4 DEF OneCheckout, Alone, Running

LEMMA AnnounceKeepsOne ==
    ASSUME IInv, OneCheckout, NEW t \in Tasks, Announce(t)
    PROVE  OneCheckout'
  <1>1. Alone = {} /\ UNCHANGED <<gate, screen>> /\ repoPath # None
    BY DEF Announce, WatcherMayRefresh, OneCheckout
  <1>2. Changes(t) /\ task'[t].kind = "watch" /\ task'[t].got = Blank
    BY <1>1, AnnounceKeeps, ReadingIsSound, Kinds DEF IInv
  <1>3. \A u \in Tasks : task'[u].kind = "checkout" => u \in beside'
    BY <1>1, <1>2 DEF Alone, Running, Changes, screen
  <1>4. \A u \in Tasks, s \in Slices : task'[u].kind = "watch" /\ task'[u].got[s].half = "alone" =>
            task'[u].seq < refreshSeq
    BY <1>2, BlankIsSound DEF OneCheckout, Running, Changes
  <1>. QED
    BY <1>1, <1>3, <1>4 DEF OneCheckout, Alone, Running, screen

\* What the watcher's refreshes show changes only when an answer lands.
LEMMA LandShowsNoHalf ==
    ASSUME IInv, OneCheckout, OnlyOverlapsShowHalf, NEW t \in Tasks, NEW s \in Slices, Land(t, s)
    PROVE  OnlyOverlapsShowHalf'
  <1>1. Sound(task[t], refreshSeq) /\ task[t].read[s] = "answered"
    BY DEF Land, IInv
  <1>2. CASE IsCurrent(t)
    <2>1. shown' = [shown EXCEPT ![s] = task[t].got[s]] /\ task[t].seq = refreshSeq
      BY <1>2 DEF Land, IsCurrent
    <2>2. task[t].got[s].by = task[t].kind
      BY <1>1 DEF Sound, Dated
    <2>3. ~(task[t].got[s].by = "watch" /\ task[t].got[s].half = "alone")
      BY <2>1, <2>2 DEF OneCheckout, Running, IInv, TypeOK
    <2>. QED
      BY <2>1, <2>3 DEF OnlyOverlapsShowHalf, IInv, TypeOK
  <1>3. CASE ~IsCurrent(t)
    BY <1>3 DEF Land, OnlyOverlapsShowHalf
  <1>. QED
    BY <1>2, <1>3

LEMMA OthersShowNoHalf ==
    ASSUME IInv, OnlyOverlapsShowHalf,
           \/ UNCHANGED shown \/ shown' = Blank
           \/ repoPath # None
              /\ shown' = [s \in Slices |-> IF s = "status" THEN Nothing ELSE Left(shown[s])]
    PROVE  OnlyOverlapsShowHalf'
  <1>1. \A s \in Slices : shown[s] \in Readings
    BY DEF IInv, TypeOK
  <1>. QED
    BY <1>1, LeftReading, BlankIsSound DEF OnlyOverlapsShowHalf, Nothing, Blank

LEMMA InductiveForWatcher == WInv /\ [Next]_vars => WInv'
  <1>. SUFFICES ASSUME WInv, [Next]_vars PROVE OneCheckout' /\ OnlyOverlapsShowHalf'
    BY Inductive DEF WInv
  <1>. IInv /\ OneCheckout /\ OnlyOverlapsShowHalf
    BY DEF WInv
  <1>1. CASE UNCHANGED vars
    BY <1>1 DEF vars, gate, screen, OneCheckout, Alone, Running, OnlyOverlapsShowHalf
  <1>2. ASSUME NEW t \in Tasks, NEW s \in Slices, Answer(t, s) \/ Lose(t, s) \/ Land(t, s)
        PROVE  OneCheckout' /\ OnlyOverlapsShowHalf'
    <2>1. CASE Answer(t, s)
      BY <2>1, AnswerKeepsOne, OthersShowNoHalf DEF Answer, screen
    <2>2. CASE Lose(t, s)
      <3>1. task[t].pc = "reading"
        BY <2>2 DEF Lose, IInv, Sound, Placed
      <3>. QED
        BY <2>2, <3>1, ReadDoneKeepsOne, OthersShowNoHalf DEF Lose, screen
    <2>3. CASE Land(t, s)
      <3>1. task[t].pc = "reading"
        BY <2>3 DEF Land, IInv, Sound, Placed
      <3>. QED
        BY <2>3, <3>1, ReadDoneKeepsOne, LandShowsNoHalf DEF Land
    <2>. QED
      BY <1>2, <2>1, <2>2, <2>3
  <1>3. ASSUME NEW t \in Tasks, NEW p \in Repos \cup {None}, ShowProject(t, p)
        PROVE  OneCheckout' /\ OnlyOverlapsShowHalf'
    <2>1. Changes(t) /\ task'[t].kind \in {"project", "none"}
      BY <1>3, ShowProjectKeeps
    <2>2. UNCHANGED <<generation, checkingOutBranch>> /\ shown' = Blank
      BY <1>3 DEF ShowProject
    <2>3. Alone' # {} => checkingOutBranch'
      BY <2>1, <2>2 DEF OneCheckout, Alone, Running, Changes
    <2>. QED
      BY <2>1, <2>2, <2>3, OneCheckoutKept, OthersShowNoHalf
  <1>4. ASSUME NEW t \in Tasks, NEW kind \in Commands, Start(t, kind)
        PROVE  OneCheckout' /\ OnlyOverlapsShowHalf'
    <2>1. Changes(t) /\ task'[t].kind = kind /\ kind \notin {"watch", "checkout"}
      BY <1>4, StartKeeps, RepoScreenAssumption DEF Start
    <2>2. UNCHANGED <<generation, checkingOutBranch, shown>>
      BY <1>4 DEF Start, screen
    <2>3. Alone' # {} => checkingOutBranch'
      BY <2>1, <2>2 DEF OneCheckout, Alone, Running, Changes
    <2>. QED
      BY <2>1, <2>2, <2>3, OneCheckoutKept, OthersShowNoHalf
  <1>5. ASSUME NEW t \in Tasks, LearnKind(t) \/ StartCheckout(t) \/ Announce(t)
        PROVE  OneCheckout' /\ OnlyOverlapsShowHalf'
    BY <1>5, LearnKindKeepsOne, StartCheckoutKeepsOne, AnnounceKeepsOne, OthersShowNoHalf
    DEF LearnKind, StartCheckout, Announce, screen
  <1>6. ASSUME NEW t \in Tasks, CallOff(t) \/ Succeed(t) \/ Fail(t)
        PROVE  OneCheckout' /\ OnlyOverlapsShowHalf'
    <2>1. /\ task[t].pc \in {"writing", "stashed", "rewriting"} /\ UNCHANGED screen
          /\ ReadAgain(t) \/ Over(t)
      BY <1>6 DEF CallOff, Succeed, Fail
    <2>2. Placed(task[t])
      BY DEF IInv, Sound
    <2>3. task[t].pc # "idle" /\ task[t].kind # "project" /\ task[t].kind # "watch"
      BY <2>1, <2>2 DEF Placed
    <2>4. OneCheckout'
      BY <2>1, <2>3, OverKeepsOne, ReadAgainKeepsOne DEF screen
    <2>. QED
      BY <2>1, <2>4, OthersShowNoHalf DEF screen
  <1>7. ASSUME NEW t \in Tasks, StashFirst(t) \/ Rewrite(t)
        PROVE  OneCheckout' /\ OnlyOverlapsShowHalf'
    <2>1. PICK stage \in {"stashed", "rewriting"} :
            /\ task[t].pc \in {"writing", "stashed"} /\ task' = [task EXCEPT ![t].pc = stage]
            /\ UNCHANGED <<gate, screen, failed>>
      BY <1>7 DEF StashFirst, Rewrite
    <2>2. task[t] \in Task /\ Changes(t) /\ task'[t] = [task[t] EXCEPT !.pc = stage]
      BY <2>1, StageKeeps DEF IInv, TypeOK
    <2>3. task'[t].kind = task[t].kind /\ task'[t].seq = task[t].seq /\ task'[t].got = task[t].got
      BY <2>2 DEF Task
    <2>4. Alone' # {} => checkingOutBranch'
      BY <2>1, <2>2, <2>3 DEF OneCheckout, Alone, Running, Changes, gate, screen
    <2>. QED
      BY <2>1, <2>2, <2>3, <2>4, OneCheckoutKept, OthersShowNoHalf DEF screen
  <1>. QED
    BY <1>1, <1>2, <1>3, <1>4, <1>5, <1>6, <1>7 DEF Next

(* No refresh of the watcher's shows a tree half-way through a checkout that *)
(* is the only one under way, wherever it was started from                   *)
(* (repoRefreshGate.ts, and isCurrent for a refresh asked for before).       *)
THEOREM LoneCheckoutIsHidden == Spec => []OnlyOverlapsShowHalf
  <1>1. Init => WInv
    <2>. SUFFICES ASSUME Init PROVE WInv
      OBVIOUS
    <2>1. OneCheckout
      BY BlankIsSound DEF Init, OneCheckout, Alone, Running
    <2>2. OnlyOverlapsShowHalf
      BY BlankIsSound DEF Init, OnlyOverlapsShowHalf
    <2>. QED
      BY <2>1, <2>2, InitIInv DEF WInv
  <1>2. WInv /\ [Next]_vars => WInv'
    BY InductiveForWatcher
  <1>3. WInv => OnlyOverlapsShowHalf
    BY DEF WInv
  <1>. QED
    BY <1>1, <1>2, <1>3, PTL DEF Spec

-----------------------------------------------------------------------------
(***************************************************************************)
(* What is blank is being read.                                            *)
(***************************************************************************)

\* An operation that ends by reading the working tree anew for the screen as it
\* is: one that has still to ask, a checkout before its reads, or a reading of
\* this generation that has not had its answer.
Fills(t) ==
    \/ task[t].pc = "asking" /\ task[t].repo = repoPath
    \/ task[t].kind = "checkout" /\ task[t].pc \in {"writing", "stashed", "rewriting"}
    \/ /\ task[t].kind \in {"project", "checkout"} /\ task[t].pc = "reading" /\ IsCurrent(t)
       /\ task[t].read["status"] # "done"

Awaited == Blanked /\ failed = {} => \E t \in Tasks : Fills(t)

\* A step that blanks nothing, and takes no operation that fills, keeps it.
LEMMA StillAwaited ==
    ASSUME IInv, Awaited, NEW t \in Tasks, Changes(t), UNCHANGED <<repoPath, generation>>,
           Blanked' /\ failed' = {} => (Blanked /\ failed = {}) \/ Fills(t)',
           Blanked' /\ failed' = {} /\ Fills(t) => Fills(t)'
    PROVE  Awaited'
  <1>. SUFFICES ASSUME Blanked', failed' = {} PROVE \E u \in Tasks : Fills(u)'
    BY DEF Awaited
  <1>1. CASE Fills(t)'
    BY <1>1
  <1>2. CASE ~Fills(t)'
    <2>1. PICK u \in Tasks : Fills(u)
      BY <1>2 DEF Awaited
    <2>2. u # t /\ task'[u] = task[u]
      BY <1>2, <2>1 DEF Changes
    <2>3. Fills(u)'
      BY <2>1, <2>2 DEF Fills, IsCurrent
    <2>. QED
      BY <2>3
  <1>. QED
    BY <1>1, <1>2

\* A project or a checkout that reads again reads the working tree.
LEMMA ReadAgainFills ==
    ASSUME IInv, NEW t \in Tasks, ReadAgain(t), UNCHANGED <<repoPath, generation>>, repoPath # None,
           task[t].kind \in {"project", "checkout"}
    PROVE  Fills(t)'
  <1>1. /\ "status" \in Refreshed[task[t].kind] \cap Slices /\ task[t].kind \in DOMAIN Refreshed
        /\ Refreshed[task[t].kind] = AllSlices
    BY RepoScreenAssumption DEF Refreshed, AllSlices
  <1>2. task' = [task EXCEPT ![t] = Reading(task[t].kind)]
    BY <1>1 DEF ReadAgain
  <1>3. task'[t] = Reading(task[t].kind)
    BY <1>2 DEF IInv, TypeOK
  <1>4. /\ Reading(task[t].kind).kind = task[t].kind /\ Reading(task[t].kind).repo = repoPath
        /\ Reading(task[t].kind).seq = refreshSeq /\ Reading(task[t].kind).pc = "reading"
    BY <1>1, ReadingIsSound DEF IInv
  <1>5. Reading(task[t].kind).read["status"] = "asked"
    BY <1>1, BlankIsSound DEF Reading, Task
  <1>. QED
    BY <1>3, <1>4, <1>5 DEF Fills, IsCurrent

\* A reading goes on until the working tree has come.
LEMMA ReadDoneFills ==
    ASSUME IInv, NEW t \in Tasks, NEW s \in Slices, ReadDone(t, s), Fills(t), s # "status",
           task[t].pc = "reading", UNCHANGED <<repoPath, generation>>
    PROVE  Fills(t)'
  <1> DEFINE read == [task[t].read EXCEPT ![s] = "done"]
  <1>1. task[t] \in Task /\ Placed(task[t])
    BY DEF IInv, Sound
  <1>2. /\ task[t].kind \in {"project", "checkout"} /\ IsCurrent(t) /\ task[t].read["status"] # "done"
    BY DEF Fills
  <1>3. "status" \in Slices /\ read["status"] = task[t].read["status"]
    BY <1>1, RepoScreenAssumption DEF Task
  <1>4. task' = [task EXCEPT ![t].read = read]
    BY <1>2, <1>3 DEF ReadDone
  <1>5. task'[t] = [task[t] EXCEPT !.read = read]
    BY <1>4 DEF IInv, TypeOK
  <1> HIDE DEF read
  <1>6. /\ task'[t].kind = task[t].kind /\ task'[t].pc = task[t].pc /\ task'[t].repo = task[t].repo
        /\ task'[t].seq = task[t].seq /\ task'[t].read = read
    BY <1>1, <1>5 DEF Task
  <1>. QED
    BY <1>2, <1>3, <1>6 DEF Fills, IsCurrent

LEMMA LandAwaited ==
    ASSUME IInv, Awaited, NEW t \in Tasks, NEW s \in Slices, Land(t, s)
    PROVE  Awaited'
  <1>1. /\ task[t].read[s] = "answered" /\ ReadDone(t, s)
        /\ UNCHANGED <<repoPath, generation, isGitRepo, failed>>
    BY DEF Land
  <1>2. Sound(task[t], refreshSeq) /\ task[t].pc = "reading" /\ "status" \in Slices
    BY <1>1, RepoScreenAssumption DEF IInv, Sound, Placed
  <1>3. Changes(t)
    BY <1>1, <1>2, ReadDoneKeeps
  <1>4. task[t].got[s].repo = task[t].repo /\ task[t].repo \in Repos
    BY <1>1, <1>2 DEF Sound, Placed, Dated
  <1>5. shown \in [Slices -> Readings]
    BY DEF IInv, TypeOK
  <1>6. Blanked' => Blanked /\ ~(s = "status" /\ IsCurrent(t))
    <2>1. Nothing.repo = None /\ None \notin Repos
      BY RepoScreenAssumption DEF Nothing
    <2>2. CASE s = "status" /\ IsCurrent(t)
      <3>1. shown'["status"] = task[t].got[s]
        BY <1>2, <1>5, <2>2 DEF Land
      <3>. QED
        BY <1>4, <2>1, <3>1 DEF Blanked
    <2>3. CASE ~(s = "status" /\ IsCurrent(t))
      <3>1. shown'["status"] = shown["status"]
        BY <1>2, <1>5, <2>3 DEF Land
      <3>. QED
        BY <1>1, <2>3, <3>1 DEF Blanked
    <2>. QED
      BY <2>2, <2>3
  <1>7. Blanked' /\ Fills(t) => Fills(t)'
    <2>1. Fills(t) => IsCurrent(t)
      BY <1>2 DEF IInv, Sound, Placed, Fills
    <2>. QED
      BY <1>1, <1>2, <1>6, <2>1, ReadDoneFills
  <1>. QED
    BY <1>1, <1>3, <1>6, <1>7, StillAwaited

LEMMA AnswerAwaited ==
    ASSUME IInv, Awaited, NEW t \in Tasks, NEW s \in Slices, Answer(t, s)
    PROVE  Awaited'
  <1>1. Changes(t) /\ task'[t].kind = task[t].kind /\ task'[t].seq = task[t].seq
    BY AnswerKeeps
  <1>2. task[t] \in Task /\ UNCHANGED <<screen, failed>>
    BY DEF Answer, IInv, TypeOK
  <1>3. /\ task'[t].pc = task[t].pc /\ task'[t].repo = task[t].repo
        /\ \A x \in Slices : task'[t].read[x] = IF x = s THEN "answered" ELSE task[t].read[x]
    BY <1>2 DEF Answer, Task, IInv, TypeOK
  <1>4. Fills(t) => Fills(t)'
    BY <1>1, <1>2, <1>3, RepoScreenAssumption DEF Fills, IsCurrent, screen
  <1>. QED
    BY <1>1, <1>2, <1>4, StillAwaited DEF Blanked, screen

LEMMA ShowProjectAwaited ==
    ASSUME IInv, Awaited, NEW t \in Tasks, NEW p \in Repos \cup {None}, ShowProject(t, p)
    PROVE  Awaited'
  <1> DEFINE r == [NoTask EXCEPT !.kind = "project", !.pc = "asking", !.repo = p]
  <1>1. CASE p = None
    BY <1>1 DEF ShowProject, Awaited, Blanked
  <1>2. CASE p # None
    <2>1. task' = [task EXCEPT ![t] = r] /\ repoPath' = p
      BY <1>2 DEF ShowProject
    <2>2. r.pc = "asking" /\ r.repo = p
      BY BlankIsSound DEF Task
    <2>3. task'[t] = r
      BY <2>1 DEF IInv, TypeOK
    <2>. QED
      BY <2>1, <2>2, <2>3 DEF Awaited, Fills
  <1>. QED
    BY <1>1, <1>2

LEMMA LearnKindAwaited ==
    ASSUME IInv, Awaited, NEW t \in Tasks, LearnKind(t)
    PROVE  Awaited'
  <1>1. task[t].pc = "asking" /\ UNCHANGED <<repoPath, generation, shown, failed>>
    BY DEF LearnKind
  <1>2. task[t].kind = "project" /\ task[t].repo \in Repos
    BY <1>1 DEF IInv, Sound, Placed
  <1>3. CASE task[t].repo # repoPath
    <2>1. task' = [task EXCEPT ![t] = NoTask] /\ UNCHANGED <<gate, isGitRepo>>
      BY <1>3 DEF LearnKind
    <2>2. Changes(t)
      <3>1. TypeOK /\ refreshSeq \in Nat
        BY RepoScreenAssumption DEF IInv, TypeOK
      <3>. QED
        BY <2>1, <3>1, OneTask, NoTaskIsSound
    <2>3. ~Fills(t)
      BY <1>1, <1>2, <1>3 DEF Fills
    <2>. QED
      BY <1>1, <2>1, <2>2, <2>3, StillAwaited DEF Blanked
  <1>4. CASE task[t].repo = repoPath
    <2>1. repoPath # None
      BY <1>2, <1>4, RepoScreenAssumption
    <2>2. (isGitRepo' = "no" /\ Over(t)) \/ ReadAgain(t)
      BY <1>4 DEF LearnKind
    <2>3. CASE isGitRepo' = "no"
      BY <2>3 DEF Awaited, Blanked
    <2>4. CASE ReadAgain(t)
      BY <1>1, <1>2, <2>1, <2>4, ReadAgainFills DEF Awaited
    <2>. QED
      BY <2>2, <2>3, <2>4
  <1>. QED
    BY <1>3, <1>4

LEMMA StartAwaited ==
    ASSUME IInv, Awaited, NEW t \in Tasks,
           (\E kind \in Commands : Start(t, kind)) \/ Announce(t)
    PROVE  Awaited'
  <1>1. task[t] = NoTask /\ UNCHANGED <<screen, failed>> /\ Changes(t)
    BY StartKeeps, AnnounceKeeps DEF Start, Announce
  <1>2. ~Fills(t)
    BY <1>1, BlankIsSound DEF Fills
  <1>. QED
    BY <1>1, <1>2, StillAwaited DEF Blanked, screen

LEMMA StartCheckoutAwaited ==
    ASSUME IInv, NEW t \in Tasks, StartCheckout(t)
    PROVE  Awaited'
  <1>1. task'[t] = Command("checkout")
    BY DEF StartCheckout
  <1>2. Command("checkout").kind = "checkout" /\ Command("checkout").pc = "writing"
    BY BlankIsSound DEF Command, Task
  <1>. QED
    BY <1>1, <1>2 DEF Awaited, Fills

LEMMA StageAwaited ==
    ASSUME IInv, Awaited, NEW t \in Tasks, StashFirst(t) \/ Rewrite(t)
    PROVE  Awaited'
  <1>1. PICK stage \in {"stashed", "rewriting"} :
          /\ task[t].pc \in {"writing", "stashed"} /\ task' = [task EXCEPT ![t].pc = stage]
          /\ UNCHANGED <<gate, screen, failed>>
    BY DEF StashFirst, Rewrite
  <1>2. task[t] \in Task /\ Changes(t) /\ task'[t] = [task[t] EXCEPT !.pc = stage]
    BY <1>1, StageKeeps DEF IInv, TypeOK
  <1>3. task'[t].kind = task[t].kind /\ task'[t].pc = stage
    BY <1>2 DEF Task
  <1>4. Fills(t) => Fills(t)'
    BY <1>1, <1>3 DEF Fills
  <1>. QED
    BY <1>1, <1>2, <1>4, StillAwaited DEF Blanked, screen

\* A command that is called off or succeeds; one that fails is out of the question.
LEMMA EndAwaited ==
    ASSUME IInv, Awaited, NEW t \in Tasks, CallOff(t) \/ Succeed(t)
    PROVE  Awaited'
  <1>1. /\ task[t].pc \in {"writing", "rewriting"} /\ ReadAgain(t)
        /\ UNCHANGED <<screen, failed>>
    BY DEF CallOff, Succeed
  <1>2. task[t].kind # "project" /\ Placed(task[t])
    BY <1>1 DEF IInv, Sound, Placed
  <1>3. CASE task[t].kind = "checkout" /\ repoPath # None
    BY <1>1, <1>3, ReadAgainFills DEF Awaited, screen
  <1>4. CASE repoPath = None
    BY <1>1, <1>4 DEF Awaited, Blanked, screen
  <1>5. CASE task[t].kind # "checkout"
    <2>1. ~Fills(t)
      BY <1>1, <1>2, <1>5 DEF Fills
    <2>2. Changes(t)
      BY <1>1, <1>2, ReadAgainKeeps DEF screen
    <2>. QED
      BY <1>1, <2>1, <2>2, StillAwaited DEF Blanked, screen
  <1>. QED
    BY <1>3, <1>4, <1>5

LEMMA InductiveForBlank == IInv /\ Awaited /\ [Next]_vars => Awaited'
  <1>. SUFFICES ASSUME IInv, Awaited, [Next]_vars PROVE Awaited'
    OBVIOUS
  <1>1. CASE UNCHANGED vars
    BY <1>1 DEF vars, gate, screen, Awaited, Blanked, Fills, IsCurrent
  <1>2. ASSUME NEW t \in Tasks, NEW s \in Slices, Lose(t, s)
        PROVE  Awaited'
    BY <1>2 DEF Lose, Awaited
  <1>3. ASSUME NEW t \in Tasks, Fail(t)
        PROVE  Awaited'
    BY <1>3 DEF Fail, Awaited
  <1>. QED
    BY <1>1, <1>2, <1>3, LandAwaited, AnswerAwaited, ShowProjectAwaited, LearnKindAwaited,
       StartAwaited, StartCheckoutAwaited, StageAwaited, EndAwaited DEF Next

(* Unless something has failed, a blank working tree is never left blank:    *)
(* some operation under way has still to read it, whatever isCurrent drops   *)
(* on the way and however many projects and checkouts cross (setRepoPath,    *)
(* checkoutGuarded and its call-off, repoStore.ts:405-441, 232-300).         *)
THEOREM BlankIsFilled == Spec => []BlankIsBeingFilled
  <1>1. Init => Awaited
    BY DEF Init, Awaited, Blanked
  <1>2. IInv /\ Awaited => BlankIsBeingFilled
    <2>. SUFFICES ASSUME IInv, Awaited, Blanked, failed = {}
                  PROVE  \/ \E t \in Running({"project"}) : task[t].repo = repoPath
                         \/ Running({"checkout"}) # {}
      BY DEF BlankIsBeingFilled
    <2>1. PICK t \in Tasks : Fills(t)
      BY DEF Awaited
    <2>2. Placed(task[t])
      BY DEF IInv, Sound
    <2>. QED
      BY <2>1, <2>2 DEF Fills, IsCurrent, Placed, Running
  <1>. QED
    BY <1>1, <1>2, Invariant, InductiveForBlank, PTL DEF Spec
==============================================================================
