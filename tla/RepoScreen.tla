---------------------------- MODULE RepoScreen ----------------------------
(***************************************************************************)
(* The repository on screen (state/repoStore.ts).  One store holds what    *)
(* the panels show of one repository, in slices that are read by as many   *)
(* commands and answered in any order.  What the user does, what the       *)
(* watcher announces and what other programs write to the folder overlap:  *)
(* a task is one operation of the store that has not ended yet.            *)
(*                                                                         *)
(* Of what was read only its circumstances are kept: which repository, for *)
(* which kind of operation, whether a checkout was half-way through, and   *)
(* whether another has begun since.  Anybody may write to the folder at    *)
(* any time, so the watcher may announce a change at any time.             *)
(*                                                                         *)
(* Left out: busy, error and commitsLoading, which gate nothing here, and  *)
(* what becomes of the work that blocks a checkout (BranchSwitch).         *)
(***************************************************************************)
EXTENDS Naturals

CONSTANTS
    Repos,      \* folders of projects
    Plain,      \* those that are no git repository
    None,       \* no repository, nothing shown
    Tasks,      \* bound: operations under way at once
    Slices,     \* the slices looked at, out of AllSlices
    Commands,   \* the operations looked at, out of DOMAIN Refreshed
    Faulty,     \* whether a command or a read may fail
    MaxSeq      \* bound: checkouts

AllSlices == {"status", "branches", "commits", "unpushed", "stashes", "remotes", "merge"}

\* What each operation reads again when its command is through.
Refreshed ==
    [project  |-> AllSlices, watch |-> AllSlices,
     checkout |-> AllSlices, pull  |-> AllSlices,
     fetch    |-> {"branches"},
     push     |-> {"branches", "unpushed"},
     commit   |-> AllSlices,
     stage    |-> {"status"},
     resolve  |-> {"merge", "status"},
     branch   |-> {"branches"},
     remote   |-> {"remotes"},
     stash    |-> {"stashes"}]

RemoteOps == {"fetch", "pull", "push"}
Rewriting == {"checkout", "pull"}

ASSUME RepoScreenAssumption ==
    /\ Plain \subseteq Repos /\ None \notin Repos
    /\ Slices \subseteq AllSlices /\ "status" \in Slices
    /\ Commands \subseteq DOMAIN Refreshed \ {"project", "watch"}
    /\ Faulty \in BOOLEAN /\ MaxSeq \in Nat

VARIABLES
    repoPath,  \* the repository on screen
    refreshSeq,
    isGitRepo, \* "unknown" until the folder has been asked
    projectLoading,
    checkingOutBranch,
    remoteOp,
    shown,     \* what each slice shows: a reading, or Nothing
    task,      \* the operations under way
    failed,    \* history: what has failed, a read or a command
    beside     \* history: the checkouts that have not been the only one

generation == <<refreshSeq, beside>>
gate   == <<projectLoading, checkingOutBranch, remoteOp>>
screen == <<repoPath, generation, isGitRepo, shown>>
vars   == <<gate, screen, task, failed>>

Nothing == [repo |-> None, by |-> "none", half |-> "no", left |-> FALSE]
Blank   == [s \in Slices |-> Nothing]
NoTask  == [kind |-> "none", pc |-> "idle", repo |-> None, seq |-> 0,
            read |-> [s \in Slices |-> "done"], got |-> Blank]

Running(K) == {t \in Tasks : task[t].kind \in K}

\* The operations that are half-way through rewriting a repository.
Rewriters(r) == {t \in Tasks : task[t].pc = "rewriting" /\ task[t].repo = r}

Init ==
    /\ repoPath = None /\ refreshSeq = 0 /\ isGitRepo = "unknown" /\ shown = Blank
    /\ projectLoading = FALSE /\ checkingOutBranch = FALSE /\ remoteOp = "none"
    /\ task = [t \in Tasks |-> NoTask]
    /\ failed = {} /\ beside = {}

-----------------------------------------------------------------------------
(* An operation ends, or goes on to read again.                             *)

\* The finally clears only what is still of the repository on screen.
OverIfShown(t) ==
    /\ task' = [task EXCEPT ![t] = NoTask]
    /\ projectLoading' = (projectLoading /\ ~(/\ task[t].kind = "project"
                                              /\ task[t].repo = repoPath))
    /\ checkingOutBranch' = (checkingOutBranch /\ ~(/\ task[t].kind = "checkout"
                                                    /\ task[t].repo = repoPath))
    /\ remoteOp' = IF task[t].kind \in RemoteOps THEN "none" ELSE remoteOp

\* The finally of each operation.
Over(t) ==
    /\ task' = [task EXCEPT ![t] = NoTask]
    /\ projectLoading' = (projectLoading /\ ~(/\ task[t].kind = "project"
                                              /\ task[t].repo = repoPath))
    /\ checkingOutBranch' = (checkingOutBranch /\ task[t].kind # "checkout")
    /\ remoteOp' = IF task[t].kind \in RemoteOps THEN "none" ELSE remoteOp

\* Each refresher notes the repository and the generation on screen as it
\* starts, whatever repository its operation wrote to.
Reading(kind) ==
    [NoTask EXCEPT !.kind = kind, !.pc = "reading", !.repo = repoPath, !.seq = refreshSeq,
                   !.read = [s \in Slices |-> IF s \in Refreshed[kind] THEN "asked" ELSE "done"]]

\* With no repository on screen there is nothing to read.
ReadAgain(t) ==
    IF repoPath = None \/ Refreshed[task[t].kind] \cap Slices = {}
    THEN Over(t)
    ELSE task' = [task EXCEPT ![t] = Reading(task[t].kind)] /\ UNCHANGED gate

-----------------------------------------------------------------------------
(* The reads.                                                               *)

\* Only a checkout makes a read stale.
IsCurrentBySeq(t) == task[t].seq = refreshSeq

\* A read that is no longer of what is on screen is dropped.
IsCurrent(t) == task[t].repo = repoPath /\ task[t].seq = refreshSeq

\* Whether a checkout is half-way through a repository, and has had the store
\* to itself so far.
Halfway(r) ==
    LET half == Rewriters(r) \cap Running({"checkout"}) IN
    IF half = {} THEN "no" ELSE IF half \subseteq beside THEN "beside" ELSE "alone"

\* Git reads a slice: at once, or when it is asked once more.
Answer(t, s) ==
    /\ task[t].read[s] = "asked" /\ task[t].repo \notin Plain
    /\ LET r == task[t].repo IN
       task' = [task EXCEPT ![t].read[s] = "answered",
                            ![t].got[s] = [repo |-> r, by |-> task[t].kind, left |-> FALSE,
                                           half |-> Halfway(r)]]
    /\ UNCHANGED <<gate, screen, failed>>

\* The end of one read, and of its operation when it was the last.
ReadDone(t, s) ==
    LET read == [task[t].read EXCEPT ![s] = "done"] IN
    IF \A x \in Slices : read[x] = "done" THEN Over(t)
    ELSE task' = [task EXCEPT ![t].read = read] /\ UNCHANGED gate

\* An answer lands.
Land(t, s) ==
    /\ task[t].read[s] = "answered"
    /\ shown' = IF IsCurrent(t) THEN [shown EXCEPT ![s] = task[t].got[s]] ELSE shown
    /\ ReadDone(t, s)
    /\ UNCHANGED <<repoPath, generation, isGitRepo, failed>>

\* A read fails twice: reported, and the slice stays as it was.
Lose(t, s) ==
    /\ task[t].read[s] = "asked"
    /\ Faulty \/ task[t].repo \in Plain
    /\ ReadDone(t, s)
    /\ failed' = failed \cup {"read"}
    /\ UNCHANGED <<screen>>

-----------------------------------------------------------------------------
(* Showing a project.                                                       *)

\* setRepoPath: the screen is cleared before the folder is asked what it is.
ShowProject(t, p) ==
    /\ task[t] = NoTask /\ p # repoPath
    /\ repoPath' = p /\ isGitRepo' = "unknown" /\ shown' = Blank
    /\ projectLoading' = (p # None)
    /\ task' = IF p = None THEN task
               ELSE [task EXCEPT ![t] = [NoTask EXCEPT !.kind = "project", !.pc = "asking", !.repo = p]]
    /\ UNCHANGED <<generation, checkingOutBranch, remoteOp, failed>>

\* The folder says whether it is a repository; the question may fail, and the
\* project that was asked about may have gone.
LearnKind(t) ==
    /\ task[t].pc = "asking"
    /\ IF task[t].repo # repoPath
       THEN task' = [task EXCEPT ![t] = NoTask] /\ UNCHANGED <<gate, isGitRepo, failed>>
       ELSE \E isGit \in {task[t].repo \notin Plain} \cup (IF Faulty THEN {TRUE} ELSE {}) :
              /\ isGitRepo' = IF isGit THEN "yes" ELSE "no"
              /\ IF isGit THEN ReadAgain(t) ELSE Over(t)
              /\ UNCHANGED failed
    /\ UNCHANGED <<repoPath, generation, shown>>

-----------------------------------------------------------------------------
(* Commands.                                                                *)

Command(kind) == [NoTask EXCEPT !.kind = kind, !.pc = "writing", !.repo = repoPath]

\* Everything but a checkout; one remote operation at a time.
Start(t, kind) ==
    /\ kind # "checkout"
    /\ kind \in RemoteOps => remoteOp = "none"
    /\ task[t] = NoTask /\ repoPath # None
    /\ task' = [task EXCEPT ![t] = Command(kind)]
    /\ remoteOp' = IF kind \in RemoteOps THEN kind ELSE remoteOp
    /\ UNCHANGED <<projectLoading, checkingOutBranch, screen, failed>>

\* What had been read of the repository on screen is of the branch it leaves.
Left(reading) == IF reading.repo = repoPath THEN [reading EXCEPT !.left = TRUE] ELSE reading

\* A checkout beside which another one is under way, up to its last read.
Beside(t) ==
    LET others == Running({"checkout"}) IN
    beside' = IF others = {} THEN {} ELSE others \cup {t}

\* A checkout clears the screen, and leaves the reads under way alone.
StartCheckoutInPlace(t) ==
    /\ task[t] = NoTask /\ repoPath # None
    /\ task' = [u \in Tasks |->
         IF u = t THEN Command("checkout")
         ELSE [task[u] EXCEPT !.got = [s \in Slices |-> Left(task[u].got[s])]]]
    /\ checkingOutBranch' = TRUE
    /\ Beside(t)
    /\ shown' = [s \in Slices |-> IF s = "status" THEN Nothing ELSE Left(shown[s])]
    /\ UNCHANGED <<repoPath, refreshSeq, isGitRepo, projectLoading, remoteOp, failed>>

\* A checkout opens a generation and clears the working tree on screen.  The
\* sidebar keeps its rows disabled meanwhile; the palette and a review's
\* finding do not, and the store does not ask.
StartCheckout(t) ==
    /\ refreshSeq < MaxSeq
    /\ task[t] = NoTask /\ repoPath # None
    /\ task' = [u \in Tasks |->
         IF u = t THEN Command("checkout")
         ELSE [task[u] EXCEPT !.got = [s \in Slices |-> Left(task[u].got[s])]]]
    /\ checkingOutBranch' = TRUE
    /\ refreshSeq' = refreshSeq + 1
    /\ Beside(t)
    /\ shown' = [s \in Slices |-> IF s = "status" THEN Nothing ELSE Left(shown[s])]
    /\ UNCHANGED <<repoPath, isGitRepo, projectLoading, remoteOp, failed>>

\* A checkout that local changes block is put off until they are stashed.
StashFirst(t) ==
    /\ task[t].kind = "checkout" /\ task[t].pc = "writing" /\ task[t].repo \notin Plain
    /\ task' = [task EXCEPT ![t].pc = "stashed"]
    /\ UNCHANGED <<gate, screen, failed>>

\* Calling it off is nothing but an early return.
CallOffQuietly(t) ==
    /\ task[t].kind = "checkout" /\ task[t].pc = "writing"
    /\ Over(t)
    /\ UNCHANGED <<screen, failed>>

\* Or it is called off, and what it cleared is read again.
CallOff(t) ==
    /\ task[t].kind = "checkout" /\ task[t].pc = "writing"
    /\ ReadAgain(t)
    /\ UNCHANGED <<screen, failed>>

\* Git begins to rewrite the working tree.
Rewrite(t) ==
    /\ task[t].kind \in Rewriting /\ task[t].pc \in {"writing", "stashed"}
    /\ task[t].repo \notin Plain /\ Rewriters(task[t].repo) = {}
    /\ task' = [task EXCEPT ![t].pc = "rewriting"]
    /\ UNCHANGED <<gate, screen, failed>>

\* The command is through.
Succeed(t) ==
    /\ task[t].pc = IF task[t].kind \in Rewriting THEN "rewriting" ELSE "writing"
    /\ task[t].repo \notin Plain
    /\ ReadAgain(t)
    /\ UNCHANGED <<screen, failed>>

\* The command fails, at once or half-way: nothing is read again.
Fail(t) ==
    /\ task[t].pc \in {"writing", "stashed", "rewriting"}
    /\ Faulty \/ task[t].repo \in Plain
    /\ Over(t)
    /\ failed' = failed \cup {"command"}
    /\ UNCHANGED <<screen>>

-----------------------------------------------------------------------------
(* The watcher.                                                             *)

\* Only a fetch, pull or push keeps the watcher waiting.
WatcherMayRefreshLoosely == isGitRepo # "no" /\ remoteOp = "none"

\* While the application rewrites the tree, or the folder is none of git's,
\* what the watcher says is ignored.
WatcherMayRefresh == isGitRepo # "no" /\ ~checkingOutBranch /\ remoteOp = "none"

Announce(t) ==
    /\ repoPath # None /\ WatcherMayRefresh
    /\ task[t] = NoTask /\ task' = [task EXCEPT ![t] = Reading("watch")]
    /\ UNCHANGED <<gate, screen, failed>>

-----------------------------------------------------------------------------

Next ==
    \E t \in Tasks :
         \/ \E s \in Slices : Answer(t, s) \/ Land(t, s) \/ Lose(t, s)
         \/ \E p \in Repos \cup {None} : ShowProject(t, p)
         \/ LearnKind(t)
         \/ \E kind \in Commands : Start(t, kind)
         \/ "checkout" \in Commands /\ StartCheckout(t)
         \/ StashFirst(t) \/ CallOff(t) \/ Rewrite(t) \/ Succeed(t) \/ Fail(t)
         \/ Announce(t)

Spec == Init /\ [][Next]_vars

-----------------------------------------------------------------------------
(* What is to hold.                                                         *)

Readings ==
    [repo : Repos, by : DOMAIN Refreshed, half : {"no", "alone", "beside"}, left : BOOLEAN]
        \cup {Nothing}

Task ==
    [kind : DOMAIN Refreshed \cup {"none"},
     pc   : {"idle", "asking", "writing", "stashed", "rewriting", "reading"},
     repo : Repos \cup {None}, seq : 0 .. MaxSeq,
     read : [Slices -> {"asked", "answered", "done"}], got : [Slices -> Readings]]

TypeOK ==
    /\ repoPath \in Repos \cup {None} /\ refreshSeq \in 0 .. MaxSeq
    /\ isGitRepo \in {"unknown", "yes", "no"}
    /\ shown \in [Slices -> Readings]
    /\ projectLoading \in BOOLEAN /\ checkingOutBranch \in BOOLEAN
    /\ remoteOp \in RemoteOps \cup {"none"}
    /\ task \in [Tasks -> Task]
    /\ failed \subseteq {"read", "command"} /\ beside \subseteq Tasks

\* Whatever a slice shows was read of the repository on screen (the first half
\* of isCurrent): a late answer about the project that was left never lands.
ScreenIsOfOneRepo ==
    \A s \in Slices : shown[s] = Nothing \/ shown[s].repo = repoPath

\* What git had read of the working tree when a checkout began is not shown
\* again, whenever it was asked for (the second half of isCurrent, and
\* checkoutGuarded's bump).  A read that begins after the checkout has, and is
\* answered before git touches the tree, is of the new generation: it may show
\* the branch that is being left.
NothingFromBeforeTheCheckout ==
    ~shown["status"].left

\* A refresh that answers the watcher shows a tree that a checkout is half-way
\* through only when that checkout was not the only one under way: as long as
\* checkouts come one at a time, watcherMayRefresh and isCurrent between them
\* keep it off the screen, whichever was asked for first.
OnlyOverlapsShowHalf ==
    \A s \in Slices : shown[s].by = "watch" => shown[s].half # "alone"

\* What watcherMayRefresh says of itself: no refresh answers the watcher while
\* the application is the one doing the writing, so none shows a tree that is
\* halfway between two branches.  The code does not keep it: nothing in the
\* store refuses a second checkout, and the end of either takes the flag down.
WatcherShowsNoHalfCheckout ==
    \A s \in Slices : shown[s].by = "watch" => shown[s].half = "no"

\* Skeleton, spinner and locks are up only as long as someone is to take them
\* down: the flags outlive no operation, in whatever order these end.
FlagsHaveOwners ==
    /\ projectLoading => \E t \in Running({"project"}) : task[t].repo = repoPath
    /\ checkingOutBranch => Running({"checkout"}) # {}
    /\ remoteOp # "none" => \E t \in Running(RemoteOps) : task[t].kind = remoteOp

Blanked == repoPath # None /\ isGitRepo # "no" /\ shown["status"] = Nothing

\* Unless something has failed, a repository's working tree is missing from
\* the screen only while an operation is under way that ends by reading it:
\* whatever isCurrent drops, someone reads anew.
BlankIsBeingFilled ==
    Blanked /\ failed = {}
        => \/ \E t \in Running({"project"}) : task[t].repo = repoPath
           \/ Running({"checkout"}) # {}

=============================================================================
