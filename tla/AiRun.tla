------------------------------- MODULE AiRun -------------------------------
(***************************************************************************)
(* An AI operation from the renderer's request to its answer: the run      *)
(* registry and its stop button (ai/runregistry.go), the subprocess runner *)
(* with its five goroutines (ai/runner.go, ai/pump.go), and the three      *)
(* callers that differ in when they call it: a turn that can write is      *)
(* snapshotted first, a reading one is not, and a drawn diagram goes back  *)
(* to the model under the same run id (ai/operations.go, ai/chat.go,       *)
(* ai/commands.go, archify/generate.go).                                   *)
(*                                                                         *)
(* Run ids are minted with crypto.randomUUID, one per operation, so an     *)
(* operation is its own id.  A Run value is <<operation, round>>: every    *)
(* Begin makes a new one.                                                  *)
(***************************************************************************)
EXTENDS Integers, FiniteSets

CONSTANTS Ops,              \* operations the renderer may ask for
          Kinds,            \* the kinds it may ask for, among AllKinds
          Streams,          \* the two output pipes of a child process
          MaxChunks,        \* bound: reads' worth of output per pipe and process
          SilenceWindow,    \* DefaultRunTimeout, in clock ticks
          MaxRepairRounds   \* times a refused diagram goes back to the model

AllKinds == {"chat", "fix", "read", "draw"}

ASSUME AiRunAssumption ==
    /\ Kinds \subseteq AllKinds
    /\ MaxChunks \in Nat
    /\ SilenceWindow \in Nat \ {0}
    /\ MaxRepairRounds \in Nat

VARIABLES
    app,        \* the application: "up", "closing" (OnShutdown ran), "gone"
    op,         \* one record per operation, below
    runs,       \* RunRegistry.runs: the round registered under an id, or NoRun
    cancelled,  \* the Run values marked cancelled
    timedOut,   \* the Run values the silence deadline marked
    quiet,      \* ticks since the current Run's lastRead
    cli,        \* the process of the current attempt, and its goroutines
    button      \* the stop button and the cancel_ai_run call behind it

vars == <<app, op, runs, cancelled, timedOut, quiet, cli, button>>

NoRun   == -1
Rounds  == 0..MaxRepairRounds
RunVals == Ops \X Rounds

(***************************************************************************)
(* Vocabulary.                                                             *)
(***************************************************************************)
\* How an engine takes its input: a CLI that reads it from stdin (Claude,
\* Codex), a CLI that reads a file or its arguments (opencode, agy with a short
\* brief: an empty StdinPayload), agy with a brief over inlineLimit, which is in
\* a file it needs permission to read, or an HTTP endpoint with no process at all
\* (Ollama, OpenAI).
Engines == {"stdin", "file", "agy", "http"}

\* What the engine's own output amounts to, as Interpret reads it.
Verdicts == {"reply", "engine_error", "network"}

\* Every way an operation can end.
Answers == Verdicts \cup
    {"cancelled", "timed_out", "no_input", "not_started", "refused", "invalid"}

Phases == {"idle", "protect", "begin", "prepare", "spawn", "running",
           "waited", "judged", "end", "after", "over"}

\* Invocation.ReadOnly: false for a chat turn and for a finding's fix.
ReadOnly(k) == k \notin {"chat", "fix"}

\* The kinds an engine may be routed to: draw sets RequireReadOnly, which only
\* Claude and Codex are let through, and a fix runs on an agentic engine.
EnginesFor(k) ==
    CASE k = "draw" -> {"stdin"}
      [] k = "fix"  -> {"stdin", "file", "agy"}
      [] OTHER      -> Engines

\* The engine is let to edit: by the operation, or because agy has one flag for
\* every permission and needs it to read its brief (AgyCommands.BuildCommand).
CanWrite(o) == ~ReadOnly(op[o].kind) \/ op[o].engine = "agy"

RunOf(o)   == <<o, op[o].round>>
Stopped(r) == r \in cancelled \cup timedOut      \* the stop channel is closed
Writing(o) == cli[o].child = "alive" \/ cli[o].grand = "holding"

Goto(o, phase) == op' = [op EXCEPT ![o].pc = phase]
Conclude(o, phase, answer) ==
    op' = [op EXCEPT ![o] = [@ EXCEPT !.pc = phase, !.outcome = answer]]

NoProcess ==
    [child |-> "none", grand |-> "none", stdin |-> "idle", killer |-> "off",
     said |-> [s \in Streams |-> 0], heard |-> [s \in Streams |-> 0],
     pumps |-> {}, verdict |-> "reply"]

Init ==
    /\ app = "up"
    /\ op = [o \in Ops |-> [pc |-> "idle", kind |-> "read", engine |-> "stdin",
                            round |-> 0, attempt |-> 0, spawned |-> 0,
                            outcome |-> "none"]]
    /\ runs = [o \in Ops |-> NoRun]
    /\ cancelled = {}
    /\ timedOut = {}
    /\ quiet = [o \in Ops |-> 0]
    /\ cli = [o \in Ops |-> NoProcess]
    /\ button = [o \in Ops |-> [press |-> "no", target |-> 0]]
-----------------------------------------------------------------------------
(***************************************************************************)
(* The operation itself.                                                   *)
(***************************************************************************)
\* The renderer asks.  A turn that can write is snapshotted before its run.
Ask(o, k, e) ==
    /\ app = "up"
    /\ op[o].pc = "idle"
    /\ e \in EnginesFor(k)
    /\ op' = [op EXCEPT ![o] =
          [@ EXCEPT !.pc = IF ReadOnly(k) THEN "begin" ELSE "protect",
                    !.kind = k, !.engine = e]]
    /\ UNCHANGED <<app, runs, cancelled, timedOut, quiet, cli, button>>

\* CreateCheckpoint, best effort: whatever it answers, the run goes on.
Protect(o) ==
    /\ op[o].pc = "protect"
    /\ Goto(o, "begin")
    /\ UNCHANGED <<app, runs, cancelled, timedOut, quiet, cli, button>>

\* Registered before the work starts: the id answers to a new Run from here.
Begin(o) ==
    /\ op[o].pc = "begin"
    /\ op[o].engine # "http"
    /\ op' = [op EXCEPT ![o] =
          [@ EXCEPT !.pc = "prepare", !.attempt = 0, !.outcome = "none"]]
    /\ runs' = [runs EXCEPT ![o] = op[o].round]
    /\ quiet' = [quiet EXCEPT ![o] = 0]
    /\ cli' = [cli EXCEPT ![o] = NoProcess]
    /\ UNCHANGED <<app, cancelled, timedOut, button>>

\* One round trip to an endpoint: no Run is registered for it.
HTTPTurn(o) ==
    /\ op[o].pc = "begin"
    /\ op[o].engine = "http"
    /\ \E v \in Verdicts :
          Conclude(o, "after", v)
    /\ UNCHANGED <<app, runs, cancelled, timedOut, quiet, cli, button>>

\* subprocessEngine: only a CLI that takes a file has a scratch file to fail on.
Prepare(o) ==
    /\ op[o].pc = "prepare"
    /\ \/ Goto(o, "spawn")
       \/ /\ op[o].engine \in {"file", "agy"}
          /\ Conclude(o, "end", "refused")
    /\ UNCHANGED <<app, runs, cancelled, timedOut, quiet, cli, button>>

\* execute up to its goroutines: the child, the stdin writer, a pump for each
\* pipe, the silence watch and the goroutine that waits for a stop.
Spawn(o) ==
    /\ op[o].pc = "spawn"
    /\ \/ /\ op' = [op EXCEPT ![o] =
                [@ EXCEPT !.pc = "running", !.attempt = op[o].attempt + 1,
                          !.spawned = op[o].spawned + 1]]
          /\ cli' = [cli EXCEPT ![o] =
                [NoProcess EXCEPT !.child = "alive", !.killer = "armed",
                                  !.pumps = Streams,
                                  !.stdin = IF op[o].engine = "stdin"
                                            THEN "feeding" ELSE "fed"]]
       \/ /\ op' = [op EXCEPT ![o] =
                [@ EXCEPT !.pc = "judged", !.attempt = op[o].attempt + 1,
                          !.outcome = "not_started"]]
          /\ UNCHANGED cli
    /\ UNCHANGED <<app, runs, cancelled, timedOut, quiet, button>>

\* As it was before BUG-AI-c: Wait closes the pipes under the pumps.
ReapBeforeReads(o) ==
    /\ op[o].pc = "running"
    /\ cli[o].stdin \in {"fed", "broken"}
    /\ cli[o].child = "exited"
    /\ Goto(o, "waited")
    /\ cli' = [cli EXCEPT ![o].child = "reaped"]
    /\ UNCHANGED <<app, runs, cancelled, timedOut, quiet, button>>

\* Without cmd.Wait: the pipes are dry, and nobody reaps the child.
ReapNobody(o) ==
    /\ op[o].pc = "running"
    /\ cli[o].pumps = {}
    /\ cli[o].stdin \in {"fed", "broken"}
    /\ Goto(o, "waited")
    /\ UNCHANGED <<app, runs, cancelled, timedOut, quiet, cli, button>>

\* wg.Wait, then cmd.Wait, then close(stopped): every read and the stdin write
\* are over before Wait reaps the child and closes the pipes.
Reap(o) ==
    /\ op[o].pc = "running"
    /\ cli[o].pumps = {}
    /\ cli[o].stdin \in {"fed", "broken"}
    /\ cli[o].child = "exited"
    /\ Goto(o, "waited")
    /\ cli' = [cli EXCEPT ![o].child = "reaped"]
    /\ UNCHANGED <<app, runs, cancelled, timedOut, quiet, button>>

\* The slip Cancelled's comment warns of: a shutdown racing the deadline.
DeadlineFirst(o) ==
    IF RunOf(o) \in timedOut THEN "timed_out"
    ELSE IF RunOf(o) \in cancelled THEN "cancelled"
    ELSE IF cli[o].stdin = "broken" THEN "no_input" ELSE cli[o].verdict

\* The rest of execute: the stop reason first, and a cancellation before a
\* deadline; then an undelivered payload; then what the engine said.
OutcomeOf(o) ==
    IF RunOf(o) \in cancelled THEN "cancelled"
    ELSE IF RunOf(o) \in timedOut THEN "timed_out"
    ELSE IF cli[o].stdin = "broken" THEN "no_input" ELSE cli[o].verdict

Decide(o) ==
    /\ op[o].pc = "waited"
    /\ Conclude(o, "judged", OutcomeOf(o))
    /\ UNCHANGED <<app, runs, cancelled, timedOut, quiet, cli, button>>

\* Two slips: a repeat without a limit, and one that forgets the ReadOnly mark.
RepeatsWithoutLimit(o) ==
    /\ op[o].outcome = "network"
    /\ ReadOnly(op[o].kind)
    /\ ~Stopped(RunOf(o))

RepeatsAnyKind(o) ==
    /\ op[o].outcome = "network"
    /\ op[o].attempt = 1
    /\ ~Stopped(RunOf(o))

\* Execute: one repeat, for a run marked ReadOnly whose engine never reached the
\* network.
Repeats(o) ==
    /\ op[o].outcome = "network"
    /\ op[o].attempt = 1
    /\ ReadOnly(op[o].kind)
    /\ ~Stopped(RunOf(o))

Judge(o) ==
    /\ op[o].pc = "judged"
    /\ Goto(o, IF Repeats(o) THEN "spawn" ELSE "end")
    /\ UNCHANGED <<app, runs, cancelled, timedOut, quiet, cli, button>>

\* The deferred End: the id answers to nothing any more.
End(o) ==
    /\ op[o].pc = "end"
    /\ Goto(o, "after")
    /\ runs' = [runs EXCEPT ![o] = NoRun]
    /\ UNCHANGED <<app, cancelled, timedOut, quiet, cli, button>>

MayRepair(o) == op[o].round < MaxRepairRounds

\* What the caller does with the run's result.  draw validates a reply and
\* sends a refused document back, up to maxRepairRounds times, under the same
\* run id; the other callers are done with it.
Settle(o) ==
    /\ op[o].pc = "after"
    /\ \/ Goto(o, "over")
       \/ /\ op[o].kind = "draw"
          /\ op[o].outcome = "reply"
          /\ IF MayRepair(o)
             THEN op' = [op EXCEPT ![o] =
                       [@ EXCEPT !.pc = "begin", !.round = op[o].round + 1]]
             ELSE Conclude(o, "over", "invalid")
    /\ UNCHANGED <<app, runs, cancelled, timedOut, quiet, cli, button>>
-----------------------------------------------------------------------------
(***************************************************************************)
(* The goroutines of one attempt.                                          *)
(***************************************************************************)
\* A read of a pipe that had something: it pushes the deadline back.
PumpRead(o, s) ==
    /\ s \in cli[o].pumps
    /\ cli[o].heard[s] < cli[o].said[s]
    /\ cli' = [cli EXCEPT ![o].heard[s] = @ + 1]
    /\ quiet' = [quiet EXCEPT ![o] = 0]
    /\ UNCHANGED <<app, op, runs, cancelled, timedOut, button>>

\* End of file: nothing is left in the pipe and nobody holds its other end.
PumpEOF(o, s) ==
    /\ s \in cli[o].pumps
    /\ cli[o].heard[s] = cli[o].said[s]
    /\ ~Writing(o)
    /\ cli' = [cli EXCEPT ![o].pumps = @ \ {s}]
    /\ UNCHANGED <<app, op, runs, cancelled, timedOut, quiet, button>>

\* feedStdin: delivered whole, or broken because nobody can read it any more.
FeedStdin(o) ==
    /\ cli[o].stdin = "feeding"
    /\ \/ Writing(o) /\ cli' = [cli EXCEPT ![o].stdin = "fed"]
       \/ ~Writing(o) /\ cli' = [cli EXCEPT ![o].stdin = "broken"]
    /\ UNCHANGED <<app, op, runs, cancelled, timedOut, quiet, button>>

\* A process that was killed, if it still was one.
Killed(child) == IF child = "alive" THEN "exited" ELSE child

\* Process.Kill in KillTree's place: the direct child and nothing below it.
StopWatchKillsTheChild(o) ==
    /\ cli[o].killer = "armed"
    /\ \/ /\ Stopped(RunOf(o))
          /\ cli' = [cli EXCEPT ![o] =
                [@ EXCEPT !.killer = "done",
                          !.child = Killed(cli[o].child)]]
       \/ /\ cli[o].child = "reaped"
          /\ cli' = [cli EXCEPT ![o].killer = "done"]
    /\ UNCHANGED <<app, op, runs, cancelled, timedOut, quiet, button>>

\* The ai-stop goroutine.  Its select takes whichever channel is ready, and
\* either of them when both are.  KillTree signals the group its child leads;
\* once the child is reaped there is no such group to find.
StopWatch(o) ==
    /\ cli[o].killer = "armed"
    /\ \/ /\ Stopped(RunOf(o))
          /\ cli' = [cli EXCEPT ![o] =
                [@ EXCEPT !.killer = "done",
                          !.child = Killed(cli[o].child),
                          !.grand = IF cli[o].child = "reaped"
                                    THEN cli[o].grand ELSE "none"]]
       \/ /\ cli[o].child = "reaped"
          /\ cli' = [cli EXCEPT ![o].killer = "done"]
    /\ UNCHANGED <<app, op, runs, cancelled, timedOut, quiet, button>>

\* WatchSilence, started with the first attempt and never told that the
\* process ended: it polls until the run is stopped.
WatchSilence(o) ==
    /\ op[o].attempt > 0
    /\ quiet[o] = SilenceWindow
    /\ ~Stopped(RunOf(o))
    /\ timedOut' = timedOut \cup {RunOf(o)}
    /\ UNCHANGED <<app, op, runs, cancelled, quiet, cli, button>>

\* Time, from the Run's Begin on: before it there is no lastRead to age.
Tick(o) ==
    /\ op[o].pc \notin {"idle", "protect", "begin", "over"}
    /\ quiet[o] < SilenceWindow
    /\ quiet' = [quiet EXCEPT ![o] = @ + 1]
    /\ UNCHANGED <<app, op, runs, cancelled, timedOut, cli, button>>
-----------------------------------------------------------------------------
(***************************************************************************)
(* The child process tree, which is not CodeFlow's code.                   *)
(***************************************************************************)
ChildWrites(o, s) ==
    /\ Writing(o)
    /\ cli[o].said[s] < MaxChunks
    /\ cli' = [cli EXCEPT ![o].said[s] = @ + 1]
    /\ UNCHANGED <<app, op, runs, cancelled, timedOut, quiet, button>>

\* A child that leaves something behind: a helper with the pipes still open,
\* or one whose output was sent elsewhere.
ChildForks(o) ==
    /\ cli[o].child = "alive"
    /\ cli[o].grand = "none"
    /\ \E g \in {"holding", "detached"} : cli' = [cli EXCEPT ![o].grand = g]
    /\ UNCHANGED <<app, op, runs, cancelled, timedOut, quiet, button>>

ChildExits(o) ==
    /\ cli[o].child = "alive"
    /\ \E v \in Verdicts :
          cli' = [cli EXCEPT ![o] = [@ EXCEPT !.child = "exited", !.verdict = v]]
    /\ UNCHANGED <<app, op, runs, cancelled, timedOut, quiet, button>>

GrandchildExits(o) ==
    /\ cli[o].grand # "none"
    /\ cli' = [cli EXCEPT ![o].grand = "none"]
    /\ UNCHANGED <<app, op, runs, cancelled, timedOut, quiet, button>>
-----------------------------------------------------------------------------
(***************************************************************************)
(* The user: the stop button and quitting.                                 *)
(***************************************************************************)
\* The button shows while the promise is pending and is disabled once pressed.
Press(o) ==
    /\ app = "up"
    /\ op[o].pc \notin {"idle", "over"}
    /\ button[o].press = "no"
    /\ button' = [button EXCEPT ![o].press = "pressed"]
    /\ UNCHANGED <<app, op, runs, cancelled, timedOut, quiet, cli>>

\* Cancel, under the registry's lock: false when there is nothing to stop.
Cancel(o) ==
    /\ button[o].press = "pressed"
    /\ button' = [button EXCEPT ![o] =
          IF runs[o] = NoRun THEN [press |-> "false", target |-> 0]
                             ELSE [press |-> "found", target |-> runs[o]]]
    /\ UNCHANGED <<app, op, runs, cancelled, timedOut, quiet, cli>>

\* markCancelled, after the lock is given back.
MarkCancelled(o) ==
    /\ button[o].press = "found"
    /\ cancelled' = cancelled \cup {<<o, button[o].target>>}
    /\ button' = [button EXCEPT ![o].press = "true"]
    /\ UNCHANGED <<app, op, runs, timedOut, quiet, cli>>

\* OnShutdown: CancelAll closes the stop channel of every registered run and
\* waits for none of them.
CancelAll ==
    /\ app = "up"
    /\ app' = "closing"
    /\ cancelled' = cancelled \cup
          {r \in RunVals : runs[r[1]] = r[2]}
    /\ UNCHANGED <<op, runs, timedOut, quiet, cli, button>>

Exit ==
    /\ app = "closing"
    /\ app' = "gone"
    /\ UNCHANGED <<op, runs, cancelled, timedOut, quiet, cli, button>>
-----------------------------------------------------------------------------
Operation(o) ==
    \/ Protect(o) \/ Begin(o) \/ HTTPTurn(o) \/ Prepare(o) \/ Spawn(o)
    \/ Reap(o) \/ Decide(o) \/ Judge(o) \/ End(o) \/ Settle(o)

Stdio(o) == FeedStdin(o) \/ \E s \in Streams : PumpRead(o, s) \/ PumpEOF(o, s)

Program(o) ==
    /\ app # "gone"
    /\ \/ Operation(o) \/ Stdio(o) \/ StopWatch(o) \/ WatchSilence(o) \/ Tick(o)
       \/ Cancel(o) \/ MarkCancelled(o)

Child(o) ==
    \/ ChildForks(o) \/ ChildExits(o) \/ GrandchildExits(o)
    \/ \E s \in Streams : ChildWrites(o, s)

User(o) == Press(o) \/ \E k \in Kinds, e \in Engines : Ask(o, k, e)

\* Nothing left to do: not a deadlock.
Done ==
    /\ app = "gone" \/ \A o \in Ops : op[o].pc = "over"
    /\ UNCHANGED vars

Next ==
    \/ \E o \in Ops : Program(o) \/ Child(o) \/ User(o)
    \/ CancelAll \/ Exit \/ Done

Spec == Init /\ [][Next]_vars

(***************************************************************************)
(* Every goroutine is eventually scheduled and time passes.  The child     *)
(* owes nothing: it may hang, never read its stdin, never exit; nor does   *)
(* the user owe a press.  Delivering stdin needs the child to read, so only *)
(* a write nobody can read any more is certain to come back.               *)
(***************************************************************************)
Running == app # "gone"

Fairness ==
    \A o \in Ops :
        /\ WF_vars(Running /\ Operation(o))
        /\ WF_vars(Running /\ FeedStdin(o) /\ ~Writing(o))
        /\ \A s \in Streams : WF_vars(Running /\ (PumpRead(o, s) \/ PumpEOF(o, s)))
        /\ WF_vars(Running /\ StopWatch(o))
        /\ WF_vars(Running /\ WatchSilence(o))
        /\ WF_vars(Running /\ Tick(o))
        /\ WF_vars(Running /\ Cancel(o))
        /\ WF_vars(Running /\ MarkCancelled(o))

FairSpec == Spec /\ Fairness
-----------------------------------------------------------------------------
(***************************************************************************)
(* Properties.                                                             *)
(***************************************************************************)
OpType ==
    [pc : Phases, kind : AllKinds, engine : Engines, round : Rounds,
     attempt : 0..2, spawned : 0..(2 * (MaxRepairRounds + 1)),
     outcome : Answers \cup {"none"}]

CliType ==
    [child : {"none", "alive", "exited", "reaped"},
     grand : {"none", "holding", "detached"},
     stdin : {"idle", "feeding", "fed", "broken"},
     killer : {"off", "armed", "done"},
     said : [Streams -> 0..MaxChunks], heard : [Streams -> 0..MaxChunks],
     pumps : SUBSET Streams, verdict : Verdicts]

\* The state keeps the shape the code gives it; in particular an attempt is the
\* first or the second of its Begin, and no other (Execute).
TypeOK ==
    /\ app \in {"up", "closing", "gone"}
    /\ op \in [Ops -> OpType]
    /\ runs \in [Ops -> Rounds \cup {NoRun}]
    /\ cancelled \subseteq RunVals
    /\ timedOut \subseteq RunVals
    /\ quiet \in [Ops -> 0..SilenceWindow]
    /\ cli \in [Ops -> CliType]
    /\ button \in [Ops -> [press : {"no", "pressed", "found", "true", "false"},
                           target : Rounds]]

\* A chat turn and a fix start their engine at most once, however their network,
\* their pipes or their stop button behave, and any other operation at most twice
\* per round (AI-055).  This goes by the ReadOnly mark, as the code does: that the
\* mark is not always deserved is NeverEditsTwice, below.
Budget(k) ==
    CASE ~ReadOnly(k) -> 1
      [] k = "draw"   -> 2 * (MaxRepairRounds + 1)
      [] OTHER        -> 2

StartsWithinBudget == \A o \in Ops : op[o].spawned <= Budget(op[o].kind)

\* A reply was interpreted from everything both pipes carried and by an engine
\* that was handed its whole input (AI-010, AI-054, BUG-AI-c).
ReplyIsWhole ==
    \A o \in Ops :
        op[o].outcome = "reply" /\ op[o].engine # "http" =>
            /\ cli[o].heard = cli[o].said
            /\ cli[o].stdin = "fed"

\* A Run that is stopped while its process runs is reported as what stopped
\* it, and as a cancellation when both the user and the deadline did (Cancelled).
StopIsReported ==
    \A o \in Ops :
        /\ (op[o].pc = "running" /\ RunOf(o) \in cancelled)
              ~> (op[o].outcome = "cancelled" \/ app = "gone")
        /\ (op[o].pc = "running" /\ RunOf(o) \in timedOut)
              ~> (op[o].outcome \in {"cancelled", "timed_out"} \/ app = "gone")

\* Whatever its child does, an operation ends: the stop reaches the whole tree,
\* and silence stops a run nobody stops (AI-013).
EveryRunEnds ==
    \A o \in Ops : (op[o].pc # "idle") ~> (op[o].pc = "over" \/ app = "gone")

(***************************************************************************)
(* What the repository says of this code and the code does not do.         *)
(***************************************************************************)
\* runner.go:34: "ReadOnly marks a run that cannot have written anything, which is
\* what makes it safe to repeat".  So an engine that can edit the user's files is
\* started once.  A review by agy is marked ReadOnly, and skips all permissions
\* when its brief is long.
NeverEditsTwice == \A o \in Ops : CanWrite(o) => op[o].spawned <= 1

\* aiRunStore.ts: "The backend answering `false` just means the run finished on
\* its own in the meantime".  So nothing is started after a false.
FalseMeansFinished ==
    [][\A o \in Ops :
          button[o].press = "false" => op'[o].spawned = op[o].spawned]_vars

(***************************************************************************)
(* AiRun implements RunContract.                                           *)
(***************************************************************************)
PhaseOf(o) ==
    CASE op[o].pc = "idle" -> "idle"
      [] op[o].pc = "over" -> "over"
      [] OTHER             -> "open"

AnswerOf(o) == IF op[o].pc = "over" THEN op[o].outcome ELSE "none"

phaseBar  == [o \in Ops |-> PhaseOf(o)]
kindBar   == [o \in Ops |-> op[o].kind]
startsBar == [o \in Ops |-> op[o].spawned]
liveBar   == {o \in Ops : cli[o].child \in {"alive", "exited"}}
answerBar == [o \in Ops |-> AnswerOf(o)]

Contract == INSTANCE RunContract WITH
    Kinds <- AllKinds, phase <- phaseBar, kind <- kindBar,
    starts <- startsBar, live <- liveBar, answer <- answerBar

\* Every behaviour of the program is one the contract allows.
ImplementsContract == Contract!Contract
=============================================================================
