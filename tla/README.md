# CodeFlow in TLA+

CodeFlow is a desktop Git client (a Go backend under `src/backend`, a React
renderer under `src/frontend`, joined by Wails) that runs AI coding agents as
child processes, undoes what they did, reviews pull requests with them, shows and
switches repositories that other programs change at the same time, edits their
files, and carries an API console with live connections. This directory holds TLA+ models
of its concurrent parts, the TLC runs that check them and the TLAPS proofs about
them. Paths below are relative to `src/`.

| module | models | what is known of it |
|---|---|---|
| `RunContract` | what an AI operation promises whoever asked for it | abstract specification |
| `AiRun` | run registry, subprocess runner, stop button, callers, shutdown | TLC, `AiRun_proofs` |
| `Checkpoints` | the undo behind agents' edits and repo-wide replaces | TLC, `Checkpoints_proofs` |
| `Streams` | registry and pumps of the API console's live connections | TLC, `Streams_proofs` |
| `StreamPanel` | a tab of the console, composed with `Streams` | TLC |
| `ReviewMemory` | what a pull request's reviews remember of each other | TLC, `ReviewMemory_proofs` |
| `RepoScreen` | the store behind the repository on screen: reads, checkouts, watcher | TLC, `RepoScreen_proofs` |
| `BranchSwitch` | uncommitted work under a switch of branches; the stash commands | TLC, `BranchSwitch_proofs` |
| `EditorGroups` | the arithmetic of split editors, as operators | through `EditorTabs` |
| `EditorTabs` | the editor's registry of open files, its reads and saves | TLC, `EditorTabs_proofs` |
| `Watcher` | the repository watcher: registry, loops, throttle | TLC, `Watcher_proofs` |

`MC_*.tla` and `MC_*.cfg` instantiate them. Run a check with
`tlc -config MC_Checkpoints_prune.cfg MC_Checkpoints` and a proof with
`tlapm AiRun_proofs.tla`.

## 1. Inventory

### Modelled

**AI runs** (`backend/ai/runregistry.go`, `runner.go`, `pump.go`, `operations.go`,
`chat.go`, `commands.go`, `backend/archify/generate.go`,
`frontend/src/state/aiRunStore.ts`).
*State*: the registry (run id → `Run`, with its stop channel, its reason and the
moment of its last output), one child process per attempt with up to five
goroutines (stdin, two pumps, silence watch, kill), the stop button.
*Operations*: Begin, Execute (one attempt, at most one repeat), Interpret, End;
Cancel, CancelAll, WatchSilence. *Interactions*: the renderer mints the run id,
asks, and may press stop at any moment of the promise; a turn that can write goes
through Checkpoints first; archify's draw reuses one id for several runs.
*Hard*: five goroutines sharing a process, a stop racing the registration and the
end, `Wait` closing pipes that are still read, grandchildren that hold a pipe
open, a retry after a failure of the network, a deadline racing a shutdown.
*Correct when*: an operation that may edit runs its engine once; a reply is read
from all of the output by an engine that had all of its input; what stopped a run
is what is reported; every run ends.

**Checkpoints** (`backend/git/checkpoints.go`, callers in `ai/chat.go`,
`ai/commands.go`, `files/search.go`, dialog in `components/ai/CheckpointsModal.tsx`).
*State*: refs under `refs/codeflow/checkpoints/`, each a commit of a whole tree
with a date; the working directory, which is everybody's. *Operations*: create and
prune, list, restore, delete, remove-if-unchanged. *Interactions*: chat turns and
fixes create one and drop it again when nothing differs; a replace plans, creates
and writes; the dialog lists, restores and deletes. *Hard*: no lock anywhere,
every operation several git commands, any of which may fail; two agents and a user
editing meanwhile; the application dying with an agent still at work; what git
sees depends on a `.gitignore` that the agents may edit. *Correct when*: an
agent's edit keeps its undo; a finished restore is exact; a prune drops only the
oldest and leaves the promised number.

**API console streams** (`backend/apiclient/streams.go`, `wsconnect.go`,
`socketioconnect.go`, `mqttconnect.go`). *State*: a map id → connection; for each
connection a context, a channel of commands, a done channel, one or two pump
goroutines. *Operations*: connect (register, dial, handshake), send, close, and
the pumps' teardown. *Interactions*: with `StreamPanel.tsx` through commands and
status events. *Hard*: a reconnect under an id whose old pump is dying; the cancel
behind a close overtaking the goodbye; a broker's reader, writer and closer
disagreeing on why the socket died; a full channel; a peer that reads nothing.
*Correct when*: the registry holds exactly what lives; a deliberate close says
goodbye and is never an error; a connection that is closed or left ends.

**API console panel** (`components/api/StreamPanel.tsx`, `state/apiRuntimeStore.ts`,
`state/apiTabsStore.ts`): which connection a tab shows. *Hard*: answers of calls
that belong to a connection the tab has left. *Correct when*: a tab never loses
the connection it has to the failure of another.

**Review memory** (`backend/review/run.go`, `reconcile.go`, `memory.go`,
`posting.go`, `commands_publish.go`, `store.go`, and the panel in
`components/settings/ReviewMemoriesSettings.tsx`). *State*: per pull request a
sequence of runs, each with a JSON column of findings (id, file and category,
state, thread on the host, depth) and the head it was filed under; the host's
conversations. *Operations*: a review (resolve the head, find the latest run, stop
early or ask the AI, then count, reconcile with the latest run and file a new
one), publish (read a run, open or answer conversations one by one, write the
column back), mark, delete a run or all of them. *Interactions*: the engine is an
AI run; a job removed from the activity list leaves its review going, so two can
overlap; marks and deletions come from a settings panel while a publish is under
way. *Hard*: a publish and a mark each write a column read earlier; the history is
as long as the user likes and every run starts from the one before; the head is
resolved twice. *Correct when*: an id and a conversation keep their finding; what
is declared fixed was looked for; what a person dismissed stays so.

**The repository on screen** (`frontend/src/state/repoStore.ts`,
`lib/repoRefreshGate.ts`, `App.tsx`). *State*: the path on screen, a generation,
seven slices, and the flags that gate others (loading, checking out, remote
operation). *Operations*: show a project, check out, fetch, pull and push, every
other git command, `refreshAll`. *Interactions*: each is a string of awaited calls
into the backend; the watcher starts one whenever anybody writes. *Hard*: answers
land in any order, after the project or the branch they are about has gone; a
checkout wakes the watcher itself; a screen cleared for what then does not happen.
*Correct when*: a slice shows only the repository on screen, nothing from before
the checkout and nothing half-way through it; each flag has someone to take it
down; what is blank is being read.

**Branch switch and stash** (`checkoutGuarded` and `carryStashOver` in
`state/repoStore.ts`, `backend/git/stash.go`, `branches.go`). *State*: the user's
work, in a working tree or on the stash; entries are addressed by their index of
the moment. *Operations*: a checkout that may be blocked, the question, the stash,
the second attempt, the apply; save, apply, pop, drop and rename from the sidebar.
*Hard*: every git command is a process of its own and anybody may come between
two; each may fail; the index may mean another entry by then. *Correct when*: no
work disappears; what is carried over is what was saved, to where it was meant to
go; its entry stays.

**Editor** (`lib/editorGroups.ts`, `components/editor/EditorView.tsx`). *State*: a
row of groups with their tabs, a registry of open files shared by them, reads and
writes in flight, one dialog. *Operations*: open (peek or pin), type, save, split,
drag, close a tab or a group, answer the dialog, switch the project; reload on the
watcher's word. *Hard*: a read or a save that is answered after the user typed
on; a preview evicted from one group and shown in another; a dialog answered after
the groups have changed. *Correct when*: unsaved edits stay and are marked; the
registry is what the groups show; the strips make sense.

**Repository watcher** (`backend/files/watcher.go`). *State*: a map from path to
watcher; each watcher a bounded channel, a stop and a done channel, a goroutine
with a pending flag and the time it last spoke. *Operations*: Start (stops the one
before), Stop, StopAll. *Interactions*: commands that `App.tsx` sends and does not
wait for; the `notify` library. *Hard*: several calls at once; closing a channel
twice panics; a library that drops what does not fit; a throttle. *Correct when*:
one watcher runs per path; calls return; the last change of a burst is announced.

### Not modelled yet, in the plan

**Terminal** (`backend/terminal/registry.go`): sessions with a read, a wait and an
emit goroutine, Close and CloseAll. *Correct when*: exit is announced once and
after the last output; a close returns once the process is reaped.

**Chat conversations** (`state/chatStore.ts`): messages and engine session of the
conversation on screen; send, clear, switchTo around a reply in flight. *Correct
when*: a reply and its session go to the conversation that asked.

**Code map** (`backend/codemap/index.go`, `ask.go`): two halves (Go and TypeScript)
with a fingerprint each, rebuilt on a question after a recheck time. *Correct
when*: an answer comes from the files of one moment, and a cancelled rebuild is
not taken for a finished one.

### Not modelled

| part | why |
|---|---|
| Git commands other than checkpoints, checkouts and stashes | one process per command, no state between commands; correctness lies in arguments and in parsing |
| Files, search, path guards | functions over the file system (`ReplaceInRepo` is in `Checkpoints`, a read and a write in `EditorTabs`) |
| Pull request hosts | one HTTP request per operation; they enter the review model as its environment |
| Work items | cache, mirror and verdicts; a candidate after the review memory, whose life cycle it shares |
| Storage and migrations | one SQLite connection behind a mutex, one transaction per write: the atomic steps of the models |
| Activity history | rows appended when a run ends |
| Workspaces, skills, MCP configuration | rows and folders edited one command at a time |
| Updater | linear, one caller |
| Usage indicator, requirements, diagnostics | read-only computations over logs, versions and files |
| Credentials, secret scanning | a facade over the system store; pattern matching |
| Schema designer, process diagrams, archify's rendering | parsing, layout and drawing; their AI operations are `AiRun`'s |
| API requests and collections | one exchange with no shared state; the tabs' autosave around a switch of workspace and the tree's ordering are candidates |
| Repository map | a content-addressed cache behind one mutex, after the code map |
| Start-up, bridge, window and tray | a fixed sequence and a table of commands |
| Renderer stores of pull requests, workspaces and maps | loads guarded by tokens, the pattern of `RepoScreen` |

## 2. The models

### AiRun

One record per operation. Run ids come from `crypto.randomUUID`, so an operation
stands for its id, and `<<operation, round>>` for the `Run` value that one `Begin`
creates: two rounds of a drawing share an id and are different runs, which is
what a late stop can get wrong.

| state | code |
|---|---|
| `op[o].pc`, `.kind`, `.engine` | where the caller is between the renderer's request and its answer; which command; which engine it is routed to |
| `op[o].attempt`, `.spawned` | `Execute`'s loop; all processes of the operation |
| `runs` | `RunRegistry.runs` |
| `cancelled`, `timedOut` | the two reasons a `Run` can be stopped for; its channel is closed when it is in either |
| `quiet` | now − `Run.lastRead`, in ticks, up to the window |
| `cli[o]` | child and grandchild, the stdin writer, the kill goroutine, what each pipe carried and what its pump read |
| `button[o]` | the stop button: pressed, the `Run` the registry found, the answer |

`Protect` is the checkpoint of a turn that can write (any outcome: best effort);
`Begin`, `Prepare`, `Spawn`, `Reap`, `Decide`, `Judge`, `End`, `Settle` are
`invokeWith` and `Execute` in order. `PumpRead`/`PumpEOF`, `FeedStdin`,
`StopWatch` and `WatchSilence` are the goroutines. `Cancel` and `MarkCancelled`
are two steps because the registry's lock is given back between them. The child
is environment: it writes, forks a helper that may keep a pipe, exits with any
verdict, or does nothing for ever. An HTTP engine is one step with any verdict: it
registers no run, so nothing can stop it.

An engine is one of four: it is fed by stdin, by a file, it is `agy` (which has one
flag for every permission and gets it whenever its brief is too long for the command
line), or it is HTTP. What the code repeats by is the mark `ReadOnly`; what an engine
may really do is `CanWrite`, which is more for `agy`. opencode, which reads a file
too, has no flag that bounds it (`engine.go:36`) and is taken at its mark.

`RunContract` is what the caller may rely on: at most so many processes, one at a
time, an answer once and only when no process is left unreaped. `AiRun` implements
it under the mapping at the end of the module.

### Checkpoints

The files, the refs and the clock are shared; every git command is one step that
may fail. A job (chat turn, fix, replace) takes at most one checkpoint, so a
checkpoint has its job's name.

| state | code |
|---|---|
| `tree` | the working directory, one content per path |
| `refs`, `snap`, `at` | the refs, their commits' trees and committer dates |
| `pc`, `victims`, `plan` | where a job is; its prune's list; a replace's planned texts |
| `upc`, `listed`, `target`, `todo` | a visit to the dialog: its list, its choice, what `RestoreCheckpoint` still has to write |

`Visible` is `read-tree HEAD` with `add -A` on a scratch index: every path except
those the `.gitignore` of that moment hides. `ChangedPaths` is
`diff --cached --no-renames` of it against the snapshot's tree. A restore writes
path by path in git's order; a removal that fails is passed over as in the code,
a write that fails ends it. `Blobs` is what `blobAt` makes of a path: a `git
cat-file` that fails is taken for a path the snapshot does not have, so the file is
removed and counted as restored (`misread` keeps a record of it). `Crash` can happen at every step: refs, files and
agents stay, everything in memory goes. `disturbed` and the other history
variables are read by the properties only.

### Streams

A connection is one call of connect. `pc` is the command that connects and then
the pump that owns the teardown; `writer` is the side that writes, which is the
same goroutine for a WebSocket and a Socket.IO session and another one
(`drainCommands`) for a broker. `live` is the registry, `cancelled` the done
contexts, `finished` the closed done channels, `closing` the broker's flag for a
deliberate shutdown, `grace` the goroutines `Close` leaves behind to cancel a
connection that does not finish in time. A write that the peer does not take
lasts until the socket dies; a WebSocket's also until its context is done.
`Unregister`, `Finish`, `ReportEnd` are the deferred function in its order.

`StreamPanel` adds one tab over it. A call into the backend is in flight until
handled, and its answer until the panel resumes, so a connect can reject when the
tab has long moved on. Every connect mints its own id there.

### ReviewMemory

One pull request. A run has its job's id and a job of which nothing is left lends
its name to a later one, so histories are of any length while `Reviews` stays
small.

| state | code |
|---|---|
| `runs`, `order` | the rows of `review_runs`; `order` is `created_at`, which `LatestRun` goes by |
| `review[j]` | the locals of `Run` and `persist`: depth, files examined, answer, merged findings |
| `publish` | the locals of `publishSavedRun`: its copy of the column, the items to go |
| `threads` | conversations on the host, numbered as they are opened |

A finding's key is `FindingIdentity`, its file and category. An item of a publish is
sent under one of `SentAs`: that key, or the key `Stripped` of its file, because the
panel sends a location without a line as no file at all. So `PostItem` may find no
row (the conversation is opened and recorded nowhere) or another finding's. A list of findings is
a set of rows with their places, since places matter only to "the first one":
`findByIdentity`, `indexOf` and `MarkFinding` all take it. `Reconcile` is the
function of that name: `Restated` is its first pass, `Kept`, `Verdict` and
`Carried` its second. `Begin` runs up to the engine, `ModelAnswers` from `CountRuns`
to `Reconcile`, `File` the second look at the head and `AddRun`. A push or a fetch
needs no action: whenever the branch is resolved it may name any commit, or none.
`StartPublish`, `OpenThread`/`Reply`/`HostFails` per item and `EndPublish` are a
publish, whose write is a step of its own. `descartado` stands for
`falso_positivo` and `ignorado`, which the code never tells apart.

### RepoScreen

A task is one operation of the store that has not ended: a project being shown, a
command, a refresh for the watcher. What a read returns is kept as its
circumstances: whose repository, for which operation, whether a checkout was
half-way through it, alone or beside another, whether one has begun since.

| state | code |
|---|---|
| `repoPath`, `refreshSeq`, `isGitRepo`, `projectLoading`, `checkingOutBranch`, `remoteOp` | the fields of the store (the branch's name is left out) |
| `shown[s]` | what slice `s` shows |
| `task[t]` | kind, phase, the `repoPath` and `refreshSeq` its closures captured, the state of each of its reads |
| `failed`, `beside` | history: whether anything has failed; the checkouts that were not the only one under way |

`Refreshed` says what each command reads again when it is through. `ReadAgain`
captures path and generation when the refreshers start, not when the command did,
as they do. `Answer` is git reading, `Land` the renderer's half with `isCurrent`,
`Lose` a read that failed twice. `StartCheckout` to `Fail` are `checkoutGuarded`;
`Rewrite` is the moment at which git begins to write. Two repositories stand for
any number; a plain folder has no git to answer. Nothing stops a second checkout
while one is on: the sidebar disables its rows, the palette and a finding's fix do
not ask.

### BranchSwitch

| state | code |
|---|---|
| `tree`, `stash`, `head` | per repository: uncommitted work, the list of entries, which switch's branch is checked out |
| `switch[s]` | a run of `checkoutGuarded`: where it is, its `repoPath`, the user's choice, what it carried where |
| `command[c]` | a command of the sidebar; of a rename also the commit in its hand |
| `written`, `settled` | history: work there has been, work the user is done with |
| `alone` | history: switches whose stash and branch nobody touched since they saved, renames whose stash nobody touched since they resolved their index |
| `mislaid` | history: the work of an entry that an overtaken rename dropped, or that a rename failed to store |

A piece of work stands for any set of changed files, and any piece may be in the
way of any checkout or apply: which one is git's business. A push without `-u`
leaves any part of the tree (what is untracked); an apply that conflicts leaves
any part of the entry, and one that succeeds may leave out what was settled
meanwhile (git finds those changes there already). `Resolve`, `Cut` and `Store` are `RenameStash`'s three
commands, and any other step may come between two of them. `Refused` is git failing
before anything happened, `StoreFails` after.

### EditorGroups and EditorTabs

`EditorGroups` translates `lib/editorGroups.ts` function by function, as
operators over a sequence of groups. `EditorTabs` is the component that calls
them: a call is a read or a write that has been sent; `Read` and `Write` are the
backend's half, `Land` the `.then`. `held` collects what each file has held since
its project came on screen: other programs may put back any of it. Typing and
dragging need the dialog gone; shortcuts and the sidebar do not, and nothing keeps a
path from being closed, opened again, or opened in another project while a call
about it is under way. `turn` tells such calls apart. `stale` and `stray` are
history: a call that began before the last change of project, and a tab whose text
such a call brought.

| state | code |
|---|---|
| `groups`, `focus` | `groups`, `activeGroupId` and their refs (assigned at render) |
| `tabs[p]` | the registry entry: content, original, loading, preview |
| `calls` | promises of `readFileText` and `writeFileText` |
| `dialog` | `useConfirmStore.request` and what its caller remembers |

### Watcher

A watcher has the name of the call that made it. `Take` is one step because look
up and delete share a lock; `Close`, `Wait` and `Silence` follow outside it. The
loop's clock is the time since it last announced, up to `minEmitInterval`. The
tick is enabled only when it has something to say (it changes nothing otherwise).
`notify` puts an event in the channel or drops it. `owed` is history: what a watcher
has been told of and has not announced, with how (`heard`: the change is in the
channel, or was dropped while another was in it or pending; `dropped`: it was
dropped from a channel of nothing but git's own bookkeeping).

## 3. What the runs check

| run | instance | properties | distinct states |
|---|---|---|---|
| `airun` | one operation, a chat or a drawing, on any engine its kind may have; one pipe with one read's worth of output, one repair round, fair | `TypeOK`, `StartsWithinBudget`, `ReplyIsWhole`, `ImplementsContract`, `StopIsReported`, `EveryRunEnds` | 0.9 M |
| `checkpoints` | two turns, one dialog, a user, one path, one checkpoint kept, faults and crashes | `TypeOK`, `AgentEditsUndoable`, `RestoreMissesOnlyTheMisread` | 1.7 M |
| `checkpoints_prune` | two turns and a replace, two seconds, one checkpoint kept, crashes | `PruneKeepsTheNewest`, `AtMostMaxCheckpoints` | 0.9 M |
| `streams` | two connections of any transport under one id, one sender, a channel of one | `RegistryHoldsTheLiving`, `GoodbyeFirst`, `GoodbyeIsNoFailure` | 4.3 M |
| `streams_live` | one connection, channel of two, three sends, fair | `EndsWhenAsked`, `EndsWhenLeft` | 9 k |
| `stream_panel` | one tab, two connects | `FailureClosesOnlyItsOwn` is **violated** | |
| `review_memory` | two jobs at once, two keys of one category, two commits, two findings in an answer, one depth, faults and crashes | `TypeOK`, `OneThreadOneRow`, `AddressesTheLiving`, `IdsKeepTheirFinding`, `SilenceIsNoFix`, `AnsweredIsLeftAlone` | 2.7 M |
| `repo_screen` | two repositories and a plain folder, two operations at once, two slices, checkout, fetch and stage, two checkouts that may overlap, faults | `ScreenIsOfOneRepo`, `NothingFromBeforeTheCheckout`, `OnlyOverlapsShowHalf`, `FlagsHaveOwners`, `BlankIsBeingFilled` | 2.4 M |
| `branch_switch` | two repositories, two switches, one command of the sidebar, two pieces of work; anything may come between anything | `OnlyRenamesMislay`, `CarriesItsOwn`, `AutoStashStays` | 1.0 M |
| `editor_tabs` | two projects with the same two paths, two texts, two groups, one read or write under way | `StripIsSound`, `DropsWhereAimed`, `NothingIsKeptUnseen`, `NoTabLosesItsFile` | 0.1 M |
| `editor_reads` | two projects with the same path, two texts, two groups, two reads or writes under way, faults | `UnmarkedIsSaved`, `OnlyAnOpenTakesEdits` | 0.5 M |
| `watcher` | three calls about one repository, a channel of one, two changes and one piece of noise, fair | `StoppedOnce`, `OnlyARaceLeaks`, `EveryCallReturns`, `WhatIsHeardIsAnnounced` | 0.1 M |

Several properties are about what the code keeps *except* in a case that they name:
the paths a restore misread, checkouts that overlap, a rename that is overtaken, a
read that opens a file. No constant rules these cases out: they happen in the runs.
For each there is the sentence without the exception, as the repository has it, and
a configuration in which TLC refutes it (section 4).

`TypeOK` of `Streams`, `RepoScreen`, `BranchSwitch`, `EditorTabs` and `Watcher` is
in no run's list: a theorem has it for every instance (section 5).

*Why the bounds are enough.* Operations of `AiRun` share nothing but the shutdown
(ids never collide), so one is all there is to interleave; one read per pipe is
enough for "something is left unread" and one repair round for "a second `Begin`
under the same id". A chat takes every way a fix takes, and a drawing every way a
read does, the engines apart; with all four kinds and two pipes the safety
properties hold over 3.3 M states, and the theorems have them for any. In `Checkpoints` two agents are what it takes for one to
write between another's comparison and its deletion, and keeping one checkpoint
makes every second creation prune; two seconds give both the tie and the order of
dates. `checkpoints` has one path, so a restore that stops between two paths is
covered by the theorem `RestoreExceptMisread` only. In `Streams`
two connections under one id give the replacement, a channel of one the full
channel, two sends a frame in front of the close request. `checkpoints_prune`
sets `Faulty` to FALSE because a prune whose deletion fails leaves one too many
by design; its crashes stay. In
`ReviewMemory` two keys are what it takes for an answer to be silent about one and
name the other, or to name one twice; two jobs give the overlap (of one category, so that a key without its file
may be either's) and, with names lent on, a finding that is resolved, comes back and is posted again; ids go to 2,
conversations to 1 (the mutants need no more to be caught). Depths differ only in
`MC_ReviewMemory_depth.cfg`, where two are too many for the other run; a job at a
time is enough there. In `RepoScreen` a race is between two operations, and two
checkouts give a second generation and an overlap; of the slices, the status is the one a
checkout clears and the branches stand for the others, of the commands one reads
all, one a slice under a lock, one a slice with none. In `BranchSwitch` two
switches give the overlap, two pieces of work the entry that is not the newest and
the one that arrives in part, an index up to 2 the entry behind the first. In
`EditorTabs` two groups and two paths are what eviction, a second view and a drag
need, and the same paths in two projects the answer that comes to the wrong one. Two
calls at once and failing reads need a run of their own, `editor_reads`, and there
one path is enough: a call concerns one, and opening, closing, reloading and saving
it again is what two calls race over. In `Watcher` three calls are a race of two and
one that finds what they left; in a channel of one a change is dropped behind
another, and behind git's noise. The proofs remove the bounds from
every safety property of the runs but the panel's: findings, ids, conversations,
tabs, calls and checkpoints may be as many as the constants say (section 5).

*Deadlock.* `AiRun` has a `Done` step, and TLC checks that nothing else stops:
no interleaving leaves an operation with no goroutine able to move. In
`Checkpoints`, `Streams` and `StreamPanel` the system may really come to rest
(nobody edits, all connections ended), so the check is off; likewise in `Watcher`
(every call has returned and nothing changes). In `RepoScreen`, `BranchSwitch` and
`EditorTabs` it is on: the user can always turn to another project, or answer what
stands in the way of that. `ReviewMemory` can
always crash, so there it says nothing.

*Symmetry* is used for the turns, the connections, the jobs and commits of
`review_memory`, the repositories and operations of `repo_screen`, the
repositories and switches of `branch_switch`, and the projects, paths,
texts and groups of `editor_tabs`, where no constant or property tells them apart; never in a run with a liveness property.

*Fairness.* `AiRun`: weak fairness of each goroutine and of the clock, because
the Go scheduler and timers run what stays runnable. The child owes nothing: it
may hang, keep its pipes and never read its input; the user need not press.
A write to stdin comes back only when nobody can read the pipe any more.
`Streams`: weak fairness of steps that stay enabled; strong fairness of the arms
of the pumps' `select`, since a keepalive or another frame may disable an arm
again and again and Go picks among ready cases at random. The peer owes nothing.
`Watcher`: weak fairness of a call that has begun, of every arm of a loop's
`select` and of the loop's clock. Weak is enough for the arms: a closed stop
channel stays closed, an event stays in the channel and a pending flag stays up
once the window is over, so an arm that loses the draw is still enabled. Nobody
owes a call or a write.
`Checkpoints`, `ReviewMemory`, `RepoScreen`, `BranchSwitch` and `EditorTabs` have
no liveness property and state no fairness.

## 4. Where the code and its own words part

One run ends in a counterexample, `stream_panel`: **a failed connect takes another
connection's tab** (`FailureClosesOnlyItsOwn`,
`components/api/StreamPanel.tsx:144`). `closeConnection(tabId)` drops whatever the
tab has by then; that socket stays open and, as the panel's own comment fears,
nobody can close it.

Each of the following configurations, to be run by hand, refutes a sentence of the
repository. The property is in the module, under "what the code says of itself and
does not do" or beside the one that holds.

*AI runs*

1. `MC_AiRun_readonly`, **a run marked read-only may edit, and twice**
   (`NeverEditsTwice`, `backend/ai/runner.go:103`). `runner.go:35`: "ReadOnly marks
   a run that cannot have written anything, which is what makes it safe to" repeat.
   A brief too long for `agy`'s command line is read from a file, with
   `--dangerously-skip-permissions` (`engine_cli.go:198-201`), whatever the mark;
   after a failure of the network the run is repeated all the same (AI-055,
   `docs/business-rules/05-ai-engines.md:1550`).
2. `MC_AiRun_stop`, **a stop answered "false" may precede the start**
   (`FalseMeansFinished`, `backend/ai/chat.go:104`). `aiRunStore.ts:85`: "The
   backend answering `false` just means the run finished on its own in the
   meantime". A chat turn takes its checkpoint before it registers its run, draw's
   id is unregistered between two rounds, an HTTP turn never registers: pressed
   then, the button answers false, stays disabled, and the engine starts.

*Checkpoints*

3. `MC_Checkpoints_misread`, **a restore may remove a file the snapshot has**
   (`RestoreIsExact`, `backend/git/checkpoints.go:339`). `:196`: "Absent from the
   snapshot: the run created it". `blobAt` says so of any `git cat-file` that fails;
   the file goes, is counted as restored, and no error is returned.
4. `MC_Checkpoints_created`, **an undo can delete a file the run did not create**
   (`RemovesOnlyWhatWasCreated`, `backend/git/checkpoints.go:199`). An ignored file
   is absent from the snapshot too; once the agent has edited `.gitignore`, it shows
   as changed and is removed with no copy anywhere.
5. `MC_Checkpoints_replace`, **a replace can overwrite what no checkpoint has**
   (`ReplaceIsUndoable`, `backend/files/search.go:257`). The texts are planned
   before the checkpoint and written after it without another look: an edit in
   between is overwritten.

*Reviews*

6. `MC_ReviewMemory_keys`, **an item may find another finding's row, or none**
   (`EveryItemFindsItsRow`, `backend/review/posting.go:157`). `memory.go:221`: "two
   different keys would mean a posted comment that never gets" its thread recorded.
   The panel reads a file only when a line follows it (`parseAnalysis.ts:161-169`)
   and sends a bare path as `file: null` (`PrReviewPanel.tsx:122-127`), where the
   memory keeps the path (`memory.go:178-201`). So the conversation is opened and not
   recorded, or recorded with another finding that has no location.
7. `MC_ReviewMemory_marks`, **a publish undoes a mark** (`OnlyAPersonDismisses`,
   `backend/review/commands_publish.go:153`). The column is written back as it was
   read: a dismissal that was taken back meanwhile is set again. `AnsweredIsLeftAlone`
   is about what a *review* does to a dismissal.
   `docs/business-rules/07-review-pipeline.md:1040`: "set only by a human action".
8. `MC_ReviewMemory_depth`, **a shallow second review declares fixed what a deep
   first one found** (`ResolvesOnlyItsDepth`, `backend/review/run.go:231`). "A run
   only resolves what it was deep enough to look for" (`reconcile.go:30`), but the
   depth is recorded in `Reconcile` only, which a first run skips: its findings
   have none, and one with no depth is never out of scope.

*The repository on screen, branches and stashes*

9. `MC_RepoScreen_palette`, **the watcher can show half a checkout**
   (`WatcherShowsNoHalfCheckout`, `state/repoStore.ts:298`).
   `lib/repoRefreshGate.ts:14`: "No, while the app is the one doing the writing."
   The palette (`CommandPalette.tsx:204`) and a finding's fix (`FindingCard.tsx:109`)
   start a checkout beside another; the first to end lowers the flag for both.
10. `MC_BranchSwitch_store`, **a rename can lose a stash** (`WorkIsSomewhere`,
    `backend/git/stash.go:201`). The entry is dropped before it is stored again; when
    the store fails it is on no list.
    `docs/business-rules/04-git.md:203`: "No stash is lost or duplicated".
11. `MC_BranchSwitch_rename`, **or drop another and list its own twice**
    (`NoEntryTwice`, `backend/git/stash.go:193`). The commit is looked up by its index
    and dropped by its index in another process; a save in between shifts it.
    `stash_test.go:223`: "a rename must not lose or duplicate an entry".
12. `MC_BranchSwitch_carry`, **a switch may carry to another branch, or another's
    work** (`CarriesWhatItMade`, `state/repoStore.ts:339`). `:324`: "Applies the stash
    the checkout just made onto the branch now checked out." It applies entry 0 of the
    repository on screen to whatever is checked out by then; a second checkout, a
    save or a change of project in between is enough.

*Editor*

13. `MC_EditorTabs_registry`, **a strip may show files that are not open**
    (`RegistryIsWhatIsShown`, `components/editor/EditorView.tsx:262`). `:112`: "Every
    open file, once, however many groups are showing it." `closeGroup` sets, after the
    dialog, the groups of before it; `closeTab` reads again, "groups can have moved on
    while the modal was up" (`:222`).
14. `MC_EditorTabs_unmarked`, **a file of one project in another's tab**
    (`UnmarkedIsTheFiles`, `EditorView.tsx:199`). `openFile` patches the tab of its
    path whatever project is open by then, and a save writes it there. `:328`: "so the
    editor never paints one repo's tabs against another's tree".
15. `MC_EditorTabs_edits`, **a late first read takes unsaved edits** (`EditsAreKept`,
    `EditorView.tsx:199`). A tab closed and opened again while it is first read gets
    two answers; the second lands over what was typed. `:356`: "the user's own edit
    wins until they save or discard it".

*Watcher*

16. `MC_Watcher_dropped`, **a change may never be announced** (`EveryChangeIsAnnounced`,
    `backend/files/watcher.go:174`). `:43`: an event lost costs nothing as "long as at
    least one arrives, and the throttle below guarantees one does". A channel full of
    git's own bookkeeping drops the one change there is, and the loop discards the
    rest.
17. `MC_Watcher_second`, **two watchers may run for one path** (`OneWatcherAPath`,
    `backend/files/watcher.go:79`). `:77`: "a second watcher on the same path would
    double every event". Two Starts that both find nothing to stop both install;
    nobody can stop the first. `OnlyARaceLeaks` says that this is the only way.

Noticed while modelling, without a run of their own: `CancelAll` and the exit
behind it wait for no kill (`runregistry.go:158`, `main.go:163`), so agents may
outlive the application, which is why `Checkpoints` has orphans; a broken stdin
pipe replaces the engine's own account of why it died (`runner.go:215`, where
`docs/business-rules/05-ai-engines.md:1540` wants the account); a stop that comes
after `Wait` leaves a detached grandchild (`runner.go:174`); a restore puts back
what differs when it runs, which may be more than the dialog showed; a frame sent
to a connection whose pump is leaving is accepted and dropped
(`apiclient/streams.go:319`); `Close` during a broker's handshake that outlasts
the grace can lose the DISCONNECT. Of reviews: two findings with one key take one
row's id and conversation (`reconcile.go:65`, although
`docs/business-rules/91-known-bugs.md:31` calls it closed), and a mark then reaches
the first row only; the head filed with a run may be one that no model saw,
and the next review answers "Sin cambios" for it (`run.go:249`); a resolved row
whose finding came back is dropped once that is restated (`reconcile.go:107`,
against `memory.go:54`) and its id may be given out again; a finding that was out
of scope stays so when a deep review restates it (`reconcile.go:83`); the
iteration repeats after an old run is deleted (`run.go:246`); the host's reply for
a resolved finding cannot be reached from the panel, which posts what the run
reports; a crash between a thread opened and its write opens a second one at the
next publish (`commands_publish.go:147`).

Of the repository on screen: a checkout that fails reads nothing again, and leaves
the working tree blank until somebody writes (`repoStore.ts:293`, though the cancel
above it was mended for that reason); a project left and shown again while its
first load is on has its skeleton taken down by that one (`:439`); a pull opens no
generation, so a refresh asked for just before it can show a half-pulled tree
(`:811`). Of stashes: an auto stash that finds nothing to save succeeds, and the
carry then applies an older entry (`repoStore.ts:339`), which is why `CarriesItsOwn`
is about switches that saved something; the sidebar's rows keep the indexes of the
last reading, so a drop sent during a switch may hit the entry just made; a second
question overwrites the first in `confirmStore.ts:45`, and whoever waits for that
one waits for ever; `checkoutBranch` never rejects, so the `catch` of
`FindingCard.tsx:113` is dead. Of the editor: the watcher's word is passed over for
a tab with edits, and undoing these leaves the old text unmarked over a changed
file (`EditorView.tsx:362`); a failed read opens an editable tab that holds the
error message, which a save would write.

## 5. What is proved

`tlapm` checks these for every value of the constants that the modules' named
assumptions admit (finite or not, any number of operations, jobs, connections).

| module | theorem | states |
|---|---|---|
| `AiRun_proofs` | `TypeCorrect` | `Spec => []TypeOK` |
| | `StartsStayInBudget` | `Spec => []StartsWithinBudget` |
| | `WholeReply` | `Spec => []ReplyIsWhole` |
| | `KeepsTheContract` | `Spec => ImplementsContract` |
| `Checkpoints_proofs` | `TypeCorrect` | `Spec => []TypeOK` |
| | `UndoSurvives` | `Spec => []AgentEditsUndoable` |
| | `RestoreExceptMisread` | `Spec => []RestoreMissesOnlyTheMisread` |
| | `NewestAreKept` | `Spec => []PruneKeepsTheNewest` |
| | `NoMoreThanMax` | `Spec => AtMostMaxCheckpoints`, if `Faulty = FALSE` |
| `Streams_proofs` | `TypeCorrect` | `Spec => []TypeOK` |
| | `RegistrySound` | `Spec => []RegistryHoldsTheLiving` |
| | `GoodbyeComesFirst` | `Spec => []GoodbyeFirst` |
| | `NoFalseAlarm` | `Spec => []GoodbyeIsNoFailure` |
| `RepoScreen_proofs` | `TypeCorrect` | `Spec => []TypeOK` |
| | `OneRepoOnScreen` | `Spec => []ScreenIsOfOneRepo` |
| | `NoOldTree` | `Spec => []NothingFromBeforeTheCheckout` |
| | `FlagsAreOwned` | `Spec => []FlagsHaveOwners` |
| | `LoneCheckoutIsHidden` | `Spec => []OnlyOverlapsShowHalf` |
| | `BlankIsFilled` | `Spec => []BlankIsBeingFilled` |
| `BranchSwitch_proofs` | `TypeCorrect` | `Spec => []TypeOK` |
| | `NoWorkLost` | `Spec => []OnlyRenamesMislay` |
| | `CarriesOwn` | `Spec => []CarriesItsOwn` |
| | `AutoStashKept` | `Spec => AutoStashStays` |
| `Watcher_proofs` | `TypeCorrect` | `Spec => []TypeOK` |
| | `ClosedOnce` | `Spec => []StoppedOnce` |
| | `NoLeakWithoutARace` | `Spec => []OnlyARaceLeaks` |
| `ReviewMemory_proofs` | `ListsStayLists` | `Spec => []TypeOK` |
| | `ThreadsStaySingle` | `Spec => []OneThreadOneRow` |
| | `PublishesTheLiving` | `Spec => []AddressesTheLiving` |
| | `IdsStay` | `Spec => IdsKeepTheirFinding` |
| | `SilenceStaysNoFix` | `Spec => SilenceIsNoFix` |
| | `DismissedStays` | `Spec => AnsweredIsLeftAlone` |
| `EditorTabs_proofs` | `TypesAreKept` | `Spec => []TypeOK` |
| | `StripStaysSound` | `Spec => []StripIsSound` |
| | `NothingStaysUnseen` | `Spec => []NothingIsKeptUnseen` |
| | `TabsKeepTheirFile` | `Spec => NoTabLosesItsFile` |
| | `UnmarkedStaysSaved` | `Spec => []UnmarkedIsSaved` |
| | `OnlyOpensTakeEdits` | `Spec => OnlyAnOpenTakesEdits` |

*Assumptions.* `AiRunAssumption` (kinds among the four, bounds natural, a window of
at least a tick), `CheckpointsAssumption` (paths numbered, jobs, dialogs and the
user distinct, `Absent` no content, at least one checkpoint kept),
`StreamsAssumption` (`None` no connection, a channel of at least one),
`ReviewMemoryAssumption` (depths numbered, `Unknown` no commit, `NoRun` neither a
job nor a run), `RepoScreenAssumption`, `BranchSwitchAssumption`,
`WatcherAssumption`, `EditorTabsAssumption` (names distinct, bounds natural, a
channel of at least one). TLC evaluates them in every run. One theorem has a premise of its own,
`NoMoreThanMax`: a prune whose deletion fails leaves one too many by design.
`RunContract` assumes nothing.

*AiRun.* `IInv == TypeOK /\ \A o : Counted(o) /\ Supervised(o)`. `Counted` ties
the number of processes to the phase, the kind, the round and the attempt: without
it nothing forbids a second spawn of a chat turn, since
`StartsWithinBudget` alone says nothing of an operation about to repeat. `Supervised`
says what each phase implies about the process: pumps gone only once the pipe was
read dry, a child reaped only with its pumps gone and its input settled, an
outcome only once it was decided from that. `ReplyIsWhole` follows, and the
refinement: every action maps to a step of `RunContract` or to a stutter, one
lemma each.

*Checkpoints.* `IInv == TypeOK /\ Known /\ Discarded /\ Restoring`. The heart is
`Discarded`: a checkpoint that its own turn is about to drop, or has dropped,
is one from which no path differs by that turn's own hand, because the turn's
agent has stopped writing before the comparison and everyone else who writes takes
the path over (`writer`). `Restoring` says the paths a restore is done with are as
in the snapshot, or were written by others since the comparison, or were misread.

The prune has two invariants beside it. `ListedForAReason`: every checkpoint on a
prune's list of victims, and every one already deleted by a prune, is *superseded*,
that is, as many as are kept were parked and are at least as recent. It is taken
over the lists as well as over what is gone, because a list outlives what was known
when it was made. `Dwindling` counts for `AtMostMaxCheckpoints`: while some prune is
deleting and none has still to take its list, the checkpoints on no such list
(`Spared`) are at most as many as are kept, because the last list taken was of all
there were. A checkpoint parked meanwhile has a prune of its own to come; once the
last one is done, what was spared is all there is.

*Streams.* `IInv == TypeOK /\ RegistryHoldsTheLiving /\ \A c : Sound(c)`.
`Sound(c)` has three parts: `Placed` (which phases of the reader and the writer
go together for each transport, and who may be cancelled when), `Told` (a socket we
shut, of a connection nobody forced, had its goodbye first) and `Parted` (a goodbye
is the last thing written, and a broker marked its shutdown as deliberate before
saying it, which is what its reader goes by).

*RepoScreen.* `IInv` ties every operation to its closures: what it has read is of
its own repository (`ScreenIsOfOneRepo` follows at the landing, from the first half
of `isCurrent`), and what a checkout has left behind belongs to an operation of an
earlier generation (`Dated`; `NothingFromBeforeTheCheckout` follows from the second
half). `LoneCheckoutIsHidden` needs more, `OneCheckout`: a checkout that has not been
beside another is the only one, so the flag is up for as long, no refresh of the
watcher begins meanwhile, and those that began before are older than it.
`BlankIsFilled` needs `Awaited`: while the screen is blank and nothing failed, some
operation *fills*: it has yet to ask, for the repository on screen, or is a checkout
before its reads, or a reading of this generation without its status. No step makes
the last one obsolete without starting, or being, another.

*BranchSwitch.* `IInv == TypeOK /\ Renames /\ Undisturbed /\ CarriesItsOwn /\
OnlyRenamesMislay`. `Renames` says that the index a rename resolved still means the
entry in its hand when it drops it, as long as the rename is alone; one that is not
drops whatever is there, and that is what `mislaid` gains. `Undisturbed` that a switch alone with what it saved finds it on top and its branch
checked out. Work is followed one piece at a time: each action leaves it where it
was, moves it, or settles it. `AutoStashStays` needs a lemma per way a stash
changes: a push keeps every entry, a removal all but one.

*ReviewMemory.* `IInv == Shape /\ Busy /\ Sound /\ Living`. Nothing about the
stored runs is inductive by itself, because a list of findings is copied: into a
review, into a publish, and back. `Held` is the set of all lists wherever they are,
and `Sound` is about those: each is `Good` (no two rows in a place, one key per id),
and any two rows of any two of them which share a conversation share id and key, and
no conversation has a number yet to be given. A step makes at most one new list, and
each of its rows has no conversation, is the *heir* of a row that was held, or is
the one row that just got the next number (`OneMoreList`); the rest of a step only
moves lists or forgets them. `Living` says that each finding a run reported *leads*
its key in every copy of its rows, which is what `indexOf` relies on: `Reconcile`
puts the restated rows, none of them resolved, in front of all that it carries,
and neither a mark nor a publish resolves anything. `Busy`, that a job under way has
no run stored and nobody publishes it, is why a publish writes back to the run it
read.

`Reconcile` itself is treated row by row. `FreshIds`: fresh ids are above those of
the run before and grow along the answer. `Places`: carried rows come after the
restated ones, in their old order; it counts rows whose places are below a number, a
finite set even of an infinite list. With these a row of the new list has a fresh
id and no conversation, or the id, key and conversation of an old row (`FreshOrOld`),
and the three action properties are lemmas about two lists (`ReconcileSorts`,
`FixedWasExamined`, `DismissedIsKept`) and one about the step that makes them
(`MergingIs`).

*EditorTabs.* `IInv == TypeInv /\ NothingIsKeptUnseen /\ CallsFit /\ TabsFit`.
`TypeInv` has the strips sound, and so the groups that a dialog holds, with a lemma
for each operation of `EditorGroups`. `NothingIsKeptUnseen` holds whatever a dialog
puts back, because what is put back is also what the registry is cut down to.
`CallsFit` ties every call of this project to a text that the file has held;
`TabsFit` says the same of what a tab is compared with, unless a call of another
project brought it. `NoTabLosesItsFile` and `OnlyAnOpenTakesEdits` are about steps:
one lemma per action says which paths become bare and which tabs change.

*Watcher.* `IInv` has a part per place a watcher can be: in the registry it runs
and nobody holds it (`Registered`), in a call's hand no other call has it (`Held`).
`Races` and `Cleared` say that without two Starts at once, a Start which has
stopped what there was finds the registry empty when it installs, so that it
overwrites nothing.

*Layout.* `Init` and each action has its lemma, per conjunct where it disturbs
one; a last lemma assembles `IInv /\ [Next]_vars => IInv'`, and each theorem is a
temporal step over those.

*Only model-checked*: liveness (`StopIsReported`, `EveryRunEnds`, `EndsWhenAsked`,
`EndsWhenLeft`, `EveryCallReturns`, `WhatIsHeardIsAnnounced`), which the prover
does not reach, as it does not reach ENABLED; `DropsWhereAimed`; and `StreamPanel`,
whose one run ends in a counterexample. Every other invariant and action property
of the runs has its theorem.

*Notes for who edits the proofs.* tlapm 1.4.5 is happiest with nested
`[f EXCEPT ![o] = [@ EXCEPT !.a = x]]` and no `@` in the inner values, which is
why the actions are written so; a leaf about typing states first that a variable
either changes in the named way or stays; a least element exists by
`NatLessThanWellFounded` and `WFMin` (`LeastNumber`, `LeastIsThere`), and what CHOOSE
picks follows from that; concatenations want their lengths, then their elements, in
steps of their own. `SelectSeq` cannot be expanded and a CASE whose arms overlap
cannot be reasoned about: `EditorGroups` removes the one tab of a path with
`RemoveFirst`, and `DeleteRun` the one place of a run with `RemoveAt`, where the code
filters.

## 6. Abstractions, and what they cost

* Prompts, arguments, the parsing of engines' output and the log view are left
  out: a verdict of the engine stands for what `Interpret` finds. A wrong parse is
  not caught.
* `Repeats` decides by a verdict `network`; how stderr is recognised as such is
  text matching.
* Windows job objects are not modelled: the kill reaches a process group led by
  the child.
* In `Checkpoints` a git command reads the tree at one moment. A snapshot that
  takes seconds over a large repository while an agent writes can be a mixture;
  the model's restore is exact relative to the snapshot taken.
* Executable bits, directories and case-insensitive file systems are left out.
* In `Streams` a frame's content, packet ids and acknowledgements are left out, and
  so is `resolveRequest` in the panel (variables are filled in before the call):
  it is taken as one step with the click.
* In `ReviewMemory` severity, confidence, lines, the iteration and the delta's tallies
  are left out, and so is the report. A path that matches by its suffix counts as
  the same file: `FileInChanged` is a set of keys. A batch refused because the head
  moved is one whose items all fail.
* In `RepoScreen` a slice is read at one moment; `refreshStatus`, whose three reads
  are one promise, is one slice. The branch a checkout is for is left out, and a
  failed read of a folder that is no repository counts as a failure.
* In `BranchSwitch` work has no parts: a piece is in a tree, on a stash or nowhere. An
  apply that reports success has everything arrive that was not settled meanwhile;
  what git merges wrongly without a conflict is not caught. A conflict's markers are not told apart from work that arrived.
* In `EditorTabs` moving a file in the explorer, view modes and Monaco's models are
  left out; a file's text is one of two.
* In `Watcher` all of git's own files are one kind of noise, and notifications of
  the file system are not late.
* Chunks, ticks, edits, sends, rounds, findings and ids are bounded by constants in the guards;
  each is named under CONSTANTS in its module.

## 7. Plan

In this order; each item is a module with its runs, then its theorems.

1. `ReviewMemory`: further runs, each against its sentence: one-to-one matching
   (`91-known-bugs.md:31`) and "Nothing ever deletes a finding" (`memory.go:54`).
2. `EditorTabs`: the explorer's moves.
3. `ChatStore`, over `RunContract`: a reply in flight while the conversation
   changes. Composes with `AiRun` through the contract, which is why the contract
   has an `answer`.
4. `Terminal`: exit once and last, Close waits; liveness of Close under a shell
   that ignores the hang-up. Theorem: exit comes last.
5. `ApiTabs` (`apiTabsStore.ts`, `apiStore.ts`): the tabs' autosave around a switch
   of workspace, which empties the list it saves.
6. `CodeMapIndex`: an abstract cache ("an answer is of one moment") and the two
   halves shown to implement it where they do.
7. Composition: `Watcher` under `RepoScreen`, whose `Announce` now comes at any
   time, and `BranchSwitch` with `RepoScreen`'s flags, which would say which of the
   overlaps the screen really locks out.
8. Proofs: `DropsWhereAimed`; the safety half of the liveness properties (what is enabled as long as
   a run, a connection or a call is not over), and the panel's good properties after
   the connection ids are separated.
