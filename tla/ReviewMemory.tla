---------------------------- MODULE ReviewMemory ----------------------------
(***************************************************************************)
(* The memory of one pull request's reviews (review/).  A model's answer   *)
(* is reconciled with the findings of the last stored run and filed as a   *)
(* run of its own (run.go, reconcile.go); the user marks findings and      *)
(* deletes runs (store.go), and publishes a run to the host, where each    *)
(* finding has one conversation (commands_publish.go, posting.go).         *)
(* Reviews overlap each other and the publish, database and host may fail  *)
(* a call, and the application may die between any two.                    *)
(*                                                                         *)
(* A finding is known by its key, its file and category (identityOf).  A   *)
(* list of findings is a set of rows that know their place in it.          *)
(*                                                                         *)
(* The branch is pushed to, by force perhaps, and fetched, or not, at any  *)
(* time: whenever its ref is resolved it may name any commit.              *)
(***************************************************************************)
EXTENDS Naturals, FiniteSets, SequencesExt

CONSTANTS
    Reviews,      \* review jobs; a run has its job's id
    Keys,         \* what findings are about: file and category
    Anywhere,     \* the keys of findings with no location
    Stripped,     \* a key with its file taken away: the one of its category alone
    Levels,       \* how deep a review looks: reviewLevelRank
    Commits,      \* what the pull request's branch may name
    Unknown,      \* no head_sha recorded
    Faulty,       \* whether the database may fail to read
    NoRun,        \* no row in review_runs
    AtOnce,       \* bound: reviews under way at once
    LastMarked,   \* bound: ids of the findings the user marks
    MaxFindings,  \* bound: findings of one answer
    MaxThreads,   \* bound: conversations opened on the host
    LastId        \* bound: ids of findings

Estados  == {"abierto", "posteado", "resuelto", "fuera_de_alcance", "descartado"}
Unranked == 0                      \* no nivel recorded
NoThread == 0
Answers  == UNION {[1 .. n -> Keys] : n \in 0 .. MaxFindings}

Rows == [pos : Nat, id : Nat, key : Keys, estado : Estados,
         thread : 0 .. MaxThreads, nivel : {Unranked} \cup Levels]
Run  == [head : Commits \cup {Unknown}, level : Levels, text : Answers, rows : SUBSET Rows]

ASSUME ReviewMemoryAssumption ==
    /\ Anywhere \subseteq Keys
    /\ Stripped \in [Keys -> Anywhere] /\ \A k \in Anywhere : Stripped[k] = k
    /\ Levels \subseteq Nat \ {Unranked}
    /\ Unknown \notin Commits /\ NoRun \notin Reviews \cup Run
    /\ Faulty \in BOOLEAN
    /\ AtOnce \in Nat /\ LastMarked \in Nat /\ LastId \in Nat
    /\ MaxFindings \in Nat /\ MaxThreads \in Nat

VARIABLES
    runs,      \* review_runs, by job
    order,     \* the stored runs, oldest first (created_at)
    review,    \* what each job holds in memory
    publish,   \* the publish under way: its run, its copy of the rows, the
               \* findings still to post
    threads    \* conversations opened so far, which numbers them

vars == <<runs, order, review, publish, threads>>

-----------------------------------------------------------------------------
(* Rows.                                                                    *)

Active(r) == r.estado \in {"abierto", "posteado"}
Dismissed == "descartado"          \* falso_positivo and ignorado, treated alike

First(rows)     == CHOOSE r \in rows : \A q \in rows : r.pos <= q.pos
ForKey(rows, k) == {r \in rows : r.key = k}
WithId(rows, n) == {r \in rows : r.id = n}
MaxId(rows)     == IF rows = {} THEN 0
                   ELSE CHOOSE n \in {r.id : r \in rows} : \A r \in rows : r.id <= n

-----------------------------------------------------------------------------
(* Reconciliation.                                                          *)

\* The rows of an answer, which the model numbers from 1.
Parsed(answer) ==
    {[pos |-> i, id |-> i, key |-> answer[i], estado |-> "abierto",
      thread |-> NoThread, nivel |-> Unranked] : i \in DOMAIN answer}

\* A finding that comes back is taken for the old one.
NeverSeen(prev, k) == ForKey(prev, k) = {}

\* A finding nobody has seen, or one that was resolved and has come back.
IsNew(prev, k) ==
    ForKey(prev, k) = {} \/ First(ForKey(prev, k)).estado = "resuelto"

\* Fresh ids go on from the model's numbers only.
FreshAboveAnswer(prev, answer, i) ==
    Len(answer) + Cardinality({n \in 1 .. i : IsNew(prev, answer[n])})

\* The id of the i-th finding of an answer when it is new: above every id of
\* either side.
FreshId(prev, answer, i) ==
    (IF MaxId(prev) > Len(answer) THEN MaxId(prev) ELSE Len(answer))
        + Cardinality({n \in 1 .. i : IsNew(prev, answer[n])})

\* A finding that comes back brings its old thread.
NewRowOldThread(prev, answer, i, level) ==
    [pos |-> i, id |-> FreshId(prev, answer, i), key |-> answer[i], estado |-> "abierto",
     thread |-> IF ForKey(prev, answer[i]) = {} THEN NoThread
                ELSE First(ForKey(prev, answer[i])).thread,
     nivel |-> level]

NewRow(prev, answer, i, level) ==
    [pos |-> i, id |-> FreshId(prev, answer, i), key |-> answer[i],
     estado |-> "abierto", thread |-> NoThread, nivel |-> level]

\* Pass 1: a finding seen before keeps the id, estado and thread of its row.
Restated(prev, answer, level) ==
    {IF IsNew(prev, answer[i]) THEN NewRow(prev, answer, i, level)
     ELSE [First(ForKey(prev, answer[i])) EXCEPT !.pos = i, !.nivel = level]
     : i \in DOMAIN answer}

\* Whether a review is shallower than the one that found r.
OutOfScope(r, level) == r.nivel # Unranked /\ level < r.nivel

\* Silence counts, whatever was examined.
VerdictUnexamined(r, examined, level) ==
    IF ~Active(r) THEN r
    ELSE IF OutOfScope(r, level) THEN [r EXCEPT !.estado = "fuera_de_alcance"]
    ELSE [r EXCEPT !.estado = "resuelto", !.nivel = level]

\* Every row not restated is judged again.
VerdictOnAll(r, examined, level) ==
    IF r.key \notin examined THEN r
    ELSE IF OutOfScope(r, level) THEN [r EXCEPT !.estado = "fuera_de_alcance"]
    ELSE [r EXCEPT !.estado = "resuelto", !.nivel = level]

\* What a review says of a finding it did not restate.
Verdict(r, examined, level) ==
    IF ~Active(r) \/ r.key \notin examined THEN r
    ELSE IF OutOfScope(r, level) THEN [r EXCEPT !.estado = "fuera_de_alcance"]
    ELSE [r EXCEPT !.estado = "resuelto", !.nivel = level]

\* The previous rows that pass 2 goes on with, one per id.
Kept(prev, answer, level) ==
    LET matched == {k \in Keys : /\ \E i \in DOMAIN answer : answer[i] = k
                                 /\ ~IsNew(prev, k)}
        left == {r \in prev : /\ r.key \notin matched
                              /\ WithId(Restated(prev, answer, level), r.id) = {}}
    IN {r \in left : \A q \in WithId(left, r.id) : r.pos <= q.pos}

\* Carried rows keep the place they had.
CarriedInPlace(prev, answer, examined, level) ==
    {Verdict(r, examined, level) : r \in Kept(prev, answer, level)}

\* Pass 2: they follow the restated ones, in their own order.
Carried(prev, answer, examined, level) ==
    {[Verdict(r, examined, level) EXCEPT
        !.pos = Len(answer) + Cardinality({q \in Kept(prev, answer, level) : q.pos <= r.pos})]
     : r \in Kept(prev, answer, level)}

Reconcile(prev, answer, examined, level) ==
    Restated(prev, answer, level) \cup Carried(prev, answer, examined, level)

-----------------------------------------------------------------------------
(* A review.                                                                *)

Idle    == [at |-> "idle", level |-> Unranked, examined |-> {}, answer |-> << >>,
            previous |-> NoRun, rows |-> {}]
NoBatch == [run |-> NoRun, rows |-> {}, todo |-> << >>]

Init ==
    /\ runs = [j \in Reviews |-> NoRun]
    /\ order = << >>
    /\ review = [j \in Reviews |-> Idle]
    /\ publish = NoBatch
    /\ threads = 0

Running(j) == review[j].at # "idle"

\* A job of which nothing is left gives its name to a later one.
Free(j) == ~Running(j) /\ runs[j] = NoRun /\ publish.run # j

\* What LatestRun may answer: a database that fails counts as no run.
Latest == IF order = << >> THEN NoRun ELSE order[Len(order)]
Read   == {Latest} \cup IF Faulty THEN {NoRun} ELSE {}

\* A job is over: what it held is gone.
End(j) == review' = [review EXCEPT ![j] = Idle]

\* Run, up to the model.  It ends there when the last run's commit is the one
\* to review; which files changed since is known when that commit is.
Begin(j, level) ==
    /\ Free(j)
    /\ Cardinality({i \in Reviews : Running(i)}) < AtOnce
    /\ \E prev \in Read, commit \in Commits :
         LET last == IF prev = NoRun THEN Unknown ELSE runs[prev].head
         IN \/ /\ last = commit
               /\ End(j)
            \/ /\ last # commit
               /\ \E changed \in IF last = Unknown THEN {Keys} ELSE SUBSET Keys :
                    review' = [review EXCEPT ![j] =
                                 [Idle EXCEPT !.at = "asking", !.level = level,
                                              !.examined = changed \cup Anywhere]]
    /\ UNCHANGED <<runs, order, publish, threads>>

\* The engine failed or the user stopped it: nothing is filed.
ModelFails(j) ==
    /\ review[j].at = "asking"
    /\ End(j)
    /\ UNCHANGED <<runs, order, publish, threads>>

Merged(j, answer, prev, rows) ==
    /\ \A r \in rows : r.id <= LastId
    /\ review' = [review EXCEPT ![j] = [@ EXCEPT !.at = "merged", !.answer = answer,
                                                 !.previous = prev, !.rows = rows]]

\* persist, CountRuns to Reconcile: a pull request with no run, or whose runs
\* cannot be counted, takes the answer as it is.
ModelAnswers(j, answer) ==
    /\ review[j].at = "asking"
    /\ \/ /\ order = << >> \/ Faulty
          /\ Merged(j, answer, NoRun, Parsed(answer))
       \/ /\ order # << >>
          /\ \E prev \in Read :
               Merged(j, answer, prev,
                      Reconcile(IF prev = NoRun THEN {} ELSE runs[prev].rows,
                                answer, review[j].examined, review[j].level))
    /\ UNCHANGED <<runs, order, publish, threads>>

\* persist: the branch is resolved again, in vain when it is a fork's or gone,
\* and AddRun files the run.
File(j) ==
    /\ review[j].at = "merged"
    /\ \E commit \in Commits \cup {Unknown} :
         runs' = [runs EXCEPT ![j] = [head  |-> commit,
                                      level |-> review[j].level,
                                      text  |-> review[j].answer,
                                      rows  |-> review[j].rows]]
    /\ order' = Append(order, j)
    /\ End(j)
    /\ UNCHANGED <<publish, threads>>

\* AddRun fails: the review is shown and not remembered.
FileFails(j) ==
    /\ review[j].at = "merged"
    /\ End(j)
    /\ UNCHANGED <<runs, order, publish, threads>>

-----------------------------------------------------------------------------
(* Publishing.                                                              *)

\* GetRun: the batch starts from the rows as they are now.  One item for each
\* finding of the run's text, none perhaps: an item the user leaves out, and a
\* whole batch that EnsureUnchanged refuses, end as items whose call fails.
StartPublish(j) ==
    /\ publish.run = NoRun
    /\ runs[j] # NoRun
    /\ publish' = [run |-> j, rows |-> runs[j].rows, todo |-> runs[j].text]
    /\ UNCHANGED <<runs, order, review, threads>>

\* A review on screen whose run is gone, or never was: its comments go out,
\* and nothing remembers their conversations.
PublishGone ==
    /\ publish.run = NoRun
    /\ threads' \in threads + 1 .. MaxThreads
    /\ UNCHANGED <<runs, order, review, publish>>

\* The key an item goes out with.  The panel's parseLocation reads a file only
\* with a line behind it, and sends no file for a finding without one; the
\* memory's keeps that file.
SentAs(k) == {k, Stripped[k]}

\* indexOf: the row that an item is taken for, if there is one.
ItemRow(key) == First(ForKey(publish.rows, key))

\* applyPostOutcome.
Posted(r, thread) ==
    [r EXCEPT !.thread = thread, !.estado = IF @ = "abierto" THEN "posteado" ELSE @]

\* An item whose row has no conversation, or that has no row: one is opened,
\* and noted in the row.
OpenThread(key) ==
    /\ LET found == ForKey(publish.rows, key)
       IN /\ found # {} => ItemRow(key).thread = NoThread
          /\ publish' = [publish EXCEPT
                !.todo = Tail(@),
                !.rows = IF found = {} THEN @
                         ELSE (@ \ {ItemRow(key)}) \cup {Posted(ItemRow(key), threads + 1)}]
    /\ threads < MaxThreads
    /\ threads' = threads + 1
    /\ UNCHANGED <<runs, order, review>>

\* One that has: a reply there, which leaves nothing to note.
Reply(key) ==
    /\ ForKey(publish.rows, key) # {} /\ ItemRow(key).thread # NoThread
    /\ publish' = [publish EXCEPT !.todo = Tail(@)]
    /\ UNCHANGED <<runs, order, review, threads>>

PostItem ==
    /\ publish.todo # << >>
    /\ \E key \in SentAs(Head(publish.todo)) : OpenThread(key) \/ Reply(key)

\* The host fails the item's call: the batch goes on.
HostFails ==
    /\ publish.todo # << >>
    /\ publish' = [publish EXCEPT !.todo = Tail(@)]
    /\ UNCHANGED <<runs, order, review, threads>>

\* WriteFindings puts the whole column back, if the run is still there.
EndPublish ==
    /\ publish.run # NoRun /\ publish.todo = << >>
    /\ IF runs[publish.run] = NoRun THEN UNCHANGED runs
       ELSE runs' = [runs EXCEPT ![publish.run].rows = publish.rows]
    /\ publish' = NoBatch
    /\ UNCHANGED <<order, review, threads>>

WriteFails ==
    /\ publish.run # NoRun /\ publish.todo = << >>
    /\ publish' = NoBatch
    /\ UNCHANGED <<runs, order, review, threads>>

-----------------------------------------------------------------------------
(* The user's edits of the memory.                                          *)

\* What the memory's panel offers for the row it shows.
Marks(r) == IF Active(r) \/ r.estado = "fuera_de_alcance" THEN {Dismissed}
            ELSE IF r.estado = Dismissed THEN {"abierto"} ELSE {}

\* MarkFinding: the mark goes to the first row with the id of the shown one.
MarkFinding(j, shown) ==
    /\ shown.id <= LastMarked
    /\ LET r == First(WithId(runs[j].rows, shown.id))
       IN \E estado \in Marks(shown) :
            runs' = [runs EXCEPT ![j].rows = (@ \ {r}) \cup {[r EXCEPT !.estado = estado]}]
    /\ UNCHANGED <<order, review, publish, threads>>

DeleteRun(j) ==
    /\ runs' = [runs EXCEPT ![j] = NoRun]
    /\ \E i \in DOMAIN order : order[i] = j /\ order' = RemoveAt(order, i)
    /\ UNCHANGED <<review, publish, threads>>

DeleteRunsForPR ==
    /\ order # << >>
    /\ runs' = [j \in Reviews |-> NoRun]
    /\ order' = << >>
    /\ UNCHANGED <<review, publish, threads>>

-----------------------------------------------------------------------------
\* The application dies; what is stored stays, and can be shown again.
Crash ==
    /\ review' = [j \in Reviews |-> Idle]
    /\ publish' = NoBatch
    /\ UNCHANGED <<runs, order, threads>>

Review(j) ==
    \/ \E level \in Levels : Begin(j, level)
    \/ ModelFails(j)
    \/ \E answer \in Answers : ModelAnswers(j, answer)
    \/ File(j) \/ FileFails(j)

Publish ==
    \/ \E j \in Reviews : StartPublish(j)
    \/ PublishGone \/ PostItem \/ HostFails \/ EndPublish \/ WriteFails

User ==
    \/ \E j \in Reviews : DeleteRun(j)
    \/ \E j \in {i \in Reviews : runs[i] # NoRun} :
         \E shown \in runs[j].rows : MarkFinding(j, shown)
    \/ DeleteRunsForPR

Next == (\E j \in Reviews : Review(j)) \/ Publish \/ User \/ Crash

Spec == Init /\ [][Next]_vars

-----------------------------------------------------------------------------
(* What the memory promises.                                                *)

\* A list of findings: no two rows in one place.
Lists == {rows \in SUBSET Rows : \A r, q \in rows : r.pos = q.pos => r = q}

\* Every list of findings is one, wherever it is held, and the runs in order
\* are the stored ones.  About reconcile.go and posting.go, which build lists.
TypeOK ==
    /\ \A j \in Reviews : runs[j] # NoRun => runs[j] \in Run /\ runs[j].rows \in Lists
    /\ \A j \in Reviews : review[j].rows \in Lists
    /\ publish.run \in Reviews \cup {NoRun} /\ publish.rows \in Lists
    /\ ToSet(order) = {j \in Reviews : runs[j] # NoRun}
    /\ threads \in 0 .. MaxThreads

Stored == {j \in Reviews : runs[j] # NoRun}

\* A conversation is noted for one finding: rows that share a thread, in any
\* runs, share their id and key.  So a finding that comes back after it was
\* resolved gets a conversation of its own (Reconcile).  Which finding's comment
\* opened it is another matter: EveryItemFindsItsRow.
OneThreadOneRow ==
    \A i, j \in Stored : \A r \in runs[i].rows, q \in runs[j].rows :
        r.thread = q.thread /\ r.thread # NoThread => r.id = q.id /\ r.key = q.key

\* An item sent with its finding's own key finds a row, and one that stands for
\* what the run reported, never for an earlier, resolved finding under the same
\* key (indexOf takes the first, and relies on the order Reconcile leaves).
AddressesTheLiving ==
    publish.todo # << >> =>
        LET about == Head(publish.todo)
        IN ForKey(publish.rows, about) # {} /\ ItemRow(about).estado # "resuelto"

\* Job j reconciles its answer with a stored run: the rows before and after.
Merging(j) ==
    review[j].at = "asking" /\ review'[j].at = "merged" /\ review'[j].previous # NoRun
Before(j) == runs[review'[j].previous].rows
After(j)  == review'[j].rows

\* An id keeps its finding from one run to the next: a fresh one belongs to no
\* finding of the run before, whatever that run still carries (nextID).
IdsKeepTheirFinding ==
    [][\A j \in Reviews : Merging(j) =>
         \A r, q \in Before(j) \cup After(j) : r.id = q.id => r.key = q.key]_vars

\* The row that stands for a finding is the first of its key.  Those of After
\* whose finding was active and is declared fixed.
Fixed(j) ==
    {r \in After(j) : /\ r.estado = "resuelto"
                      /\ \E q \in ForKey(Before(j), r.key) :
                           /\ q = First(ForKey(Before(j), r.key))
                           /\ q.id = r.id /\ Active(q)}

\* Only a finding whose file was examined and that was not restated is
\* declared fixed (pass 2 of Reconcile, fileWasExamined).
SilenceIsNoFix ==
    [][\A j \in Reviews : Merging(j) =>
         \A r \in Fixed(j) :
            /\ r.key \in review[j].examined
            /\ \A i \in DOMAIN review'[j].answer : review'[j].answer[i] # r.key]_vars

\* No review takes a dismissal back: the row it starts from keeps it under its
\* id, restated or not (Reconcile copies or carries it).  A publish may: see
\* OnlyAPersonDismisses.
AnsweredIsLeftAlone ==
    [][\A j \in Reviews : Merging(j) =>
         \A r \in Before(j), q \in After(j) :
            (/\ r.id = q.id /\ r.estado = Dismissed
             /\ \A p \in WithId(Before(j), r.id) : r.pos <= p.pos)
            => q.estado = Dismissed]_vars

(* What the repository says of this code and the code does not do.          *)

\* FindingIdentity: "posting uses the same key to find a selected item's stored
\* finding: two different keys would mean a posted comment that never gets its
\* thread recorded".  So an item's row is there, and is its finding's.
EveryItemFindsItsRow ==
    publish.todo # << >> =>
        LET about == Head(publish.todo)
        IN \A key \in SentAs(about) : /\ ForKey(publish.rows, key) # {}
                                       /\ ItemRow(key).key = about

\* REVIEW-031: falso_positivo and ignorado "are set only by a human action".  A
\* publish leaves nobody's dismissal in a stored run that was not there.
OnlyAPersonDismisses ==
    [][\A j \in Reviews :
          runs[j] # NoRun /\ runs'[j] # NoRun /\ publish' # publish =>
             \A r \in runs'[j].rows : r.estado = Dismissed =>
                \E q \in runs[j].rows : q.id = r.id /\ q.estado = Dismissed]_vars

\* A review declares fixed only what it was deep enough to look for: nothing
\* that the run before reported itself at a greater depth ("A run only resolves
\* what it was deep enough to look for", reconcile.go:34).
ResolvesOnlyItsDepth ==
    [][\A j \in Reviews : Merging(j) =>
         LET last == runs[review'[j].previous]
         IN \A r \in Fixed(j), i \in DOMAIN last.text :
               last.text[i] = r.key => review[j].level >= last.level]_vars

=============================================================================
