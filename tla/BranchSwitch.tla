--------------------------- MODULE BranchSwitch ---------------------------
(***************************************************************************)
(* What becomes of uncommitted work when a branch is switched under it:    *)
(* checkoutGuarded and carryStashOver of state/repoStore.ts, the stash     *)
(* commands of the sidebar and backend/git/stash.go under both.  Every git *)
(* command is one step; between two of them the user may do anything, and  *)
(* the editor, an agent or a terminal may write.                           *)
(*                                                                         *)
(* A switch and a command happen once and name what they make: the branch  *)
(* a switch checks out, the entry either puts on the stash.  A command's   *)
(* index is any index: the row it was given for may be gone.  Indexes count *)
(* from 1, and a save has none.                                            *)
(***************************************************************************)
EXTENDS Naturals, Sequences, SequencesExt

CONSTANTS
    Repos,      \* repositories
    Works,      \* pieces of uncommitted work
    Switches,   \* bound: checkouts the user starts
    Commands,   \* bound: stash commands of the sidebar
    None,       \* no repository, nothing
    MaxIndex    \* bound: indexes of the stash

ASSUME BranchSwitchAssumption ==
    /\ None \notin Repos \union Switches \union Commands
    /\ Switches \intersect Commands = {}
    /\ MaxIndex \in Nat

VARIABLES
    repoPath,   \* the repository on screen
    tree,       \* each repository's uncommitted work
    stash,      \* each repository's stash, newest first
    head,       \* the switch whose branch is checked out in each, if any
    switch,     \* each checkout: where it is, what the user chose, what it
                \* saved, and what it carried over to what
    command,    \* each stash command
    written,    \* work there has been
    settled,    \* work committed, discarded or dropped: the user is done with it
    alone,      \* the checkouts that saved work, and the renames that found their
                \* entry, and have been alone with it since
    mislaid     \* work that a rename has put out of reach

vars == <<repoPath, tree, stash, head, switch, command, written, settled, alone, mislaid>>

\* git makes no empty entry.
Entry == [by: Switches \union Commands, work: (SUBSET Works) \ {{}}]
Ops == {"save", "apply", "pop", "drop", "rename"}

Checkout == [at: {"idle", "run", "ask", "save", "again", "carry", "over"},
             repo: Repos \union {None},
             choice: {None, "carry", "stash", "cancel"},
             carried: Switches \union Commands \union {None},
             onto: (Repos \X (Switches \union {None})) \union {None}]
StashCommand == [at: {"idle", "sent", "resolved", "cut", "over"},
                 op: Ops \union {None}, repo: Repos \union {None},
                 index: 0..MaxIndex, held: SUBSET Entry]

TypeOK ==
    /\ repoPath \in Repos \union {None}
    /\ tree \in [Repos -> SUBSET Works]
    /\ stash \in [Repos -> Seq(Entry)]
    /\ head \in [Repos -> Switches \union {None}]
    /\ switch \in [Switches -> Checkout]
    /\ command \in [Commands -> StashCommand]
    /\ written \subseteq Works /\ settled \subseteq Works /\ mislaid \subseteq Works
    /\ alone \subseteq Switches \union Commands

Init ==
    /\ repoPath \in Repos
    /\ tree = [r \in Repos |-> {}]
    /\ stash = [r \in Repos |-> <<>>]
    /\ head = [r \in Repos |-> None]
    /\ switch = [s \in Switches |-> [at |-> "idle", repo |-> None, choice |-> None,
                                     carried |-> None, onto |-> None]]
    /\ command = [c \in Commands |-> [at |-> "idle", op |-> None, repo |-> None,
                                      index |-> 0, held |-> {}]]
    /\ written = {} /\ settled = {} /\ alone = {} /\ mislaid = {}

-----------------------------------------------------------------------------
(* git.                                                                     *)

\* git stash push: all of it with -u, and otherwise what is not untracked.
\* Nothing to save is a success that makes no entry.
Push(r, by, untracked) ==
    /\ tree' = [tree EXCEPT ![r] = untracked]
    /\ stash' = IF tree[r] = untracked THEN stash
                ELSE [stash EXCEPT ![r] = <<[by |-> by, work |-> tree[r] \ untracked]>> \o @]

\* git stash apply.  Into a tree that is in the way, or failing otherwise, it
\* does nothing at all; a conflict leaves some of it marked and some of it out.
\* What the branch has already does not arrive, and only work the user is done
\* with can be there: that is a success too.
Outcomes(r, i) ==
    IF i > Len(stash[r])
    THEN {[is |-> "not_found", tree |-> tree[r]]}
    ELSE LET work == stash[r][i].work IN
         {[is |-> "applied", tree |-> tree[r] \union (work \ there)] : there \in SUBSET (work \intersect settled)}
         \union {[is |-> "conflicts", tree |-> tree[r] \union part] : part \in (SUBSET work) \ {work}}
         \union {[is |-> "refused", tree |-> tree[r]]}

Without(q, i) == RemoveAt(q, i)

\* A checkout between its stash and the end of its apply counts on the stash and
\* the branch staying as it left them, and a rename between finding its entry and
\* dropping it on the stash.
Counting(t, r) ==
    \/ t \in Switches /\ switch[t].repo = r /\ switch[t].at \in {"again", "carry"}
    \/ t \in Commands /\ command[t].repo = r /\ command[t].at = "resolved"

Disturbs(r, who) == alone' = {t \in alone : t = who \/ ~Counting(t, r)}

-----------------------------------------------------------------------------
(* The user and everybody else.                                             *)

Write(w, r) ==
    /\ w \notin written
    /\ written' = written \union {w}
    /\ tree' = [tree EXCEPT ![r] = @ \union {w}]
    /\ UNCHANGED <<repoPath, stash, head, switch, command, settled, alone, mislaid>>

\* A commit or a discard.
Settle(r) ==
    /\ tree[r] # {}
    /\ settled' = settled \union tree[r]
    /\ tree' = [tree EXCEPT ![r] = {}]
    /\ UNCHANGED <<repoPath, stash, head, switch, command, written, alone, mislaid>>

\* setRepoPath: another project, or none.
Move(r) ==
    /\ r # repoPath
    /\ repoPath' = r
    /\ UNCHANGED <<tree, stash, head, switch, command, written, settled, alone, mislaid>>

-----------------------------------------------------------------------------
(* The switch.                                                              *)

SwitchGoes(s, stage) == switch' = [switch EXCEPT ![s].at = stage]

StartSwitch(s) ==
    /\ switch[s].at = "idle"
    /\ repoPath # None
    /\ switch' = [switch EXCEPT ![s].at = "run", ![s].repo = repoPath]
    /\ UNCHANGED <<repoPath, tree, stash, head, command, written, settled, alone, mislaid>>

\* A checkout takes uncommitted work along when nothing of it collides.
CheckedOut(s) ==
    LET r == switch[s].repo IN
    /\ head' = [head EXCEPT ![r] = s]
    /\ Disturbs(r, s)

Run(s) ==
    /\ switch[s].at = "run"
    /\ \/ /\ CheckedOut(s)
          /\ SwitchGoes(s, "over")
       \/ /\ tree[switch[s].repo] # {}
          /\ SwitchGoes(s, "ask")
          /\ UNCHANGED <<head, alone>>
       \/ /\ SwitchGoes(s, "over")
          /\ UNCHANGED <<head, alone>>
    /\ UNCHANGED <<repoPath, tree, stash, command, written, settled, mislaid>>

Choose(s, choice) ==
    /\ switch[s].at = "ask"
    /\ switch' = [switch EXCEPT ![s].choice = choice,
                                ![s].at = IF choice = "cancel" THEN "over" ELSE "save"]
    /\ UNCHANGED <<repoPath, tree, stash, head, command, written, settled, alone, mislaid>>

\* The stash a blocked checkout makes takes untracked files with it.  What
\* was in the way may have gone meanwhile, and then it makes none.
Save(s) ==
    LET r == switch[s].repo IN
    /\ switch[s].at = "save"
    /\ \/ /\ Push(r, s, {})
          /\ alone' = {t \in alone : ~Counting(t, r)} \union (IF tree[r] # {} THEN {s} ELSE {})
          /\ SwitchGoes(s, "again")
       \/ /\ SwitchGoes(s, "over")
          /\ UNCHANGED <<tree, stash, alone>>
    /\ UNCHANGED <<repoPath, head, command, written, settled, mislaid>>

Again(s) ==
    /\ switch[s].at = "again"
    /\ \/ /\ CheckedOut(s)
          /\ SwitchGoes(s, IF switch[s].choice = "carry" THEN "carry" ELSE "over")
       \/ /\ SwitchGoes(s, "over")
          /\ UNCHANGED <<head, alone>>
    /\ UNCHANGED <<repoPath, tree, stash, command, written, settled, mislaid>>

\* The oldest entry, the last one of the list.
CarryOldest(s) ==
    LET r == repoPath  i == IF r = None THEN 0 ELSE Len(stash[r]) IN
    /\ switch[s].at = "carry"
    /\ i > 0
    /\ \E o \in Outcomes(r, i) :
         /\ tree' = [tree EXCEPT ![r] = o.tree]
         /\ switch' = [switch EXCEPT ![s].at = "over", ![s].carried = stash[r][i].by,
                                     ![s].onto = <<r, head[r]>>]
    /\ UNCHANGED <<repoPath, stash, head, command, written, settled, alone, mislaid>>

\* With stash_pop.
CarryByPop(s) ==
    LET r == repoPath IN
    /\ switch[s].at = "carry"
    /\ r # None /\ stash[r] # <<>>
    /\ \E o \in Outcomes(r, 1) :
         /\ tree' = [tree EXCEPT ![r] = o.tree]
         /\ stash' = IF o.is = "applied" THEN [stash EXCEPT ![r] = Tail(@)] ELSE stash
         /\ switch' = [switch EXCEPT ![s].at = "over"]
    /\ UNCHANGED <<repoPath, head, command, written, settled, alone, mislaid>>

\* carryStashOver: the newest entry of the repository on screen now, which
\* stays in the list whatever came of it.
Carry(s) ==
    LET r == repoPath IN
    /\ switch[s].at = "carry"
    /\ IF r = None
       THEN SwitchGoes(s, "over") /\ UNCHANGED tree
       ELSE \E o \in Outcomes(r, 1) :
              /\ tree' = [tree EXCEPT ![r] = o.tree]
              /\ switch' = [switch EXCEPT ![s].at = "over",
                   ![s].carried = IF o.is \in {"applied", "conflicts"} THEN stash[r][1].by ELSE @,
                   ![s].onto = IF o.is \in {"applied", "conflicts"} THEN <<r, head[r]>> ELSE @]
    /\ UNCHANGED <<repoPath, stash, head, command, written, settled, alone, mislaid>>

-----------------------------------------------------------------------------
(* The stash commands of the sidebar, on whatever is on screen.             *)

Send(c, op, i) ==
    /\ command[c].at = "idle"
    /\ repoPath # None
    /\ op = "save" => i = 1
    /\ command' = [command EXCEPT ![c] = [at |-> "sent", op |-> op, repo |-> repoPath,
                                          index |-> i, held |-> {}]]
    /\ UNCHANGED <<repoPath, tree, stash, head, switch, written, settled, alone, mislaid>>

CommandGoes(c, stage) == command' = [command EXCEPT ![c].at = stage]

\* Everything a command does to the repository happens at this point of it.
Runs(c, op) ==
    /\ command[c].at = "sent" /\ command[c].op = op
    /\ Disturbs(command[c].repo, None)

Exists(c) == command[c].index <= Len(stash[command[c].repo])

\* Without -u.
StashSave(c) ==
    LET r == command[c].repo IN
    /\ Runs(c, "save")
    /\ \E untracked \in SUBSET tree[r] : Push(r, c, untracked)
    /\ CommandGoes(c, "over")
    /\ UNCHANGED <<repoPath, head, switch, written, settled, mislaid>>

\* Pop drops the entry whatever came of it.
KeepsApplied(op, outcome) == op = "apply"

\* Apply keeps the entry, and pop keeps it unless all of it arrived.
Keeps(op, outcome) == op = "apply" \/ outcome # "applied"

StashApply(c, op) ==
    LET r == command[c].repo  i == command[c].index IN
    /\ Runs(c, op)
    /\ \E o \in Outcomes(r, i) :
         /\ tree' = [tree EXCEPT ![r] = o.tree]
         /\ stash' = IF Exists(c) /\ ~Keeps(op, o.is)
                     THEN [stash EXCEPT ![r] = Without(@, i)] ELSE stash
    /\ CommandGoes(c, "over")
    /\ UNCHANGED <<repoPath, head, switch, written, settled, mislaid>>

StashDrop(c) ==
    LET r == command[c].repo  i == command[c].index IN
    /\ Runs(c, "drop")
    /\ IF Exists(c)
       THEN /\ stash' = [stash EXCEPT ![r] = Without(@, i)]
            /\ settled' = settled \union stash[r][i].work
       ELSE UNCHANGED <<stash, settled>>
    /\ CommandGoes(c, "over")
    /\ UNCHANGED <<repoPath, tree, head, switch, written, mislaid>>

\* RenameStash: the entry's commit by its index, a drop by that index, a
\* store of the commit.  Nothing keeps another git command out between them.
Resolve(c) ==
    LET r == command[c].repo IN
    /\ command[c].at = "sent" /\ command[c].op = "rename"
    /\ IF Exists(c)
       THEN /\ command' = [command EXCEPT ![c].at = "resolved", ![c].held = {stash[r][command[c].index]}]
            /\ alone' = alone \union {c}
       ELSE CommandGoes(c, "over") /\ UNCHANGED alone
    /\ UNCHANGED <<repoPath, tree, stash, head, switch, written, settled, mislaid>>

\* A rename that was overtaken drops whatever is at its index by now.
Cut(c) ==
    LET r == command[c].repo  i == command[c].index IN
    /\ command[c].at = "resolved"
    /\ Disturbs(r, None)
    /\ IF Exists(c)
       THEN /\ stash' = [stash EXCEPT ![r] = Without(@, i)] /\ CommandGoes(c, "cut")
            /\ mislaid' = mislaid \union (IF c \in alone THEN {} ELSE stash[r][i].work)
       ELSE CommandGoes(c, "over") /\ UNCHANGED <<stash, mislaid>>
    /\ UNCHANGED <<repoPath, tree, head, switch, written, settled>>

Store(c) ==
    LET r == command[c].repo IN
    /\ command[c].at = "cut"
    /\ Disturbs(r, None)
    /\ \E e \in command[c].held : stash' = [stash EXCEPT ![r] = <<e>> \o @]
    /\ CommandGoes(c, "over")
    /\ UNCHANGED <<repoPath, tree, head, switch, written, settled, mislaid>>

\* git fails at the command's first steps, and the command ends there.
Refused(c) ==
    /\ command[c].at \in {"sent", "resolved"}
    /\ CommandGoes(c, "over")
    /\ UNCHANGED <<repoPath, tree, stash, head, switch, written, settled, alone, mislaid>>

\* git fails, or the application ends, with the entry in nobody's list.
StoreFails(c) ==
    /\ command[c].at = "cut"
    /\ CommandGoes(c, "over")
    /\ mislaid' = mislaid \union UNION {e.work : e \in command[c].held}
    /\ UNCHANGED <<repoPath, tree, stash, head, switch, written, settled, alone>>

-----------------------------------------------------------------------------
SwitchStep(s) == \/ StartSwitch(s) \/ Run(s) \/ Save(s) \/ Again(s) \/ Carry(s)
                 \/ \E choice \in {"carry", "stash", "cancel"} : Choose(s, choice)

CommandStep(c) == \/ \E op \in Ops, i \in 1..MaxIndex : Send(c, op, i)
                  \/ StashSave(c) \/ StashApply(c, "apply") \/ StashApply(c, "pop")
                  \/ StashDrop(c) \/ Resolve(c) \/ Cut(c) \/ Store(c) \/ Refused(c) \/ StoreFails(c)

Next ==
    \/ \E r \in Repos, w \in Works : Write(w, r)
    \/ \E r \in Repos : Settle(r)
    \/ \E r \in Repos \union {None} : Move(r)
    \/ \E s \in Switches : SwitchStep(s)
    \/ \E c \in Commands : CommandStep(c)

Spec == Init /\ [][Next]_vars

-----------------------------------------------------------------------------
Stashed == UNION {e.work : e \in UNION {Range(stash[r]) : r \in Repos}}
InHand == UNION {e.work : e \in UNION {command[c].held :
                                       c \in {d \in Commands : command[d].at = "cut"}}}
WithinReach == (UNION {tree[r] : r \in Repos}) \union Stashed \union InHand \union settled

(* Work that was written is in a tree or on a stash, unless the user        *)
(* committed, discarded or dropped it: no switch, however it ends and       *)
(* whatever else goes on, no save, apply or pop, and no rename that is left *)
(* alone until its drop and whose store succeeds loses any (repoStore.ts:   *)
(* 326, stash.go:111).  What the two others mislay is all there is to miss: *)
(* the entry dropped by a rename that was overtaken, and the one in the     *)
(* hand of a rename whose store failed (stash.go:193-201).                  *)
OnlyRenamesMislay == written \subseteq WithinReach \union mislaid

(* What a switch carries over is what it saved, and it lands on the branch  *)
(* it checked out.  The apply names neither: it is right because, and only  *)
(* while, nobody changed the stash, the branch or the repository on screen  *)
(* since the save, and says nothing of a switch of which somebody did.      *)
CarriesItsOwn ==
    \A s \in alone \intersect Switches :
        switch[s].carried # None /\ switch[s].onto[1] = switch[s].repo =>
            switch[s].carried = s /\ switch[s].onto[2] = s

Entries == UNION {{e.by : e \in Range(stash[r])} : r \in Repos}

(* The entry a switch made "stays in the list until the user drops it"      *)
(* (repoStore.ts:332): it leaves by a command of the sidebar, and by no     *)
(* step of this or another switch.                                          *)
AutoStashStays ==
    [][\A s \in Switches :
         s \in Entries /\ s \notin Entries' =>
             \E c \in Commands : command'[c] # command[c] /\ command[c].op \in {"pop", "drop", "rename"}]_vars

(* What the code says of itself and does not do.                            *)

(* "No stash is lost or duplicated": but a rename drops its entry before it *)
(* stores it, and no store may follow.                                      *)
WorkIsSomewhere == written \subseteq WithinReach

(* "A rename must not lose or duplicate an entry": but one that is overtaken*)
(* stores its entry next to itself, and has dropped another.                *)
NoEntryTwice == \A r \in Repos : \A i, j \in DOMAIN stash[r] : stash[r][i] = stash[r][j] => i = j

(* "Applies the stash the checkout just made onto the branch now checked    *)
(* out": but it applies entry 0 of whatever repository is on screen.        *)
CarriesWhatItMade ==
    \A s \in Switches :
        switch[s].carried # None => switch[s].carried = s /\ switch[s].onto = <<switch[s].repo, s>>
=============================================================================
