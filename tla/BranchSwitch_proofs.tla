------------------------ MODULE BranchSwitch_proofs ------------------------
(***************************************************************************)
(* No work is lost but what a rename mislays, and none that a switch left  *)
(* alone carries goes where it does not belong, for any number of          *)
(* repositories, switches and stash commands that overlap in any way.      *)
(***************************************************************************)
EXTENDS BranchSwitch, SequenceTheorems, TLAPS

\* A rename has hold of the entry it named, which is where it found it while the
\* rename is alone.
Renames ==
    \A c \in Commands :
        /\ command[c].at \in {"resolved", "cut"} =>
               command[c].op = "rename" /\ \E e \in Entry : command[c].held = {e}
        /\ command[c].at \in {"sent", "resolved", "cut"} =>
               command[c].repo \in Repos /\ command[c].index \in Nat \ {0}
        /\ c \in alone /\ command[c].at = "resolved" =>
               /\ command[c].index \in DOMAIN stash[command[c].repo]
               /\ command[c].held = {stash[command[c].repo][command[c].index]}

\* A switch that is alone with what it saved finds it on top of the stash, and
\* its branch checked out once it carries.
Undisturbed ==
    \A s \in Switches :
        /\ switch[s].at # "idle" => switch[s].repo \in Repos
        /\ switch[s].at # "over" => switch[s].carried = None
        /\ s \in alone => switch[s].at \in {"again", "carry", "over"}
        /\ s \in alone /\ switch[s].at \in {"again", "carry"} =>
               stash[switch[s].repo] # <<>> /\ stash[switch[s].repo][1].by = s
        /\ s \in alone /\ switch[s].at = "carry" => head[switch[s].repo] = s

IInv == TypeOK /\ Renames /\ Undisturbed /\ CarriesItsOwn /\ OnlyRenamesMislay
-----------------------------------------------------------------------------
(***************************************************************************)
(* Stashes.                                                                *)
(***************************************************************************)

\* What is left of a sequence without one of its elements.
LEMMA WithoutOne ==
    ASSUME NEW S, NEW q \in Seq(S), NEW i \in 1 .. Len(q)
    PROVE  /\ Without(q, i) \in Seq(S)
           /\ \A j \in DOMAIN q : j = i \/ \E k \in DOMAIN Without(q, i) : Without(q, i)[k] = q[j]
           /\ \A k \in DOMAIN Without(q, i) : \E j \in DOMAIN q : Without(q, i)[k] = q[j]
  <1> DEFINE a == SubSeq(q, 1, i - 1)
             b == SubSeq(q, i + 1, Len(q))
  <1>1. /\ a \in Seq(S) /\ Len(a) = i - 1 /\ \A k \in 1 .. i - 1 : a[k] = q[k]
        /\ b \in Seq(S) /\ Len(b) = Len(q) - i /\ \A k \in 1 .. Len(q) - i : b[k] = q[i + k]
    OBVIOUS
  <1>2. Without(q, i) = a \o b
    BY DEF Without, RemoveAt
  <1> HIDE DEF a, b
  <1>3. /\ Without(q, i) \in Seq(S) /\ Len(Without(q, i)) = Len(q) - 1
        /\ \A k \in 1 .. i - 1 : Without(q, i)[k] = q[k]
        /\ \A k \in i .. Len(q) - 1 : Without(q, i)[k] = q[k + 1]
    BY <1>1, <1>2
  <1>4. ASSUME NEW j \in 1 .. Len(q), j # i
        PROVE  \E k \in DOMAIN Without(q, i) : Without(q, i)[k] = q[j]
    <2>1. CASE j < i
      BY <1>3, <2>1
    <2>2. CASE j > i
      <3>1. j - 1 \in i .. Len(q) - 1
        BY <2>2
      <3>2. Without(q, i)[j - 1] = q[j]
        BY <1>3, <3>1
      <3>3. j - 1 \in DOMAIN Without(q, i)
        BY <1>3, <3>1
      <3>. QED
        BY <3>2, <3>3
    <2>. QED
      BY <1>4, <2>1, <2>2
  <1>5. ASSUME NEW k \in 1 .. Len(q) - 1
        PROVE  \E j \in 1 .. Len(q) : Without(q, i)[k] = q[j]
    <2>1. CASE k < i
      BY <1>3, <2>1
    <2>2. CASE k >= i
      <3>1. k + 1 \in 1 .. Len(q) /\ Without(q, i)[k] = q[k + 1]
        BY <1>3, <2>2
      <3>. QED
        BY <3>1
    <2>. QED
      BY <2>1, <2>2
  <1>6. DOMAIN q = 1 .. Len(q) /\ DOMAIN Without(q, i) = 1 .. Len(q) - 1
    BY <1>3
  <1>7. \A j \in DOMAIN q : j = i \/ \E k \in DOMAIN Without(q, i) : Without(q, i)[k] = q[j]
    BY <1>4, <1>6
  <1>8. \A k \in DOMAIN Without(q, i) : \E j \in DOMAIN q : Without(q, i)[k] = q[j]
    BY <1>5, <1>6
  <1>. QED
    BY <1>3, <1>7, <1>8

\* An entry on top of a stash.
LEMMA OnTop ==
    ASSUME NEW S, NEW q \in Seq(S), NEW e \in S
    PROVE  /\ <<e>> \o q \in Seq(S) /\ <<e>> \o q # <<>> /\ (<<e>> \o q)[1] = e
           /\ 1 \in DOMAIN (<<e>> \o q)
           /\ \A j \in DOMAIN q : \E k \in DOMAIN (<<e>> \o q) : (<<e>> \o q)[k] = q[j]
           /\ \A k \in DOMAIN (<<e>> \o q) : (<<e>> \o q)[k] = e \/ \E j \in DOMAIN q : (<<e>> \o q)[k] = q[j]
  <1> DEFINE t == <<e>> \o q
  <1>1. t \in Seq(S) /\ Len(t) = Len(q) + 1 /\ t[1] = e /\ \A k \in 2 .. Len(q) + 1 : t[k] = q[k - 1]
    OBVIOUS
  <1>2. ASSUME NEW j \in DOMAIN q PROVE \E k \in DOMAIN t : t[k] = q[j]
    <2>1. j + 1 \in 2 .. Len(q) + 1 /\ j + 1 \in DOMAIN t
      BY <1>1
    <2>2. t[j + 1] = q[j]
      BY <1>1, <2>1
    <2>. QED
      BY <2>1, <2>2
  <1>3. ASSUME NEW k \in DOMAIN t PROVE t[k] = e \/ \E j \in DOMAIN q : t[k] = q[j]
    <2>1. CASE k = 1
      BY <1>1, <2>1
    <2>2. CASE k # 1
      <3>1. k \in 2 .. Len(q) + 1 /\ k - 1 \in DOMAIN q
        BY <1>1, <2>2
      <3>. QED
        BY <1>1, <3>1
    <2>. QED
      BY <2>1, <2>2
  <1>. QED
    BY <1>1, <1>2, <1>3

\* Where a piece of work is.
InTree(w)    == \E r \in Repos : w \in tree[r]
InStash(w)   == \E r \in Repos : \E i \in DOMAIN stash[r] : w \in stash[r][i].work
InTheHand(w) == \E c \in Commands : command[c].at = "cut" /\ \E e \in command[c].held : w \in e.work
Safe(w)      == InTree(w) \/ InStash(w) \/ InTheHand(w) \/ w \in settled \/ w \in mislaid

AllSafe == \A w \in written : Safe(w)

LEMMA Whereabouts == OnlyRenamesMislay <=> AllSafe
  <1> DEFINE Trees == UNION {tree[r] : r \in Repos}
  <1>1. \A w : w \in Trees <=> InTree(w)
    BY DEF InTree
  <1>2. \A w : w \in Stashed <=> InStash(w)
    BY DEF Stashed, InStash, Range
  <1>3. \A w : w \in InHand <=> InTheHand(w)
    BY DEF InHand, InTheHand
  <1>4. OnlyRenamesMislay <=> written \subseteq Trees \union Stashed \union InHand \union settled \union mislaid
    BY DEF OnlyRenamesMislay, WithinReach
  <1>. HIDE DEF Trees
  <1>. QED
    BY <1>1, <1>2, <1>3, <1>4 DEF Safe, AllSafe

-----------------------------------------------------------------------------
(***************************************************************************)
(* Types.                                                                  *)
(***************************************************************************)

LEMMA PushTypes ==
    ASSUME TypeOK, NEW r \in Repos, NEW by \in Switches \union Commands,
           NEW untracked \in SUBSET tree[r], Push(r, by, untracked)
    PROVE  tree' \in [Repos -> SUBSET Works] /\ stash' \in [Repos -> Seq(Entry)]
  <1>1. tree' \in [Repos -> SUBSET Works]
    BY DEF Push, TypeOK
  <1>2. CASE tree[r] = untracked
    BY <1>1, <1>2 DEF Push, TypeOK
  <1>3. CASE tree[r] # untracked
    <2> DEFINE e == [by |-> by, work |-> tree[r] \ untracked]
    <2>1. e \in Entry
      <3>1. tree[r] \in SUBSET Works
        BY DEF TypeOK
      <3>2. tree[r] \ untracked \in (SUBSET Works) \ {{}}
        BY <1>3, <3>1
      <3>. QED
        BY <3>2 DEF Entry
    <2>2. <<e>> \o stash[r] \in Seq(Entry)
      BY <2>1 DEF TypeOK
    <2>3. stash' = [stash EXCEPT ![r] = <<e>> \o stash[r]]
      BY <1>3 DEF Push
    <2>. QED
      BY <1>1, <2>2, <2>3 DEF TypeOK
  <1>. QED
    BY <1>2, <1>3

LEMMA OutcomeTypes ==
    ASSUME TypeOK, NEW r \in Repos, NEW i \in Nat \ {0}, NEW o \in Outcomes(r, i)
    PROVE  /\ o.tree \in SUBSET Works /\ tree[r] \subseteq o.tree
           /\ o.is # "not_found" => i \in 1 .. Len(stash[r])
           /\ o.is = "applied" => stash[r][i].work \subseteq o.tree \union settled
  <1>1. CASE i > Len(stash[r])
    BY <1>1 DEF Outcomes, TypeOK
  <1>2. CASE ~(i > Len(stash[r]))
    <2>1. i \in 1 .. Len(stash[r]) /\ stash[r][i] \in Entry
      BY <1>2 DEF TypeOK
    <2>2. stash[r][i].work \subseteq Works /\ tree[r] \subseteq Works
      BY <2>1 DEF Entry, TypeOK
    <2>. QED
      BY <1>2, <2>1, <2>2 DEF Outcomes
  <1>. QED
    BY <1>1, <1>2

LEMMA DropTypes ==
    ASSUME TypeOK, NEW r \in Repos, NEW i \in 1 .. Len(stash[r])
    PROVE  [stash EXCEPT ![r] = Without(@, i)] \in [Repos -> Seq(Entry)]
  <1>1. stash[r] \in Seq(Entry)
    BY DEF TypeOK
  <1>2. Without(stash[r], i) \in Seq(Entry)
    BY <1>1, WithoutOne
  <1>. QED
    BY <1>2 DEF TypeOK

LEMMA SwitchTypes ==
    ASSUME TypeOK, NEW s \in Switches,
           NEW stage \in {"idle", "run", "ask", "save", "again", "carry", "over"}
    PROVE  [switch EXCEPT ![s].at = stage] \in [Switches -> Checkout]
  <1>1. switch[s] \in Checkout
    BY DEF TypeOK
  <1>2. [switch[s] EXCEPT !.at = stage] \in Checkout
    BY <1>1 DEF Checkout
  <1>. QED
    BY <1>2 DEF TypeOK

LEMMA CommandTypes ==
    ASSUME TypeOK, NEW c \in Commands,
           NEW stage \in {"idle", "sent", "resolved", "cut", "over"}
    PROVE  [command EXCEPT ![c].at = stage] \in [Commands -> StashCommand]
  <1>1. command[c] \in StashCommand
    BY DEF TypeOK
  <1>2. [command[c] EXCEPT !.at = stage] \in StashCommand
    BY <1>1 DEF StashCommand
  <1>. QED
    BY <1>2 DEF TypeOK

LEMMA HeadTypes ==
    ASSUME TypeOK, NEW s \in Switches, switch[s].repo \in Repos, CheckedOut(s)
    PROVE  head' \in [Repos -> Switches \union {None}] /\ alone' \subseteq Switches \union Commands
  BY DEF TypeOK, CheckedOut, Disturbs

LEMMA Placed ==
    ASSUME Renames, Undisturbed
    PROVE  /\ \A c \in Commands : command[c].at \in {"sent", "resolved", "cut"} =>
                                      command[c].repo \in Repos
           /\ \A s \in Switches : switch[s].at # "idle" => switch[s].repo \in Repos
  BY DEF Renames, Undisturbed

\* Every step keeps every variable in its type.
LEMMA TypesStep ==
    ASSUME TypeOK, Renames, Undisturbed, [Next]_vars
    PROVE  TypeOK'
  <1>1. CASE UNCHANGED vars
    BY <1>1 DEF TypeOK, vars, Entry, Checkout, StashCommand
  <1>2. ASSUME NEW r \in Repos, NEW w \in Works, Write(w, r) PROVE TypeOK'
    BY <1>2 DEF TypeOK, Write
  <1>3. ASSUME NEW r \in Repos, Settle(r) PROVE TypeOK'
    BY <1>3 DEF TypeOK, Settle
  <1>4. ASSUME NEW r \in Repos \union {None}, Move(r) PROVE TypeOK'
    BY <1>4 DEF TypeOK, Move
  <1>5. ASSUME NEW s \in Switches, SwitchStep(s) PROVE TypeOK'
    <2>1. CASE StartSwitch(s)
      <3>1. switch[s] \in Checkout /\ repoPath \in Repos \union {None}
        BY DEF TypeOK
      <3>2. [switch[s] EXCEPT !.at = "run", !.repo = repoPath] \in Checkout
        BY <3>1 DEF Checkout
      <3>3. switch' \in [Switches -> Checkout]
        BY <2>1, <3>2 DEF StartSwitch, TypeOK
      <3>. QED
        BY <2>1, <3>3 DEF StartSwitch, TypeOK
    <2>2. CASE Run(s)
      <3>1. switch[s].repo \in Repos
        BY <2>2, Placed DEF Run
      <3>2. switch' \in [Switches -> Checkout]
        <4>1. SwitchGoes(s, "over") \/ SwitchGoes(s, "ask")
          BY <2>2 DEF Run
        <4>. QED
          BY <4>1, SwitchTypes, ZenonT(40) DEF SwitchGoes
      <3>3. head' \in [Repos -> Switches \union {None}] /\ alone' \subseteq Switches \union Commands
        BY <2>2, <3>1, HeadTypes DEF Run, TypeOK
      <3>. QED
        BY <2>2, <3>2, <3>3 DEF Run, TypeOK
    <2>3. CASE Save(s)
      <3>1. switch[s].repo \in Repos
        BY <2>3, Placed DEF Save
      <3>2. switch' \in [Switches -> Checkout]
        <4>1. SwitchGoes(s, "over") \/ SwitchGoes(s, "again")
          BY <2>3 DEF Save
        <4>. QED
          BY <4>1, SwitchTypes, ZenonT(40) DEF SwitchGoes
      <3>3. tree' \in [Repos -> SUBSET Works] /\ stash' \in [Repos -> Seq(Entry)]
        BY <2>3, <3>1, PushTypes DEF Save, TypeOK
      <3>4. alone' \subseteq Switches \union Commands
        BY <2>3 DEF Save, TypeOK
      <3>. QED
        BY <2>3, <3>2, <3>3, <3>4 DEF Save, TypeOK
    <2>4. CASE Again(s)
      <3>1. switch[s].repo \in Repos
        BY <2>4, Placed DEF Again
      <3>2. switch' \in [Switches -> Checkout]
        BY <2>4, SwitchTypes, ZenonT(40) DEF Again, SwitchGoes
      <3>3. head' \in [Repos -> Switches \union {None}] /\ alone' \subseteq Switches \union Commands
        BY <2>4, <3>1, HeadTypes DEF Again, TypeOK
      <3>. QED
        BY <2>4, <3>2, <3>3 DEF Again, TypeOK
    <2>5. CASE Carry(s)
      <3>1. CASE repoPath = None
        BY <2>5, <3>1, SwitchTypes DEF Carry, SwitchGoes, TypeOK
      <3>2. CASE repoPath # None
        <4>1. repoPath \in Repos
          BY <3>2 DEF TypeOK
        <4>2. PICK o \in Outcomes(repoPath, 1) :
                 /\ tree' = [tree EXCEPT ![repoPath] = o.tree]
                 /\ switch' = [switch EXCEPT ![s].at = "over",
                      ![s].carried = IF o.is \in {"applied", "conflicts"} THEN stash[repoPath][1].by ELSE @,
                      ![s].onto = IF o.is \in {"applied", "conflicts"} THEN <<repoPath, head[repoPath]>> ELSE @]
          BY <2>5, <3>2 DEF Carry
        <4>3. o.tree \in SUBSET Works /\ (o.is # "not_found" => 1 \in 1 .. Len(stash[repoPath]))
          BY <4>1, OutcomeTypes
        <4>4. tree' \in [Repos -> SUBSET Works]
          BY <4>1, <4>2, <4>3 DEF TypeOK
        <4>5. switch[s] \in Checkout /\ head[repoPath] \in Switches \union {None}
          BY <4>1 DEF TypeOK
        <4> DEFINE carried == IF o.is \in {"applied", "conflicts"} THEN stash[repoPath][1].by
                              ELSE switch[s].carried
                   onto == IF o.is \in {"applied", "conflicts"} THEN <<repoPath, head[repoPath]>>
                           ELSE switch[s].onto
        <4>6. carried \in Switches \union Commands \union {None}
          <5>1. CASE o.is \in {"applied", "conflicts"}
            <6>1. stash[repoPath] \in Seq(Entry) /\ 1 \in 1 .. Len(stash[repoPath])
              BY <4>1, <4>3, <5>1 DEF TypeOK
            <6>2. stash[repoPath][1] \in Entry
              BY <6>1
            <6>. QED
              BY <5>1, <6>2 DEF Entry
          <5>2. CASE o.is \notin {"applied", "conflicts"}
            BY <4>5, <5>2 DEF Checkout
          <5>. QED
            BY <5>1, <5>2
        <4>7. onto \in (Repos \X (Switches \union {None})) \union {None}
          BY <4>1, <4>5 DEF Checkout
        <4>8. switch' = [switch EXCEPT ![s].at = "over", ![s].carried = carried, ![s].onto = onto]
          BY <4>2, <4>5 DEF TypeOK, Checkout
        <4>. HIDE DEF carried, onto
        <4>9. [switch[s] EXCEPT !.at = "over", !.carried = carried, !.onto = onto] \in Checkout
          BY <4>5, <4>6, <4>7 DEF Checkout
        <4>10. switch' \in [Switches -> Checkout]
          BY <4>8, <4>9 DEF TypeOK
        <4>. QED
          BY <2>5, <4>4, <4>10 DEF Carry, TypeOK
      <3>. QED
        BY <3>1, <3>2
    <2>6. ASSUME NEW choice \in {"carry", "stash", "cancel"}, Choose(s, choice) PROVE TypeOK'
      <3> DEFINE stage == IF choice = "cancel" THEN "over" ELSE "save"
      <3>1. switch[s] \in Checkout
        BY DEF TypeOK
      <3>2. [switch[s] EXCEPT !.choice = choice, !.at = stage] \in Checkout
        BY <3>1, ZenonT(40) DEF Checkout
      <3>3. switch' \in [Switches -> Checkout]
        BY <2>6, <3>2 DEF Choose, TypeOK
      <3>. QED
        BY <2>6, <3>3 DEF Choose, TypeOK
    <2>. QED
      BY <1>5, <2>1, <2>2, <2>3, <2>4, <2>5, <2>6 DEF SwitchStep
  <1>6. ASSUME NEW c \in Commands, CommandStep(c) PROVE TypeOK'
    <2> DEFINE r == command[c].repo
               i == command[c].index
    <2>0. i \in 0 .. MaxIndex /\ command[c] \in StashCommand /\ (Exists(c) => i <= Len(stash[r]))
      BY DEF TypeOK, StashCommand, Exists
    <2>1. ASSUME NEW op \in Ops, NEW j \in 1 .. MaxIndex, Send(c, op, j) PROVE TypeOK'
      <3>1. [at |-> "sent", op |-> op, repo |-> repoPath, index |-> j, held |-> {}] \in StashCommand
        BY BranchSwitchAssumption DEF TypeOK, StashCommand
      <3>2. command' \in [Commands -> StashCommand]
        BY <2>1, <3>1 DEF Send, TypeOK
      <3>. QED
        BY <2>1, <3>2 DEF Send, TypeOK
    <2>2. CASE StashSave(c)
      <3>1. r \in Repos
        BY <2>2, Placed DEF StashSave, Runs
      <3>2. command' \in [Commands -> StashCommand]
        BY <2>2, CommandTypes DEF StashSave, CommandGoes
      <3>3. tree' \in [Repos -> SUBSET Works] /\ stash' \in [Repos -> Seq(Entry)]
        BY <2>2, <3>1, PushTypes DEF StashSave
      <3>. QED
        BY <2>2, <3>2, <3>3 DEF StashSave, Runs, Disturbs, TypeOK
    <2>3. ASSUME NEW op \in Ops, StashApply(c, op) PROVE TypeOK'
      <3>1. r \in Repos /\ i \in Nat \ {0}
        BY <2>3 DEF StashApply, Runs, Renames
      <3>2. PICK o \in Outcomes(r, i) :
               /\ tree' = [tree EXCEPT ![r] = o.tree]
               /\ stash' = IF Exists(c) /\ ~Keeps(op, o.is)
                           THEN [stash EXCEPT ![r] = Without(@, i)] ELSE stash
        BY <2>3 DEF StashApply
      <3>3. o.tree \in SUBSET Works
        BY <3>1, OutcomeTypes
      <3>4. tree \in [Repos -> SUBSET Works]
        BY DEF TypeOK
      <3>5. tree' \in [Repos -> SUBSET Works]
        BY <3>1, <3>2, <3>3, <3>4
      <3>6. CASE Exists(c)
        <4>1. i \in 1 .. Len(stash[r])
          BY <2>0, <3>1, <3>6 DEF TypeOK
        <4>2. [stash EXCEPT ![r] = Without(@, i)] \in [Repos -> Seq(Entry)]
          BY <3>1, <4>1, DropTypes
        <4>3. stash' \in [Repos -> Seq(Entry)]
          BY <3>2, <4>2 DEF TypeOK
        <4>4. command' \in [Commands -> StashCommand]
          BY <2>3, CommandTypes DEF StashApply, CommandGoes
        <4>. QED
          BY <2>3, <3>5, <4>3, <4>4 DEF StashApply, Runs, Disturbs, TypeOK
      <3>7. CASE ~Exists(c)
        <4>1. command' \in [Commands -> StashCommand]
          BY <2>3, CommandTypes DEF StashApply, CommandGoes
        <4>. QED
          BY <2>3, <3>2, <3>5, <3>7, <4>1 DEF StashApply, Runs, Disturbs, TypeOK
      <3>. QED
        BY <3>6, <3>7
    <2>4. CASE StashDrop(c)
      <3>1. r \in Repos /\ i \in Nat \ {0}
        BY <2>4 DEF StashDrop, Runs, Renames
      <3>2. command' \in [Commands -> StashCommand]
        BY <2>4, CommandTypes DEF StashDrop, CommandGoes
      <3>3. stash' \in [Repos -> Seq(Entry)] /\ settled' \subseteq Works
        <4>1. CASE Exists(c)
          <5>1. i \in 1 .. Len(stash[r]) /\ stash[r] \in Seq(Entry)
            BY <2>0, <3>1, <4>1 DEF TypeOK
          <5>2. [stash EXCEPT ![r] = Without(@, i)] \in [Repos -> Seq(Entry)]
            BY <3>1, <5>1, DropTypes
          <5>3. stash[r][i] \in Entry
            BY <5>1
          <5>4. stash[r][i].work \subseteq Works
            BY <5>3 DEF Entry
          <5>. QED
            BY <2>4, <4>1, <5>2, <5>4 DEF StashDrop, TypeOK
        <4>2. CASE ~Exists(c)
          BY <2>4, <4>2 DEF StashDrop, TypeOK
        <4>. QED
          BY <4>1, <4>2
      <3>. QED
        BY <2>4, <3>2, <3>3 DEF StashDrop, Runs, Disturbs, TypeOK
    <2>5. CASE Resolve(c)
      <3>1. r \in Repos /\ i \in Nat \ {0}
        BY <2>5 DEF Resolve, Renames
      <3>2. command' \in [Commands -> StashCommand]
        <4>1. CASE Exists(c)
          <5>1. i \in 1 .. Len(stash[r]) /\ stash[r] \in Seq(Entry)
            BY <2>0, <3>1, <4>1 DEF TypeOK
          <5>2. stash[r][i] \in Entry
            BY <5>1
          <5>3. [command[c] EXCEPT !.at = "resolved", !.held = {stash[r][i]}] \in StashCommand
            BY <2>0, <5>2 DEF StashCommand
          <5>. QED
            BY <2>5, <4>1, <5>3 DEF Resolve, TypeOK
        <4>2. CASE ~Exists(c)
          BY <2>5, <4>2, CommandTypes DEF Resolve, CommandGoes
        <4>. QED
          BY <4>1, <4>2
      <3>. QED
        BY <2>5, <3>2 DEF Resolve, TypeOK
    <2>6. CASE Cut(c)
      <3>1. r \in Repos /\ i \in Nat \ {0}
        BY <2>6 DEF Cut, Renames
      <3>2. command' \in [Commands -> StashCommand]
        BY <2>6, CommandTypes DEF Cut, CommandGoes
      <3>3. stash' \in [Repos -> Seq(Entry)] /\ mislaid' \subseteq Works
        <4>1. CASE Exists(c)
          <5>1. i \in 1 .. Len(stash[r]) /\ stash[r] \in Seq(Entry)
            BY <2>0, <3>1, <4>1 DEF TypeOK
          <5>2. stash[r][i] \in Entry
            BY <5>1
          <5>3. stash[r][i].work \subseteq Works
            BY <5>2 DEF Entry
          <5>4. stash' \in [Repos -> Seq(Entry)]
            BY <2>6, <3>1, <4>1, <5>1, DropTypes DEF Cut
          <5>. QED
            BY <2>6, <4>1, <5>3, <5>4 DEF Cut, TypeOK
        <4>2. CASE ~Exists(c)
          BY <2>6, <4>2 DEF Cut, TypeOK
        <4>. QED
          BY <4>1, <4>2
      <3>. QED
        BY <2>6, <3>2, <3>3 DEF Cut, Disturbs, TypeOK
    <2>7. CASE Store(c)
      <3>1. r \in Repos
        BY <2>7, Placed DEF Store
      <3>2. command' \in [Commands -> StashCommand]
        BY <2>7, CommandTypes DEF Store, CommandGoes
      <3>3. PICK e \in command[c].held : stash' = [stash EXCEPT ![r] = <<e>> \o @]
        BY <2>7 DEF Store
      <3>4. e \in Entry /\ stash[r] \in Seq(Entry)
        BY <2>0, <3>1 DEF StashCommand, TypeOK
      <3>5. <<e>> \o stash[r] \in Seq(Entry)
        BY <3>4
      <3>6. stash' \in [Repos -> Seq(Entry)]
        BY <3>3, <3>5 DEF TypeOK
      <3>. QED
        BY <2>7, <3>2, <3>6 DEF Store, Disturbs, TypeOK
    <2>8. CASE StoreFails(c)
      <3>1. command' \in [Commands -> StashCommand]
        BY <2>8, CommandTypes DEF StoreFails, CommandGoes
      <3>2. \A e \in command[c].held : e.work \subseteq Works
        BY <2>0 DEF StashCommand, Entry
      <3>3. mislaid' \subseteq Works
        BY <2>8, <3>2 DEF StoreFails, TypeOK
      <3>. QED
        BY <2>8, <3>1, <3>3 DEF StoreFails, TypeOK
    <2>10. CASE Refused(c)
      <3>1. command' \in [Commands -> StashCommand]
        BY <2>10, CommandTypes DEF Refused, CommandGoes
      <3>. QED
        BY <2>10, <3>1 DEF Refused, TypeOK
    <2>9. "apply" \in Ops /\ "pop" \in Ops
      BY DEF Ops
    <2>. QED
      BY <1>6, <2>1, <2>2, <2>3, <2>4, <2>5, <2>6, <2>7, <2>8, <2>9, <2>10 DEF CommandStep
  <1>. QED
    BY <1>1, <1>2, <1>3, <1>4, <1>5, <1>6 DEF Next

-----------------------------------------------------------------------------
(***************************************************************************)
(* Renames.                                                                *)
(***************************************************************************)

\* A command that stays as it was, ends, or goes on with what it has hold of.
GoesOn(c) ==
    \/ command'[c] = command[c]
    \/ command'[c].at = "over"
    \/ /\ command[c].at = "resolved" /\ command'[c].at = "cut"
       /\ command'[c].op = command[c].op /\ command'[c].held = command[c].held
       /\ command'[c].repo = command[c].repo /\ command'[c].index = command[c].index

\* No rename is alone any longer whose stash changes before its drop.
LEMMA RenamesKept ==
    ASSUME TypeOK, Renames,
           \A c \in Commands : GoesOn(c),
           \A c \in Commands : c \in alone' /\ command'[c].at = "resolved" =>
                                  c \in alone /\ stash'[command[c].repo] = stash[command[c].repo]
    PROVE  Renames'
  <1> SUFFICES ASSUME NEW c \in Commands
               PROVE  /\ (command[c].at \in {"resolved", "cut"})' =>
                             command[c].op' = "rename" /\ \E e \in Entry : command[c].held' = {e}
                      /\ (command[c].at \in {"sent", "resolved", "cut"})' =>
                             (command[c].repo \in Repos /\ command[c].index \in Nat \ {0})'
                      /\ c \in alone' /\ command[c].at' = "resolved" =>
                             /\ (command[c].index \in DOMAIN stash[command[c].repo])'
                             /\ (command[c].held = {stash[command[c].repo][command[c].index]})'
    BY DEF Renames, Entry
  <1>1. GoesOn(c)
    OBVIOUS
  <1>. QED
    BY <1>1 DEF Renames, GoesOn

\* Of the renames that go on alone none was before its drop in the stash disturbed.
LEMMA Disturbed ==
    ASSUME NEW r, NEW who, who \notin Commands, Disturbs(r, who), NEW c \in Commands, c \in alone'
    PROVE  c \in alone /\ (command[c].at = "resolved" => command[c].repo # r)
  BY DEF Disturbs, Counting

LEMMA RenamesStep ==
    ASSUME TypeOK, Renames, Undisturbed, [Next]_vars
    PROVE  Renames'
  <1>1. ASSUME UNCHANGED <<stash, command>>, \A c \in Commands : c \in alone' => c \in alone
        PROVE  Renames'
    <2>1. \A c \in Commands : GoesOn(c)
      BY <1>1 DEF GoesOn
    <2>. QED
      BY <1>1, <2>1, RenamesKept
  <1>a. \A s \in Switches : s \notin Commands
    BY BranchSwitchAssumption
  <1>2. ASSUME NEW s \in Switches, Save(s) PROVE Renames'
    <2>1. UNCHANGED command /\ \A c \in Commands : GoesOn(c)
      BY <1>2 DEF Save, GoesOn
    <2>2. \A q \in Repos \ {switch[s].repo} : stash'[q] = stash[q]
      BY <1>2 DEF Save, Push, TypeOK
    <2>3. CASE UNCHANGED <<stash, alone>>
      BY <1>1, <2>1, <2>3
    <2>4. CASE alone' = {t \in alone : ~Counting(t, switch[s].repo)} \union (IF tree[switch[s].repo] # {} THEN {s} ELSE {})
      <3>1. \A c \in Commands : c \in alone' /\ command[c].at = "resolved" =>
                                   c \in alone /\ command[c].repo # switch[s].repo
        BY <1>a, <2>4 DEF Counting
      <3>2. \A c \in Commands : command[c].at = "resolved" => command[c].repo \in Repos
        BY DEF Renames
      <3>. QED
        BY <2>1, <2>2, <3>1, <3>2, RenamesKept
    <2>. QED
      BY <1>2, <2>3, <2>4 DEF Save
  <1>3. ASSUME NEW c \in Commands, CommandStep(c) PROVE Renames'
    <2> DEFINE r == command[c].repo
               i == command[c].index
    <2>0. command[c] \in StashCommand /\ i \in Nat
      BY DEF TypeOK, StashCommand
    <2>n. None \notin Commands
      BY BranchSwitchAssumption
    <2>a. ASSUME command' = [command EXCEPT ![c].at = "over"], Disturbs(r, None),
                 \A q \in Repos \ {r} : stash'[q] = stash[q]
          PROVE  Renames'
      <3>1. \A d \in Commands : command'[d] = command[d] \/ command'[d].at = "over"
        BY <2>a DEF TypeOK, StashCommand
      <3>2. \A d \in Commands : d \in alone' /\ command'[d].at = "resolved" =>
                                    d \in alone /\ command[d].repo \in Repos \ {r}
        BY <2>a, <2>n, <3>1, Disturbed DEF Renames
      <3>3. \A d \in Commands : GoesOn(d)
        BY <3>1 DEF GoesOn
      <3>4. \A d \in Commands : d \in alone' /\ command'[d].at = "resolved" =>
                                    d \in alone /\ stash'[command[d].repo] = stash[command[d].repo]
        BY <2>a, <3>2
      <3>. QED
        BY <3>3, <3>4, RenamesKept
    <2>1. ASSUME NEW op \in Ops, NEW j \in 1 .. MaxIndex, Send(c, op, j) PROVE Renames'
      <3>1. /\ UNCHANGED <<stash, alone>> /\ repoPath \in Repos /\ j \in Nat \ {0}
            /\ \A d \in Commands \ {c} : command'[d] = command[d]
            /\ command'[c].at = "sent" /\ command'[c].repo = repoPath /\ command'[c].index = j
        BY <2>1 DEF Send, TypeOK
      <3>. QED
        BY <3>1 DEF Renames, Entry
    <2>2. CASE StashSave(c)
      <3>1. \A q \in Repos \ {r} : stash'[q] = stash[q]
        BY <2>2 DEF StashSave, Push, TypeOK
      <3>. QED
        BY <2>2, <2>a, <3>1 DEF StashSave, Runs, CommandGoes
    <2>3. ASSUME NEW op \in Ops, StashApply(c, op) PROVE Renames'
      <3>1. \A q \in Repos \ {r} : stash'[q] = stash[q]
        BY <2>3 DEF StashApply, TypeOK
      <3>. QED
        BY <2>3, <2>a, <3>1 DEF StashApply, Runs, CommandGoes
    <2>4. CASE StashDrop(c)
      <3>1. \A q \in Repos \ {r} : stash'[q] = stash[q]
        BY <2>4 DEF StashDrop, TypeOK
      <3>. QED
        BY <2>4, <2>a, <3>1 DEF StashDrop, Runs, CommandGoes
    <2>5. CASE Resolve(c)
      <3>1. command[c].op = "rename" /\ r \in Repos /\ i \in Nat \ {0} /\ UNCHANGED stash
        BY <2>5 DEF Resolve, Renames
      <3>2. CASE Exists(c)
        <4>1. i \in DOMAIN stash[r] /\ stash[r][i] \in Entry
          <5>1. stash[r] \in Seq(Entry) /\ i \in 1 .. Len(stash[r])
            BY <3>1, <3>2 DEF Exists, TypeOK
          <5>. QED
            BY <5>1
        <4>2. /\ \A d \in Commands \ {c} : command'[d] = command[d] /\ (d \in alone' => d \in alone)
              /\ command'[c] = [command[c] EXCEPT !.at = "resolved", !.held = {stash[r][i]}]
          BY <2>5, <3>2 DEF Resolve, TypeOK
        <4>3. /\ command'[c].at = "resolved" /\ command'[c].held = {stash[r][i]}
              /\ command'[c].repo = r /\ command'[c].index = i /\ command'[c].op = "rename"
          BY <2>0, <3>1, <4>2 DEF StashCommand
        <4> SUFFICES ASSUME NEW d \in Commands
                     PROVE  /\ command'[d].at \in {"resolved", "cut"} =>
                                   command'[d].op = "rename" /\ \E e \in Entry : command'[d].held = {e}
                            /\ command'[d].at \in {"sent", "resolved", "cut"} =>
                                   command'[d].repo \in Repos /\ command'[d].index \in Nat \ {0}
                            /\ d \in alone' /\ command'[d].at = "resolved" =>
                                   /\ command'[d].index \in DOMAIN stash'[command'[d].repo]
                                   /\ command'[d].held = {stash'[command'[d].repo][command'[d].index]}
          BY DEF Renames, Entry
        <4>4. CASE d = c
          BY <3>1, <4>1, <4>3, <4>4
        <4>5. CASE d # c
          <5>1. command'[d] = command[d] /\ UNCHANGED stash /\ (d \in alone' => d \in alone)
            BY <3>1, <4>2, <4>5
          <5>. QED
            BY <5>1 DEF Renames
        <4>. QED
          BY <4>4, <4>5
      <3>3. CASE ~Exists(c)
        <4>1. CommandGoes(c, "over") /\ UNCHANGED alone
          BY <2>5, <3>3 DEF Resolve
        <4>2. \A d \in Commands : command'[d] = command[d] \/ command'[d].at = "over"
          BY <4>1 DEF CommandGoes, TypeOK, StashCommand
        <4>3. \A d \in Commands : GoesOn(d)
          BY <4>2 DEF GoesOn
        <4>. QED
          BY <3>1, <4>1, <4>3, RenamesKept
      <3>. QED
        BY <3>2, <3>3
    <2>b. ASSUME NEW stage \in {"cut", "over"}, CommandGoes(c, stage),
                 stage = "cut" => command[c].at = "resolved",
                 \/ UNCHANGED <<stash, alone>>
                 \/ Disturbs(r, None) /\ \A q \in Repos \ {r} : stash'[q] = stash[q]
          PROVE  Renames'
      <3>1. \A d \in Commands : GoesOn(d)
        <4>1. /\ \A d \in Commands \ {c} : command'[d] = command[d]
              /\ command'[c] = [command[c] EXCEPT !.at = stage]
          BY <2>b DEF CommandGoes, TypeOK
        <4>2. GoesOn(c)
          BY <2>b, <2>0, <4>1 DEF GoesOn, StashCommand
        <4>. QED
          BY <4>1, <4>2 DEF GoesOn
      <3>2. \A d \in Commands : command'[d].at = "resolved" => command[d].at = "resolved"
        BY <2>b DEF CommandGoes, TypeOK, StashCommand
      <3>3. \A d \in Commands : d \in alone' /\ command'[d].at = "resolved" =>
                                    d \in alone /\ stash'[command[d].repo] = stash[command[d].repo]
        <4> SUFFICES ASSUME NEW d \in Commands, d \in alone', command'[d].at = "resolved"
                     PROVE  d \in alone /\ stash'[command[d].repo] = stash[command[d].repo]
          OBVIOUS
        <4>1. command[d].repo \in Repos /\ command[d].at = "resolved"
          BY <3>2 DEF Renames
        <4>2. CASE UNCHANGED <<stash, alone>>
          BY <4>2
        <4>3. CASE Disturbs(r, None) /\ \A q \in Repos \ {r} : stash'[q] = stash[q]
          BY <2>n, <4>1, <4>3, Disturbed
        <4>. QED
          BY <2>b, <4>2, <4>3
      <3>. QED
        BY <3>1, <3>3, RenamesKept
    <2>6. CASE Cut(c)
      <3>1. \A q \in Repos \ {r} : stash'[q] = stash[q]
        BY <2>6 DEF Cut, TypeOK
      <3>2. CommandGoes(c, "cut") \/ CommandGoes(c, "over")
        BY <2>6 DEF Cut
      <3>. QED
        BY <2>6, <2>b, <3>1, <3>2 DEF Cut
    <2>7. CASE Store(c)
      <3>1. \A q \in Repos \ {r} : stash'[q] = stash[q]
        BY <2>7 DEF Store, TypeOK
      <3>. QED
        BY <2>7, <2>b, <3>1 DEF Store
    <2>8. CASE StoreFails(c) \/ Refused(c)
      BY <2>8, <2>b DEF StoreFails, Refused
    <2>9. "apply" \in Ops /\ "pop" \in Ops
      BY DEF Ops
    <2>. QED
      BY <1>3, <2>1, <2>2, <2>3, <2>4, <2>5, <2>6, <2>7, <2>8, <2>9 DEF CommandStep
  <1>4. CASE UNCHANGED vars
    BY <1>1, <1>4 DEF vars
  <1>5. ASSUME NEW r \in Repos, NEW w \in Works, Write(w, r) PROVE Renames'
    BY <1>1, <1>5 DEF Write
  <1>6. ASSUME NEW r \in Repos, Settle(r) PROVE Renames'
    BY <1>1, <1>6 DEF Settle
  <1>7. ASSUME NEW r \in Repos \union {None}, Move(r) PROVE Renames'
    BY <1>1, <1>7 DEF Move
  <1>8. ASSUME NEW s \in Switches, SwitchStep(s) PROVE Renames'
    <2>1. CASE Run(s) \/ Again(s)
      BY <1>1, <2>1 DEF Run, Again, CheckedOut, Disturbs
    <2>2. CASE StartSwitch(s) \/ Carry(s) \/ \E choice \in {"carry", "stash", "cancel"} : Choose(s, choice)
      BY <1>1, <2>2 DEF StartSwitch, Carry, Choose
    <2>. QED
      BY <1>2, <1>8, <2>1, <2>2 DEF SwitchStep
  <1>. QED
    BY <1>3, <1>4, <1>5, <1>6, <1>7, <1>8 DEF Next

-----------------------------------------------------------------------------
(***************************************************************************)
(* What a switch carries.                                                  *)
(***************************************************************************)

\* The parts of Undisturbed and CarriesItsOwn about one switch.
Well(s) ==
    /\ switch[s].at # "idle" => switch[s].repo \in Repos
    /\ switch[s].at # "over" => switch[s].carried = None
    /\ s \in alone => switch[s].at \in {"again", "carry", "over"}
    /\ s \in alone /\ switch[s].at \in {"again", "carry"} =>
           stash[switch[s].repo] # <<>> /\ stash[switch[s].repo][1].by = s
    /\ s \in alone /\ switch[s].at = "carry" => head[switch[s].repo] = s
    /\ s \in alone /\ switch[s].carried # None /\ switch[s].onto[1] = switch[s].repo =>
           switch[s].carried = s /\ switch[s].onto[2] = s

LEMMA AllWell == TypeOK => (Undisturbed /\ CarriesItsOwn <=> \A s \in Switches : Well(s))
  BY DEF TypeOK, Undisturbed, CarriesItsOwn, Well

\* A switch a step leaves alone is as well as before, if the step touches no
\* stash and no branch it counts on.
LEMMA StaysWell ==
    ASSUME NEW s \in Switches, Well(s), switch'[s] = switch[s], s \in alone' => s \in alone,
           s \in alone' /\ switch[s].at \in {"again", "carry"} =>
               stash'[switch[s].repo] = stash[switch[s].repo] /\ head'[switch[s].repo] = head[switch[s].repo]
    PROVE  Well(s)'
  BY DEF Well

\* One that is over has carried nothing, or what it carried was its own.
LEMMA EndsWell ==
    ASSUME NEW s \in Switches, Well(s), switch[s].at # "idle", switch'[s].at = "over",
           switch'[s].repo = switch[s].repo, switch'[s].carried = None
    PROVE  Well(s)'
  BY DEF Well

LEMMA OthersStayWell ==
    ASSUME TypeOK, NEW r \in Repos, NEW who, Disturbs(r, who),
           NEW s \in Switches, s # who, Well(s), switch'[s] = switch[s],
           \A q \in Repos \ {r} : stash'[q] = stash[q] /\ head'[q] = head[q]
    PROVE  Well(s)'
  <1>1. s \in alone' => s \in alone /\ ~Counting(s, r)
    BY DEF Disturbs
  <1>2. switch[s].at \in {"again", "carry"} => switch[s].repo \in Repos
    BY DEF Well
  <1>. QED
    BY <1>1, <1>2, StaysWell DEF Counting

LEMMA WellStep ==
    ASSUME TypeOK, Renames, Undisturbed, CarriesItsOwn, [Next]_vars
    PROVE  \A s \in Switches : Well(s)'
  <1>0. \A s \in Switches : Well(s)
    BY AllWell
  <1>1. ASSUME UNCHANGED <<stash, head, switch>>, \A s \in Switches : s \in alone' => s \in alone
        PROVE  \A s \in Switches : Well(s)'
    BY <1>0, <1>1, StaysWell
  <1>2. ASSUME NEW s \in Switches, SwitchStep(s) PROVE \A t \in Switches : Well(t)'
    <2> DEFINE r == switch[s].repo
    <2>0. switch[s] \in Checkout /\ Well(s) /\ (switch[s].at # "idle" => r \in Repos) /\ s # None
      BY <1>0, BranchSwitchAssumption DEF TypeOK, Well
    <2>1. \A t \in Switches \ {s} : switch'[t] = switch[t]
      BY <1>2 DEF SwitchStep, StartSwitch, Run, Save, Again, Carry, Choose, SwitchGoes, TypeOK
    <2>a. ASSUME NEW t \in Switches \ {s}, UNCHANGED <<stash, head, alone>> PROVE Well(t)'
      BY <1>0, <2>1, <2>a, StaysWell
    <2>2. CASE StartSwitch(s)
      <3>1. UNCHANGED <<stash, head, alone>> /\ repoPath \in Repos
        BY <2>2 DEF StartSwitch, TypeOK
      <3>2. switch'[s].at = "run" /\ switch'[s].repo = repoPath /\ switch'[s].carried = switch[s].carried
        BY <2>0, <2>2 DEF StartSwitch, TypeOK, Checkout
      <3>3. Well(s)'
        BY <2>0, <2>2, <3>1, <3>2 DEF StartSwitch, Well
      <3>. QED
        BY <2>a, <3>1, <3>3
    <2>3. CASE Run(s)
      <3>1. s \notin alone /\ r \in Repos
        BY <2>0, <2>3 DEF Run, Well
      <3>2. /\ switch'[s].at \in {"ask", "over"} /\ switch'[s].repo = r
            /\ switch'[s].carried = None
        BY <2>0, <2>3 DEF Run, SwitchGoes, TypeOK, Checkout, Well
      <3>3. CASE CheckedOut(s)
        <4>1. \A q \in Repos \ {r} : stash'[q] = stash[q] /\ head'[q] = head[q]
          BY <2>3, <3>3 DEF Run, CheckedOut, TypeOK
        <4>2. \A t \in Switches \ {s} : Well(t)'
          BY <1>0, <2>1, <3>1, <3>3, <4>1, OthersStayWell DEF CheckedOut
        <4>3. s \notin alone'
          BY <3>1, <3>3 DEF CheckedOut, Disturbs
        <4>. QED
          BY <3>1, <3>2, <4>2, <4>3 DEF Well
      <3>4. CASE UNCHANGED <<head, alone>>
        <4>1. Well(s)'
          BY <3>1, <3>2, <3>4 DEF Well
        <4>. QED
          BY <2>3, <2>a, <3>4, <4>1 DEF Run
      <3>. QED
        BY <2>3, <3>3, <3>4 DEF Run
    <2>4. CASE Save(s)
      <3>1. s \notin alone /\ r \in Repos
        BY <2>0, <2>4 DEF Save, Well
      <3>2. switch'[s].at \in {"again", "over"} /\ switch'[s].repo = r /\ switch'[s].carried = None
        BY <2>0, <2>4 DEF Save, SwitchGoes, TypeOK, Checkout, Well
      <3>3. CASE Push(r, s, {}) /\ alone' = {t \in alone : ~Counting(t, r)}
                                              \union (IF tree[r] # {} THEN {s} ELSE {})
        <4>1. \A t \in Switches \ {s} : Well(t)'
          <5> TAKE t \in Switches \ {s}
          <5>1. t \in alone' => t \in alone /\ ~Counting(t, r)
            BY <3>3
          <5>2. \A q \in Repos \ {r} : stash'[q] = stash[q] /\ head'[q] = head[q]
            BY <2>4, <3>3 DEF Save, Push, TypeOK
          <5>3. switch[t].at \in {"again", "carry"} => switch[t].repo \in Repos
            BY <1>0 DEF Well
          <5>. QED
            BY <1>0, <2>1, <5>1, <5>2, <5>3, StaysWell DEF Counting
        <4>2. CASE tree[r] = {}
          BY <3>1, <3>2, <3>3, <4>1, <4>2 DEF Well
        <4>3. CASE tree[r] # {}
          <5> DEFINE e == [by |-> s, work |-> tree[r] \ {}]
          <5>1. e \in Entry
            <6>1. tree[r] \ {} \in (SUBSET Works) \ {{}}
              BY <3>1, <4>3 DEF TypeOK
            <6>. QED
              BY <6>1 DEF Entry
          <5>2. stash'[r] = <<e>> \o stash[r]
            BY <3>1, <3>3, <4>3 DEF Push, TypeOK
          <5>3. stash[r] \in Seq(Entry) /\ e.by = s
            BY <3>1 DEF TypeOK
          <5> HIDE DEF e
          <5>4. stash'[r] # <<>> /\ stash'[r][1].by = s
            BY <5>1, <5>2, <5>3, OnTop
          <5>5. switch'[s].at # "carry"
            BY <3>2
          <5>. QED
            BY <3>1, <3>2, <4>1, <5>4, <5>5 DEF Well
        <4>. QED
          BY <4>2, <4>3
      <3>4. CASE SwitchGoes(s, "over") /\ UNCHANGED <<stash, alone>>
        <4>1. Well(s)'
          BY <3>1, <3>2, <3>4 DEF Well
        <4>. QED
          BY <2>4, <2>a, <3>4, <4>1 DEF Save
      <3>. QED
        BY <2>4, <3>3, <3>4 DEF Save
    <2>5. CASE Again(s)
      <3>1. r \in Repos /\ UNCHANGED stash
        BY <2>0, <2>5 DEF Again
      <3>2. switch'[s].at \in {"carry", "over"} /\ switch'[s].repo = r /\ switch'[s].carried = None
        BY <2>0, <2>5 DEF Again, SwitchGoes, TypeOK, Checkout, Well
      <3>3. CASE CheckedOut(s)
        <4>1. (\A q \in Repos \ {r} : stash'[q] = stash[q] /\ head'[q] = head[q]) /\ head'[r] = s
          BY <3>1, <3>3 DEF CheckedOut, TypeOK
        <4>2. \A t \in Switches \ {s} : Well(t)'
          BY <1>0, <2>1, <3>1, <3>3, <4>1, OthersStayWell DEF CheckedOut
        <4>3. s \in alone' => s \in alone
          BY <3>3 DEF CheckedOut, Disturbs
        <4>4. s \in alone => stash'[r] # <<>> /\ stash'[r][1].by = s
          BY <2>0, <2>5, <3>1 DEF Again, Well
        <4>. QED
          BY <3>1, <3>2, <4>1, <4>2, <4>3, <4>4 DEF Well
      <3>4. CASE SwitchGoes(s, "over") /\ UNCHANGED <<head, alone>>
        <4>1. switch'[s].at = "over"
          BY <2>0, <3>4 DEF SwitchGoes, TypeOK, Checkout
        <4>2. Well(s)'
          BY <2>0, <2>5, <3>2, <4>1, EndsWell DEF Again
        <4>. QED
          BY <2>a, <3>1, <3>4, <4>2
      <3>. QED
        BY <2>5, <3>3, <3>4 DEF Again
    <2>6. CASE Carry(s)
      <3>1. UNCHANGED <<stash, head, alone>> /\ r \in Repos /\ switch[s].carried = None
        BY <2>0, <2>6 DEF Carry, Well
      <3>2. s \in alone => stash[r] # <<>> /\ stash[r][1].by = s /\ head[r] = s
        BY <2>0, <2>6 DEF Carry, Well
      <3>3. /\ switch'[s].at = "over" /\ switch'[s].repo = r
            /\ \/ switch'[s].carried = None
               \/ switch'[s].carried = stash[repoPath][1].by /\ switch'[s].onto = <<repoPath, head[repoPath]>>
        <4>1. CASE repoPath = None
          BY <2>0, <2>6, <3>1, <4>1 DEF Carry, SwitchGoes, TypeOK, Checkout
        <4>2. CASE repoPath # None
          <5>1. PICK o \in Outcomes(repoPath, 1) :
                   switch' = [switch EXCEPT ![s].at = "over",
                        ![s].carried = IF o.is \in {"applied", "conflicts"} THEN stash[repoPath][1].by ELSE @,
                        ![s].onto = IF o.is \in {"applied", "conflicts"} THEN <<repoPath, head[repoPath]>> ELSE @]
            BY <2>6, <4>2 DEF Carry
          <5>2. CASE o.is \in {"applied", "conflicts"}
            BY <2>0, <5>1, <5>2 DEF TypeOK, Checkout
          <5>3. CASE o.is \notin {"applied", "conflicts"}
            BY <2>0, <3>1, <5>1, <5>3 DEF TypeOK, Checkout
          <5>. QED
            BY <5>2, <5>3
        <4>. QED
          BY <4>1, <4>2
      <3>4. s \in alone /\ switch'[s].carried # None /\ switch'[s].onto[1] = r =>
                switch'[s].carried = s /\ switch'[s].onto[2] = s
        BY <3>2, <3>3
      <3>5. Well(s)'
        BY <3>1, <3>3, <3>4 DEF Well
      <3>. QED
        BY <2>a, <3>1, <3>5
    <2>7. ASSUME NEW choice \in {"carry", "stash", "cancel"}, Choose(s, choice)
          PROVE  \A t \in Switches : Well(t)'
      <3>1. UNCHANGED <<stash, head, alone>> /\ s \notin alone /\ r \in Repos
        BY <2>0, <2>7 DEF Choose, Well
      <3>2. switch'[s].at \in {"save", "over"} /\ switch'[s].repo = r /\ switch'[s].carried = None
        BY <2>0, <2>7 DEF Choose, TypeOK, Checkout, Well
      <3>3. Well(s)'
        BY <3>1, <3>2 DEF Well
      <3>. QED
        BY <2>a, <3>1, <3>3
    <2>. QED
      BY <1>2, <2>2, <2>3, <2>4, <2>5, <2>6, <2>7 DEF SwitchStep
  <1>3. ASSUME NEW c \in Commands, CommandStep(c) PROVE \A t \in Switches : Well(t)'
    <2> DEFINE r == command[c].repo
    <2>1. ASSUME command[c].at \in {"sent", "resolved", "cut"}, Disturbs(r, None), UNCHANGED <<head, switch>>,
                 \A q \in Repos \ {r} : stash'[q] = stash[q]
          PROVE  \A t \in Switches : Well(t)'
      <3>1. r \in Repos
        BY <2>1, Placed
      <3>. QED
        BY <1>0, <2>1, <3>1, OthersStayWell, BranchSwitchAssumption
    <2>2. CASE \E op \in Ops, i \in 1 .. MaxIndex : Send(c, op, i)
      BY <1>1, <2>2 DEF Send
    <2>3. CASE StashSave(c)
      BY <2>1, <2>3 DEF StashSave, Push, Runs, TypeOK
    <2>4. CASE StashApply(c, "apply") \/ StashApply(c, "pop")
      BY <2>1, <2>4 DEF StashApply, Runs, TypeOK
    <2>5. CASE StashDrop(c)
      BY <2>1, <2>5 DEF StashDrop, Runs, TypeOK
    <2>6. CASE Resolve(c)
      BY <1>1, <2>6, BranchSwitchAssumption DEF Resolve
    <2>7. CASE Cut(c)
      BY <2>1, <2>7 DEF Cut, TypeOK
    <2>8. CASE Store(c)
      BY <2>1, <2>8 DEF Store, TypeOK
    <2>9. CASE StoreFails(c) \/ Refused(c)
      BY <1>1, <2>9 DEF StoreFails, Refused
    <2>. QED
      BY <1>3, <2>2, <2>3, <2>4, <2>5, <2>6, <2>7, <2>8, <2>9 DEF CommandStep
  <1>4. CASE UNCHANGED vars
    BY <1>1, <1>4 DEF vars
  <1>5. ASSUME NEW r \in Repos, NEW w \in Works, Write(w, r) PROVE \A t \in Switches : Well(t)'
    BY <1>1, <1>5 DEF Write
  <1>6. ASSUME NEW r \in Repos, Settle(r) PROVE \A t \in Switches : Well(t)'
    BY <1>1, <1>6 DEF Settle
  <1>7. ASSUME NEW r \in Repos \union {None}, Move(r) PROVE \A t \in Switches : Well(t)'
    BY <1>1, <1>7 DEF Move
  <1>. QED
    BY <1>2, <1>3, <1>4, <1>5, <1>6, <1>7 DEF Next

-----------------------------------------------------------------------------
(***************************************************************************)
(* Where work is.                                                          *)
(***************************************************************************)

\* A step that leaves every entry in its stash.
AllStay == \A q \in Repos : \A j \in DOMAIN stash[q] :
               \E k \in DOMAIN stash'[q] : stash'[q][k] = stash[q][j]

\* A step that leaves every entry in its stash, or out of its
\* list with its work safe.
Kept == \A q \in Repos : \A j \in DOMAIN stash[q] :
            \/ \E k \in DOMAIN stash'[q] : stash'[q][k] = stash[q][j]
            \/ \A w \in stash[q][j].work : Safe(w)'

\* Nothing is lost when no tree, no entry and no hand loses any.
LEMMA NothingLost ==
    ASSUME NEW w, Safe(w), InTree(w) => Safe(w)', Kept,
           InTheHand(w) => Safe(w)', settled \subseteq settled', mislaid \subseteq mislaid'
    PROVE  Safe(w)'
  <1>1. CASE InStash(w)
    <2>1. PICK q \in Repos : \E j \in DOMAIN stash[q] : w \in stash[q][j].work
      BY <1>1 DEF InStash
    <2>2. PICK j \in DOMAIN stash[q] : w \in stash[q][j].work
      BY <2>1
    <2>3. CASE \E k \in DOMAIN stash'[q] : stash'[q][k] = stash[q][j]
      <3>1. InStash(w)'
        BY <2>2, <2>3 DEF InStash
      <3>. QED
        BY <3>1 DEF Safe
    <2>4. CASE \A v \in stash[q][j].work : Safe(v)'
      BY <2>2, <2>4
    <2>. QED
      BY <2>3, <2>4 DEF Kept
  <1>2. CASE w \in settled \/ w \in mislaid
    BY <1>2 DEF Safe
  <1>. QED
    BY <1>1, <1>2 DEF Safe

LEMMA SameStash == UNCHANGED stash => AllStay /\ Kept
  BY DEF AllStay, Kept

\* One entry out of one stash.
LEMMA OneOut ==
    ASSUME TypeOK, NEW r \in Repos, NEW i \in 1 .. Len(stash[r]),
           stash' = [stash EXCEPT ![r] = Without(@, i)], \A w \in stash[r][i].work : Safe(w)'
    PROVE  Kept
  <1> SUFFICES ASSUME NEW q \in Repos, NEW j \in DOMAIN stash[q]
               PROVE  \/ \E k \in DOMAIN stash'[q] : stash'[q][k] = stash[q][j]
                      \/ \A w \in stash[q][j].work : Safe(w)'
    BY DEF Kept
  <1>1. CASE q # r
    BY <1>1 DEF TypeOK
  <1>2. CASE q = r
    <2>1. stash[r] \in Seq(Entry) /\ stash'[r] = Without(stash[r], i)
      BY DEF TypeOK
    <2>2. j = i \/ \E k \in DOMAIN Without(stash[r], i) : Without(stash[r], i)[k] = stash[r][j]
      BY <1>2, <2>1, WithoutOne
    <2>. QED
      BY <1>2, <2>1, <2>2
  <1>. QED
    BY <1>1, <1>2

\* One entry on top of one stash.
LEMMA OneIn ==
    ASSUME TypeOK, NEW r \in Repos, NEW e \in Entry, stash' = [stash EXCEPT ![r] = <<e>> \o @]
    PROVE  AllStay /\ Kept /\ \A w \in e.work : InStash(w)'
  <1>1. stash[r] \in Seq(Entry) /\ stash'[r] = <<e>> \o stash[r]
    BY DEF TypeOK
  <1>2. \A q \in Repos : \A j \in DOMAIN stash[q] :
            \E k \in DOMAIN stash'[q] : stash'[q][k] = stash[q][j]
    <2> TAKE q \in Repos
    <2> TAKE j \in DOMAIN stash[q]
    <2>1. CASE q # r
      BY <2>1 DEF TypeOK
    <2>2. CASE q = r
      BY <1>1, <2>2, OnTop, SMTT(30)
    <2>. QED
      BY <2>1, <2>2
  <1>3. 1 \in DOMAIN stash'[r] /\ stash'[r][1] = e
    BY <1>1, OnTop
  <1>. QED
    BY <1>2, <1>3 DEF AllStay, Kept, InStash

\* A push takes nothing out of a stash, and what it takes out of the tree it
\* puts on top.
LEMMA PushKeeps ==
    ASSUME TypeOK, NEW r \in Repos, NEW by \in Switches \union Commands,
           NEW untracked \in SUBSET tree[r], Push(r, by, untracked)
    PROVE  AllStay /\ Kept /\ \A w : InTree(w) => Safe(w)'
  <1>1. tree' = [tree EXCEPT ![r] = untracked] /\ (\A q \in Repos \ {r} : tree'[q] = tree[q]) /\ tree'[r] = untracked
    BY DEF Push, TypeOK
  <1>2. CASE tree[r] = untracked
    <2>1. UNCHANGED stash
      BY <1>2 DEF Push
    <2>2. \A w : InTree(w) => InTree(w)'
      BY <1>1, <1>2 DEF InTree
    <2>. QED
      BY <2>1, <2>2, SameStash DEF Safe
  <1>3. CASE tree[r] # untracked
    <2> DEFINE e == [by |-> by, work |-> tree[r] \ untracked]
    <2>1. e \in Entry
      <3>1. tree[r] \in SUBSET Works
        BY DEF TypeOK
      <3>2. tree[r] \ untracked \in (SUBSET Works) \ {{}}
        BY <1>3, <3>1
      <3>. QED
        BY <3>2 DEF Entry
    <2>2. stash' = [stash EXCEPT ![r] = <<e>> \o @]
      BY <1>3 DEF Push
    <2>3. e.work = tree[r] \ untracked
      OBVIOUS
    <2> HIDE DEF e
    <2>4. AllStay /\ Kept /\ \A w \in e.work : InStash(w)'
      BY <2>1, <2>2, OneIn
    <2>5. \A w : InTree(w) => InTree(w)' \/ InStash(w)'
      <3> SUFFICES ASSUME NEW w, NEW q \in Repos, w \in tree[q] PROVE InTree(w)' \/ InStash(w)'
        BY DEF InTree
      <3>1. CASE q # r \/ w \in untracked
        BY <1>1, <3>1 DEF InTree
      <3>2. CASE q = r /\ w \notin untracked
        BY <2>3, <2>4, <3>2
      <3>. QED
        BY <3>1, <3>2
    <2>. QED
      BY <2>4, <2>5 DEF Safe
  <1>. QED
    BY <1>2, <1>3

\* A hand that is left alone loses nothing.
LEMMA HandsKeep ==
    ASSUME NEW w, \A d \in Commands : command[d].at = "cut" => command'[d] = command[d],
           InTheHand(w)
    PROVE  Safe(w)'
  <1>1. InTheHand(w)'
    BY DEF InTheHand
  <1>. QED
    BY <1>1 DEF Safe

\* A tree that only grows loses nothing.
LEMMA TreesGrow ==
    ASSUME NEW w, \A q \in Repos : tree[q] \subseteq tree'[q], InTree(w)
    PROVE  Safe(w)'
  <1>1. InTree(w)'
    BY DEF InTree
  <1>. QED
    BY <1>1 DEF Safe

LEMMA SafeStep ==
    ASSUME TypeOK, Renames, Undisturbed, \A w \in written : Safe(w), [Next]_vars
    PROVE  \A w \in written' : Safe(w)'
  <1>a. ASSUME UNCHANGED <<written, command, stash, mislaid>>, settled \subseteq settled',
               \A w : InTree(w) => Safe(w)'
        PROVE  \A w \in written' : Safe(w)'
    <2>1. Kept
      BY <1>a, SameStash
    <2>2. \A w : InTheHand(w) => Safe(w)'
      BY <1>a, HandsKeep
    <2>. QED
      BY <1>a, <2>1, <2>2, NothingLost
  <1>1. CASE UNCHANGED vars
    BY <1>1, <1>a, TreesGrow DEF vars
  <1>2. ASSUME NEW r \in Repos, NEW v \in Works, Write(v, r) PROVE \A w \in written' : Safe(w)'
    <2>1. \A q \in Repos : tree[q] \subseteq tree'[q]
      BY <1>2 DEF Write, TypeOK
    <2>2. Kept /\ UNCHANGED <<command, settled, mislaid>>
      BY <1>2, SameStash DEF Write
    <2>3. \A w : InTheHand(w) => Safe(w)'
      BY <2>2, HandsKeep
    <2>4. \A w : InTree(w) => Safe(w)'
      BY <2>1, TreesGrow
    <2>5. \A w \in written : Safe(w)'
      BY <2>2, <2>3, <2>4, NothingLost
    <2>6. Safe(v)'
      <3>1. v \in tree'[r]
        BY <1>2 DEF Write, TypeOK
      <3>. QED
        BY <3>1 DEF Safe, InTree
    <2>. QED
      BY <1>2, <2>5, <2>6 DEF Write
  <1>3. ASSUME NEW r \in Repos, Settle(r) PROVE \A w \in written' : Safe(w)'
    <2>1. ASSUME NEW w, InTree(w) PROVE Safe(w)'
      <3>1. PICK q \in Repos : w \in tree[q]
        BY <2>1 DEF InTree
      <3>2. CASE q = r
        BY <1>3, <3>1, <3>2 DEF Settle, Safe
      <3>3. CASE q # r
        <4>1. w \in tree'[q]
          BY <1>3, <3>1, <3>3 DEF Settle, TypeOK
        <4>. QED
          BY <4>1 DEF Safe, InTree
      <3>. QED
        BY <3>2, <3>3
    <2>. QED
      BY <1>3, <1>a, <2>1 DEF Settle
  <1>4. ASSUME NEW r \in Repos \union {None}, Move(r) PROVE \A w \in written' : Safe(w)'
    BY <1>4, <1>a, TreesGrow DEF Move
  <1>5. ASSUME NEW s \in Switches, SwitchStep(s) PROVE \A w \in written' : Safe(w)'
    <2>1. CASE StartSwitch(s) \/ Run(s) \/ Again(s) \/ \E choice \in {"carry", "stash", "cancel"} : Choose(s, choice)
      BY <1>a, <2>1, TreesGrow DEF StartSwitch, Run, Again, Choose
    <2>2. CASE Carry(s)
      <3>1. UNCHANGED <<written, command, stash, settled, mislaid>>
        BY <2>2 DEF Carry
      <3>2. \A q \in Repos : tree[q] \subseteq tree'[q]
        <4>1. CASE repoPath = None
          BY <2>2, <4>1 DEF Carry
        <4>2. CASE repoPath # None
          <5>1. repoPath \in Repos
            BY <4>2 DEF TypeOK
          <5>2. PICK o \in Outcomes(repoPath, 1) : tree' = [tree EXCEPT ![repoPath] = o.tree]
            BY <2>2, <4>2 DEF Carry
          <5>3. tree[repoPath] \subseteq o.tree
            BY <5>1, OutcomeTypes
          <5>. QED
            BY <5>2, <5>3 DEF TypeOK
        <4>. QED
          BY <4>1, <4>2
      <3>. QED
        BY <1>a, <3>1, <3>2, TreesGrow
    <2>3. CASE Save(s)
      <3> DEFINE r == switch[s].repo
      <3>1. r \in Repos /\ UNCHANGED <<written, command, settled, mislaid>>
        BY <2>3, Placed DEF Save
      <3>2. CASE UNCHANGED <<tree, stash>>
        BY <1>a, <3>1, <3>2, TreesGrow
      <3>3. CASE Push(r, s, {})
        <4>1. Kept /\ \A w : InTree(w) => Safe(w)'
          BY <3>1, <3>3, PushKeeps
        <4>2. \A w : InTheHand(w) => Safe(w)'
          BY <3>1, HandsKeep
        <4>. QED
          BY <3>1, <4>1, <4>2, NothingLost
      <3>. QED
        BY <2>3, <3>2, <3>3 DEF Save
    <2>. QED
      BY <1>5, <2>1, <2>2, <2>3 DEF SwitchStep
  <1>6. ASSUME NEW c \in Commands, CommandStep(c) PROVE \A w \in written' : Safe(w)'
    <2> DEFINE r == command[c].repo
               i == command[c].index
    <2>0. command[c] \in StashCommand /\ i \in Nat /\ UNCHANGED written
      <3>1. command[c] \in StashCommand
        BY DEF TypeOK
      <3>2. i \in Nat
        BY <3>1 DEF StashCommand
      <3>3. UNCHANGED written
        BY <1>6 DEF CommandStep, Send, StashSave, StashApply, StashDrop, Resolve, Cut, Store, StoreFails, Refused
      <3>. QED
        BY <3>1, <3>2, <3>3
    <2>a. ASSUME \A d \in Commands \ {c} : command'[d] = command[d], command[c].at # "cut",
                 Kept, settled \subseteq settled', mislaid \subseteq mislaid', \A w : InTree(w) => Safe(w)'
          PROVE  \A w \in written' : Safe(w)'
      <3>1. \A w : InTheHand(w) => Safe(w)'
        BY <2>a, HandsKeep
      <3>. QED
        BY <2>0, <2>a, <3>1, NothingLost
    <2>1. ASSUME NEW op \in Ops, NEW j \in 1 .. MaxIndex, Send(c, op, j) PROVE \A w \in written' : Safe(w)'
      <3>1. Kept
        BY <2>1, SameStash DEF Send
      <3>2. \A w : InTree(w) => Safe(w)'
        BY <2>1, TreesGrow DEF Send
      <3>. QED
        BY <2>1, <2>a, <3>1, <3>2 DEF Send, TypeOK
    <2>2. CASE StashSave(c)
      <3>1. r \in Repos
        BY <2>2, Placed DEF StashSave, Runs
      <3>2. Kept /\ \A w : InTree(w) => Safe(w)'
        BY <2>2, <3>1, PushKeeps DEF StashSave
      <3>. QED
        BY <2>2, <2>a, <3>2 DEF StashSave, Runs, CommandGoes, TypeOK
    <2>3. ASSUME NEW op \in Ops, StashApply(c, op) PROVE \A w \in written' : Safe(w)'
      <3>1. r \in Repos /\ i \in Nat \ {0}
        BY <2>3 DEF StashApply, Runs, Renames
      <3>2. PICK o \in Outcomes(r, i) :
               /\ tree' = [tree EXCEPT ![r] = o.tree]
               /\ stash' = IF Exists(c) /\ ~Keeps(op, o.is)
                           THEN [stash EXCEPT ![r] = Without(@, i)] ELSE stash
        BY <2>3 DEF StashApply
      <3>3. tree[r] \subseteq o.tree /\ (o.is = "applied" => stash[r][i].work \subseteq o.tree \union settled)
        BY <3>1, OutcomeTypes
      <3>4. \A w : InTree(w) => Safe(w)'
        <4>1. \A q \in Repos : tree[q] \subseteq tree'[q]
          BY <3>2, <3>3 DEF TypeOK
        <4>. QED
          BY <4>1, TreesGrow
      <3>5. Kept
        <4>1. CASE Exists(c) /\ ~Keeps(op, o.is)
          <5>1. i \in 1 .. Len(stash[r]) /\ o.is = "applied"
            BY <3>1, <4>1 DEF Exists, Keeps, TypeOK
          <5>2. \A w \in stash[r][i].work : InTree(w)' \/ w \in settled
            BY <3>1, <3>2, <3>3, <5>1 DEF InTree, TypeOK
          <5>3. \A w \in stash[r][i].work : Safe(w)'
            BY <2>3, <5>2 DEF Safe, StashApply
          <5>. QED
            BY <3>1, <3>2, <4>1, <5>1, <5>3, OneOut
        <4>2. CASE ~(Exists(c) /\ ~Keeps(op, o.is))
          BY <3>2, <4>2, SameStash
        <4>. QED
          BY <4>1, <4>2
      <3>. QED
        BY <2>3, <2>a, <3>4, <3>5 DEF StashApply, Runs, CommandGoes, TypeOK
    <2>4. CASE StashDrop(c)
      <3>1. r \in Repos /\ i \in Nat \ {0}
        BY <2>4 DEF StashDrop, Runs, Renames
      <3>2. \A w : InTree(w) => Safe(w)'
        BY <2>4, TreesGrow DEF StashDrop
      <3>3. Kept /\ settled \subseteq settled'
        <4>1. CASE Exists(c)
          <5>1. i \in 1 .. Len(stash[r])
            BY <3>1, <4>1 DEF Exists, TypeOK
          <5>2. \A w \in stash[r][i].work : Safe(w)'
            BY <2>4, <4>1 DEF StashDrop, Safe
          <5>. QED
            BY <2>4, <3>1, <4>1, <5>1, <5>2, OneOut DEF StashDrop
        <4>2. CASE ~Exists(c)
          BY <2>4, <4>2, SameStash DEF StashDrop
        <4>. QED
          BY <4>1, <4>2
      <3>. QED
        BY <2>4, <2>a, <3>2, <3>3 DEF StashDrop, Runs, CommandGoes, TypeOK
    <2>5. CASE Resolve(c)
      <3>1. Kept /\ UNCHANGED settled
        BY <2>5, SameStash DEF Resolve
      <3>2. \A w : InTree(w) => Safe(w)'
        BY <2>5, TreesGrow DEF Resolve
      <3>. QED
        BY <2>5, <2>a, <3>1, <3>2 DEF Resolve, CommandGoes, TypeOK
    <2>6. CASE Cut(c)
      <3>1. r \in Repos /\ i \in Nat \ {0} /\ UNCHANGED settled
        BY <2>6 DEF Cut, Renames
      <3>2. \A w : InTree(w) => Safe(w)'
        BY <2>6, TreesGrow DEF Cut
      <3>3. Kept /\ mislaid \subseteq mislaid'
        <4>1. CASE ~Exists(c)
          BY <2>6, <4>1, SameStash DEF Cut
        <4>2. CASE Exists(c)
          <5>1. i \in 1 .. Len(stash[r])
            BY <3>1, <4>2 DEF Exists, TypeOK
          <5>2. /\ stash' = [stash EXCEPT ![r] = Without(@, i)] /\ CommandGoes(c, "cut")
                /\ mislaid' = mislaid \union (IF c \in alone THEN {} ELSE stash[r][i].work)
            BY <2>6, <4>2 DEF Cut
          <5>3. CASE c \notin alone
            <6>1. \A w \in stash[r][i].work : Safe(w)'
              BY <5>2, <5>3 DEF Safe
            <6>. QED
              BY <3>1, <5>1, <5>2, <6>1, OneOut
          <5>4. CASE c \in alone
            <6>1. command[c].held = {stash[r][i]}
              BY <2>6, <5>4 DEF Cut, Renames
            <6>2. command'[c].at = "cut" /\ command'[c].held = {stash[r][i]}
              BY <2>0, <5>2, <6>1 DEF CommandGoes, TypeOK, StashCommand
            <6>3. \A w \in stash[r][i].work : InTheHand(w)'
              BY <6>2 DEF InTheHand
            <6>4. \A w \in stash[r][i].work : Safe(w)'
              BY <6>3 DEF Safe
            <6>. QED
              BY <3>1, <5>1, <5>2, <6>4, OneOut
          <5>. QED
            BY <5>3, <5>4
        <4>. QED
          BY <4>1, <4>2
      <3>4. \A d \in Commands \ {c} : command'[d] = command[d]
        BY <2>6 DEF Cut, CommandGoes, TypeOK
      <3>5. command[c].at # "cut"
        BY <2>6 DEF Cut
      <3>. QED
        BY <2>a, <3>1, <3>2, <3>3, <3>4, <3>5
    <2>7. CASE Store(c)
      <3>1. r \in Repos
        BY <2>7, Placed DEF Store
      <3>2. PICK e \in Entry : command[c].held = {e}
        BY <2>7 DEF Store, Renames
      <3>3. stash' = [stash EXCEPT ![r] = <<e>> \o @]
        BY <2>7, <3>2 DEF Store
      <3>4. Kept /\ \A w \in e.work : InStash(w)'
        BY <3>1, <3>3, OneIn
      <3>5. \A w : InTree(w) => Safe(w)'
        BY <2>7, TreesGrow DEF Store
      <3>6. ASSUME NEW w, InTheHand(w) PROVE Safe(w)'
        <4>1. \A d \in Commands \ {c} : command'[d] = command[d]
          BY <2>7 DEF Store, CommandGoes, TypeOK
        <4>2. PICK d \in Commands : command[d].at = "cut" /\ \E f \in command[d].held : w \in f.work
          BY <3>6 DEF InTheHand
        <4>3. CASE d = c
          BY <3>2, <3>4, <4>2, <4>3 DEF Safe
        <4>4. CASE d # c
          <5>1. InTheHand(w)'
            BY <4>1, <4>2, <4>4 DEF InTheHand
          <5>. QED
            BY <5>1 DEF Safe
        <4>. QED
          BY <4>3, <4>4
      <3>7. UNCHANGED <<settled, mislaid>>
        BY <2>7 DEF Store
      <3>. QED
        BY <2>0, <3>4, <3>5, <3>6, <3>7, NothingLost
    <2>8. CASE StoreFails(c)
      <3>1. Kept /\ UNCHANGED settled /\ mislaid \subseteq mislaid'
        BY <2>8, SameStash DEF StoreFails
      <3>2. \A w : InTree(w) => Safe(w)'
        BY <2>8, TreesGrow DEF StoreFails
      <3>3. ASSUME NEW w, InTheHand(w) PROVE Safe(w)'
        <4>1. \A d \in Commands \ {c} : command'[d] = command[d]
          BY <2>8 DEF StoreFails, CommandGoes, TypeOK
        <4>2. PICK d \in Commands : command[d].at = "cut" /\ \E f \in command[d].held : w \in f.work
          BY <3>3 DEF InTheHand
        <4>3. CASE d = c
          <5>1. w \in mislaid'
            BY <2>8, <4>2, <4>3 DEF StoreFails
          <5>. QED
            BY <5>1 DEF Safe
        <4>4. CASE d # c
          <5>1. InTheHand(w)'
            BY <4>1, <4>2, <4>4 DEF InTheHand
          <5>. QED
            BY <5>1 DEF Safe
        <4>. QED
          BY <4>3, <4>4
      <3>. QED
        BY <2>0, <3>1, <3>2, <3>3, NothingLost
    <2>9. "apply" \in Ops /\ "pop" \in Ops
      BY DEF Ops
    <2>10. CASE Refused(c)
      <3>1. Kept
        BY <2>10, SameStash DEF Refused
      <3>2. \A w : InTree(w) => Safe(w)'
        BY <2>10, TreesGrow DEF Refused
      <3>. QED
        BY <2>10, <2>a, <3>1, <3>2 DEF Refused, CommandGoes, TypeOK
    <2>. QED
      BY <1>6, <2>1, <2>2, <2>3, <2>4, <2>5, <2>6, <2>7, <2>8, <2>9, <2>10 DEF CommandStep
  <1>. QED
    BY <1>1, <1>2, <1>3, <1>4, <1>5, <1>6 DEF Next

-----------------------------------------------------------------------------
(***************************************************************************)
(* The invariant, and what follows from it.                                *)
(***************************************************************************)
LEMMA InitIInv == Init => IInv
  <1> SUFFICES ASSUME Init PROVE IInv
    OBVIOUS
  <1>1. TypeOK
    <2>1. [at |-> "idle", repo |-> None, choice |-> None, carried |-> None, onto |-> None] \in Checkout
      BY DEF Checkout
    <2>2. [at |-> "idle", op |-> None, repo |-> None, index |-> 0, held |-> {}] \in StashCommand
      BY BranchSwitchAssumption DEF StashCommand
    <2>3. <<>> \in Seq(Entry)
      OBVIOUS
    <2>. QED
      BY <2>1, <2>2, <2>3 DEF Init, TypeOK
  <1>2. Renames
    BY DEF Init, Renames
  <1>3. Undisturbed /\ CarriesItsOwn
    BY DEF Init, Undisturbed, CarriesItsOwn
  <1>4. OnlyRenamesMislay
    BY DEF Init, OnlyRenamesMislay
  <1>. QED
    BY <1>1, <1>2, <1>3, <1>4 DEF IInv

LEMMA StepIInv == IInv /\ [Next]_vars => IInv'
  <1> SUFFICES ASSUME IInv, [Next]_vars PROVE IInv'
    OBVIOUS
  <1>0. TypeOK /\ Renames /\ Undisturbed /\ CarriesItsOwn /\ OnlyRenamesMislay
    BY DEF IInv
  <1>1. TypeOK'
    BY <1>0, TypesStep
  <1>2. Renames'
    BY <1>0, RenamesStep
  <1>3. Undisturbed' /\ CarriesItsOwn'
    <2>1. \A s \in Switches : Well(s)'
      BY <1>0, WellStep
    <2>2. (Undisturbed /\ CarriesItsOwn)' <=> \A s \in Switches : Well(s)'
      BY <1>1 DEF TypeOK, Undisturbed, CarriesItsOwn, Well
    <2>. QED
      BY <2>1, <2>2
  <1>4. OnlyRenamesMislay'
    <2>2. \A w \in written : Safe(w)
      BY <1>0, Whereabouts DEF AllSafe
    <2>3. \A w \in written' : Safe(w)'
      BY <1>0, <2>2, SafeStep
    <2>4. AllSafe'
      BY <2>3 DEF AllSafe
    <2>. QED
      BY <2>4, Whereabouts, PTL
  <1>. QED
    BY <1>1, <1>2, <1>3, <1>4 DEF IInv

LEMMA InductiveInvariant == Spec => []IInv
  BY InitIInv, StepIInv, PTL DEF Spec

(* Every variable keeps its type, with any number of switches and commands. *)
THEOREM TypeCorrect == Spec => []TypeOK
  <1>1. IInv => TypeOK
    BY DEF IInv
  <1>. QED
    BY <1>1, InductiveInvariant, PTL

(* No switch, apply, pop or save loses work that was written, nor does a    *)
(* rename that is left alone until its drop and whose store succeeds        *)
(* (repoStore.ts:326, stash.go:111, 182).                                   *)
THEOREM NoWorkLost == Spec => []OnlyRenamesMislay
  <1>1. IInv => OnlyRenamesMislay
    BY DEF IInv
  <1>. QED
    BY <1>1, InductiveInvariant, PTL

(* A switch nobody disturbed carries over what it saved, to the branch it   *)
(* checked out (repoStore.ts:324).                                          *)
THEOREM CarriesOwn == Spec => []CarriesItsOwn
  <1>1. IInv => CarriesItsOwn
    BY DEF IInv
  <1>. QED
    BY <1>1, InductiveInvariant, PTL

LEMMA StaysListed ==
    ASSUME AllStay, NEW s, s \in Entries
    PROVE  s \in Entries'
  <1>1. PICK q \in Repos : \E e \in Range(stash[q]) : e.by = s
    BY DEF Entries
  <1>2. PICK j \in DOMAIN stash[q] : stash[q][j].by = s
    BY <1>1 DEF Range
  <1>3. PICK k \in DOMAIN stash'[q] : stash'[q][k] = stash[q][j]
    BY DEF AllStay
  <1>4. stash'[q][k] \in Range(stash'[q]) /\ stash'[q][k].by = s
    BY <1>2, <1>3 DEF Range
  <1>. QED
    BY <1>4 DEF Entries

\* Who takes an entry out of a stash.
LEMMA Takers ==
    ASSUME IInv, [Next]_vars
    PROVE  AllStay \/ \E c \in Commands : command'[c] # command[c] /\ command[c].op \in {"pop", "drop", "rename"}
  <1>0. TypeOK /\ Renames /\ Undisturbed
    BY DEF IInv
  <1>1. CASE UNCHANGED vars
    BY <1>1, SameStash DEF vars
  <1>2. ASSUME NEW r \in Repos, NEW w \in Works, Write(w, r) PROVE AllStay
    BY <1>2, SameStash DEF Write
  <1>3. ASSUME NEW r \in Repos, Settle(r) PROVE AllStay
    BY <1>3, SameStash DEF Settle
  <1>4. ASSUME NEW r \in Repos \union {None}, Move(r) PROVE AllStay
    BY <1>4, SameStash DEF Move
  <1>5. ASSUME NEW s \in Switches, SwitchStep(s) PROVE AllStay
    <2>1. CASE Save(s)
      <3>1. switch[s].repo \in Repos
        BY <1>0, <2>1, Placed DEF Save
      <3>2. CASE Push(switch[s].repo, s, {})
        BY <1>0, <3>1, <3>2, PushKeeps
      <3>. QED
        BY <2>1, <3>2, SameStash DEF Save
    <2>2. CASE UNCHANGED stash
      BY <2>2, SameStash
    <2>. QED
      BY <1>5, <2>1, <2>2 DEF SwitchStep, StartSwitch, Run, Again, Carry, Choose
  <1>6. ASSUME NEW c \in Commands, CommandStep(c)
        PROVE  AllStay \/ (command'[c] # command[c] /\ command[c].op \in {"pop", "drop", "rename"})
    <2>0. command[c] \in StashCommand
      BY <1>0 DEF TypeOK
    <2>a. ASSUME NEW stage \in {"over", "cut"}, CommandGoes(c, stage), command[c].at \in {"sent", "resolved"}
          PROVE  command'[c] # command[c]
      BY <1>0, <2>0, <2>a DEF CommandGoes, TypeOK, StashCommand
    <2>1. CASE StashSave(c)
      <3>1. command[c].repo \in Repos
        BY <1>0, <2>1, Placed DEF StashSave, Runs
      <3>. QED
        BY <1>0, <2>1, <3>1, PushKeeps DEF StashSave
    <2>2. CASE StashApply(c, "apply")
      BY <2>2, SameStash DEF StashApply, Keeps
    <2>3. CASE StashApply(c, "pop")
      BY <2>3, <2>a DEF StashApply, Runs
    <2>4. CASE StashDrop(c)
      BY <2>4, <2>a DEF StashDrop, Runs
    <2>5. CASE Cut(c)
      <3>1. command[c].op = "rename"
        BY <1>0, <2>5 DEF Cut, Renames
      <3>. QED
        BY <2>5, <2>a, <3>1 DEF Cut
    <2>6. CASE Store(c)
      <3>1. command[c].repo \in Repos /\ \E e \in Entry : command[c].held = {e}
        BY <1>0, <2>6 DEF Store, Renames
      <3>2. PICK e \in Entry : stash' = [stash EXCEPT ![command[c].repo] = <<e>> \o @]
        BY <2>6, <3>1 DEF Store
      <3>. QED
        BY <1>0, <3>1, <3>2, OneIn
    <2>7. CASE UNCHANGED stash
      BY <2>7, SameStash
    <2>. QED
      BY <1>6, <2>1, <2>2, <2>3, <2>4, <2>5, <2>6, <2>7 DEF CommandStep, Send, Resolve, StoreFails, Refused
  <1>. QED
    BY <1>1, <1>2, <1>3, <1>4, <1>5, <1>6 DEF Next

(* No step of a switch takes the entry a switch made out of the list, nor   *)
(* does an apply: that takes a pop, a drop or a rename of the sidebar       *)
(* (repoStore.ts:332).                                                      *)
THEOREM AutoStashKept == Spec => AutoStashStays
  <1>1. IInv /\ [Next]_vars =>
            [\A s \in Switches :
               s \in Entries /\ s \notin Entries' =>
                   \E c \in Commands : command'[c] # command[c] /\ command[c].op \in {"pop", "drop", "rename"}]_vars
    BY Takers, StaysListed
  <1>. QED
    BY <1>1, InductiveInvariant, PTL DEF Spec, AutoStashStays
============================================================================
