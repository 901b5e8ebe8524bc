------------------------- MODULE EditorTabs_proofs -------------------------
(***************************************************************************)
(* The strip stays sound whatever is opened, split, dragged and closed,    *)
(* for any number of groups, files, projects and calls under way.  A tab   *)
(* that is shown keeps its file, one without the mark is saved, and only a *)
(* read that is to open a file takes what was typed in it.                 *)
(***************************************************************************)
EXTENDS EditorTabs, FiniteSetTheorems, FunctionTheorems, SequenceTheorems,
        WellFoundedInduction, TLAPS

-----------------------------------------------------------------------------
(***************************************************************************)
(* Sequences.                                                              *)
(***************************************************************************)

Apart(q) == \A i, j \in DOMAIN q : q[i] = q[j] => i = j

\* What is left of a sequence without the element at a place.
LEMMA RemoveAtPlaces ==
    ASSUME NEW S, NEW q \in Seq(S), NEW i \in 1 .. Len(q)
    PROVE  /\ RemoveAt(q, i) \in Seq(S) /\ Len(RemoveAt(q, i)) = Len(q) - 1
           /\ \A k \in 1 .. Len(q) - 1 : RemoveAt(q, i)[k] = q[IF k < i THEN k ELSE k + 1]
  <1> DEFINE a == SubSeq(q, 1, i - 1)
             b == SubSeq(q, i + 1, Len(q))
  <1>1. /\ a \in Seq(S) /\ Len(a) = i - 1 /\ \A k \in 1 .. i - 1 : a[k] = q[k]
        /\ b \in Seq(S) /\ Len(b) = Len(q) - i /\ \A k \in 1 .. Len(q) - i : b[k] = q[i + k]
    OBVIOUS
  <1>2. RemoveAt(q, i) = a \o b
    BY DEF RemoveAt
  <1> HIDE DEF a, b
  <1>3. /\ a \o b \in Seq(S) /\ Len(a \o b) = Len(q) - 1
        /\ \A k \in 1 .. i - 1 : (a \o b)[k] = q[k]
        /\ \A k \in i .. Len(q) - 1 : (a \o b)[k] = q[k + 1]
    <2>1. a \o b \in Seq(S) /\ Len(a \o b) = Len(q) - 1
      <3>1. a \in Seq(S) /\ b \in Seq(S)
        BY <1>1
      <3>2. a \o b \in Seq(S) /\ Len(a \o b) = Len(a) + Len(b)
        BY <3>1
      <3>3. Len(a) + Len(b) = Len(q) - 1
        BY <1>1
      <3>. QED
        BY <3>2, <3>3
    <2>2. \A k \in 1 .. i - 1 : (a \o b)[k] = a[k]
      BY <1>1
    <2>3. \A k \in i .. Len(q) - 1 : (a \o b)[k] = b[k - (i - 1)]
      BY <1>1
    <2>4. \A k \in i .. Len(q) - 1 : b[k - (i - 1)] = q[k + 1]
      <3> TAKE k \in i .. Len(q) - 1
      <3>1. k - (i - 1) \in 1 .. Len(q) - i /\ i + (k - (i - 1)) = k + 1
        OBVIOUS
      <3>. QED
        BY <1>1, <3>1
    <2>. QED
      BY <1>1, <2>1, <2>2, <2>3, <2>4
  <1>4. ASSUME NEW k \in 1 .. Len(q) - 1
        PROVE  (a \o b)[k] = q[IF k < i THEN k ELSE k + 1]
    <2>1. CASE k < i
      BY <1>3, <2>1
    <2>2. CASE ~ (k < i)
      <3>1. k \in i .. Len(q) - 1
        BY <2>2
      <3>. QED
        BY <1>3, <2>2, <3>1
    <2>. QED
      BY <2>1, <2>2
  <1>. QED
    BY <1>2, <1>3, <1>4

\* A sequence with one more element at a place.
LEMMA InsertAtPlaces ==
    ASSUME NEW S, NEW q \in Seq(S), NEW i \in 1 .. Len(q) + 1, NEW e \in S
    PROVE  /\ InsertAt(q, i, e) \in Seq(S) /\ Len(InsertAt(q, i, e)) = Len(q) + 1
           /\ \A k \in 1 .. Len(q) + 1 :
                InsertAt(q, i, e)[k] = IF k = i THEN e ELSE q[IF k < i THEN k ELSE k - 1]
  <1> DEFINE a == SubSeq(q, 1, i - 1)
             b == SubSeq(q, i, Len(q))
  <1>1. /\ a \in Seq(S) /\ Len(a) = i - 1 /\ \A k \in 1 .. i - 1 : a[k] = q[k]
        /\ b \in Seq(S) /\ Len(b) = Len(q) - i + 1 /\ \A k \in 1 .. Len(q) - i + 1 : b[k] = q[i + k - 1]
    OBVIOUS
  <1>2. InsertAt(q, i, e) = a \o <<e>> \o b
    BY DEF InsertAt
  <1> HIDE DEF a, b
  <1>3. /\ a \o <<e>> \in Seq(S) /\ Len(a \o <<e>>) = i
        /\ \A k \in 1 .. i : (a \o <<e>>)[k] = IF k = i THEN e ELSE q[k]
    BY <1>1
  <1> DEFINE c == a \o <<e>>
  <1>4. c \in Seq(S) /\ Len(c) = i /\ c[i] = e /\ \A k \in 1 .. i - 1 : c[k] = q[k]
    BY <1>3
  <1> HIDE DEF c
  <1>5. /\ c \o b \in Seq(S) /\ Len(c \o b) = Len(q) + 1 /\ (c \o b)[i] = e
        /\ \A k \in 1 .. i - 1 : (c \o b)[k] = q[k]
        /\ \A k \in i + 1 .. Len(q) + 1 : (c \o b)[k] = q[k - 1]
    <2>1. c \o b \in Seq(S) /\ Len(c \o b) = Len(c) + Len(b)
      BY <1>1, <1>4
    <2>2. Len(c \o b) = Len(q) + 1
      BY <1>1, <1>4, <2>1
    <2>3. \A k \in 1 .. i : (c \o b)[k] = c[k]
      BY <1>1, <1>4
    <2>4. \A k \in i + 1 .. Len(q) + 1 : (c \o b)[k] = b[k - i]
      BY <1>1, <1>4
    <2>5. \A k \in i + 1 .. Len(q) + 1 : b[k - i] = q[k - 1]
      <3> TAKE k \in i + 1 .. Len(q) + 1
      <3>1. k - i \in 1 .. Len(q) - i + 1 /\ i + (k - i) - 1 = k - 1
        OBVIOUS
      <3>. QED
        BY <1>1, <3>1
    <2>. QED
      BY <1>4, <2>1, <2>2, <2>3, <2>4, <2>5
  <1>6. InsertAt(q, i, e) = c \o b
    BY <1>2 DEF c
  <1>. QED
    BY <1>5, <1>6

\* The least of some numbers is one of them.
LEMMA LeastIsThere ==
    ASSUME NEW I, I \subseteq Nat, I # {}
    PROVE  Min(I) \in I
  <1>1. PICK x \in I : \A y \in I : <<y, x>> \notin OpToRel(<, Nat)
    BY WFMin, NatLessThanWellFounded, Zenon
  <1>2. x \in I /\ \A y \in I : ~ (y < x)
    BY <1>1, Zenon DEF OpToRel
  <1>3. \A y \in I : x <= y
    BY <1>2
  <1>. QED
    BY <1>2, <1>3 DEF Min

\* Where the one element of a kind is.
LEMMA TheOnlyOne ==
    ASSUME NEW i \in Nat
    PROVE  Min({i}) = i
  BY DEF Min

\* A sequence without repetitions loses an element.
LEMMA RemoveAtElements ==
    ASSUME NEW S, NEW q \in Seq(S), NEW i \in 1 .. Len(q), Apart(q)
    PROVE  /\ Apart(RemoveAt(q, i))
           /\ ToSet(RemoveAt(q, i)) = ToSet(q) \ {q[i]}
  <1> DEFINE r == RemoveAt(q, i)
             at(k) == IF k < i THEN k ELSE k + 1
  <1>1. r \in Seq(S) /\ DOMAIN r = 1 .. Len(q) - 1 /\ DOMAIN q = 1 .. Len(q)
    BY RemoveAtPlaces
  <1>2. \A k \in 1 .. Len(q) - 1 : at(k) \in DOMAIN q /\ at(k) # i /\ r[k] = q[at(k)]
    <2>1. \A k \in 1 .. Len(q) - 1 : at(k) \in DOMAIN q /\ at(k) # i
      BY <1>1
    <2>2. \A k \in 1 .. Len(q) - 1 : r[k] = q[at(k)]
      BY RemoveAtPlaces
    <2>. QED
      BY <2>1, <2>2
  <1>3. \A j, k \in 1 .. Len(q) - 1 : at(j) = at(k) => j = k
    OBVIOUS
  <1>4. \A j \in 1 .. Len(q) : j # i => \E k \in 1 .. Len(q) - 1 : at(k) = j
    <2> TAKE j \in 1 .. Len(q)
    <2> HAVE j # i
    <2>1. CASE j < i
      <3>1. j \in 1 .. Len(q) - 1 /\ at(j) = j
        BY <2>1
      <3>. QED
        BY <3>1
    <2>2. CASE j > i
      <3>1. j - 1 \in 1 .. Len(q) - 1 /\ at(j - 1) = j
        BY <2>2
      <3>. QED
        BY <3>1
    <2>. QED
      BY <2>1, <2>2
  <1> HIDE DEF r, at
  <1>5. Apart(r)
    BY <1>1, <1>2, <1>3 DEF Apart
  <1>6. ASSUME NEW e \in ToSet(r)
        PROVE  e \in ToSet(q) \ {q[i]}
    <2>1. PICK k \in DOMAIN r : e = r[k]
      BY DEF ToSet
    <2>2. at(k) \in DOMAIN q /\ at(k) # i /\ e = q[at(k)]
      BY <1>1, <1>2, <2>1
    <2>3. q[at(k)] # q[i]
      BY <1>1, <2>2 DEF Apart
    <2>4. e \in ToSet(q)
      BY <2>2 DEF ToSet
    <2>. QED
      BY <2>2, <2>3, <2>4
  <1>7. ASSUME NEW e \in ToSet(q), e # q[i]
        PROVE  e \in ToSet(r)
    <2>1. PICK j \in DOMAIN q : e = q[j]
      BY DEF ToSet
    <2>2. PICK k \in 1 .. Len(q) - 1 : at(k) = j
      BY <1>1, <1>4, <1>7, <2>1
    <2>. QED
      BY <1>1, <1>2, <2>1, <2>2 DEF ToSet
  <1>. QED
    BY <1>5, <1>6, <1>7 DEF r

\* A sequence without repetitions gains an element that it did not have.
LEMMA InsertAtElements ==
    ASSUME NEW S, NEW q \in Seq(S), NEW i \in 1 .. Len(q) + 1, NEW e \in S,
           Apart(q), e \notin ToSet(q)
    PROVE  /\ Apart(InsertAt(q, i, e))
           /\ ToSet(InsertAt(q, i, e)) = ToSet(q) \union {e}
  <1> DEFINE r == InsertAt(q, i, e)
             at(k) == IF k < i THEN k ELSE k - 1
  <1>1. r \in Seq(S) /\ DOMAIN r = 1 .. Len(q) + 1 /\ DOMAIN q = 1 .. Len(q)
    BY InsertAtPlaces
  <1>2. \A k \in 1 .. Len(q) + 1 : IF k = i THEN r[k] = e ELSE at(k) \in DOMAIN q /\ r[k] = q[at(k)]
    <2>1. \A k \in 1 .. Len(q) + 1 : k # i => at(k) \in DOMAIN q
      BY <1>1
    <2>2. \A k \in 1 .. Len(q) + 1 : r[k] = IF k = i THEN e ELSE q[at(k)]
      BY InsertAtPlaces
    <2>. QED
      BY <2>1, <2>2
  <1>3. \A j, k \in 1 .. Len(q) + 1 : j # i /\ k # i /\ at(j) = at(k) => j = k
    OBVIOUS
  <1>4. \A j \in 1 .. Len(q) : \E k \in 1 .. Len(q) + 1 : k # i /\ at(k) = j
    <2> TAKE j \in 1 .. Len(q)
    <2>1. CASE j < i
      <3>1. j \in 1 .. Len(q) + 1 /\ at(j) = j
        BY <2>1
      <3>. QED
        BY <2>1, <3>1
    <2>2. CASE j >= i
      <3>1. j + 1 \in 1 .. Len(q) + 1 /\ at(j + 1) = j /\ j + 1 # i
        BY <2>2
      <3>. QED
        BY <3>1
    <2>. QED
      BY <2>1, <2>2
  <1> HIDE DEF r, at
  <1>5. ASSUME NEW j \in DOMAIN r, NEW k \in DOMAIN r, r[j] = r[k]
        PROVE  j = k
    <2>1. j # i /\ k # i => q[at(j)] = q[at(k)]
      BY <1>1, <1>2, <1>5
    <2>2. j = i <=> k = i
      BY <1>1, <1>2, <1>5 DEF ToSet
    <2>. QED
      BY <1>1, <1>2, <1>3, <2>1, <2>2 DEF Apart
  <1>6. \A x : x \in ToSet(r) => x \in ToSet(q) \union {e}
    BY <1>1, <1>2 DEF ToSet
  <1>7. \A x : x \in ToSet(q) => x \in ToSet(r)
    BY <1>1, <1>2, <1>4 DEF ToSet
  <1>8. e \in ToSet(r)
    BY <1>1, <1>2 DEF ToSet
  <1>. QED
    BY <1>5, <1>6, <1>7, <1>8 DEF r, Apart

-----------------------------------------------------------------------------
(***************************************************************************)
(* Groups.                                                                 *)
(***************************************************************************)

GroupType == [id : GroupIds, paths : Seq(Paths), active : Paths \union {None}]

\* A group has one tab of a file, and one of its tabs on top.
Tidy(group) ==
    /\ Apart(group.paths)
    /\ IF group.paths = <<>> THEN group.active = None ELSE group.active \in ToSet(group.paths)

\* Groups that are told apart by their ids.
Neat(gs) ==
    /\ gs \in Seq(GroupType)
    /\ \A i, j \in DOMAIN gs : gs[i].id = gs[j].id => i = j
    /\ \A i \in DOMAIN gs : Tidy(gs[i])

\* And none is empty next to another.
Sound(gs) == Neat(gs) /\ gs # <<>> /\ \A i \in DOMAIN gs : gs[i].paths = <<>> => Len(gs) = 1

\* A file is shown where one of the groups has it.
LEMMA ShownWhere ==
    ASSUME NEW gs, NEW p
    PROVE  p \in Shown(gs) <=> \E i \in DOMAIN gs : p \in ToSet(gs[i].paths)
  BY DEF Shown

\* A group is found by its id.
LEMMA Found ==
    ASSUME NEW gs, Neat(gs), NEW i \in DOMAIN gs
    PROVE  GroupIndex(gs, gs[i].id) = i
  <1>1. {j \in 1 .. Len(gs) : gs[j].id = gs[i].id} = {i}
    BY DEF Neat
  <1>2. GroupIndex(gs, gs[i].id) = Min({i})
    BY <1>1 DEF GroupIndex, SelectInSeq
  <1>3. i \in Nat
    BY DEF Neat
  <1>. QED
    BY <1>2, <1>3, TheOnlyOne

LEMMA FoundById ==
    ASSUME NEW gs, Neat(gs), NEW g \in Ids(gs)
    PROVE  /\ GroupIndex(gs, g) \in DOMAIN gs
           /\ gs[GroupIndex(gs, g)].id = g
  BY Found DEF Ids

\* Nor is one that is not there.
LEMMA NotFound ==
    ASSUME NEW gs, gs \in Seq(GroupType), NEW g, g \notin Ids(gs)
    PROVE  GroupIndex(gs, g) = 0
  <1>1. {j \in 1 .. Len(gs) : gs[j].id = g} = {}
    BY DEF Ids
  <1>. QED
    BY <1>1 DEF GroupIndex, SelectInSeq

\* A tab is found by its path, and the strip is left without it.
LEMMA WithoutPath ==
    ASSUME NEW q \in Seq(Paths), Apart(q), NEW i \in DOMAIN q
    PROVE  PathIndex(q, q[i]) = i /\ RemoveFirst(q, q[i]) = RemoveAt(q, i)
  <1>1. {j \in 1 .. Len(q) : q[j] = q[i]} = {i} /\ i \in Nat
    BY DEF Apart
  <1>2. SelectInSeq(q, LAMBDA x : x = q[i]) = Min({i})
    BY <1>1 DEF SelectInSeq
  <1>3. SelectInSeq(q, LAMBDA x : x = q[i]) = i
    BY <1>1, <1>2, TheOnlyOne
  <1>4. \E j \in 1 .. Len(q) : q[j] = q[i]
    OBVIOUS
  <1>5. RemoveFirst(q, q[i]) = RemoveAt(q, SelectInSeq(q, LAMBDA x : x = q[i]))
    BY <1>4, Zenon DEF RemoveFirst
  <1>. QED
    BY <1>3, <1>5 DEF PathIndex

\* A group without one of its tabs.
LEMMA WithoutTabIsTidy ==
    ASSUME NEW group \in GroupType, Tidy(group), NEW p \in ToSet(group.paths)
    PROVE  /\ WithoutTab(group, p) \in GroupType /\ WithoutTab(group, p).id = group.id
           /\ Tidy(WithoutTab(group, p))
           /\ ToSet(WithoutTab(group, p).paths) = ToSet(group.paths) \ {p}
  <1> DEFINE q == group.paths
             r == RemoveFirst(q, p)
             w == WithoutTab(group, p)
             n == NeighbourOf(r, PathIndex(q, p))
  <1>1. q \in Seq(Paths) /\ Apart(q)
    BY DEF GroupType, Tidy
  <1>2. PICK i \in DOMAIN q : q[i] = p
    BY DEF ToSet
  <1>3. PathIndex(q, p) = i /\ r = RemoveAt(q, i)
    BY <1>1, <1>2, WithoutPath
  <1>4. i \in 1 .. Len(q)
    BY <1>1, <1>2
  <1>5. r \in Seq(Paths) /\ Len(r) = Len(q) - 1 /\ Apart(r) /\ ToSet(r) = ToSet(q) \ {p}
    <2>1. r \in Seq(Paths) /\ Len(r) = Len(q) - 1
      BY <1>1, <1>3, <1>4, RemoveAtPlaces
    <2>2. Apart(r) /\ ToSet(r) = ToSet(q) \ {q[i]}
      BY <1>1, <1>3, <1>4, RemoveAtElements
    <2>. QED
      BY <1>2, <2>1, <2>2
  <1>6. w = [group EXCEPT !.paths = r, !.active = IF @ = p THEN n ELSE @]
    BY DEF WithoutTab
  <1> HIDE DEF r, w
  <1>7. IF r = <<>> THEN n = None ELSE n \in ToSet(r)
    <2>1. CASE r = <<>>
      <3>1. i = 1 /\ DOMAIN r = {}
        BY <1>4, <1>5, <2>1
      <3>. QED
        BY <1>3, <2>1, <3>1 DEF NeighbourOf
    <2>2. CASE i \in DOMAIN r
      BY <1>3, <2>2 DEF NeighbourOf, ToSet
    <2>3. CASE r # <<>> /\ i \notin DOMAIN r
      <3>1. i - 1 \in DOMAIN r
        BY <1>4, <1>5, <2>3
      <3>2. n = r[i - 1]
        BY <1>3, <2>3, <3>1 DEF NeighbourOf
      <3>. QED
        BY <2>3, <3>1, <3>2 DEF ToSet
    <2>. QED
      BY <1>5, <2>1, <2>2, <2>3
  <1> HIDE DEF n
  <1>8. ToSet(r) \subseteq Paths
    BY <1>5 DEF ToSet
  <1>9. w \in GroupType /\ w.id = group.id /\ w.paths = r /\ w.active = IF group.active = p THEN n ELSE group.active
    BY <1>5, <1>6, <1>7, <1>8 DEF GroupType
  <1>10. q # <<>> /\ group.active \in ToSet(q)
    BY <1>1, <1>2 DEF Tidy
  <1>11. r = <<>> => ToSet(r) = {}
    BY DEF ToSet
  <1>12. Tidy(w)
    BY <1>5, <1>7, <1>9, <1>10, <1>11 DEF Tidy
  <1>. QED
    BY <1>5, <1>9, <1>12 DEF w


\* A strip with a tab brought to an insertion point, be it one of its own.
LEMMA InsertTabElements ==
    ASSUME NEW q \in Seq(Paths), Apart(q), NEW p \in Paths, NEW at \in 1 .. Len(q) + 1
    PROVE  /\ InsertTab(q, p, at) \in Seq(Paths) /\ Apart(InsertTab(q, p, at))
           /\ ToSet(InsertTab(q, p, at)) = ToSet(q) \union {p}
           /\ InsertTab(q, p, at) # <<>>
  <1> DEFINE r == RemoveFirst(q, p)
             c == PathIndex(q, p)
             slot == IF c # 0 /\ at > c THEN at - 1 ELSE at
  <1>1. /\ r \in Seq(Paths) /\ Apart(r) /\ ToSet(r) = ToSet(q) \ {p}
        /\ slot \in 1 .. Len(r) + 1
    <2>1. CASE p \in ToSet(q)
      <3>1. PICK i \in 1 .. Len(q) : q[i] = p
        BY <2>1 DEF ToSet
      <3>2. c = i /\ r = RemoveAt(q, i)
        BY <3>1, WithoutPath
      <3>3. r \in Seq(Paths) /\ Len(r) = Len(q) - 1
        BY <3>2, RemoveAtPlaces
      <3>4. Apart(r) /\ ToSet(r) = ToSet(q) \ {q[i]}
        BY <3>2, RemoveAtElements
      <3> HIDE DEF r, c
      <3>5. slot \in 1 .. Len(r) + 1
        BY <3>2, <3>3
      <3>. QED
        BY <3>1, <3>3, <3>4, <3>5
    <2>2. CASE p \notin ToSet(q)
      <3>1. \A j \in 1 .. Len(q) : q[j] # p
        BY <2>2 DEF ToSet
      <3>2. r = q
        BY <3>1, Zenon DEF RemoveFirst
      <3>3. {j \in 1 .. Len(q) : q[j] = p} = {}
        BY <3>1
      <3>4. c = 0
        BY <3>3 DEF PathIndex, SelectInSeq
      <3> HIDE DEF r, c
      <3>. QED
        BY <2>2, <3>2, <3>4
    <2>. QED
      BY <2>1, <2>2
  <1>2. InsertTab(q, p, at) = InsertAt(r, slot, p)
    BY DEF InsertTab
  <1> HIDE DEF r, slot
  <1>3. InsertAt(r, slot, p) \in Seq(Paths) /\ Len(InsertAt(r, slot, p)) = Len(r) + 1
    BY <1>1, InsertAtPlaces
  <1>4. Apart(InsertAt(r, slot, p)) /\ ToSet(InsertAt(r, slot, p)) = ToSet(r) \union {p}
    BY <1>1, InsertAtElements
  <1>. QED
    BY <1>1, <1>2, <1>3, <1>4

\* One group changes what it shows.
LEMMA GroupChanges ==
    ASSUME NEW gs, Neat(gs), NEW i \in DOMAIN gs,
           NEW h \in GroupType, Tidy(h), h.id = gs[i].id
    PROVE  LET next == [gs EXCEPT ![i] = h] IN
           /\ Neat(next) /\ Len(next) = Len(gs) /\ DOMAIN next = DOMAIN gs
           /\ next[i] = h /\ \A j \in DOMAIN gs : j # i => next[j] = gs[j]
           /\ \A j \in DOMAIN gs : next[j].id = gs[j].id
           /\ Ids(next) = Ids(gs)
  <1> DEFINE next == [gs EXCEPT ![i] = h]
  <1>1. /\ next \in Seq(GroupType) /\ Len(next) = Len(gs) /\ DOMAIN next = DOMAIN gs
        /\ next[i] = h /\ \A j \in DOMAIN gs : j # i => next[j] = gs[j]
    BY DEF Neat
  <1> HIDE DEF next
  <1>2. \A j \in DOMAIN gs : next[j].id = gs[j].id
    BY <1>1
  <1>3. Ids(next) = Ids(gs)
    BY <1>1, <1>2 DEF Ids
  <1>4. Neat(next)
    BY <1>1, <1>2 DEF Neat
  <1>. QED
    BY <1>1, <1>2, <1>3, <1>4 DEF next

\* A group goes.
LEMMA GroupGoes ==
    ASSUME NEW gs, Neat(gs), NEW i \in DOMAIN gs
    PROVE  LET next == RemoveAt(gs, i) IN
           /\ Neat(next) /\ Len(next) = Len(gs) - 1
           /\ \A k \in DOMAIN next : \E j \in DOMAIN gs : j # i /\ next[k] = gs[j]
           /\ \A j \in DOMAIN gs : j # i => \E k \in DOMAIN next : next[k] = gs[j]
           /\ Ids(next) \subseteq Ids(gs)
  <1> DEFINE next == RemoveAt(gs, i)
             at(k) == IF k < i THEN k ELSE k + 1
  <1>1. gs \in Seq(GroupType) /\ i \in 1 .. Len(gs) /\ DOMAIN gs = 1 .. Len(gs)
    BY DEF Neat
  <1>2. /\ next \in Seq(GroupType) /\ Len(next) = Len(gs) - 1 /\ DOMAIN next = 1 .. Len(gs) - 1
        /\ \A k \in DOMAIN next : at(k) \in DOMAIN gs /\ at(k) # i /\ next[k] = gs[at(k)]
    <2>1. next \in Seq(GroupType) /\ Len(next) = Len(gs) - 1
      BY <1>1, RemoveAtPlaces
    <2>2. \A k \in 1 .. Len(gs) - 1 : next[k] = gs[at(k)]
      BY <1>1, RemoveAtPlaces
    <2>3. \A k \in 1 .. Len(gs) - 1 : at(k) \in 1 .. Len(gs) /\ at(k) # i
      BY <1>1
    <2> HIDE DEF next, at
    <2>. QED
      BY <1>1, <2>1, <2>2, <2>3
  <1>3. \A j, k \in DOMAIN next : at(j) = at(k) => j = k
    BY <1>1, <1>2
  <1>4. Apart(gs)
    BY DEF Neat, Apart
  <1>5. ToSet(next) = ToSet(gs) \ {gs[i]}
    BY <1>1, <1>4, RemoveAtElements
  <1> HIDE DEF next, at
  <1>6. Neat(next)
    <2>1. \A j, k \in DOMAIN next : next[j].id = next[k].id => at(j) = at(k)
      BY <1>2 DEF Neat
    <2>2. \A k \in DOMAIN next : Tidy(next[k])
      BY <1>2 DEF Neat
    <2>. QED
      BY <1>2, <1>3, <2>1, <2>2 DEF Neat
  <1>7. ASSUME NEW j \in DOMAIN gs, j # i
        PROVE  \E k \in DOMAIN next : next[k] = gs[j]
    <2>1. gs[j] \in ToSet(next)
      BY <1>4, <1>5, <1>7 DEF Apart, ToSet
    <2>. QED
      BY <2>1 DEF ToSet
  <1>8. Ids(next) \subseteq Ids(gs)
    BY <1>2 DEF Ids
  <1>. QED
    BY <1>2, <1>6, <1>7, <1>8 DEF next

\* A group that is the only empty one folds away, and nothing else does.
LEMMA FoldIsSound ==
    ASSUME NEW gs, Neat(gs), gs # <<>>, NEW i \in DOMAIN gs,
           \A j \in DOMAIN gs : j # i => gs[j].paths # <<>>
    PROVE  /\ Sound(Fold(gs))
           /\ \A p : p \in Shown(Fold(gs)) <=> p \in Shown(gs)
           /\ Ids(Fold(gs)) \subseteq Ids(gs)
           /\ \A j \in DOMAIN gs : gs[j].paths # <<>> => gs[j].id \in Ids(Fold(gs))
  <1> DEFINE empty == SelectInSeq(gs, LAMBDA x : x.paths = <<>>)
             E == {j \in 1 .. Len(gs) : gs[j].paths = <<>>}
  <1>0. gs \in Seq(GroupType) /\ DOMAIN gs = 1 .. Len(gs) /\ Len(gs) \in Nat \ {0} /\ i \in Nat
    BY DEF Neat
  <1>1. CASE Len(gs) > 1 /\ gs[i].paths = <<>>
    <2>1. E = {i}
      BY <1>0, <1>1
    <2>2. empty = Min(E)
      BY <2>1 DEF SelectInSeq
    <2>3. empty = i
      BY <1>0, <2>1, <2>2, TheOnlyOne
    <2>4. Fold(gs) = RemoveAt(gs, i)
      BY <1>0, <1>1, <2>3 DEF Fold
    <2> DEFINE next == Fold(gs)
    <2>5. /\ Neat(next) /\ Len(next) = Len(gs) - 1
          /\ \A k \in DOMAIN next : \E j \in DOMAIN gs : j # i /\ next[k] = gs[j]
          /\ \A j \in DOMAIN gs : j # i => \E k \in DOMAIN next : next[k] = gs[j]
          /\ Ids(next) \subseteq Ids(gs)
      BY <2>4, GroupGoes
    <2> HIDE DEF next
    <2>6. next # <<>>
      BY <1>0, <1>1, <2>5
    <2>7. Sound(next)
      BY <2>5, <2>6 DEF Sound
    <2>8. ToSet(gs[i].paths) = {}
      BY <1>1 DEF ToSet
    <2>9. ASSUME NEW p
          PROVE  p \in Shown(next) <=> p \in Shown(gs)
      <3>1. p \in Shown(next) <=> \E k \in DOMAIN next : p \in ToSet(next[k].paths)
        BY ShownWhere
      <3>2. p \in Shown(gs) <=> \E j \in DOMAIN gs : p \in ToSet(gs[j].paths)
        BY ShownWhere
      <3>. QED
        BY <2>5, <2>8, <3>1, <3>2
    <2>10. \A j \in DOMAIN gs : gs[j].paths # <<>> => gs[j].id \in Ids(next)
      BY <1>1, <2>5 DEF Ids
    <2>. QED
      BY <2>5, <2>7, <2>9, <2>10 DEF next
  <1>2. CASE ~ (Len(gs) > 1 /\ gs[i].paths = <<>>)
    <2>1. Fold(gs) = gs
      <3>1. CASE Len(gs) > 1
        <4>1. E = {}
          BY <1>0, <1>2, <3>1
        <4>2. empty = 0
          BY <4>1 DEF SelectInSeq
        <4>. QED
          BY <4>2 DEF Fold
      <3>2. CASE ~ (Len(gs) > 1)
        BY <3>2 DEF Fold
      <3>. QED
        BY <3>1, <3>2
    <2>2. \A j \in DOMAIN gs : gs[j].paths = <<>> => Len(gs) = 1
      BY <1>0, <1>2
    <2>. QED
      BY <2>1, <2>2 DEF Sound, Ids
  <1>. QED
    BY <1>1, <1>2


\* A group comes.
LEMMA GroupComes ==
    ASSUME NEW gs, Neat(gs), NEW i \in 1 .. Len(gs) + 1,
           NEW h \in GroupType, Tidy(h), h.id \notin Ids(gs)
    PROVE  LET next == InsertAt(gs, i, h) IN
           /\ Neat(next) /\ Len(next) = Len(gs) + 1
           /\ \A k \in DOMAIN next : next[k] = h \/ \E j \in DOMAIN gs : next[k] = gs[j]
           /\ \A j \in DOMAIN gs : \E k \in DOMAIN next : next[k] = gs[j]
           /\ \E k \in DOMAIN next : next[k] = h
           /\ Ids(next) = Ids(gs) \union {h.id}
  <1> DEFINE next == InsertAt(gs, i, h)
             at(k) == IF k < i THEN k ELSE k - 1
  <1>1. gs \in Seq(GroupType) /\ DOMAIN gs = 1 .. Len(gs) /\ Apart(gs)
    BY DEF Neat, Apart
  <1>2. h \notin ToSet(gs)
    BY DEF Ids, ToSet
  <1>3. next \in Seq(GroupType) /\ Len(next) = Len(gs) + 1 /\ DOMAIN next = 1 .. Len(gs) + 1
    BY <1>1, InsertAtPlaces
  <1>4. Apart(next) /\ ToSet(next) = ToSet(gs) \union {h}
    BY <1>1, <1>2, InsertAtElements
  <1> HIDE DEF next
  <1>5. \A k \in DOMAIN next : next[k] = h \/ \E j \in DOMAIN gs : next[k] = gs[j]
    <2> TAKE k \in DOMAIN next
    <2>1. next[k] \in ToSet(next)
      BY DEF ToSet
    <2>2. next[k] = h \/ next[k] \in ToSet(gs)
      BY <1>4, <2>1
    <2>. QED
      BY <2>2 DEF ToSet
  <1>6. \A j \in DOMAIN gs : \E k \in DOMAIN next : next[k] = gs[j]
    <2> TAKE j \in DOMAIN gs
    <2>1. gs[j] \in ToSet(next)
      BY <1>4 DEF ToSet
    <2>. QED
      BY <2>1 DEF ToSet
  <1>7. \E k \in DOMAIN next : next[k] = h
    <2>1. h \in ToSet(next)
      BY <1>4
    <2>. QED
      BY <2>1 DEF ToSet
  <1>8. Neat(next)
    <2>1. ASSUME NEW j \in DOMAIN next, NEW k \in DOMAIN next, next[j].id = next[k].id
          PROVE  next[j] = next[k]
      <3>1. next[j] = h <=> next[k] = h
        BY <1>5, <2>1 DEF Ids
      <3>2. next[j] # h => next[j] = next[k]
        BY <1>5, <2>1, <3>1 DEF Neat
      <3>. QED
        BY <3>1, <3>2
    <2>2. \A k \in DOMAIN next : Tidy(next[k])
      BY <1>5 DEF Neat
    <2>. QED
      BY <1>3, <1>4, <2>1, <2>2 DEF Neat, Apart
  <1>9. Ids(next) = Ids(gs) \union {h.id}
    <2>1. \A x : x \in Ids(next) => x \in Ids(gs) \union {h.id}
      BY <1>5 DEF Ids
    <2>2. \A x : x \in Ids(gs) => x \in Ids(next)
      <3> SUFFICES ASSUME NEW j \in DOMAIN gs
                   PROVE  gs[j].id \in Ids(next)
        BY DEF Ids
      <3>1. PICK k \in DOMAIN next : next[k] = gs[j]
        BY <1>6
      <3>. QED
        BY <3>1 DEF Ids
    <2>3. h.id \in Ids(next)
      BY <1>7 DEF Ids
    <2>. QED
      BY <2>1, <2>2, <2>3
  <1>. QED
    BY <1>3, <1>5, <1>6, <1>7, <1>8, <1>9 DEF next

\* Only the file on top crosses over, and is shown twice.
LEMMA SplitIsSound ==
    ASSUME NEW gs, Sound(gs), NEW g \in Ids(gs), NEW new \in GroupIds, new \notin Ids(gs),
           gs[GroupIndex(gs, g)].active # None
    PROVE  /\ Sound(SplitGroups(gs, g, new))
           /\ \A p : p \in Shown(SplitGroups(gs, g, new)) <=> p \in Shown(gs)
           /\ Ids(SplitGroups(gs, g, new)) = Ids(gs) \union {new}
  <1> DEFINE i == GroupIndex(gs, g)
             a == gs[i].active
             h == [id |-> new, paths |-> <<a>>, active |-> a]
             next == SplitGroups(gs, g, new)
  <1>1. Neat(gs) /\ gs \in Seq(GroupType) /\ Len(gs) \in Nat
    BY DEF Sound, Neat
  <1>2. i \in DOMAIN gs /\ i \in 1 .. Len(gs)
    BY <1>1, FoundById
  <1> HIDE DEF i
  <1>3. gs[i] \in GroupType /\ Tidy(gs[i]) /\ a # None
    BY <1>1, <1>2 DEF Neat, i
  <1>4. gs[i].paths # <<>> /\ a \in ToSet(gs[i].paths) /\ a \in Paths
    BY <1>3 DEF Tidy, GroupType
  <1> HIDE DEF a
  <1>5. <<a>> \in Seq(Paths) /\ Apart(<<a>>) /\ ToSet(<<a>>) = {a} /\ <<a>> # <<>>
    BY <1>4 DEF Apart, ToSet
  <1>6. h \in GroupType /\ Tidy(h) /\ h.id = new /\ h.paths = <<a>>
    BY <1>4, <1>5 DEF GroupType, Tidy
  <1>7. next = InsertAt(gs, i + 1, h) /\ i + 1 \in 1 .. Len(gs) + 1
    BY <1>1, <1>2 DEF SplitGroups, i, a
  <1> HIDE DEF next, h
  <1>8. /\ Neat(next) /\ Len(next) = Len(gs) + 1
        /\ \A k \in DOMAIN next : next[k] = h \/ \E j \in DOMAIN gs : next[k] = gs[j]
        /\ \A j \in DOMAIN gs : \E k \in DOMAIN next : next[k] = gs[j]
        /\ \E k \in DOMAIN next : next[k] = h
        /\ Ids(next) = Ids(gs) \union {new}
    BY <1>1, <1>6, <1>7, GroupComes
  <1>9. \A j \in DOMAIN gs : gs[j].paths # <<>>
    <2> TAKE j \in DOMAIN gs
    <2>1. CASE gs[j].paths = <<>>
      <3>1. Len(gs) = 1
        BY <2>1 DEF Sound
      <3>2. i = j
        BY <1>1, <1>2, <3>1
      <3>. QED
        BY <1>4, <2>1, <3>2
    <2>. QED
      BY <2>1
  <1>10. Sound(next)
    <2>1. next # <<>>
      BY <1>1, <1>8
    <2>2. \A k \in DOMAIN next : next[k].paths # <<>>
      BY <1>5, <1>6, <1>8, <1>9
    <2>. QED
      BY <1>8, <2>1, <2>2 DEF Sound
  <1>11. ASSUME NEW p
         PROVE  p \in Shown(next) <=> p \in Shown(gs)
    <2>1. p \in Shown(next) <=> \E k \in DOMAIN next : p \in ToSet(next[k].paths)
      BY ShownWhere
    <2>2. p \in Shown(gs) <=> \E j \in DOMAIN gs : p \in ToSet(gs[j].paths)
      BY ShownWhere
    <2>3. p \in ToSet(h.paths) => p \in ToSet(gs[i].paths)
      BY <1>4, <1>5, <1>6
    <2>. QED
      BY <1>2, <1>8, <2>1, <2>2, <2>3
  <1>. QED
    BY <1>8, <1>10, <1>11 DEF next

\* A tab closes in one group: its file stays where another group shows it, and
\* every other file where it is.
LEMMA CloseTabIsSound ==
    ASSUME NEW gs, Sound(gs), NEW g, NEW p
    PROVE  LET next == CloseTabInGroups(gs, g, p) IN
           /\ Sound(next) /\ Ids(next) \subseteq Ids(gs)
           /\ \A q : q \in Shown(next) => q \in Shown(gs)
           /\ \A q : q \in Shown(gs) /\ q # p => q \in Shown(next)
           /\ \A j \in DOMAIN gs : gs[j].id # g /\ p \in ToSet(gs[j].paths) => p \in Shown(next)
  <1> DEFINE i == GroupIndex(gs, g)
             next == CloseTabInGroups(gs, g, p)
  <1>1. Neat(gs) /\ gs \in Seq(GroupType) /\ gs # <<>> /\ DOMAIN gs = 1 .. Len(gs)
    BY DEF Sound, Neat
  <1>2. CASE i = 0 \/ p \notin ToSet(gs[i].paths)
    <2>1. next = gs
      BY <1>2 DEF CloseTabInGroups
    <2>. QED
      BY <2>1, ShownWhere
  <1>3. CASE i # 0 /\ p \in ToSet(gs[i].paths)
    <2>1. g \in Ids(gs)
      BY <1>1, <1>3, NotFound
    <2>2. i \in DOMAIN gs /\ gs[i].id = g
      BY <1>1, <2>1, FoundById
    <2> DEFINE w == WithoutTab(gs[i], p)
               less == [gs EXCEPT ![i] = w]
    <2>3. next = Fold(less)
      BY <1>3 DEF CloseTabInGroups
    <2> HIDE DEF i
    <2>4. gs[i] \in GroupType /\ Tidy(gs[i])
      BY <1>1, <2>2 DEF Neat
    <2>5. w \in GroupType /\ w.id = gs[i].id /\ Tidy(w) /\ ToSet(w.paths) = ToSet(gs[i].paths) \ {p}
      BY <1>3, <2>4, WithoutTabIsTidy
    <2> HIDE DEF w
    <2>6. /\ Neat(less) /\ Len(less) = Len(gs) /\ DOMAIN less = DOMAIN gs
          /\ less[i] = w /\ \A j \in DOMAIN gs : j # i => less[j] = gs[j]
          /\ Ids(less) = Ids(gs)
      BY <1>1, <2>2, <2>5, GroupChanges
    <2> HIDE DEF less, next
    <2>7. less # <<>> /\ i \in DOMAIN less
      BY <1>1, <2>2, <2>6
    <2>8. \A j \in DOMAIN less : j # i => less[j].paths # <<>>
      BY <1>1, <2>2, <2>6 DEF Sound
    <2>9. /\ Sound(next) /\ Ids(next) \subseteq Ids(gs)
          /\ \A q : q \in Shown(next) <=> q \in Shown(less)
      BY <2>3, <2>6, <2>7, <2>8, FoldIsSound
    <2>10. ASSUME NEW q
           PROVE  /\ q \in Shown(next) <=> \E j \in DOMAIN gs : q \in ToSet(less[j].paths)
                  /\ q \in Shown(gs) <=> \E j \in DOMAIN gs : q \in ToSet(gs[j].paths)
      <3>1. q \in Shown(less) <=> \E j \in DOMAIN less : q \in ToSet(less[j].paths)
        BY ShownWhere
      <3>2. q \in Shown(gs) <=> \E j \in DOMAIN gs : q \in ToSet(gs[j].paths)
        BY ShownWhere
      <3>. QED
        BY <2>6, <2>9, <3>1, <3>2
    <2>11. \A q : q \in Shown(next) => q \in Shown(gs)
      BY <2>2, <2>5, <2>6, <2>10
    <2>12. \A q : q \in Shown(gs) /\ q # p => q \in Shown(next)
      BY <2>2, <2>5, <2>6, <2>10
    <2>13. \A j \in DOMAIN gs : gs[j].id # g /\ p \in ToSet(gs[j].paths) => p \in Shown(next)
      BY <2>2, <2>6, <2>10
    <2>. QED
      BY <2>9, <2>11, <2>12, <2>13 DEF next
  <1>. QED
    BY <1>2, <1>3


\* A drag takes a file to a group and loses none.
LEMMA MoveIsSound ==
    ASSUME NEW gs, Sound(gs), NEW g \in Ids(gs), NEW target \in Ids(gs),
           NEW p \in ToSet(gs[GroupIndex(gs, g)].paths),
           NEW at \in 1 .. Len(gs[GroupIndex(gs, target)].paths) + 1
    PROVE  LET next == MoveTabInGroups(gs, g, p, target, at) IN
           /\ Sound(next) /\ Ids(next) \subseteq Ids(gs) /\ target \in Ids(next)
           /\ \A q : q \in Shown(next) <=> q \in Shown(gs)
  <1> DEFINE i == GroupIndex(gs, g)
             j == GroupIndex(gs, target)
             moved == [gs[j] EXCEPT !.paths = InsertTab(@, p, at), !.active = p]
             next == MoveTabInGroups(gs, g, p, target, at)
  <1>1. Neat(gs) /\ gs \in Seq(GroupType) /\ gs # <<>> /\ DOMAIN gs = 1 .. Len(gs)
    BY DEF Sound, Neat
  <1>2. i \in DOMAIN gs /\ gs[i].id = g /\ j \in DOMAIN gs /\ gs[j].id = target
    BY <1>1, FoundById
  <1>3. /\ gs[i] \in GroupType /\ Tidy(gs[i]) /\ gs[j] \in GroupType /\ Tidy(gs[j])
        /\ p \in ToSet(gs[i].paths) /\ at \in 1 .. Len(gs[j].paths) + 1
    BY <1>1, <1>2 DEF Neat
  <1>4. next = IF i # j THEN Fold([gs EXCEPT ![i] = WithoutTab(@, p), ![j] = moved])
               ELSE IF moved.paths = gs[j].paths THEN gs ELSE [gs EXCEPT ![j] = moved]
    BY DEF MoveTabInGroups
  <1> HIDE DEF i, j, next
  <1> DEFINE r == InsertTab(gs[j].paths, p, at)
  <1>5. p \in Paths
    BY <1>3 DEF GroupType, ToSet
  <1>6. r \in Seq(Paths) /\ Apart(r) /\ ToSet(r) = ToSet(gs[j].paths) \union {p} /\ r # <<>>
    <2>1. gs[j].paths \in Seq(Paths) /\ Apart(gs[j].paths)
      BY <1>3 DEF GroupType, Tidy
    <2>. QED
      BY <1>3, <1>5, <2>1, InsertTabElements
  <1>7. moved = [gs[j] EXCEPT !.paths = r, !.active = p]
    OBVIOUS
  <1> HIDE DEF r, moved
  <1>8. moved \in GroupType /\ moved.id = gs[j].id /\ moved.paths = r /\ moved.active = p
    BY <1>3, <1>5, <1>6, <1>7 DEF GroupType
  <1>9. Tidy(moved)
    BY <1>6, <1>8 DEF Tidy
  <1>10. CASE i = j
    <2> DEFINE set == [gs EXCEPT ![j] = moved]
    <2>1. /\ Neat(set) /\ Len(set) = Len(gs) /\ DOMAIN set = DOMAIN gs
          /\ set[j] = moved /\ \A k \in DOMAIN gs : k # j => set[k] = gs[k]
          /\ Ids(set) = Ids(gs)
      <3>1. Neat(gs) /\ j \in DOMAIN gs /\ moved \in GroupType /\ Tidy(moved) /\ moved.id = gs[j].id
        BY <1>1, <1>2, <1>8, <1>9
      <3>. QED
        BY <3>1, GroupChanges
    <2>2. next = gs \/ next = set
      BY <1>4, <1>10
    <2> HIDE DEF set
    <2>3. Sound(set)
      BY <1>1, <1>6, <1>8, <2>1 DEF Sound
    <2>4. ASSUME NEW q
          PROVE  q \in Shown(set) <=> q \in Shown(gs)
      <3>1. q \in Shown(set) <=> \E k \in DOMAIN set : q \in ToSet(set[k].paths)
        BY ShownWhere
      <3>2. q \in Shown(gs) <=> \E k \in DOMAIN gs : q \in ToSet(gs[k].paths)
        BY ShownWhere
      <3>3. ToSet(moved.paths) = ToSet(gs[j].paths)
        BY <1>3, <1>6, <1>8, <1>10
      <3>. QED
        BY <1>2, <2>1, <3>1, <3>2, <3>3
    <2>. QED
      BY <2>1, <2>2, <2>3, <2>4 DEF next
  <1>11. CASE i # j
    <2> DEFINE w == WithoutTab(gs[i], p)
               less == [gs EXCEPT ![i] = w]
               set == [less EXCEPT ![j] = moved]
    <2>1. w \in GroupType /\ w.id = gs[i].id /\ Tidy(w) /\ ToSet(w.paths) = ToSet(gs[i].paths) \ {p}
      BY <1>3, WithoutTabIsTidy
    <2>2. next = Fold(set)
      <3>1. [gs EXCEPT ![i] = WithoutTab(@, p), ![j] = moved] = set
        BY <1>1, <1>2, <1>11
      <3>. QED
        BY <1>4, <1>11, <3>1
    <2> HIDE DEF w
    <2>3. /\ Neat(less) /\ DOMAIN less = DOMAIN gs /\ Len(less) = Len(gs)
          /\ less[i] = w /\ \A k \in DOMAIN gs : k # i => less[k] = gs[k]
          /\ Ids(less) = Ids(gs)
      <3>1. Neat(gs) /\ i \in DOMAIN gs /\ w \in GroupType /\ Tidy(w) /\ w.id = gs[i].id
        BY <1>1, <1>2, <2>1
      <3>. QED
        BY <3>1, GroupChanges
    <2> HIDE DEF less
    <2>4. j \in DOMAIN less /\ moved.id = less[j].id
      BY <1>2, <1>8, <1>11, <2>3
    <2>5. /\ Neat(set) /\ DOMAIN set = DOMAIN less /\ Len(set) = Len(less)
          /\ set[j] = moved /\ \A k \in DOMAIN less : k # j => set[k] = less[k]
          /\ Ids(set) = Ids(less)
      <3>1. Neat(less) /\ j \in DOMAIN less /\ moved \in GroupType /\ Tidy(moved) /\ moved.id = less[j].id
        BY <1>8, <1>9, <2>3, <2>4
      <3>. QED
        BY <3>1, GroupChanges
    <2> HIDE DEF set
    <2>6. /\ DOMAIN set = DOMAIN gs /\ set[i] = w /\ set[j] = moved
          /\ \A k \in DOMAIN gs : k # i /\ k # j => set[k] = gs[k]
      BY <1>2, <1>11, <2>3, <2>5
    <2>7. set # <<>> /\ i \in DOMAIN set
      BY <1>1, <1>2, <2>3, <2>5, <2>6
    <2>8. \A k \in DOMAIN set : k # i => set[k].paths # <<>>
      <3>1. Len(gs) # 1
        BY <1>1, <1>2, <1>11
      <3>. QED
        BY <1>6, <1>8, <2>6, <3>1 DEF Sound
    <2>9. /\ Sound(next) /\ Ids(next) \subseteq Ids(set)
          /\ \A q : q \in Shown(next) <=> q \in Shown(set)
          /\ \A k \in DOMAIN set : set[k].paths # <<>> => set[k].id \in Ids(next)
      BY <2>2, <2>5, <2>7, <2>8, FoldIsSound
    <2>10. target \in Ids(next)
      BY <1>2, <1>6, <1>8, <2>6, <2>9
    <2>11. ASSUME NEW q
           PROVE  q \in Shown(next) <=> q \in Shown(gs)
      <3>1. q \in Shown(set) <=> \E k \in DOMAIN set : q \in ToSet(set[k].paths)
        BY ShownWhere
      <3>2. q \in Shown(gs) <=> \E k \in DOMAIN gs : q \in ToSet(gs[k].paths)
        BY ShownWhere
      <3>3. q \in Shown(next) <=> \E k \in DOMAIN gs : q \in ToSet(set[k].paths)
        BY <2>6, <2>9, <3>1
      <3>4. ASSUME NEW k \in DOMAIN gs, q \in ToSet(set[k].paths)
            PROVE  q \in Shown(gs)
        <4>1. CASE k = i
          BY <1>2, <2>1, <2>6, <3>2, <3>4, <4>1
        <4>2. CASE k = j
          BY <1>2, <1>3, <1>6, <1>8, <2>6, <3>2, <3>4, <4>2
        <4>3. CASE k # i /\ k # j
          BY <2>6, <3>2, <3>4, <4>3
        <4>. QED
          BY <4>1, <4>2, <4>3
      <3>5. ASSUME NEW k \in DOMAIN gs, q \in ToSet(gs[k].paths)
            PROVE  q \in Shown(next)
        <4>1. CASE q = p \/ k = j
          BY <1>2, <1>6, <1>8, <2>6, <3>3, <3>5, <4>1
        <4>2. CASE q # p /\ k = i
          BY <1>2, <2>1, <2>6, <3>3, <3>5, <4>2
        <4>3. CASE k # i /\ k # j
          BY <2>6, <3>3, <3>5, <4>3
        <4>. QED
          BY <4>1, <4>2, <4>3
      <3>. QED
        BY <3>2, <3>3, <3>4, <3>5
    <2>. QED
      BY <2>3, <2>5, <2>9, <2>10, <2>11 DEF next
  <1>. QED
    BY <1>10, <1>11

\* A group closes: what it showed alone is orphaned, and the focus is on one that
\* is left.
LEMMA CloseGroupIsSound ==
    ASSUME NEW gs, Sound(gs), NEW g \in Ids(gs), Len(gs) > 1
    PROVE  LET out == CloseGroupInGroups(gs, g) IN
           /\ Sound(out.groups) /\ Ids(out.groups) \subseteq Ids(gs)
           /\ out.focus \in Ids(out.groups)
           /\ \A q : q \in Shown(gs) <=> q \in Shown(out.groups) \/ q \in out.orphaned
           /\ \A q : q \in Shown(out.groups) => q \notin out.orphaned
  <1> DEFINE i == GroupIndex(gs, g)
             rest == RemoveAt(gs, i)
             out == CloseGroupInGroups(gs, g)
  <1>1. Neat(gs) /\ gs \in Seq(GroupType) /\ DOMAIN gs = 1 .. Len(gs)
    BY DEF Sound, Neat
  <1>2. i \in DOMAIN gs
    BY <1>1, FoundById
  <1>3. /\ out.groups = rest /\ out.focus = rest[IF i > 1 THEN i - 1 ELSE 1].id
        /\ out.orphaned = ToSet(gs[i].paths) \ Shown(rest)
    BY DEF CloseGroupInGroups
  <1> HIDE DEF out
  <1>4. /\ Neat(rest) /\ Len(rest) = Len(gs) - 1
        /\ \A k \in DOMAIN rest : \E j \in DOMAIN gs : j # i /\ rest[k] = gs[j]
        /\ \A j \in DOMAIN gs : j # i => \E k \in DOMAIN rest : rest[k] = gs[j]
        /\ Ids(rest) \subseteq Ids(gs)
    BY <1>1, <1>2, GroupGoes
  <1> HIDE DEF i, rest
  <1>5. DOMAIN rest = 1 .. Len(gs) - 1 /\ Len(gs) \in Nat
    BY <1>1, <1>4 DEF Neat
  <1>6. Sound(rest)
    <2>1. rest # <<>>
      BY <1>4, <1>5
    <2>2. \A k \in DOMAIN rest : rest[k].paths # <<>>
      BY <1>4, <1>5 DEF Sound
    <2>. QED
      BY <1>4, <2>1, <2>2 DEF Sound
  <1>7. out.focus \in Ids(rest)
    <2>1. (IF i > 1 THEN i - 1 ELSE 1) \in DOMAIN rest
      BY <1>1, <1>2, <1>5
    <2>. QED
      BY <1>3, <2>1 DEF Ids
  <1>8. ASSUME NEW q
        PROVE  q \in Shown(gs) <=> q \in Shown(rest) \/ q \in ToSet(gs[i].paths)
    <2>1. q \in Shown(rest) <=> \E k \in DOMAIN rest : q \in ToSet(rest[k].paths)
      BY ShownWhere
    <2>2. q \in Shown(gs) <=> \E k \in DOMAIN gs : q \in ToSet(gs[k].paths)
      BY ShownWhere
    <2>. QED
      BY <1>2, <1>4, <2>1, <2>2
  <1>. QED
    BY <1>3, <1>4, <1>6, <1>7, <1>8 DEF out

\* A file opens in the group that has the focus.  What it takes the place of, if
\* that is shown nowhere now, is a peek.
LEMMA OpenIsSound ==
    ASSUME NEW gs, Sound(gs), NEW g \in Ids(gs), NEW p \in Paths, NEW pin \in BOOLEAN, NEW previews
    PROVE  LET out == OpenInGroups(gs, g, p, pin, previews) IN
           /\ Sound(out.groups) /\ Ids(out.groups) = Ids(gs)
           /\ out.evicted \subseteq previews
           /\ \A q : q \in Shown(out.groups) <=> q = p \/ (q \in Shown(gs) /\ q \notin out.evicted)
           /\ p \notin out.evicted
  <1> DEFINE t == GroupIndex(gs, g)
             s == gs[t].paths
             slot == PreviewSlot(gs[t], p, pin, previews)
             paths == IF p \in ToSet(s) THEN s
                      ELSE IF slot = 0 THEN Append(s, p) ELSE ReplaceAt(s, slot, p)
             h == [gs[t] EXCEPT !.paths = paths, !.active = p]
             next == [gs EXCEPT ![t] = h]
             out == OpenInGroups(gs, g, p, pin, previews)
  <1>1. Neat(gs) /\ gs \in Seq(GroupType) /\ gs # <<>> /\ DOMAIN gs = 1 .. Len(gs)
    BY DEF Sound, Neat
  <1>2. t \in DOMAIN gs /\ t # 0
    BY <1>1, FoundById
  <1>3. /\ out.groups = next
        /\ out.evicted = IF slot = 0 THEN {} ELSE Evicted(s[slot], next)
    BY <1>2 DEF OpenInGroups
  <1> HIDE DEF out
  <1>4. gs[t] \in GroupType /\ Tidy(gs[t]) /\ s \in Seq(Paths) /\ Apart(s)
    <2> HIDE DEF t
    <2>1. gs[t] \in GroupType /\ Tidy(gs[t])
      BY <1>1, <1>2 DEF Neat
    <2>. QED
      BY <2>1 DEF GroupType, Tidy
  <1>5. slot = 0 \/ (slot \in DOMAIN s /\ s[slot] \in previews /\ p \notin ToSet(s))
    <2> DEFINE I == {k \in 1 .. Len(s) : s[k] \in previews}
    <2>1. CASE pin \/ p \in ToSet(s)
      BY <2>1 DEF PreviewSlot
    <2>2. CASE ~ (pin \/ p \in ToSet(s))
      <3>1. slot = IF I # {} THEN Min(I) ELSE 0
        BY <2>2 DEF PreviewSlot, SelectInSeq
      <3>2. I # {} => Min(I) \in I
        <4>1. I \subseteq Nat
          OBVIOUS
        <4> HIDE DEF I
        <4>. QED
          BY <4>1, LeastIsThere
      <3>. QED
        BY <1>4, <2>2, <3>1, <3>2
    <2>. QED
      BY <2>1, <2>2
  <1> HIDE DEF t, slot
  <1> DEFINE gone == IF slot = 0 THEN {} ELSE {s[slot]}
  <1>6. /\ paths \in Seq(Paths) /\ Apart(paths) /\ paths # <<>>
        /\ \A q : q \in ToSet(paths) <=> q = p \/ (q \in ToSet(s) /\ q \notin gone)
    <2>1. CASE p \in ToSet(s)
      <3>1. paths = s /\ slot = 0 /\ s # <<>>
        <4>1. slot = 0
          BY <1>5, <2>1
        <4>3. paths = s
          BY <2>1, <4>1
        <4>2. s # <<>>
          BY <2>1 DEF ToSet
        <4>. QED
          BY <4>1, <4>2, <4>3
      <3>. QED
        BY <1>4, <2>1, <3>1
    <2>2. CASE p \notin ToSet(s) /\ slot = 0
      <3>1. paths = Append(s, p)
        BY <2>2
      <3>2. /\ Append(s, p) \in Seq(Paths) /\ Len(Append(s, p)) = Len(s) + 1
            /\ Append(s, p)[Len(s) + 1] = p /\ \A k \in 1 .. Len(s) : Append(s, p)[k] = s[k]
        BY <1>4
      <3> HIDE DEF paths
      <3>3. Apart(paths)
        <4>1. DOMAIN paths = 1 .. Len(s) + 1 /\ DOMAIN s = 1 .. Len(s)
          BY <1>4, <3>1, <3>2
        <4>2. \A k \in 1 .. Len(s) : paths[k] = s[k] /\ s[k] # p
          BY <1>4, <2>2, <3>1, <3>2 DEF ToSet
        <4>. QED
          BY <1>4, <3>1, <3>2, <4>1, <4>2 DEF Apart
      <3>4. \A q : q \in ToSet(paths) <=> q = p \/ q \in ToSet(s)
        BY <1>4, <3>1, <3>2 DEF ToSet
      <3>. QED
        BY <1>4, <2>2, <3>1, <3>2, <3>3, <3>4
    <2>3. CASE p \notin ToSet(s) /\ slot # 0
      <3>1. paths = [s EXCEPT ![slot] = p]
        BY <2>3 DEF ReplaceAt
      <3>2. slot \in DOMAIN s
        BY <1>5, <2>3
      <3>3. /\ paths \in Seq(Paths) /\ DOMAIN paths = DOMAIN s /\ paths[slot] = p
            /\ \A k \in DOMAIN s : k # slot => paths[k] = s[k]
        BY <1>4, <3>1, <3>2
      <3> HIDE DEF paths
      <3>4. Apart(paths)
        BY <1>4, <2>3, <3>2, <3>3 DEF Apart, ToSet
      <3>5. \A q : q \in ToSet(paths) => q = p \/ (q \in ToSet(s) /\ q # s[slot])
        BY <1>4, <3>2, <3>3 DEF Apart, ToSet
      <3>6. \A q : q \in ToSet(s) /\ q # s[slot] => q \in ToSet(paths)
        BY <3>2, <3>3 DEF ToSet
      <3>7. p \in ToSet(paths)
        BY <3>2, <3>3 DEF ToSet
      <3>8. paths # <<>>
        BY <3>2, <3>3
      <3>. QED
        BY <2>3, <3>3, <3>4, <3>5, <3>6, <3>7, <3>8
    <2>. QED
      BY <2>1, <2>2, <2>3
  <1> HIDE DEF paths
  <1>7. h \in GroupType /\ h.id = gs[t].id /\ h.paths = paths /\ h.active = p
    BY <1>4, <1>6 DEF GroupType
  <1>8. Tidy(h)
    BY <1>6, <1>7 DEF Tidy
  <1> HIDE DEF h
  <1>9. /\ Neat(next) /\ Len(next) = Len(gs) /\ DOMAIN next = DOMAIN gs
        /\ next[t] = h /\ \A k \in DOMAIN gs : k # t => next[k] = gs[k]
        /\ Ids(next) = Ids(gs)
    <2>1. Neat(gs) /\ t \in DOMAIN gs
      BY <1>1, <1>2
    <2>. QED
      BY <1>7, <1>8, <2>1, GroupChanges
  <1> HIDE DEF next
  <1>10. Sound(next)
    BY <1>1, <1>6, <1>7, <1>9 DEF Sound
  <1>11. out.evicted = gone \ Shown(next)
    BY <1>3 DEF Evicted
  <1>12. ASSUME NEW q
         PROVE  q \in Shown(next) <=> q = p \/ (q \in Shown(gs) /\ q \notin out.evicted)
    <2>1. q \in Shown(next) <=> \E k \in DOMAIN gs : q \in ToSet(next[k].paths)
      BY <1>9, ShownWhere
    <2>2. q \in Shown(gs) <=> \E k \in DOMAIN gs : q \in ToSet(gs[k].paths)
      BY ShownWhere
    <2>3. q \in Shown(next) => q = p \/ q \in Shown(gs)
      BY <1>2, <1>6, <1>7, <1>9, <2>1, <2>2
    <2>4. q = p => q \in Shown(next)
      BY <1>2, <1>6, <1>7, <1>9, <2>1
    <2>5. q \in Shown(gs) /\ q \notin gone => q \in Shown(next)
      BY <1>2, <1>6, <1>7, <1>9, <2>1, <2>2
    <2>. QED
      BY <1>11, <2>3, <2>4, <2>5
  <1>13. gone \subseteq previews
    BY <1>5
  <1>. QED
    BY <1>3, <1>9, <1>10, <1>11, <1>12, <1>13 DEF out


-----------------------------------------------------------------------------
(***************************************************************************)
(* The inductive invariant: types first.                                   *)
(***************************************************************************)

CallType == [kind : {"open", "reload", "save"}, project : Projects, path : Paths,
             text : AnyText, pc : {"sent", "answered"},
             turn : 1 .. MaxCalls, stale : BOOLEAN]

Files    == project \in Projects /\ held \in [Paths -> SUBSET AnyText]
Strips   == Sound(groups) /\ focus \in Ids(groups)
Registry == DOMAIN tabs \subseteq Paths /\ tabs \in [DOMAIN tabs -> Tab]
UnderWay == calls \subseteq CallType

\* The strip that the dialog remembers is a sound one too.
Asking ==
    /\ dialog.about \in {"none", "tab", "group"}
    /\ dialog.about = "none" <=> dialog = NoDialog
    /\ dialog.about = "tab" => dialog.path \in Paths
    /\ dialog.about = "group" => Sound(dialog.rest) /\ dialog.focus \in Ids(dialog.rest)

TypeInv == Files /\ Strips /\ Registry /\ UnderWay /\ Asking

\* A call of before the last change of project is stale; any other is about the
\* files on screen.
CallsFit ==
    \A c \in calls : ~c.stale =>
        /\ c.project = project
        /\ c.pc = "answered" => c.text \in held[c.path] \union {Message}

\* A tab is measured against what its file has held, unless a stale call filled it.
TabsFit ==
    \A p \in DOMAIN tabs :
        ~tabs[p].stray /\ ~tabs[p].loading => tabs[p].original \in held[p] \union {Message}

IInv == TypeInv /\ NothingIsKeptUnseen /\ CallsFit /\ TabsFit

-----------------------------------------------------------------------------
(***************************************************************************)
(* The first state.                                                        *)
(***************************************************************************)

\* A strip of one empty group.
LEMMA NewGroupIsSound ==
    ASSUME NEW g \in GroupIds
    PROVE  /\ Sound(<<NewGroup(g)>>) /\ g \in Ids(<<NewGroup(g)>>)
           /\ \A q : q \notin Shown(<<NewGroup(g)>>)
  <1> DEFINE h == NewGroup(g)
             gs == <<h>>
  <1>1. h \in GroupType /\ h.id = g /\ h.paths = <<>> /\ h.active = None
    BY DEF NewGroup, GroupType
  <1>2. Tidy(h) /\ ToSet(h.paths) = {}
    BY <1>1 DEF Tidy, Apart, ToSet
  <1> HIDE DEF h
  <1>3. gs \in Seq(GroupType) /\ gs # <<>> /\ Len(gs) = 1 /\ DOMAIN gs = {1} /\ gs[1] = h
    BY <1>1
  <1> HIDE DEF gs
  <1>4. Sound(gs) /\ g \in Ids(gs)
    BY <1>1, <1>2, <1>3 DEF Sound, Neat, Ids
  <1>5. \A q : q \notin Shown(gs)
    BY <1>2, <1>3, ShownWhere
  <1>. QED
    BY <1>4, <1>5 DEF gs, h

LEMMA NoTabs ==
    ASSUME NEW T, NEW t, t = <<>>
    PROVE  DOMAIN t = {} /\ t \in [DOMAIN t -> T]
  <1>1. DOMAIN t = {}
    OBVIOUS
  <1>2. t = [x \in {} |-> x]
    OBVIOUS
  <1>. QED
    BY <1>1, <1>2

LEMMA InitIInv == Init => IInv
  <1> SUFFICES ASSUME Init
               PROVE  IInv
    OBVIOUS
  <1>1. PICK g \in GroupIds : groups = <<NewGroup(g)>> /\ focus = g
    BY DEF Init
  <1>2. Strips /\ \A q : q \notin Shown(groups)
    BY <1>1, NewGroupIsSound DEF Strips
  <1>3. DOMAIN tabs = {} /\ Registry
    BY NoTabs DEF Init, Registry
  <1>4. Files
    <2>1. PICK disk \in [Paths -> Texts] : held = [p \in Paths |-> {disk[p]}]
      BY DEF Init
    <2>. QED
      BY <2>1 DEF Init, Files, AnyText
  <1>5. UnderWay /\ Asking
    BY DEF Init, UnderWay, Asking, NoDialog
  <1>6. CallsFit
    BY DEF Init, CallsFit
  <1>7. NothingIsKeptUnseen /\ TabsFit
    BY <1>3 DEF NothingIsKeptUnseen, TabsFit
  <1>. QED
    BY <1>2, <1>3, <1>4, <1>5, <1>6, <1>7 DEF IInv, TypeInv

-----------------------------------------------------------------------------
(***************************************************************************)
(* The strip, after every operation.                                       *)
(***************************************************************************)

\* The group with the focus, or the first that is left.
LEMMA DropIsSound ==
    ASSUME Strips, NEW g, NEW p, Drop(g, p)
    PROVE  /\ Strips'
           /\ \A q : q \in Shown(groups') => q \in Shown(groups)
           /\ \A q : q \in Shown(groups) /\ q # p => q \in Shown(groups')
           /\ \A j \in DOMAIN groups : groups[j].id # g /\ p \in ToSet(groups[j].paths) => p \in Shown(groups')
  <1>1. groups' = CloseTabInGroups(groups, g, p)
    BY DEF Drop
  <1>2. Sound(groups)
    BY DEF Strips
  <1>3. /\ Sound(groups')
        /\ \A q : q \in Shown(groups') => q \in Shown(groups)
        /\ \A q : q \in Shown(groups) /\ q # p => q \in Shown(groups')
        /\ \A j \in DOMAIN groups : groups[j].id # g /\ p \in ToSet(groups[j].paths) => p \in Shown(groups')
    BY <1>1, <1>2, CloseTabIsSound
  <1>4. 1 \in DOMAIN groups'
    BY <1>3 DEF Sound, Neat
  <1>5. groups'[1].id \in Ids(groups')
    BY <1>4 DEF Ids
  <1>6. focus' = IF focus \in Ids(groups') THEN focus ELSE groups'[1].id
    BY <1>1 DEF Drop
  <1>7. focus' \in Ids(groups')
    BY <1>5, <1>6
  <1>8. Strips'
    BY <1>3, <1>7 DEF Strips
  <1>. QED
    BY <1>3, <1>8

\* Selecting a tab changes only what is on top.
LEMMA SelectIsSound ==
    ASSUME Strips, NEW g \in Ids(groups), NEW p \in Paths, Select(g, p)
    PROVE  Strips' /\ \A q : q \in Shown(groups') <=> q \in Shown(groups)
  <1> DEFINE i == GroupIndex(groups, g)
             h == [groups[i] EXCEPT !.active = p]
  <1>1. Neat(groups) /\ groups # <<>>
    BY DEF Strips, Sound
  <1>2. i \in DOMAIN groups /\ groups[i].id = g
    BY <1>1, FoundById
  <1>3. p \in ToSet(groups[i].paths)
    BY DEF Select, Group
  <1>4. groups' = [groups EXCEPT ![i] = h] /\ focus' = g
    BY <1>2 DEF Select
  <1> HIDE DEF i
  <1>5. groups[i] \in GroupType /\ Tidy(groups[i])
    BY <1>1, <1>2 DEF Neat
  <1>6. h \in GroupType /\ h.id = groups[i].id /\ h.paths = groups[i].paths /\ h.active = p
    BY <1>5 DEF GroupType
  <1>7. groups[i].paths # <<>>
    BY <1>3 DEF ToSet
  <1>8. Tidy(h)
    BY <1>3, <1>5, <1>6, <1>7 DEF Tidy
  <1> HIDE DEF h
  <1>9. /\ Neat(groups') /\ Len(groups') = Len(groups) /\ DOMAIN groups' = DOMAIN groups
        /\ groups'[i] = h /\ \A j \in DOMAIN groups : j # i => groups'[j] = groups[j]
        /\ Ids(groups') = Ids(groups)
    <2> DEFINE next == [groups EXCEPT ![i] = h]
    <2>1. /\ Neat(next) /\ Len(next) = Len(groups) /\ DOMAIN next = DOMAIN groups
          /\ next[i] = h /\ \A j \in DOMAIN groups : j # i => next[j] = groups[j]
          /\ Ids(next) = Ids(groups)
      BY <1>1, <1>2, <1>6, <1>8, GroupChanges
    <2> HIDE DEF next
    <2>2. groups' = next
      BY <1>4 DEF next
    <2>. QED
      BY <2>1, <2>2
  <1>10. \A j \in DOMAIN groups : groups'[j].paths = groups[j].paths
    BY <1>6, <1>9
  <1>11. Sound(groups')
    BY <1>1, <1>9, <1>10 DEF Sound, Strips
  <1>12. ASSUME NEW q
         PROVE  q \in Shown(groups') <=> q \in Shown(groups)
    <2>1. q \in Shown(groups') <=> \E k \in DOMAIN groups' : q \in ToSet(groups'[k].paths)
      BY ShownWhere
    <2>2. q \in Shown(groups) <=> \E k \in DOMAIN groups : q \in ToSet(groups[k].paths)
      BY ShownWhere
    <2>. QED
      BY <1>9, <1>10, <2>1, <2>2
  <1>13. Strips'
    BY <1>2, <1>4, <1>9, <1>11 DEF Strips
  <1>. QED
    BY <1>12, <1>13

LEMMA OpenFileIsSound ==
    ASSUME Strips, NEW p \in Paths, NEW pin \in BOOLEAN, OpenFile(p, pin)
    PROVE  LET evicted == OpenInGroups(groups, focus, p, pin, Previews).evicted IN
           /\ Strips'
           /\ evicted \subseteq Previews /\ p \notin evicted
           /\ \A q : q \in Shown(groups') <=> q = p \/ (q \in Shown(groups) /\ q \notin evicted)
  <1> DEFINE out == OpenInGroups(groups, focus, p, pin, Previews)
  <1>1. Sound(groups) /\ focus \in Ids(groups)
    BY DEF Strips
  <1>2. /\ Sound(out.groups) /\ Ids(out.groups) = Ids(groups)
        /\ out.evicted \subseteq Previews
        /\ \A q : q \in Shown(out.groups) <=> q = p \/ (q \in Shown(groups) /\ q \notin out.evicted)
        /\ p \notin out.evicted
    BY <1>1, OpenIsSound
  <1>3. groups' = out.groups /\ focus' = focus
    BY DEF OpenFile
  <1> HIDE DEF out
  <1>4. Strips'
    BY <1>1, <1>2, <1>3 DEF Strips
  <1>. QED
    BY <1>2, <1>3, <1>4 DEF out

LEMMA DropTabIsSound ==
    ASSUME Strips, NEW g \in Ids(groups), NEW p \in Paths, NEW target \in Ids(groups),
           NEW at \in 1 .. Len(Group(target).paths) + 1, DropTab(g, p, target, at)
    PROVE  Strips' /\ \A q : q \in Shown(groups') <=> q \in Shown(groups)
  <1>1. Sound(groups)
    BY DEF Strips
  <1>2. /\ p \in ToSet(groups[GroupIndex(groups, g)].paths)
        /\ at \in 1 .. Len(groups[GroupIndex(groups, target)].paths) + 1
        /\ groups' = MoveTabInGroups(groups, g, p, target, at) /\ focus' = target
    BY DEF DropTab, Group
  <1>3. /\ Sound(groups') /\ target \in Ids(groups')
        /\ \A q : q \in Shown(groups') <=> q \in Shown(groups)
    BY <1>1, <1>2, MoveIsSound
  <1>. QED
    BY <1>2, <1>3 DEF Strips

LEMMA SplitStepIsSound ==
    ASSUME Strips, NEW g \in Ids(groups), Split(g)
    PROVE  Strips' /\ \A q : q \in Shown(groups') <=> q \in Shown(groups)
  <1>1. Sound(groups)
    BY DEF Strips
  <1>2. PICK new \in Fresh : groups' = SplitGroups(groups, g, new) /\ focus' = new
    BY DEF Split
  <1>3. new \in GroupIds /\ new \notin Ids(groups)
    BY <1>2 DEF Fresh
  <1>4. groups[GroupIndex(groups, g)].active # None
    BY DEF Split, Group
  <1>5. /\ Sound(groups') /\ new \in Ids(groups')
        /\ \A q : q \in Shown(groups') <=> q \in Shown(groups)
    BY <1>1, <1>2, <1>3, <1>4, SplitIsSound
  <1>. QED
    BY <1>2, <1>5 DEF Strips


-----------------------------------------------------------------------------
(***************************************************************************)
(* Types.                                                                  *)
(***************************************************************************)

LEMMA StripsStep == TypeInv /\ [Next]_vars => Strips'
  <1> SUFFICES ASSUME TypeInv, [Next]_vars
               PROVE  Strips'
    OBVIOUS
  <1>0. Strips /\ Asking
    BY DEF TypeInv
  <1>1. CASE UNCHANGED strip
    BY <1>0, <1>1 DEF strip, Strips
  <1>2. ASSUME NEW c \in calls, Read(c) \/ Write(c) \/ WriteFails(c) \/ Land(c)
        PROVE  Strips'
    BY <1>1, <1>2 DEF Read, Write, WriteFails, Land
  <1>3. ASSUME NEW p \in Paths, NEW pin \in BOOLEAN, OpenFile(p, pin)
        PROVE  Strips'
    BY <1>0, <1>3, OpenFileIsSound
  <1>4. ASSUME NEW p \in Paths, (\E text \in Texts : Type(p, text)) \/ Pin(p) \/ Save(p)
        PROVE  Strips'
    BY <1>1, <1>4 DEF Type, Pin, Save
  <1>5. ASSUME NEW g \in Ids(groups), NEW p \in Paths, Select(g, p)
        PROVE  Strips'
    BY <1>0, <1>5, SelectIsSound
  <1>6. ASSUME NEW g \in Ids(groups), NEW p \in Paths, CloseTab(g, p)
        PROVE  Strips'
    <2>1. CASE Drop(g, p)
      BY <1>0, <2>1, DropIsSound
    <2>. QED
      BY <1>1, <1>6, <2>1 DEF CloseTab
  <1>7. ASSUME NEW g \in Ids(groups), NEW p \in Paths, NEW target \in Ids(groups),
               NEW at \in 1 .. Len(Group(target).paths) + 1, DropTab(g, p, target, at)
        PROVE  Strips'
    BY <1>0, <1>7, DropTabIsSound
  <1>8. ASSUME NEW g \in Ids(groups), Split(g)
        PROVE  Strips'
    BY <1>0, <1>8, SplitStepIsSound
  <1>9. ASSUME NEW g \in Ids(groups), CloseGroup(g)
        PROVE  Strips'
    <2> DEFINE out == CloseGroupInGroups(groups, g)
    <2>1. UNCHANGED strip \/ DropGroup(out.groups, out.focus)
      BY <1>9 DEF CloseGroup
    <2>2. Sound(groups) /\ Len(groups) > 1
      BY <1>0, <1>9 DEF CloseGroup, Strips
    <2>3. Sound(out.groups) /\ out.focus \in Ids(out.groups)
      BY <2>2, CloseGroupIsSound
    <2> HIDE DEF out
    <2>. QED
      BY <1>1, <2>1, <2>3 DEF DropGroup, Strips
  <1>10. ASSUME NEW ok \in BOOLEAN, Answer(ok)
         PROVE  Strips'
    <2>1. CASE dialog.about = "tab" /\ Drop(dialog.group, dialog.path)
      BY <1>0, <2>1, DropIsSound
    <2>2. CASE dialog.about = "group" /\ DropGroup(dialog.rest, dialog.focus)
      BY <1>0, <2>2 DEF DropGroup, Strips, Asking
    <2>3. dialog.about = "tab" \/ dialog.about = "group"
      BY <1>0, <1>10 DEF Answer, Asking
    <2>4. UNCHANGED strip \/ (dialog.about = "tab" /\ Drop(dialog.group, dialog.path))
          \/ (dialog.about = "group" /\ DropGroup(dialog.rest, dialog.focus))
      BY <1>10, <2>3 DEF Answer
    <2>. QED
      BY <1>1, <2>1, <2>2, <2>4
  <1>11. ASSUME NEW pr \in Projects, ShowProject(pr)
         PROVE  Strips'
    BY <1>11, NewGroupIsSound DEF ShowProject, Strips
  <1>12. CASE FsChanged \/ UNCHANGED vars
    BY <1>1, <1>12 DEF FsChanged, vars
  <1>. QED
    BY <1>2, <1>3, <1>4, <1>5, <1>6, <1>7, <1>8, <1>9, <1>10, <1>11, <1>12 DEF Next

LEMMA FilesStep == TypeInv /\ [Next]_vars => Files'
  <1> SUFFICES ASSUME TypeInv, [Next]_vars
               PROVE  Files'
    OBVIOUS
  <1>0. Files /\ UnderWay
    BY DEF TypeInv
  <1>1. CASE UNCHANGED <<project, held>>
    BY <1>0, <1>1 DEF Files
  <1>2. ASSUME NEW c \in calls, Write(c)
        PROVE  Files'
    <2>1. c.path \in Paths /\ c.text \in AnyText
      BY <1>0 DEF UnderWay, CallType
    <2>2. held' = held \/ held' = [held EXCEPT ![c.path] = @ \union {c.text}]
      BY <1>2 DEF Write
    <2>. QED
      BY <1>0, <1>2, <2>1, <2>2 DEF Files, Write
  <1>3. ASSUME NEW pr \in Projects, ShowProject(pr)
        PROVE  Files'
    <2>1. PICK disk \in [Paths -> Texts] : held' = [p \in Paths |-> {disk[p]}]
      BY <1>3 DEF ShowProject
    <2>. QED
      BY <1>3, <2>1 DEF ShowProject, Files, AnyText
  <1>4. CASE UNCHANGED vars
    BY <1>1, <1>4 DEF vars
  <1>5. CASE FsChanged \/ (\E ok \in BOOLEAN : Answer(ok))
             \/ (\E c \in calls : Read(c) \/ WriteFails(c) \/ Land(c))
    BY <1>1, <1>5 DEF FsChanged, Answer, Read, WriteFails, Land
  <1>6. ASSUME NEW p \in Paths,
               (\E pin \in BOOLEAN : OpenFile(p, pin)) \/ (\E text \in Texts : Type(p, text))
               \/ Pin(p) \/ Save(p)
        PROVE  Files'
    BY <1>1, <1>6 DEF OpenFile, Type, Pin, Save
  <1>7. ASSUME NEW g \in Ids(groups),
               (\E p \in Paths : Select(g, p) \/ CloseTab(g, p)) \/ Split(g) \/ CloseGroup(g)
               \/ (\E p \in Paths, target \in Ids(groups) :
                     \E at \in 1 .. Len(Group(target).paths) + 1 : DropTab(g, p, target, at))
        PROVE  Files'
    BY <1>1, <1>7 DEF Select, CloseTab, Split, CloseGroup, DropTab
  <1>. QED
    BY <1>2, <1>3, <1>4, <1>5, <1>6, <1>7 DEF Next


\* What an answer, a key or a pin makes of a tab is a tab.
LEMMA TabTyping ==
    ASSUME NEW tab \in Tab
    PROVE  /\ \A c \in CallType : Opened(tab, c) \in Tab /\ Reloaded(tab, c) \in Tab /\ Saved(tab, c) \in Tab
           /\ \A text \in Texts : Typed(tab, text) \in Tab
           /\ \A b \in BOOLEAN : [tab EXCEPT !.preview = b] \in Tab
  <1>1. \A c \in CallType : Opened(tab, c) \in Tab /\ Reloaded(tab, c) \in Tab /\ Saved(tab, c) \in Tab
    BY DEF Tab, CallType, Opened, Reloaded, Saved
  <1>2. \A text \in Texts : Typed(tab, text) \in Tab
    BY DEF Tab, Typed, AnyText
  <1>3. \A b \in BOOLEAN : [tab EXCEPT !.preview = b] \in Tab
    BY DEF Tab
  <1>. QED
    BY <1>1, <1>2, <1>3

\* What an answer does to the tab of its path.
Landed(tab, c) ==
    CASE c.kind = "open"   -> Opened(tab, c)
      [] c.kind = "reload" -> Reloaded(tab, c)
      [] c.kind = "save"   -> Saved(tab, c)

LEMMA LandOnTabs ==
    ASSUME TypeInv, NEW c \in calls, Land(c)
    PROVE  /\ DOMAIN tabs' = DOMAIN tabs
           /\ \A p \in DOMAIN tabs : tabs'[p] = IF p = c.path THEN Landed(tabs[p], c) ELSE tabs[p]
           /\ c \in CallType /\ c.kind \in {"open", "reload", "save"}
           /\ \A p \in DOMAIN tabs : tabs[p] \in Tab /\ tabs'[p] \in Tab
           /\ Registry'
  <1>1. c \in CallType /\ c.kind \in {"open", "reload", "save"}
    BY DEF TypeInv, UnderWay, CallType
  <1>2. DOMAIN tabs \subseteq Paths /\ tabs \in [DOMAIN tabs -> Tab]
    BY DEF TypeInv, Registry
  <1>3. \A p \in DOMAIN tabs : tabs[p] \in Tab
    BY <1>2
  <1>4. tabs' = IF c.path \notin DOMAIN tabs THEN tabs ELSE [tabs EXCEPT ![c.path] = Landed(@, c)]
    BY DEF Land, Landed
  <1>5. \A p \in DOMAIN tabs : Landed(tabs[p], c) \in Tab
    BY <1>1, <1>3, TabTyping DEF Landed
  <1> HIDE DEF Landed
  <1>6. /\ DOMAIN tabs' = DOMAIN tabs
        /\ \A p \in DOMAIN tabs : tabs'[p] = IF p = c.path THEN Landed(tabs[p], c) ELSE tabs[p]
        /\ tabs' \in [DOMAIN tabs' -> Tab]
    BY <1>2, <1>3, <1>4, <1>5
  <1>. QED
    BY <1>1, <1>2, <1>3, <1>5, <1>6 DEF Registry

\* Opening adds one tab at most, and takes the evicted ones away.
LEMMA OpenFileOnTabs ==
    ASSUME TypeInv, NEW p \in Paths, NEW pin \in BOOLEAN, OpenFile(p, pin)
    PROVE  LET evicted == OpenInGroups(groups, focus, p, pin, Previews).evicted
               kept    == DOMAIN tabs \ evicted
           IN  /\ DOMAIN tabs' = kept \union {p}
               /\ \A q \in kept : tabs'[q] = [tabs[q] EXCEPT !.preview = @ /\ ~(q = p /\ pin)]
               /\ p \notin kept => tabs'[p] = NewTab(pin)
               /\ Registry'
  <1> DEFINE evicted == OpenInGroups(groups, focus, p, pin, Previews).evicted
             kept    == DOMAIN tabs \ evicted
             tab(q)  == IF q \notin kept THEN NewTab(pin)
                        ELSE [tabs[q] EXCEPT !.preview = @ /\ ~(q = p /\ pin)]
  <1>1. tabs' = [q \in kept \union {p} |-> tab(q)]
    BY DEF OpenFile, Registered
  <1> HIDE DEF evicted
  <1>2. DOMAIN tabs \subseteq Paths /\ \A q \in DOMAIN tabs : tabs[q] \in Tab
    BY DEF TypeInv, Registry
  <1>3. NewTab(pin) \in Tab
    BY DEF NewTab, Tab, AnyText
  <1>4. \A q \in kept \union {p} : tab(q) \in Tab
    <2> TAKE q \in kept \union {p}
    <2>1. CASE q \notin kept
      BY <1>3, <2>1
    <2>2. CASE q \in kept
      <3>1. tabs[q] \in Tab
        BY <1>2, <2>2
      <3>2. (tabs[q].preview /\ ~(q = p /\ pin)) \in BOOLEAN
        OBVIOUS
      <3>3. [tabs[q] EXCEPT !.preview = tabs[q].preview /\ ~(q = p /\ pin)] \in Tab
        BY <3>1, <3>2, TabTyping, Zenon
      <3>. QED
        BY <2>2, <3>3
    <2>. QED
      BY <2>1, <2>2
  <1> HIDE DEF tab
  <1>5. /\ DOMAIN tabs' = kept \union {p} /\ tabs' \in [DOMAIN tabs' -> Tab]
        /\ \A q \in kept \union {p} : tabs'[q] = tab(q)
    BY <1>1, <1>4
  <1>6. Registry'
    BY <1>2, <1>5 DEF Registry
  <1>. QED
    BY <1>5, <1>6 DEF tab, evicted

\* A tab that is typed in, or pinned, is the only one that changes.
LEMMA OneTabChanges ==
    ASSUME Registry, NEW p \in DOMAIN tabs, NEW tab \in Tab, tabs' = [tabs EXCEPT ![p] = tab]
    PROVE  /\ DOMAIN tabs' = DOMAIN tabs /\ tabs'[p] = tab
           /\ \A q \in DOMAIN tabs : q # p => tabs'[q] = tabs[q]
           /\ Registry'
  BY DEF Registry

\* Some tabs go.
LEMMA SomeTabsGo ==
    ASSUME Registry, NEW S, S \subseteq DOMAIN tabs, tabs' = Restrict(tabs, S)
    PROVE  /\ DOMAIN tabs' = S /\ \A q \in S : tabs'[q] = tabs[q]
           /\ Registry'
  BY DEF Registry, Restrict

\* Closing keeps each tab that it does not take away as it is.
LEMMA DropOnTabs ==
    ASSUME Registry, NEW g, NEW p, Drop(g, p)
    PROVE  /\ DOMAIN tabs' = IF p \in Shown(groups') THEN DOMAIN tabs ELSE DOMAIN tabs \ {p}
           /\ \A q \in DOMAIN tabs' : tabs'[q] = tabs[q]
           /\ Registry'
  <1>1. tabs' = IF p \in Shown(groups') THEN tabs ELSE Restrict(tabs, DOMAIN tabs \ {p})
    BY DEF Drop
  <1>2. CASE p \in Shown(groups')
    BY <1>1, <1>2 DEF Registry
  <1>3. CASE p \notin Shown(groups')
    BY <1>1, <1>3, SomeTabsGo
  <1>. QED
    BY <1>2, <1>3

LEMMA DropGroupOnTabs ==
    ASSUME Registry, NEW rest, NEW to, DropGroup(rest, to)
    PROVE  /\ DOMAIN tabs' = DOMAIN tabs \intersect Shown(rest)
           /\ \A q \in DOMAIN tabs' : tabs'[q] = tabs[q]
           /\ Registry'
  BY SomeTabsGo DEF DropGroup

LEMMA RegistryStep == TypeInv /\ [Next]_vars => Registry'
  <1> SUFFICES ASSUME TypeInv, [Next]_vars
               PROVE  Registry'
    OBVIOUS
  <1>0. Registry
    BY DEF TypeInv
  <1>1. CASE UNCHANGED tabs
    BY <1>0, <1>1 DEF Registry
  <1>2. ASSUME NEW c \in calls, Land(c)
        PROVE  Registry'
    BY <1>2, LandOnTabs
  <1>3. ASSUME NEW p \in Paths, NEW pin \in BOOLEAN, OpenFile(p, pin)
        PROVE  Registry'
    BY <1>3, OpenFileOnTabs
  <1>4. ASSUME NEW p \in Paths, NEW text \in Texts, Type(p, text)
        PROVE  Registry'
    <2>1. p \in DOMAIN tabs /\ tabs' = [tabs EXCEPT ![p] = Typed(tabs[p], text)]
      BY <1>4 DEF Type
    <2>2. Typed(tabs[p], text) \in Tab
      BY <1>0, <2>1, TabTyping DEF Registry
    <2>. QED
      BY <1>0, <2>1, <2>2, OneTabChanges
  <1>5. ASSUME NEW p \in Paths, Pin(p)
        PROVE  Registry'
    <2>1. p \in DOMAIN tabs /\ tabs' = [tabs EXCEPT ![p] = [tabs[p] EXCEPT !.preview = FALSE]]
      BY <1>5 DEF Pin
    <2>2. [tabs[p] EXCEPT !.preview = FALSE] \in Tab
      BY <1>0, <2>1, TabTyping DEF Registry
    <2>. QED
      BY <1>0, <2>1, <2>2, OneTabChanges
  <1>6. ASSUME NEW g, NEW p, Drop(g, p)
        PROVE  Registry'
    BY <1>0, <1>6, DropOnTabs
  <1>7. ASSUME NEW rest, NEW to, DropGroup(rest, to)
        PROVE  Registry'
    BY <1>0, <1>7, DropGroupOnTabs
  <1>8. ASSUME NEW g \in Ids(groups), (\E p \in Paths : CloseTab(g, p)) \/ CloseGroup(g)
        PROVE  Registry'
    BY <1>1, <1>6, <1>7, <1>8 DEF CloseTab, CloseGroup
  <1>9. ASSUME NEW ok \in BOOLEAN, Answer(ok)
        PROVE  Registry'
    <2>1. dialog.about = "tab" \/ dialog.about = "group"
      BY <1>9 DEF Answer, TypeInv, Asking
    <2>2. UNCHANGED tabs \/ Drop(dialog.group, dialog.path) \/ DropGroup(dialog.rest, dialog.focus)
      BY <1>9, <2>1 DEF Answer
    <2>. QED
      BY <1>1, <1>6, <1>7, <2>2
  <1>10. ASSUME NEW pr \in Projects, ShowProject(pr)
         PROVE  Registry'
    <2>1. tabs' = <<>>
      BY <1>10 DEF ShowProject
    <2>2. DOMAIN tabs' = {} /\ tabs' \in [DOMAIN tabs' -> Tab]
      BY <2>1, NoTabs
    <2>. QED
      BY <2>2 DEF Registry
  <1>11. CASE FsChanged \/ UNCHANGED vars
              \/ (\E c \in calls : Read(c) \/ Write(c) \/ WriteFails(c))
              \/ (\E p \in Paths : Save(p))
    BY <1>1, <1>11 DEF FsChanged, vars, Read, Write, WriteFails, Save
  <1>12. ASSUME NEW g \in Ids(groups),
                (\E p \in Paths : Select(g, p)) \/ Split(g)
                \/ (\E p \in Paths, target \in Ids(groups) :
                      \E at \in 1 .. Len(Group(target).paths) + 1 : DropTab(g, p, target, at))
         PROVE  Registry'
    BY <1>1, <1>12 DEF Select, Split, DropTab
  <1>. QED
    BY <1>2, <1>3, <1>4, <1>5, <1>8, <1>9, <1>10, <1>11, <1>12 DEF Next

LEMMA UnderWayStep == TypeInv /\ [Next]_vars => UnderWay'
  <1> SUFFICES ASSUME TypeInv, [Next]_vars
               PROVE  UnderWay'
    OBVIOUS
  <1>0. UnderWay /\ Registry /\ project \in Projects /\ held \in [Paths -> SUBSET AnyText]
    BY DEF TypeInv, Files
  <1>1. CASE calls' \subseteq calls
    BY <1>0, <1>1 DEF UnderWay
  <1>2. ASSUME NEW kind \in {"open", "reload", "save"}, NEW asked, asked \subseteq Paths,
               NEW text \in AnyText, Ask(kind, asked, text)
        PROVE  UnderWay'
    <2>1. PICK n \in 1 .. MaxCalls :
            calls' = calls \union
              {[kind |-> kind, project |-> project, path |-> p, text |-> text,
                pc |-> "sent", turn |-> n, stale |-> FALSE] : p \in asked}
      BY <1>2 DEF Ask
    <2>2. \A p \in asked : [kind |-> kind, project |-> project, path |-> p, text |-> text,
                            pc |-> "sent", turn |-> n, stale |-> FALSE] \in CallType
      BY <1>0, <1>2 DEF CallType
    <2>. QED
      BY <1>0, <2>1, <2>2 DEF UnderWay
  <1>3. ASSUME NEW pr \in Projects, ShowProject(pr)
        PROVE  UnderWay'
    <2>1. \A c \in CallType : [c EXCEPT !.stale = TRUE] \in CallType
      BY DEF CallType
    <2>. QED
      BY <1>0, <1>3, <2>1 DEF ShowProject, UnderWay
  <1>4. ASSUME NEW c \in calls, Read(c) \/ Write(c)
        PROVE  UnderWay'
    <2>1. c \in CallType
      BY <1>0 DEF UnderWay
    <2>2. ASSUME NEW text \in AnyText
          PROVE  [c EXCEPT !.text = text, !.pc = "answered"] \in CallType
      BY <2>1 DEF CallType
    <2>3. [c EXCEPT !.pc = "answered"] \in CallType
      BY <2>1 DEF CallType
    <2>4. CASE Read(c)
      <3>1. PICK text \in (IF c.project = project THEN held[c.path] ELSE Texts)
                          \union (IF Faulty THEN {Message} ELSE {}) :
              calls' = (calls \ {c}) \union {[c EXCEPT !.text = text, !.pc = "answered"]}
        BY <2>4 DEF Read
      <3>2. text \in AnyText
        BY <1>0, <2>1, <3>1 DEF CallType, AnyText
      <3>. QED
        BY <1>0, <2>2, <3>1, <3>2 DEF UnderWay
    <2>5. CASE Write(c)
      BY <1>0, <2>3, <2>5 DEF Write, UnderWay
    <2>. QED
      BY <1>4, <2>4, <2>5
  <1>5. ASSUME NEW c \in calls, WriteFails(c) \/ Land(c)
        PROVE  UnderWay'
    BY <1>1, <1>5 DEF WriteFails, Land
  <1>6. CASE FsChanged
    <2>1. {p \in DOMAIN tabs : ~tabs[p].loading /\ ~Dirty(p)} \subseteq Paths /\ Blank \in AnyText
      BY <1>0 DEF Registry, AnyText
    <2>. QED
      BY <1>2, <1>6, <2>1 DEF FsChanged
  <1>7. ASSUME NEW p \in Paths, NEW pin \in BOOLEAN, OpenFile(p, pin)
        PROVE  UnderWay'
    <2>1. {p} \ DOMAIN tabs \subseteq Paths /\ Blank \in AnyText
      BY DEF AnyText
    <2>. QED
      BY <1>2, <1>7, <2>1 DEF OpenFile
  <1>8. ASSUME NEW p \in Paths, Save(p)
        PROVE  UnderWay'
    <2>1. tabs[p].content \in AnyText
      BY <1>0, <1>8 DEF Save, Registry, Tab
    <2>2. {p} \subseteq Paths
      OBVIOUS
    <2>. QED
      BY <1>2, <1>8, <2>1, <2>2 DEF Save
  <1>9. CASE UNCHANGED vars \/ (\E ok \in BOOLEAN : Answer(ok))
             \/ (\E p \in Paths : (\E text \in Texts : Type(p, text)) \/ Pin(p))
    BY <1>1, <1>9 DEF vars, Answer, Type, Pin
  <1>10. ASSUME NEW g \in Ids(groups),
                (\E p \in Paths : Select(g, p) \/ CloseTab(g, p)) \/ Split(g) \/ CloseGroup(g)
                \/ (\E p \in Paths, target \in Ids(groups) :
                      \E at \in 1 .. Len(Group(target).paths) + 1 : DropTab(g, p, target, at))
         PROVE  UnderWay'
    BY <1>1, <1>10 DEF Select, CloseTab, Split, CloseGroup, DropTab
  <1>. QED
    BY <1>3, <1>4, <1>5, <1>6, <1>7, <1>8, <1>9, <1>10 DEF Next

LEMMA AskingStep == TypeInv /\ [Next]_vars => Asking'
  <1> SUFFICES ASSUME TypeInv, [Next]_vars
               PROVE  Asking'
    OBVIOUS
  <1>0. Asking /\ Strips
    BY DEF TypeInv
  <1>1. CASE UNCHANGED dialog
    BY <1>0, <1>1 DEF Asking
  <1>2. ASSUME NEW g \in Ids(groups), NEW p \in Paths, CloseTab(g, p)
        PROVE  Asking'
    <2>1. UNCHANGED dialog \/ dialog' = [about |-> "tab", group |-> g, path |-> p]
      BY <1>2 DEF CloseTab
    <2>. QED
      BY <1>1, <2>1 DEF Asking, NoDialog
  <1>3. ASSUME NEW g \in Ids(groups), CloseGroup(g)
        PROVE  Asking'
    <2> DEFINE out == CloseGroupInGroups(groups, g)
    <2>1. UNCHANGED dialog \/ dialog' = [about |-> "group", rest |-> out.groups, focus |-> out.focus]
      BY <1>3 DEF CloseGroup
    <2>2. Sound(groups) /\ Len(groups) > 1
      BY <1>0, <1>3 DEF CloseGroup, Strips
    <2>3. Sound(out.groups) /\ out.focus \in Ids(out.groups)
      BY <2>2, CloseGroupIsSound
    <2> HIDE DEF out
    <2>. QED
      BY <1>1, <2>1, <2>3 DEF Asking, NoDialog
  <1>4. ASSUME NEW ok \in BOOLEAN, Answer(ok)
        PROVE  Asking'
    BY <1>4 DEF Answer, Asking, NoDialog
  <1>5. CASE FsChanged \/ UNCHANGED vars \/ (\E pr \in Projects : ShowProject(pr))
             \/ (\E c \in calls : Read(c) \/ Write(c) \/ WriteFails(c) \/ Land(c))
    BY <1>1, <1>5 DEF FsChanged, vars, ShowProject, Read, Write, WriteFails, Land
  <1>6. ASSUME NEW p \in Paths,
               (\E pin \in BOOLEAN : OpenFile(p, pin)) \/ (\E text \in Texts : Type(p, text))
               \/ Pin(p) \/ Save(p)
        PROVE  Asking'
    BY <1>1, <1>6 DEF OpenFile, Type, Pin, Save
  <1>7. ASSUME NEW g \in Ids(groups),
               (\E p \in Paths : Select(g, p)) \/ Split(g)
               \/ (\E p \in Paths, target \in Ids(groups) :
                     \E at \in 1 .. Len(Group(target).paths) + 1 : DropTab(g, p, target, at))
        PROVE  Asking'
    BY <1>1, <1>7 DEF Select, Split, DropTab
  <1>. QED
    BY <1>2, <1>3, <1>4, <1>5, <1>6, <1>7 DEF Next

LEMMA TypeStep == TypeInv /\ [Next]_vars => TypeInv'
  BY StripsStep, FilesStep, RegistryStep, UnderWayStep, AskingStep DEF TypeInv


-----------------------------------------------------------------------------
(***************************************************************************)
(* What is kept is shown, and what is shown is kept.                       *)
(***************************************************************************)

\* A path that a step shows without a file.
Bare(p) == p \in Shown(groups) /\ p \notin DOMAIN tabs
NowBare(p) == p \in Shown(groups') /\ p \notin DOMAIN tabs'

\* A step that moves tabs about, and takes none away.
LEMMA SameTabs ==
    ASSUME NothingIsKeptUnseen, DOMAIN tabs' = DOMAIN tabs,
           \A q : q \in Shown(groups') <=> q \in Shown(groups)
    PROVE  NothingIsKeptUnseen' /\ \A q : NowBare(q) => Bare(q)
  BY DEF NothingIsKeptUnseen, Bare, NowBare

LEMMA DropKeepsPace ==
    ASSUME TypeInv, NothingIsKeptUnseen, NEW g, NEW p, Drop(g, p)
    PROVE  NothingIsKeptUnseen' /\ \A q : NowBare(q) => Bare(q)
  <1>1. DOMAIN tabs' = IF p \in Shown(groups') THEN DOMAIN tabs ELSE DOMAIN tabs \ {p}
    BY DropOnTabs DEF TypeInv
  <1>2. /\ \A q : q \in Shown(groups') => q \in Shown(groups)
        /\ \A q : q \in Shown(groups) /\ q # p => q \in Shown(groups')
    BY DropIsSound DEF TypeInv
  <1>. QED
    BY <1>1, <1>2 DEF NothingIsKeptUnseen, Bare, NowBare

LEMMA DropGroupKeepsPace ==
    ASSUME TypeInv, NEW rest, NEW to, DropGroup(rest, to)
    PROVE  NothingIsKeptUnseen' /\ \A q : NowBare(q) => q \notin DOMAIN tabs /\ q \in Shown(rest)
  <1>1. DOMAIN tabs' = DOMAIN tabs \intersect Shown(rest)
    BY DropGroupOnTabs DEF TypeInv
  <1>2. groups' = rest
    BY DEF DropGroup
  <1>. QED
    BY <1>1, <1>2 DEF NothingIsKeptUnseen, NowBare

\* Every step keeps only what is shown, and bares no path but the late answer
\* about a group.
LEMMA KeptStep ==
    ASSUME TypeInv, NothingIsKeptUnseen, [Next]_vars
    PROVE  /\ NothingIsKeptUnseen'
           /\ \A q : NowBare(q) => \/ Bare(q)
                                   \/ q \notin Shown(groups) /\ dialog.about = "group" /\ Answer(TRUE)
  <1> DEFINE Kept == NothingIsKeptUnseen' /\ \A q : NowBare(q) => Bare(q)
  <1>0. Registry /\ Strips /\ Asking
    BY DEF TypeInv
  <1>1. ASSUME UNCHANGED <<strip, tabs>>
        PROVE  Kept
    BY <1>1, SameTabs DEF strip
  <1>2. ASSUME NEW c \in calls, Land(c)
        PROVE  Kept
    <2>1. DOMAIN tabs' = DOMAIN tabs /\ UNCHANGED strip
      BY <1>2, LandOnTabs DEF Land
    <2>. QED
      BY <2>1, SameTabs DEF strip
  <1>3. ASSUME NEW p \in Paths, NEW pin \in BOOLEAN, OpenFile(p, pin)
        PROVE  Kept
    <2> DEFINE evicted == OpenInGroups(groups, focus, p, pin, Previews).evicted
    <2>1. DOMAIN tabs' = (DOMAIN tabs \ evicted) \union {p}
      BY <1>3, OpenFileOnTabs
    <2>2. \A q : q \in Shown(groups') <=> q = p \/ (q \in Shown(groups) /\ q \notin evicted)
      BY <1>0, <1>3, OpenFileIsSound
    <2> HIDE DEF evicted
    <2>. QED
      BY <2>1, <2>2 DEF NothingIsKeptUnseen, Bare, NowBare
  <1>4. ASSUME NEW p \in Paths, (\E text \in Texts : Type(p, text)) \/ Pin(p)
        PROVE  Kept
    <2>1. DOMAIN tabs' = DOMAIN tabs /\ UNCHANGED strip
      BY <1>0, <1>4 DEF Registry, Type, Pin
    <2>. QED
      BY <2>1, SameTabs DEF strip
  <1>5. ASSUME NEW g \in Ids(groups), NEW p \in Paths, CloseTab(g, p)
        PROVE  Kept
    BY <1>1, <1>5, DropKeepsPace DEF CloseTab
  <1>6. ASSUME NEW g \in Ids(groups), CloseGroup(g)
        PROVE  Kept
    <2> DEFINE out == CloseGroupInGroups(groups, g)
    <2>1. UNCHANGED <<strip, tabs>> \/ DropGroup(out.groups, out.focus)
      BY <1>6 DEF CloseGroup
    <2>2. Sound(groups) /\ Len(groups) > 1
      BY <1>0, <1>6 DEF CloseGroup, Strips
    <2>3. \A q : q \in Shown(out.groups) => q \in Shown(groups)
      BY <2>2, CloseGroupIsSound
    <2> HIDE DEF out
    <2>. QED
      BY <1>1, <2>1, <2>3, DropGroupKeepsPace DEF Bare
  <1>7. ASSUME NEW ok \in BOOLEAN, Answer(ok)
        PROVE  /\ NothingIsKeptUnseen'
               /\ \A q : NowBare(q) => \/ Bare(q)
                                       \/ q \notin Shown(groups) /\ dialog.about = "group" /\ Answer(TRUE)
    <2>1. dialog.about = "tab" \/ dialog.about = "group"
      BY <1>0, <1>7 DEF Answer, Asking
    <2>2. \/ UNCHANGED <<strip, tabs>>
          \/ Drop(dialog.group, dialog.path)
          \/ ok = TRUE /\ dialog.about = "group" /\ DropGroup(dialog.rest, dialog.focus)
      BY <1>7, <2>1 DEF Answer
    <2>3. CASE ok = TRUE /\ dialog.about = "group" /\ DropGroup(dialog.rest, dialog.focus)
      <3>1. NothingIsKeptUnseen' /\ \A q : NowBare(q) => q \notin DOMAIN tabs
        BY <2>3, DropGroupKeepsPace
      <3>2. Answer(TRUE)
        BY <1>7, <2>3
      <3>. QED
        BY <2>3, <3>1, <3>2 DEF Bare
    <2>. QED
      BY <1>1, <2>2, <2>3, DropKeepsPace
  <1>8. ASSUME NEW pr \in Projects, ShowProject(pr)
        PROVE  Kept
    <2>1. PICK g \in GroupIds : groups' = <<NewGroup(g)>>
      BY <1>8 DEF ShowProject
    <2>2. \A q : q \notin Shown(groups')
      BY <2>1, NewGroupIsSound
    <2>3. DOMAIN tabs' = {}
      BY <1>8 DEF ShowProject
    <2>. QED
      BY <2>2, <2>3 DEF NothingIsKeptUnseen, NowBare
  <1>9. ASSUME NEW g \in Ids(groups), NEW p \in Paths, Select(g, p)
        PROVE  Kept
    <2>1. DOMAIN tabs' = DOMAIN tabs
      BY <1>9 DEF Select
    <2>. QED
      BY <1>0, <1>9, <2>1, SelectIsSound, SameTabs
  <1>10. ASSUME NEW g \in Ids(groups), NEW p \in Paths, NEW target \in Ids(groups),
                NEW at \in 1 .. Len(Group(target).paths) + 1, DropTab(g, p, target, at)
         PROVE  Kept
    <2>1. DOMAIN tabs' = DOMAIN tabs
      BY <1>10 DEF DropTab
    <2>. QED
      BY <1>0, <1>10, <2>1, DropTabIsSound, SameTabs
  <1>11. ASSUME NEW g \in Ids(groups), Split(g)
         PROVE  Kept
    <2>1. DOMAIN tabs' = DOMAIN tabs
      BY <1>11 DEF Split
    <2>. QED
      BY <1>0, <1>11, <2>1, SplitStepIsSound, SameTabs
  <1>12. CASE FsChanged \/ UNCHANGED vars \/ (\E c \in calls : Read(c) \/ Write(c) \/ WriteFails(c))
              \/ (\E p \in Paths : Save(p))
    BY <1>1, <1>12 DEF FsChanged, vars, Read, Write, WriteFails, Save
  <1>. QED
    BY <1>2, <1>3, <1>4, <1>5, <1>6, <1>7, <1>8, <1>9, <1>10, <1>11, <1>12 DEF Next

-----------------------------------------------------------------------------
(***************************************************************************)
(* What a tab is measured against.                                         *)
(***************************************************************************)

\* A step that takes tabs away, or makes them less of a peek, and no call.
LEMMA FewerTabs ==
    ASSUME CallsFit, TabsFit, calls' \subseteq calls, UNCHANGED <<project, held>>,
           DOMAIN tabs' \subseteq DOMAIN tabs,
           \A q \in DOMAIN tabs' :
               /\ tabs'[q].loading = tabs[q].loading /\ tabs'[q].stray = tabs[q].stray
               /\ tabs'[q].original = tabs[q].original
    PROVE  CallsFit' /\ TabsFit'
  BY DEF CallsFit, TabsFit

\* A call that is sent is of the project on screen.
LEMMA AskFits ==
    ASSUME CallsFit, NEW kind, NEW asked, NEW text, Ask(kind, asked, text), UNCHANGED <<project, held>>
    PROVE  CallsFit'
  <1>1. PICK n \in 1 .. MaxCalls :
          calls' = calls \union
            {[kind |-> kind, project |-> project, path |-> p, text |-> text,
              pc |-> "sent", turn |-> n, stale |-> FALSE] : p \in asked}
    BY DEF Ask
  <1>2. \A c \in calls' : c \in calls \/ (c.project = project /\ c.pc = "sent")
    BY <1>1
  <1>. QED
    BY <1>2 DEF CallsFit

\* An answer is read: it is something that the file has held, or the message.
LEMMA ReadFits ==
    ASSUME TypeInv, CallsFit, NEW c \in calls, Read(c)
    PROVE  CallsFit'
  <1>1. c \in CallType /\ calls \subseteq CallType
    BY DEF TypeInv, UnderWay
  <1>2. PICK text \in (IF c.project = project THEN held[c.path] ELSE Texts)
                      \union (IF Faulty THEN {Message} ELSE {}) :
          calls' = (calls \ {c}) \union {[c EXCEPT !.text = text, !.pc = "answered"]}
    BY DEF Read
  <1> DEFINE b == [c EXCEPT !.text = text, !.pc = "answered"]
  <1>3. b.project = c.project /\ b.path = c.path /\ b.text = text /\ b.stale = c.stale
    BY <1>1 DEF CallType
  <1>4. calls' = (calls \ {c}) \union {b}
    BY <1>2
  <1>5. c.project = project => text \in held[c.path] \union {Message}
    BY <1>2
  <1> HIDE DEF b
  <1>6. UNCHANGED <<project, held>>
    BY DEF Read
  <1>. QED
    BY <1>3, <1>4, <1>5, <1>6 DEF CallsFit

\* A write: its file has held the text from now on.
LEMMA WriteFits ==
    ASSUME TypeInv, CallsFit, TabsFit, NEW c \in calls, Write(c)
    PROVE  CallsFit' /\ TabsFit'
  <1>1. c \in CallType /\ calls \subseteq CallType /\ held \in [Paths -> SUBSET AnyText]
        /\ DOMAIN tabs \subseteq Paths
    BY DEF TypeInv, UnderWay, Files, Registry
  <1> DEFINE b == [c EXCEPT !.pc = "answered"]
  <1>2. /\ b.project = c.project /\ b.path = c.path /\ b.text = c.text /\ b.stale = c.stale
        /\ c.path \in Paths
    BY <1>1 DEF CallType
  <1>3. calls' = (calls \ {c}) \union {b}
    BY DEF Write
  <1> HIDE DEF b
  <1>4. UNCHANGED <<project, tabs>>
    BY DEF Write
  <1>5. /\ \A p \in Paths : held[p] \subseteq held'[p]
        /\ c.project = project => c.text \in held'[c.path]
    BY <1>1, <1>2 DEF Write
  <1>6. TabsFit'
    BY <1>1, <1>4, <1>5 DEF TabsFit
  <1>7. \A d \in calls : d.path \in Paths
    BY <1>1 DEF CallType
  <1>8. CallsFit'
    <2> SUFFICES ASSUME NEW d \in calls', ~d.stale
                 PROVE  /\ d.project = project
                        /\ d.pc = "answered" => d.text \in held'[d.path] \union {Message}
      BY <1>4 DEF CallsFit
    <2>1. CASE d = b
      <3>1. d.project = project
        BY <1>2, <2>1 DEF CallsFit
      <3>. QED
        BY <1>2, <1>5, <2>1, <3>1
    <2>2. CASE d # b
      <3>1. d \in calls
        BY <1>3, <2>2
      <3>. QED
        BY <1>5, <1>7, <3>1 DEF CallsFit
    <2>. QED
      BY <2>1, <2>2
  <1>. QED
    BY <1>6, <1>8

\* An answer lands: the tab is measured against it, unless it is stale.
LEMMA LandFits ==
    ASSUME TypeInv, CallsFit, TabsFit, NEW c \in calls, Land(c)
    PROVE  CallsFit' /\ TabsFit'
  <1>1. /\ calls' = calls \ {c} /\ c.pc = "answered" /\ UNCHANGED <<project, held>>
    BY DEF Land
  <1>2. /\ DOMAIN tabs' = DOMAIN tabs
        /\ \A p \in DOMAIN tabs : tabs'[p] = IF p = c.path THEN Landed(tabs[p], c) ELSE tabs[p]
        /\ c.kind \in {"open", "reload", "save"}
        /\ \A p \in DOMAIN tabs : tabs[p] \in Tab
    BY LandOnTabs
  <1>3. CallsFit'
    BY <1>1 DEF CallsFit
  <1>4. TabsFit'
    <2> SUFFICES ASSUME NEW p \in DOMAIN tabs, ~tabs'[p].stray, ~tabs'[p].loading
                 PROVE  tabs'[p].original \in held[p] \union {Message}
      BY <1>1, <1>2 DEF TabsFit
    <2>1. CASE tabs'[p] = tabs[p]
      BY <2>1 DEF TabsFit
    <2>2. CASE p = c.path /\ tabs'[p] # tabs[p]
      <3>1. tabs[p] \in Tab /\ tabs'[p] = Landed(tabs[p], c)
        BY <1>2, <2>2
      <3>2. tabs'[p].original = c.text /\ tabs'[p].stray = c.stale
        BY <1>2, <2>2, <3>1 DEF Landed, Opened, Reloaded, Saved, Tab
      <3>. QED
        BY <1>1, <2>2, <3>2 DEF CallsFit
    <2>. QED
      BY <1>2, <2>1, <2>2
  <1>. QED
    BY <1>3, <1>4

\* A file opens: a new tab is being read.
LEMMA OpenFileFits ==
    ASSUME TypeInv, CallsFit, TabsFit, NEW p \in Paths, NEW pin \in BOOLEAN, OpenFile(p, pin)
    PROVE  CallsFit' /\ TabsFit'
  <1> DEFINE evicted == OpenInGroups(groups, focus, p, pin, Previews).evicted
             kept    == DOMAIN tabs \ evicted
  <1>1. /\ DOMAIN tabs' = kept \union {p}
        /\ \A q \in kept : tabs'[q] = [tabs[q] EXCEPT !.preview = @ /\ ~(q = p /\ pin)]
        /\ p \notin kept => tabs'[p] = NewTab(pin)
    BY OpenFileOnTabs
  <1> HIDE DEF evicted
  <1>2. \A q \in kept : tabs[q] \in Tab
    BY DEF TypeInv, Registry
  <1>3. ASSUME NEW q \in kept
        PROVE  /\ tabs'[q].loading = tabs[q].loading /\ tabs'[q].stray = tabs[q].stray
               /\ tabs'[q].original = tabs[q].original
    BY <1>1, <1>2 DEF Tab
  <1>4. UNCHANGED <<project, held>> /\ Ask("open", {p} \ DOMAIN tabs, Blank)
    BY DEF OpenFile
  <1>5. CallsFit'
    BY <1>4, AskFits
  <1>6. p \notin kept => tabs'[p].loading
    BY <1>1 DEF NewTab
  <1>7. TabsFit'
    BY <1>1, <1>3, <1>4, <1>6 DEF TabsFit
  <1>. QED
    BY <1>5, <1>7

\* Typing and pinning leave what a tab is measured against.
LEMMA TypeFits ==
    ASSUME TypeInv, CallsFit, TabsFit, NEW p \in Paths, (\E text \in Texts : Type(p, text)) \/ Pin(p)
    PROVE  CallsFit' /\ TabsFit'
  <1>1. PICK tab : /\ tabs' = [tabs EXCEPT ![p] = tab]
                   /\ (\E text \in Texts : tab = Typed(tabs[p], text)) \/ tab = [tabs[p] EXCEPT !.preview = FALSE]
    BY DEF Type, Pin
  <1>2. p \in DOMAIN tabs /\ tabs[p] \in Tab /\ UNCHANGED <<project, held, calls>>
    BY DEF Type, Pin, TypeInv, Registry
  <1>3. tab \in Tab /\ tab.loading = tabs[p].loading /\ tab.stray = tabs[p].stray
        /\ tab.original = tabs[p].original
    <2>1. tab \in Tab
      BY <1>1, <1>2, TabTyping
    <2>2. ASSUME NEW text \in Texts, tab = Typed(tabs[p], text)
          PROVE  tab.loading = tabs[p].loading /\ tab.stray = tabs[p].stray /\ tab.original = tabs[p].original
      BY <1>2, <2>2 DEF Typed, Tab
    <2>3. CASE tab = [tabs[p] EXCEPT !.preview = FALSE]
      BY <1>2, <2>3 DEF Tab
    <2>. QED
      BY <1>1, <2>1, <2>2, <2>3
  <1>4. /\ DOMAIN tabs' = DOMAIN tabs /\ tabs'[p] = tab
        /\ \A q \in DOMAIN tabs : q # p => tabs'[q] = tabs[q]
    BY <1>1, <1>2, <1>3, OneTabChanges DEF TypeInv
  <1>. QED
    BY <1>2, <1>3, <1>4, FewerTabs

LEMMA FitStep ==
    ASSUME TypeInv, CallsFit, TabsFit, [Next]_vars
    PROVE  CallsFit' /\ TabsFit'
  <1>0. Registry
    BY DEF TypeInv
  <1>1. ASSUME UNCHANGED <<project, held, tabs>>, calls' \subseteq calls
        PROVE  CallsFit' /\ TabsFit'
    BY <1>1, FewerTabs
  <1>2. ASSUME UNCHANGED <<project, held, calls>>, DOMAIN tabs' \subseteq DOMAIN tabs,
               \A q \in DOMAIN tabs' : tabs'[q] = tabs[q]
        PROVE  CallsFit' /\ TabsFit'
    BY <1>2, FewerTabs
  <1>3. ASSUME UNCHANGED <<tabs, held>>
        PROVE  TabsFit'
    BY <1>3 DEF TabsFit
  <1>4. ASSUME NEW c \in calls, Read(c) \/ Write(c) \/ WriteFails(c) \/ Land(c)
        PROVE  CallsFit' /\ TabsFit'
    <2>1. CASE WriteFails(c)
      BY <1>1, <2>1 DEF WriteFails
    <2>2. CASE Read(c)
      BY <1>3, <2>2, ReadFits DEF Read
    <2>. QED
      BY <1>4, <2>1, <2>2, WriteFits, LandFits
  <1>5. CASE FsChanged
    BY <1>3, <1>5, AskFits DEF FsChanged
  <1>6. ASSUME NEW p \in Paths, NEW pin \in BOOLEAN, OpenFile(p, pin)
        PROVE  CallsFit' /\ TabsFit'
    BY <1>6, OpenFileFits
  <1>7. ASSUME NEW p \in Paths, (\E text \in Texts : Type(p, text)) \/ Pin(p)
        PROVE  CallsFit' /\ TabsFit'
    BY <1>7, TypeFits
  <1>8. ASSUME NEW p \in Paths, Save(p)
        PROVE  CallsFit' /\ TabsFit'
    BY <1>3, <1>8, AskFits DEF Save
  <1>9. ASSUME NEW g, NEW p, Drop(g, p), UNCHANGED <<project, held, calls>>
        PROVE  CallsFit' /\ TabsFit'
    <2>1. DOMAIN tabs' \subseteq DOMAIN tabs /\ \A q \in DOMAIN tabs' : tabs'[q] = tabs[q]
      BY <1>0, <1>9, DropOnTabs
    <2>. QED
      BY <1>2, <1>9, <2>1
  <1>10. ASSUME NEW rest, NEW to, DropGroup(rest, to), UNCHANGED <<project, held, calls>>
         PROVE  CallsFit' /\ TabsFit'
    <2>1. DOMAIN tabs' \subseteq DOMAIN tabs /\ \A q \in DOMAIN tabs' : tabs'[q] = tabs[q]
      BY <1>0, <1>10, DropGroupOnTabs
    <2>. QED
      BY <1>2, <1>10, <2>1
  <1>11. ASSUME NEW g \in Ids(groups), (\E p \in Paths : CloseTab(g, p)) \/ CloseGroup(g)
         PROVE  CallsFit' /\ TabsFit'
    BY <1>1, <1>9, <1>10, <1>11 DEF CloseTab, CloseGroup
  <1>12. ASSUME NEW ok \in BOOLEAN, Answer(ok)
         PROVE  CallsFit' /\ TabsFit'
    <2>1. dialog.about = "tab" \/ dialog.about = "group"
      BY <1>12 DEF Answer, TypeInv, Asking
    <2>2. UNCHANGED tabs \/ Drop(dialog.group, dialog.path) \/ DropGroup(dialog.rest, dialog.focus)
      BY <1>12, <2>1 DEF Answer
    <2>3. UNCHANGED <<project, held, calls>>
      BY <1>12 DEF Answer
    <2>. QED
      BY <1>1, <1>9, <1>10, <2>2, <2>3
  <1>13. ASSUME NEW pr \in Projects, ShowProject(pr)
         PROVE  CallsFit' /\ TabsFit'
    <2>1. DOMAIN tabs' = {}
      BY <1>13 DEF ShowProject
    <2>2. \A c \in calls' : c.stale
      <3>1. \A c \in CallType : [c EXCEPT !.stale = TRUE].stale
        BY DEF CallType
      <3>. QED
        BY <1>13, <3>1 DEF ShowProject, TypeInv, UnderWay
    <2>. QED
      BY <2>1, <2>2 DEF CallsFit, TabsFit
  <1>14. ASSUME NEW g \in Ids(groups),
                (\E p \in Paths : Select(g, p)) \/ Split(g)
                \/ (\E p \in Paths, target \in Ids(groups) :
                      \E at \in 1 .. Len(Group(target).paths) + 1 : DropTab(g, p, target, at))
         PROVE  CallsFit' /\ TabsFit'
    BY <1>1, <1>14 DEF Select, Split, DropTab
  <1>15. CASE UNCHANGED vars
    BY <1>1, <1>15 DEF vars
  <1>. QED
    BY <1>4, <1>5, <1>6, <1>7, <1>8, <1>11, <1>12, <1>13, <1>14, <1>15 DEF Next

-----------------------------------------------------------------------------
(***************************************************************************)
(* What is to hold.                                                        *)
(***************************************************************************)

LEMMA Step == IInv /\ [Next]_vars => IInv'
  BY TypeStep, KeptStep, FitStep DEF IInv

\* Every state of the editor is one in which the types fit, what is kept is shown,
\* and calls and tabs are about the files on screen unless they are stale
\* (EditorView.tsx).
THEOREM Invariance == Spec => []IInv
  BY InitIInv, Step, PTL DEF Spec

\* The registry, the strip, the calls and the dialog hold what they are for, in
\* every state of the editor (EditorView.tsx, its state and refs).
THEOREM TypesAreKept == Spec => []TypeOK
  <1>1. IInv => TypeOK
    <2> SUFFICES ASSUME TypeInv
                 PROVE  TypeOK
      BY DEF IInv
    <2>1. groups \in Seq(GroupType) /\ groups # <<>> /\ focus \in Ids(groups)
      BY DEF TypeInv, Strips, Sound, Neat
    <2>2. Len(groups) > 0
      BY <2>1
    <2>3. \A i \in DOMAIN groups : groups[i] \in GroupType
      BY <2>1
    <2>4. \A i \in DOMAIN groups :
            /\ groups[i].id \in GroupIds /\ groups[i].active \in Paths \union {None}
            /\ ToSet(groups[i].paths) \subseteq Paths
      BY <2>3 DEF GroupType, ToSet
    <2>5. focus \in GroupIds
      BY <2>1, <2>4 DEF Ids
    <2>6. /\ project \in Projects /\ held \in [Paths -> SUBSET AnyText]
          /\ DOMAIN tabs \subseteq Paths /\ \A p \in DOMAIN tabs : tabs[p] \in Tab
          /\ \A c \in calls : c \in CallType
          /\ dialog.about \in {"none", "tab", "group"}
      BY DEF TypeInv, Files, Registry, UnderWay, Asking
    <2>. QED
      BY <2>2, <2>4, <2>5, <2>6 DEF TypeOK, CallType
  <1>. QED
    BY <1>1, Invariance, PTL

\* A sequence without repetitions has as many elements as it is long.
LEMMA AsManyAsItIsLong ==
    ASSUME NEW S, NEW q \in Seq(S), Apart(q)
    PROVE  Cardinality(ToSet(q)) = Len(q)
  <1>1. q \in [1 .. Len(q) -> S] /\ Len(q) \in Nat /\ DOMAIN q = 1 .. Len(q)
    OBVIOUS
  <1>2. q \in [1 .. Len(q) -> ToSet(q)]
    BY <1>1 DEF ToSet
  <1>3. \A e \in ToSet(q) : \E i \in 1 .. Len(q) : q[i] = e
    BY <1>1 DEF ToSet
  <1>4. q \in Injection(1 .. Len(q), ToSet(q)) /\ q \in Surjection(1 .. Len(q), ToSet(q))
    BY <1>1, <1>2, <1>3 DEF Apart, Injection, Surjection, IsInjective
  <1>5. IsFiniteSet(1 .. Len(q)) /\ Cardinality(1 .. Len(q)) = Len(q)
    <2>1. 1 \in Int /\ Len(q) \in Int
      BY <1>1
    <2>2. IsFiniteSet(1 .. Len(q)) /\ Cardinality(1 .. Len(q)) = IF 1 > Len(q) THEN 0 ELSE Len(q) - 1 + 1
      BY <2>1, FS_Interval
    <2>. QED
      BY <1>1, <2>2
  <1>. QED
    BY <1>4, <1>5, FS_Surjection

\* Whatever is opened, split, dragged or closed, and whatever the dialog remembers
\* of the strip (lib/editorGroups.ts and its callers): a file has one tab per group,
\* the tab on top is one of them, no group is empty next to another, and the focus
\* is on a group that exists.
THEOREM StripStaysSound == Spec => []StripIsSound
  <1>1. IInv => StripIsSound
    <2> SUFFICES ASSUME Strips
                 PROVE  StripIsSound
      BY DEF IInv, TypeInv
    <2>1. Neat(groups) /\ focus \in Ids(groups) /\ groups \in Seq(GroupType)
      BY DEF Strips, Sound, Neat
    <2>2. Cardinality(Ids(groups)) = Len(groups)
      <3> DEFINE ids == [i \in 1 .. Len(groups) |-> groups[i].id]
      <3>1. ids \in Seq(GroupIds) /\ Len(ids) = Len(groups) /\ DOMAIN ids = DOMAIN groups
        <4>1. \A i \in 1 .. Len(groups) : groups[i] \in GroupType
          BY <2>1
        <4>2. \A i \in 1 .. Len(groups) : groups[i].id \in GroupIds
          BY <4>1 DEF GroupType
        <4>3. DOMAIN groups = 1 .. Len(groups) /\ Len(groups) \in Nat
          BY <2>1
        <4>. QED
          BY <4>2, <4>3
      <3>2. Apart(ids)
        BY <2>1, <3>1 DEF Apart, Neat
      <3>3. ToSet(ids) = Ids(groups)
        BY <2>1, <3>1 DEF ToSet, Ids
      <3> HIDE DEF ids
      <3>. QED
        BY <3>1, <3>2, <3>3, AsManyAsItIsLong
    <2>3. ASSUME NEW i \in DOMAIN groups
          PROVE  /\ Cardinality(ToSet(groups[i].paths)) = Len(groups[i].paths)
                 /\ IF groups[i].paths = <<>> THEN groups[i].active = None /\ Len(groups) = 1
                    ELSE groups[i].active \in ToSet(groups[i].paths)
      <3>1. groups[i].paths \in Seq(Paths) /\ Tidy(groups[i])
        <4>1. groups[i] \in GroupType /\ Tidy(groups[i])
          BY <2>1 DEF Neat
        <4>. QED
          BY <4>1 DEF GroupType
      <3>2. Cardinality(ToSet(groups[i].paths)) = Len(groups[i].paths)
        BY <3>1, AsManyAsItIsLong DEF Tidy
      <3>. QED
        BY <3>1, <3>2 DEF Tidy, Strips, Sound
    <2>. QED
      BY <2>1, <2>2, <2>3 DEF StripIsSound
  <1>. QED
    BY <1>1, Invariance, PTL

\* No file is kept that no group shows: what is closed, with its group or without,
\* and the preview that another takes the place of go from the registry at once
\* (closeTab, closeGroup and openFile's eviction).
THEOREM NothingStaysUnseen == Spec => []NothingIsKeptUnseen
  <1>1. IInv => NothingIsKeptUnseen
    BY DEF IInv
  <1>. QED
    BY <1>1, Invariance, PTL

\* A tab that is shown keeps its file: a path comes to be shown without one only
\* when the dialog about a group is answered after the strip has changed
\* (closeGroup puts back the groups of before).
THEOREM TabsKeepTheirFile == Spec => NoTabLosesItsFile
  <1>1. IInv /\ [Next]_vars =>
          [\A p \in Shown(groups') \ DOMAIN tabs' :
             \/ p \in Shown(groups) \ DOMAIN tabs
             \/ p \notin Shown(groups) /\ dialog.about = "group" /\ Answer(TRUE)]_vars
    BY KeptStep DEF IInv, Bare, NowBare
  <1>. QED
    BY <1>1, Invariance, PTL DEF Spec, NoTabLosesItsFile

\* A tab without the unsaved mark shows what its own file has held, whatever reads
\* and writes of this project are under way and in whatever order they end (save,
\* openFile and the reload).
THEOREM UnmarkedStaysSaved == Spec => []UnmarkedIsSaved
  <1>1. IInv => UnmarkedIsSaved
    BY DEF IInv, TabsFit, UnmarkedIsSaved, Dirty
  <1>. QED
    BY <1>1, Invariance, PTL

\* Unsaved edits stay in their tab until the user types something else, agrees to
\* lose them, or leaves the project, or a read that is to open their file comes
\* back: no other answer, no peek, no drag and no closing of another view takes
\* them.
THEOREM OnlyOpensTakeEdits == Spec => OnlyAnOpenTakesEdits
  <1> DEFINE Stay(p) == p \in DOMAIN tabs' /\ tabs'[p].content = tabs[p].content
             Given(p) == \/ \E text \in Texts : Type(p, text)
                         \/ \E c \in calls : c.kind = "open" /\ c.path = p /\ Land(c)
                         \/ Answer(TRUE) \/ \E pr \in Projects : ShowProject(pr)
  <1>1. ASSUME IInv, Next, NEW p \in DOMAIN tabs, Dirty(p), ~tabs[p].preview
        PROVE  Stay(p) \/ Given(p)
    <2>1. TypeInv /\ NothingIsKeptUnseen /\ Registry /\ Strips
      BY <1>1 DEF IInv, TypeInv
    <2>2. tabs[p] \in Tab /\ ~tabs[p].preview /\ p \in Shown(groups)
      BY <1>1, <2>1 DEF Registry, NothingIsKeptUnseen
    <2>3. CASE UNCHANGED tabs
      BY <2>3
    <2>4. ASSUME NEW c \in calls, Land(c)
          PROVE  Stay(p) \/ Given(p)
      <3>1. /\ DOMAIN tabs' = DOMAIN tabs
            /\ tabs'[p] = IF p = c.path THEN Landed(tabs[p], c) ELSE tabs[p]
            /\ c.kind \in {"open", "reload", "save"}
        BY <2>1, <2>4, LandOnTabs
      <3>2. CASE p = c.path /\ c.kind = "open"
        BY <2>4, <3>2
      <3>3. p = c.path /\ c.kind # "open" => Landed(tabs[p], c).content = tabs[p].content
        BY <1>1, <2>2, <3>1 DEF Landed, Reloaded, Saved, Dirty, Tab
      <3>. QED
        BY <3>1, <3>2, <3>3
    <2>5. ASSUME NEW q \in Paths, NEW pin \in BOOLEAN, OpenFile(q, pin)
          PROVE  Stay(p)
      <3> DEFINE evicted == OpenInGroups(groups, focus, q, pin, Previews).evicted
      <3>1. evicted \subseteq Previews
        BY <2>1, <2>5, OpenFileIsSound
      <3>2. /\ DOMAIN tabs' = (DOMAIN tabs \ evicted) \union {q}
            /\ \A x \in DOMAIN tabs \ evicted : tabs'[x] = [tabs[x] EXCEPT !.preview = @ /\ ~(x = q /\ pin)]
        BY <2>1, <2>5, OpenFileOnTabs
      <3> HIDE DEF evicted
      <3>3. p \notin evicted
        BY <2>2, <3>1 DEF Previews
      <3>. QED
        BY <2>2, <3>2, <3>3 DEF Tab
    <2>6. ASSUME NEW q \in Paths, NEW text \in Texts, Type(q, text)
          PROVE  Stay(p) \/ Given(p)
      <3>1. CASE p = q
        BY <2>6, <3>1
      <3>2. CASE p # q
        BY <2>1, <2>6, <3>2 DEF Type, Registry
      <3>. QED
        BY <3>1, <3>2
    <2>7. ASSUME NEW q \in Paths, Pin(q)
          PROVE  Stay(p)
      BY <2>1, <2>2, <2>7 DEF Pin, Registry, Tab
    <2>8. ASSUME NEW g \in Ids(groups), NEW q \in Paths, CloseTab(g, q)
          PROVE  Stay(p)
      <3>1. CASE Drop(g, q)
        <4>1. /\ DOMAIN tabs' = IF q \in Shown(groups') THEN DOMAIN tabs ELSE DOMAIN tabs \ {q}
              /\ \A x \in DOMAIN tabs' : tabs'[x] = tabs[x]
          BY <2>1, <3>1, DropOnTabs
        <4>2. CASE p # q
          BY <4>1, <4>2
        <4>3. CASE p = q /\ \E i \in DOMAIN groups : groups[i].id # g /\ q \in ToSet(groups[i].paths)
          <5>1. q \in Shown(groups')
            BY <2>1, <3>1, <4>3, DropIsSound
          <5>. QED
            BY <4>1, <5>1
        <4>4. CASE p = q /\ ~ \E i \in DOMAIN groups : groups[i].id # g /\ q \in ToSet(groups[i].paths)
          BY <1>1, <2>8, <4>4 DEF CloseTab
        <4>. QED
          BY <4>2, <4>3, <4>4
      <3>. QED
        BY <2>3, <2>8, <3>1 DEF CloseTab
    <2>9. ASSUME NEW g \in Ids(groups), CloseGroup(g)
          PROVE  Stay(p)
      <3> DEFINE out == CloseGroupInGroups(groups, g)
      <3>1. \/ UNCHANGED tabs
            \/ /\ DropGroup(out.groups, out.focus)
               /\ {q \in out.orphaned \intersect DOMAIN tabs : Dirty(q)} = {}
        BY <2>9 DEF CloseGroup
      <3>2. Sound(groups) /\ Len(groups) > 1
        BY <2>1, <2>9 DEF CloseGroup, Strips
      <3>3. p \in Shown(out.groups) \/ p \in out.orphaned
        BY <2>2, <3>2, CloseGroupIsSound
      <3> HIDE DEF out
      <3>4. CASE DropGroup(out.groups, out.focus) /\ {q \in out.orphaned \intersect DOMAIN tabs : Dirty(q)} = {}
        <4>1. p \in Shown(out.groups)
          BY <1>1, <3>3, <3>4
        <4>2. /\ DOMAIN tabs' = DOMAIN tabs \intersect Shown(out.groups)
              /\ \A q \in DOMAIN tabs' : tabs'[q] = tabs[q]
          BY <2>1, <3>4, DropGroupOnTabs
        <4>. QED
          BY <4>1, <4>2
      <3>. QED
        BY <2>3, <3>1, <3>4
    <2>10. ASSUME NEW ok \in BOOLEAN, Answer(ok)
           PROVE  Stay(p) \/ Given(p)
      BY <2>3, <2>10 DEF Answer
    <2>11. CASE FsChanged \/ (\E c \in calls : Read(c) \/ Write(c) \/ WriteFails(c))
                \/ (\E q \in Paths : Save(q))
      BY <2>3, <2>11 DEF FsChanged, Read, Write, WriteFails, Save
    <2>12. ASSUME NEW g \in Ids(groups),
                  (\E q \in Paths : Select(g, q)) \/ Split(g)
                  \/ (\E q \in Paths, target \in Ids(groups) :
                        \E at \in 1 .. Len(Group(target).paths) + 1 : DropTab(g, q, target, at))
           PROVE  Stay(p)
      BY <2>3, <2>12 DEF Select, Split, DropTab
    <2> HIDE DEF Stay
    <2>13. ASSUME NEW pr \in Projects, ShowProject(pr)
           PROVE  Given(p)
      BY <2>13
    <2> HIDE DEF Given
    <2>. QED
      BY <1>1, <2>4, <2>5, <2>6, <2>7, <2>8, <2>9, <2>10, <2>11, <2>12, <2>13 DEF Next
  <1>2. IInv /\ [Next]_vars =>
          [\A p \in DOMAIN tabs :
             Dirty(p) /\ ~tabs[p].preview =>
                         \/ p \in DOMAIN tabs' /\ tabs'[p].content = tabs[p].content
                         \/ \E text \in Texts : Type(p, text)
                         \/ \E c \in calls : c.kind = "open" /\ c.path = p /\ Land(c)
                         \/ Answer(TRUE) \/ \E pr \in Projects : ShowProject(pr)]_vars
    BY <1>1
  <1>. QED
    BY <1>2, Invariance, PTL DEF Spec, OnlyAnOpenTakesEdits


=============================================================================
