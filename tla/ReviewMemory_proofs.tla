------------------------ MODULE ReviewMemory_proofs ------------------------
(***************************************************************************)
(* What a pull request's memory promises, for any number of reviews,       *)
(* findings, runs and conversations, whatever overlaps, fails or dies.     *)
(***************************************************************************)
EXTENDS ReviewMemory, FiniteSetTheorems, WellFoundedInduction, TLAPS

-----------------------------------------------------------------------------
(***************************************************************************)
(* Sequences.                                                              *)
(***************************************************************************)

Apart(q) == \A i, j \in DOMAIN q : q[i] = q[j] => i = j

\* What is left of a sequence without the element at a place.
LEMMA RemoveAtPlaces ==
    ASSUME NEW S, NEW q \in Seq(S), NEW i \in 1 .. Len(q)
    PROVE  /\ RemoveAt(q, i) \in Seq(S) /\ Len(RemoveAt(q, i)) = Len(q) - 1
           /\ \A k \in 1 .. Len(q) - 1 : RemoveAt(q, i)[k] = q[IF k < i THEN k ELSE k + 1]
  <1> DEFINE a == SubSeq(q, 1, i - 1)
             b == SubSeq(q, i + 1, Len(q))
  <1>1. /\ a \in Seq(S) /\ Len(a) = i - 1 /\ \A k \in 1 .. i - 1 : a[k] = q[k]
        /\ b \in Seq(S) /\ Len(b) = Len(q) - i /\ \A k \in 1 .. Len(q) - i : b[k] = q[i + k]
    OBVIOUS
  <1>2. RemoveAt(q, i) = a \o b
    BY DEF RemoveAt
  <1> HIDE DEF a, b
  <1>3. /\ a \o b \in Seq(S) /\ Len(a \o b) = Len(q) - 1
        /\ \A k \in 1 .. i - 1 : (a \o b)[k] = q[k]
        /\ \A k \in i .. Len(q) - 1 : (a \o b)[k] = q[k + 1]
    <2>1. a \o b \in Seq(S) /\ Len(a \o b) = Len(q) - 1
      <3>1. a \in Seq(S) /\ b \in Seq(S)
        BY <1>1
      <3>2. a \o b \in Seq(S) /\ Len(a \o b) = Len(a) + Len(b)
        BY <3>1
      <3>3. Len(a) + Len(b) = Len(q) - 1
        BY <1>1
      <3>. QED
        BY <3>2, <3>3
    <2>2. \A k \in 1 .. i - 1 : (a \o b)[k] = a[k]
      BY <1>1
    <2>3. \A k \in i .. Len(q) - 1 : (a \o b)[k] = b[k - (i - 1)]
      BY <1>1
    <2>4. \A k \in i .. Len(q) - 1 : b[k - (i - 1)] = q[k + 1]
      <3> TAKE k \in i .. Len(q) - 1
      <3>1. k - (i - 1) \in 1 .. Len(q) - i /\ i + (k - (i - 1)) = k + 1
        OBVIOUS
      <3>. QED
        BY <1>1, <3>1
    <2>. QED
      BY <1>1, <2>1, <2>2, <2>3, <2>4
  <1>4. ASSUME NEW k \in 1 .. Len(q) - 1
        PROVE  (a \o b)[k] = q[IF k < i THEN k ELSE k + 1]
    <2>1. CASE k < i
      BY <1>3, <2>1
    <2>2. CASE ~ (k < i)
      <3>1. k \in i .. Len(q) - 1
        BY <2>2
      <3>. QED
        BY <1>3, <2>2, <3>1
    <2>. QED
      BY <2>1, <2>2
  <1>. QED
    BY <1>2, <1>3, <1>4

\* A sequence without repetitions loses an element.
LEMMA RemoveAtElements ==
    ASSUME NEW S, NEW q \in Seq(S), NEW i \in 1 .. Len(q), Apart(q)
    PROVE  /\ Apart(RemoveAt(q, i))
           /\ ToSet(RemoveAt(q, i)) = ToSet(q) \ {q[i]}
  <1> DEFINE r == RemoveAt(q, i)
             at(k) == IF k < i THEN k ELSE k + 1
  <1>1. r \in Seq(S) /\ DOMAIN r = 1 .. Len(q) - 1 /\ DOMAIN q = 1 .. Len(q)
    BY RemoveAtPlaces
  <1>2. \A k \in 1 .. Len(q) - 1 : at(k) \in DOMAIN q /\ at(k) # i /\ r[k] = q[at(k)]
    <2>1. \A k \in 1 .. Len(q) - 1 : at(k) \in DOMAIN q /\ at(k) # i
      BY <1>1
    <2>2. \A k \in 1 .. Len(q) - 1 : r[k] = q[at(k)]
      BY RemoveAtPlaces
    <2>. QED
      BY <2>1, <2>2
  <1>3. \A j, k \in 1 .. Len(q) - 1 : at(j) = at(k) => j = k
    OBVIOUS
  <1>4. \A j \in 1 .. Len(q) : j # i => \E k \in 1 .. Len(q) - 1 : at(k) = j
    <2> TAKE j \in 1 .. Len(q)
    <2> HAVE j # i
    <2>1. CASE j < i
      <3>1. j \in 1 .. Len(q) - 1 /\ at(j) = j
        BY <2>1
      <3>. QED
        BY <3>1
    <2>2. CASE j > i
      <3>1. j - 1 \in 1 .. Len(q) - 1 /\ at(j - 1) = j
        BY <2>2
      <3>. QED
        BY <3>1
    <2>. QED
      BY <2>1, <2>2
  <1> HIDE DEF r, at
  <1>5. Apart(r)
    BY <1>1, <1>2, <1>3 DEF Apart
  <1>6. ASSUME NEW e \in ToSet(r)
        PROVE  e \in ToSet(q) \ {q[i]}
    <2>1. PICK k \in DOMAIN r : e = r[k]
      BY DEF ToSet
    <2>2. at(k) \in DOMAIN q /\ at(k) # i /\ e = q[at(k)]
      BY <1>1, <1>2, <2>1
    <2>3. q[at(k)] # q[i]
      BY <1>1, <2>2 DEF Apart
    <2>4. e \in ToSet(q)
      BY <2>2 DEF ToSet
    <2>. QED
      BY <2>2, <2>3, <2>4
  <1>7. ASSUME NEW e \in ToSet(q), e # q[i]
        PROVE  e \in ToSet(r)
    <2>1. PICK j \in DOMAIN q : e = q[j]
      BY DEF ToSet
    <2>2. PICK k \in 1 .. Len(q) - 1 : at(k) = j
      BY <1>1, <1>4, <1>7, <2>1
    <2>. QED
      BY <1>1, <1>2, <2>1, <2>2 DEF ToSet
  <1>. QED
    BY <1>5, <1>6, <1>7 DEF r

\* And gains one at its end.
LEMMA AppendElements ==
    ASSUME NEW S, NEW q \in Seq(S), NEW e \in S, Apart(q), e \notin ToSet(q)
    PROVE  /\ Append(q, e) \in Seq(S) /\ Apart(Append(q, e))
           /\ ToSet(Append(q, e)) = ToSet(q) \union {e}
  <1> DEFINE r == Append(q, e)
  <1>1. /\ r \in Seq(S) /\ DOMAIN r = 1 .. Len(q) + 1 /\ DOMAIN q = 1 .. Len(q)
        /\ r[Len(q) + 1] = e /\ \A k \in 1 .. Len(q) : r[k] = q[k]
        /\ Len(q) \in Nat
    OBVIOUS
  <1> HIDE DEF r
  <1>2. \A k \in 1 .. Len(q) : q[k] \in ToSet(q)
    BY <1>1 DEF ToSet
  <1>3. Apart(r)
    BY <1>1, <1>2 DEF Apart
  <1>4. \A x : x \in ToSet(r) <=> x \in ToSet(q) \union {e}
    BY <1>1 DEF ToSet
  <1>. QED
    BY <1>1, <1>3, <1>4 DEF r

\* An answer is a sequence of keys.
LEMMA AnswerIsSequence ==
    ASSUME NEW answer \in Answers
    PROVE  /\ answer \in Seq(Keys) /\ Len(answer) \in Nat /\ Len(answer) <= MaxFindings
           /\ DOMAIN answer = 1 .. Len(answer) /\ \A i \in DOMAIN answer : answer[i] \in Keys
  <1>1. PICK n \in 0 .. MaxFindings : answer \in [1 .. n -> Keys]
    BY DEF Answers
  <1>2. answer \in Seq(Keys) /\ Len(answer) = n /\ DOMAIN answer = 1 .. n
    BY <1>1, ReviewMemoryAssumption
  <1>. QED
    BY <1>1, <1>2, ReviewMemoryAssumption

-----------------------------------------------------------------------------
(***************************************************************************)
(* Lists of findings.                                                      *)
(***************************************************************************)

\* A list whose ids are within their bound and keep one finding each.
Good(rows) ==
    /\ rows \in Lists
    /\ \A r \in rows : r.id <= LastId
    /\ \A r, q \in rows : r.id = q.id => r.key = q.key

\* Numbers have a least one.
LEMMA LeastNumber ==
    ASSUME NEW I, I \subseteq Nat, I # {}
    PROVE  \E x \in I : \A y \in I : x <= y
  <1>1. PICK x \in I : \A y \in I : <<y, x>> \notin OpToRel(<, Nat)
    BY WFMin, NatLessThanWellFounded, Zenon
  <1>2. x \in I /\ \A y \in I : ~ (y < x)
    BY <1>1, Zenon DEF OpToRel
  <1>. QED
    BY <1>2

\* The first of some rows is one of them.
LEMMA FirstIs ==
    ASSUME NEW rows \in SUBSET Rows, rows # {}
    PROVE  First(rows) \in rows /\ \A q \in rows : First(rows).pos <= q.pos
  <1> DEFINE places == {r.pos : r \in rows}
  <1>1. places \subseteq Nat /\ places # {}
    BY DEF Rows
  <1>2. PICK x \in places : \A y \in places : x <= y
    BY <1>1, LeastNumber
  <1>3. PICK r \in rows : x = r.pos
    BY <1>2
  <1>4. \E r_1 \in rows : \A q \in rows : r_1.pos <= q.pos
    BY <1>2, <1>3
  <1>. QED
    BY <1>4 DEF First

\* MaxId is what it says.
LEMMA MaxIdBounds ==
    ASSUME NEW rows \in SUBSET Rows, \A r \in rows : r.id <= LastId
    PROVE  MaxId(rows) \in Nat /\ \A r \in rows : r.id <= MaxId(rows)
  <1>1. CASE rows = {}
    BY <1>1 DEF MaxId
  <1>2. CASE rows # {}
    <2> DEFINE ids == {r.id : r \in rows}
               above == {n \in Nat : \A r \in rows : r.id <= n}
    <2>1. \A r \in rows : r.id \in Nat
      BY DEF Rows
    <2>2. LastId \in above
      BY ReviewMemoryAssumption
    <2>3. PICK n \in above : \A m \in above : n <= m
      BY <2>2, LeastNumber
    <2>4. n \in Nat /\ \A r \in rows : r.id <= n
      BY <2>3
    <2>5. n \in ids
      <3> SUFFICES ASSUME n \notin ids PROVE FALSE
        OBVIOUS
      <3>1. \A r \in rows : r.id < n
        BY <2>1, <2>4
      <3>2. n - 1 \in Nat /\ \A r \in rows : r.id <= n - 1
        BY <1>2, <2>1, <2>4, <3>1
      <3>. QED
        BY <2>3, <2>4, <3>2
    <2>6. \E m \in ids : \A r \in rows : r.id <= m
      BY <2>4, <2>5
    <2>7. MaxId(rows) \in ids /\ \A r \in rows : r.id <= MaxId(rows)
      BY <1>2, <2>6, Zenon DEF MaxId
    <2>. QED
      BY <2>1, <2>7
  <1>. QED
    BY <1>1, <1>2

-----------------------------------------------------------------------------
(***************************************************************************)
(* Reconciliation, row by row.                                             *)
(***************************************************************************)

New(prev, answer, i) == {n \in 1 .. i : IsNew(prev, answer[n])}

\* A fresh id is above every id of the run before, and above the fresh ids that
\* come earlier in the answer.
LEMMA FreshIds ==
    ASSUME NEW prev, Good(prev), NEW answer \in Answers, NEW i \in DOMAIN answer
    PROVE  /\ FreshId(prev, answer, i) \in Nat
           /\ IsNew(prev, answer[i]) => \A r \in prev : r.id < FreshId(prev, answer, i)
           /\ \A j \in DOMAIN answer :
                i < j /\ IsNew(prev, answer[j]) =>
                    FreshId(prev, answer, i) < FreshId(prev, answer, j)
  <1> DEFINE count(n) == Cardinality(New(prev, answer, n))
             base     == IF MaxId(prev) > Len(answer) THEN MaxId(prev) ELSE Len(answer)
  <1>1. /\ \A n \in DOMAIN answer : n \in Nat \ {0}
        /\ Len(answer) \in Nat
    BY AnswerIsSequence
  <1>2. base \in Nat /\ \A r \in prev : r.id \in Nat /\ r.id <= base
    <2>1. prev \in SUBSET Rows /\ \A r \in prev : r.id \in Nat /\ r.id <= LastId
      BY DEF Good, Lists, Rows
    <2>2. MaxId(prev) \in Nat /\ \A r \in prev : r.id <= MaxId(prev)
      BY <2>1, MaxIdBounds
    <2>. QED
      BY <1>1, <2>1, <2>2
  <1>3. \A n \in DOMAIN answer : FreshId(prev, answer, n) = base + count(n)
    BY DEF FreshId, New
  <1>4. \A n \in DOMAIN answer : IsFiniteSet(New(prev, answer, n)) /\ count(n) \in Nat
    <2> TAKE n \in DOMAIN answer
    <2>1. IsFiniteSet(1 .. n)
      BY <1>1, FS_Interval
    <2>2. New(prev, answer, n) \in SUBSET (1 .. n)
      BY DEF New
    <2>3. IsFiniteSet(New(prev, answer, n))
      BY <2>1, <2>2, FS_Subset
    <2>. QED
      BY <2>3, FS_CardinalityType
  <1>5. ASSUME IsNew(prev, answer[i])
        PROVE  count(i) # 0
    <2>1. i \in New(prev, answer, i)
      BY <1>1, <1>5 DEF New
    <2>. QED
      BY <1>4, <2>1, FS_EmptySet
  <1>6. ASSUME NEW j \in DOMAIN answer, i < j, IsNew(prev, answer[j])
        PROVE  count(i) < count(j)
    <2>1. j \notin New(prev, answer, i) /\ New(prev, answer, i) \union {j} \in SUBSET New(prev, answer, j)
      BY <1>1, <1>6 DEF New
    <2>2. Cardinality(New(prev, answer, i) \union {j}) = count(i) + 1
      BY <1>4, <2>1, FS_AddElement
    <2>3. Cardinality(New(prev, answer, i) \union {j}) <= count(j)
      BY <1>4, <2>1, FS_Subset
    <2>. QED
      BY <1>4, <2>2, <2>3
  <1> HIDE DEF count, base
  <1>. QED
    BY <1>2, <1>3, <1>4, <1>5, <1>6

\* The row that pass 1 leaves for the i-th finding of an answer.
RestatedRow(prev, answer, i, level) ==
    IF IsNew(prev, answer[i]) THEN NewRow(prev, answer, i, level)
    ELSE [First(ForKey(prev, answer[i])) EXCEPT !.pos = i, !.nivel = level]

LEMMA RestatedRows ==
    ASSUME NEW prev, NEW answer, NEW level, NEW r
    PROVE  r \in Restated(prev, answer, level) <=>
               \E i \in DOMAIN answer : r = RestatedRow(prev, answer, i, level)
  BY DEF Restated, RestatedRow

LEMMA RestatedRowIs ==
    ASSUME NEW prev, Good(prev), NEW answer \in Answers, NEW level \in Levels,
           NEW i \in DOMAIN answer, NEW s, s = RestatedRow(prev, answer, i, level)
    PROVE  /\ s \in Rows /\ s.pos = i /\ s.key = answer[i] /\ s.estado # "resuelto"
           /\ \/ /\ IsNew(prev, answer[i]) /\ s.thread = NoThread
                 /\ s.id = FreshId(prev, answer, i)
              \/ /\ ~ IsNew(prev, answer[i])
                 /\ \E f \in prev : /\ f.key = s.key /\ s.id = f.id /\ s.thread = f.thread
                                    /\ s.estado = f.estado
                                    /\ \A q \in prev : q.key = s.key => f.pos <= q.pos
  <1>1. answer[i] \in Keys /\ i \in Nat /\ level \in {Unranked} \union Levels
    BY AnswerIsSequence
  <1>2. CASE IsNew(prev, answer[i])
    <2>1. s = NewRow(prev, answer, i, level)
      BY <1>2 DEF RestatedRow
    <2>2. FreshId(prev, answer, i) \in Nat
      BY FreshIds
    <2>. QED
      BY <1>1, <1>2, <2>1, <2>2, ReviewMemoryAssumption DEF NewRow, Rows, Estados, NoThread
  <1>3. CASE ~ IsNew(prev, answer[i])
    <2> DEFINE same == ForKey(prev, answer[i])
               f    == First(same)
    <2>1. same # {} /\ f.estado # "resuelto"
      BY <1>3 DEF IsNew
    <2>2. same \in SUBSET Rows /\ same \subseteq prev
      BY DEF Good, Lists, ForKey
    <2>3. f \in same /\ \A q \in same : f.pos <= q.pos
      BY <2>1, <2>2, FirstIs
    <2>4. s = [f EXCEPT !.pos = i, !.nivel = level]
      BY <1>3 DEF RestatedRow
    <2>5. \A q \in prev : q.key = answer[i] => q \in same
      BY DEF ForKey
    <2>6. f \in prev /\ f \in Rows /\ f.key = answer[i]
      BY <2>2, <2>3 DEF ForKey
    <2> HIDE DEF f, same
    <2>7. /\ s \in Rows /\ s.pos = i /\ s.key = f.key /\ s.id = f.id /\ s.thread = f.thread
          /\ s.estado = f.estado
      BY <1>1, <2>4, <2>6 DEF Rows
    <2>. QED
      BY <1>3, <2>1, <2>3, <2>5, <2>6, <2>7
  <1>. QED
    BY <1>2, <1>3

\* What pass 2 goes on with: the first row with its id of those that pass 1
\* did not restate.
LEMMA KeptIs ==
    ASSUME NEW prev, Good(prev), NEW answer \in Answers, NEW level \in Levels,
           NEW p \in Kept(prev, answer, level)
    PROVE  /\ p \in prev /\ p \in Rows
           /\ \A s \in Restated(prev, answer, level) : s.id # p.id
           /\ \A i \in DOMAIN answer : answer[i] = p.key => IsNew(prev, p.key)
           /\ \A q \in prev : q.id = p.id => p.pos <= q.pos
  <1> DEFINE matched == {k \in Keys : /\ \E i \in DOMAIN answer : answer[i] = k
                                      /\ ~IsNew(prev, k)}
             left    == {r \in prev : /\ r.key \notin matched
                                      /\ WithId(Restated(prev, answer, level), r.id) = {}}
  <1>1. p \in left /\ \A q \in WithId(left, p.id) : p.pos <= q.pos
    BY DEF Kept
  <1>2. \A r : r \in left <=> /\ r \in prev /\ r.key \notin matched
                              /\ \A s \in Restated(prev, answer, level) : s.id # r.id
    BY DEF WithId
  <1>3. \A i \in DOMAIN answer : answer[i] \in Keys
    BY AnswerIsSequence
  <1>4. \A i \in DOMAIN answer : answer[i] = p.key => IsNew(prev, p.key)
    BY <1>1, <1>2, <1>3
  <1> HIDE DEF left, matched
  <1>5. ASSUME NEW q \in prev, q.id = p.id
        PROVE  p.pos <= q.pos
    <2>1. q.key = p.key
      BY <1>1, <1>2, <1>5 DEF Good
    <2>2. q \in WithId(left, p.id)
      BY <1>1, <1>2, <1>5, <2>1 DEF WithId
    <2>. QED
      BY <1>1, <2>2
  <1>. QED
    BY <1>1, <1>2, <1>4, <1>5 DEF Good, Lists

\* The place of a row that pass 2 carries.
Place(prev, answer, level, p) ==
    Len(answer) + Cardinality({q \in Kept(prev, answer, level) : q.pos <= p.pos})

\* It is after the rows that pass 1 restated, and the places keep their order.
LEMMA Places ==
    ASSUME NEW prev, Good(prev), NEW answer \in Answers, NEW level \in Levels,
           NEW p \in Kept(prev, answer, level)
    PROVE  /\ Place(prev, answer, level, p) \in Nat
           /\ Len(answer) < Place(prev, answer, level, p)
           /\ \A q \in Kept(prev, answer, level) :
                p.pos < q.pos => Place(prev, answer, level, p) < Place(prev, answer, level, q)
  <1> DEFINE kept    == Kept(prev, answer, level)
             upto(r) == {q \in kept : q.pos <= r.pos}
  <1>1. \A r \in kept : r \in prev /\ r.pos \in Nat
    BY KeptIs DEF Rows
  <1>2. \A r, q \in kept : r.pos = q.pos => r = q
    BY <1>1 DEF Good, Lists
  <1>3. Len(answer) \in Nat
    BY AnswerIsSequence
  <1> HIDE DEF kept
  <1>4. ASSUME NEW r \in kept
        PROVE  IsFiniteSet(upto(r)) /\ Cardinality(upto(r)) \in Nat /\ r \in upto(r)
    <2> DEFINE f == [q \in upto(r) |-> q.pos]
    <2>1. f \in Injection(upto(r), 0 .. r.pos)
      BY <1>1, <1>2 DEF Injection, IsInjective
    <2>2. IsFiniteSet(0 .. r.pos)
      BY <1>1, FS_Interval
    <2>3. IsFiniteSet(upto(r))
      BY <2>1, <2>2, FS_Injection
    <2>4. r \in upto(r)
      BY <1>1
    <2>. QED
      BY <2>3, <2>4, FS_CardinalityType
  <1>5. \A r \in kept : Cardinality(upto(r)) \in Nat \ {0}
    BY <1>4, FS_EmptySet
  <1>6. ASSUME NEW q \in kept, p \in kept, p.pos < q.pos
        PROVE  Cardinality(upto(p)) < Cardinality(upto(q))
    <2>1. upto(p) \in SUBSET upto(q) /\ q \notin upto(p)
      BY <1>1, <1>6
    <2>2. upto(p) # upto(q)
      BY <1>4, <2>1
    <2> HIDE DEF upto
    <2>3. Cardinality(upto(p)) <= Cardinality(upto(q)) /\ Cardinality(upto(q)) # Cardinality(upto(p))
      BY <1>4, <1>6, <2>1, <2>2, FS_Subset
    <2>. QED
      BY <1>4, <1>6, <2>3
  <1>7. p \in kept /\ \A r \in kept : Place(prev, answer, level, r) = Len(answer) + Cardinality(upto(r))
    BY DEF Place, kept
  <1> HIDE DEF upto
  <1>8. \A q \in kept : p.pos < q.pos => Place(prev, answer, level, p) < Place(prev, answer, level, q)
    BY <1>3, <1>5, <1>6, <1>7
  <1>. QED
    BY <1>3, <1>5, <1>7, <1>8 DEF kept

\* The row that pass 2 leaves for a row of the run before.
CarriedRow(prev, answer, examined, level, p) ==
    [Verdict(p, examined, level) EXCEPT !.pos = Place(prev, answer, level, p)]

LEMMA CarriedRows ==
    ASSUME NEW prev, NEW answer, NEW examined, NEW level, NEW r
    PROVE  r \in Carried(prev, answer, examined, level) <=>
               \E p \in Kept(prev, answer, level) : r = CarriedRow(prev, answer, examined, level, p)
  BY DEF Carried, CarriedRow, Place

LEMMA CarriedRowIs ==
    ASSUME NEW prev, Good(prev), NEW answer \in Answers, NEW examined, NEW level \in Levels,
           NEW p \in Kept(prev, answer, level),
           NEW s, s = CarriedRow(prev, answer, examined, level, p)
    PROVE  /\ s \in Rows /\ s.pos = Place(prev, answer, level, p)
           /\ s.id = p.id /\ s.key = p.key /\ s.thread = p.thread
           /\ s.estado = p.estado \/ (Active(p) /\ p.key \in examined)
  <1>1. p \in Rows
    BY KeptIs
  <1>2. Place(prev, answer, level, p) \in Nat
    BY Places
  <1> DEFINE v == Verdict(p, examined, level)
  <1>3. /\ v \in Rows /\ v.id = p.id /\ v.key = p.key /\ v.thread = p.thread
        /\ v.estado = p.estado \/ (Active(p) /\ p.key \in examined)
    <2>1. CASE ~Active(p) \/ p.key \notin examined
      BY <1>1, <2>1 DEF Verdict
    <2>2. CASE Active(p) /\ p.key \in examined
      BY <1>1, <2>2 DEF Verdict, Rows, Estados
    <2>. QED
      BY <2>1, <2>2
  <1>4. s = [v EXCEPT !.pos = Place(prev, answer, level, p)]
    BY DEF CarriedRow
  <1> HIDE DEF v
  <1>. QED
    BY <1>2, <1>3, <1>4 DEF Rows

LEMMA RowsOfReconcile ==
    ASSUME NEW prev, NEW answer, NEW examined, NEW level,
           NEW s \in Reconcile(prev, answer, examined, level)
    PROVE  \/ \E i \in DOMAIN answer : s = RestatedRow(prev, answer, i, level)
           \/ \E p \in Kept(prev, answer, level) : s = CarriedRow(prev, answer, examined, level, p)
  BY RestatedRows, CarriedRows DEF Reconcile

\* A row of the list it leaves has a fresh id and no conversation, or the id,
\* key and conversation of a row of the run before.
LEMMA FreshOrOld ==
    ASSUME NEW prev, Good(prev), NEW answer \in Answers, NEW examined, NEW level \in Levels,
           NEW s \in Reconcile(prev, answer, examined, level)
    PROVE  /\ s \in Rows
           /\ \/ s.thread = NoThread /\ \A r \in prev : r.id < s.id
              \/ \E p \in prev : s.id = p.id /\ s.key = p.key /\ s.thread = p.thread
  <1>1. CASE \E i \in DOMAIN answer : s = RestatedRow(prev, answer, i, level)
    <2>1. PICK i \in DOMAIN answer : s = RestatedRow(prev, answer, i, level)
      BY <1>1
    <2>2. IsNew(prev, answer[i]) => \A r \in prev : r.id < FreshId(prev, answer, i)
      BY FreshIds
    <2>. QED
      BY <2>1, <2>2, RestatedRowIs
  <1>2. CASE \E p \in Kept(prev, answer, level) : s = CarriedRow(prev, answer, examined, level, p)
    <2>1. PICK p \in Kept(prev, answer, level) : s = CarriedRow(prev, answer, examined, level, p)
      BY <1>2
    <2>2. p \in prev
      BY KeptIs
    <2>. QED
      BY <2>1, <2>2, CarriedRowIs
  <1>. QED
    BY <1>1, <1>2, RowsOfReconcile

\* Two rows of the list differ in their places, and share an id only when they
\* share their key.
LEMMA ReconcileSorts ==
    ASSUME NEW prev, Good(prev), NEW answer \in Answers, NEW examined, NEW level \in Levels,
           NEW s \in Reconcile(prev, answer, examined, level),
           NEW t \in Reconcile(prev, answer, examined, level)
    PROVE  (s.pos = t.pos => s = t) /\ (s.id = t.id => s.key = t.key)
  <1> DEFINE restated(x, i) == x = RestatedRow(prev, answer, i, level)
             carried(x, p)  == x = CarriedRow(prev, answer, examined, level, p)
             kept           == Kept(prev, answer, level)
             len            == Len(answer)
  <1>1. /\ len \in Nat /\ \A i \in DOMAIN answer : i \in Nat /\ i <= len
    BY AnswerIsSequence
  <1>2. \A r, q \in prev : (r.pos = q.pos => r = q) /\ (r.id = q.id => r.key = q.key)
    BY DEF Good, Lists
  <1>3. ASSUME NEW i \in DOMAIN answer, NEW j \in DOMAIN answer, restated(s, i), restated(t, j)
        PROVE  (s.pos = t.pos => s = t) /\ (s.id = t.id => s.key = t.key)
    <2>1. s.pos = i /\ t.pos = j /\ s.key = answer[i] /\ t.key = answer[j]
      BY <1>3, RestatedRowIs
    <2>2. s.pos = t.pos => s = t
      BY <1>3, <2>1
    <2>3. CASE IsNew(prev, answer[i]) /\ IsNew(prev, answer[j])
      <3>1. s.id = FreshId(prev, answer, i) /\ t.id = FreshId(prev, answer, j)
        BY <1>3, <2>3, RestatedRowIs
      <3>2. s.id \in Nat /\ t.id \in Nat /\ (i < j => s.id < t.id) /\ (j < i => t.id < s.id)
        BY <2>3, <3>1, FreshIds
      <3>3. s.id = t.id => i = j
        BY <1>1, <3>2
      <3>. QED
        BY <2>1, <2>2, <3>3
    <2>4. CASE IsNew(prev, answer[i]) /\ ~IsNew(prev, answer[j])
      <3>1. s.id = FreshId(prev, answer, i) /\ \E f \in prev : t.id = f.id
        BY <1>3, <2>4, RestatedRowIs
      <3>2. s.id \in Nat /\ \A f \in prev : f.id < s.id
        BY <2>4, <3>1, FreshIds
      <3>3. \A f \in prev : f.id \in Nat
        BY DEF Good, Lists, Rows
      <3>4. s.id # t.id
        BY <3>1, <3>2, <3>3
      <3>. QED
        BY <2>2, <3>4
    <2>5. CASE ~IsNew(prev, answer[i]) /\ IsNew(prev, answer[j])
      <3>1. t.id = FreshId(prev, answer, j) /\ \E f \in prev : s.id = f.id
        BY <1>3, <2>5, RestatedRowIs
      <3>2. t.id \in Nat /\ \A f \in prev : f.id < t.id
        BY <2>5, <3>1, FreshIds
      <3>3. \A f \in prev : f.id \in Nat
        BY DEF Good, Lists, Rows
      <3>4. s.id # t.id
        BY <3>1, <3>2, <3>3
      <3>. QED
        BY <2>2, <3>4
    <2>6. CASE ~IsNew(prev, answer[i]) /\ ~IsNew(prev, answer[j])
      <3>1. /\ \E f \in prev : f.key = s.key /\ s.id = f.id
            /\ \E f \in prev : f.key = t.key /\ t.id = f.id
        BY <1>3, <2>6, RestatedRowIs
      <3>. QED
        BY <1>2, <2>2, <3>1
    <2>. QED
      BY <2>3, <2>4, <2>5, <2>6
  <1>4. ASSUME NEW x, NEW y, NEW i \in DOMAIN answer, NEW p \in kept, restated(x, i), carried(y, p)
        PROVE  x.pos # y.pos /\ x.id # y.id
    <2>1. x.pos = i /\ y.pos = Place(prev, answer, level, p) /\ y.id = p.id
      BY <1>4, RestatedRowIs, CarriedRowIs
    <2>2. len < Place(prev, answer, level, p) /\ Place(prev, answer, level, p) \in Nat
      BY Places
    <2>3. x \in Restated(prev, answer, level)
      BY <1>4, RestatedRows
    <2>4. x.id # p.id
      BY <2>3, KeptIs
    <2>. QED
      BY <1>1, <2>1, <2>2, <2>4
  <1>5. ASSUME NEW p \in kept, NEW q \in kept, carried(s, p), carried(t, q)
        PROVE  (s.pos = t.pos => s = t) /\ (s.id = t.id => s.key = t.key)
    <2>1. /\ s.pos = Place(prev, answer, level, p) /\ s.id = p.id /\ s.key = p.key
          /\ t.pos = Place(prev, answer, level, q) /\ t.id = q.id /\ t.key = q.key
      BY <1>5, CarriedRowIs
    <2>2. p \in prev /\ q \in prev /\ p.pos \in Nat /\ q.pos \in Nat
      BY KeptIs DEF Rows
    <2>3. /\ s.pos \in Nat /\ t.pos \in Nat
          /\ (p.pos < q.pos => s.pos < t.pos) /\ (q.pos < p.pos => t.pos < s.pos)
      BY <2>1, Places
    <2>4. s.pos = t.pos => p.pos = q.pos
      BY <2>2, <2>3
    <2>. QED
      BY <1>2, <1>5, <2>1, <2>2, <2>4
  <1>6. /\ (\E i \in DOMAIN answer : restated(s, i)) \/ (\E p \in kept : carried(s, p))
        /\ (\E i \in DOMAIN answer : restated(t, i)) \/ (\E p \in kept : carried(t, p))
    BY RowsOfReconcile
  <1> HIDE DEF restated, carried, kept
  <1>. QED
    BY <1>3, <1>4, <1>5, <1>6

LEMMA ReconcileIsGood ==
    ASSUME NEW prev, Good(prev), NEW answer \in Answers, NEW examined, NEW level \in Levels,
           \A r \in Reconcile(prev, answer, examined, level) : r.id <= LastId
    PROVE  Good(Reconcile(prev, answer, examined, level))
  <1> DEFINE rows == Reconcile(prev, answer, examined, level)
  <1>1. rows \in SUBSET Rows
    BY FreshOrOld
  <1>2. \A s, t \in rows : (s.pos = t.pos => s = t) /\ (s.id = t.id => s.key = t.key)
    BY ReconcileSorts
  <1> HIDE DEF rows
  <1>3. rows \in Lists
    BY <1>1, <1>2 DEF Lists
  <1>. QED
    BY <1>2, <1>3 DEF Good, rows

-----------------------------------------------------------------------------
(***************************************************************************)
(* The row that stands for a finding.                                      *)
(***************************************************************************)

\* The first row of k is there, and is a finding that was not resolved.
Leads(rows, k) ==
    \E r \in rows : /\ r.key = k /\ r.estado # "resuelto"
                    /\ \A q \in rows : q.key = k => r.pos <= q.pos

\* Every finding that a run reported has its row.
Reported(rows, text) == \A i \in DOMAIN text : Leads(rows, text[i])

LEMMA FirstLeads ==
    ASSUME NEW rows \in Lists, NEW k, Leads(rows, k)
    PROVE  /\ First(ForKey(rows, k)) \in rows /\ First(ForKey(rows, k)).key = k
           /\ First(ForKey(rows, k)).estado # "resuelto"
  <1>1. PICK r \in rows : /\ r.key = k /\ r.estado # "resuelto"
                          /\ \A q \in rows : q.key = k => r.pos <= q.pos
    BY DEF Leads
  <1> DEFINE same == ForKey(rows, k)
             f    == First(same)
  <1>2. same \in SUBSET Rows /\ r \in same /\ \A q \in same : q \in rows /\ q.key = k
    BY <1>1 DEF Lists, ForKey
  <1> HIDE DEF same
  <1>3. f \in same /\ \A q \in same : f.pos <= q.pos
    BY <1>2, FirstIs
  <1>4. f.pos = r.pos
    BY <1>1, <1>2, <1>3 DEF Rows
  <1>5. f = r
    BY <1>1, <1>2, <1>3, <1>4 DEF Lists
  <1>. QED
    BY <1>1, <1>2, <1>3, <1>5 DEF same

\* The least place of a key is that of a row which leads when no row of the
\* first n places is resolved, and the key has one of those.
LEMMA LeadsAmongTheFirst ==
    ASSUME NEW rows \in SUBSET Rows, NEW n \in Nat, NEW k,
           \E r \in rows : r.key = k /\ r.pos <= n,
           \A r \in rows : r.pos <= n => r.estado # "resuelto"
    PROVE  Leads(rows, k)
  <1> DEFINE same == ForKey(rows, k)
             f    == First(same)
  <1>1. /\ same \in SUBSET Rows /\ same # {}
        /\ \A q : q \in same <=> q \in rows /\ q.key = k
    BY DEF ForKey
  <1> HIDE DEF same
  <1>2. f \in same /\ \A q \in same : f.pos <= q.pos
    BY <1>1, FirstIs
  <1>3. PICK r \in rows : r.key = k /\ r.pos <= n
    OBVIOUS
  <1>4. f.pos <= r.pos /\ f.pos \in Nat /\ r.pos \in Nat
    BY <1>1, <1>2, <1>3 DEF Rows
  <1>5. f.pos <= n
    BY <1>3, <1>4
  <1>. QED
    BY <1>1, <1>2, <1>5 DEF Leads

LEMMA ReconcileReports ==
    ASSUME NEW prev, Good(prev), NEW answer \in Answers, NEW examined, NEW level \in Levels
    PROVE  Reported(Reconcile(prev, answer, examined, level), answer)
  <1> DEFINE rows == Reconcile(prev, answer, examined, level)
  <1>1. rows \in SUBSET Rows
    BY FreshOrOld
  <1>2. Len(answer) \in Nat /\ \A i \in DOMAIN answer : i \in Nat /\ i <= Len(answer)
    BY AnswerIsSequence
  <1>3. ASSUME NEW r \in rows, r.pos <= Len(answer)
        PROVE  r.estado # "resuelto"
    <2>1. ASSUME NEW p \in Kept(prev, answer, level),
                 r = CarriedRow(prev, answer, examined, level, p)
          PROVE  FALSE
      <3>1. r.pos = Place(prev, answer, level, p)
        BY <2>1, CarriedRowIs
      <3>2. Len(answer) < r.pos /\ r.pos \in Nat
        BY <3>1, Places
      <3>. QED
        BY <1>2, <1>3, <3>2
    <2>2. PICK i \in DOMAIN answer : r = RestatedRow(prev, answer, i, level)
      BY <2>1, RowsOfReconcile
    <2>. QED
      BY <2>2, RestatedRowIs
  <1>4. ASSUME NEW i \in DOMAIN answer
        PROVE  \E r \in rows : r.key = answer[i] /\ r.pos <= Len(answer)
    <2> DEFINE s == RestatedRow(prev, answer, i, level)
    <2>1. s \in rows
      BY RestatedRows DEF Reconcile
    <2>2. s.key = answer[i] /\ s.pos = i
      BY RestatedRowIs
    <2> HIDE DEF s
    <2>. QED
      BY <1>2, <2>1, <2>2
  <1> HIDE DEF rows
  <1>5. \A i \in DOMAIN answer : Leads(rows, answer[i])
    BY <1>1, <1>2, <1>3, <1>4, LeadsAmongTheFirst
  <1>. QED
    BY <1>5 DEF Reported, rows

\* An answer that is taken as it is.
LEMMA ParsedIs ==
    ASSUME NEW answer \in Answers, \A r \in Parsed(answer) : r.id <= LastId
    PROVE  /\ Good(Parsed(answer)) /\ Reported(Parsed(answer), answer)
           /\ \A r \in Parsed(answer) : r.thread = NoThread
  <1>1. /\ Len(answer) \in Nat /\ \A i \in DOMAIN answer : i \in Nat /\ i <= Len(answer)
        /\ \A i \in DOMAIN answer : answer[i] \in Keys
    BY AnswerIsSequence
  <1>2. \A r \in Parsed(answer) :
           /\ r \in Rows /\ r.pos = r.id /\ r.thread = NoThread /\ r.estado = "abierto"
           /\ r.pos \in DOMAIN answer /\ r.key = answer[r.pos]
    BY <1>1, ReviewMemoryAssumption DEF Parsed, Rows, Estados, NoThread
  <1>3. \A i \in DOMAIN answer : \E r \in Parsed(answer) : r.pos = i /\ r.key = answer[i]
    <2> TAKE i \in DOMAIN answer
    <2> DEFINE r == [pos |-> i, id |-> i, key |-> answer[i], estado |-> "abierto",
                     thread |-> NoThread, nivel |-> Unranked]
    <2>1. r \in Parsed(answer)
      BY DEF Parsed
    <2>2. r.pos = i /\ r.key = answer[i]
      OBVIOUS
    <2> HIDE DEF r
    <2>. QED
      BY <2>1, <2>2
  <1>4. \A r, q \in Parsed(answer) : r.pos = q.pos => r = q
    BY DEF Parsed
  <1>5. Good(Parsed(answer))
    BY <1>2, <1>4 DEF Good, Lists
  <1>6. \A i \in DOMAIN answer : Leads(Parsed(answer), answer[i])
    <2> TAKE i \in DOMAIN answer
    <2>1. Parsed(answer) \in SUBSET Rows /\ \A r \in Parsed(answer) : r.estado # "resuelto"
      BY <1>2
    <2>2. \E r \in Parsed(answer) : r.key = answer[i] /\ r.pos <= Len(answer)
      BY <1>1, <1>3
    <2>. QED
      BY <1>1, <2>1, <2>2, LeadsAmongTheFirst
  <1>. QED
    BY <1>2, <1>5, <1>6 DEF Reported

-----------------------------------------------------------------------------
(***************************************************************************)
(* What a review may say of the findings of the run before.                *)
(***************************************************************************)

\* A finding that was active and is resolved was examined and not restated.
LEMMA FixedWasExamined ==
    ASSUME NEW prev, Good(prev), NEW answer \in Answers, NEW examined, NEW level \in Levels,
           NEW s \in Reconcile(prev, answer, examined, level), s.estado = "resuelto",
           NEW q \in prev, q = First(ForKey(prev, s.key)), q.key = s.key, q.id = s.id, Active(q)
    PROVE  s.key \in examined /\ \A i \in DOMAIN answer : answer[i] # s.key
  <1>1. \A i \in DOMAIN answer : s # RestatedRow(prev, answer, i, level)
    BY RestatedRowIs
  <1>2. PICK p \in Kept(prev, answer, level) : s = CarriedRow(prev, answer, examined, level, p)
    BY <1>1, RowsOfReconcile
  <1>3. /\ s.id = p.id /\ s.key = p.key
        /\ s.estado = p.estado \/ (Active(p) /\ p.key \in examined)
    BY <1>2, CarriedRowIs
  <1>4. /\ p \in prev
        /\ \A i \in DOMAIN answer : answer[i] = p.key => IsNew(prev, p.key)
        /\ p.pos <= q.pos
    BY <1>3, KeptIs
  <1>5. ForKey(prev, s.key) # {} /\ q.estado # "resuelto"
    BY DEF ForKey, Active
  <1>6. ~ IsNew(prev, s.key)
    BY <1>5 DEF IsNew
  <1>7. q.pos <= p.pos
    <2>1. ForKey(prev, s.key) \in SUBSET Rows /\ p \in ForKey(prev, s.key)
      BY <1>3, <1>4 DEF ForKey, Good, Lists
    <2>. QED
      BY <2>1, FirstIs
  <1>8. p = q
    <2>1. p.pos \in Nat /\ q.pos \in Nat
      BY <1>4 DEF Good, Lists, Rows
    <2>2. p.pos = q.pos
      BY <1>4, <1>7, <2>1
    <2>. QED
      BY <1>4, <2>2 DEF Good, Lists
  <1>9. s.key \in examined
    BY <1>3, <1>5, <1>8
  <1>. QED
    BY <1>3, <1>4, <1>6, <1>9

\* The row that a dismissed finding's id leads to is dismissed.
LEMMA DismissedIsKept ==
    ASSUME NEW prev, Good(prev), NEW answer \in Answers, NEW examined, NEW level \in Levels,
           NEW s \in Reconcile(prev, answer, examined, level),
           NEW r \in prev, r.id = s.id, r.estado = Dismissed,
           \A q \in prev : q.id = r.id => r.pos <= q.pos
    PROVE  s.estado = Dismissed
  <1>1. \A q \in prev : q.pos \in Nat /\ q.id \in Nat
    BY DEF Good, Lists, Rows
  <1>2. \A q \in prev : q.pos <= r.pos /\ r.pos <= q.pos => q = r
    <2> TAKE q \in prev
    <2> HAVE q.pos <= r.pos /\ r.pos <= q.pos
    <2>1. q.pos = r.pos
      BY <1>1
    <2>. QED
      BY <2>1 DEF Good, Lists
  <1>3. ASSUME NEW i \in DOMAIN answer, s = RestatedRow(prev, answer, i, level)
        PROVE  s.estado = Dismissed
    <2>1. CASE IsNew(prev, answer[i])
      <3>1. s.id = FreshId(prev, answer, i)
        BY <1>3, <2>1, RestatedRowIs
      <3>2. r.id < s.id /\ s.id \in Nat
        BY <2>1, <3>1, FreshIds
      <3>. QED
        BY <1>1, <3>2
    <2>2. CASE ~ IsNew(prev, answer[i])
      <3>1. PICK f \in prev : /\ f.key = s.key /\ s.id = f.id /\ s.estado = f.estado
                              /\ \A q \in prev : q.key = s.key => f.pos <= q.pos
        BY <1>3, <2>2, RestatedRowIs
      <3>2. r.key = f.key
        BY <3>1 DEF Good
      <3>3. f.pos <= r.pos /\ r.pos <= f.pos
        BY <3>1, <3>2
      <3>. QED
        BY <1>2, <3>1, <3>3
    <2>. QED
      BY <2>1, <2>2
  <1>4. ASSUME NEW p \in Kept(prev, answer, level),
               s = CarriedRow(prev, answer, examined, level, p)
        PROVE  s.estado = Dismissed
    <2>1. s.id = p.id /\ (s.estado = p.estado \/ (Active(p) /\ p.key \in examined))
      BY <1>4, CarriedRowIs
    <2>2. p \in prev /\ p.pos <= r.pos
      BY <2>1, KeptIs
    <2>3. p = r
      BY <1>2, <2>1, <2>2
    <2>. QED
      BY <2>1, <2>3 DEF Active, Dismissed
  <1>. QED
    BY <1>3, <1>4, RowsOfReconcile

-----------------------------------------------------------------------------
(***************************************************************************)
(* The inductive invariant.                                                *)
(***************************************************************************)

Job == [at : {"idle", "asking", "merged"}, level : {Unranked} \union Levels,
        examined : SUBSET Keys, answer : Answers, previous : Reviews \union {NoRun},
        rows : SUBSET Rows]

Shape ==
    /\ runs \in [Reviews -> Run \union {NoRun}]
    /\ review \in [Reviews -> Job]
    /\ \A j \in Reviews : Running(j) => review[j].level \in Levels
    /\ publish \in [run : Reviews \union {NoRun}, rows : SUBSET Rows, todo : Seq(Keys)]
    /\ threads \in 0 .. MaxThreads
    /\ order \in Seq(Reviews) /\ Apart(order) /\ ToSet(order) = Stored

\* A job that runs has filed nothing, and nobody publishes it.
Busy == \A j \in Reviews : Running(j) => runs[j] = NoRun /\ publish.run # j

\* The lists of findings there are: stored, in a review's hands, in a publish's.
Held == {runs[j].rows : j \in Stored} \union {review[j].rows : j \in Reviews} \union {publish.rows}

\* The rows of every list that is held are about the same conversations, n of
\* which were opened.
Related(r, q) == r.thread = q.thread /\ r.thread # NoThread => r.id = q.id /\ r.key = q.key

Talk(lists, n) ==
    \A rows \in lists : \A r \in rows :
        /\ r.thread <= n
        /\ \A others \in lists : \A q \in others : Related(r, q)

Sound == (\A rows \in Held : Good(rows)) /\ Talk(Held, threads)

\* What a run reported has its row, wherever the rows and the report are held.
Living ==
    /\ \A j \in Stored : Reported(runs[j].rows, runs[j].text)
    /\ \A j \in Reviews : review[j].at = "merged" => Reported(review[j].rows, review[j].answer)
    /\ Reported(publish.rows, publish.todo)
    /\ publish.run \in Stored => Reported(publish.rows, runs[publish.run].text)

IInv == Shape /\ Busy /\ Sound /\ Living

-----------------------------------------------------------------------------
(***************************************************************************)
(* One list more, and one row changed.                                     *)
(***************************************************************************)

LEMMA EmptyIsGood == Good({})
  BY DEF Good, Lists

\* A row of a new list is no news: it has no conversation, or is about the
\* finding of a row that is held.
Heir(r, lists) ==
    \/ r.thread = NoThread
    \/ \E rows \in lists : \E q \in rows : r.thread = q.thread /\ r.id = q.id /\ r.key = q.key

\* Or it is the one that just got a conversation.
Newcomer(r, rows, n, m) ==
    n < r.thread /\ r.thread <= m /\ \A q \in rows : q.thread = r.thread => q = r

LEMMA OneMoreList ==
    ASSUME NEW lists, NEW n \in Nat, NEW new, NEW m \in Nat, n <= m,
           \A rows \in lists : Good(rows), Talk(lists, n), Good(new),
           \A r \in new : Heir(r, lists) \/ Newcomer(r, new, n, m)
    PROVE  Talk(lists \union {new}, m)
  <1>1. \A rows \in lists \union {new} : \A r \in rows : r.thread \in Nat
    BY ReviewMemoryAssumption DEF Good, Lists, Rows
  <1>2. ASSUME NEW rows \in lists, NEW r \in rows
        PROVE  r.thread <= n /\ \A others \in lists : \A q \in others : Related(r, q) /\ Related(q, r)
    BY <1>2 DEF Talk, Related
  <1>3. ASSUME NEW r \in new, Heir(r, lists)
        PROVE  /\ r.thread <= n
               /\ \A others \in lists : \A q \in others : Related(r, q) /\ Related(q, r)
    <2>1. CASE r.thread = NoThread
      BY <2>1 DEF NoThread, Related
    <2>2. CASE r.thread # NoThread
      <3>1. PICK rows \in lists : \E p \in rows : r.thread = p.thread /\ r.id = p.id /\ r.key = p.key
        BY <1>3, <2>2 DEF Heir
      <3>2. PICK p \in rows : r.thread = p.thread /\ r.id = p.id /\ r.key = p.key
        BY <3>1
      <3>. QED
        BY <1>2, <3>1, <3>2 DEF Related
    <2>. QED
      BY <2>1, <2>2
  <1>4. ASSUME NEW r \in new, NEW q \in new
        PROVE  Related(r, q)
    <2>1. CASE Heir(r, lists) /\ Heir(q, lists)
      <3>1. CASE q.thread = NoThread
        BY <3>1 DEF Related
      <3>2. CASE q.thread # NoThread
        <4>1. PICK rows \in lists : \E p \in rows : q.thread = p.thread /\ q.id = p.id /\ q.key = p.key
          BY <2>1, <3>2 DEF Heir
        <4>2. PICK p \in rows : q.thread = p.thread /\ q.id = p.id /\ q.key = p.key
          BY <4>1
        <4>3. Related(r, p)
          BY <1>3, <2>1, <4>1, <4>2
        <4>. QED
          BY <4>2, <4>3 DEF Related
      <3>. QED
        BY <3>1, <3>2
    <2>2. CASE Newcomer(r, new, n, m) \/ Newcomer(q, new, n, m)
      BY <2>2 DEF Newcomer, Related
    <2>. QED
      BY <2>1, <2>2
  <1>5. ASSUME NEW r \in new, Newcomer(r, new, n, m)
        PROVE  /\ r.thread <= m
               /\ \A others \in lists : \A q \in others : Related(r, q) /\ Related(q, r)
    <2>1. \A others \in lists : \A q \in others : q.thread # r.thread
      <3> TAKE others \in lists
      <3> TAKE q \in others
      <3>1. q.thread <= n /\ q.thread \in Nat /\ r.thread \in Nat /\ n < r.thread
        BY <1>1, <1>2, <1>5 DEF Newcomer
      <3>. QED
        BY <3>1
    <2>. QED
      BY <1>5, <2>1 DEF Newcomer, Related
  <1>6. ASSUME NEW rows \in lists \union {new}, NEW r \in rows
        PROVE  r.thread <= m /\ \A others \in lists \union {new} : \A q \in others : Related(r, q)
    <2>1. r.thread <= n \/ r.thread <= m
      BY <1>2, <1>3, <1>5, <1>6
    <2>2. r.thread <= m
      BY <1>1, <1>6, <2>1
    <2>. QED
      BY <1>2, <1>3, <1>4, <1>5, <1>6, <2>2
  <1>. QED
    BY <1>6 DEF Talk

LEMMA FewerLists ==
    ASSUME NEW lists, NEW n, Talk(lists, n), NEW fewer, fewer \subseteq lists
    PROVE  Talk(fewer, n)
  BY DEF Talk

\* What a step must show of the one list it makes.
LEMMA StaysSound ==
    ASSUME Shape, Sound, threads' \in Nat, threads <= threads', NEW new, Good(new),
           Held' \subseteq Held \union {new},
           \A r \in new : Heir(r, Held) \/ Newcomer(r, new, threads, threads')
    PROVE  Sound'
  <1>1. threads \in Nat
    BY DEF Shape
  <1>2. Talk(Held \union {new}, threads')
    BY <1>1, OneMoreList DEF Sound
  <1>3. Talk(Held', threads')
    BY <1>2, FewerLists
  <1>4. \A rows \in Held' : Good(rows)
    BY DEF Sound
  <1>. QED
    BY <1>3, <1>4 DEF Sound, Good, Talk

\* A step that only moves and forgets lists.
LEMMA NoNewList ==
    ASSUME Shape, Sound, threads' \in Nat, threads <= threads', Held' \subseteq Held \union {{}}
    PROVE  Sound'
  BY StaysSound, EmptyIsGood

\* One row of a list changes its estado or its conversation.
LEMMA OneRowChanged ==
    ASSUME NEW rows, Good(rows), NEW r \in rows, NEW s \in Rows,
           s.pos = r.pos, s.id = r.id, s.key = r.key,
           r.estado # "resuelto" => s.estado # "resuelto"
    PROVE  /\ Good((rows \ {r}) \union {s})
           /\ \A k : Leads(rows, k) => Leads((rows \ {r}) \union {s}, k)
  <1> DEFINE new == (rows \ {r}) \union {s}
  <1>1. \A q \in new : \E p \in rows : /\ q.pos = p.pos /\ q.id = p.id /\ q.key = p.key
                                       /\ IF p = r THEN q = s ELSE q = p
    OBVIOUS
  <1>2. new \in SUBSET Rows
    BY DEF Good, Lists
  <1>3. \A p, q \in rows : (p.pos = q.pos => p = q) /\ (p.id = q.id => p.key = q.key) /\ p.id <= LastId
    BY DEF Good, Lists
  <1>4. \A p \in rows : \E q \in new : /\ q.pos = p.pos /\ q.key = p.key
                                       /\ p.estado # "resuelto" => q.estado # "resuelto"
    OBVIOUS
  <1> HIDE DEF new
  <1>5. Good(new)
    <2>1. \A p, q \in new : p.pos = q.pos => p = q
      BY <1>1, <1>3
    <2>2. \A p, q \in new : p.id = q.id => p.key = q.key
      BY <1>1, <1>3
    <2>3. \A q \in new : q.id <= LastId
      BY <1>1, <1>3
    <2>. QED
      BY <1>2, <2>1, <2>2, <2>3 DEF Good, Lists
  <1>6. ASSUME NEW k, Leads(rows, k)
        PROVE  Leads(new, k)
    <2>1. PICK p \in rows : /\ p.key = k /\ p.estado # "resuelto"
                            /\ \A q \in rows : q.key = k => p.pos <= q.pos
      BY <1>6 DEF Leads
    <2>2. PICK q \in new : q.pos = p.pos /\ q.key = k /\ q.estado # "resuelto"
      BY <1>4, <2>1
    <2>3. \A o \in new : o.key = k => q.pos <= o.pos
      BY <1>1, <2>1, <2>2
    <2>. QED
      BY <2>2, <2>3 DEF Leads
  <1>. QED
    BY <1>5, <1>6 DEF new

-----------------------------------------------------------------------------
(***************************************************************************)
(* A review.                                                               *)
(***************************************************************************)

LEMMA HeldLists ==
    /\ \A j \in Stored : runs[j].rows \in Held
    /\ \A j \in Reviews : review[j].rows \in Held
    /\ publish.rows \in Held
  BY DEF Held

LEMMA IdleIs ==
    /\ Idle \in Job /\ Idle.at = "idle" /\ Idle.rows = {} /\ Idle.level = Unranked
    /\ Idle.examined = {} /\ Idle.answer = << >> /\ Idle.previous = NoRun
  <1>1. << >> \in Answers
    <2>1. << >> \in [1 .. 0 -> Keys] /\ 0 \in 0 .. MaxFindings
      BY ReviewMemoryAssumption
    <2>. QED
      BY <2>1 DEF Answers
  <1>. QED
    BY <1>1 DEF Idle, Job

\* A step of one review that neither files nor is filed.
LEMMA ReviewStep ==
    ASSUME IInv, UNCHANGED <<runs, order, publish, threads>>,
           NEW j \in Reviews, NEW x \in Job, review' = [review EXCEPT ![j] = x],
           x.at # "idle" => x.level \in Levels /\ runs[j] = NoRun /\ publish.run # j,
           Good(x.rows), \A r \in x.rows : Heir(r, Held),
           x.at = "merged" => Reported(x.rows, x.answer)
    PROVE  IInv'
  <1>1. /\ review' \in [Reviews -> Job]
        /\ \A i \in Reviews : review'[i] = IF i = j THEN x ELSE review[i]
    BY DEF IInv, Shape
  <1>2. Shape'
    <2>1. \A i \in Reviews : Running(i)' => review'[i].level \in Levels
      BY <1>1 DEF IInv, Shape, Running
    <2>. QED
      BY <1>1, <2>1 DEF IInv, Shape, Stored
  <1>3. Busy'
    BY <1>1 DEF IInv, Busy, Running
  <1>4. Held' \subseteq Held \union {x.rows}
    BY <1>1 DEF Held, Stored
  <1>5. Sound'
    <2>1. threads' = threads /\ threads \in Nat
      BY DEF IInv, Shape
    <2>2. threads' \in Nat /\ threads <= threads'
      BY <2>1
    <2>. QED
      BY <1>4, <2>2, StaysSound DEF IInv
  <1>6. Living'
    BY <1>1 DEF IInv, Living, Stored
  <1>. QED
    BY <1>2, <1>3, <1>5, <1>6 DEF IInv

LEMMA EndStep ==
    ASSUME IInv, UNCHANGED <<runs, order, publish, threads>>, NEW j \in Reviews, End(j)
    PROVE  IInv'
  <1>1. review' = [review EXCEPT ![j] = Idle]
    BY DEF End
  <1>2. Good(Idle.rows) /\ \A r \in Idle.rows : Heir(r, Held)
    BY IdleIs, EmptyIsGood
  <1>. QED
    BY <1>1, <1>2, IdleIs, ReviewStep

LEMMA BeginStep ==
    ASSUME IInv, NEW j \in Reviews, NEW level \in Levels, Begin(j, level)
    PROVE  IInv'
  <1>1. UNCHANGED <<runs, order, publish, threads>> /\ runs[j] = NoRun /\ publish.run # j
    BY DEF Begin, Free
  <1>2. CASE End(j)
    BY <1>1, <1>2, EndStep
  <1>3. CASE ~ End(j)
    <2>1. PICK changed \in SUBSET Keys :
             review' = [review EXCEPT ![j] = [Idle EXCEPT !.at = "asking", !.level = level,
                                                          !.examined = changed \union Anywhere]]
      BY <1>3 DEF Begin
    <2> DEFINE x == [Idle EXCEPT !.at = "asking", !.level = level,
                                 !.examined = changed \union Anywhere]
    <2>2. x \in Job /\ x.at = "asking" /\ x.level = level /\ x.rows = {}
      BY IdleIs, ReviewMemoryAssumption DEF Job
    <2> HIDE DEF x
    <2>3. Good(x.rows) /\ \A r \in x.rows : Heir(r, Held)
      BY <2>2, EmptyIsGood
    <2>4. review' = [review EXCEPT ![j] = x]
      BY <2>1 DEF x
    <2>. QED
      BY <1>1, <2>2, <2>3, <2>4, ReviewStep
  <1>. QED
    BY <1>2, <1>3

LEMMA MergedStep ==
    ASSUME IInv, UNCHANGED <<runs, order, publish, threads>>,
           NEW j \in Reviews, review[j].at = "asking", NEW answer \in Answers,
           NEW prev \in Reviews \union {NoRun}, NEW rows, Merged(j, answer, prev, rows),
           Good(rows), \A r \in rows : Heir(r, Held), Reported(rows, answer)
    PROVE  IInv'
  <1>1. review[j] \in Job /\ review \in [Reviews -> Job]
    BY DEF IInv, Shape
  <1>2. review[j].level \in Levels /\ runs[j] = NoRun /\ publish.run # j
    BY DEF IInv, Shape, Busy, Running
  <1> DEFINE x == [review[j] EXCEPT !.at = "merged", !.answer = answer,
                                    !.previous = prev, !.rows = rows]
  <1>3. review' = [review EXCEPT ![j] = x]
    BY DEF Merged
  <1>4. rows \in SUBSET Rows
    BY DEF Good, Lists
  <1>5. x \in Job
    BY <1>1, <1>4 DEF Job
  <1>6. x.level = review[j].level /\ x.rows = rows /\ x.answer = answer
    BY <1>1 DEF Job
  <1> HIDE DEF x
  <1>. QED
    BY <1>2, <1>3, <1>5, <1>6, ReviewStep

\* A review reads the last run that is stored, or none.
LEMMA ReadIs ==
    ASSUME Shape, NEW prev \in Read
    PROVE  prev = NoRun \/ (prev = Latest /\ prev \in Stored)
  <1>1. CASE order = << >>
    BY <1>1 DEF Read, Latest
  <1>2. CASE order # << >>
    <2>1. Len(order) \in DOMAIN order
      BY <1>2 DEF Shape
    <2>2. order[Len(order)] \in Stored
      BY <2>1 DEF Shape, ToSet
    <2>. QED
      BY <1>2, <2>2 DEF Read, Latest
  <1>. QED
    BY <1>1, <1>2

\* What an answer is reconciled with.
LEMMA PreviousRows ==
    ASSUME IInv, NEW prev \in Reviews \union {NoRun}, prev # NoRun => prev \in Stored,
           NEW rows, rows = IF prev = NoRun THEN {} ELSE runs[prev].rows
    PROVE  Good(rows) /\ \A r \in rows : Heir(r, Held)
  <1>1. CASE prev = NoRun
    BY <1>1, EmptyIsGood
  <1>2. CASE prev # NoRun
    <2>1. rows \in Held
      BY <1>2, HeldLists
    <2>2. Good(rows)
      BY <2>1 DEF IInv, Sound
    <2>. QED
      BY <2>1, <2>2 DEF Heir
  <1>. QED
    BY <1>1, <1>2

LEMMA ModelAnswersStep ==
    ASSUME IInv, NEW j \in Reviews, NEW answer \in Answers, ModelAnswers(j, answer)
    PROVE  IInv'
  <1>1. review[j].at = "asking" /\ UNCHANGED <<runs, order, publish, threads>>
    BY DEF ModelAnswers
  <1>2. CASE Merged(j, answer, NoRun, Parsed(answer))
    <2>1. \A r \in Parsed(answer) : r.id <= LastId
      BY <1>2 DEF Merged
    <2>2. /\ Good(Parsed(answer)) /\ Reported(Parsed(answer), answer)
          /\ \A r \in Parsed(answer) : Heir(r, Held)
      BY <2>1, ParsedIs DEF Heir
    <2>. QED
      BY <1>1, <1>2, <2>2, MergedStep
  <1>3. ASSUME NEW prev \in Read,
               Merged(j, answer, prev,
                      Reconcile(IF prev = NoRun THEN {} ELSE runs[prev].rows,
                                answer, review[j].examined, review[j].level))
        PROVE  IInv'
    <2> DEFINE before == IF prev = NoRun THEN {} ELSE runs[prev].rows
               rows   == Reconcile(before, answer, review[j].examined, review[j].level)
    <2>1. prev \in Reviews \union {NoRun} /\ (prev # NoRun => prev \in Stored)
      BY ReadIs DEF IInv, Stored
    <2>2. Good(before) /\ \A r \in before : Heir(r, Held)
      BY <2>1, PreviousRows
    <2>3. review[j].level \in Levels
      BY <1>1 DEF IInv, Shape, Running
    <2>4. Merged(j, answer, prev, rows)
      BY <1>3
    <2> HIDE DEF before
    <2>5. \A r \in rows : r.id <= LastId
      BY <2>4 DEF Merged
    <2>6. Good(rows) /\ Reported(rows, answer)
      BY <2>2, <2>3, <2>5, ReconcileIsGood, ReconcileReports
    <2>7. \A r \in rows :
             r.thread = NoThread \/ \E p \in before : r.id = p.id /\ r.key = p.key /\ r.thread = p.thread
      BY <2>2, <2>3, FreshOrOld
    <2> HIDE DEF rows
    <2>8. ASSUME NEW r \in rows
          PROVE  Heir(r, Held)
      <3>1. CASE r.thread = NoThread
        BY <3>1 DEF Heir
      <3>2. CASE r.thread # NoThread
        <4>1. PICK p \in before : r.id = p.id /\ r.key = p.key /\ r.thread = p.thread
          BY <2>7, <3>2
        <4>2. PICK others \in Held : \E q \in others : p.thread = q.thread /\ p.id = q.id /\ p.key = q.key
          BY <2>2, <3>2, <4>1 DEF Heir
        <4>. QED
          BY <4>1, <4>2 DEF Heir
      <3>. QED
        BY <3>1, <3>2
    <2>. QED
      BY <1>1, <2>1, <2>4, <2>6, <2>8, MergedStep
  <1>. QED
    BY <1>2, <1>3 DEF ModelAnswers

-----------------------------------------------------------------------------
(***************************************************************************)
(* A publish.                                                              *)
(***************************************************************************)

\* A step of the publish.
LEMMA PublishStep ==
    ASSUME IInv, UNCHANGED <<runs, order, review>>, threads' \in 0 .. MaxThreads, threads <= threads',
           NEW x \in [run : Reviews \union {NoRun}, rows : SUBSET Rows, todo : Seq(Keys)],
           publish' = x, \A j \in Reviews : Running(j) => x.run # j,
           Good(x.rows), \A r \in x.rows : Heir(r, Held) \/ Newcomer(r, x.rows, threads, threads'),
           Reported(x.rows, x.todo), x.run \in Stored => Reported(x.rows, runs[x.run].text)
    PROVE  IInv'
  <1>1. Shape'
    BY DEF IInv, Shape, Stored, Running
  <1>2. Busy'
    BY DEF IInv, Busy, Running
  <1>3. Held' \subseteq Held \union {x.rows}
    BY DEF Held, Stored
  <1>4. Sound'
    <2>1. threads' \in Nat
      BY ReviewMemoryAssumption
    <2>. QED
      BY <1>3, <2>1, StaysSound DEF IInv
  <1>5. Living'
    BY DEF IInv, Living, Stored
  <1>. QED
    BY <1>1, <1>2, <1>4, <1>5 DEF IInv

LEMMA StoredRun ==
    ASSUME IInv, NEW j \in Stored
    PROVE  /\ j \in Reviews /\ runs[j] # NoRun /\ runs[j] \in Run /\ runs[j].rows \in Held
           /\ Good(runs[j].rows) /\ Reported(runs[j].rows, runs[j].text) /\ ~ Running(j)
  <1>1. runs[j] \in Run
    BY DEF IInv, Shape, Stored
  <1>2. runs[j].rows \in Held
    BY HeldLists
  <1>. QED
    BY <1>1, <1>2 DEF IInv, Sound, Living, Busy, Stored

LEMMA PublishIs ==
    ASSUME IInv
    PROVE  /\ publish \in [run : Reviews \union {NoRun}, rows : SUBSET Rows, todo : Seq(Keys)]
           /\ Good(publish.rows) /\ \A r \in publish.rows : Heir(r, Held)
           /\ \A j \in Reviews : Running(j) => publish.run # j
           /\ Reported(publish.rows, publish.todo)
           /\ publish.run \in Stored => Reported(publish.rows, runs[publish.run].text)
           /\ threads \in 0 .. MaxThreads /\ threads <= threads
  <1>1. publish.rows \in Held
    BY HeldLists
  <1>2. threads <= threads
    BY ReviewMemoryAssumption DEF IInv, Shape
  <1>. QED
    BY <1>1, <1>2 DEF IInv, Sound, Shape, Busy, Living, Heir

LEMMA StartPublishStep ==
    ASSUME IInv, NEW j \in Reviews, StartPublish(j)
    PROVE  IInv'
  <1>1. j \in Stored /\ UNCHANGED <<runs, order, review, threads>>
    BY DEF StartPublish, Stored
  <1>2. /\ runs[j].rows \in Held /\ Good(runs[j].rows) /\ Reported(runs[j].rows, runs[j].text)
        /\ ~ Running(j) /\ runs[j] \in Run
    BY <1>1, StoredRun
  <1>3. runs[j].text \in Seq(Keys)
    BY <1>2, AnswerIsSequence DEF Run
  <1> DEFINE x == [run |-> j, rows |-> runs[j].rows, todo |-> runs[j].text]
  <1>4. publish' = x
    BY DEF StartPublish
  <1>5. x \in [run : Reviews \union {NoRun}, rows : SUBSET Rows, todo : Seq(Keys)]
    BY <1>2, <1>3 DEF Run
  <1>6. x.run = j /\ x.rows = runs[j].rows /\ x.todo = runs[j].text
    OBVIOUS
  <1> HIDE DEF x
  <1>7. \A r \in x.rows : Heir(r, Held)
    BY <1>2, <1>6 DEF Heir
  <1>8. threads' \in 0 .. MaxThreads /\ threads <= threads'
    BY <1>1, PublishIs
  <1>9. \A i \in Reviews : Running(i) => x.run # i
    BY <1>2, <1>6
  <1>. QED
    BY <1>1, <1>2, <1>4, <1>5, <1>6, <1>7, <1>8, <1>9, PublishStep

LEMMA PublishGoneStep ==
    ASSUME IInv, PublishGone
    PROVE  IInv'
  <1>1. UNCHANGED <<runs, order, review>> /\ publish' = publish
    BY DEF PublishGone
  <1>2. threads' \in 0 .. MaxThreads /\ threads <= threads'
    BY PublishIs, ReviewMemoryAssumption DEF PublishGone
  <1>. QED
    BY <1>1, <1>2, PublishIs, PublishStep

\* What is left of the items, and the row of an item sent with its own key.
LEMMA ItemIs ==
    ASSUME IInv, publish.todo # << >>
    PROVE  LET about == Head(publish.todo)
           IN /\ ForKey(publish.rows, about) # {} /\ ItemRow(about).estado # "resuelto"
              /\ Tail(publish.todo) \in Seq(Keys) /\ Reported(publish.rows, Tail(publish.todo))
  <1>1. /\ publish.todo \in Seq(Keys) /\ Reported(publish.rows, publish.todo)
        /\ publish.rows \in Lists
    BY PublishIs DEF Good
  <1> DEFINE todo == publish.todo
  <1>2. /\ 1 \in DOMAIN todo /\ Head(todo) = todo[1] /\ Tail(todo) \in Seq(Keys)
        /\ \A i \in DOMAIN Tail(todo) : i + 1 \in DOMAIN todo /\ Tail(todo)[i] = todo[i + 1]
    BY <1>1
  <1> HIDE DEF todo
  <1>3. Leads(publish.rows, Head(todo))
    BY <1>1, <1>2 DEF Reported, todo
  <1>4. ItemRow(Head(todo)).estado # "resuelto" /\ ForKey(publish.rows, Head(todo)) # {}
    <2>1. \E r \in publish.rows : r.key = Head(todo)
      BY <1>3 DEF Leads
    <2>2. ForKey(publish.rows, Head(todo)) # {}
      BY <2>1 DEF ForKey
    <2>3. First(ForKey(publish.rows, Head(todo))).estado # "resuelto"
      BY <1>1, <1>3, FirstLeads
    <2>. QED
      BY <2>2, <2>3 DEF ItemRow
  <1>5. Reported(publish.rows, Tail(todo))
    BY <1>1, <1>2 DEF Reported, todo
  <1>. QED
    BY <1>2, <1>4, <1>5 DEF todo

\* The row that an item finds is one of the publish's, whatever key it has.
LEMMA FoundIs ==
    ASSUME IInv, NEW key, ForKey(publish.rows, key) # {}
    PROVE  ItemRow(key) \in publish.rows
  <1>1. ForKey(publish.rows, key) \in SUBSET Rows /\ ForKey(publish.rows, key) \subseteq publish.rows
    BY PublishIs DEF ForKey
  <1>2. First(ForKey(publish.rows, key)) \in ForKey(publish.rows, key)
    BY <1>1, FirstIs
  <1>. QED
    BY <1>1, <1>2 DEF ItemRow

\* An item that leaves nothing to note.
LEMMA NextItem ==
    ASSUME IInv, publish.todo # << >>, publish' = [publish EXCEPT !.todo = Tail(@)],
           UNCHANGED <<runs, order, review>>, threads' \in 0 .. MaxThreads, threads <= threads'
    PROVE  IInv'
  <1> DEFINE x == [publish EXCEPT !.todo = Tail(@)]
  <1>1. Tail(publish.todo) \in Seq(Keys) /\ Reported(publish.rows, Tail(publish.todo))
    BY ItemIs
  <1>2. /\ x \in [run : Reviews \union {NoRun}, rows : SUBSET Rows, todo : Seq(Keys)]
        /\ x.run = publish.run /\ x.rows = publish.rows /\ x.todo = Tail(publish.todo)
    BY <1>1, PublishIs
  <1>3. publish' = x
    OBVIOUS
  <1> HIDE DEF x
  <1>. QED
    BY <1>1, <1>2, <1>3, PublishIs, PublishStep

LEMMA NextItemStep ==
    ASSUME IInv, publish.todo # << >>, (\E key : Reply(key)) \/ HostFails
    PROVE  IInv'
  <1>1. /\ UNCHANGED <<runs, order, review, threads>>
        /\ publish' = [publish EXCEPT !.todo = Tail(@)]
    BY DEF Reply, HostFails
  <1>2. threads' \in 0 .. MaxThreads /\ threads <= threads'
    BY <1>1, PublishIs
  <1>. QED
    BY <1>1, <1>2, NextItem

\* A conversation is opened: it is nobody's, or that of the row found, which may
\* be another finding's and resolved.
LEMMA OpenThreadStep ==
    ASSUME IInv, publish.todo # << >>, NEW key, OpenThread(key)
    PROVE  IInv'
  <1>1. /\ UNCHANGED <<runs, order, review>> /\ threads' = threads + 1 /\ threads < MaxThreads
        /\ ForKey(publish.rows, key) # {} => ItemRow(key).thread = NoThread
    BY DEF OpenThread
  <1>2. threads \in Nat /\ threads' \in 0 .. MaxThreads /\ threads <= threads'
    BY <1>1, PublishIs, ReviewMemoryAssumption
  <1>3. CASE ForKey(publish.rows, key) = {}
    <2>1. publish' = [publish EXCEPT !.todo = Tail(@)]
      <3>1. publish' = [publish EXCEPT !.todo = Tail(@), !.rows = @]
        BY <1>3 DEF OpenThread
      <3>. QED
        BY <3>1, PublishIs
    <2>. QED
      BY <1>1, <1>2, <2>1, NextItem
  <1>4. CASE ForKey(publish.rows, key) # {}
    <2> DEFINE r == ItemRow(key)
               s == Posted(r, threads + 1)
               rows == (publish.rows \ {r}) \union {s}
               x == [publish EXCEPT !.todo = Tail(@), !.rows = rows]
    <2>1. r \in publish.rows /\ r \in Rows /\ r.thread = NoThread
      BY <1>1, <1>4, FoundIs, PublishIs
    <2>2. Tail(publish.todo) \in Seq(Keys) /\ Reported(publish.rows, Tail(publish.todo))
      BY ItemIs
    <2>3. publish' = x
      BY <1>4 DEF OpenThread
    <2> HIDE DEF r
    <2>4. /\ s \in Rows /\ s.pos = r.pos /\ s.id = r.id /\ s.key = r.key
          /\ r.estado # "resuelto" => s.estado # "resuelto"
          /\ s.thread = threads'
      BY <1>1, <1>2, <2>1 DEF Posted, Rows, Estados
    <2> HIDE DEF s
    <2>5. Good(rows) /\ \A k : Leads(publish.rows, k) => Leads(rows, k)
      BY <2>1, <2>4, PublishIs, OneRowChanged
    <2>6. \A q \in rows : q = s \/ q \in publish.rows
      OBVIOUS
    <2> HIDE DEF rows
    <2>7. \A q \in publish.rows : q.thread <= threads /\ q.thread \in Nat
      BY PublishIs, HeldLists, ReviewMemoryAssumption DEF IInv, Sound, Talk, Good, Lists, Rows
    <2>8. Newcomer(s, rows, threads, threads')
      BY <1>1, <1>2, <2>4, <2>6, <2>7 DEF Newcomer
    <2>9. \A q \in rows : Heir(q, Held) \/ Newcomer(q, rows, threads, threads')
      BY <2>6, <2>8, PublishIs
    <2>10. /\ x \in [run : Reviews \union {NoRun}, rows : SUBSET Rows, todo : Seq(Keys)]
           /\ x.run = publish.run /\ x.rows = rows /\ x.todo = Tail(publish.todo)
      BY <2>2, <2>5, PublishIs DEF Good, Lists
    <2> HIDE DEF x
    <2>11. /\ Reported(x.rows, x.todo)
           /\ x.run \in Stored => Reported(x.rows, runs[x.run].text)
      BY <2>2, <2>5, <2>10, PublishIs DEF Reported
    <2>12. \A j \in Reviews : Running(j) => x.run # j
      BY <2>10, PublishIs
    <2>. QED
      BY <1>1, <1>2, <2>3, <2>5, <2>9, <2>10, <2>11, <2>12, PublishStep
  <1>. QED
    BY <1>3, <1>4

LEMMA NoBatchIs ==
    /\ NoBatch \in [run : Reviews \union {NoRun}, rows : SUBSET Rows, todo : Seq(Keys)]
    /\ NoBatch.run = NoRun /\ NoBatch.rows = {} /\ Reported(NoBatch.rows, NoBatch.todo)
    /\ NoRun \notin Reviews
  BY ReviewMemoryAssumption DEF NoBatch, Reported

LEMMA WriteFailsStep ==
    ASSUME IInv, WriteFails
    PROVE  IInv'
  <1>1. UNCHANGED <<runs, order, review, threads>> /\ publish' = NoBatch
    BY DEF WriteFails
  <1>2. threads' \in 0 .. MaxThreads /\ threads <= threads'
    BY <1>1, PublishIs
  <1>3. NoBatch.run \notin Stored /\ \A j \in Reviews : NoBatch.run # j
    BY NoBatchIs DEF Stored
  <1>4. Good(NoBatch.rows) /\ \A r \in NoBatch.rows : Heir(r, Held)
    BY NoBatchIs, EmptyIsGood
  <1>. QED
    BY <1>1, <1>2, <1>3, <1>4, NoBatchIs, PublishStep

-----------------------------------------------------------------------------
(***************************************************************************)
(* What is stored.                                                         *)
(***************************************************************************)

\* The findings column of a stored run is written.
LEMMA ColumnStep ==
    ASSUME IInv, NEW j \in Stored, NEW rows, runs' = [runs EXCEPT ![j] = [@ EXCEPT !.rows = rows]],
           UNCHANGED <<order, review, threads>>, publish' = publish \/ publish' = NoBatch,
           Good(rows), \A r \in rows : Heir(r, Held), Reported(rows, runs[j].text)
    PROVE  IInv'
  <1>1. /\ j \in Reviews /\ runs[j] \in Run /\ runs[j] # NoRun
        /\ runs \in [Reviews -> Run \union {NoRun}]
    BY StoredRun DEF IInv, Shape
  <1> DEFINE x == [runs[j] EXCEPT !.rows = rows]
  <1>2. x \in Run /\ x.rows = rows /\ x.text = runs[j].text /\ x # NoRun
    <2>1. rows \in SUBSET Rows
      BY DEF Good, Lists
    <2>2. x \in Run /\ x.rows = rows /\ x.text = runs[j].text
      BY <1>1, <2>1 DEF Run
    <2>. QED
      BY <2>2, ReviewMemoryAssumption
  <1>3. /\ runs' \in [Reviews -> Run \union {NoRun}]
        /\ \A i \in Reviews : runs'[i] = IF i = j THEN x ELSE runs[i]
    BY <1>1, <1>2
  <1> HIDE DEF x
  <1>4. Stored' = Stored
    BY <1>1, <1>2, <1>3 DEF Stored
  <1>5. /\ publish' \in [run : Reviews \union {NoRun}, rows : SUBSET Rows, todo : Seq(Keys)]
        /\ publish'.rows \in Held \union {{}}
        /\ Reported(publish'.rows, publish'.todo)
        /\ \A i \in Reviews : publish'.run = i => publish' = publish
    BY NoBatchIs, PublishIs, HeldLists
  <1>6. Shape'
    BY <1>3, <1>4, <1>5 DEF IInv, Shape, Running
  <1>7. Busy'
    <2>1. \A i \in Reviews : Running(i)' => Running(i) /\ i # j
      BY StoredRun DEF Running
    <2>. QED
      BY <1>3, <1>5, <2>1 DEF IInv, Busy
  <1>8. Held' \subseteq Held \union {{}} \union {rows}
    BY <1>2, <1>3, <1>4, <1>5 DEF Held, Stored
  <1>9. Sound'
    <2>1. /\ \A l \in Held \union {{}} : Good(l)
          /\ Talk(Held \union {{}}, threads) /\ threads \in Nat /\ threads <= threads
      <3>1. threads \in Nat /\ threads <= threads
        BY DEF IInv, Shape
      <3>. QED
        BY <3>1, EmptyIsGood, OneMoreList DEF IInv, Sound
    <2>2. \A r \in rows : Heir(r, Held \union {{}})
      BY DEF Heir
    <2>3. Talk(Held \union {{}} \union {rows}, threads)
      BY <2>1, <2>2, OneMoreList
    <2>4. Talk(Held', threads)
      BY <1>8, <2>3, FewerLists
    <2>5. \A l \in Held' : Good(l)
      BY <1>8, <2>1
    <2>. QED
      BY <2>4, <2>5 DEF Sound, Talk, Good
  <1>10. Living'
    <2>1. \A i \in Stored' : Reported(runs'[i].rows, runs'[i].text)
      BY <1>2, <1>3, <1>4 DEF IInv, Living, Stored
    <2>2. \A i \in Stored : runs'[i].text = runs[i].text
      BY <1>2, <1>3 DEF Stored
    <2>3. publish'.run \in Stored => Reported(publish'.rows, runs'[publish'.run].text)
      BY <1>5, <2>2, PublishIs DEF Stored
    <2>. QED
      BY <1>4, <1>5, <2>1, <2>3 DEF IInv, Living
  <1>. QED
    BY <1>6, <1>7, <1>9, <1>10 DEF IInv

LEMMA EndPublishStep ==
    ASSUME IInv, EndPublish
    PROVE  IInv'
  <1>1. /\ publish.run # NoRun /\ publish' = NoBatch
        /\ UNCHANGED <<order, review, threads>>
    BY DEF EndPublish
  <1>2. CASE runs[publish.run] = NoRun
    <2>1. UNCHANGED runs
      BY <1>2 DEF EndPublish
    <2>2. threads' \in 0 .. MaxThreads /\ threads <= threads'
      BY <1>1, PublishIs
    <2>3. NoBatch.run \notin Stored /\ \A j \in Reviews : NoBatch.run # j
      BY NoBatchIs DEF Stored
    <2>4. Good(NoBatch.rows) /\ \A r \in NoBatch.rows : Heir(r, Held)
      BY NoBatchIs, EmptyIsGood
    <2>. QED
      BY <1>1, <2>1, <2>2, <2>3, <2>4, NoBatchIs, PublishStep
  <1>3. CASE runs[publish.run] # NoRun
    <2>1. publish.run \in Stored
      BY <1>1, <1>3, PublishIs DEF Stored
    <2>2. runs' = [runs EXCEPT ![publish.run] = [@ EXCEPT !.rows = publish.rows]]
      BY <1>3 DEF EndPublish
    <2>. QED
      BY <1>1, <2>1, <2>2, PublishIs, ColumnStep
  <1>. QED
    BY <1>2, <1>3

LEMMA MarkStep ==
    ASSUME IInv, NEW j \in Stored, NEW shown \in runs[j].rows, MarkFinding(j, shown)
    PROVE  IInv'
  <1> DEFINE rows == runs[j].rows
             same == WithId(rows, shown.id)
             r == First(same)
  <1>1. /\ rows \in Held /\ Good(rows) /\ Reported(rows, runs[j].text)
        /\ rows \in SUBSET Rows
    BY StoredRun DEF Good, Lists
  <1>2. same \in SUBSET Rows /\ same # {} /\ same \subseteq rows
    BY <1>1 DEF WithId
  <1>3. r \in same
    BY <1>2, FirstIs
  <1> HIDE DEF same
  <1>4. PICK estado \in Marks(shown) :
          runs' = [runs EXCEPT ![j].rows = (@ \ {r}) \union {[r EXCEPT !.estado = estado]}]
    BY DEF MarkFinding, same
  <1>5. estado \in {"descartado", "abierto"}
    BY DEF Marks, Dismissed
  <1> DEFINE s == [r EXCEPT !.estado = estado]
             new == (rows \ {r}) \union {s}
  <1>6. r \in rows /\ r \in Rows
    BY <1>2, <1>3
  <1>7. /\ s \in Rows /\ s.pos = r.pos /\ s.id = r.id /\ s.key = r.key /\ s.thread = r.thread
        /\ s.estado # "resuelto"
    BY <1>5, <1>6 DEF Rows, Estados
  <1> HIDE DEF r, s
  <1>8. Good(new) /\ \A k : Leads(rows, k) => Leads(new, k)
    BY <1>1, <1>6, <1>7, OneRowChanged
  <1>9. Reported(new, runs[j].text)
    BY <1>1, <1>8 DEF Reported
  <1>10. \A q \in new : Heir(q, Held)
    BY <1>1, <1>6, <1>7 DEF Heir
  <1>11. runs' = [runs EXCEPT ![j] = [@ EXCEPT !.rows = new]]
    BY <1>4 DEF s
  <1>12. UNCHANGED <<order, review, publish, threads>>
    BY DEF MarkFinding
  <1> HIDE DEF new
  <1>. QED
    BY <1>8, <1>9, <1>10, <1>11, <1>12, ColumnStep

LEMMA FileStep ==
    ASSUME IInv, NEW j \in Reviews, File(j)
    PROVE  IInv'
  <1>1. /\ review[j].at = "merged" /\ review' = [review EXCEPT ![j] = Idle]
        /\ order' = Append(order, j) /\ UNCHANGED <<publish, threads>>
    BY DEF File, End
  <1>2. /\ runs[j] = NoRun /\ publish.run # j /\ review[j] \in Job /\ review[j].level \in Levels
        /\ Reported(review[j].rows, review[j].answer)
    BY <1>1 DEF IInv, Shape, Busy, Running, Living
  <1>3. PICK commit \in Commits \union {Unknown} :
          runs' = [runs EXCEPT ![j] = [head |-> commit, level |-> review[j].level,
                                       text |-> review[j].answer, rows |-> review[j].rows]]
    BY DEF File
  <1> DEFINE x == [head |-> commit, level |-> review[j].level,
                   text |-> review[j].answer, rows |-> review[j].rows]
  <1>4. x \in Run /\ x # NoRun /\ x.rows = review[j].rows /\ x.text = review[j].answer
    BY <1>2, ReviewMemoryAssumption DEF Job, Run
  <1>5. runs' = [runs EXCEPT ![j] = x]
    BY <1>3
  <1> HIDE DEF x
  <1>6. /\ runs' \in [Reviews -> Run \union {NoRun}] /\ review' \in [Reviews -> Job]
        /\ \A i \in Reviews : runs'[i] = IF i = j THEN x ELSE runs[i]
        /\ \A i \in Reviews : review'[i] = IF i = j THEN Idle ELSE review[i]
    BY <1>1, <1>4, <1>5, IdleIs DEF IInv, Shape
  <1>7. Stored' = Stored \union {j} /\ j \notin Stored
    BY <1>2, <1>4, <1>6 DEF Stored
  <1>8. order' \in Seq(Reviews) /\ Apart(order') /\ ToSet(order') = Stored'
    <2>1. order \in Seq(Reviews) /\ Apart(order) /\ ToSet(order) = Stored
      BY DEF IInv, Shape
    <2>2. j \notin ToSet(order)
      BY <1>7, <2>1
    <2>. QED
      BY <1>1, <1>7, <2>1, <2>2, AppendElements
  <1>9. Shape'
    BY <1>1, <1>6, <1>8, IdleIs DEF IInv, Shape, Running
  <1>10. Busy'
    BY <1>1, <1>6, IdleIs DEF IInv, Busy, Running
  <1>11. Held' \subseteq Held \union {{}}
    BY <1>1, <1>4, <1>6, IdleIs DEF Held, Stored
  <1>12. Sound'
    <2>1. threads' \in Nat /\ threads <= threads'
      BY <1>1 DEF IInv, Shape
    <2>. QED
      BY <1>11, <2>1, NoNewList DEF IInv
  <1>13. Living'
    <2>1. \A i \in Stored' : Reported(runs'[i].rows, runs'[i].text)
      BY <1>2, <1>4, <1>6, <1>7 DEF IInv, Living, Stored
    <2>2. \A i \in Reviews : review'[i].at = "merged" => Reported(review'[i].rows, review'[i].answer)
      BY <1>6, IdleIs DEF IInv, Living
    <2>3. publish.run \in Stored' => publish.run \in Stored /\ runs'[publish.run] = runs[publish.run]
      BY <1>2, <1>6, <1>7 DEF Stored
    <2>4. /\ Reported(publish.rows, publish.todo)
          /\ publish.run \in Stored' => Reported(publish.rows, runs'[publish.run].text)
      BY <2>3, PublishIs
    <2>. QED
      BY <1>1, <2>1, <2>2, <2>4 DEF Living
  <1>. QED
    BY <1>9, <1>10, <1>12, <1>13 DEF IInv

\* Runs are deleted.
LEMMA FewerRunsStep ==
    ASSUME IInv, UNCHANGED <<review, publish, threads>>,
           NEW gone, runs' = [j \in Reviews |-> IF j \in gone THEN NoRun ELSE runs[j]],
           order' \in Seq(Reviews), Apart(order'), ToSet(order') = ToSet(order) \ gone
    PROVE  IInv'
  <1>1. /\ runs' \in [Reviews -> Run \union {NoRun}]
        /\ \A i \in Reviews : runs'[i] = IF i \in gone THEN NoRun ELSE runs[i]
    BY DEF IInv, Shape
  <1>2. Stored' = Stored \ gone
    BY <1>1 DEF Stored
  <1>3. \A i \in Stored' : i \in Stored /\ runs'[i] = runs[i]
    BY <1>1, <1>2 DEF Stored
  <1>4. Shape'
    BY <1>1, <1>2 DEF IInv, Shape, Running
  <1>5. Busy'
    BY <1>1 DEF IInv, Busy, Running
  <1>6. Held' \subseteq Held \union {{}}
    BY <1>3 DEF Held
  <1>7. Sound'
    <2>1. threads' \in Nat /\ threads <= threads'
      BY DEF IInv, Shape
    <2>. QED
      BY <1>6, <2>1, NoNewList DEF IInv
  <1>8. Living'
    BY <1>3 DEF IInv, Living
  <1>. QED
    BY <1>4, <1>5, <1>7, <1>8 DEF IInv

LEMMA DeleteRunStep ==
    ASSUME IInv, NEW j \in Reviews, DeleteRun(j)
    PROVE  IInv'
  <1>1. PICK i \in DOMAIN order : order[i] = j /\ order' = RemoveAt(order, i)
    BY DEF DeleteRun
  <1>2. order \in Seq(Reviews) /\ Apart(order) /\ i \in 1 .. Len(order)
    BY DEF IInv, Shape
  <1>3. order' \in Seq(Reviews) /\ Apart(order') /\ ToSet(order') = ToSet(order) \ {j}
    BY <1>1, <1>2, RemoveAtPlaces, RemoveAtElements
  <1>4. runs' = [k \in Reviews |-> IF k \in {j} THEN NoRun ELSE runs[k]]
    BY DEF DeleteRun, IInv, Shape
  <1>. QED
    BY <1>3, <1>4, FewerRunsStep DEF DeleteRun

LEMMA DeleteRunsForPRStep ==
    ASSUME IInv, DeleteRunsForPR
    PROVE  IInv'
  <1>1. order' \in Seq(Reviews) /\ Apart(order') /\ ToSet(order') = ToSet(order) \ Reviews
    BY DEF DeleteRunsForPR, IInv, Shape, Apart, ToSet, Stored
  <1>2. runs' = [k \in Reviews |-> IF k \in Reviews THEN NoRun ELSE runs[k]]
    BY DEF DeleteRunsForPR
  <1>. QED
    BY <1>1, <1>2, FewerRunsStep DEF DeleteRunsForPR

LEMMA CrashStep ==
    ASSUME IInv, Crash
    PROVE  IInv'
  <1>1. /\ review' = [j \in Reviews |-> Idle] /\ publish' = NoBatch
        /\ UNCHANGED <<runs, order, threads>>
    BY DEF Crash
  <1>2. Shape'
    BY <1>1, IdleIs, NoBatchIs DEF IInv, Shape, Stored, Running
  <1>3. Busy'
    BY <1>1, IdleIs DEF Busy, Running
  <1>4. Held' \subseteq Held \union {{}}
    BY <1>1, IdleIs, NoBatchIs DEF Held, Stored
  <1>5. Sound'
    <2>1. threads' \in Nat /\ threads <= threads'
      BY <1>1 DEF IInv, Shape
    <2>. QED
      BY <1>4, <2>1, NoNewList DEF IInv
  <1>6. Living'
    BY <1>1, IdleIs, NoBatchIs DEF IInv, Living, Stored
  <1>. QED
    BY <1>2, <1>3, <1>5, <1>6 DEF IInv

-----------------------------------------------------------------------------
(***************************************************************************)
(* The theorems.                                                           *)
(***************************************************************************)

LEMMA InitIInv == Init => IInv
  <1> SUFFICES ASSUME Init PROVE IInv
    OBVIOUS
  <1>1. /\ Stored = {} /\ publish = NoBatch /\ threads = 0 /\ order = << >>
        /\ \A j \in Reviews : review[j] = Idle /\ runs[j] = NoRun
        /\ runs \in [Reviews -> Run \union {NoRun}] /\ review \in [Reviews -> Job]
    BY IdleIs DEF Init, Stored
  <1>2. Shape
    BY <1>1, IdleIs, NoBatchIs, ReviewMemoryAssumption DEF Shape, Running, Apart, ToSet
  <1>3. Busy
    BY <1>1, IdleIs DEF Busy, Running
  <1>4. \A rows \in Held : rows = {}
    BY <1>1, IdleIs, NoBatchIs DEF Held
  <1>5. Sound
    BY <1>4, EmptyIsGood DEF Sound, Talk
  <1>6. Living
    BY <1>1, IdleIs, NoBatchIs DEF Living
  <1>. QED
    BY <1>2, <1>3, <1>5, <1>6 DEF IInv

LEMMA Step == IInv /\ [Next]_vars => IInv'
  <1> SUFFICES ASSUME IInv, [Next]_vars PROVE IInv'
    OBVIOUS
  <1>1. CASE UNCHANGED vars
    BY <1>1 DEF vars, IInv, Shape, Busy, Sound, Living, Held, Stored, Running, Talk, Good, Reported, Leads, Related
  <1>2. ASSUME NEW j \in Reviews, Review(j)
        PROVE  IInv'
    <2>1. CASE \E level \in Levels : Begin(j, level)
      BY <2>1, BeginStep
    <2>2. CASE ModelFails(j) \/ FileFails(j)
      BY <2>2, EndStep DEF ModelFails, FileFails
    <2>3. CASE \E answer \in Answers : ModelAnswers(j, answer)
      BY <2>3, ModelAnswersStep
    <2>4. CASE File(j)
      BY <2>4, FileStep
    <2>. QED
      BY <1>2, <2>1, <2>2, <2>3, <2>4 DEF Review
  <1>3. CASE Publish
    <2>1. CASE PostItem
      BY <2>1, OpenThreadStep, NextItemStep DEF PostItem
    <2>2. CASE HostFails
      BY <2>2, NextItemStep DEF HostFails
    <2>. QED
      BY <1>3, <2>1, <2>2, StartPublishStep, PublishGoneStep, EndPublishStep, WriteFailsStep
         DEF Publish
  <1>4. CASE User
    <2>1. \A i \in {i \in Reviews : runs[i] # NoRun} : i \in Stored
      BY DEF Stored
    <2>. QED
      BY <1>4, <2>1, DeleteRunStep, MarkStep, DeleteRunsForPRStep DEF User
  <1>5. CASE Crash
    BY <1>5, CrashStep
  <1>. QED
    BY <1>1, <1>2, <1>3, <1>4, <1>5 DEF Next

\* The inductive invariant holds, whatever reviews, publishes, marks, deletions,
\* failures and crashes there are (run.go, reconcile.go, posting.go, store.go).
THEOREM Invariance == Spec => []IInv
  BY InitIInv, Step, PTL DEF Spec

\* Every list of findings is one, wherever reviews, publishes and marks leave
\* it, and the order names the stored runs (Reconcile, PublishFindings,
\* MarkFinding).
THEOREM ListsStayLists == Spec => []TypeOK
  <1>1. IInv => TypeOK
    <2> SUFFICES ASSUME IInv PROVE TypeOK
      OBVIOUS
    <2>1. \A j \in Reviews : runs[j] # NoRun => runs[j] \in Run /\ runs[j].rows \in Lists
      BY StoredRun DEF Stored, Good
    <2>2. \A j \in Reviews : review[j].rows \in Lists
      BY HeldLists DEF IInv, Sound, Good
    <2>3. publish.run \in Reviews \union {NoRun} /\ publish.rows \in Lists
      BY PublishIs DEF Good
    <2>. QED
      BY <2>1, <2>2, <2>3 DEF TypeOK, IInv, Shape, Stored
  <1>. QED
    BY <1>1, Invariance, PTL

\* A conversation on the host is noted for one finding, in every run that is
\* stored, though an item may be taken for another finding's row or for none
\* (Reconcile, PublishFindings).
THEOREM ThreadsStaySingle == Spec => []OneThreadOneRow
  <1>1. IInv => OneThreadOneRow
    BY HeldLists DEF IInv, Sound, Talk, Related, OneThreadOneRow
  <1>. QED
    BY <1>1, Invariance, PTL

\* An item sent with its finding's own key finds its row, and never a resolved
\* one, whatever other items were taken for (indexOf, applyPostOutcome).
THEOREM PublishesTheLiving == Spec => []AddressesTheLiving
  <1>1. IInv => AddressesTheLiving
    BY ItemIs DEF AddressesTheLiving
  <1>. QED
    BY <1>1, Invariance, PTL

\* The step that reconciles an answer with a stored run.
LEMMA MergingIs ==
    ASSUME IInv, [Next]_vars, NEW j \in Reviews, Merging(j)
    PROVE  /\ Good(Before(j)) /\ review[j].level \in Levels
           /\ \E answer \in Answers :
                /\ review'[j].answer = answer
                /\ After(j) = Reconcile(Before(j), answer, review[j].examined, review[j].level)
  <1>1. /\ review[j].at = "asking" /\ review'[j].at = "merged" /\ review'[j].previous # NoRun
        /\ review \in [Reviews -> Job] /\ review[j].level \in Levels
    BY DEF Merging, IInv, Shape, Running
  <1>2. review' # review
    BY <1>1
  <1>3. review' # [review EXCEPT ![j] = Idle]
    BY <1>1, IdleIs
  <1>4. ~ Publish /\ ~ User /\ ~ Crash /\ ~ UNCHANGED vars
    <2>1. ~ Publish
      BY <1>2 DEF Publish, StartPublish, PublishGone, PostItem, OpenThread, Reply, HostFails,
         EndPublish, WriteFails
    <2>2. ~ User
      BY <1>2 DEF User, DeleteRun, MarkFinding, DeleteRunsForPR
    <2>3. ~ Crash
      BY <1>1, IdleIs DEF Crash
    <2>4. ~ UNCHANGED vars
      BY <1>2 DEF vars
    <2>. QED
      BY <2>1, <2>2, <2>3, <2>4
  <1>5. PICK i \in Reviews : Review(i)
    BY <1>4 DEF Next
  <1>6. ASSUME NEW x, review' = [review EXCEPT ![i] = x]
        PROVE  i = j
    BY <1>1, <1>6
  <1>7. \A k \in Reviews : ~ (End(k) /\ k = j) /\ (End(k) => k = j)
    BY <1>1, IdleIs DEF End
  <1>8. ~ ModelFails(i) /\ ~ FileFails(i) /\ ~ File(i)
    BY <1>7 DEF ModelFails, FileFails, File
  <1>9. \A level \in Levels : ~ Begin(i, level)
    <2> SUFFICES ASSUME NEW level \in Levels, Begin(i, level) PROVE FALSE
      OBVIOUS
    <2>1. review[i].at = "idle"
      BY DEF Begin, Free, Running
    <2>2. i # j
      BY <1>1, <2>1
    <2>. QED
      BY <1>6, <1>7, <2>2 DEF Begin
  <1>10. PICK answer \in Answers : ModelAnswers(i, answer)
    BY <1>5, <1>8, <1>9 DEF Review
  <1>11. \A prev, rows : Merged(i, answer, prev, rows) =>
            i = j /\ review'[j].answer = answer /\ review'[j].previous = prev /\ review'[j].rows = rows
    <2> SUFFICES ASSUME NEW prev, NEW rows, Merged(i, answer, prev, rows)
                 PROVE  i = j /\ review'[j].answer = answer /\ review'[j].previous = prev /\ review'[j].rows = rows
      OBVIOUS
    <2>1. i = j
      BY <1>6 DEF Merged
    <2>2. review'[j] = [review[j] EXCEPT !.at = "merged", !.answer = answer,
                                         !.previous = prev, !.rows = rows]
      BY <1>1, <2>1 DEF Merged
    <2>. QED
      BY <1>1, <2>1, <2>2 DEF Job
  <1>12. PICK prev \in Read :
            Merged(i, answer, prev,
                   Reconcile(IF prev = NoRun THEN {} ELSE runs[prev].rows,
                             answer, review[i].examined, review[i].level))
    BY <1>1, <1>10, <1>11 DEF ModelAnswers
  <1>13. /\ i = j /\ prev = review'[j].previous /\ prev # NoRun /\ review'[j].answer = answer
         /\ After(j) = Reconcile(Before(j), answer, review[j].examined, review[j].level)
    BY <1>1, <1>11, <1>12 DEF After, Before
  <1>14. prev \in Stored
    BY <1>13, ReadIs DEF IInv
  <1>15. Good(Before(j))
    BY <1>13, <1>14, StoredRun DEF Before
  <1>. QED
    BY <1>1, <1>13, <1>15

\* An id keeps its finding from one run to the next, whichever overlap, fail or
\* die in between (nextID).
THEOREM IdsStay == Spec => IdsKeepTheirFinding
  <1> DEFINE Keep == \A j \in Reviews : Merging(j) =>
                       \A r, q \in Before(j) \cup After(j) : r.id = q.id => r.key = q.key
  <1>1. ASSUME IInv, [Next]_vars, NEW j \in Reviews, Merging(j),
               NEW r \in Before(j) \union After(j), NEW q \in Before(j) \union After(j), r.id = q.id
        PROVE  r.key = q.key
    <2>1. /\ Good(Before(j)) /\ review[j].level \in Levels
          /\ \E answer \in Answers :
               After(j) = Reconcile(Before(j), answer, review[j].examined, review[j].level)
      BY <1>1, MergingIs
    <2> DEFINE before == Before(j)
               after  == After(j)
    <2>2. PICK answer \in Answers :
             after = Reconcile(before, answer, review[j].examined, review[j].level)
      BY <2>1
    <2>3. Good(before)
      BY <2>1
    <2>4. r \in before \union after /\ q \in before \union after
      BY <1>1
    <2> HIDE DEF before, after
    <2>5. \A s, t \in before : s.id = t.id => s.key = t.key
      BY <2>3 DEF Good
    <2>6. \A s, t \in after : s.id = t.id => s.key = t.key
      BY <2>1, <2>2, <2>3, ReconcileSorts
    <2>7. \A s \in after, t \in before : s.id = t.id => s.key = t.key
      <3> TAKE s \in after, t \in before
      <3> HAVE s.id = t.id
      <3>1. \/ s.thread = NoThread /\ \A o \in before : o.id < s.id
            \/ \E p \in before : s.id = p.id /\ s.key = p.key /\ s.thread = p.thread
        BY <2>1, <2>2, <2>3, FreshOrOld
      <3>2. ~ (t.id < s.id)
        BY <2>3 DEF Good, Lists, Rows
      <3>. QED
        BY <2>5, <3>1, <3>2
    <2>. QED
      BY <1>1, <2>4, <2>5, <2>6, <2>7
  <1>2. IInv /\ [Next]_vars => [Keep]_vars
    BY <1>1
  <1>. QED
    BY <1>2, Invariance, PTL DEF Spec, IdsKeepTheirFinding

\* A finding is declared fixed only when its file was examined and the answer
\* is silent about it (fileWasExamined).
THEOREM SilenceStaysNoFix == Spec => SilenceIsNoFix
  <1> DEFINE Examined == \A j \in Reviews : Merging(j) =>
                           \A r \in Fixed(j) :
                              /\ r.key \in review[j].examined
                              /\ \A i \in DOMAIN review'[j].answer : review'[j].answer[i] # r.key
  <1>1. ASSUME IInv, [Next]_vars, NEW j \in Reviews, Merging(j), NEW r \in Fixed(j)
        PROVE  /\ r.key \in review[j].examined
               /\ \A i \in DOMAIN review'[j].answer : review'[j].answer[i] # r.key
    <2> DEFINE before == Before(j)
    <2>1. PICK answer \in Answers :
             /\ review'[j].answer = answer
             /\ After(j) = Reconcile(before, answer, review[j].examined, review[j].level)
      BY <1>1, MergingIs
    <2>2. Good(before) /\ review[j].level \in Levels
      BY <1>1, MergingIs
    <2>3. /\ r \in After(j) /\ r.estado = "resuelto"
          /\ \E q \in ForKey(before, r.key) :
                q = First(ForKey(before, r.key)) /\ q.id = r.id /\ Active(q)
      BY DEF Fixed
    <2> HIDE DEF before
    <2>4. PICK q \in ForKey(before, r.key) :
             q = First(ForKey(before, r.key)) /\ q.id = r.id /\ Active(q)
      BY <2>3
    <2>5. q \in before /\ q.key = r.key
      BY DEF ForKey
    <2>. QED
      BY <2>1, <2>2, <2>3, <2>4, <2>5, FixedWasExamined
  <1>2. IInv /\ [Next]_vars => [Examined]_vars
    BY <1>1
  <1>. QED
    BY <1>2, Invariance, PTL DEF Spec, SilenceIsNoFix

\* A review never takes a dismissal back (Reconcile).
THEOREM DismissedStays == Spec => AnsweredIsLeftAlone
  <1> DEFINE Left == \A j \in Reviews : Merging(j) =>
                       \A r \in Before(j), q \in After(j) :
                          (/\ r.id = q.id /\ r.estado = Dismissed
                           /\ \A p \in WithId(Before(j), r.id) : r.pos <= p.pos)
                          => q.estado = Dismissed
  <1>1. ASSUME IInv, [Next]_vars, NEW j \in Reviews, Merging(j),
               NEW r \in Before(j), NEW q \in After(j), r.id = q.id, r.estado = Dismissed,
               \A p \in WithId(Before(j), r.id) : r.pos <= p.pos
        PROVE  q.estado = Dismissed
    <2> DEFINE before == Before(j)
    <2>1. PICK answer \in Answers :
             After(j) = Reconcile(before, answer, review[j].examined, review[j].level)
      BY <1>1, MergingIs
    <2>2. Good(before) /\ review[j].level \in Levels
      BY <1>1, MergingIs
    <2>3. r \in before /\ \A p \in before : p.id = r.id => r.pos <= p.pos
      BY <1>1 DEF WithId
    <2> HIDE DEF before
    <2>. QED
      BY <1>1, <2>1, <2>2, <2>3, DismissedIsKept
  <1>2. IInv /\ [Next]_vars => [Left]_vars
    BY <1>1
  <1>. QED
    BY <1>2, Invariance, PTL DEF Spec, AnsweredIsLeftAlone
=============================================================================
