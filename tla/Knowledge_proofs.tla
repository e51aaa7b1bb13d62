-------------------------- MODULE Knowledge_proofs --------------------------
(***************************************************************************)
(* What the knowledge services compute, for every input: what rules derive, *)
(* what may be said of a functional key, which path is found, and what fits *)
(* in the budget of a recall.                                              *)
(***************************************************************************)
EXTENDS Datalog, Validity, GraphPath, Recall,
        SequenceTheorems, FiniteSetTheorems, WellFoundedInduction, TLAPS

(***************************************************************************)
(* Induction, without an operator to instantiate.                          *)
(***************************************************************************)
\* A set of naturals has a least one.
LEMMA LeastNatural ==
  ASSUME NEW S, S \subseteq Nat, S # {}
  PROVE  \E t \in S : \A u \in S : t <= u
<1> DEFINE Under == {ss \in Nat \X Nat : ss[1] < ss[2]}
<1>1. IsWellFoundedOn(Under, Nat)
  BY NatLessThanWellFounded DEF OpToRel
<1>2. PICK t \in S : \A u \in S : ~(<<u, t>> \in Under)
  <2> HIDE DEF Under
  <2> QED
    BY <1>1, WFMin
<1>3. ASSUME NEW u \in S
      PROVE  t <= u
  <2>1. ~(u < t)
    BY <1>2, Zenon
  <2> QED
    BY <2>1
<1> QED
  BY <1>3

\* What holds of a finite set if it holds of every smaller part of it, holds of it.
LEMMA SubsetInduction ==
  ASSUME NEW S, IsFiniteSet(S), NEW C,
         \A s \in SUBSET S : (\A t \in SUBSET s : t # s => t \in C) => s \in C
  PROVE  SUBSET S \subseteq C
<1> DEFINE Bad == {n \in Nat : \E s \in SUBSET S : s \notin C /\ Cardinality(s) = n}
<1>1. ASSUME NEW s \in SUBSET S, s \notin C
      PROVE  FALSE
  <2>1. Cardinality(s) \in Bad
    BY <1>1, FS_Subset, FS_CardinalityType
  <2>2. PICK n \in Bad : \A m \in Bad : n <= m
    <3> HIDE DEF Bad
    <3>1. Bad \subseteq Nat
      BY DEF Bad
    <3> QED
      BY <2>1, <3>1, LeastNatural
  <2>3. PICK u \in SUBSET S : u \notin C /\ Cardinality(u) = n
    BY <2>2
  <2>4. ASSUME NEW t \in SUBSET u, t # u
        PROVE  t \in C
    <3>1. IsFiniteSet(u) /\ t \in SUBSET S
      BY <2>3, FS_Subset
    <3>2. IsFiniteSet(t) /\ Cardinality(t) \in Nat /\ Cardinality(t) <= n /\ Cardinality(t) # n
      BY <2>3, <2>4, <3>1, FS_Subset, FS_CardinalityType
    <3>3. Cardinality(t) \notin Bad
      <4>1. ~(n <= Cardinality(t))
        BY <2>2, <3>2
      <4> HIDE DEF Bad
      <4> QED
        BY <2>2, <4>1
    <3> QED
      BY <3>1, <3>2, <3>3
  <2> QED
    BY <2>3, <2>4
<1> QED
  BY <1>1

-----------------------------------------------------------------------------
(***************************************************************************)
(* What evaluateDatalog derives, for every finite set of tuples, every list *)
(* of rules and every limit on passes.                                     *)
(***************************************************************************)
New == known \ program.facts

\* Typing, and that only heads of rules are new.
DatalogShape ==
  /\ program.facts \subseteq Tuples
  /\ program.rules \in Seq(Rule)
  /\ program.facts \subseteq known /\ known \subseteq Tuples
  /\ New \subseteq Derivable
  /\ pass \in Nat
  /\ changed \in BOOLEAN
  /\ turn \in 1..(Len(Rules) + 1)

\* Whatever is known follows.
Sound == \A S \in SUBSET Tuples : program.facts \subseteq S /\ Closed(S) => known \subseteq S

\* Each pass but the present one derived a tuple, and so did the present
\* one if it changed anything; before the first, changed is TRUE.
Counted == pass + (IF changed THEN 1 ELSE 0) <= Cardinality(New) + 1

\* A pass that has changed nothing leaves behind no rule that would.
Settled ==
  ~changed => \A i \in 1..(turn - 1) : Rules[i].body \subseteq known => Rules[i].head \in known

DatalogInv == DatalogShape /\ Sound /\ Counted /\ Settled

\* What is new is finite, since tuples are.
LEMMA NewIsFinite ==
  ASSUME DatalogShape
  PROVE  IsFiniteSet(New) /\ Cardinality(New) \in Nat
<1>1. New \in SUBSET Tuples
  BY DEF DatalogShape, New
<1> QED
  BY <1>1, DatalogConstants, FS_Subset, FS_CardinalityType

LEMMA DatalogInitially == DatalogInit => DatalogInv
<1> SUFFICES ASSUME DatalogInit PROVE DatalogInv
  OBVIOUS
<1>1. /\ program \in [facts : SUBSET Tuples, rules : Seq(Rule)]
      /\ known = program.facts /\ New = {} /\ pass = 0 /\ changed = TRUE
      /\ turn = Len(program.rules) + 1
  BY DatalogConstants DEF DatalogInit, DatalogStart, New
<1>2. Len(program.rules) \in Nat
  BY <1>1
<1>3. DatalogShape
  BY <1>1, <1>2 DEF DatalogShape, Rules
<1>4. Sound
  BY <1>1 DEF Sound
<1>5. Cardinality(New) = 0
  BY <1>1, FS_EmptySet
<1> QED
  BY <1>1, <1>3, <1>4, <1>5 DEF DatalogInv, Counted, Settled

\* A step leaves the arguments alone and knows no less.
LEMMA DatalogSteps ==
  ASSUME DatalogInv, DatalogNext
  PROVE  DatalogInv'
<1> USE DEF DatalogInv
<1>1. CASE BeginPass
  <2>1. /\ PassOver /\ changed /\ changed' = FALSE /\ pass' = pass + 1 /\ turn' = 1
        /\ UNCHANGED <<program, known, derived>>
    BY <1>1 DEF BeginPass, GoesOn
  <2>2. New' = New
    BY <2>1 DEF New
  <2>3. DatalogShape'
    <3>1. Len(Rules) \in Nat /\ Rules' = Rules
      BY <2>1 DEF DatalogShape, Rules
    <3>2. Derivable' = Derivable
      BY <2>1, <3>1 DEF Derivable
    <3>3. turn' \in 1..(Len(Rules)' + 1) /\ New' \subseteq Derivable'
      BY <2>1, <2>2, <3>1, <3>2 DEF DatalogShape
    <3>4. pass' \in Nat
      BY <2>1 DEF DatalogShape
    <3>5. changed' \in BOOLEAN
      BY <2>1
    <3> QED
      BY <2>1, <3>3, <3>4, <3>5 DEF DatalogShape
  <2>4. Sound'
    BY <2>1 DEF Sound, Closed, Rules
  <2>5. Counted'
    BY <2>1, <2>2, NewIsFinite DEF Counted, DatalogShape
  <2>6. Settled'
    BY <2>1 DEF Settled
  <2> QED
    BY <2>3, <2>4, <2>5, <2>6
<1>2. CASE Derive
  <2> DEFINE r == Rules[turn]
  <2>1. /\ ~PassOver /\ r.body \subseteq known /\ r.head \notin known
        /\ known' = known \union {r.head}
        /\ changed' = TRUE /\ turn' = turn + 1
        /\ UNCHANGED <<program, pass>>
    BY <1>2 DEF Derive, Holds
  <2>2. turn \in DOMAIN Rules /\ r \in Rule /\ Rules' = Rules /\ Len(Rules) \in Nat
    BY <2>1 DEF DatalogShape, Rules, PassOver
  <2>3. r.head \in Tuples /\ r.head \notin program.facts
    BY <2>1, <2>2 DEF DatalogShape, Rule
  <2>4. New' = New \union {r.head} /\ r.head \notin New
    BY <2>1, <2>3 DEF New
  <2>5. DatalogShape'
    <3>1. r.head \in Derivable
      BY <2>2, <2>3 DEF Derivable
    <3>2. Derivable' = Derivable
      BY <2>1, <2>2 DEF Derivable
    <3>3. turn' \in 1..(Len(Rules)' + 1)
      BY <2>1, <2>2 DEF DatalogShape, PassOver
    <3> QED
      BY <2>1, <2>2, <2>3, <2>4, <3>1, <3>2, <3>3 DEF DatalogShape
  <2>6. Sound'
    <3> SUFFICES ASSUME NEW S \in SUBSET Tuples, program.facts \subseteq S, Closed(S)
                 PROVE  known' \subseteq S
      BY <2>1, <2>2 DEF Sound, Closed
    <3>1. known \subseteq S
      BY DEF Sound
    <3> QED
      BY <2>1, <2>2, <3>1 DEF Closed
  <2>7. Cardinality(New') = Cardinality(New) + 1
    BY <2>4, NewIsFinite, FS_AddElement
  <2>8. Counted'
    BY <2>1, <2>7, NewIsFinite DEF Counted, DatalogShape
  <2> QED
    BY <2>1, <2>5, <2>6, <2>8 DEF Settled
<1>3. CASE Pass
  <2>1. /\ ~PassOver /\ turn' = turn + 1
        /\ Rules[turn].body \subseteq known => Rules[turn].head \in known
        /\ UNCHANGED <<program, known, derived, changed, pass>>
    BY <1>3 DEF Pass, Holds
  <2>2. Rules' = Rules /\ New' = New /\ Len(Rules) \in Nat
    BY <2>1 DEF Rules, New, DatalogShape
  <2>3. DatalogShape'
    BY <2>1, <2>2 DEF DatalogShape, PassOver, Derivable
  <2>4. Sound'
    BY <2>1, <2>2 DEF Sound, Closed
  <2>5. Counted'
    BY <2>1, <2>2 DEF Counted
  <2>6. Settled'
    <3> SUFFICES ASSUME ~changed, NEW i \in 1..turn
                 PROVE  Rules[i].body \subseteq known => Rules[i].head \in known
      BY <2>1, <2>2 DEF Settled, DatalogShape
    <3>1. i \in 1..(turn - 1) \/ i = turn
      BY DEF DatalogShape
    <3> QED
      BY <2>1, <3>1 DEF Settled
  <2> QED
    BY <2>3, <2>4, <2>5, <2>6
<1> QED
  BY <1>1, <1>2, <1>3 DEF DatalogNext

LEMMA DatalogInvariant == DatalogSpec => []DatalogInv
<1>1. DatalogInv /\ [DatalogNext]_datalogVars => DatalogInv'
  <2>1. ASSUME DatalogInv, UNCHANGED datalogVars
        PROVE  DatalogInv'
    BY <2>1
    DEF datalogVars, DatalogInv, DatalogShape, Sound, Counted, Settled, New, Rules, Closed,
        Derivable
  <2> QED
    BY <2>1, DatalogSteps
<1> QED
  BY <1>1, DatalogInitially, PTL DEF DatalogSpec

\* A loop that stops because a pass changed nothing has closed what is
\* known; one that stops at the limit has derived as many tuples as there
\* were passes, which are all there are to derive (datalog.ts:22).
THEOREM DatalogCorrect == DatalogSpec => []DatalogIsLeastModel
<1>1. DatalogInv => DatalogIsLeastModel
  <2> SUFFICES ASSUME DatalogInv, Stopped, Cardinality(Derivable) <= MaxInferences
               PROVE  Closed(known)
    BY DEF DatalogInv, Sound, DatalogIsLeastModel
  <2> USE DEF DatalogInv
  <2>1. Len(Rules) \in Nat /\ DOMAIN Rules = 1..Len(Rules)
    BY DEF DatalogShape, Rules
  <2>2. CASE ~changed
    <3>1. turn - 1 >= Len(Rules)
      BY <2>1 DEF Stopped, PassOver, DatalogShape
    <3> QED
      BY <2>1, <2>2, <3>1 DEF Settled, Closed, DatalogShape
  <2>3. CASE changed
    <3>1. pass >= MaxInferences
      BY <2>3, DatalogConstants DEF Stopped, GoesOn, DatalogShape
    <3>2. MaxInferences <= Cardinality(New)
      BY <2>3, <3>1, NewIsFinite, DatalogConstants DEF Counted, DatalogShape
    <3>3. Derivable \subseteq Tuples
      <4>1. \A i \in DOMAIN Rules : Rules[i] \in Rule
        BY <2>1 DEF DatalogShape, Rules
      <4> QED
        BY <4>1 DEF Derivable, Rule
    <3>4. IsFiniteSet(Derivable) /\ Cardinality(Derivable) \in Nat
      BY <3>3, DatalogConstants, FS_Subset, FS_CardinalityType
    <3>5. New = Derivable
      <4>1. New \in SUBSET Derivable
        BY DEF DatalogShape
      <4>2. Cardinality(New) <= Cardinality(Derivable)
        BY <4>1, <3>4, FS_Subset
      <4>3. Cardinality(New) = Cardinality(Derivable)
        BY <3>2, <3>4, <4>2, NewIsFinite, DatalogConstants
      <4> QED
        BY <4>1, <4>3, <3>4, FS_Subset
    <3> QED
      BY <3>5 DEF New, Derivable, Closed, DatalogShape
  <2> QED
    BY <2>2, <2>3
<1> QED
  BY <1>1, DatalogInvariant, PTL

-----------------------------------------------------------------------------
(***************************************************************************)
(* What the intervals of a functional key exclude, for every set of keys and *)
(* objects and any history.                                                *)
(***************************************************************************)
LEMMA Dates ==
  /\ Times \subseteq Int /\ 0 \in Times /\ Unset \notin Times
  /\ \A a, b \in Times : Later(a, b) \in Times /\ a <= Later(a, b) /\ b <= Later(a, b)
  /\ \A a \in Times \union {Unset}, b \in Times : Or(a, b) \in Times
BY ValidityConstants DEF Times, Later, Or

LEMMA Order ==
  /\ \A a, b, c \in Times : a <= b /\ b <= c => a <= c
  /\ \A a, b \in Times : a < b => ~(b <= a)
  /\ \A a \in Times : a <= a
BY ValidityConstants DEF Times

LEMMA RowDates ==
  ASSUME NEW f \in FactRow
  PROVE  /\ From(f) \in Times
         /\ Until(f) \in Times \union {Unset}
         /\ ~Active(f) => Until(f) \in Times
<1> USE Dates DEF FactRow
<1>1. /\ f.assertedAt \in Times
      /\ {f.validFrom, f.validUntil, f.retractedAt} \subseteq Times \union {Unset}
  OBVIOUS
<1>2. From(f) \in Times
  BY <1>1 DEF From
<1>3. Until(f) \in Times \union {Unset}
  BY <1>1 DEF Until, Or
<1>4. ~Active(f) => Until(f) \in Times
  BY <1>1 DEF Until, Or, Active
<1> QED
  BY <1>2, <1>3, <1>4

\* Only a closed fact has an end, and of a functional key only the last
\* fact is active.
OneActive ==
  /\ \A i \in DOMAIN facts : Active(facts[i]) => facts[i].validUntil = Unset
  /\ \A k \in Functional, i, j \in DOMAIN facts :
       i < j /\ facts[i].key = k /\ facts[j].key = k => ~Active(facts[i])

\* Of a key told in order, nothing starts or ends after its frontier, and
\* each fact ends before the next begins.
InOrder ==
  \A k \in Functional : inOrder[k] =>
    /\ \A i \in DOMAIN facts : facts[i].key = k =>
         /\ From(facts[i]) <= frontier[k]
         /\ Until(facts[i]) # Unset => Until(facts[i]) <= frontier[k]
    /\ \A i, j \in DOMAIN facts :
         i < j /\ facts[i].key = k /\ facts[j].key = k =>
           Until(facts[i]) # Unset /\ Until(facts[i]) <= From(facts[j])

ValidityInv == ValidityTypeOK /\ OneActive /\ InOrder

LEMMA ValidityInitially == ValidityInit => ValidityInv
BY Dates DEF ValidityInit, ValidityInv, ValidityTypeOK, OneActive, InOrder

-----------------------------------------------------------------------------
\* The rows after Tell: those before, closed if they are active and of the
\* key, and the new one.
LEMMA Told ==
  ASSUME ValidityInv, NEW k \in Keys, NEW o \in Objects, NEW from \in Times \union {Unset},
         Tell(k, o, from)
  PROVE  LET n == Len(facts)
             start == Or(from, clock)
         IN /\ n \in Nat /\ DOMAIN facts = 1..n /\ DOMAIN facts' = 1..(n + 1)
            /\ start \in Times
            /\ facts'[n + 1] \in FactRow
            /\ facts'[n + 1].key = k /\ Active(facts'[n + 1])
            /\ facts'[n + 1].validUntil = Unset
            /\ From(facts'[n + 1]) = start /\ Until(facts'[n + 1]) = Unset
            /\ \A i \in 1..n :
                 IF k \in Functional /\ facts[i].key = k /\ Active(facts[i])
                 THEN /\ facts'[i] = Superseded(facts[i], start)
                      /\ facts'[i] \in FactRow
                      /\ ~Active(facts'[i]) /\ facts'[i].key = k
                      /\ From(facts'[i]) = From(facts[i]) /\ Until(facts'[i]) = start
                 ELSE facts'[i] = facts[i]
<1> DEFINE n == Len(facts)
           start == Or(from, clock)
           new == [key |-> k, object |-> o, assertedAt |-> clock, validFrom |-> from,
                   validUntil |-> Unset, retractedAt |-> Unset]
           old == [i \in DOMAIN facts |->
                     IF k \in Functional /\ facts[i].key = k /\ Active(facts[i])
                     THEN Superseded(facts[i], start) ELSE facts[i]]
<1> USE DEF ValidityInv, ValidityTypeOK
<1>1. n \in Nat /\ DOMAIN facts = 1..n /\ \A i \in 1..n : facts[i] \in FactRow
  OBVIOUS
<1>2. clock \in Times /\ start \in Times /\ start # Unset /\ clock # Unset
  BY Dates
<1>3. facts' = Append(old, new)
  BY DEF Tell, WorldUntil
<1>4. new \in FactRow
  BY <1>2 DEF FactRow
<1>5. \A f \in FactRow :
        LET g == Superseded(f, start)
        IN /\ g \in FactRow /\ g.key = f.key /\ ~Active(g)
           /\ From(g) = From(f) /\ Until(g) = start
  <2> SUFFICES ASSUME NEW f \in FactRow
               PROVE  LET g == Superseded(f, start)
                      IN /\ g \in FactRow /\ g.key = f.key /\ ~Active(g)
                         /\ From(g) = From(f) /\ Until(g) = start
    OBVIOUS
  <2> DEFINE g == Superseded(f, start)
  <2>1. /\ g \in FactRow /\ g.key = f.key
        /\ g.validUntil = start /\ g.retractedAt = clock
        /\ g.validFrom = f.validFrom /\ g.assertedAt = f.assertedAt
    BY <1>2 DEF Superseded, FactRow
  <2> HIDE DEF g
  <2>2. ~Active(g) /\ Until(g) = start
    BY <1>2, <2>1 DEF Active, Until, Or
  <2>3. From(g) = From(f)
    BY <2>1 DEF From
  <2> QED
    BY <2>1, <2>2, <2>3 DEF g
<1>6. old \in Seq(FactRow) /\ Len(old) = n
  BY <1>1, <1>5
<1>7. /\ DOMAIN facts' = 1..(n + 1) /\ facts'[n + 1] = new
      /\ \A i \in 1..n : facts'[i] = old[i]
  BY <1>1, <1>3, <1>4, <1>6
<1>8. Active(new) /\ From(new) = start /\ Until(new) = Unset
  BY DEF Active, From, Until, Or
<1>9. \A i \in 1..n :
        IF k \in Functional /\ facts[i].key = k /\ Active(facts[i])
        THEN facts'[i] = Superseded(facts[i], start)
        ELSE facts'[i] = facts[i]
  BY <1>1, <1>7
<1> HIDE DEF n, start, new, old
<1>10. \A i \in 1..n :
         IF k \in Functional /\ facts[i].key = k /\ Active(facts[i])
         THEN /\ facts'[i] = Superseded(facts[i], start)
              /\ facts'[i] \in FactRow
              /\ ~Active(facts'[i]) /\ facts'[i].key = k
              /\ From(facts'[i]) = From(facts[i]) /\ Until(facts'[i]) = start
         ELSE facts'[i] = facts[i]
  BY <1>1, <1>5, <1>9
<1>11. new.key = k /\ new.validUntil = Unset
  BY DEF new
<1> QED
  BY <1>1, <1>2, <1>4, <1>7, <1>8, <1>10, <1>11 DEF n, start

LEMMA TellKeeps ==
  ASSUME ValidityInv, NEW k \in Keys, NEW o \in Objects, NEW from \in Times \union {Unset},
         Tell(k, o, from)
  PROVE  ValidityInv'
<1> DEFINE n == Len(facts)
           start == Or(from, clock)
           closes(i) == k \in Functional /\ facts[i].key = k /\ Active(facts[i])
<1>1. /\ n \in Nat /\ DOMAIN facts = 1..n /\ DOMAIN facts' = 1..(n + 1) /\ start \in Times
      /\ facts'[n + 1] \in FactRow /\ facts'[n + 1].key = k /\ Active(facts'[n + 1])
      /\ facts'[n + 1].validUntil = Unset
      /\ From(facts'[n + 1]) = start /\ Until(facts'[n + 1]) = Unset
  BY Told
<1>2. \A i \in 1..n :
        /\ closes(i) => /\ facts'[i] \in FactRow /\ ~Active(facts'[i]) /\ facts'[i].key = k
                        /\ From(facts'[i]) = From(facts[i]) /\ Until(facts'[i]) = start
        /\ ~closes(i) => facts'[i] = facts[i]
  BY Told
<1>3. /\ inOrder' = [inOrder EXCEPT ![k] = inOrder[k] /\ frontier[k] <= start]
      /\ frontier' = [frontier EXCEPT ![k] = Later(frontier[k], start)]
      /\ clock' = clock
  BY DEF Tell
<1> HIDE DEF n, start
<1>4. /\ \A i \in 1..n : facts[i] \in FactRow
      /\ clock \in Times /\ frontier \in [Keys -> Times] /\ inOrder \in [Keys -> BOOLEAN]
  BY <1>1 DEF ValidityInv, ValidityTypeOK
<1>5. ValidityTypeOK'
  <2>1. \A i \in 1..(n + 1) : facts'[i] \in FactRow
    BY <1>1, <1>2, <1>4
  <2>2. facts' \in Seq(FactRow)
    <3>1. facts' = Append([i \in DOMAIN facts |->
                             IF closes(i) THEN Superseded(facts[i], WorldUntil(from))
                             ELSE facts[i]], facts'[n + 1])
      <4>1. DOMAIN [i \in DOMAIN facts |->
                     IF closes(i) THEN Superseded(facts[i], WorldUntil(from))
                     ELSE facts[i]] = 1..n
        BY <1>1
      <4> QED
        BY <1>1, <4>1 DEF Tell
    <3> QED
      BY <1>1, <2>1, <3>1
  <2>3. frontier' \in [Keys -> Times]
    BY <1>1, <1>3, <1>4, Dates
  <2>4. inOrder' \in [Keys -> BOOLEAN]
    BY <1>3, <1>4
  <2> QED
    BY <1>3, <1>4, <2>2, <2>3, <2>4 DEF ValidityTypeOK
<1>6. OneActive'
  <2>1. ASSUME NEW i \in 1..(n + 1), Active(facts'[i])
        PROVE  facts'[i].validUntil = Unset
    <3>1. CASE i = n + 1
      BY <1>1, <3>1
    <3>2. CASE i \in 1..n
      BY <1>1, <1>2, <2>1, <3>2 DEF ValidityInv, OneActive
    <3> QED
      BY <1>1, <3>1, <3>2
  <2>2. ASSUME NEW f \in Functional, NEW i \in 1..(n + 1), NEW j \in 1..(n + 1),
               i < j, facts'[i].key = f, facts'[j].key = f
        PROVE  ~Active(facts'[i])
    <3>1. i \in 1..n
      BY <1>1, <2>2
    <3>2. facts[i].key = f
      BY <1>2, <2>2, <3>1
    <3>3. CASE closes(i)
      BY <1>2, <3>1, <3>3
    <3>4. CASE ~closes(i) /\ j = n + 1
      BY <1>1, <1>2, <2>2, <3>1, <3>4
    <3>5. CASE ~closes(i) /\ j \in 1..n
      <4>1. facts[j].key = f
        BY <1>2, <2>2, <3>5
      <4> QED
        BY <1>1, <1>2, <2>2, <3>1, <3>2, <3>5, <4>1 DEF ValidityInv, OneActive
    <3> QED
      BY <1>1, <3>3, <3>4, <3>5
  <2> QED
    BY <1>1, <2>1, <2>2 DEF OneActive
<1>7. InOrder'
  <2> SUFFICES ASSUME NEW f \in Functional, inOrder'[f]
               PROVE  /\ \A i \in 1..(n + 1) : facts'[i].key = f =>
                           /\ From(facts'[i]) <= frontier'[f]
                           /\ Until(facts'[i]) # Unset => Until(facts'[i]) <= frontier'[f]
                      /\ \A i, j \in 1..(n + 1) :
                           i < j /\ facts'[i].key = f /\ facts'[j].key = f =>
                             Until(facts'[i]) # Unset /\ Until(facts'[i]) <= From(facts'[j])
    BY <1>1 DEF InOrder
  <2>1. f \in Keys /\ inOrder[f] /\ (f = k => frontier[k] <= start)
    BY <1>3, <1>4, ValidityConstants
  <2>2. /\ frontier[f] \in Times /\ frontier'[f] \in Times
        /\ frontier[f] <= frontier'[f] /\ (f = k => start <= frontier'[f])
    <3>1. frontier[f] \in Times
      BY <1>4, <2>1
    <3>2. frontier'[f] = IF f = k THEN Later(frontier[k], start) ELSE frontier[f]
      BY <1>3, <1>4, <2>1
    <3>3. CASE f = k
      BY <1>1, <3>1, <3>2, <3>3, Dates
    <3>4. CASE f # k
      BY <3>1, <3>2, <3>4, Order
    <3> QED
      BY <3>3, <3>4
  <2>3. \A i \in 1..n : facts[i].key = f =>
          /\ From(facts[i]) \in Times /\ Until(facts[i]) \in Times \union {Unset}
          /\ From(facts[i]) <= frontier[f]
          /\ Until(facts[i]) # Unset => Until(facts[i]) <= frontier[f]
    BY <1>1, <1>4, <2>1, RowDates DEF ValidityInv, InOrder
  <2>4. ASSUME NEW i \in 1..n, facts'[i].key = f
        PROVE  /\ facts[i].key = f
               /\ From(facts'[i]) = From(facts[i])
               /\ From(facts'[i]) <= frontier'[f]
               /\ Until(facts'[i]) # Unset => Until(facts'[i]) <= frontier'[f]
    <3>1. facts[i].key = f /\ From(facts'[i]) = From(facts[i])
      BY <1>2, <2>4
    <3>2. From(facts[i]) <= frontier'[f]
      BY <2>2, <2>3, <3>1, Order
    <3>3. CASE closes(i)
      BY <1>2, <2>2, <3>1, <3>2, <3>3
    <3>4. CASE ~closes(i)
      BY <1>2, <2>2, <2>3, <3>1, <3>2, <3>4, Order
    <3> QED
      BY <3>1, <3>2, <3>3, <3>4
  <2>5. facts'[n + 1].key = f =>
          From(facts'[n + 1]) <= frontier'[f] /\ Until(facts'[n + 1]) = Unset
    BY <1>1, <2>2
  <2>6. ASSUME NEW i \in 1..n, facts'[i].key = f, facts'[n + 1].key = f
        PROVE  Until(facts'[i]) # Unset /\ Until(facts'[i]) <= From(facts'[n + 1])
    <3>1. facts[i].key = f /\ f = k
      BY <1>1, <2>4, <2>6
    <3>2. CASE closes(i)
      <4>1. Until(facts'[i]) = start
        BY <1>2, <3>2
      <4>2. start # Unset /\ start <= start
        BY <1>1, Dates, Order
      <4> QED
        BY <1>1, <4>1, <4>2
    <3>3. CASE ~closes(i)
      <4>1. facts'[i] = facts[i] /\ ~Active(facts[i]) /\ facts[i] \in FactRow
        BY <1>2, <1>4, <3>1, <3>3
      <4>2. Until(facts[i]) \in Times /\ Until(facts[i]) # Unset
        BY <4>1, RowDates, Dates
      <4>3. Until(facts[i]) <= frontier[k] /\ frontier[k] <= start /\ frontier[k] \in Times
        BY <2>1, <2>2, <2>3, <3>1, <4>2
      <4>4. Until(facts[i]) <= start
        BY <1>1, <4>2, <4>3, Order
      <4> QED
        BY <1>1, <4>1, <4>2, <4>4
    <3> QED
      BY <3>2, <3>3
  <2>7. ASSUME NEW i \in 1..n, NEW j \in 1..n, i < j, facts'[i].key = f, facts'[j].key = f
        PROVE  Until(facts'[i]) # Unset /\ Until(facts'[i]) <= From(facts'[j])
    <3>1. facts[i].key = f /\ facts[j].key = f /\ From(facts'[j]) = From(facts[j])
      BY <2>4, <2>7
    <3>2. ~closes(i)
      BY <1>1, <2>7, <3>1 DEF ValidityInv, OneActive
    <3> QED
      BY <1>1, <1>2, <2>1, <2>7, <3>1, <3>2 DEF ValidityInv, InOrder
  <2> QED
    BY <1>1, <2>4, <2>5, <2>6, <2>7
<1> QED
  BY <1>5, <1>6, <1>7 DEF ValidityInv

-----------------------------------------------------------------------------
LEMMA WithdrawKeeps ==
  ASSUME ValidityInv, NEW w \in DOMAIN facts, Withdraw(w)
  PROVE  ValidityInv'
<1> DEFINE n == Len(facts)
           g == [facts[w] EXCEPT !.retractedAt = clock]
<1>1. /\ n \in Nat /\ DOMAIN facts = 1..n /\ facts[w] \in FactRow
      /\ clock \in Times /\ frontier \in [Keys -> Times] /\ facts[w].key \in Keys
  <2>1. facts \in Seq(FactRow) /\ clock \in Times /\ frontier \in [Keys -> Times]
    BY DEF ValidityInv, ValidityTypeOK
  <2>2. n \in Nat /\ DOMAIN facts = 1..n /\ facts[w] \in FactRow
    BY <2>1
  <2> QED
    BY <2>1, <2>2 DEF FactRow
<1>2. /\ Active(facts[w]) /\ facts' = [facts EXCEPT ![w] = g]
      /\ frontier' = [frontier EXCEPT ![facts[w].key] = Later(frontier[facts[w].key], clock)]
      /\ clock' = clock /\ inOrder' = inOrder
  BY DEF Withdraw
<1>3. facts[w].validUntil = Unset
  BY <1>2 DEF ValidityInv, OneActive
<1>4. /\ g \in FactRow /\ g.key = facts[w].key /\ g.retractedAt = clock
      /\ g.validUntil = Unset /\ g.validFrom = facts[w].validFrom
      /\ g.assertedAt = facts[w].assertedAt
  BY <1>1, <1>3 DEF FactRow
<1> HIDE DEF g
<1>5. ~Active(g) /\ From(g) = From(facts[w]) /\ Until(g) = clock
  BY <1>1, <1>4, Dates DEF Active, From, Until, Or
<1>6. /\ DOMAIN facts' = 1..n /\ facts'[w] = g
      /\ \A i \in 1..n : i # w => facts'[i] = facts[i]
      /\ \A i \in 1..n : facts'[i].key = facts[i].key /\ From(facts'[i]) = From(facts[i])
  BY <1>1, <1>2, <1>4, <1>5
<1>7. ValidityTypeOK'
  <2>1. facts' \in Seq(FactRow)
    BY <1>1, <1>2, <1>4 DEF ValidityInv, ValidityTypeOK
  <2>2. frontier' \in [Keys -> Times]
    BY <1>1, <1>2, Dates
  <2> QED
    BY <1>2, <2>1, <2>2 DEF ValidityInv, ValidityTypeOK
<1>8. OneActive'
  BY <1>1, <1>5, <1>6 DEF ValidityInv, OneActive
<1>9. InOrder'
  <2> SUFFICES ASSUME NEW f \in Functional, inOrder[f]
               PROVE  /\ \A i \in 1..n : facts[i].key = f =>
                           /\ From(facts[i]) <= frontier'[f]
                           /\ Until(facts'[i]) # Unset => Until(facts'[i]) <= frontier'[f]
                      /\ \A i, j \in 1..n :
                           i < j /\ facts[i].key = f /\ facts[j].key = f =>
                             Until(facts'[i]) # Unset /\ Until(facts'[i]) <= From(facts[j])
    BY <1>2, <1>6 DEF InOrder
  <2>1. /\ f \in Keys /\ frontier[f] \in Times /\ frontier'[f] \in Times
        /\ frontier[f] <= frontier'[f]
        /\ f = facts[w].key => clock <= frontier'[f]
    BY <1>1, <1>2, Dates, ValidityConstants
  <2>2. ASSUME NEW i \in 1..n, facts[i].key = f
        PROVE  /\ From(facts[i]) <= frontier'[f]
               /\ Until(facts'[i]) # Unset => Until(facts'[i]) <= frontier'[f]
    <3>1. /\ From(facts[i]) <= frontier[f]
          /\ Until(facts[i]) # Unset => Until(facts[i]) <= frontier[f]
      BY <1>1, <2>2 DEF ValidityInv, InOrder
    <3>2. From(facts[i]) \in Times /\ Until(facts[i]) \in Times \union {Unset}
      <4>1. facts[i] \in FactRow
        BY <1>1 DEF ValidityInv, ValidityTypeOK
      <4> QED
        BY <4>1, RowDates
    <3>3. CASE i = w
      BY <1>5, <1>6, <2>1, <2>2, <3>1, <3>2, <3>3, Order
    <3>4. CASE i # w
      BY <1>6, <2>1, <3>1, <3>2, <3>4, Order
    <3> QED
      BY <3>3, <3>4
  <2>3. ASSUME NEW i \in 1..n, NEW j \in 1..n, i < j, facts[i].key = f, facts[j].key = f
        PROVE  Until(facts'[i]) # Unset /\ Until(facts'[i]) <= From(facts[j])
    <3>1. i # w
      BY <1>1, <1>2, <2>3 DEF ValidityInv, OneActive
    <3> QED
      BY <1>1, <1>6, <2>3, <3>1 DEF ValidityInv, InOrder
  <2> QED
    BY <2>2, <2>3
<1> QED
  BY <1>7, <1>8, <1>9 DEF ValidityInv

LEMMA TickKeeps ==
  ASSUME ValidityInv, Tick
  PROVE  ValidityInv'
<1>1. clock' \in Times /\ UNCHANGED <<facts, frontier, inOrder>>
  BY ValidityConstants DEF Tick, Times, ValidityInv, ValidityTypeOK
<1> QED
  BY <1>1 DEF ValidityInv, ValidityTypeOK, OneActive, InOrder

LEMMA ValidityInvariant == ValiditySpec => []ValidityInv
<1>1. ValidityInv /\ [ValidityNext]_validityVars => ValidityInv'
  <2> SUFFICES ASSUME ValidityInv, [ValidityNext]_validityVars
               PROVE  ValidityInv'
    OBVIOUS
  <2>1. ASSUME NEW k \in Keys, NEW o \in Objects, NEW from \in Times \union {Unset},
               Tell(k, o, from)
        PROVE  ValidityInv'
    BY <2>1, TellKeeps
  <2>2. ASSUME NEW i \in 1..MaxFacts, Withdraw(i)
        PROVE  ValidityInv'
    BY <2>2, WithdrawKeeps DEF Withdraw
  <2>3. CASE Tick
    BY <2>3, TickKeeps
  <2>4. CASE UNCHANGED validityVars
    BY <2>4 DEF validityVars, ValidityInv, ValidityTypeOK, OneActive, InOrder
  <2> QED
    BY <2>1, <2>2, <2>3, <2>4 DEF ValidityNext
<1> QED
  BY <1>1, ValidityInitially, PTL DEF ValiditySpec

\* Of two facts of a functional key the first is closed, so they do not
\* contradict each other; and if the key was told in order, the first ends
\* no later than the second begins (knowledge-service.ts:151).
THEOREM OnePlaceCorrect == ValiditySpec => []OnePlaceAtATime
<1>1. ValidityInv => OnePlaceAtATime
  <2> SUFFICES ASSUME ValidityInv, NEW k \in Functional,
                      NEW i \in DOMAIN facts, NEW j \in DOMAIN facts,
                      i < j, facts[i].key = k, facts[j].key = k
               PROVE  /\ ~Contradict(i, j)
                      /\ inOrder[k] => \A t \in Times :
                           ~(VisibleAt(facts[i], t) /\ VisibleAt(facts[j], t))
    BY DEF OnePlaceAtATime
  <2>1. ~Contradict(i, j)
    BY DEF Contradict, ValidityInv, OneActive
  <2>2. ASSUME inOrder[k], NEW t \in Times
        PROVE  ~(VisibleAt(facts[i], t) /\ VisibleAt(facts[j], t))
    <3>1. Until(facts[i]) # Unset /\ Until(facts[i]) <= From(facts[j])
      BY <2>2 DEF ValidityInv, InOrder
    <3>2. facts[i] \in FactRow /\ facts[j] \in FactRow
      BY DEF ValidityInv, ValidityTypeOK
    <3>3. Until(facts[i]) \in Times /\ From(facts[j]) \in Times
      BY <3>1, <3>2, RowDates
    <3> QED
      BY <2>2, <3>1, <3>3, Order DEF VisibleAt
  <2> QED
    BY <2>1, <2>2
<1> QED
  BY <1>1, ValidityInvariant, PTL

-----------------------------------------------------------------------------
(***************************************************************************)
(* What graphPath answers, for any facts, any two nodes and any depth.     *)
(***************************************************************************)
Depth == question.maxDepth

\* The nodes of a level and those they lead to.
Onward(S) == S \union {b \in Nodes : \E a \in S : Linked(a, b)}
Trail == Seq(Nodes) \ {<<>>}

PathShape ==
  /\ question \in [facts : Seq(Edge), from : Nodes, to : Nodes, maxDepth : Nat]
  /\ queue \in Seq(Trail)
  /\ seen \subseteq Nodes /\ question.from \in seen
  /\ here \in Seq(Nodes) /\ next \in Nat \ {0}
  /\ answer \in Seq(Nodes) \union {Undefined}
  /\ here # <<>> => answer = <<>> /\ Len(here) <= Depth

\* No fewer links lead to the end of a path.
Nearest(p) == \A k \in 0..Depth : k < Len(p) - 1 => Tail1(p) \notin Within[k]

SoundPath(p) == IsPath(p) /\ Tail1(p) \in seen /\ Nearest(p) /\ Len(p) <= Depth + 1

Pending(p) == p = here \/ \E i \in DOMAIN queue : p = queue[i]

Chains ==
  \A p \in Trail :
    /\ Pending(p) => SoundPath(p)
    /\ p = answer => SoundPath(p) /\ Tail1(p) = question.to

\* The queue holds paths of one length and then paths one longer.
ByLength ==
  /\ \A i, j \in DOMAIN queue :
       /\ i <= j => Len(queue[i]) <= Len(queue[j])
       /\ Len(queue[j]) <= Len(queue[i]) + 1
  /\ here # <<>> =>
       \A i \in DOMAIN queue : Len(here) <= Len(queue[i]) /\ Len(queue[i]) <= Len(here) + 1

Spent(a) == \A b \in Nodes : Linked(a, b) => b \in seen
Far(a) == \A k \in 0..Depth : k < Depth => a \notin Within[k]
AtWork(a) ==
  /\ here # <<>> /\ Tail1(here) = a
  /\ \A j \in DOMAIN Facts : j < next /\ Leads(Facts[j], a) => Facts[j].to \in seen

\* A node once queued still is, or all that it leads to was, or will be.
Covered ==
  answer = <<>> =>
    \A a \in seen :
      \/ \E i \in DOMAIN queue : Tail1(queue[i]) = a
      \/ a # question.to /\ (Spent(a) \/ Far(a) \/ AtWork(a))

Fruitless == answer = Undefined => question.to \notin Within[Depth]

PathInv == PathShape /\ Chains /\ ByLength /\ Covered /\ Fruitless

\* W is the first n levels.
LevelsTo(W, n) == W = [k \in 0..n |-> IF k = 0 THEN {question.from} ELSE Onward(W[k - 1])]

\* The recursion that defines the levels has a solution.
LEMMA LevelsExist ==
  ASSUME NEW n \in Nat
  PROVE  \E W : LevelsTo(W, n)
<1> DEFINE S == {m \in Nat : ~ \E W : LevelsTo(W, m)}
<1>1. ASSUME S # {}
      PROVE  FALSE
  <2>1. PICK m \in S : \A u \in S : m <= u
    <3> HIDE DEF S
    <3>1. S \subseteq Nat
      BY DEF S
    <3> QED
      BY <1>1, <3>1, LeastNatural
  <2>2. CASE m = 0
    <3> DEFINE W == [k \in 0..0 |-> {question.from}]
    <3>1. W = [k \in 0..0 |-> IF k = 0 THEN {question.from} ELSE Onward(W[k - 1])]
      OBVIOUS
    <3> QED
      BY <2>1, <2>2, <3>1 DEF LevelsTo
  <2>3. CASE m # 0
    <3>1. m \in Nat /\ m - 1 \in Nat /\ m - 1 \notin S
      BY <2>1, <2>3
    <3>2. PICK V : LevelsTo(V, m - 1)
      BY <3>1
    <3> DEFINE W == [k \in 0..m |-> IF k = m THEN Onward(V[m - 1]) ELSE V[k]]
    <3>3. V = [k \in 0..(m - 1) |-> IF k = 0 THEN {question.from} ELSE Onward(V[k - 1])]
      BY <3>2 DEF LevelsTo
    <3>4. ASSUME NEW k \in 0..m
          PROVE  W[k] = IF k = 0 THEN {question.from} ELSE Onward(W[k - 1])
      <4>1. CASE k = m
        <5>1. W[k - 1] = V[m - 1] /\ W[k] = Onward(V[m - 1])
          BY <2>3, <3>1, <4>1
        <5> HIDE DEF W
        <5> QED
          BY <2>3, <4>1, <5>1
      <4>2. CASE k # m
        <5>1. k \in 0..(m - 1) /\ (k # 0 => k - 1 \in 0..(m - 1) /\ k - 1 # m)
          BY <3>1, <4>2
        <5>2. W[k] = V[k] /\ (k # 0 => W[k - 1] = V[k - 1])
          BY <4>2, <5>1
        <5>3. V[k] = IF k = 0 THEN {question.from} ELSE Onward(V[k - 1])
          BY <3>3, <5>1
        <5> HIDE DEF W
        <5> QED
          BY <5>2, <5>3
      <4> QED
        BY <4>1, <4>2
    <3>5. W = [k \in 0..m |-> W[k]]
      OBVIOUS
    <3> HIDE DEF W
    <3>6. LevelsTo(W, m)
      BY <3>4, <3>5 DEF LevelsTo
    <3> QED
      BY <2>1, <3>6
  <2> QED
    BY <2>2, <2>3
<1> QED
  BY <1>1

\* Within, level by level.
LEMMA Levels ==
  ASSUME Depth \in Nat
  PROVE  /\ Within[0] = {question.from}
         /\ \A k \in 1..Depth : Within[k] = Onward(Within[k - 1])
<1>1. Within = CHOOSE W : LevelsTo(W, Depth)
  BY DEF Within, LevelsTo, Onward, Depth
<1>2. LevelsTo(Within, Depth)
  BY <1>1, LevelsExist
<1>3. PICK W : W = Within
  OBVIOUS
<1>4. W = [k \in 0..Depth |-> IF k = 0 THEN {question.from} ELSE Onward(W[k - 1])]
  BY <1>2, <1>3 DEF LevelsTo
<1>5. \A k \in 0..Depth : W[k] = IF k = 0 THEN {question.from} ELSE Onward(W[k - 1])
  BY <1>4, Zenon
<1>6. W[0] = {question.from} /\ \A k \in 1..Depth : W[k] = Onward(W[k - 1])
  <2>1. 0 \in 0..Depth /\ \A k \in 1..Depth : k \in 0..Depth /\ k # 0
    OBVIOUS
  <2> QED
    BY <1>5, <2>1
<1> QED
  BY <1>3, <1>6

\* Levels up to the length of the shortest open path were queued.
LEMMA LevelsSeen ==
  ASSUME PathInv, answer = <<>>, NEW n \in 0..Depth,
         \A i \in DOMAIN queue : n < Len(queue[i]),
         here # <<>> => n < Len(here)
  PROVE  Within[n] \subseteq seen
<1>1. Depth \in Nat
  BY DEF PathInv, PathShape, Depth
<1> DEFINE S == {m \in 0..n : ~ (Within[m] \subseteq seen)}
<1>2. ASSUME S # {}
      PROVE  FALSE
  <2>1. PICK m \in S : \A u \in S : m <= u
    <3>1. S \subseteq Nat
      BY <1>1
    <3> HIDE DEF S
    <3> QED
      BY <1>2, <3>1, LeastNatural
  <2>2. PICK b \in Within[m] : b \notin seen
    BY <2>1
  <2>3. m # 0
    BY <1>1, <2>2, Levels DEF PathInv, PathShape
  <2>4. m \in 1..Depth /\ m - 1 \in 0..n /\ m - 1 \notin S /\ m <= n
    BY <1>1, <2>1, <2>3
  <2>5. Within[m - 1] \subseteq seen
    BY <2>4
  <2>6. Within[m] = Onward(Within[m - 1])
    BY <1>1, <2>4, Levels
  <2>7. PICK a \in Within[m - 1] : Linked(a, b) /\ b \in Nodes
    BY <2>2, <2>5, <2>6 DEF Onward
  <2>8. ASSUME NEW p, SoundPath(p), n < Len(p)
        PROVE  Tail1(p) # a
    <3>1. Len(p) \in Nat
      BY <2>8, LenProperties DEF SoundPath, IsPath
    <3>2. m - 1 \in 0..Depth /\ m - 1 < Len(p) - 1
      BY <1>1, <2>4, <2>8, <3>1
    <3> QED
      BY <2>7, <2>8, <3>2 DEF SoundPath, Nearest
  <2>9. ~ \E i \in DOMAIN queue : Tail1(queue[i]) = a
    BY <2>8 DEF PathInv, PathShape, Chains, Pending
  <2>10. ~AtWork(a)
    BY <2>8 DEF PathInv, PathShape, Chains, Pending, AtWork, Trail
  <2>11. ~Far(a)
    BY <1>1, <2>4, <2>7 DEF Far
  <2>12. ~Spent(a)
    BY <2>2, <2>7 DEF Spent
  <2> QED
    BY <2>5, <2>7, <2>9, <2>10, <2>11, <2>12 DEF PathInv, Covered
<1> QED
  BY <1>1, <1>2

\* The question stays, and with it the links and the levels.
LEMMA SameQuestion ==
  ASSUME PathNext
  PROVE  /\ question' = question /\ Depth' = Depth /\ Facts' = Facts
         /\ Within' = Within
         /\ \A a, b : Linked(a, b)' <=> Linked(a, b)
<1>1. question' = question
  BY DEF PathNext, Visit, Follow, Leave, Exhaust
<1> QED
  BY <1>1 DEF Depth, Facts, Within, Linked

\* What is open stays a sound path, if seen only grows.
LEMMA StaysSound ==
  ASSUME PathNext, seen \subseteq seen', NEW p, SoundPath(p)
  PROVE  SoundPath(p)'
<1>1. IsPath(p)' /\ Nearest(p)' /\ Len(p) <= Depth' + 1
  BY SameQuestion DEF SoundPath, IsPath, Nearest
<1> QED
  BY <1>1 DEF SoundPath

\* No path is taken for the answer that there is none.
LEMMA NoAnswer == Undefined # <<>> /\ Undefined \notin Trail
<1>1. <<>> \in Seq(Nodes)
  OBVIOUS
<1> QED
  BY <1>1, GraphPathConstants DEF Trail

LEMMA PathInitially == PathInit => PathInv
<1> SUFFICES ASSUME PathInit PROVE PathInv
  OBVIOUS
<1>1. /\ question \in [facts : Seq(Edge), from : Nodes, to : Nodes, maxDepth : Nat]
      /\ queue = <<<<question.from>>>> /\ seen = {question.from}
      /\ here = <<>> /\ next = 1 /\ answer = <<>>
  BY GraphPathConstants DEF PathInit, PathStart
<1>2. Depth \in Nat /\ question.from \in Nodes
  BY <1>1 DEF Depth
<1> DEFINE p == <<question.from>>
<1>3. p \in Seq(Nodes) /\ Len(p) = 1 /\ p[1] = question.from /\ p # <<>>
  BY <1>2
<1>4. /\ queue \in Seq(Trail) /\ DOMAIN queue = {1} /\ queue[1] = p
  BY <1>1, <1>3 DEF Trail
<1>5. Undefined # <<>>
  BY NoAnswer
<1> HIDE DEF p
<1>6. SoundPath(p)
  BY <1>1, <1>2, <1>3 DEF SoundPath, IsPath, Nearest, Tail1
<1>7. PathShape
  BY <1>1, <1>2, <1>4 DEF PathShape
<1>8. Chains
  BY <1>1, <1>4, <1>6 DEF Chains, Pending, Trail
<1>9. ByLength
  BY <1>1, <1>3, <1>4 DEF ByLength
<1>10. Covered
  BY <1>1, <1>3, <1>4 DEF Covered, Tail1
<1> QED
  BY <1>1, <1>5, <1>7, <1>8, <1>9, <1>10 DEF PathInv, Fruitless

\* What is left when the head is taken.
LEMMA QueueTail ==
  ASSUME queue \in Seq(Trail), queue # <<>>, queue' = Tail(queue)
  PROVE  /\ 1 \in DOMAIN queue /\ Head(queue) = queue[1] /\ Head(queue) \in Trail
         /\ queue' \in Seq(Trail)
         /\ \A i \in DOMAIN queue' : i + 1 \in DOMAIN queue /\ queue'[i] = queue[i + 1]
         /\ \A i \in DOMAIN queue : i # 1 => i - 1 \in DOMAIN queue' /\ queue'[i - 1] = queue[i]
OBVIOUS

\* The head of the queue is the answer, is too deep, or is worked on: in each case its
\* node is accounted for.
LEMMA VisitKeeps ==
  ASSUME PathInv, Visit
  PROVE  PathInv'
<1> PICK p : p = Head(queue)
  OBVIOUS
<1>1. /\ answer = <<>> /\ here = <<>> /\ queue # <<>> /\ queue' = Tail(queue)
      /\ question' = question /\ seen' = seen
  BY DEF Visit, Searching
<1>2. \/ Tail1(p) = question.to /\ answer' = p /\ here' = here /\ next' = next
      \/ Tail1(p) # question.to /\ TooDeep(p) /\ here' = here /\ next' = next /\ answer' = answer
      \/ Tail1(p) # question.to /\ ~TooDeep(p) /\ here' = p /\ next' = 1 /\ answer' = answer
  BY DEF Visit
<1>3. PathNext
  BY DEF PathNext
<1>4. Depth \in Nat
  BY DEF PathInv, PathShape, Depth
<1>5. /\ 1 \in DOMAIN queue /\ p = queue[1] /\ p \in Trail
      /\ queue' \in Seq(Trail)
      /\ \A i \in DOMAIN queue' : i + 1 \in DOMAIN queue /\ queue'[i] = queue[i + 1]
      /\ \A i \in DOMAIN queue : i # 1 => i - 1 \in DOMAIN queue' /\ queue'[i - 1] = queue[i]
  BY <1>1, QueueTail DEF PathInv, PathShape
<1>6. p \in Seq(Nodes) /\ p # <<>> /\ Len(p) \in Nat /\ SoundPath(p)
  BY <1>5, LenProperties DEF Trail, PathInv, Chains, Pending
<1>7. Undefined # p /\ Undefined # <<>>
  BY <1>5, NoAnswer
<1>8. TooDeep(p) <=> Len(p) > Depth
  BY DEF TooDeep, Depth
<1>9. DOMAIN queue \subseteq Nat
  BY DEF PathInv, PathShape
<1>10. PathShape'
  <2>1. here' \in Seq(Nodes) /\ next' \in Nat \ {0} /\ answer' \in Seq(Nodes) \union {Undefined}
    BY <1>2, <1>6 DEF PathInv, PathShape
  <2>2. here' # <<>> => answer' = <<>> /\ Len(here') <= Depth'
    BY <1>1, <1>2, <1>3, <1>4, <1>6, <1>8, SameQuestion
  <2> QED
    BY <1>1, <1>5, <2>1, <2>2 DEF PathInv, PathShape
<1>11. Chains'
  <2>1. ASSUME NEW r \in Trail
        PROVE  /\ Pending(r)' => Pending(r)
               /\ r = answer' => r = p /\ Tail1(p) = question.to
    BY <1>1, <1>2, <1>5, <2>1 DEF Pending, Trail
  <2>2. ASSUME NEW r \in Trail, SoundPath(r)
        PROVE  SoundPath(r)'
    BY <1>1, <1>3, <2>2, StaysSound
  <2> QED
    BY <1>1, <1>5, <1>6, <2>1, <2>2 DEF PathInv, Chains, Tail1
<1>12. ByLength'
  <2>1. \A i, j \in DOMAIN queue' :
          /\ i <= j => Len(queue'[i]) <= Len(queue'[j])
          /\ Len(queue'[j]) <= Len(queue'[i]) + 1
    <3>1. \A i \in DOMAIN queue' : i \in Nat
      BY <1>5
    <3> QED
      BY <1>5, <3>1 DEF PathInv, ByLength
  <2>2. \A i \in DOMAIN queue' : Len(p) <= Len(queue'[i]) /\ Len(queue'[i]) <= Len(p) + 1
    <3>1. \A i \in DOMAIN queue' : i \in Nat /\ i + 1 >= 1
      BY <1>5
    <3> QED
      BY <1>5, <3>1 DEF PathInv, ByLength
  <2>3. here' # <<>> => here' = p
    BY <1>1, <1>2
  <2> QED
    BY <2>1, <2>2, <2>3 DEF ByLength
<1>13. Covered'
  <2> SUFFICES ASSUME answer' = <<>>, NEW a \in seen
               PROVE  \/ \E i \in DOMAIN queue' : Tail1(queue'[i]) = a
                      \/ a # question.to /\ (Spent(a)' \/ Far(a)' \/ AtWork(a)')
    BY <1>1 DEF Covered, Tail1
  <2>1. Tail1(p) # question.to
    BY <1>2, <1>6
  <2>2. Spent(a) => Spent(a)'
    BY <1>1, <1>3, SameQuestion DEF Spent
  <2>3. Far(a) => Far(a)'
    BY <1>3, SameQuestion DEF Far
  <2>4. ~AtWork(a)
    BY <1>1 DEF AtWork
  <2>5. ASSUME NEW i \in DOMAIN queue, Tail1(queue[i]) = a, i # 1
        PROVE  \E j \in DOMAIN queue' : Tail1(queue'[j]) = a
    BY <1>5, <2>5
  <2>6. CASE Tail1(p) = a
    <3>1. CASE TooDeep(p)
      <4>1. Far(a)
        BY <1>4, <1>6, <1>8, <2>6, <3>1 DEF SoundPath, Nearest, Far
      <4> QED
        BY <2>1, <2>3, <2>6, <4>1
    <3>2. CASE ~TooDeep(p)
      <4>1. here' = p /\ next' = 1
        BY <1>2, <2>1, <3>2
      <4>2. AtWork(a)'
        <5>1. \A j \in DOMAIN Facts' : ~(j < next')
          BY <1>3, <4>1, SameQuestion DEF PathInv, PathShape, Facts
        <5> QED
          BY <1>6, <2>6, <4>1, <5>1 DEF AtWork, Tail1
      <4> QED
        BY <2>1, <2>6, <4>2
    <3> QED
      BY <3>1, <3>2
  <2>7. CASE \E i \in DOMAIN queue : Tail1(queue[i]) = a
    BY <1>5, <2>5, <2>6, <2>7
  <2>8. CASE a # question.to /\ (Spent(a) \/ Far(a) \/ AtWork(a))
    BY <2>2, <2>3, <2>4, <2>8
  <2> QED
    BY <1>1, <2>7, <2>8 DEF PathInv, Covered
<1>14. Fruitless'
  BY <1>1, <1>2, <1>7 DEF Fruitless
<1> QED
  BY <1>10, <1>11, <1>12, <1>13, <1>14 DEF PathInv

\* A node that was not seen is not on a level before: those were all seen.
LEMMA FollowKeeps ==
  ASSUME PathInv, Follow
  PROVE  PathInv'
<1> USE DEF PathInv
<1>1. /\ here # <<>> /\ next <= Len(Facts) /\ next' = next + 1
      /\ question' = question /\ here' = here /\ answer' = answer /\ answer = <<>>
  BY DEF Follow, PathShape
<1>2. PathNext
  BY DEF PathNext
<1>3. PICK f : f = Facts[next]
  OBVIOUS
<1>4. /\ Depth \in Nat /\ Facts \in Seq(Edge) /\ next \in DOMAIN Facts /\ f \in Edge
      /\ here \in Trail /\ Len(here) \in Nat /\ Len(here) <= Depth /\ next' \in Nat \ {0}
  BY <1>1, <1>3, LenProperties DEF PathShape, Depth, Facts, Trail
<1>5. SoundPath(here)
  BY <1>4 DEF Chains, Pending
<1>6. PICK p : p = Append(here, f.to)
  OBVIOUS
<1>7. /\ p \in Trail /\ Len(p) = Len(here) + 1 /\ Tail1(p) = f.to
      /\ \A i \in 1..Len(here) : p[i] = here[i]
  BY <1>4, <1>6 DEF Trail, Edge, Tail1
<1>8. CASE UNCHANGED <<queue, seen>> /\ ~(Leads(f, Tail1(here)) /\ f.to \notin seen)
  <2>1. PathShape'
    BY <1>1, <1>4, <1>8 DEF PathShape, Depth
  <2>2. Chains'
    <3>1. ASSUME NEW r \in Trail
          PROVE  (Pending(r)' <=> Pending(r)) /\ r # answer'
      BY <1>1, <1>8 DEF Pending, Trail
    <3>2. ASSUME NEW r \in Trail, SoundPath(r)
          PROVE  SoundPath(r)'
      BY <1>2, <1>8, <3>2, StaysSound
    <3> QED
      BY <3>1, <3>2 DEF Chains
  <2>3. ByLength'
    BY <1>1, <1>8 DEF ByLength
  <2>4. Covered'
    <3> SUFFICES ASSUME NEW a \in seen
                 PROVE  \/ \E i \in DOMAIN queue : Tail1(queue[i]) = a
                        \/ a # question.to /\ (Spent(a)' \/ Far(a)' \/ AtWork(a)')
      BY <1>1, <1>8 DEF Covered, Tail1
    <3>1. Spent(a) => Spent(a)'
      BY <1>2, <1>8, SameQuestion DEF Spent
    <3>2. Far(a) => Far(a)'
      BY <1>2, SameQuestion DEF Far
    <3>3. AtWork(a) => AtWork(a)'
      <4>1. ASSUME AtWork(a), NEW j \in DOMAIN Facts, j < next', Leads(Facts[j], a)
            PROVE  Facts[j].to \in seen'
        <5>1. j < next \/ j = next
          BY <1>1, <1>4, <4>1
        <5> QED
          BY <1>3, <1>8, <4>1, <5>1 DEF AtWork
      <4> QED
        BY <1>1, <1>2, <4>1, SameQuestion DEF AtWork, Tail1, Leads
    <3> QED
      BY <1>1, <3>1, <3>2, <3>3 DEF Covered
  <2> QED
    BY <1>1, <2>1, <2>2, <2>3, <2>4, NoAnswer DEF Fruitless
<1>9. CASE /\ queue' = Append(queue, p) /\ seen' = seen \union {f.to}
           /\ Leads(f, Tail1(here)) /\ f.to \notin seen
  <2>1. /\ queue \in Seq(Trail) /\ queue' \in Seq(Trail)
        /\ Len(queue) \in Nat /\ Len(queue') = Len(queue) + 1
        /\ DOMAIN queue = 1..Len(queue) /\ DOMAIN queue' = 1..(Len(queue) + 1)
        /\ \A i \in DOMAIN queue : queue'[i] = queue[i]
        /\ queue'[Len(queue) + 1] = p
    BY <1>7, <1>9 DEF PathShape
  <2>2. ASSUME NEW i \in DOMAIN queue
        PROVE  queue[i] \in Trail /\ Len(queue[i]) \in Nat
    BY <2>1, LenProperties DEF Trail
  <2>3. PathShape'
    BY <1>1, <1>4, <1>9, <2>1 DEF PathShape, Depth, Edge
  <2>4. SoundPath(p)'
    <3>1. IsPath(p)
      <4>1. Linked(Tail1(here), f.to)
        BY <1>3, <1>4, <1>9 DEF Linked, Leads
      <4>2. IsPath(here)
        BY <1>5 DEF SoundPath
      <4>3. p \in Seq(Nodes) /\ p # <<>> /\ p[1] = question.from
        BY <1>4, <1>7, <4>2 DEF IsPath, Trail
      <4>4. ASSUME NEW i \in 1..(Len(p) - 1)
            PROVE  Linked(p[i], p[i + 1])
        <5>1. CASE i = Len(here)
          BY <1>4, <1>7, <4>1, <5>1 DEF Tail1
        <5>2. CASE i # Len(here)
          <6>1. i \in 1..(Len(here) - 1) /\ i \in 1..Len(here) /\ i + 1 \in 1..Len(here)
            BY <1>4, <1>7, <5>2
          <6> QED
            BY <1>7, <4>2, <6>1 DEF IsPath
        <5> QED
          BY <5>1, <5>2
      <4> QED
        BY <4>3, <4>4 DEF IsPath
    <3>2. Nearest(p)
      <4> SUFFICES ASSUME NEW k \in 0..Depth, k < Len(p) - 1
                   PROVE  Tail1(p) \notin Within[k]
        BY DEF Nearest
      <4>1. k < Len(here)
        BY <1>4, <1>7
      <4>2. \A i \in DOMAIN queue : k < Len(queue[i])
        BY <1>1, <1>4, <2>2, <4>1 DEF ByLength
      <4>3. Within[k] \subseteq seen
        BY <1>1, <4>1, <4>2, LevelsSeen
      <4> QED
        BY <1>7, <1>9, <4>3
    <3>3. IsPath(p)' /\ Nearest(p)'
      BY <1>2, <3>1, <3>2, SameQuestion DEF IsPath, Nearest
    <3>4. Tail1(p) \in seen' /\ Len(p) <= Depth' + 1
      BY <1>2, <1>4, <1>7, <1>9, SameQuestion
    <3> QED
      BY <3>3, <3>4 DEF SoundPath
  <2>5. Chains'
    <3>1. ASSUME NEW r \in Trail
          PROVE  (Pending(r)' => Pending(r) \/ r = p) /\ r # answer'
      <4>1. Pending(r)' => Pending(r) \/ r = p
        <5>1. \A i \in DOMAIN queue' : i \in DOMAIN queue \/ i = Len(queue) + 1
          BY <2>1
        <5> QED
          BY <1>1, <2>1, <5>1 DEF Pending
      <4>2. r # answer'
        BY <1>1 DEF Trail
      <4> QED
        BY <4>1, <4>2
    <3>2. ASSUME NEW r \in Trail, SoundPath(r)
          PROVE  SoundPath(r)'
      BY <1>2, <1>9, <3>2, StaysSound
    <3> QED
      BY <2>4, <3>1, <3>2 DEF Chains
  <2>6. ByLength'
    <3>1. ASSUME NEW i \in DOMAIN queue
          PROVE  Len(here) <= Len(queue'[i]) /\ Len(queue'[i]) <= Len(p)
      BY <1>1, <1>7, <2>1 DEF ByLength
    <3>2. \A i \in DOMAIN queue' : i \in DOMAIN queue \/ i = Len(queue) + 1
      BY <2>1
    <3>3. \A i \in DOMAIN queue' :
            /\ Len(queue'[i]) \in Nat
            /\ Len(here) <= Len(queue'[i]) /\ Len(queue'[i]) <= Len(here) + 1
      BY <1>4, <1>7, <2>1, <2>2, <3>1, <3>2
    <3>4. ASSUME NEW i \in DOMAIN queue', NEW j \in DOMAIN queue', i <= j
          PROVE  Len(queue'[i]) <= Len(queue'[j])
      <4>1. CASE j = Len(queue) + 1
        BY <1>7, <2>1, <3>3, <4>1
      <4>2. CASE j # Len(queue) + 1
        <5>1. i \in DOMAIN queue /\ j \in DOMAIN queue
          BY <2>1, <3>4, <4>2
        <5> QED
          BY <2>1, <3>4, <5>1 DEF ByLength
      <4> QED
        BY <4>1, <4>2
    <3>5. \A i, j \in DOMAIN queue' : Len(queue'[j]) <= Len(queue'[i]) + 1
      BY <1>4, <3>3
    <3> QED
      BY <1>1, <3>3, <3>4, <3>5 DEF ByLength
  <2>7. Covered'
    <3> SUFFICES ASSUME NEW a \in seen'
                 PROVE  \/ \E i \in DOMAIN queue' : Tail1(queue'[i]) = a
                        \/ a # question.to /\ (Spent(a)' \/ Far(a)' \/ AtWork(a)')
      BY <1>1 DEF Covered, Tail1
    <3>1. Spent(a) => Spent(a)'
      BY <1>2, <1>9, SameQuestion DEF Spent
    <3>2. Far(a) => Far(a)'
      BY <1>2, SameQuestion DEF Far
    <3>3. AtWork(a) => AtWork(a)'
      <4>1. ASSUME AtWork(a), NEW j \in DOMAIN Facts, j < next', Leads(Facts[j], a)
            PROVE  Facts[j].to \in seen'
        <5>1. j < next \/ j = next
          BY <1>1, <1>4, <4>1
        <5> QED
          BY <1>3, <1>9, <4>1, <5>1 DEF AtWork
      <4> QED
        BY <1>1, <1>2, <4>1, SameQuestion DEF AtWork, Tail1, Leads
    <3>4. CASE a = f.to
      BY <1>7, <2>1, <3>4
    <3>5. CASE a \in seen
      <4>1. CASE \E i \in DOMAIN queue : Tail1(queue[i]) = a
        BY <2>1, <4>1
      <4> QED
        BY <1>1, <3>1, <3>2, <3>3, <3>5, <4>1 DEF Covered
    <3> QED
      BY <1>9, <3>4, <3>5
  <2> QED
    BY <1>1, <2>3, <2>5, <2>6, <2>7, NoAnswer DEF Fruitless
<1> QED
  BY <1>3, <1>6, <1>8, <1>9 DEF Follow

\* Once the loop is over, the node has led to all it leads to.
LEMMA LeaveKeeps ==
  ASSUME PathInv, Leave
  PROVE  PathInv'
<1> USE DEF PathInv
<1>1. /\ here # <<>> /\ next > Len(Facts) /\ here' = <<>>
      /\ UNCHANGED <<question, queue, seen, next, answer>> /\ answer = <<>>
  BY DEF Leave, PathShape
<1>2. PathNext
  BY DEF PathNext
<1>3. PathShape'
  BY <1>1 DEF PathShape
<1>4. Chains'
  <2>1. ASSUME NEW r \in Trail
        PROVE  (Pending(r)' => Pending(r)) /\ r # answer'
    BY <1>1 DEF Pending, Trail
  <2>2. ASSUME NEW r \in Trail, SoundPath(r)
        PROVE  SoundPath(r)'
    BY <1>1, <1>2, <2>2, StaysSound
  <2> QED
    BY <2>1, <2>2 DEF Chains
<1>5. ByLength'
  BY <1>1 DEF ByLength
<1>6. Covered'
  <2> SUFFICES ASSUME NEW a \in seen
               PROVE  \/ \E i \in DOMAIN queue : Tail1(queue[i]) = a
                      \/ a # question.to /\ (Spent(a)' \/ Far(a)')
    BY <1>1 DEF Covered, Tail1
  <2>1. Spent(a) => Spent(a)'
    BY <1>1, <1>2, SameQuestion DEF Spent
  <2>2. Far(a) => Far(a)'
    BY <1>2, SameQuestion DEF Far
  <2>3. AtWork(a) => Spent(a)
    <3>1. \A j \in DOMAIN Facts : j < next
      BY <1>1 DEF PathShape, Facts
    <3> QED
      BY <3>1 DEF AtWork, Spent, Linked, Leads
  <2> QED
    BY <1>1, <2>1, <2>2, <2>3 DEF Covered
<1> QED
  BY <1>1, <1>3, <1>4, <1>5, <1>6, NoAnswer DEF Fruitless

\* With nothing open, every level to the depth was seen, and the goal was not.
LEMMA ExhaustKeeps ==
  ASSUME PathInv, Exhaust
  PROVE  PathInv'
<1> USE DEF PathInv
<1>1. /\ answer = <<>> /\ here = <<>> /\ queue = <<>> /\ answer' = Undefined
      /\ UNCHANGED <<question, queue, seen, here, next>>
  BY DEF Exhaust, Searching
<1>2. PathNext
  BY DEF PathNext
<1>3. Depth \in Nat /\ DOMAIN queue = {}
  BY <1>1 DEF PathShape, Depth
<1>4. PathShape'
  BY <1>1 DEF PathShape
<1>5. Chains'
  <2>1. ASSUME NEW r \in Trail
        PROVE  ~Pending(r)' /\ r # answer'
    BY <1>1, <1>3, NoAnswer DEF Pending, Trail
  <2> QED
    BY <2>1 DEF Chains
<1>6. ByLength'
  BY <1>1, <1>3 DEF ByLength
<1>7. Covered'
  BY <1>1, NoAnswer DEF Covered
<1>8. Fruitless'
  <2>1. Within[Depth] \subseteq seen
    <3>1. Depth \in 0..Depth
      BY <1>3
    <3> QED
      BY <1>1, <1>3, <3>1, LevelsSeen
  <2>2. question.to \notin seen
    BY <1>1, <1>3 DEF Covered
  <2>3. question.to \notin Within[Depth]
    BY <2>1, <2>2
  <2> QED
    BY <1>1, <1>2, <2>3, SameQuestion DEF Fruitless
<1> QED
  BY <1>4, <1>5, <1>6, <1>7, <1>8

LEMMA PathInvariant == PathSpec => []PathInv
<1>1. PathInit => PathInv
  BY PathInitially
<1>2. PathInv /\ [PathNext]_pathVars => PathInv'
  <2>1. ASSUME PathInv, PathNext PROVE PathInv'
    BY <2>1, VisitKeeps, FollowKeeps, LeaveKeeps, ExhaustKeeps DEF PathNext
  <2>2. ASSUME PathInv, UNCHANGED pathVars PROVE PathInv'
    <3> USE <2>2 DEF pathVars, PathInv
    <3>1. Within' = Within /\ Facts' = Facts /\ Depth' = Depth
      BY DEF Within, Linked, Facts, Depth
    <3>2. \A a, b : Linked(a, b)' <=> Linked(a, b)
      BY DEF Linked, Facts
    <3>3. \A p : SoundPath(p)' <=> SoundPath(p)
      BY <3>1, <3>2 DEF SoundPath, IsPath, Nearest, Tail1
    <3>4. PathShape'
      BY <3>1 DEF PathShape
    <3>5. Chains'
      BY <3>3 DEF Chains, Pending, Tail1
    <3>6. ByLength'
      BY DEF ByLength
    <3>7. \A a : (Spent(a)' <=> Spent(a)) /\ (Far(a)' <=> Far(a)) /\ (AtWork(a)' <=> AtWork(a))
      BY <3>1, <3>2 DEF Spent, Far, AtWork, Tail1, Leads
    <3>8. Covered'
      BY <3>7 DEF Covered, Tail1
    <3>9. Fruitless'
      BY <3>1 DEF Fruitless
    <3> QED
      BY <3>4, <3>5, <3>6, <3>8, <3>9
  <2> QED
    BY <2>1, <2>2
<1> QED
  BY <1>1, <1>2, PTL DEF PathSpec

\* An answer is a chain of active facts to the goal, and the shortest there is; without
\* an answer no maxDepth links lead to the goal (graph.ts:37).
THEOREM PathCorrect == PathSpec => []PathIsShortest
<1>1. ASSUME PathInv
      PROVE  PathIsShortest
  <2> USE <1>1 DEF PathInv
  <2>1. ASSUME answer \notin {<<>>, Undefined}
        PROVE  /\ IsPath(answer) /\ Tail1(answer) = question.to /\ Len(answer) <= Depth + 1
               /\ \A k \in 0..Depth : question.to \in Within[k] => Len(answer) <= k + 1
    <3>1. answer \in Trail
      BY <2>1 DEF PathShape, Trail
    <3>2. SoundPath(answer) /\ Tail1(answer) = question.to
      BY <3>1 DEF Chains
    <3>3. Depth \in Nat /\ Len(answer) \in Nat
      BY <3>1, LenProperties DEF PathShape, Depth, Trail
    <3>4. \A k \in 0..Depth : question.to \in Within[k] => Len(answer) <= k + 1
      BY <3>2, <3>3 DEF SoundPath, Nearest
    <3> QED
      BY <3>2, <3>4 DEF SoundPath
  <2>2. answer = Undefined => question.to \notin Within[Depth]
    BY DEF Fruitless
  <2> QED
    BY <2>1, <2>2 DEF PathIsShortest, PathIsReal, Depth
<1> QED
  BY <1>1, PathInvariant, PTL

-----------------------------------------------------------------------------
(***************************************************************************)
(* What a recall answers, for any texts, calls and budgets.                *)
(***************************************************************************)
(***************************************************************************)
(* Sums.                                                                   *)
(***************************************************************************)
\* One turn of the recursion that MapThenSumSet is.
Price(g, s, ts) ==
  IF s = {} THEN 0
  ELSE Estimate(ts[CHOOSE x \in s : TRUE]) + g[s \ {CHOOSE x \in s : TRUE}]
Sums(g, S, ts) == g = [s \in SUBSET S |-> Price(g, s, ts)]
SumOf(S, ts) == CHOOSE g : Sums(g, S, ts)

LEMMA CostDef ==
  ASSUME NEW S, NEW ts
  PROVE  Cost(S, ts) = SumOf(S, ts)[S]
BY DEF Cost, MapThenSumSet, MapThenFoldSet, SumOf, Sums, Price

\* Two solutions of it agree where both are defined.
LEMMA SumsEqual ==
  ASSUME NEW S, IsFiniteSet(S), NEW T, T \subseteq S, NEW ts, NEW g, NEW h,
         Sums(g, S, ts), Sums(h, T, ts)
  PROVE  \A s \in SUBSET T : g[s] = h[s]
<1> DEFINE C == {s \in SUBSET T : g[s] = h[s]}
<1>1. \A s \in SUBSET S : g[s] = Price(g, s, ts)
  <2>1. \A f : f = [s \in SUBSET S |-> Price(g, s, ts)] =>
                 \A s \in SUBSET S : f[s] = Price(g, s, ts)
    OBVIOUS
  <2> QED
    BY <2>1 DEF Sums
<1>2. \A s \in SUBSET T : h[s] = Price(h, s, ts)
  <2>1. \A f : f = [s \in SUBSET T |-> Price(h, s, ts)] =>
                 \A s \in SUBSET T : f[s] = Price(h, s, ts)
    OBVIOUS
  <2> QED
    BY <2>1 DEF Sums
<1>3. ASSUME NEW s \in SUBSET T, \A t \in SUBSET s : t # s => t \in C
      PROVE  s \in C
  <2>1. CASE s = {}
    BY <1>1, <1>2, <2>1 DEF Price
  <2>2. CASE s # {}
    <3> PICK c : c = CHOOSE x \in s : TRUE
      OBVIOUS
    <3>1. c \in s /\ s \ {c} \in SUBSET s /\ s \ {c} # s
      BY <2>2
    <3>2. g[s \ {c}] = h[s \ {c}]
      BY <1>3, <3>1
    <3>3. Price(g, s, ts) = Price(h, s, ts)
      BY <2>2, <3>2 DEF Price
    <3>4. s \in SUBSET S
      OBVIOUS
    <3> QED
      BY <1>1, <1>2, <3>3, <3>4
  <2> QED
    BY <2>1, <2>2
<1>4. IsFiniteSet(T)
  BY FS_Subset
<1> HIDE DEF C
<1>5. SUBSET T \subseteq C
  BY <1>3, <1>4, SubsetInduction
<1> QED
  BY <1>5 DEF C

HasSum(S, ts) == \E g : Sums(g, S, ts)

\* The cost of a set is that of the member chosen first and of the rest.
LEMMA CostOpens ==
  ASSUME NEW S, IsFiniteSet(S), NEW ts, HasSum(S, ts), \A t \in SUBSET S : t # S => HasSum(t, ts)
  PROVE  /\ S = {} => Cost(S, ts) = 0
         /\ S # {} => LET c == CHOOSE x \in S : TRUE
                      IN Cost(S, ts) = Estimate(ts[c]) + Cost(S \ {c}, ts)
<1>1. PICK g : g = SumOf(S, ts)
  OBVIOUS
<1>2. Sums(g, S, ts)
  BY <1>1 DEF HasSum, SumOf
<1>3. Cost(S, ts) = g[S]
  BY <1>1, CostDef
<1>4. g[S] = Price(g, S, ts)
  <2>1. \A f : f = [s \in SUBSET S |-> Price(g, s, ts)] => f[S] = Price(g, S, ts)
    OBVIOUS
  <2> QED
    BY <1>2, <2>1 DEF Sums
<1>5. CASE S = {}
  BY <1>3, <1>4, <1>5 DEF Price
<1>6. CASE S # {}
  <2>1. PICK c : c = CHOOSE x \in S : TRUE
    OBVIOUS
  <2>2. c \in S /\ S \ {c} \in SUBSET S /\ S \ {c} # S
    BY <1>6, <2>1
  <2>3. PICK h : h = SumOf(S \ {c}, ts)
    OBVIOUS
  <2>4. Sums(h, S \ {c}, ts)
    BY <2>2, <2>3 DEF HasSum, SumOf
  <2>5. g[S \ {c}] = h[S \ {c}]
    BY <1>2, <2>2, <2>4, SumsEqual
  <2>6. h[S \ {c}] = Cost(S \ {c}, ts)
    BY <2>3, CostDef
  <2> QED
    BY <1>3, <1>4, <1>6, <2>1, <2>5, <2>6 DEF Price
<1> QED
  BY <1>5, <1>6

\* It has a solution for every finite set.
LEMMA SumsExist ==
  ASSUME NEW S, IsFiniteSet(S), NEW ts
  PROVE  \A s \in SUBSET S : HasSum(s, ts)
<1> DEFINE C == {s \in SUBSET S : HasSum(s, ts)}
<1>1. ASSUME NEW s \in SUBSET S, \A t \in SUBSET s : t # s => t \in C
      PROVE  s \in C
  <2>1. \A t \in SUBSET s : t # s => HasSum(t, ts)
    BY <1>1
  <2>2. \A t \in SUBSET s : IsFiniteSet(t)
    <3>1. \A t \in SUBSET s : t \in SUBSET S
      OBVIOUS
    <3> QED
      BY <3>1, FS_Subset
  <2> DEFINE first(t) == CHOOSE x \in t : TRUE
             whole == IF s = {} THEN 0 ELSE Estimate(ts[first(s)]) + Cost(s \ {first(s)}, ts)
             g == [t \in SUBSET s |-> IF t = s THEN whole ELSE Cost(t, ts)]
  <2>3. ASSUME NEW t \in SUBSET s
        PROVE  g[t] = Price(g, t, ts)
    <3>1. CASE t = {}
      <4>1. t # s => Cost(t, ts) = 0
        BY <2>1, <2>2, <3>1, CostOpens
      <4> QED
        BY <3>1, <4>1 DEF Price
    <3>2. CASE t # {}
      <4>1. first(t) \in t
        BY <3>2
      <4>2. t \ {first(t)} \in SUBSET s /\ t \ {first(t)} # s
        BY <4>1
      <4>3. g[t \ {first(t)}] = Cost(t \ {first(t)}, ts)
        BY <4>2
      <4>4. t # s => Cost(t, ts) = Estimate(ts[first(t)]) + Cost(t \ {first(t)}, ts)
        <5>1. \A u \in SUBSET t : u \in SUBSET s
          OBVIOUS
        <5>2. ASSUME t # s
              PROVE  \A u \in SUBSET t : u # s
          BY <5>2
        <5> HIDE DEF g
        <5> QED
          BY <2>1, <2>2, <3>2, <5>1, <5>2, CostOpens
      <4>5. g[t] = Estimate(ts[first(t)]) + g[t \ {first(t)}]
        <5>1. t = s => g[t] = Estimate(ts[first(t)]) + Cost(t \ {first(t)}, ts)
          BY <3>2
        <5>2. t # s => g[t] = Cost(t, ts)
          OBVIOUS
        <5> HIDE DEF g
        <5> QED
          BY <4>3, <4>4, <5>1, <5>2
      <4> HIDE DEF g
      <4> QED
        BY <3>2, <4>5 DEF Price
    <3> QED
      BY <3>1, <3>2
  <2>4. g = [t \in SUBSET s |-> g[t]]
    OBVIOUS
  <2> HIDE DEF g
  <2>5. g = [t \in SUBSET s |-> Price(g, t, ts)]
    BY <2>3, <2>4
  <2> QED
    BY <2>5 DEF HasSum, Sums
<1> HIDE DEF C
<1>2. SUBSET S \subseteq C
  BY <1>1, SubsetInduction
<1> QED
  BY <1>2 DEF C

\* What the texts cost together is a number and does not depend on the order.
LEMMA CostOfOneMore ==
  ASSUME NEW S, IsFiniteSet(S), NEW ts, \A x \in S : Estimate(ts[x]) \in Nat
  PROVE  /\ Cost(S, ts) \in Nat
         /\ S = {} => Cost(S, ts) = 0
         /\ \A x \in S : Cost(S, ts) = Estimate(ts[x]) + Cost(S \ {x}, ts)
<1> DEFINE C ==
      {s \in SUBSET S : /\ Cost(s, ts) \in Nat
                        /\ \A x \in s : Cost(s, ts) = Estimate(ts[x]) + Cost(s \ {x}, ts)}
<1>1. ASSUME NEW s \in SUBSET S
      PROVE  /\ s = {} => Cost(s, ts) = 0
             /\ s # {} => LET c == CHOOSE x \in s : TRUE
                          IN Cost(s, ts) = Estimate(ts[c]) + Cost(s \ {c}, ts)
  <2>1. IsFiniteSet(s)
    BY FS_Subset
  <2>2. \A t \in SUBSET s : HasSum(t, ts)
    BY <2>1, SumsExist
  <2> QED
    BY <2>1, <2>2, CostOpens
<1>2. ASSUME NEW s \in SUBSET S, \A t \in SUBSET s : t # s => t \in C
      PROVE  s \in C
  <2>1. CASE s = {}
    BY <1>1, <2>1
  <2>2. CASE s # {}
    <3>1. PICK c : c = CHOOSE x \in s : TRUE
      OBVIOUS
    <3>2. c \in s /\ Cost(s, ts) = Estimate(ts[c]) + Cost(s \ {c}, ts)
      BY <1>1, <2>2, <3>1
    <3>3. \A x \in s : s \ {x} \in C
      BY <1>2
    <3>4. \A x \in s : Estimate(ts[x]) \in Nat /\ Cost(s \ {x}, ts) \in Nat
      BY <3>3
    <3>5. ASSUME NEW x \in s, x # c
          PROVE  Cost(s, ts) = Estimate(ts[x]) + Cost(s \ {x}, ts)
      <4>1. x \in s \ {c} /\ c \in s \ {x} /\ (s \ {c}) \ {x} = (s \ {x}) \ {c}
        BY <3>2, <3>5
      <4>2. Cost(s \ {c}, ts) = Estimate(ts[x]) + Cost((s \ {c}) \ {x}, ts)
        BY <3>2, <3>3, <4>1
      <4>3. Cost(s \ {x}, ts) = Estimate(ts[c]) + Cost((s \ {x}) \ {c}, ts)
        BY <3>3, <4>1
      <4>4. (s \ {c}) \ {x} \in C
        <5>1. (s \ {c}) \ {x} \in SUBSET s /\ (s \ {c}) \ {x} # s
          BY <3>2
        <5> QED
          BY <1>2, <5>1
      <4>5. Cost((s \ {c}) \ {x}, ts) \in Nat
        BY <4>4
      <4> HIDE DEF C
      <4> QED
        BY <3>2, <3>4, <4>1, <4>2, <4>3, <4>5
    <3> QED
      BY <3>2, <3>4, <3>5
  <2> QED
    BY <2>1, <2>2
<1> HIDE DEF C
<1>3. SUBSET S \subseteq C
  BY <1>2, SubsetInduction
<1> QED
  BY <1>1, <1>3 DEF C

(***************************************************************************)
(* Sequences of indices.                                                   *)
(***************************************************************************)
IsAscending(s, S) ==
  s \in SetToSeqs(S) /\ \A i, j \in 1..Len(s) : i < j => s[i] < s[j]

\* A finite set of naturals has a greatest one.
LEMMA Greatest ==
  ASSUME NEW S, S \subseteq Nat, IsFiniteSet(S), S # {}
  PROVE  \E m \in S : \A i \in S : i <= m
<1> DEFINE C == {t \in SUBSET S : t # {} => \E m \in t : \A i \in t : i <= m}
<1>1. ASSUME NEW t \in SUBSET S, \A u \in SUBSET t : u # t => u \in C
      PROVE  t \in C
  <2> SUFFICES ASSUME t # {}
               PROVE  \E m \in t : \A i \in t : i <= m
    OBVIOUS
  <2>1. PICK k \in t : TRUE
    OBVIOUS
  <2>2. CASE t = {k}
    BY <2>2
  <2>3. CASE t # {k}
    <3>1. PICK m \in t \ {k} : \A i \in t \ {k} : i <= m
      <4>1. t \ {k} \in SUBSET t /\ t \ {k} # t /\ t \ {k} # {}
        BY <2>1, <2>3
      <4>2. t \ {k} \in C
        BY <1>1, <4>1
      <4> QED
        BY <4>1, <4>2
    <3>2. m \in Nat /\ k \in Nat
      OBVIOUS
    <3>3. CASE k <= m
      BY <3>1, <3>3
    <3>4. CASE m <= k
      BY <3>1, <3>2, <3>4
    <3> QED
      BY <3>2, <3>3, <3>4
  <2> QED
    BY <2>2, <2>3
<1> HIDE DEF C
<1>2. SUBSET S \subseteq C
  BY <1>1, SubsetInduction
<1> QED
  BY <1>2 DEF C

\* The elements of a finite set of naturals can be put in order.
LEMMA AscendingExists ==
  ASSUME NEW S, S \subseteq Nat, IsFiniteSet(S)
  PROVE  \E s : IsAscending(s, S)
<1> DEFINE C == {t \in SUBSET S : \E s : IsAscending(s, t)}
<1>1. ASSUME NEW t \in SUBSET S, \A u \in SUBSET t : u # t => u \in C
      PROVE  t \in C
  <2>1. CASE t = {}
    <3>1. Cardinality(t) = 0
      BY <2>1, FS_EmptySet
    <3>2. 1..0 = {} /\ Len(<<>>) = 0 /\ <<>> \in [1..0 -> t]
      OBVIOUS
    <3>3. IsAscending(<<>>, t)
      BY <3>1, <3>2 DEF IsAscending, SetToSeqs
    <3> QED
      BY <3>3
  <2>2. CASE t # {}
    <3>1. IsFiniteSet(t) /\ Cardinality(t) \in Nat
      BY FS_Subset, FS_CardinalityType
    <3>2. PICK m \in t : \A i \in t : i <= m
      BY <2>2, <3>1, Greatest
    <3>3. PICK n \in Nat : n = Cardinality(t \ {m}) /\ Cardinality(t) = n + 1
      <4>1. /\ IsFiniteSet(t \ {m})
            /\ Cardinality(t \ {m}) = Cardinality(t) - 1
        BY <3>1, <3>2, FS_RemoveElement
      <4>2. Cardinality(t \ {m}) \in Nat
        BY <4>1, FS_CardinalityType
      <4> QED
        BY <3>1, <4>1, <4>2
    <3>4. PICK s : IsAscending(s, t \ {m})
      BY <1>1, <3>2
    <3>5. /\ s \in [1..n -> t \ {m}]
          /\ \A i, j \in 1..n : i # j => s[i] # s[j]
          /\ \A i, j \in 1..Len(s) : i < j => s[i] < s[j]
      BY <3>3, <3>4 DEF IsAscending, SetToSeqs
    <3>6. Len(s) = n
      BY <3>5
    <3> DEFINE r == [i \in 1..(n + 1) |-> IF i = n + 1 THEN m ELSE s[i]]
    <3>7. \A i \in 1..n : s[i] \in t /\ s[i] < m /\ s[i] \in Nat
      <4> SUFFICES ASSUME NEW i \in 1..n
                   PROVE  s[i] \in t /\ s[i] < m /\ s[i] \in Nat
        OBVIOUS
      <4>1. s[i] \in t \ {m}
        BY <3>5
      <4>2. s[i] <= m /\ s[i] # m /\ s[i] \in Nat /\ m \in Nat
        BY <3>2, <4>1
      <4> QED
        BY <4>1, <4>2
    <3>8. r \in [1..(n + 1) -> t] /\ Len(r) = n + 1
      BY <3>2, <3>7
    <3>9. \A i \in 1..(n + 1) : r[i] = IF i = n + 1 THEN m ELSE s[i]
      OBVIOUS
    <3> HIDE DEF r
    <3>10. \A i, j \in 1..(n + 1) : i < j => r[i] < r[j]
      BY <3>5, <3>6, <3>7, <3>9
    <3>11. \A i, j \in 1..(n + 1) : i # j => r[i] # r[j]
      <4>1. \A i \in 1..(n + 1) : r[i] \in Nat
        BY <3>8
      <4> QED
        BY <3>10, <4>1
    <3>12. IsAscending(r, t)
      BY <3>3, <3>8, <3>10, <3>11 DEF IsAscending, SetToSeqs
    <3> QED
      BY <3>12
  <2> QED
    BY <2>1, <2>2
<1> HIDE DEF C
<1>2. SUBSET S \subseteq C
  BY <1>1, SubsetInduction
<1> QED
  BY <1>2 DEF C

\* Ascending(S) holds them all, in order.
LEMMA AscendingIs ==
  ASSUME NEW S, S \subseteq Nat, IsFiniteSet(S)
  PROVE  /\ Ascending(S) \in Seq(S)
         /\ Range(Ascending(S)) = S
         /\ \A i, j \in 1..Len(Ascending(S)) : i < j => Ascending(S)[i] < Ascending(S)[j]
<1>1. PICK s : s = Ascending(S)
  OBVIOUS
<1>2. IsAscending(s, S)
  BY <1>1, AscendingExists DEF IsAscending, Ascending, IsSorted
<1>3. PICK n \in Nat : n = Cardinality(S)
  BY FS_CardinalityType
<1>4. /\ s \in [1..n -> S]
      /\ \A i, j \in 1..n : i # j => s[i] # s[j]
  BY <1>2, <1>3 DEF IsAscending, SetToSeqs
<1>5. s \in Seq(S) /\ DOMAIN s = 1..n
  BY <1>4, SeqDef
<1>6. Range(s) = S
  <2>1. IsFiniteSet(1..n) /\ Cardinality(1..n) = n
    BY FS_Interval
  <2>2. s \in Injection(1..n, S)
    BY <1>4 DEF Injection, IsInjective
  <2>3. s \in Surjection(1..n, S)
    BY <1>3, <2>1, <2>2, FS_Injection
  <2> QED
    BY <1>4, <2>3 DEF Surjection, Range
<1> QED
  BY <1>1, <1>2, <1>5, <1>6 DEF IsAscending

(***************************************************************************)
(* The loop.                                                               *)
(***************************************************************************)
Before(c) == TextsOf(c, Candidates(c))

\* The filters, by the indices they leave.
Wanted(c) == {i \in DOMAIN c.episodes : c.session = "" \/ c.episodes[i].session = c.session}
Relevant(c) == {i \in Wanted(c) : Passes(c, c.episodes[i].text)}

LEMMA Filters ==
  ASSUME NEW c \in Calls
  PROVE  /\ c.episodes \in Seq(Read)
         /\ Wanted(c) \subseteq DOMAIN c.episodes
         /\ Relevant(c) \subseteq Wanted(c)
         /\ IsFiniteSet(DOMAIN c.episodes) /\ DOMAIN c.episodes \subseteq Nat
         /\ InSession(c) = Ascending(Wanted(c)) /\ InSession(c) \in Seq(Wanted(c))
         /\ Candidates(c) = Ascending(Relevant(c)) /\ Candidates(c) \in Seq(Relevant(c))
         /\ Range(Candidates(c)) = Relevant(c)
<1>1. c.episodes \in Seq(Read)
  BY RecallConstants
<1>2. /\ DOMAIN c.episodes = 1..Len(c.episodes) /\ Len(c.episodes) \in Nat
  BY <1>1, LenProperties
<1>3. IsFiniteSet(DOMAIN c.episodes) /\ DOMAIN c.episodes \subseteq Nat
  BY <1>2, FS_Interval
<1>4. /\ Wanted(c) \subseteq DOMAIN c.episodes /\ Relevant(c) \subseteq Wanted(c)
  BY DEF Wanted, Relevant
<1>5. IsFiniteSet(Wanted(c)) /\ IsFiniteSet(Relevant(c))
  BY <1>3, <1>4, FS_Subset
<1>6. InSession(c) = Ascending(Wanted(c))
  BY DEF InSession, Wanted
<1>7. InSession(c) \in Seq(Wanted(c)) /\ Range(InSession(c)) = Wanted(c)
  BY <1>3, <1>4, <1>5, <1>6, AscendingIs
<1>8. Candidates(c) = Ascending(Relevant(c))
  BY <1>7 DEF Candidates, Relevant
<1>9. Candidates(c) \in Seq(Relevant(c)) /\ Range(Candidates(c)) = Relevant(c)
  BY <1>3, <1>4, <1>5, <1>8, AscendingIs
<1> QED
  BY <1>1, <1>3, <1>4, <1>6, <1>7, <1>8, <1>9

\* Texts of indices.
LEMMA TextsAre ==
  ASSUME NEW c \in Calls, NEW s \in Seq(DOMAIN c.episodes)
  PROVE  /\ TextsOf(c, s) \in Seq(Texts) /\ Len(TextsOf(c, s)) = Len(s)
         /\ DOMAIN TextsOf(c, s) = DOMAIN s
         /\ \A i \in DOMAIN s :
              s[i] \in DOMAIN c.episodes /\ TextsOf(c, s)[i] = c.episodes[s[i]].text
<1>1. c.episodes \in Seq(Read)
  BY Filters
<1>2. Len(s) \in Nat /\ DOMAIN s = 1..Len(s) /\ \A i \in DOMAIN s : s[i] \in DOMAIN c.episodes
  BY LenProperties
<1>3. \A i \in DOMAIN s : c.episodes[s[i]].text \in Texts
  <2>1. \A j \in DOMAIN c.episodes : c.episodes[j] \in Read
    BY <1>1
  <2>2. \A j \in DOMAIN c.episodes : c.episodes[j].text \in Texts
    BY <2>1 DEF Read
  <2> QED
    BY <1>2, <2>2
<1>4. TextsOf(c, s) \in [1..Len(s) -> Texts]
  BY <1>2, <1>3 DEF TextsOf
<1> QED
  BY <1>2, <1>4 DEF TextsOf

LEMMA Estimates ==
  ASSUME NEW t \in Texts
  PROVE  Estimate(t) \in Nat
<1>1. Length[t] \in Nat
  BY RecallConstants
<1> QED
  BY <1>1 DEF Estimate

\* What the loop has decided so far.
TrimInv(K, ts, n, budget) ==
  /\ K \subseteq 1..(n - 1)
  /\ \A i \in 1..(n - 1) : i \in K <=> Cost(K \cap 1..(i - 1), ts) + Estimate(ts[i]) <= budget

LoopInv ==
  /\ call \in Calls /\ stage \in {"retrieve", "context", "done"}
  /\ memories \in Seq(DOMAIN call.episodes)
  /\ texts = TextsOf(call, IF stage = "retrieve" THEN Candidates(call) ELSE memories)
  /\ cursor \in 1..(Len(texts) + 1)
  /\ TrimInv(kept, texts, cursor, Budget)
  /\ used = Cost(kept, texts) /\ used <= Budget
  /\ stage = "done" => cursor = Len(texts) + 1

\* The answer to a recall.
Answers(K) ==
  /\ Trimmed(K, Before(call), MaxTokens)
  /\ IF K = {}
     THEN memories = InSession(call)
     ELSE /\ IsSorted(memories, LAMBDA i, j : i < j)
          /\ Range(memories) =
               {Candidates(call)[i] :
                  i \in {j \in DOMAIN Before(call) : \E k \in K : Before(call)[j] = Before(call)[k]}}

Answered == stage # "retrieve" => \E K \in SUBSET DOMAIN Before(call) : Answers(K)

RecallInv == LoopInv /\ Answered

LEMMA TextsShape ==
  ASSUME LoopInv
  PROVE  /\ texts \in Seq(Texts) /\ Len(texts) \in Nat /\ DOMAIN texts = 1..Len(texts)
         /\ Budget \in Nat
         /\ \A i \in DOMAIN texts : Estimate(texts[i]) \in Nat
<1>1. (IF stage = "retrieve" THEN Candidates(call) ELSE memories) \in Seq(DOMAIN call.episodes)
  <2>1. Candidates(call) \in Seq(Relevant(call)) /\ Relevant(call) \subseteq DOMAIN call.episodes
    BY Filters DEF LoopInv
  <2>2. Candidates(call) \in Seq(DOMAIN call.episodes)
    BY <2>1
  <2> QED
    BY <2>2 DEF LoopInv
<1>2. texts \in Seq(Texts)
  BY <1>1, TextsAre DEF LoopInv
<1>3. Len(texts) \in Nat /\ DOMAIN texts = 1..Len(texts)
  BY <1>2, LenProperties
<1>4. \A i \in DOMAIN texts : texts[i] \in Texts
  BY <1>2
<1>5. \A i \in DOMAIN texts : Estimate(texts[i]) \in Nat
  BY <1>4, Estimates
<1> QED
  BY <1>2, <1>3, <1>5, RecallConstants DEF Budget

\* The loop at its end.
LEMMA TrimmedAtEnd ==
  ASSUME LoopInv, cursor = Len(texts) + 1
  PROVE  Trimmed(kept, texts, Budget) /\ kept \subseteq DOMAIN texts
<1>1. Len(texts) \in Nat /\ DOMAIN texts = 1..Len(texts) /\ cursor - 1 = Len(texts)
  BY TextsShape
<1> QED
  BY <1>1 DEF LoopInv, TrimInv, Trimmed

\* One turn of the loop of tokenBudgetTrim.
LEMMA StepTrims ==
  ASSUME LoopInv, Keep \/ Omit
  PROVE  LoopInv' /\ UNCHANGED <<call, stage, memories>>
<1> DEFINE n == cursor
<1>1. /\ Trimming /\ cursor' = cursor + 1 /\ UNCHANGED <<call, stage, texts, memories>>
  BY DEF Keep, Omit
<1>2. /\ texts \in Seq(Texts) /\ Len(texts) \in Nat /\ DOMAIN texts = 1..Len(texts)
      /\ Budget \in Nat
      /\ \A i \in DOMAIN texts : Estimate(texts[i]) \in Nat
  BY TextsShape
<1>3. cursor \in DOMAIN texts /\ cursor \in Nat
  BY <1>1, <1>2 DEF Trimming, LoopInv
<1>4. kept \subseteq 1..(cursor - 1) /\ cursor \notin kept
  BY <1>3 DEF LoopInv, TrimInv
<1>5. IsFiniteSet(kept) /\ \A i \in kept : i \in DOMAIN texts
  <2>1. IsFiniteSet(1..(cursor - 1))
    BY <1>3, FS_Interval
  <2>2. kept \in SUBSET (1..(cursor - 1))
    BY <1>4
  <2>3. IsFiniteSet(kept)
    BY <2>1, <2>2, FS_Subset
  <2>4. 1..(cursor - 1) \subseteq DOMAIN texts
    BY <1>2, <1>3
  <2> QED
    BY <2>2, <2>3, <2>4
<1>6. Cost(kept, texts) \in Nat
  BY <1>2, <1>5, CostOfOneMore
<1>7. Budget' = Budget
  BY <1>1 DEF Budget
<1>8. Fits(texts[cursor]) <=> Cost(kept, texts) + Estimate(texts[cursor]) <= Budget
  BY DEF Fits, LoopInv
<1>9. kept' = IF Fits(texts[cursor]) THEN kept \union {cursor} ELSE kept
  BY DEF Keep, Omit
<1>10. \A i \in 1..cursor : kept' \cap 1..(i - 1) = kept \cap 1..(i - 1)
  BY <1>3, <1>9
<1>11. kept \cap 1..(cursor - 1) = kept
  BY <1>4
<1>12. \A i \in 1..(cursor - 1) : i \in kept' <=> i \in kept
  BY <1>3, <1>9
<1>13. TrimInv(kept', texts, cursor', Budget)
  <2>1. kept' \subseteq 1..(cursor' - 1)
    <3>1. cursor' - 1 = cursor /\ cursor \in 1..cursor /\ 1..(cursor - 1) \subseteq 1..cursor
      BY <1>1, <1>2, <1>3
    <3> QED
      BY <1>4, <1>9, <3>1
  <2>2. ASSUME NEW i \in 1..(cursor' - 1)
        PROVE  i \in kept' <=> Cost(kept' \cap 1..(i - 1), texts) + Estimate(texts[i]) <= Budget
    <3>1. i \in 1..cursor
      BY <1>1, <1>3
    <3>2. CASE i = cursor
      <4>1. i \in kept' <=> Fits(texts[cursor])
        BY <1>4, <1>9, <3>2
      <4> QED
        BY <1>8, <1>10, <1>11, <3>1, <3>2, <4>1
    <3>3. CASE i # cursor
      <4>1. i \in 1..(cursor - 1)
        BY <1>3, <3>1, <3>3
      <4>2. i \in kept <=> Cost(kept \cap 1..(i - 1), texts) + Estimate(texts[i]) <= Budget
        BY <4>1 DEF LoopInv, TrimInv
      <4> QED
        BY <1>10, <1>12, <3>1, <4>1, <4>2
    <3> QED
      BY <3>2, <3>3
  <2> QED
    BY <2>1, <2>2, Zenon DEF TrimInv
<1>14. used' = Cost(kept', texts) /\ used' <= Budget
  <2>1. CASE Keep
    <3>1. /\ Fits(texts[cursor]) /\ kept' = kept \union {cursor}
          /\ used' = used + Estimate(texts[cursor])
      BY <2>1 DEF Keep
    <3>2. IsFiniteSet(kept') /\ \A i \in kept' : Estimate(texts[i]) \in Nat
      BY <1>2, <1>3, <1>5, <3>1, FS_AddElement
    <3>3. Cost(kept', texts) = Estimate(texts[cursor]) + Cost(kept' \ {cursor}, texts)
      BY <3>1, <3>2, CostOfOneMore
    <3>4. kept' \ {cursor} = kept
      BY <1>4, <3>1
    <3>5. Cost(kept', texts) = Estimate(texts[cursor]) + Cost(kept, texts)
      BY <3>3, <3>4
    <3>6. used = Cost(kept, texts) /\ Estimate(texts[cursor]) \in Nat
      BY <1>2, <1>3 DEF LoopInv
    <3> HIDE DEF Cost
    <3> QED
      BY <1>2, <1>6, <1>8, <3>1, <3>5, <3>6
  <2>2. CASE Omit
    <3>1. kept' = kept /\ used' = used
      BY <2>2 DEF Omit
    <3> QED
      BY <3>1 DEF LoopInv
  <2> QED
    BY <2>1, <2>2
<1>15. stage # "done"
  BY <1>1 DEF Trimming
<1> QED
  BY <1>1, <1>2, <1>3, <1>7, <1>13, <1>14, <1>15 DEF LoopInv

LEMMA SeqOfMore ==
  ASSUME NEW S, NEW T, S \subseteq T, NEW s \in Seq(S)
  PROVE  s \in Seq(T)
OBVIOUS

\* A trimming that has not begun.
LEMMA Begins ==
  ASSUME NEW ts, NEW budget
  PROVE  TrimInv({}, ts, 1, budget) /\ Cost({}, ts) = 0
<1>1. 1..(1 - 1) = {}
  OBVIOUS
<1>2. Cost({}, ts) = 0
  BY FS_EmptySet, CostOfOneMore
<1> QED
  BY <1>1, <1>2 DEF TrimInv

LEMMA RecallInitially == RecallInit => RecallInv
<1> SUFFICES ASSUME RecallInit PROVE RecallInv
  OBVIOUS
<1>1. /\ call \in Calls /\ stage = "retrieve" /\ texts = TextsOf(call, Candidates(call))
      /\ cursor = 1 /\ kept = {} /\ used = 0 /\ memories = <<>>
  BY DEF RecallInit, RecallStart, TextsOf
<1>2. Budget \in Nat
  BY RecallConstants DEF Budget
<1>3. Len(texts) \in Nat
  <2>1. Candidates(call) \in Seq(Relevant(call)) /\ Relevant(call) \subseteq DOMAIN call.episodes
    BY <1>1, Filters
  <2>2. Candidates(call) \in Seq(DOMAIN call.episodes)
    BY <2>1
  <2> QED
    BY <1>1, <2>2, TextsAre, LenProperties
<1>4. memories \in Seq(DOMAIN call.episodes)
  BY <1>1
<1>5. TrimInv(kept, texts, cursor, Budget) /\ used = Cost(kept, texts) /\ used <= Budget
  BY <1>1, <1>2, Begins
<1> QED
  BY <1>1, <1>3, <1>4, <1>5 DEF RecallInv, LoopInv, Answered

\* The answer is what the trimming left, or everything.
LEMMA AnswerRecallKeeps ==
  ASSUME RecallInv, AnswerRecall
  PROVE  RecallInv'
<1> USE DEF RecallInv
<1>1. /\ stage = "retrieve" /\ ~Trimming /\ memories' = Ordered(call) /\ stage' = "context"
      /\ texts' = TextsOf(call, memories')
      /\ cursor' = 1 /\ kept' = {} /\ used' = 0 /\ call' = call
  BY DEF AnswerRecall, TextsOf
<1>2. /\ Len(texts) \in Nat /\ DOMAIN texts = 1..Len(texts)
  BY TextsShape
<1>3. texts = Before(call) /\ cursor = Len(texts) + 1 /\ Budget = MaxTokens /\ call \in Calls
  BY <1>1, <1>2 DEF LoopInv, Trimming, Before, Budget
<1>4. Trimmed(kept, Before(call), MaxTokens) /\ kept \in SUBSET DOMAIN Before(call)
  BY <1>3, TrimmedAtEnd
<1>5. /\ call.episodes \in Seq(Read)
      /\ Wanted(call) \subseteq DOMAIN call.episodes
      /\ Relevant(call) \subseteq Wanted(call)
      /\ IsFiniteSet(DOMAIN call.episodes) /\ DOMAIN call.episodes \subseteq Nat
      /\ InSession(call) \in Seq(Wanted(call))
      /\ Candidates(call) \in Seq(Relevant(call))
      /\ Range(Candidates(call)) = Relevant(call)
  BY <1>3, Filters
<1>6. PICK s : s = Candidates(call)
  OBVIOUS
<1>7. PICK ts : ts = Before(call)
  OBVIOUS
<1>8. /\ s \in Seq(Relevant(call)) /\ s \in Seq(DOMAIN call.episodes) /\ Range(s) = Relevant(call)
      /\ DOMAIN ts = DOMAIN s
      /\ \A i \in DOMAIN s : s[i] \in Relevant(call) /\ ts[i] = call.episodes[s[i]].text
  <2>1. s \in Seq(Relevant(call)) /\ s \in Seq(DOMAIN call.episodes) /\ Range(s) = Relevant(call)
    BY <1>5, <1>6
  <2>2. ts = TextsOf(call, s)
    BY <1>6, <1>7 DEF Before
  <2> QED
    BY <1>3, <2>1, <2>2, TextsAre
<1> DEFINE contents == {texts[i] : i \in kept}
           left == {i \in Relevant(call) : call.episodes[i].text \in contents}
<1>9. memories' = IF left = {} THEN InSession(call) ELSE Ascending(left)
  BY <1>1, <1>5 DEF Ordered
<1>10. left = {s[i] : i \in {j \in DOMAIN ts : \E k \in kept : ts[j] = ts[k]}}
  <2>1. contents = {ts[k] : k \in kept}
    BY <1>3, <1>7
  <2>2. ASSUME NEW x \in left
        PROVE  \E i \in {j \in DOMAIN ts : \E k \in kept : ts[j] = ts[k]} : x = s[i]
    <3>1. PICK i \in DOMAIN s : s[i] = x
      BY <1>8 DEF Range
    <3> QED
      BY <1>8, <2>1, <3>1
  <2>3. ASSUME NEW i \in DOMAIN ts, NEW k \in kept, ts[i] = ts[k]
        PROVE  s[i] \in left
    BY <1>8, <2>1, <2>3
  <2> HIDE DEF left, contents
  <2> QED
    BY <2>2, <2>3
<1>11. left = {} <=> kept = {}
  <2>1. \A k \in kept : k \in DOMAIN ts
    BY <1>4, <1>7
  <2> HIDE DEF left, contents
  <2>2. ASSUME NEW k \in kept
        PROVE  s[k] \in left
    BY <1>10, <2>1
  <2>3. kept = {} => left = {}
    BY <1>10
  <2> QED
    BY <2>2, <2>3
<1>12. left \subseteq Nat /\ IsFiniteSet(left) /\ left \subseteq DOMAIN call.episodes
  <2>1. left \in SUBSET DOMAIN call.episodes
    BY <1>5
  <2> HIDE DEF left
  <2> QED
    BY <1>5, <2>1, FS_Subset
<1> HIDE DEF left, contents
<1>13. /\ Ascending(left) \in Seq(left) /\ Range(Ascending(left)) = left
       /\ IsSorted(Ascending(left), LAMBDA i, j : i < j)
  BY <1>12, AscendingIs DEF IsSorted
<1>14. memories' \in Seq(DOMAIN call.episodes)
  <2>1. InSession(call) \in Seq(DOMAIN call.episodes)
    BY <1>5
  <2>2. Ascending(left) \in Seq(DOMAIN call.episodes)
    BY <1>12, <1>13, SeqOfMore
  <2> QED
    BY <1>9, <2>1, <2>2
<1>15. Answered'
  <2>1. PICK K : K = kept
    OBVIOUS
  <2>2. K \in SUBSET DOMAIN Before(call)' /\ Trimmed(K, Before(call), MaxTokens)'
    BY <1>1, <1>4, <2>1 DEF Trimmed, Before, TextsOf, Candidates, InSession, Passes
  <2>3. (Candidates(call) = s)' /\ (Before(call) = ts)' /\ (InSession(call))' = InSession(call)
    BY <1>1, <1>6, <1>7 DEF Before, TextsOf, Candidates, InSession, Passes
  <2>4. K = {} => memories' = InSession(call)
    BY <1>9, <1>11, <2>1
  <2>5. K # {} => /\ \A i, j \in 1..Len(memories') : i < j => memories'[i] < memories'[j]
                  /\ Range(memories') =
                       {s[i] : i \in {j \in DOMAIN ts : \E k \in K : ts[j] = ts[k]}}
    BY <1>9, <1>10, <1>11, <1>13, <2>1 DEF IsSorted
  <2>6. Answers(K)'
    BY <2>2, <2>3, <2>4, <2>5 DEF Answers, IsSorted
  <2> QED
    BY <2>2, <2>6 DEF Answered
<1>16. LoopInv'
  <2>1. Budget' \in Nat
    BY <1>1, RecallConstants DEF Budget
  <2>2. Len(texts') \in Nat
    BY <1>1, <1>3, <1>14, TextsAre, LenProperties
  <2>3. /\ TrimInv(kept', texts', cursor', Budget')
        /\ used' = Cost(kept', texts') /\ used' <= Budget'
    <3>1. TrimInv({}, texts', 1, Budget') /\ Cost({}, texts') = 0
      BY Begins
    <3> QED
      BY <1>1, <2>1, <3>1
  <2> QED
    BY <1>1, <1>3, <1>14, <2>2, <2>3 DEF LoopInv
<1> QED
  BY <1>15, <1>16

LEMMA AnsweredStays ==
  ASSUME Answered, UNCHANGED <<call, memories>>, stage' # "retrieve" => stage # "retrieve"
  PROVE  Answered'
<1>1. /\ Before(call)' = Before(call) /\ Candidates(call)' = Candidates(call)
      /\ InSession(call)' = InSession(call)
  BY DEF Before, TextsOf, Candidates, InSession, Passes
<1>2. ASSUME NEW K, Answers(K)
      PROVE  Answers(K)'
  BY <1>1, <1>2 DEF Answers, Trimmed, IsSorted
<1> QED
  BY <1>1, <1>2 DEF Answered

LEMMA BuildContextKeeps ==
  ASSUME RecallInv, BuildContext
  PROVE  RecallInv'
<1> USE DEF RecallInv
<1>1. /\ stage = "context" /\ ~Trimming /\ stage' = "done"
      /\ UNCHANGED <<call, texts, cursor, kept, used, memories>>
  BY DEF BuildContext
<1>2. Answered'
  BY <1>1, AnsweredStays
<1>3. cursor = Len(texts) + 1
  BY <1>1, TextsShape DEF LoopInv, Trimming
<1>4. Budget' = Budget
  BY <1>1 DEF Budget
<1> QED
  BY <1>1, <1>2, <1>3, <1>4 DEF LoopInv

LEMMA RecallInvariant == RecallSpec => []RecallInv
<1>1. RecallInit => RecallInv
  BY RecallInitially
<1>2. RecallInv /\ [RecallNext]_recallVars => RecallInv'
  <2>1. ASSUME RecallInv, Keep \/ Omit PROVE RecallInv'
    BY <2>1, StepTrims, AnsweredStays DEF RecallInv
  <2>2. ASSUME RecallInv, UNCHANGED recallVars PROVE RecallInv'
    <3>1. Answered'
      BY <2>2, AnsweredStays DEF RecallInv, recallVars
    <3> QED
      BY <2>2, <3>1 DEF RecallInv, LoopInv, recallVars, Budget
  <2> QED
    BY <2>1, <2>2, AnswerRecallKeeps, BuildContextKeeps DEF RecallNext
<1> QED
  BY <1>1, <1>2, PTL DEF RecallSpec

\* An answer holds the candidates that fit in the budget and no other, but for a text
\* twice among them and for an answer nothing is left of; the context always fits
\* (retrieval.ts:53, memory-service.ts:132).
THEOREM RecallCorrect == RecallSpec => []RecallFitsTheBudget
<1>1. ASSUME RecallInv, stage # "retrieve"
      PROVE  /\ \E K \in SUBSET DOMAIN Before(call) : Answers(K)
             /\ used <= ContextTokens
             /\ stage = "done" => Trimmed(kept, TextsOf(call, memories), ContextTokens)
  <2>1. Budget = ContextTokens /\ texts = TextsOf(call, memories)
    BY <1>1 DEF Budget, RecallInv, LoopInv
  <2>2. stage = "done" => Trimmed(kept, texts, Budget)
    BY <1>1, TrimmedAtEnd DEF RecallInv, LoopInv
  <2> QED
    BY <1>1, <2>1, <2>2 DEF RecallInv, Answered, LoopInv
<1>2. RecallInv => RecallFitsTheBudget
  BY <1>1 DEF RecallFitsTheBudget, Answers, Before
<1> QED
  BY <1>2, RecallInvariant, PTL
=============================================================================
