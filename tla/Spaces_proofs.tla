---------------------------- MODULE Spaces_proofs ----------------------------
(***************************************************************************)
(* What the spaces of a workspace promise, for any number of them, any     *)
(* texts and any sequence of requests.                                     *)
(***************************************************************************)
EXTENDS Spaces, SequenceTheorems, FunctionTheorems, FiniteSetTheorems,
        WellFoundedInduction, TLAPS

(***************************************************************************)
(* Order.                                                                  *)
(***************************************************************************)
\* R puts the members of S in a line.
Total(S, R) ==
  /\ \A a, b \in S : a # b => <<a, b>> \in R \/ <<b, a>> \in R
  /\ \A a \in S : <<a, a>> \notin R
  /\ \A a, b, c \in S : <<a, b>> \in R /\ <<b, c>> \in R => <<a, c>> \in R

\* A sequence of all of S, in that order.
Lists(q, S, R) ==
  /\ q \in SetToSeqs(S)
  /\ \A i, j \in 1..Len(q) : i < j => <<q[i], q[j]>> \in R

\* Put each member at the place that the number of those before it gives.
LEMMA ListExists ==
  ASSUME NEW S, IsFiniteSet(S), NEW R, Total(S, R)
  PROVE  \E q : Lists(q, S, R)
<1>1. PICK n \in Nat : n = Cardinality(S)
  BY FS_CardinalityType
<1> DEFINE Under(x) == {y \in S : <<y, x>> \in R}
           place == [x \in S |-> Cardinality(Under(x)) + 1]
<1>2. ASSUME NEW x \in S
      PROVE  IsFiniteSet(Under(x)) /\ Cardinality(Under(x)) \in Nat /\ place[x] \in 1..n
  <2>1. Under(x) \in SUBSET S /\ Under(x) # S
    BY DEF Total
  <2>2. /\ IsFiniteSet(Under(x)) /\ Cardinality(Under(x)) <= n /\ Cardinality(Under(x)) # n
    BY <1>1, <2>1, FS_Subset
  <2>3. Cardinality(Under(x)) \in Nat
    BY <2>2, FS_CardinalityType
  <2> QED
    BY <1>1, <2>2, <2>3
<1>3. ASSUME NEW x \in S, NEW y \in S, <<x, y>> \in R
      PROVE  place[x] < place[y]
  <2>1. Under(x) \in SUBSET Under(y) /\ Under(x) # Under(y)
    BY <1>3 DEF Total
  <2>2. Cardinality(Under(x)) <= Cardinality(Under(y)) /\ Cardinality(Under(x)) # Cardinality(Under(y))
    BY <1>2, <2>1, FS_Subset
  <2> QED
    BY <1>2, <2>2
<1>4. place \in [S -> 1..n]
  BY <1>2
<1> HIDE DEF place
<1>5. \A x, y \in S : x # y => place[x] # place[y]
  <2> SUFFICES ASSUME NEW x \in S, NEW y \in S, x # y
               PROVE  place[x] # place[y]
    OBVIOUS
  <2>1. place[x] < place[y] \/ place[y] < place[x]
    BY <1>3 DEF Total
  <2>2. place[x] \in 1..n /\ place[y] \in 1..n
    BY <1>4
  <2> QED
    BY <2>1, <2>2
<1>6. place \in Surjection(S, 1..n)
  <2>1. IsFiniteSet(1..n) /\ Cardinality(1..n) = n
    BY FS_Interval
  <2>2. place \in Injection(S, 1..n)
    BY <1>4, <1>5 DEF Injection, IsInjective
  <2> QED
    BY <1>1, <2>1, <2>2, FS_Injection
<1> DEFINE q == [i \in 1..n |-> CHOOSE x \in S : place[x] = i]
<1>7. ASSUME NEW i \in 1..n
      PROVE  q[i] \in S /\ place[q[i]] = i
  <2>1. \E x \in S : place[x] = i
    BY <1>6 DEF Surjection
  <2> QED
    BY <2>1
<1>8. q \in [1..n -> S] /\ Len(q) = n
  BY <1>7
<1> HIDE DEF q
<1>9. \A i, j \in 1..n : i # j => q[i] # q[j]
  BY <1>7
<1>10. ASSUME NEW i \in 1..n, NEW j \in 1..n, i < j
       PROVE  <<q[i], q[j]>> \in R
  <2>1. q[i] \in S /\ q[j] \in S /\ q[i] # q[j]
    BY <1>7, <1>10
  <2>2. <<q[j], q[i]>> \notin R
    BY <1>3, <1>7, <1>10, <2>1
  <2> QED
    BY <2>1, <2>2 DEF Total
<1> QED
  BY <1>1, <1>8, <1>9, <1>10 DEF Lists, SetToSeqs

\* What can be said of a list.
LEMMA ListIs ==
  ASSUME NEW S, IsFiniteSet(S), NEW R, NEW q, Lists(q, S, R)
  PROVE  /\ q \in Seq(S) /\ ToSet(q) = S
         /\ Len(q) \in Nat /\ Len(q) = Cardinality(S) /\ DOMAIN q = 1..Len(q)
<1>1. PICK n \in Nat : n = Cardinality(S)
  BY FS_CardinalityType
<1>2. /\ q \in [1..n -> S]
      /\ \A i, j \in 1..n : i # j => q[i] # q[j]
  BY <1>1 DEF Lists, SetToSeqs
<1>3. q \in Seq(S) /\ DOMAIN q = 1..n /\ Len(q) = n
  BY <1>2, SeqDef
<1>4. ToSet(q) = S
  <2>1. IsFiniteSet(1..n) /\ Cardinality(1..n) = n
    BY FS_Interval
  <2>2. q \in Injection(1..n, S)
    BY <1>2 DEF Injection, IsInjective
  <2>3. q \in Surjection(1..n, S)
    BY <1>1, <2>1, <2>2, FS_Injection
  <2> QED
    BY <1>3, <2>3 DEF Surjection, ToSet
<1> QED
  BY <1>1, <1>3, <1>4

\* The first rows of a list.
LEMMA TakeIs ==
  ASSUME NEW S, NEW q \in Seq(S), NEW limit \in Nat
  PROVE  /\ Take(q, limit) \in Seq(S)
         /\ Len(Take(q, limit)) \in Nat /\ Len(Take(q, limit)) <= Len(q)
         /\ \A i \in 1..Len(Take(q, limit)) : Take(q, limit)[i] = q[i]
         /\ ToSet(Take(q, limit)) \subseteq ToSet(q)
         /\ Len(q) <= limit => Take(q, limit) = q
<1>1. PICK n \in Nat : n = Len(q) /\ DOMAIN q = 1..n
  BY LenProperties
<1>2. PICK m \in Nat : m = IF n < limit THEN n ELSE limit
  OBVIOUS
<1>3. m <= n /\ (n <= limit => m = n) /\ 1..m \subseteq 1..n
  BY <1>2
<1>4. PICK t : t = Take(q, limit)
  OBVIOUS
<1>5. t = SubSeq(q, 1, m)
  BY <1>1, <1>2, <1>4, Zenon DEF Take
<1>6. \A i \in 1..m : q[i] \in S
  BY <1>1, <1>3, ElementOfSeq
<1>7. /\ SubSeq(q, 1, m) \in Seq(S)
      /\ Len(SubSeq(q, 1, m)) = IF 1 <= m THEN m - 1 + 1 ELSE 0
      /\ \A i \in 1..(m - 1 + 1) : SubSeq(q, 1, m)[i] = q[1 + i - 1]
  BY <1>6, SubSeqProperties
<1>8. t \in Seq(S) /\ Len(t) = m /\ \A i \in 1..m : t[i] = q[i]
  BY <1>5, <1>7
<1>9. DOMAIN t = 1..m
  BY <1>8, LenProperties
<1>10. ToSet(t) \subseteq ToSet(q)
  BY <1>1, <1>3, <1>8, <1>9 DEF ToSet
<1>11. n <= limit => t = q
  BY <1>1, <1>3, <1>8, SeqEqual
<1> QED
  BY <1>1, <1>3, <1>4, <1>8, <1>10, <1>11

(***************************************************************************)
(* Tables.                                                                 *)
(***************************************************************************)
\* Rows with an id of their own.
Table(rows) ==
  /\ IsFiniteSet(rows)
  /\ \A r \in rows : r.id \in Nat /\ r.at \in Nat
  /\ \A r, x \in rows : r.id = x.id => r = x

\* The ids given out so far are 1..n.
Keyed(rows, n) ==
  /\ \A r \in rows : r.id \in 1..n /\ r.at \in Nat
  /\ \A r, x \in rows : r.id = x.id => r = x

LEMMA KeyedIsTable ==
  ASSUME NEW rows, NEW n \in Nat, Keyed(rows, n)
  PROVE  Table(rows)
<1> DEFINE f == [r \in rows |-> r.id]
<1>1. f \in Injection(rows, 1..n)
  BY DEF Keyed, Injection, IsInjective
<1>2. IsFiniteSet(1..n)
  BY FS_Interval
<1> HIDE DEF f
<1>3. IsFiniteSet(rows)
  BY <1>1, <1>2, FS_Injection
<1> QED
  BY <1>3 DEF Keyed, Table

LEMMA PartOfTable ==
  ASSUME NEW rows, Table(rows), NEW part \in SUBSET rows
  PROVE  Table(part)
  BY FS_Subset DEF Table

\* The three orders of the queries.
LEMMA SortedIs ==
  ASSUME NEW rows, Table(rows)
  PROVE  /\ Lists(Sorted(rows, Newer), rows, {p \in rows \X rows : Newer(p[1], p[2])})
         /\ Lists(Sorted(rows, Older), rows, {p \in rows \X rows : Older(p[1], p[2])})
         /\ Lists(Sorted(rows, Inserted), rows, {p \in rows \X rows : Inserted(p[1], p[2])})
<1> DEFINE N == {p \in rows \X rows : Newer(p[1], p[2])}
           O == {p \in rows \X rows : Older(p[1], p[2])}
           I == {p \in rows \X rows : Inserted(p[1], p[2])}
<1>1. Total(rows, N) /\ Total(rows, O) /\ Total(rows, I)
  <2>1. \A r, x \in rows : r # x => Newer(r, x) \/ Newer(x, r)
    BY DEF Table, Newer
  <2>2. \A r, x \in rows : r # x => Older(r, x) \/ Older(x, r)
    BY DEF Table, Older
  <2>3. \A r, x \in rows : r # x => Inserted(r, x) \/ Inserted(x, r)
    BY DEF Table, Inserted
  <2>4. \A r \in rows : ~Newer(r, r) /\ ~Older(r, r) /\ ~Inserted(r, r)
    BY DEF Table, Newer, Older, Inserted
  <2>5. \A r, x, y \in rows : /\ Newer(r, x) /\ Newer(x, y) => Newer(r, y)
                              /\ Older(r, x) /\ Older(x, y) => Older(r, y)
                              /\ Inserted(r, x) /\ Inserted(x, y) => Inserted(r, y)
    BY DEF Table, Newer, Older, Inserted
  <2>6. \A r, x \in rows : /\ <<r, x>> \in N <=> Newer(r, x)
                           /\ <<r, x>> \in O <=> Older(r, x)
                           /\ <<r, x>> \in I <=> Inserted(r, x)
    OBVIOUS
  <2> HIDE DEF N, O, I
  <2>7. Total(rows, N)
    BY <2>1, <2>4, <2>5, <2>6 DEF Total
  <2>8. Total(rows, O)
    BY <2>2, <2>4, <2>5, <2>6 DEF Total
  <2>9. Total(rows, I)
    BY <2>3, <2>4, <2>5, <2>6 DEF Total
  <2> QED
    BY <2>7, <2>8, <2>9
<1>2. ASSUME NEW q \in SetToSeqs(rows)
      PROVE  /\ Lists(q, rows, N) <=> IsSorted(q, Newer)
             /\ Lists(q, rows, O) <=> IsSorted(q, Older)
             /\ Lists(q, rows, I) <=> IsSorted(q, Inserted)
  <2>1. PICK n \in Nat : n = Cardinality(rows)
    BY FS_CardinalityType DEF Table
  <2>2. q \in [1..n -> rows] /\ Len(q) = n
    BY <2>1 DEF SetToSeqs
  <2>3. \A i, j \in 1..Len(q) : q[i] \in rows /\ q[j] \in rows
    BY <2>2
  <2>4. \A i, j \in 1..Len(q) : /\ <<q[i], q[j]>> \in N <=> Newer(q[i], q[j])
                                /\ <<q[i], q[j]>> \in O <=> Older(q[i], q[j])
                                /\ <<q[i], q[j]>> \in I <=> Inserted(q[i], q[j])
    BY <2>3
  <2> HIDE DEF N, O, I
  <2> QED
    BY <2>4 DEF Lists, IsSorted
<1> HIDE DEF N, O, I
<1>3. IsFiniteSet(rows)
  BY DEF Table
<1>4. /\ \E q \in SetToSeqs(rows) : IsSorted(q, Newer)
      /\ \E q \in SetToSeqs(rows) : IsSorted(q, Older)
      /\ \E q \in SetToSeqs(rows) : IsSorted(q, Inserted)
  <2>1. /\ \E q : Lists(q, rows, N)
        /\ \E q : Lists(q, rows, O)
        /\ \E q : Lists(q, rows, I)
    BY <1>1, <1>3, ListExists
  <2>2. \A q : \A R : Lists(q, rows, R) => q \in SetToSeqs(rows)
    BY DEF Lists
  <2> QED
    BY <1>2, <2>1, <2>2
<1>5. /\ Sorted(rows, Newer) \in SetToSeqs(rows) /\ IsSorted(Sorted(rows, Newer), Newer)
      /\ Sorted(rows, Older) \in SetToSeqs(rows) /\ IsSorted(Sorted(rows, Older), Older)
      /\ Sorted(rows, Inserted) \in SetToSeqs(rows) /\ IsSorted(Sorted(rows, Inserted), Inserted)
  BY <1>4 DEF Sorted
<1>6. Lists(Sorted(rows, Newer), rows, N)
  BY <1>2, <1>5
<1>7. Lists(Sorted(rows, Older), rows, O)
  BY <1>2, <1>5
<1>8. Lists(Sorted(rows, Inserted), rows, I)
  BY <1>2, <1>5
<1> QED
  BY <1>6, <1>7, <1>8 DEF N, O, I

\* A limited query answers all rows if there are no more than the limit.
LEMMA FactRowsAre ==
  ASSUME NEW a, NEW d, Table(d.facts), NEW s, NEW limit \in Nat
  PROVE  /\ ToSet(FactRows(a, d, s, limit)) \subseteq Live(d.facts, s)
         /\ Cardinality(Live(d.facts, s)) <= limit =>
              ToSet(FactRows(a, d, s, limit)) = Live(d.facts, s)
<1> DEFINE S == Live(d.facts, s)
<1>1. Table(S) /\ IsFiniteSet(S)
  BY PartOfTable DEF Live, Table
<1> HIDE DEF S
<1>2. PICK q : q \in {Sorted(S, Newer), Sorted(S, Inserted)} /\ FactRows(a, d, s, limit) = Take(q, limit)
  BY DEF FactRows, SqliteFacts, MemoryFacts, S
<1>3. \E R : Lists(q, S, R)
  <2>1. \E R : Lists(Sorted(S, Newer), S, R)
    BY <1>1, SortedIs
  <2>2. \E R : Lists(Sorted(S, Inserted), S, R)
    BY <1>1, SortedIs
  <2> QED
    BY <1>2, <2>1, <2>2
<1>4. q \in Seq(S) /\ ToSet(q) = S /\ Len(q) = Cardinality(S)
  BY <1>1, <1>3, ListIs
<1>5. ToSet(Take(q, limit)) \subseteq S /\ (Cardinality(S) <= limit => Take(q, limit) = q)
  BY <1>4, TakeIs
<1> QED
  BY <1>2, <1>4, <1>5 DEF S

\* What extraction reads.
LEMMA CandidatesAre ==
  ASSUME NEW d, d.episodes \subseteq Episode, Table(d.episodes), NEW s
  PROVE  /\ Candidates(d, s) \in Seq(Proposal)
         /\ \A i \in 1..Len(Candidates(d, s)) :
              \E r \in Shown(d.episodes, s) : r.id = Candidates(d, s)[i].source
<1> DEFINE S == Shown(d.episodes, s)
           listed == ToSet(listRecent(d.episodes, s, EpisodeLimit))
           telling == {r \in listed : Says[r.content] # NoClaim}
           order == Sorted(telling, Older)
<1>1. Table(S) /\ IsFiniteSet(S) /\ S \subseteq Episode
  BY PartOfTable DEF Shown, Table
<1>2. listed \subseteq S
  <2> HIDE DEF S
  <2>1. \E R : Lists(Sorted(S, Newer), S, R)
    BY <1>1, SortedIs
  <2>2. Sorted(S, Newer) \in Seq(S) /\ ToSet(Sorted(S, Newer)) = S
    BY <1>1, <2>1, ListIs
  <2>3. EpisodeLimit \in Nat
    BY SpacesConstants
  <2>4. ToSet(Take(Sorted(S, Newer), EpisodeLimit)) \subseteq S
    BY <2>2, <2>3, TakeIs
  <2> QED
    BY <2>4 DEF listRecent, S
<1>3. telling \subseteq S /\ \A r \in telling : Says[r.content] # NoClaim
  BY <1>2
<1> HIDE DEF S, listed, telling
<1>4. Table(telling) /\ IsFiniteSet(telling)
  BY <1>1, <1>3, PartOfTable DEF Table
<1>5. order \in Seq(telling)
  <2>1. \E R : Lists(order, telling, R)
    BY <1>4, SortedIs
  <2> QED
    BY <1>4, <2>1, ListIs
<1>6. Candidates(d, s) = [i \in DOMAIN order |-> [claim |-> Says[order[i].content], source |-> order[i].id]]
  BY DEF Candidates, telling, listed
<1> HIDE DEF order
<1>7. PICK n \in Nat : n = Len(order) /\ DOMAIN order = 1..n
  BY <1>5, LenProperties
<1>8. ASSUME NEW i \in 1..n
      PROVE  /\ order[i] \in S
             /\ [claim |-> Says[order[i].content], source |-> order[i].id] \in Proposal
  <2>1. order[i] \in telling
    BY <1>5, <1>7, ElementOfSeq
  <2>2. order[i] \in Episode /\ Says[order[i].content] # NoClaim
    BY <1>1, <1>3, <2>1
  <2>3. Says[order[i].content] \in Claims /\ order[i].id \in Nat
    BY <2>2, SpacesConstants DEF Episode
  <2> QED
    BY <1>3, <2>1, <2>3 DEF Proposal
<1>9. PICK c : c = Candidates(d, s)
  OBVIOUS
<1>10. /\ c \in [1..n -> Proposal]
       /\ \A i \in 1..n : c[i].source = order[i].id
  BY <1>6, <1>7, <1>8, <1>9
<1>11. c \in Seq(Proposal) /\ Len(c) = n
  BY <1>10, SeqDef
<1> QED
  BY <1>8, <1>9, <1>10, <1>11 DEF S

(***************************************************************************)
(* The loop of applyExtract, turn by turn.                                 *)
(***************************************************************************)
Start(a, d, s, at, id) ==
  [d |-> d, known |-> {f.claim : f \in ToSet(FactRows(a, d, s, FactLimit))},
   proposed |-> <<>>, id |-> id, at |-> at]

LoopTo(W, n, start, a, s, cs, persist) ==
  W = [i \in 0..n |-> IF i = 0 THEN start ELSE Persist(a, W[i - 1], s, cs[i], persist)]

\* W[i] is what the loop has made after candidate i.
Turns(W, a, d, s, cs, at, id, persist) ==
  /\ W[0] = Start(a, d, s, at, id)
  /\ \A i \in 1..Len(cs) : W[i] = Persist(a, W[i - 1], s, cs[i], persist)
  /\ applyExtract(a, d, s, cs, at, id, persist) = W[Len(cs)]

\* A set of naturals has a least one.
LEMMA LeastNatural ==
  ASSUME NEW S, S \subseteq Nat, S # {}
  PROVE  \E t \in S : \A u \in S : t <= u
<1> DEFINE Under == {ss \in Nat \X Nat : ss[1] < ss[2]}
<1>1. IsWellFoundedOn(Under, Nat)
  BY NatLessThanWellFounded DEF OpToRel
<1>2. PICK t \in S : \A u \in S : ~(<<u, t>> \in Under)
  <2> HIDE DEF Under
  <2> QED
    BY <1>1, WFMin
<1>3. ASSUME NEW u \in S
      PROVE  t <= u
  <2>1. ~(u < t)
    BY <1>2, Zenon
  <2> QED
    BY <2>1
<1> QED
  BY <1>3

\* What is so before the first turn and stays so is so after every turn.
LEMMA EveryTurn ==
  ASSUME NEW n \in Nat, NEW C, 0 \in C, \A i \in 1..n : i - 1 \in C => i \in C
  PROVE  0..n \subseteq C
<1> DEFINE Bad == {i \in 0..n : i \notin C}
<1>1. ASSUME Bad # {}
      PROVE  FALSE
  <2>1. PICK m \in Bad : \A u \in Bad : m <= u
    <3>1. Bad \subseteq Nat
      OBVIOUS
    <3> HIDE DEF Bad
    <3> QED
      BY <1>1, <3>1, LeastNatural
  <2>2. m \in 1..n /\ m - 1 \in 0..n /\ ~(m <= m - 1)
    BY <2>1
  <2>3. m - 1 \in C
    BY <2>1, <2>2
  <2> QED
    BY <2>1, <2>2, <2>3
<1> QED
  BY <1>1

LEMMA LoopExists ==
  ASSUME NEW n \in Nat, NEW start, NEW a, NEW s, NEW cs, NEW persist
  PROVE  \E W : LoopTo(W, n, start, a, s, cs, persist)
<1> DEFINE C == {m \in Nat : \E W : LoopTo(W, m, start, a, s, cs, persist)}
<1>1. 0 \in C
  <2> DEFINE W == [i \in 0..0 |-> start]
  <2>1. W = [i \in 0..0 |-> IF i = 0 THEN start ELSE Persist(a, W[i - 1], s, cs[i], persist)]
    OBVIOUS
  <2> QED
    BY <2>1 DEF LoopTo
<1>2. ASSUME NEW m \in 1..n, m - 1 \in C
      PROVE  m \in C
  <2>1. PICK V : LoopTo(V, m - 1, start, a, s, cs, persist)
    BY <1>2
  <2> DEFINE W == [i \in 0..m |-> IF i = m THEN Persist(a, V[m - 1], s, cs[m], persist) ELSE V[i]]
  <2>2. V = [i \in 0..(m - 1) |-> IF i = 0 THEN start ELSE Persist(a, V[i - 1], s, cs[i], persist)]
    BY <2>1 DEF LoopTo
  <2>3. ASSUME NEW i \in 0..m
        PROVE  W[i] = IF i = 0 THEN start ELSE Persist(a, W[i - 1], s, cs[i], persist)
    <3>1. CASE i = m
      <4>1. W[i - 1] = V[m - 1] /\ W[i] = Persist(a, V[m - 1], s, cs[m], persist)
        BY <3>1
      <4> HIDE DEF W
      <4> QED
        BY <3>1, <4>1
    <3>2. CASE i # m
      <4>1. i \in 0..(m - 1) /\ (i # 0 => i - 1 \in 0..(m - 1) /\ i - 1 # m)
        BY <3>2
      <4>2. W[i] = V[i] /\ (i # 0 => W[i - 1] = V[i - 1])
        BY <3>2, <4>1
      <4>3. V[i] = IF i = 0 THEN start ELSE Persist(a, V[i - 1], s, cs[i], persist)
        BY <2>2, <4>1
      <4> HIDE DEF W
      <4> QED
        BY <4>2, <4>3
    <3> QED
      BY <3>1, <3>2
  <2>4. W = [i \in 0..m |-> W[i]]
    OBVIOUS
  <2> HIDE DEF W
  <2>5. LoopTo(W, m, start, a, s, cs, persist)
    BY <2>3, <2>4 DEF LoopTo
  <2> QED
    BY <2>5
<1>3. n \in 0..n
  OBVIOUS
<1> HIDE DEF C
<1>4. n \in C
  BY <1>1, <1>2, <1>3, EveryTurn
<1> QED
  BY <1>4 DEF C

LEMMA Loop ==
  ASSUME NEW a, NEW d, NEW s, NEW cs, Len(cs) \in Nat, NEW at, NEW id, NEW persist
  PROVE  \E W : Turns(W, a, d, s, cs, at, id, persist)
<1> DEFINE start == Start(a, d, s, at, id)
           V == CHOOSE W : LoopTo(W, Len(cs), start, a, s, cs, persist)
<1>1. applyExtract(a, d, s, cs, at, id, persist) = V[Len(cs)]
  BY DEF applyExtract, LoopTo, Start
<1> HIDE DEF start
<1>2. LoopTo(V, Len(cs), start, a, s, cs, persist)
  BY LoopExists
<1> HIDE DEF V
<1>3. V = [i \in 0..Len(cs) |-> IF i = 0 THEN start ELSE Persist(a, V[i - 1], s, cs[i], persist)]
  BY <1>2 DEF LoopTo
<1>4. \A i \in 0..Len(cs) : V[i] = IF i = 0 THEN start ELSE Persist(a, V[i - 1], s, cs[i], persist)
  BY <1>3, Zenon
<1>5. 0 \in 0..Len(cs) /\ \A i \in 1..Len(cs) : i \in 0..Len(cs) /\ i # 0
  OBVIOUS
<1>6. V[0] = start /\ \A i \in 1..Len(cs) : V[i] = Persist(a, V[i - 1], s, cs[i], persist)
  BY <1>4, <1>5
<1> QED
  BY <1>1, <1>6 DEF Turns, start

(***************************************************************************)
(* One turn.                                                               *)
(***************************************************************************)
Adapters == {"sqlite", "memory"}

Run == [d : Tables, known : SUBSET Claims, proposed : Seq(Proposal), id : Nat, at : Nat]

Named(d, n) == \E e \in d.entities : e.name = n

\* An entity has a name of its own, and an alias.
OneEntityEach(d) ==
  /\ \A e, x \in d.entities : e.name = x.name => e = x
  /\ \A n \in Names : d.aliases[n] > 0 <=> Named(d, n)

\* Extraction writes to facts, entities and aliases.
SameOtherwise(d, e) ==
  /\ e.spaces = d.spaces /\ e.episodes = d.episodes /\ e.fts = d.fts
  /\ e.evidence = d.evidence /\ e.decisions = d.decisions

\* What naming a subject makes of the entities, on either adapter.
WithSubject(rows, s, c) == SqliteInsertEntity(rows, [name |-> Subject[c.claim], space |-> s])

NewFact(run, s, c) ==
  [id |-> run.id + 1, space |-> s, claim |-> c.claim, source |-> c.source,
   at |-> run.at, live |-> TRUE]

Persisted(run, t, s, c) ==
  /\ t \in Run /\ OneEntityEach(t.d) /\ SameOtherwise(run.d, t.d)
  /\ t.d.entities = WithSubject(run.d.entities, s, c)
  /\ t.at = run.at
  /\ c.claim \in run.known =>
       /\ t.d.facts = run.d.facts /\ t.known = run.known
       /\ t.proposed = run.proposed /\ t.id = run.id
  /\ c.claim \notin run.known =>
       /\ t.d.facts = run.d.facts \union {NewFact(run, s, c)}
       /\ t.known = run.known \union {c.claim}
       /\ t.proposed = Append(run.proposed, c) /\ t.id = run.id + 1

LEMMA NamesSubject ==
  ASSUME NEW a \in Adapters, NEW d \in Tables, OneEntityEach(d), NEW s \in Spaces,
         NEW c \in Proposal, NEW e, e = NameSubject(a, d, s, Subject[c.claim])
  PROVE  /\ e \in Tables /\ OneEntityEach(e) /\ SameOtherwise(d, e) /\ e.facts = d.facts
         /\ e.entities = WithSubject(d.entities, s, c)
<1> DEFINE n == Subject[c.claim]
           new == [name |-> n, space |-> s]
<1>1. n \in Names /\ new \in Entity
  BY DEF Proposal, Names, Entity
<1>2. d.entities \subseteq Entity /\ d.aliases \in [Names -> Nat]
  BY DEF Tables
<1>3. CASE FindByAlias(a, d, s, n) # {}
  <2>1. e = d
    BY <1>3 DEF NameSubject
  <2>2. \E r \in d.entities : r.name = n
    BY <1>3 DEF FindByAlias, SqliteFindByAlias, MemoryFindByAlias
  <2>3. WithSubject(d.entities, s, c) = d.entities
    BY <2>2 DEF WithSubject, SqliteInsertEntity
  <2> QED
    BY <2>1, <2>3 DEF SameOtherwise
<1>4. CASE FindByAlias(a, d, s, n) = {}
  <2> DEFINE rows == IF a = "sqlite" THEN SqliteInsertEntity(d.entities, new)
                     ELSE d.entities \union {new}
             names == [d.aliases EXCEPT ![n] = @ + 1]
  <2>1. e = [d EXCEPT !.entities = rows, !.aliases = names]
    BY <1>4 DEF NameSubject, InsertEntity
  <2>2. rows = SqliteInsertEntity(d.entities, new)
    <3>1. CASE a = "sqlite"
      BY <3>1
    <3>2. CASE a = "memory"
      <4>1. ~Named(d, n)
        BY <1>1, <1>2, <1>4, <3>2 DEF FindByAlias, MemoryFindByAlias, OneEntityEach, Named
      <4> QED
        BY <3>2, <4>1 DEF SqliteInsertEntity, Named
    <3> QED
      BY <3>1, <3>2 DEF Adapters
  <2>3. rows \subseteq Entity /\ names \in [Names -> Nat]
    BY <1>1, <1>2, <2>2 DEF SqliteInsertEntity
  <2>4. \A r, x \in rows : r.name = x.name => r = x
    BY <1>1, <2>2 DEF SqliteInsertEntity, OneEntityEach
  <2>5. \A m \in Names : names[m] = IF m = n THEN d.aliases[m] + 1 ELSE d.aliases[m]
    BY <1>1, <1>2
  <2>6. \A m \in Names : (\E r \in rows : r.name = m) <=> (m = n \/ Named(d, m))
    BY <1>1, <2>2 DEF SqliteInsertEntity, Named
  <2> HIDE DEF rows, names
  <2>7. e \in Tables /\ e.entities = rows /\ e.aliases = names /\ e.facts = d.facts /\ SameOtherwise(d, e)
    BY <2>1, <2>3 DEF Tables, SameOtherwise
  <2>8. OneEntityEach(e)
    BY <1>2, <2>4, <2>5, <2>6, <2>7 DEF OneEntityEach, Named
  <2> QED
    BY <2>2, <2>7, <2>8 DEF WithSubject
<1> QED
  BY <1>3, <1>4

\* A run t with these fields, begun with run.
Becomes(run, t, g, known, proposed, id) ==
  /\ t \in Run
  /\ t.d = g /\ t.known = known /\ t.proposed = proposed /\ t.id = id /\ t.at = run.at

LEMMA NextRun ==
  ASSUME NEW run \in Run, NEW g \in Tables, NEW known \in SUBSET Claims,
         NEW proposed \in Seq(Proposal), NEW id \in Nat,
         NEW t, t = [run EXCEPT !.d = g, !.known = known, !.proposed = proposed, !.id = id]
  PROVE  Becomes(run, t, g, known, proposed, id)
<1>1. run \in [d : Tables, known : SUBSET Claims, proposed : Seq(Proposal), id : Nat, at : Nat]
  BY DEF Run
<1>2. PICK T, K, P : T = Tables /\ K = SUBSET Claims /\ P = Seq(Proposal)
  OBVIOUS
<1>3. /\ run \in [d : T, known : K, proposed : P, id : Nat, at : Nat]
      /\ g \in T /\ known \in K /\ proposed \in P
  BY <1>1, <1>2, Zenon
<1>4. /\ t \in [d : T, known : K, proposed : P, id : Nat, at : Nat]
      /\ t.d = g /\ t.known = known /\ t.proposed = proposed /\ t.id = id /\ t.at = run.at
  BY <1>3
<1> QED
  BY <1>2, <1>4, Zenon DEF Run, Becomes

LEMMA Persists ==
  ASSUME NEW a \in Adapters, NEW run \in Run, OneEntityEach(run.d), NEW s \in Spaces,
         NEW c \in Proposal, NEW t, t = Persist(a, run, s, c, TRUE)
  PROVE  Persisted(run, t, s, c)
<1>1. PICK e : e = NameSubject(a, run.d, s, Subject[c.claim])
  OBVIOUS
<1>2. run.d \in Tables /\ run.id \in Nat /\ run.at \in Nat
  BY DEF Run
<1>3. /\ e \in Tables /\ OneEntityEach(e) /\ SameOtherwise(run.d, e) /\ e.facts = run.d.facts
      /\ e.entities = WithSubject(run.d.entities, s, c)
  BY <1>1, <1>2, NamesSubject
<1>4. CASE c.claim \in run.known
  <2>1. t = [run EXCEPT !.d = e]
    BY <1>1, <1>4 DEF Persist, AlreadyHeld
  <2>2. t \in Run /\ t.d = e /\ t.known = run.known /\ t.proposed = run.proposed
        /\ t.id = run.id /\ t.at = run.at
    BY <1>3, <2>1 DEF Run
  <2> QED
    BY <1>3, <1>4, <2>2 DEF Persisted
<1>5. CASE c.claim \notin run.known
  <2> DEFINE g == [e EXCEPT !.facts = @ \union {NewFact(run, s, c)}]
             known == run.known \union {c.claim}
             proposed == Append(run.proposed, c)
  <2>1. t = [run EXCEPT !.d = g, !.known = known, !.proposed = proposed, !.id = run.id + 1]
    BY <1>1, <1>5 DEF Persist, AlreadyHeld, NewFact, Run
  <2>2. NewFact(run, s, c) \in Fact
    BY <1>2 DEF NewFact, Fact, Proposal
  <2>3. /\ g \in Tables /\ g.entities = e.entities /\ g.aliases = e.aliases
        /\ g.facts = run.d.facts \union {NewFact(run, s, c)}
        /\ SameOtherwise(run.d, g)
    BY <1>3, <2>2 DEF Tables, SameOtherwise
  <2>4. OneEntityEach(g)
    BY <1>3, <2>3 DEF OneEntityEach, Named
  <2> HIDE DEF g
  <2>5. proposed \in Seq(Proposal) /\ known \in SUBSET Claims
    BY AppendProperties DEF Run, Proposal
  <2> HIDE DEF known, proposed
  <2>6. /\ t \in Run /\ t.d = g /\ t.known = known
        /\ t.proposed = proposed /\ t.id = run.id + 1 /\ t.at = run.at
    <3>1. run.id + 1 \in Nat /\ run \in Run
      BY <1>2
    <3>2. Becomes(run, t, g, known, proposed, run.id + 1)
      BY <2>1, <2>3, <2>5, <3>1, NextRun, Zenon
    <3> QED
      BY <3>2 DEF Becomes
  <2> QED
    BY <1>3, <1>5, <2>3, <2>4, <2>6 DEF known, proposed, Persisted
<1> QED
  BY <1>4, <1>5

\* The same of a preview, which does not persist.
Previewed(run, t, c) ==
  /\ t \in Run /\ t.d = run.d /\ t.at = run.at
  /\ c.claim \in run.known => t = run
  /\ c.claim \notin run.known =>
       /\ t.known = run.known \union {c.claim}
       /\ t.proposed = Append(run.proposed, c) /\ t.id = run.id + 1

LEMMA Previews ==
  ASSUME NEW a, NEW run \in Run, NEW s, NEW c \in Proposal,
         NEW t, t = Persist(a, run, s, c, FALSE)
  PROVE  Previewed(run, t, c)
<1>1. CASE c.claim \in run.known
  <2>1. t = [run EXCEPT !.d = run.d]
    BY <1>1 DEF Persist, AlreadyHeld
  <2> QED
    BY <1>1, <2>1 DEF Run, Previewed
<1>2. CASE c.claim \notin run.known
  <2> DEFINE known == run.known \union {c.claim}
             proposed == Append(run.proposed, c)
  <2>1. t = [run EXCEPT !.d = run.d, !.known = known, !.proposed = proposed, !.id = run.id + 1]
    BY <1>2 DEF Persist, AlreadyHeld, Run
  <2>2. proposed \in Seq(Proposal) /\ known \in SUBSET Claims
    BY AppendProperties DEF Run, Proposal
  <2> HIDE DEF known, proposed
  <2>3. /\ t \in Run /\ t.d = run.d /\ t.known = known
        /\ t.proposed = proposed /\ t.id = run.id + 1 /\ t.at = run.at
    <3>1. run.id + 1 \in Nat /\ run.d \in Tables /\ run \in Run
      BY DEF Run
    <3>2. Becomes(run, t, run.d, known, proposed, run.id + 1)
      BY <2>1, <2>2, <3>1, NextRun, Zenon
    <3> QED
      BY <3>2 DEF Becomes
  <2> QED
    BY <1>2, <2>3 DEF known, proposed, Previewed
<1> QED
  BY <1>1, <1>2

(***************************************************************************)
(* What extraction leaves.                                                 *)
(***************************************************************************)
Added(d, e) == e.facts \ d.facts

\* The facts it added are of the space, current, and what candidates say,
\* each of a claim that was not held.
FactsOf(run, d, s, cs, id, held) ==
  /\ d.facts \subseteq run.d.facts
  /\ \A f \in Added(d, run.d) :
       /\ f.space = s /\ f.live /\ f.at = run.at /\ f.id \in (id + 1)..run.id
       /\ Named(run.d, Subject[f.claim]) /\ f.claim \in run.known \ held
       /\ \E j \in 1..Len(cs) : cs[j].claim = f.claim /\ cs[j].source = f.source
  /\ \A f, x \in Added(d, run.d) : f.id = x.id \/ f.claim = x.claim => f = x
  /\ \A c \in run.known \ held : \E f \in Added(d, run.d) : f.claim = c

\* After i candidates.
TurnInv(run, i, d, s, cs, id, held) ==
  /\ run \in Run /\ id <= run.id
  /\ OneEntityEach(run.d) /\ SameOtherwise(d, run.d)
  /\ d.entities \subseteq run.d.entities
  /\ \A x \in run.d.entities \ d.entities : x.space = s
  /\ run.known = held \union {cs[j].claim : j \in 1..i}
  /\ FactsOf(run, d, s, cs, id, held)

LEMMA WithSubjectIs ==
  ASSUME NEW rows, NEW s, NEW c
  PROVE  /\ rows \subseteq WithSubject(rows, s, c)
         /\ \A x \in WithSubject(rows, s, c) \ rows : x.space = s
         /\ \E x \in WithSubject(rows, s, c) : x.name = Subject[c.claim]
<1>1. PICK new : new = [name |-> Subject[c.claim], space |-> s]
  OBVIOUS
<1>2. WithSubject(rows, s, c) = IF \E r \in rows : r.name = new.name THEN rows ELSE rows \union {new}
  BY <1>1 DEF WithSubject, SqliteInsertEntity
<1>3. new.name = Subject[c.claim] /\ new.space = s
  BY <1>1
<1> QED
  BY <1>2, <1>3

LEMMA OneMore ==
  ASSUME NEW x \in Nat, NEW y \in Nat, x <= y, NEW z \in {y, y + 1}
  PROVE  /\ x <= z /\ z \in Nat /\ \A k \in (x + 1)..y : k \in (x + 1)..z
         /\ z = y + 1 => z \in (x + 1)..z
  OBVIOUS

LEMMA PersistedNames ==
  ASSUME NEW run, NEW t, NEW s, NEW c, Persisted(run, t, s, c)
  PROVE  /\ run.d.entities \subseteq t.d.entities
         /\ \A x \in t.d.entities \ run.d.entities : x.space = s
         /\ Named(t.d, Subject[c.claim])
<1>1. t.d.entities = WithSubject(run.d.entities, s, c)
  BY DEF Persisted
<1>2. /\ run.d.entities \subseteq WithSubject(run.d.entities, s, c)
      /\ \A x \in WithSubject(run.d.entities, s, c) \ run.d.entities : x.space = s
      /\ \E x \in WithSubject(run.d.entities, s, c) : x.name = Subject[c.claim]
  BY WithSubjectIs, Zenon
<1> QED
  BY <1>1, <1>2 DEF Named

\* The candidate of turn i, which comes after turn k.
InTurn(c, cs, k, i) == i \in 1..Len(cs) /\ k = i - 1 /\ c = cs[i]

LEMMA TurnKeeps ==
  ASSUME NEW d \in Tables, NEW s \in Spaces, NEW cs \in Seq(Proposal),
         NEW id \in Nat, NEW held, Keyed(d.facts, id),
         NEW c, NEW i, NEW k, InTurn(c, cs, k, i),
         NEW run, TurnInv(run, k, d, s, cs, id, held),
         NEW t, Persisted(run, t, s, c)
  PROVE  TurnInv(t, i, d, s, cs, id, held) /\ t.at = run.at
<1>1. Len(cs) \in Nat
  BY LenProperties
<1>2. run \in Run /\ OneEntityEach(run.d)
  BY DEF TurnInv
<1>3. c = cs[i] /\ k = i - 1 /\ i \in 1..Len(cs)
  BY DEF InTurn
<1>4. /\ t \in Run /\ OneEntityEach(t.d) /\ SameOtherwise(run.d, t.d)
      /\ t.d.entities = WithSubject(run.d.entities, s, c)
      /\ t.at = run.at
      /\ c.claim \in run.known =>
           /\ t.d.facts = run.d.facts /\ t.known = run.known
           /\ t.proposed = run.proposed /\ t.id = run.id
      /\ c.claim \notin run.known =>
           /\ t.d.facts = run.d.facts \union {NewFact(run, s, c)}
           /\ t.known = run.known \union {c.claim}
           /\ t.proposed = Append(run.proposed, c) /\ t.id = run.id + 1
  BY DEF Persisted
<1>5. SameOtherwise(d, t.d)
  BY <1>4 DEF TurnInv, SameOtherwise
<1>6. /\ run.d.entities \subseteq t.d.entities
      /\ \A x \in t.d.entities \ run.d.entities : x.space = s
      /\ Named(t.d, Subject[c.claim])
  BY PersistedNames
<1>7. /\ d.entities \subseteq t.d.entities
      /\ \A x \in t.d.entities \ d.entities : x.space = s
  BY <1>6 DEF TurnInv
<1>8. t.known = held \union {cs[j].claim : j \in 1..i}
  <2>1. {cs[j].claim : j \in 1..i} = {cs[j].claim : j \in 1..k} \union {c.claim}
    <3>1. 1..i = 1..k \union {i}
      BY <1>1, <1>3
    <3> QED
      BY <1>3, <3>1
  <2>2. t.known = run.known \union {c.claim}
    BY <1>4
  <2> QED
    BY <2>1, <2>2 DEF TurnInv
<1>9. FactsOf(t, d, s, cs, id, held)
  <2>1. \A n : Named(run.d, n) => Named(t.d, n)
    BY <1>6 DEF Named
  <2>4. \A f \in Added(d, run.d) :
          /\ f.space = s /\ f.live /\ f.at = run.at /\ f.id \in (id + 1)..run.id
          /\ Named(run.d, Subject[f.claim]) /\ f.claim \in run.known \ held
          /\ \E j \in 1..Len(cs) : cs[j].claim = f.claim /\ cs[j].source = f.source
    BY DEF TurnInv, FactsOf
  <2>5. \A f, x \in Added(d, run.d) : f.id = x.id \/ f.claim = x.claim => f = x
    BY DEF TurnInv, FactsOf
  <2>6. \A x \in run.known \ held : \E f \in Added(d, run.d) : f.claim = x
    BY DEF TurnInv, FactsOf
  <2>2. CASE c.claim \in run.known
    <3>1. t.d.facts = run.d.facts /\ t.known = run.known /\ t.id = run.id /\ t.at = run.at
      BY <1>4, <2>2
    <3>2. Added(d, t.d) = Added(d, run.d) /\ d.facts \subseteq t.d.facts
      BY <3>1 DEF Added, TurnInv, FactsOf
    <3> QED
      BY <2>1, <2>4, <2>5, <2>6, <3>1, <3>2, Zenon DEF FactsOf
  <2>3. CASE c.claim \notin run.known
    <3> DEFINE new == NewFact(run, s, c)
    <3>1. /\ new.space = s /\ new.live /\ new.at = run.at /\ new.id = run.id + 1
          /\ new.claim = c.claim /\ new.source = c.source
      BY DEF NewFact
    <3>2. run.id \in Nat /\ id <= run.id /\ t.id = run.id + 1 /\ t.at = run.at
      BY <1>2, <1>4, <2>3 DEF Run, TurnInv
    <3>3. new \notin d.facts
      BY <3>1, <3>2 DEF Keyed
    <3> HIDE DEF new
    <3>4. Added(d, t.d) = Added(d, run.d) \union {new}
      BY <1>4, <2>3, <3>3 DEF Added, new
    <3>5. \A f \in Added(d, run.d) : f.id # new.id /\ f.claim # new.claim
      BY <2>3, <3>1, <3>2 DEF TurnInv, FactsOf
    <3>6. d.facts \subseteq t.d.facts
      BY <1>4, <2>3 DEF TurnInv, FactsOf
    <3>7. c.claim \in t.known \ held /\ run.known \subseteq t.known
      BY <1>4, <2>3 DEF TurnInv
    <3>8. ASSUME NEW f \in Added(d, t.d)
          PROVE  /\ f.space = s /\ f.live /\ f.at = t.at /\ f.id \in (id + 1)..t.id
                 /\ Named(t.d, Subject[f.claim]) /\ f.claim \in t.known \ held
                 /\ \E j \in 1..Len(cs) : cs[j].claim = f.claim /\ cs[j].source = f.source
      <4>1. CASE f = new
        <5>1. f.space = s /\ f.live /\ f.at = t.at
          BY <3>1, <3>2, <4>1
        <5>2. f.id \in (id + 1)..t.id
          <6>1. f.id = t.id /\ t.id = run.id + 1
            BY <3>1, <3>2, <4>1
          <6>2. t.id \in (id + 1)..t.id
            BY <3>2, OneMore
          <6> QED
            BY <6>1, <6>2
        <5>3. Named(t.d, Subject[f.claim]) /\ f.claim \in t.known \ held
          BY <1>6, <3>1, <3>7, <4>1
        <5>4. \E j \in 1..Len(cs) : cs[j].claim = f.claim /\ cs[j].source = f.source
          BY <1>3, <3>1, <4>1
        <5> QED
          BY <5>1, <5>2, <5>3, <5>4
      <4>2. CASE f \in Added(d, run.d)
        <5>1. f.id \in (id + 1)..t.id
          BY <2>4, <3>2, <4>2, OneMore
        <5> QED
          BY <2>1, <2>4, <3>2, <3>7, <4>2, <5>1
      <4> QED
        BY <3>4, <4>1, <4>2
    <3>9. \A f, x \in Added(d, t.d) : f.id = x.id \/ f.claim = x.claim => f = x
      BY <2>5, <3>4, <3>5
    <3>10. \A x \in t.known \ held : \E f \in Added(d, t.d) : f.claim = x
      <4>1. t.known = run.known \union {new.claim}
        BY <1>4, <2>3, <3>1
      <4> QED
        BY <2>6, <3>4, <4>1
    <3> QED
      BY <3>6, <3>8, <3>9, <3>10 DEF FactsOf
  <2> QED
    BY <2>2, <2>3
<1>10. id <= t.id
  <2>1. id <= run.id /\ run.id \in Nat /\ t.id \in {run.id, run.id + 1}
    BY <1>2, <1>4 DEF TurnInv, Run
  <2> QED
    BY <2>1, OneMore
<1> QED
  BY <1>4, <1>5, <1>7, <1>8, <1>9, <1>10 DEF TurnInv

\* The claims that extraction knows of before it begins.
Held(a, d, s) == {f.claim : f \in ToSet(FactRows(a, d, s, FactLimit))}

LEMMA StartIs ==
  ASSUME NEW a, NEW d, NEW s, NEW id, NEW at, NEW r, r = Start(a, d, s, at, id)
  PROVE  r.d = d /\ r.known = Held(a, d, s) /\ r.proposed = <<>> /\ r.id = id /\ r.at = at
  BY DEF Start, Held

LEMMA RunOf ==
  ASSUME NEW T, NEW K, NEW P, NEW d \in T, NEW known \in K, NEW proposed \in P,
         NEW id \in Nat, NEW at \in Nat, NEW r,
         r = [d |-> d, known |-> known, proposed |-> proposed, id |-> id, at |-> at]
  PROVE  r \in [d : T, known : K, proposed : P, id : Nat, at : Nat]
  OBVIOUS

LEMMA StartRuns ==
  ASSUME NEW a, NEW d \in Tables, Table(d.facts), NEW s, NEW id \in Nat, NEW at \in Nat,
         NEW r, r = Start(a, d, s, at, id)
  PROVE  r \in Run
<1>1. Held(a, d, s) \in SUBSET Claims
  <2>1. FactLimit \in Nat
    BY SpacesConstants
  <2>2. ToSet(FactRows(a, d, s, FactLimit)) \subseteq Live(d.facts, s)
    BY <2>1, FactRowsAre
  <2>3. \A f \in Live(d.facts, s) : f.claim \in Claims
    BY DEF Live, Tables, Fact
  <2> QED
    BY <2>2, <2>3 DEF Held
<1>2. <<>> \in Seq(Proposal)
  OBVIOUS
<1>3. PICK held : held = Held(a, d, s)
  OBVIOUS
<1>4. r = [d |-> d, known |-> held, proposed |-> <<>>, id |-> id, at |-> at]
  BY <1>3 DEF Start, Held
<1>5. held \in SUBSET Claims
  BY <1>1, <1>3
<1>6. id \in Nat /\ at \in Nat /\ d \in Tables
  OBVIOUS
<1> QED
  BY <1>2, <1>4, <1>5, <1>6, RunOf DEF Run

LEMMA Starts ==
  ASSUME NEW a, NEW d \in Tables, OneEntityEach(d), NEW s, NEW cs, NEW id \in Nat, NEW at \in Nat,
         Keyed(d.facts, id)
  PROVE  /\ TurnInv(Start(a, d, s, at, id), 0, d, s, cs, id, Held(a, d, s))
         /\ Start(a, d, s, at, id) \in Run
<1> DEFINE r == Start(a, d, s, at, id)
           held == Held(a, d, s)
<1>3. r.d = d /\ r.known = held /\ r.proposed = <<>> /\ r.id = id /\ r.at = at
  BY DEF Start, Held
<1>4. r \in Run
  BY KeyedIsTable, StartRuns
<1> HIDE DEF r, held
<1>5. {cs[j].claim : j \in 1..0} = {}
  OBVIOUS
<1>6. Added(d, r.d) = {} /\ r.known \ held = {}
  BY <1>3 DEF Added
<1>7. FactsOf(r, d, s, cs, id, held)
  BY <1>3, <1>6 DEF FactsOf
<1>8. TurnInv(r, 0, d, s, cs, id, held)
  BY <1>3, <1>4, <1>5, <1>7 DEF TurnInv, SameOtherwise
<1> QED
  BY <1>4, <1>8 DEF r, held

\* After the last one.
Extracted(r, d, s, cs, id, held, at) ==
  TurnInv(r, Len(cs), d, s, cs, id, held) /\ r.at = at

LEMMA Extracts ==
  ASSUME NEW a \in Adapters, NEW d \in Tables, OneEntityEach(d), NEW s \in Spaces,
         NEW cs \in Seq(Proposal), NEW id \in Nat, NEW at \in Nat, Keyed(d.facts, id),
         NEW r, r = applyExtract(a, d, s, cs, at, id, TRUE)
  PROVE  Extracted(r, d, s, cs, id, Held(a, d, s), at)
<1>1. PICK n \in Nat : n = Len(cs)
  BY LenProperties
<1>2. PICK W : Turns(W, a, d, s, cs, at, id, TRUE)
  BY <1>1, Loop
<1>7. r = W[n]
  BY <1>1, <1>2 DEF Turns
<1> DEFINE C == {i \in 0..n : TurnInv(W[i], i, d, s, cs, id, Held(a, d, s)) /\ W[i].at = at}
<1>3. 0 \in C
  <2>1. W[0] = Start(a, d, s, at, id) /\ W[0].at = at
    BY <1>2 DEF Turns, Start
  <2>2. TurnInv(W[0], 0, d, s, cs, id, Held(a, d, s))
    BY <2>1, Starts
  <2> QED
    BY <2>1, <2>2
<1>4. ASSUME NEW i \in 1..n, i - 1 \in C
      PROVE  i \in C
  <2>1. W[i] = Persist(a, W[i - 1], s, cs[i], TRUE)
    BY <1>1, <1>2 DEF Turns
  <2>2. i \in 1..Len(cs) /\ TurnInv(W[i - 1], i - 1, d, s, cs, id, Held(a, d, s)) /\ W[i - 1].at = at
    BY <1>1, <1>4
  <2>3. PICK run, t, held : run = W[i - 1] /\ t = W[i] /\ held = Held(a, d, s)
    OBVIOUS
  <2>4. TurnInv(run, i - 1, d, s, cs, id, held) /\ t = Persist(a, run, s, cs[i], TRUE)
    BY <2>1, <2>2, <2>3
  <2>5. TurnInv(t, i, d, s, cs, id, held) /\ t.at = run.at
    <3>1. PICK j, c : j = i - 1 /\ c = cs[i]
      OBVIOUS
    <3>2. TurnInv(run, j, d, s, cs, id, held) /\ j = i - 1 /\ i \in 1..Len(cs) /\ c = cs[i]
      BY <2>2, <2>4, <3>1
    <3>3. Persisted(run, t, s, c)
      <4>1. run \in Run /\ OneEntityEach(run.d)
        BY <3>2 DEF TurnInv
      <4>2. c \in Proposal
        BY <3>2, LenProperties, ElementOfSeq
      <4>3. t = Persist(a, run, s, c, TRUE)
        BY <2>4, <3>2
      <4> QED
        BY <4>1, <4>2, <4>3, Persists, Zenon
    <3> HIDE DEF C
    <3>4. InTurn(c, cs, j, i)
      BY <3>2 DEF InTurn
    <3> QED
      BY <3>2, <3>3, <3>4, TurnKeeps
  <2> QED
    BY <1>4, <2>2, <2>3, <2>5
<1> HIDE DEF C
<1>5. 0..n \subseteq C
  BY <1>3, <1>4, EveryTurn
<1>6. n \in C
  BY <1>5
<1> QED
  BY <1>1, <1>6, <1>7 DEF C, Extracted

(***************************************************************************)
(* Both adapters make the same of the same candidates.                     *)
(***************************************************************************)
SameRun(u, v) ==
  /\ u.known = v.known /\ u.proposed = v.proposed /\ u.id = v.id /\ u.at = v.at
  /\ u.d.facts = v.d.facts /\ u.d.entities = v.d.entities

Fits(run) == run \in Run /\ OneEntityEach(run.d)

Alike(u, v) == Fits(u) /\ Fits(v) /\ SameRun(u, v)

LEMMA SameTurn ==
  ASSUME NEW a \in Adapters, NEW b \in Adapters, NEW s \in Spaces, NEW c \in Proposal,
         NEW u, NEW v, Alike(u, v),
         NEW x, x = Persist(a, u, s, c, TRUE),
         NEW y, y = Persist(b, v, s, c, TRUE)
  PROVE  Alike(x, y)
<1>0. Fits(u) /\ Fits(v) /\ SameRun(u, v)
  BY DEF Alike
<1>1. Persisted(u, x, s, c) /\ Persisted(v, y, s, c)
  BY <1>0, Persists DEF Fits
<1>2. Fits(x) /\ Fits(y)
  BY <1>1 DEF Fits, Persisted
<1>3. x.d.entities = y.d.entities /\ x.at = y.at
  BY <1>0, <1>1 DEF Persisted, SameRun
<1>4. NewFact(u, s, c) = NewFact(v, s, c)
  BY <1>0 DEF NewFact, SameRun
<1>5. x.known = y.known /\ x.proposed = y.proposed /\ x.id = y.id /\ x.d.facts = y.d.facts
  BY <1>0, <1>1, <1>4 DEF Persisted, SameRun
<1> QED
  BY <1>2, <1>3, <1>5 DEF Alike, SameRun

LEMMA SameExtraction ==
  ASSUME NEW d \in Tables, NEW e \in Tables, OneEntityEach(d), OneEntityEach(e),
         d.facts = e.facts, d.entities = e.entities,
         NEW a \in Adapters, NEW b \in Adapters,
         NEW s \in Spaces, Held(a, d, s) = Held(b, e, s),
         NEW cs \in Seq(Proposal), NEW id \in Nat, NEW at \in Nat, Keyed(d.facts, id)
  PROVE  SameRun(applyExtract(a, d, s, cs, at, id, TRUE), applyExtract(b, e, s, cs, at, id, TRUE))
<1>1. PICK n \in Nat : n = Len(cs)
  BY LenProperties
<1>2. PICK W : Turns(W, a, d, s, cs, at, id, TRUE)
  BY <1>1, Loop
<1>3. PICK V : Turns(V, b, e, s, cs, at, id, TRUE)
  BY <1>1, Loop
<1> DEFINE C == {i \in 0..n : Alike(W[i], V[i])}
<1>4. 0 \in C
  <2>1. W[0] = Start(a, d, s, at, id) /\ V[0] = Start(b, e, s, at, id)
    BY <1>2, <1>3 DEF Turns
  <2>2. W[0] \in Run /\ V[0] \in Run
    BY <2>1, Starts
  <2>3. W[0].d = d /\ V[0].d = e
    BY <2>1 DEF Start
  <2>4. SameRun(W[0], V[0])
    BY <2>1, StartIs DEF SameRun
  <2> QED
    BY <2>2, <2>3, <2>4 DEF Alike, Fits
<1>5. ASSUME NEW i \in 1..n, i - 1 \in C
      PROVE  i \in C
  <2>1. /\ W[i] = Persist(a, W[i - 1], s, cs[i], TRUE)
        /\ V[i] = Persist(b, V[i - 1], s, cs[i], TRUE)
    BY <1>1, <1>2, <1>3 DEF Turns
  <2>2. cs[i] \in Proposal
    BY <1>1, ElementOfSeq
  <2>3. Alike(W[i], V[i])
    BY <1>5, <2>1, <2>2, SameTurn
  <2> QED
    BY <2>3
<1> HIDE DEF C
<1>6. 0..n \subseteq C
  BY <1>4, <1>5, EveryTurn
<1>7. n \in C
  BY <1>6
<1> QED
  BY <1>1, <1>2, <1>3, <1>7 DEF C, Alike, Turns

(***************************************************************************)
(* The state.                                                              *)
(***************************************************************************)
SpacesTypeOK ==
  /\ db \in Tables /\ mem \in Tables /\ pg \subseteq Episode
  /\ now \in Nat /\ ops \in Nat
  /\ newId \in [episode : Nat, fact : Nat]
  /\ review \in Seq(Proposal)
  /\ loose \subseteq Spaces \X Nat /\ created \subseteq Spaces

\* A table of facts, each about a known subject.
FactsInv(d) ==
  /\ Keyed(d.facts, newId.fact)
  /\ OneEntityEach(d)
  /\ \A f \in d.facts : Named(d, Subject[f.claim])

\* Whatever was asked, the adapters hold the same episodes, evidence and
\* decisions, and the same spaces but for the one SQLite does not delete.
RowsInv ==
  /\ mem.episodes = db.episodes /\ pg = db.episodes
  /\ mem.evidence = db.evidence /\ mem.decisions = db.decisions
  /\ \A s \in Spaces : s # Default => mem.spaces[s] = db.spaces[s]
  /\ db.fts = {r.id : r \in db.episodes}
  /\ Keyed(db.episodes, newId.episode)
  /\ FactsInv(db) /\ FactsInv(mem)

SpacesInv == SpacesTypeOK /\ RowsInv

LEMMA InitTypes == SpacesInit => SpacesInv
<1> SUFFICES ASSUME SpacesInit PROVE SpacesInv
  OBVIOUS
<1>1. Len(Stored) \in Nat /\ DOMAIN Stored = 1..Len(Stored) /\ Default \in Spaces
  BY LenProperties, SpacesConstants
<1>2. \A i \in DOMAIN Stored : Stored[i] \in Contents
  BY <1>1, SpacesConstants, ElementOfSeq
<1> DEFINE rows == {NewEpisode(i, Default, Stored[i], i) : i \in DOMAIN Stored}
<1>3. \A i \in DOMAIN Stored :
        LET r == NewEpisode(i, Default, Stored[i], i)
        IN r \in Episode /\ r.id = i /\ r.at = i
  BY <1>1, <1>2 DEF NewEpisode, Episode
<1>4. rows \subseteq Episode /\ Keyed(rows, Len(Stored)) /\ {r.id : r \in rows} = DOMAIN Stored
  BY <1>1, <1>3 DEF Keyed
<1> HIDE DEF rows
<1>5. Seeded = [spaces |-> [s \in Spaces |-> IF s = Default THEN "private" ELSE "none"],
                episodes |-> rows, fts |-> DOMAIN Stored, evidence |-> DOMAIN Stored,
                facts |-> {}, entities |-> {}, aliases |-> [n \in Names |-> 0], decisions |-> {}]
  BY DEF Seeded, rows
<1>6. DOMAIN Stored \subseteq Nat
  BY <1>1
<1>7. Seeded \in Tables
  BY <1>4, <1>5, <1>6 DEF Tables, Visibility
<1>8. mem \in Tables /\ mem.episodes = rows /\ mem.evidence = db.evidence
      /\ mem.decisions = db.decisions /\ mem.spaces = db.spaces
      /\ mem.facts = {} /\ mem.entities = {} /\ mem.aliases = [n \in Names |-> 0]
  BY <1>5, <1>7 DEF SpacesInit, Tables
<1>9. db \in Tables /\ db.episodes = rows /\ db.fts = DOMAIN Stored
      /\ db.facts = {} /\ db.entities = {} /\ db.aliases = [n \in Names |-> 0]
  BY <1>5, <1>7 DEF SpacesInit
<1>10. pg = rows
  BY <1>5 DEF SpacesInit
<1>11. newId = [episode |-> Len(Stored), fact |-> 0] /\ now = Len(Stored)
       /\ review = <<>> /\ loose = {} /\ created = {Default} /\ ops = 0
  BY DEF SpacesInit
<1>12. SpacesTypeOK
  <2>1. review \in Seq(Proposal)
    BY <1>11
  <2> QED
    BY <1>1, <1>4, <1>8, <1>9, <1>10, <1>11, <2>1 DEF SpacesTypeOK
<1>13. FactsInv(db) /\ FactsInv(mem)
  BY <1>8, <1>9, <1>11 DEF FactsInv, Keyed, OneEntityEach, Named
<1> QED
  BY <1>4, <1>8, <1>9, <1>10, <1>11, <1>12, <1>13 DEF SpacesInv, RowsInv

\* What is put down is new.
LEMMA InsertEpisodesIs ==
  ASSUME NEW rows, rows \subseteq Episode, newId.episode \in Nat, Keyed(rows, newId.episode),
         NEW s \in Spaces, NEW texts \in Seq(Contents), NEW at \in Nat,
         NEW out, out = InsertEpisodes(rows, s, texts, at)
  PROVE  /\ out \subseteq Episode /\ Keyed(out, newId.episode + Len(texts))
         /\ {r.id : r \in out} = {r.id : r \in rows} \union NewIds(texts)
         /\ NewIds(texts) \subseteq Nat
         /\ rows \subseteq out /\ \A r \in out \ rows : r.space = s
<1>1. Len(texts) \in Nat /\ DOMAIN texts = 1..Len(texts)
  BY LenProperties
<1>2. \A i \in DOMAIN texts : texts[i] \in Contents
  BY <1>1, ElementOfSeq
<1>3. PICK n \in Nat : n = newId.episode
  OBVIOUS
<1> DEFINE new == {NewEpisode(n + i, s, texts[i], at) : i \in DOMAIN texts}
<1>4. \A i \in DOMAIN texts :
        LET r == NewEpisode(n + i, s, texts[i], at)
        IN r \in Episode /\ r.id = n + i /\ r.at = at /\ r.space = s
  BY <1>1, <1>2 DEF NewEpisode, Episode
<1>5. out = rows \union new
  BY <1>3 DEF InsertEpisodes
<1>6. /\ new \subseteq Episode /\ \A r \in new : r.space = s /\ r.at = at
      /\ {r.id : r \in new} = NewIds(texts)
      /\ \A r, x \in new : r.id = x.id => r = x
  BY <1>1, <1>3, <1>4 DEF NewIds
<1>7. \A r \in new : r.id \in (n + 1)..(n + Len(texts))
  BY <1>1, <1>4
<1>8. \A k \in (n + 1)..(n + Len(texts)) : k \in 1..(n + Len(texts)) /\ k \notin 1..n
  BY <1>1
<1>9. 1..n \subseteq 1..(n + Len(texts))
  BY <1>1
<1>10. NewIds(texts) \subseteq Nat
  BY <1>1, <1>3 DEF NewIds
<1> HIDE DEF new
<1>11. Keyed(out, n + Len(texts))
  BY <1>3, <1>5, <1>6, <1>7, <1>8, <1>9 DEF Keyed
<1> QED
  BY <1>3, <1>5, <1>6, <1>10, <1>11

\* A statement that rewrites rows in place leaves their ids and times.
Rewritten(rows, out, h, R) ==
  /\ out = {h[r] : r \in rows}
  /\ \A r \in rows : h[r] \in R /\ h[r].id = r.id /\ h[r].at = r.at

LEMMA RowsRewritten ==
  ASSUME NEW R, NEW rows, NEW n, Keyed(rows, n), NEW h, NEW out, Rewritten(rows, out, h, R)
  PROVE  out \subseteq R /\ Keyed(out, n) /\ {r.id : r \in out} = {r.id : r \in rows}
<1>1. out \subseteq R
  BY DEF Rewritten
<1>2. \A x \in out : \E r \in rows : x = h[r] /\ x.id = r.id /\ x.at = r.at
  BY DEF Rewritten
<1>3. \A r \in rows : h[r] \in out /\ h[r].id = r.id
  BY DEF Rewritten
<1>4. \A x \in out : x.id \in 1..n /\ x.at \in Nat
  BY <1>2 DEF Keyed
<1>5. ASSUME NEW x \in out, NEW y \in out, x.id = y.id PROVE x = y
  <2>1. PICK r \in rows, q \in rows : x = h[r] /\ x.id = r.id /\ y = h[q] /\ y.id = q.id
    BY <1>2
  <2>2. r = q
    BY <1>5, <2>1 DEF Keyed
  <2> QED
    BY <2>1, <2>2
<1>6. {r.id : r \in out} = {r.id : r \in rows}
  BY <1>2, <1>3
<1> QED
  BY <1>1, <1>4, <1>5, <1>6 DEF Keyed

\* No space shows the episode any more, and all else.
GoneFrom(rows, out, e) == \A t : Shown(out, t) = {r \in Shown(rows, t) : r.id # e}

IdsKept(rows, out, e, mode) ==
  {r.id : r \in out} =
    IF mode = "purge" THEN {r.id : r \in rows} \ {e} ELSE {r.id : r \in rows}

\* HideEpisode, DeleteEpisode and PurgeEpisode take one episode from what
\* its space shows; only the last one takes its row.
LEMMA PgForgottenIs ==
  ASSUME NEW rows, rows \subseteq Episode, NEW n, Keyed(rows, n), NEW e, NEW mode \in Modes,
         NEW out, out = PgForgotten(rows, e, mode)
  PROVE  /\ out \subseteq Episode /\ Keyed(out, n)
         /\ GoneFrom(rows, out, e) /\ IdsKept(rows, out, e, mode)
<1>1. CASE mode = "purge"
  <2>1. out = {r \in rows : r.id # e}
    BY <1>1 DEF PgForgotten, PurgeEpisode
  <2> QED
    BY <1>1, <2>1 DEF Keyed, Shown, GoneFrom, IdsKept
<1>2. CASE mode \in {"hide", "retract"}
  <2>1. out = {IF r.id = e THEN [r EXCEPT !.hidden = TRUE] ELSE r : r \in rows}
    BY <1>2 DEF PgForgotten, HideEpisode
  <2>2. \A r \in Episode :
          LET x == [r EXCEPT !.hidden = TRUE]
          IN x \in Episode /\ x.id = r.id /\ x.at = r.at /\ x.hidden
    BY DEF Episode
  <2> DEFINE h == [r \in rows |-> IF r.id = e THEN [r EXCEPT !.hidden = TRUE] ELSE r]
  <2>3. h \in [rows -> Episode] /\ \A r \in rows : h[r].id = r.id /\ h[r].at = r.at
    BY <2>2
  <2>4. out = {h[r] : r \in rows}
    BY <2>1
  <2>5. \A r \in rows : (r.id = e => h[r].hidden) /\ (r.id # e => h[r] = r)
    BY <2>2
  <2> HIDE DEF h
  <2>6. out \subseteq Episode /\ Keyed(out, n) /\ {r.id : r \in out} = {r.id : r \in rows}
    <3>1. Rewritten(rows, out, h, Episode)
      BY <2>3, <2>4 DEF Rewritten
    <3> QED
      BY <3>1, RowsRewritten
  <2>7. GoneFrom(rows, out, e)
    BY <2>3, <2>4, <2>5 DEF Shown, GoneFrom
  <2> QED
    BY <1>2, <2>6, <2>7 DEF IdsKept
<1>3. CASE mode = "delete"
  <2>1. out = {IF r.id = e THEN [r EXCEPT !.deleted = TRUE] ELSE r : r \in rows}
    BY <1>3 DEF PgForgotten, DeleteEpisode
  <2>2. \A r \in Episode :
          LET x == [r EXCEPT !.deleted = TRUE]
          IN x \in Episode /\ x.id = r.id /\ x.at = r.at /\ x.deleted
    BY DEF Episode
  <2> DEFINE h == [r \in rows |-> IF r.id = e THEN [r EXCEPT !.deleted = TRUE] ELSE r]
  <2>3. h \in [rows -> Episode] /\ \A r \in rows : h[r].id = r.id /\ h[r].at = r.at
    BY <2>2
  <2>4. out = {h[r] : r \in rows}
    BY <2>1
  <2>5. \A r \in rows : (r.id = e => h[r].deleted) /\ (r.id # e => h[r] = r)
    BY <2>2
  <2> HIDE DEF h
  <2>6. out \subseteq Episode /\ Keyed(out, n) /\ {r.id : r \in out} = {r.id : r \in rows}
    <3>1. Rewritten(rows, out, h, Episode)
      BY <2>3, <2>4 DEF Rewritten
    <3> QED
      BY <3>1, RowsRewritten
  <2>7. GoneFrom(rows, out, e)
    BY <2>3, <2>4, <2>5 DEF Shown, GoneFrom
  <2> QED
    BY <1>3, <2>6, <2>7 DEF IdsKept
<1> QED
  BY <1>1, <1>2, <1>3 DEF Modes

Retracted(rows, out, gone) ==
  /\ out \subseteq Fact
  /\ \A t : Live(out, t) = Live(rows, t) \ gone
  /\ \A f \in out : \E x \in rows : x.claim = f.claim

LEMMA RetractFactsIs ==
  ASSUME NEW rows, rows \subseteq Fact, NEW n, Keyed(rows, n), NEW gone, gone \subseteq rows,
         NEW out, out = RetractFacts(rows, gone)
  PROVE  Keyed(out, n) /\ Retracted(rows, out, gone)
<1>1. out = {IF f \in gone THEN [f EXCEPT !.live = FALSE] ELSE f : f \in rows}
  BY DEF RetractFacts
<1>2. \A f \in Fact :
        LET x == [f EXCEPT !.live = FALSE]
        IN x \in Fact /\ x.id = f.id /\ x.at = f.at /\ ~x.live /\ x.claim = f.claim
  BY DEF Fact
<1> DEFINE h == [f \in rows |-> IF f \in gone THEN [f EXCEPT !.live = FALSE] ELSE f]
<1>3. /\ h \in [rows -> Fact]
      /\ \A f \in rows : h[f].id = f.id /\ h[f].at = f.at /\ h[f].claim = f.claim
  BY <1>2
<1>4. out = {h[f] : f \in rows}
  BY <1>1
<1>5. \A f \in rows : (f \in gone => ~h[f].live) /\ (f \notin gone => h[f] = f)
  BY <1>2
<1> HIDE DEF h
<1>6. out \subseteq Fact /\ Keyed(out, n)
  <2>1. Rewritten(rows, out, h, Fact)
    BY <1>3, <1>4 DEF Rewritten
  <2> QED
    BY <2>1, RowsRewritten
<1>7. \A t : Live(out, t) = Live(rows, t) \ gone
  BY <1>3, <1>4, <1>5 DEF Live
<1>8. \A f \in out : \E x \in rows : x.claim = f.claim
  BY <1>3, <1>4
<1> QED
  BY <1>6, <1>7, <1>8 DEF Retracted

\* g has the rows of d but for these.
HasRows(d, g, E, I, V, F) ==
  /\ g \in Tables /\ g.entities = d.entities /\ g.aliases = d.aliases
  /\ g.decisions = d.decisions /\ g.spaces = d.spaces
  /\ g.episodes = E /\ g.fts = I /\ g.evidence = V /\ g.facts = F

LEMMA TablesBecome ==
  ASSUME NEW d \in Tables, NEW F \in SUBSET Fact, NEW V \in SUBSET Nat, NEW I \in SUBSET Nat,
         NEW E \in SUBSET Episode,
         NEW g, g = [d EXCEPT !.facts = F, !.evidence = V, !.fts = I, !.episodes = E]
  PROVE  HasRows(d, g, E, I, V, F)
  BY DEF Tables, HasRows

LEMMA FactsAndEpisodesBecome ==
  ASSUME NEW d \in Tables, NEW F \in SUBSET Fact, NEW E \in SUBSET Episode,
         NEW g, g = [d EXCEPT !.episodes = E, !.facts = F]
  PROVE  HasRows(d, g, E, d.fts, d.evidence, F)
  BY DEF Tables, HasRows

\* What a request to forget makes of the tables.
Forgot(d, g, a, s, e, mode) ==
  /\ g \in Tables
  /\ g.entities = d.entities /\ g.aliases = d.aliases
  /\ g.decisions = d.decisions /\ g.spaces = d.spaces
  /\ g.episodes = PgForgotten(d.episodes, e, mode)
  /\ g.fts = IF mode = "purge" THEN d.fts \ {e} ELSE d.fts
  /\ g.evidence = IF mode = "purge" THEN d.evidence \ {e} ELSE d.evidence
  /\ g.facts = IF mode = "purge" THEN PurgeFacts(d.facts, e)
               ELSE RetractFacts(d.facts, Linked(a, d, s, e))
  /\ \A f \in g.facts : \E x \in d.facts : x.claim = f.claim

LEMMA LinkedIs ==
  ASSUME NEW a, NEW d, Table(d.facts), NEW s, NEW e
  PROVE  /\ Linked(a, d, s, e) \subseteq {f \in Live(d.facts, s) : f.source = e}
         /\ Cardinality(Live(d.facts, s)) <= ForgetLimit =>
              Linked(a, d, s, e) = {f \in Live(d.facts, s) : f.source = e}
<1>1. ForgetLimit \in Nat
  BY SpacesConstants
<1> QED
  BY <1>1, FactRowsAre DEF Linked

LEMMA ForgottenIs ==
  ASSUME NEW a, NEW d \in Tables, NEW n \in Nat, Keyed(d.facts, n), NEW k, Keyed(d.episodes, k),
         NEW s \in Spaces, NEW e, NEW mode \in Modes, NEW g, g = Forgotten(a, d, s, e, mode)
  PROVE  Forgot(d, g, a, s, e, mode) /\ Keyed(g.facts, n)
<1>1. PICK E : E = PgForgotten(d.episodes, e, mode)
  OBVIOUS
<1>2. E \subseteq Episode
  BY <1>1, PgForgottenIs DEF Tables
<1>3. CASE mode # "purge"
  <2>1. PICK F : F = RetractFacts(d.facts, Linked(a, d, s, e))
    OBVIOUS
  <2>2. Linked(a, d, s, e) \subseteq d.facts
    BY KeyedIsTable, LinkedIs DEF Live
  <2>3. F \subseteq Fact /\ Keyed(F, n) /\ \A f \in F : \E x \in d.facts : x.claim = f.claim
    <3>1. d.facts \subseteq Fact
      BY DEF Tables
    <3>2. Keyed(F, n) /\ Retracted(d.facts, F, Linked(a, d, s, e))
      BY <2>1, <2>2, <3>1, RetractFactsIs, Zenon
    <3> QED
      BY <3>2 DEF Retracted
  <2>4. g = [d EXCEPT !.episodes = E, !.facts = F]
    <3>1. CASE mode \in {"hide", "retract"}
      BY <1>1, <2>1, <3>1 DEF Forgotten, PgForgotten
    <3>2. CASE mode = "delete"
      BY <1>1, <2>1, <3>2 DEF Forgotten, PgForgotten
    <3> QED
      BY <1>3, <3>1, <3>2 DEF Modes
  <2>5. HasRows(d, g, E, d.fts, d.evidence, F)
    <3>1. F \in SUBSET Fact /\ E \in SUBSET Episode
      BY <1>2, <2>3
    <3> QED
      BY <2>4, <3>1, FactsAndEpisodesBecome, Zenon
  <2> QED
    BY <1>1, <1>3, <2>1, <2>3, <2>5 DEF Forgot, HasRows
<1>4. CASE mode = "purge"
  <2>1. PICK F : F = PurgeFacts(d.facts, e)
    OBVIOUS
  <2>2. F \subseteq d.facts
    BY <2>1 DEF PurgeFacts
  <2>3. g = [d EXCEPT !.facts = F, !.evidence = @ \ {e}, !.fts = @ \ {e}, !.episodes = E]
    BY <1>1, <1>4, <2>1 DEF Forgotten, PgForgotten
  <2>4. /\ g \in Tables /\ g.entities = d.entities /\ g.aliases = d.aliases
        /\ g.decisions = d.decisions /\ g.spaces = d.spaces
        /\ g.episodes = E /\ g.fts = d.fts \ {e} /\ g.evidence = d.evidence \ {e} /\ g.facts = F
    <3>1. PICK V, I : V = d.evidence \ {e} /\ I = d.fts \ {e}
      OBVIOUS
    <3>2. F \in SUBSET Fact /\ V \in SUBSET Nat /\ I \in SUBSET Nat /\ E \in SUBSET Episode
      BY <1>2, <2>2, <3>1 DEF Tables
    <3>3. g = [d EXCEPT !.facts = F, !.evidence = V, !.fts = I, !.episodes = E]
      BY <2>3, <3>1 DEF Tables
    <3>4. HasRows(d, g, E, I, V, F)
      BY <3>2, <3>3, TablesBecome, Zenon
    <3> QED
      BY <3>1, <3>4 DEF HasRows
  <2>5. Keyed(F, n)
    BY <2>2 DEF Keyed
  <2>6. \A f \in g.facts : \E x \in d.facts : x.claim = f.claim
    BY <2>2, <2>4
  <2> QED
    BY <1>1, <1>4, <2>1, <2>4, <2>5, <2>6 DEF Forgot
<1> QED
  BY <1>3, <1>4

(***************************************************************************)
(* The steps keep SpacesInv.                                               *)
(***************************************************************************)
\* The parts of FactsInv, for tables whose facts have ids up to n.
Sound(d, n) ==
  /\ d \in Tables /\ Keyed(d.facts, n) /\ OneEntityEach(d)
  /\ \A f \in d.facts : Named(d, Subject[f.claim])

LEMMA IdsApart ==
  ASSUME NEW x \in Nat, NEW y \in Nat, NEW z \in Nat, x <= y, y <= z
  PROVE  /\ \A k \in 1..x : k \in 1..z
         /\ \A k \in (x + 1)..y : k \in 1..z /\ k \notin 1..x
  OBVIOUS

\* What extraction adds, it adds to one space.
AddsTo(d, e, s) ==
  /\ SameOtherwise(d, e)
  /\ d.facts \subseteq e.facts /\ \A f \in e.facts \ d.facts : f.space = s
  /\ d.entities \subseteq e.entities /\ \A x \in e.entities \ d.entities : x.space = s

LEMMA ExtractionIsSound ==
  ASSUME NEW a \in Adapters, NEW d, NEW id \in Nat, Sound(d, id), NEW s \in Spaces,
         NEW cs \in Seq(Proposal), NEW at \in Nat,
         NEW r, r = applyExtract(a, d, s, cs, at, id, TRUE), NEW n \in Nat, r.id <= n
  PROVE  Sound(r.d, n) /\ AddsTo(d, r.d, s)
<1>0. d \in Tables /\ OneEntityEach(d) /\ Keyed(d.facts, id)
  BY DEF Sound
<1>1. Extracted(r, d, s, cs, id, Held(a, d, s), at)
  BY <1>0, Extracts, Zenon
<1>2. PICK l : TurnInv(r, l, d, s, cs, id, Held(a, d, s)) /\ r.at = at
  BY <1>1 DEF Extracted
<1>3. r \in Run /\ r.d \in Tables /\ r.id \in Nat /\ id <= r.id /\ OneEntityEach(r.d)
  BY <1>2 DEF TurnInv, Run
<1>4. /\ d.facts \subseteq r.d.facts /\ d.entities \subseteq r.d.entities
      /\ \A f \in Added(d, r.d) :
           /\ f.id \in (id + 1)..r.id /\ f.at = r.at /\ f.space = s
           /\ Named(r.d, Subject[f.claim])
      /\ \A f, x \in Added(d, r.d) : f.id = x.id => f = x
  BY <1>2 DEF TurnInv, FactsOf
<1>5. \A f \in r.d.facts : f \in d.facts \/ f \in Added(d, r.d)
  BY DEF Added
<1>6. /\ \A k \in 1..id : k \in 1..n
      /\ \A k \in (id + 1)..r.id : k \in 1..n /\ k \notin 1..id
  BY <1>3, IdsApart
<1>7. /\ \A f \in d.facts : f.id \in 1..id /\ f.at \in Nat
      /\ \A f, x \in d.facts : f.id = x.id => f = x
  BY <1>0 DEF Keyed
<1>8. Keyed(r.d.facts, n)
  <2>1. \A f \in r.d.facts : f.id \in 1..n /\ f.at \in Nat
    <3>1. \A f \in d.facts : f.id \in 1..n /\ f.at \in Nat
      BY <1>6, <1>7
    <3>2. r.at \in Nat
      BY <1>3 DEF Run
    <3>3. \A f \in Added(d, r.d) : f.id \in 1..n /\ f.at \in Nat
      BY <1>4, <1>6, <3>2
    <3> QED
      BY <1>5, <3>1, <3>3
  <2>2. \A f, x \in r.d.facts : f.id = x.id => f = x
    <3>1. \A f \in d.facts, x \in Added(d, r.d) : f.id # x.id
      BY <1>4, <1>6, <1>7
    <3> SUFFICES ASSUME NEW f \in r.d.facts, NEW x \in r.d.facts, f.id = x.id
                 PROVE  f = x
      OBVIOUS
    <3>2. CASE f \in d.facts /\ x \in d.facts
      BY <1>7, <3>2
    <3>3. CASE f \in Added(d, r.d) /\ x \in Added(d, r.d)
      BY <1>4, <3>3
    <3> QED
      BY <1>5, <3>1, <3>2, <3>3
  <2> QED
    BY <2>1, <2>2 DEF Keyed
<1>9. \A f \in r.d.facts : Named(r.d, Subject[f.claim])
  <2>1. \A f \in d.facts : Named(r.d, Subject[f.claim])
    BY <1>4 DEF Sound, Named
  <2> QED
    BY <1>4, <1>5, <2>1
<1>10. AddsTo(d, r.d, s)
  BY <1>2, <1>4 DEF AddsTo, Added, TurnInv
<1> QED
  BY <1>3, <1>8, <1>9, <1>10 DEF Sound

LEMMA MaxIs ==
  ASSUME NEW x \in Nat, NEW y \in Nat
  PROVE  Max({x, y}) \in Nat /\ x <= Max({x, y}) /\ y <= Max({x, y})
<1>1. \E m \in {x, y} : \A k \in {x, y} : m >= k
  <2>1. CASE x >= y
    BY <2>1
  <2>2. CASE y >= x
    BY <2>2
  <2> QED
    BY <2>1, <2>2
<1>2. Max({x, y}) \in {x, y} /\ \A k \in {x, y} : Max({x, y}) >= k
  BY <1>1 DEF Max
<1> QED
  BY <1>2

LEMMA ExtractKeeps ==
  ASSUME SpacesInv, NEW s \in Spaces, NEW fromDb \in Seq(Proposal), NEW fromMem \in Seq(Proposal),
         Request, Extract(s, fromDb, fromMem), pg' = pg,
         review' \in Seq(Proposal), loose' \subseteq Spaces \X Nat, created' = created
  PROVE  SpacesInv' /\ AddsTo(db, db', s) /\ AddsTo(mem, mem', s)
<1>0. SpacesTypeOK /\ RowsInv
  BY DEF SpacesInv
<1>1. PICK id \in Nat : id = newId.fact
  BY <1>0 DEF SpacesTypeOK
<1>2. PICK at \in Nat : at = now'
  BY <1>0 DEF SpacesTypeOK, Request
<1>3. PICK u, v : /\ u = applyExtract("sqlite", db, s, fromDb, at, id, TRUE)
                  /\ v = applyExtract("memory", mem, s, fromMem, at, id, TRUE)
  OBVIOUS
<1>4. /\ db' = u.d /\ mem' = v.d
      /\ newId' = [newId EXCEPT !.fact = Max({u.id, v.id})]
  BY <1>1, <1>2, <1>3 DEF Extract
<1>5. Sound(db, id) /\ Sound(mem, id)
  BY <1>0, <1>1 DEF SpacesTypeOK, RowsInv, FactsInv, Sound
<1>6. u.id \in Nat /\ v.id \in Nat
  <2>1. /\ db \in Tables /\ OneEntityEach(db) /\ Keyed(db.facts, id)
        /\ mem \in Tables /\ OneEntityEach(mem) /\ Keyed(mem.facts, id)
    BY <1>5 DEF Sound
  <2>2. "sqlite" \in Adapters /\ "memory" \in Adapters
    BY DEF Adapters
  <2>3. Extracted(u, db, s, fromDb, id, Held("sqlite", db, s), at)
    BY <1>3, <2>1, <2>2, Extracts, Zenon
  <2>4. Extracted(v, mem, s, fromMem, id, Held("memory", mem, s), at)
    BY <1>3, <2>1, <2>2, Extracts, Zenon
  <2> QED
    BY <2>3, <2>4 DEF Extracted, TurnInv, Run
<1>7. PICK n \in Nat : n = Max({u.id, v.id}) /\ u.id <= n /\ v.id <= n
  BY <1>6, MaxIs
<1>8. newId' \in [episode : Nat, fact : Nat] /\ newId'.fact = n /\ newId'.episode = newId.episode
  BY <1>0, <1>4, <1>7 DEF SpacesTypeOK
<1>9. Sound(u.d, n) /\ AddsTo(db, u.d, s) /\ Sound(v.d, n) /\ AddsTo(mem, v.d, s)
  <2>1. "sqlite" \in Adapters /\ "memory" \in Adapters
    BY DEF Adapters
  <2>2. Sound(u.d, n) /\ AddsTo(db, u.d, s)
    BY <1>3, <1>5, <1>7, <2>1, ExtractionIsSound, Zenon
  <2>3. Sound(v.d, n) /\ AddsTo(mem, v.d, s)
    BY <1>3, <1>5, <1>7, <2>1, ExtractionIsSound, Zenon
  <2> QED
    BY <2>2, <2>3
<1>10. AddsTo(db, db', s) /\ AddsTo(mem, mem', s)
  BY <1>4, <1>9
<1>11. FactsInv(db)' /\ FactsInv(mem)' /\ db' \in Tables /\ mem' \in Tables
  BY <1>4, <1>8, <1>9 DEF Sound, FactsInv
<1>12. SpacesTypeOK'
  BY <1>0, <1>2, <1>8, <1>11 DEF SpacesTypeOK, Request
<1>13. RowsInv'
  BY <1>0, <1>8, <1>10, <1>11 DEF RowsInv, AddsTo, SameOtherwise
<1> QED
  BY <1>10, <1>12, <1>13 DEF SpacesInv

\* What is stored is stored in one space.
PutsIn(d, e, s) ==
  /\ e.facts = d.facts /\ e.entities = d.entities /\ e.aliases = d.aliases
  /\ e.decisions = d.decisions /\ e.spaces = d.spaces
  /\ d.episodes \subseteq e.episodes /\ \A r \in e.episodes \ d.episodes : r.space = s

LEMMA EpisodesBecome ==
  ASSUME NEW d \in Tables, NEW V \in SUBSET Nat, NEW I \in SUBSET Nat, NEW E \in SUBSET Episode,
         NEW g, g = [d EXCEPT !.episodes = E, !.fts = I, !.evidence = V]
  PROVE  HasRows(d, g, E, I, V, d.facts)
  BY DEF Tables, HasRows

LEMMA EvidenceBecomes ==
  ASSUME NEW d \in Tables, NEW V \in SUBSET Nat, NEW E \in SUBSET Episode,
         NEW g, g = [d EXCEPT !.episodes = E, !.evidence = V]
  PROVE  HasRows(d, g, E, d.fts, V, d.facts)
  BY DEF Tables, HasRows

\* Tables whose facts and entities stay keep what is said of them.
LEMMA FactsKept ==
  ASSUME NEW d, NEW e, NEW n, e.facts = d.facts, e.entities = d.entities, e.aliases = d.aliases,
         Sound(d, n), e \in Tables
  PROVE  Sound(e, n)
  BY DEF Sound, OneEntityEach, Named

LEMMA SoundTables ==
  ASSUME SpacesInv
  PROVE  Sound(db, newId.fact) /\ Sound(mem, newId.fact) /\ newId.fact \in Nat
         /\ newId.episode \in Nat
  BY DEF SpacesInv, SpacesTypeOK, RowsInv, FactsInv, Sound

LEMMA StoreKeeps ==
  ASSUME SpacesInv, NEW s \in Spaces, NEW texts \in Seq(Contents), NEW evidence \in SUBSET Nat,
         Request, Store(s, texts, evidence)
  PROVE  SpacesInv' /\ PutsIn(db, db', s) /\ PutsIn(mem, mem', s)
<1>0. SpacesTypeOK /\ RowsInv /\ db \in Tables /\ mem \in Tables
  BY DEF SpacesInv, SpacesTypeOK
<1>1. PICK at \in Nat : at = now'
  BY <1>0 DEF SpacesTypeOK, Request
<1>2. PICK E, I, V : /\ E = InsertEpisodes(db.episodes, s, texts, at)
                     /\ I = db.fts \union NewIds(texts) /\ V = db.evidence \union evidence
  OBVIOUS
<1>3. db.episodes \subseteq Episode /\ newId.episode \in Nat /\ Keyed(db.episodes, newId.episode)
  BY <1>0 DEF RowsInv, Tables, SpacesTypeOK
<1>4. /\ E \subseteq Episode /\ Keyed(E, newId.episode + Len(texts))
      /\ {r.id : r \in E} = {r.id : r \in db.episodes} \union NewIds(texts)
      /\ NewIds(texts) \subseteq Nat
      /\ db.episodes \subseteq E /\ \A r \in E \ db.episodes : r.space = s
  BY <1>2, <1>3, InsertEpisodesIs
<1>5. E \in SUBSET Episode /\ I \in SUBSET Nat /\ V \in SUBSET Nat
  BY <1>0, <1>2, <1>4 DEF Tables
<1>6. HasRows(db, db', E, I, V, db.facts)
  <2>1. db' = [db EXCEPT !.episodes = E, !.fts = I, !.evidence = V]
    BY <1>1, <1>2 DEF Store
  <2>2. PICK g : g = db'
    OBVIOUS
  <2>3. HasRows(db, g, E, I, V, db.facts)
    BY <1>0, <1>5, <2>1, <2>2, EpisodesBecome
  <2> QED
    BY <2>2, <2>3
<1>7. HasRows(mem, mem', E, mem.fts, V, mem.facts)
  <2>1. mem' = [mem EXCEPT !.episodes = E, !.evidence = V]
    BY <1>0, <1>1, <1>2 DEF Store, RowsInv
  <2>2. PICK g : g = mem'
    OBVIOUS
  <2>3. HasRows(mem, g, E, mem.fts, V, mem.facts)
    BY <1>0, <1>5, <2>1, <2>2, EvidenceBecomes
  <2> QED
    BY <2>2, <2>3
<1>8. PutsIn(db, db', s) /\ PutsIn(mem, mem', s)
  BY <1>0, <1>4, <1>6, <1>7 DEF PutsIn, HasRows, RowsInv
<1>9. /\ newId' \in [episode : Nat, fact : Nat] /\ newId'.fact = newId.fact
      /\ newId'.episode = newId.episode + Len(texts)
  <2>1. PICK m \in Nat : m = newId.episode + Len(texts)
    BY <1>3, LenProperties
  <2>2. newId' = [newId EXCEPT !.episode = m]
    BY <2>1 DEF Store
  <2> QED
    BY <1>0, <2>1, <2>2 DEF SpacesTypeOK
<1>10. pg' = E
  BY <1>0, <1>1, <1>2 DEF Store, RowsInv
<1>11. SpacesTypeOK'
  BY <1>0, <1>1, <1>5, <1>6, <1>7, <1>9, <1>10 DEF SpacesTypeOK, HasRows, Request, Store
<1>12. Sound(db', newId'.fact) /\ Sound(mem', newId'.fact)
  BY <1>6, <1>7, <1>9, SoundTables, FactsKept DEF HasRows
<1>13. RowsInv'
  <2>1. FactsInv(db)' /\ FactsInv(mem)'
    BY <1>12 DEF Sound, FactsInv
  <2>2. db'.fts = {r.id : r \in db'.episodes}
    BY <1>0, <1>2, <1>4, <1>6 DEF HasRows, RowsInv
  <2> QED
    BY <1>0, <1>2, <1>4, <1>6, <1>7, <1>9, <1>10, <2>1, <2>2 DEF RowsInv, HasRows
<1> QED
  BY <1>8, <1>11, <1>13 DEF SpacesInv

LEMMA ForgetKeeps ==
  ASSUME SpacesInv, NEW s \in Spaces, NEW e \in Ids, NEW mode \in Modes, Forget(s, e, mode)
  PROVE  /\ SpacesInv'
         /\ Forgot(db, db', "sqlite", s, e, mode) /\ Forgot(mem, mem', "memory", s, e, mode)
<1>0. /\ SpacesTypeOK /\ RowsInv /\ Sound(db, newId.fact) /\ Sound(mem, newId.fact)
      /\ newId.fact \in Nat /\ newId.episode \in Nat
  BY SoundTables DEF SpacesInv
<1>1. db' = Forgotten("sqlite", db, s, e, mode) /\ mem' = Forgotten("memory", mem, s, e, mode)
  BY DEF Forget
<1>2. PICK g, h, n, k : g = db' /\ h = mem' /\ n = newId.fact /\ k = newId.episode
  OBVIOUS
<1>3. /\ db \in Tables /\ mem \in Tables /\ n \in Nat /\ Keyed(db.facts, n) /\ Keyed(mem.facts, n)
      /\ Keyed(db.episodes, k) /\ Keyed(mem.episodes, k)
  BY <1>0, <1>2 DEF Sound, RowsInv
<1>4. Forgot(db, g, "sqlite", s, e, mode) /\ Keyed(g.facts, n)
  BY <1>1, <1>2, <1>3, ForgottenIs
<1>5. Forgot(mem, h, "memory", s, e, mode) /\ Keyed(h.facts, n)
  BY <1>1, <1>2, <1>3, ForgottenIs
<1>6. /\ g.episodes \subseteq Episode /\ Keyed(g.episodes, k) /\ g.fts = {r.id : r \in g.episodes}
  <2>1. db.episodes \subseteq Episode /\ g.episodes = PgForgotten(db.episodes, e, mode)
    BY <1>3, <1>4 DEF Forgot, Tables
  <2>2. /\ g.episodes \subseteq Episode /\ Keyed(g.episodes, k)
        /\ IdsKept(db.episodes, g.episodes, e, mode)
    <3>1. PICK E : E = g.episodes
      OBVIOUS
    <3>2. E \subseteq Episode /\ Keyed(E, k) /\ IdsKept(db.episodes, E, e, mode)
      BY <1>3, <2>1, <3>1, PgForgottenIs
    <3> QED
      BY <3>1, <3>2
  <2>3. db.fts = {r.id : r \in db.episodes}
    BY <1>0 DEF RowsInv
  <2> QED
    BY <1>4, <2>2, <2>3 DEF Forgot, IdsKept
<1>7. pg' = g.episodes /\ h.episodes = g.episodes
  BY <1>0, <1>4, <1>5 DEF Forgot, RowsInv, Forget
<1>8. newId' = newId /\ e \in Nat /\ loose' \subseteq Spaces \X Nat
  BY <1>0 DEF Forget, Ids, SpacesTypeOK
<1>9. SpacesTypeOK'
  BY <1>0, <1>2, <1>4, <1>5, <1>6, <1>7, <1>8 DEF SpacesTypeOK, Forgot, Forget, Request
<1>10. FactsInv(db)' /\ FactsInv(mem)'
  <2>1. OneEntityEach(g) /\ \A f \in g.facts : Named(g, Subject[f.claim])
    BY <1>0, <1>4 DEF Sound, Forgot, OneEntityEach, Named
  <2>2. OneEntityEach(h) /\ \A f \in h.facts : Named(h, Subject[f.claim])
    BY <1>0, <1>5 DEF Sound, Forgot, OneEntityEach, Named
  <2> QED
    BY <1>2, <1>4, <1>5, <1>8, <2>1, <2>2 DEF FactsInv
<1>11. RowsInv'
  BY <1>0, <1>2, <1>4, <1>5, <1>6, <1>7, <1>8, <1>10 DEF RowsInv, Forgot
<1> QED
  BY <1>2, <1>4, <1>5, <1>9, <1>11 DEF SpacesInv

\* A preview writes nothing.
LEMMA PreviewIs ==
  ASSUME NEW d \in Tables, OneEntityEach(d), NEW id \in Nat, Keyed(d.facts, id), NEW s \in Spaces,
         Table(d.episodes), NEW p, p = previewExtract("sqlite", d, s)
  PROVE  p \in Seq(Proposal)
<1>1. PICK cs : cs = Candidates(d, s)
  OBVIOUS
<1>2. cs \in Seq(Proposal)
  BY <1>1, CandidatesAre DEF Tables
<1>3. PICK n \in Nat : n = Len(cs)
  BY <1>2, LenProperties
<1>4. PICK W : Turns(W, "sqlite", d, s, cs, 0, 0, FALSE)
  BY <1>3, Loop
<1> DEFINE C == {i \in 0..n : W[i] \in Run}
<1>5. 0 \in C
  <2>1. W[0] = Start("sqlite", d, s, 0, 0)
    BY <1>4 DEF Turns
  <2>2. W[0] \in Run
    BY <2>1, KeyedIsTable, StartRuns
  <2> QED
    BY <1>3, <2>2
<1>6. ASSUME NEW i \in 1..n, i - 1 \in C
      PROVE  i \in C
  <2>1. W[i] = Persist("sqlite", W[i - 1], s, cs[i], FALSE) /\ cs[i] \in Proposal
    BY <1>2, <1>3, <1>4, ElementOfSeq DEF Turns
  <2>2. PICK run \in Run, c \in Proposal : run = W[i - 1] /\ c = cs[i]
    BY <1>6, <2>1
  <2>3. PICK t : t = W[i]
    OBVIOUS
  <2>4. t = Persist("sqlite", run, s, c, FALSE)
    BY <2>1, <2>2, <2>3
  <2>5. Previewed(run, t, c)
    BY <2>4, Previews, Zenon
  <2> QED
    BY <2>3, <2>5 DEF Previewed
<1> HIDE DEF C
<1>7. n \in C
  <2>1. 0..n \subseteq C
    BY <1>5, <1>6, EveryTurn
  <2> QED
    BY <2>1
<1>8. p = W[n].proposed
  BY <1>1, <1>3, <1>4 DEF previewExtract, Turns
<1> QED
  BY <1>7, <1>8 DEF C, Run

LEMMA CandidatesFit ==
  ASSUME SpacesInv, NEW s
  PROVE  /\ Candidates(db, s) \in Seq(Proposal) /\ Candidates(mem, s) \in Seq(Proposal)
         /\ Table(db.episodes) /\ Table(mem.episodes)
<1>1. /\ db.episodes \subseteq Episode /\ mem.episodes = db.episodes
      /\ Keyed(db.episodes, newId.episode) /\ newId.episode \in Nat
  BY DEF SpacesInv, SpacesTypeOK, RowsInv, Tables
<1>2. Table(db.episodes)
  BY <1>1, KeyedIsTable
<1>3. Candidates(db, s) \in Seq(Proposal)
  BY <1>1, <1>2, CandidatesAre
<1>4. Candidates(mem, s) \in Seq(Proposal)
  BY <1>1, <1>2, CandidatesAre
<1> QED
  BY <1>1, <1>2, <1>3, <1>4

LEMMA ConsolidateKeeps ==
  ASSUME SpacesInv, NEW s \in Spaces, Consolidate(s)
  PROVE  SpacesInv' /\ AddsTo(db, db', s) /\ AddsTo(mem, mem', s)
<1>1. /\ Request /\ Extract(s, Candidates(db, s), Candidates(mem, s))
      /\ pg' = pg /\ review' = review /\ loose' = loose /\ created' = created
  BY DEF Consolidate
<1>2. review' \in Seq(Proposal) /\ loose' \subseteq Spaces \X Nat
  BY <1>1 DEF SpacesInv, SpacesTypeOK
<1>3. PICK fromDb \in Seq(Proposal), fromMem \in Seq(Proposal) : Extract(s, fromDb, fromMem)
  BY <1>1, CandidatesFit
<1> QED
  BY <1>1, <1>2, <1>3, ExtractKeeps

LEMMA AcceptKeeps ==
  ASSUME SpacesInv, NEW s \in Spaces, Accept(s)
  PROVE  SpacesInv' /\ AddsTo(db, db', s) /\ AddsTo(mem, mem', s)
<1>1. /\ Request /\ Extract(s, review, review) /\ pg' = pg /\ created' = created
      /\ loose' = loose \union {<<s, p.source>> : p \in ToSet(review)} /\ review' = <<>>
  BY DEF Accept
<1>2. review \in Seq(Proposal) /\ loose \subseteq Spaces \X Nat
  BY DEF SpacesInv, SpacesTypeOK
<1>3. \A p \in ToSet(review) : p.source \in Nat
  <2>1. ToSet(review) = {review[i] : i \in 1..Len(review)}
    BY <1>2 DEF ToSet
  <2>2. \A i \in 1..Len(review) : review[i] \in Proposal
    BY <1>2, ElementOfSeq
  <2> QED
    BY <2>1, <2>2 DEF Proposal
<1>4. loose' \subseteq Spaces \X Nat
  BY <1>1, <1>2, <1>3
<1>5. review' \in Seq(Proposal)
  BY <1>1
<1>6. PICK fromDb \in Seq(Proposal), fromMem \in Seq(Proposal) : Extract(s, fromDb, fromMem)
  BY <1>1, <1>2
<1> QED
  BY <1>1, <1>4, <1>5, <1>6, ExtractKeeps

LEMMA PreviewKeeps ==
  ASSUME SpacesInv, NEW s \in Spaces, Preview(s)
  PROVE  SpacesInv' /\ db' = db /\ mem' = mem
<1>1. review' = previewExtract("sqlite", db, s)
      /\ UNCHANGED <<db, mem, pg, now, newId, loose, created, ops>>
  BY DEF Preview
<1>2. PICK p : p = review'
  OBVIOUS
<1>3. p \in Seq(Proposal)
  <2>1. db \in Tables /\ OneEntityEach(db) /\ Keyed(db.facts, newId.fact) /\ newId.fact \in Nat
    BY SoundTables DEF Sound
  <2> QED
    BY <1>1, <1>2, <2>1, CandidatesFit, PreviewIs
<1>4. SpacesTypeOK'
  BY <1>1, <1>2, <1>3 DEF SpacesInv, SpacesTypeOK
<1>5. RowsInv'
  BY <1>1 DEF SpacesInv, RowsInv, FactsInv
<1> QED
  BY <1>1, <1>4, <1>5 DEF SpacesInv

\* Only the rows of spaces and decisions differ.
SameContents(d, e) ==
  /\ e.episodes = d.episodes /\ e.fts = d.fts /\ e.evidence = d.evidence
  /\ e.facts = d.facts /\ e.entities = d.entities /\ e.aliases = d.aliases

LEMMA SpacesBecome ==
  ASSUME NEW d \in Tables, NEW S \in [Spaces -> Visibility], NEW g, g = [d EXCEPT !.spaces = S]
  PROVE  g \in Tables /\ SameContents(d, g) /\ g.spaces = S /\ g.decisions = d.decisions
  BY DEF Tables, SameContents

LEMMA ManageKeeps ==
  ASSUME SpacesInv, NEW s \in Spaces, Manage(s)
  PROVE  /\ SpacesInv'
         /\ SameContents(db, db') /\ SameContents(mem, mem')
         /\ db'.decisions = db.decisions /\ mem'.decisions = mem.decisions
         /\ \A t \in Spaces : t # s => /\ db'.spaces[t] = db.spaces[t]
                                      /\ mem'.spaces[t] = mem.spaces[t]
<1>0. /\ SpacesTypeOK /\ RowsInv /\ db \in Tables /\ mem \in Tables
      /\ db.spaces \in [Spaces -> Visibility] /\ mem.spaces \in [Spaces -> Visibility]
  BY DEF SpacesInv, SpacesTypeOK, Tables
<1>1. PICK S \in [Spaces -> Visibility], M \in [Spaces -> Visibility] :
        /\ db' = [db EXCEPT !.spaces = S] /\ mem' = [mem EXCEPT !.spaces = M]
        /\ \A t \in Spaces : t # s => S[t] = db.spaces[t] /\ M[t] = mem.spaces[t]
        /\ s # Default => S[s] = M[s]
  <2>1. CASE CreateSpace(s, "private")
    <3>1. /\ db' = [db EXCEPT !.spaces = [db.spaces EXCEPT ![s] = "private"]]
          /\ mem' = [mem EXCEPT !.spaces = [mem.spaces EXCEPT ![s] = "private"]]
      BY <1>0, <2>1 DEF CreateSpace, Tables
    <3>2. /\ [db.spaces EXCEPT ![s] = "private"] \in [Spaces -> Visibility]
          /\ [mem.spaces EXCEPT ![s] = "private"] \in [Spaces -> Visibility]
      BY <1>0 DEF Visibility
    <3> QED
      BY <1>0, <3>1, <3>2
  <2>2. CASE PatchSpace(s, "workspace")
    <3>1. /\ db' = [db EXCEPT !.spaces = UpdateSpace(db.spaces, s, "workspace")]
          /\ mem' = [mem EXCEPT !.spaces = UpdateSpace(mem.spaces, s, "workspace")]
      BY <2>2 DEF PatchSpace
    <3>2. /\ UpdateSpace(db.spaces, s, "workspace") \in [Spaces -> Visibility]
          /\ UpdateSpace(mem.spaces, s, "workspace") \in [Spaces -> Visibility]
      BY <1>0 DEF UpdateSpace, Visibility
    <3>3. s # Default => db.spaces[s] = mem.spaces[s]
      BY <1>0 DEF RowsInv
    <3> QED
      BY <1>0, <3>1, <3>2, <3>3 DEF UpdateSpace
  <2>3. CASE DeleteSpace(s)
    <3>1. /\ db' = [db EXCEPT !.spaces = SqliteRemoveSpace(db.spaces, s, {Default})]
          /\ mem' = [mem EXCEPT !.spaces = MemoryRemoveSpace(mem.spaces, s)]
      BY <2>3 DEF DeleteSpace
    <3>2. /\ SqliteRemoveSpace(db.spaces, s, {Default}) \in [Spaces -> Visibility]
          /\ MemoryRemoveSpace(mem.spaces, s) \in [Spaces -> Visibility]
      BY <1>0 DEF SqliteRemoveSpace, MemoryRemoveSpace, Visibility
    <3> QED
      BY <1>0, <3>1, <3>2 DEF SqliteRemoveSpace, MemoryRemoveSpace
  <2> QED
    BY <2>1, <2>2, <2>3 DEF Manage
<1>2. PICK g, h : g = db' /\ h = mem'
  OBVIOUS
<1>3. g \in Tables /\ SameContents(db, g) /\ g.spaces = S /\ g.decisions = db.decisions
  BY <1>0, <1>1, <1>2, SpacesBecome
<1>4. h \in Tables /\ SameContents(mem, h) /\ h.spaces = M /\ h.decisions = mem.decisions
  BY <1>0, <1>1, <1>2, SpacesBecome
<1>5. /\ now' = now + 1 /\ ops' = ops + 1 /\ pg' = pg /\ newId' = newId /\ review' = review
      /\ loose' = loose /\ created' \subseteq Spaces
  BY <1>0 DEF Manage, CreateSpace, PatchSpace, DeleteSpace, Request, SpacesTypeOK
<1>6. SpacesTypeOK'
  BY <1>0, <1>2, <1>3, <1>4, <1>5 DEF SpacesTypeOK
<1>7. Sound(g, newId.fact) /\ Sound(h, newId.fact)
  BY <1>3, <1>4, SoundTables, FactsKept DEF SameContents
<1>8. FactsInv(db)' /\ FactsInv(mem)'
  BY <1>2, <1>5, <1>7 DEF FactsInv, Sound
<1>9. \A t \in Spaces : t # Default => h.spaces[t] = g.spaces[t]
  BY <1>0, <1>1, <1>3, <1>4 DEF RowsInv
<1>10. RowsInv'
  BY <1>0, <1>2, <1>3, <1>4, <1>5, <1>8, <1>9 DEF RowsInv, SameContents
<1> QED
  BY <1>1, <1>2, <1>3, <1>4, <1>6, <1>10 DEF SpacesInv

LEMMA DecideKeeps ==
  ASSUME SpacesInv, NEW s \in Spaces, Decide(s)
  PROVE  /\ SpacesInv'
         /\ SameContents(db, db') /\ SameContents(mem, mem')
         /\ db'.spaces = db.spaces /\ mem'.spaces = mem.spaces
         /\ \A t \in Spaces : t # s => /\ listDecisions(db'.decisions, t) = listDecisions(db.decisions, t)
                                      /\ listDecisions(mem'.decisions, t) = listDecisions(mem.decisions, t)
<1>0. /\ SpacesTypeOK /\ RowsInv /\ db \in Tables /\ mem \in Tables /\ ops \in Nat
  BY DEF SpacesInv, SpacesTypeOK
<1>1. PICK x \in [id : Nat, space : Spaces] : x.space = s /\ x = [id |-> ops, space |-> s]
  BY <1>0
<1>2. /\ db' = [db EXCEPT !.decisions = @ \union {x}]
      /\ mem' = [mem EXCEPT !.decisions = @ \union {x}]
  BY <1>1 DEF Decide
<1>3. /\ db' \in Tables /\ SameContents(db, db') /\ db'.spaces = db.spaces
      /\ db'.decisions = db.decisions \union {x}
  BY <1>0, <1>2 DEF Tables, SameContents
<1>4. /\ mem' \in Tables /\ SameContents(mem, mem') /\ mem'.spaces = mem.spaces
      /\ mem'.decisions = mem.decisions \union {x}
  BY <1>0, <1>2 DEF Tables, SameContents
<1>5. /\ now' = now + 1 /\ ops' = ops + 1 /\ pg' = pg /\ newId' = newId /\ review' = review
      /\ loose' = loose /\ created' = created
  BY DEF Decide, Request
<1>6. SpacesTypeOK'
  BY <1>0, <1>3, <1>4, <1>5 DEF SpacesTypeOK
<1>7. Sound(db', newId.fact) /\ Sound(mem', newId.fact)
  BY <1>3, <1>4, SoundTables, FactsKept DEF SameContents
<1>8. FactsInv(db)' /\ FactsInv(mem)'
  BY <1>5, <1>7 DEF FactsInv, Sound
<1>9. RowsInv'
  BY <1>0, <1>3, <1>4, <1>5, <1>8 DEF RowsInv, SameContents
<1> QED
  BY <1>1, <1>3, <1>4, <1>6, <1>9 DEF SpacesInv, listDecisions

LEMMA ToolServes == Tool => Serve(Default) /\ Default \in Spaces
  BY SpacesConstants DEF Tool, Serve

LEMMA ServeKeeps ==
  ASSUME SpacesInv, NEW s \in Spaces, Serve(s)
  PROVE  SpacesInv'
<1>1. CASE \E c \in Contents : Remember(s, c)
  <2>1. PICK c \in Contents : Remember(s, c)
    BY <1>1
  <2>2. <<c>> \in Seq(Contents) /\ {newId.episode + 1} \in SUBSET Nat
    BY SoundTables
  <2>3. Request /\ Store(s, <<c>>, {newId.episode + 1})
    BY <2>1 DEF Remember
  <2> QED
    BY <2>2, <2>3, StoreKeeps
<1>2. CASE \E segments \in Documents : IngestMarkdown(s, segments)
  <2>1. PICK segments \in Documents : Request /\ Store(s, segments, {})
    BY <1>2 DEF IngestMarkdown
  <2>2. segments \in Seq(Contents) /\ {} \in SUBSET Nat
    BY SpacesConstants
  <2> QED
    BY <2>1, <2>2, StoreKeeps
<1>3. CASE \E e \in Ids, mode \in Modes : Forget(s, e, mode)
  BY <1>3, ForgetKeeps
<1>4. CASE Consolidate(s)
  BY <1>4, ConsolidateKeeps
<1>5. CASE Preview(s)
  BY <1>5, PreviewKeeps
<1>6. CASE Accept(s)
  BY <1>6, AcceptKeeps
<1>7. CASE Decide(s)
  BY <1>7, DecideKeeps
<1> QED
  BY <1>1, <1>2, <1>3, <1>4, <1>5, <1>6, <1>7 DEF Serve

LEMMA StutterKeeps ==
  ASSUME SpacesInv, UNCHANGED spacesVars
  PROVE  SpacesInv'
<1>1. SpacesTypeOK'
  BY DEF SpacesInv, SpacesTypeOK, spacesVars
<1>2. RowsInv'
  BY DEF SpacesInv, RowsInv, FactsInv, spacesVars
<1> QED
  BY <1>1, <1>2 DEF SpacesInv

LEMMA StepKeeps ==
  ASSUME SpacesInv, [SpacesNext]_spacesVars
  PROVE  SpacesInv'
<1>1. CASE UNCHANGED spacesVars
  BY <1>1, StutterKeeps
<1>2. CASE \E s \in Spaces : Serve(s)
  BY <1>2, ServeKeeps
<1>3. CASE \E s \in Spaces : Manage(s)
  BY <1>3, ManageKeeps
<1> QED
  BY <1>1, <1>2, <1>3, ToolServes DEF SpacesNext

(***************************************************************************)
(* The theorems.                                                           *)
(***************************************************************************)
\* The tables are well-formed, and the adapters hold the same episodes
\* (the repositories of packages/storage under the same requests).
THEOREM SpacesAreSound == SpacesSpec => []SpacesInv
<1>1. SpacesInit => SpacesInv
  BY InitTypes
<1>2. SpacesInv /\ [SpacesNext]_spacesVars => SpacesInv'
  BY StepKeeps
<1> QED
  BY <1>1, <1>2, PTL DEF SpacesSpec

\* However the spaces are used, what a fact is about is an entity that
\* consolidation finds again, and there is one such entity
\* (knowledge-service.ts applyExtract, findByAlias of each adapter).
THEOREM SubjectsKnown == SpacesSpec => []SubjectsAreKnown
<1>1. SpacesInv => SubjectsAreKnown
  <2> SUFFICES ASSUME SpacesInv, NEW d \in {db, mem}, NEW f \in d.facts, NEW n,
                      n = Subject[f.claim]
               PROVE  \E e \in d.entities :
                        /\ e.name = n
                        /\ \A x \in d.entities : x.name = n => x = e
                        /\ SqliteFindByAlias(d.entities, d.aliases, e.space, n) = {e}
                        /\ MemoryFindByAlias(d.entities, d.aliases, f.space, n) = {e}
    BY DEF SubjectsAreKnown
  <2>1. Sound(d, newId.fact)
    BY SoundTables
  <2>2. f.claim \in Claims
    BY <2>1 DEF Sound, Tables, Fact
  <2>3. n \in Names
    BY <2>2 DEF Names
  <2>4. PICK e \in d.entities : e.name = n
    BY <2>1 DEF Sound, Named
  <2>5. d.aliases[n] > 0 /\ \A x \in d.entities : x.name = n => x = e
    BY <2>1, <2>3, <2>4 DEF Sound, OneEntityEach, Named
  <2>6. SqliteFindByAlias(d.entities, d.aliases, e.space, n) = {e}
    BY <2>4, <2>5 DEF SqliteFindByAlias
  <2>7. MemoryFindByAlias(d.entities, d.aliases, f.space, n) = {e}
    BY <2>4, <2>5 DEF MemoryFindByAlias
  <2> QED
    BY <2>4, <2>5, <2>6, <2>7
<1> QED
  BY <1>1, SpacesAreSound, PTL

LEMMA NewerIsStrict ==
  ASSUME NEW x, NEW r, x.at \in Nat, r.at \in Nat, x.id \in Nat, r.id \in Nat
  PROVE  ~Newer(r, r) /\ (Newer(r, x) => ~Newer(x, r))
  BY DEF Newer

LEMMA NewerIsLater ==
  ASSUME NEW x, NEW y, x.at \in Nat, y.at \in Nat, Newer(x, y)
  PROVE  x.at >= y.at
  BY DEF Newer

\* A query answers rows of its table.
LEMMA AnswersAreRows ==
  ASSUME NEW rows, Table(rows), NEW limit \in Nat, NEW q, q = Take(Sorted(rows, Newer), limit)
  PROVE  ToSet(q) \subseteq rows
<1> DEFINE R == {p \in rows \X rows : Newer(p[1], p[2])}
<1>1. PICK w : w = Sorted(rows, Newer)
  OBVIOUS
<1>2. Lists(w, rows, R) /\ IsFiniteSet(rows)
  BY <1>1, SortedIs DEF Table
<1>3. w \in Seq(rows) /\ ToSet(w) = rows
  BY <1>2, ListIs
<1> QED
  BY <1>1, <1>3, TakeIs

\* The first one is before all others.
Leads(q, rows) == \A r \in ToSet(q), x \in rows : ~Newer(x, r)

LEMMA FirstIsNewest ==
  ASSUME NEW rows, Table(rows), NEW q, q = Take(Sorted(rows, Newer), 1)
  PROVE  Leads(q, rows)
<1> DEFINE R == {p \in rows \X rows : Newer(p[1], p[2])}
<1>1. PICK w : w = Sorted(rows, Newer)
  OBVIOUS
<1>2. Lists(w, rows, R)
  BY <1>1, SortedIs
<1>3. IsFiniteSet(rows) /\ \A r \in rows : r.at \in Nat /\ r.id \in Nat
  BY DEF Table
<1>4. PICK n \in Nat : n = Len(w) /\ w \in Seq(rows) /\ ToSet(w) = rows
  BY <1>2, <1>3, ListIs
<1>5. PICK one \in Nat : one = 1
  OBVIOUS
<1>6. q = Take(w, one)
  BY <1>1, <1>5
<1>7. /\ q \in Seq(rows) /\ Len(q) \in Nat /\ Len(q) <= n
      /\ \A i \in 1..Len(q) : q[i] = w[i]
  BY <1>4, <1>6, TakeIs
<1>8. ASSUME NEW r \in ToSet(q), NEW x \in rows PROVE ~Newer(x, r)
  <2>1. Len(q) <= 1
    BY <1>4, <1>5, <1>6 DEF Take
  <2>2. PICK i \in 1..Len(q) : r = q[i]
    BY <1>7 DEF ToSet
  <2>3. i = 1 /\ r = w[1] /\ 1 \in 1..n
    BY <1>7, <2>1, <2>2
  <2>4. PICK j \in 1..n : x = w[j]
    BY <1>4 DEF ToSet
  <2>5. CASE j = 1
    <3>1. x = r /\ r.at \in Nat /\ r.id \in Nat
      BY <1>3, <2>3, <2>4, <2>5
    <3> QED
      BY <3>1, NewerIsStrict
  <2>6. CASE 1 < j
    <3>1. <<r, x>> \in R
      BY <1>2, <1>4, <2>3, <2>4, <2>6 DEF Lists
    <3>2. Newer(r, x) /\ r \in rows
      BY <3>1
    <3> QED
      BY <1>3, <3>2, NewerIsStrict
  <2> QED
    BY <2>4, <2>5, <2>6
<1> QED
  BY <1>8 DEF Leads

\* The body of SearchesAgree.
Finds(s, q, shown, whole, sqlite, memory, first) ==
  /\ whole \subseteq sqlite /\ sqlite \subseteq memory
  /\ whole # {} => sqlite = whole
  /\ memory # {} => sqlite # {}
  /\ ToSet(PgSearch(pg, s, q, MaxEpisodes)) \subseteq memory
  /\ \A r \in ToSet(first), x \in sqlite : ~Newer(x, r)

\* Whatever is stored and forgotten, a word finds on SQLite the episodes
\* that have it, and every adapter finds a part of what the arrays find
\* (searchLexical of each adapter).
THEOREM SearchesFind == SpacesSpec => []SearchesAgree
<1>1. ASSUME SpacesInv, NEW s \in Spaces, NEW q \in Queries,
             NEW shown, shown = Shown(db.episodes, s),
             NEW whole, whole = {r \in shown : Tokens[q] \cap Words[r.content] # {}},
             NEW sqlite, sqlite = SqliteMatches(db.episodes, db.fts, s, q),
             NEW memory, memory = PartMatches(mem.episodes, s, q),
             NEW first, first = SqliteSearch(db.episodes, db.fts, s, q, 1)
      PROVE  Finds(s, q, shown, whole, sqlite, memory, first)
  <2>1. /\ mem.episodes = db.episodes /\ pg = db.episodes
        /\ db.fts = {r.id : r \in db.episodes} /\ db.episodes \subseteq Episode
    BY <1>1 DEF SpacesInv, RowsInv, SpacesTypeOK, Tables
  <2>2. shown \subseteq db.episodes /\ \A r \in shown : r.content \in Contents /\ r.id \in db.fts
    BY <1>1, <2>1 DEF Shown, Episode
  <2>3. memory = {r \in shown : Tokens[q] = {} \/ Tokens[q] \cap Parts[r.content] # {}}
    BY <1>1, <2>1 DEF PartMatches
  <2>4. sqlite = IF whole # {} THEN whole ELSE memory
    <3>1. whole = {r \in Shown(db.episodes, s) :
                     r.id \in db.fts /\ Tokens[q] \cap Words[r.content] # {}}
      BY <1>1, <2>2
    <3> QED
      BY <1>1, <2>1, <3>1 DEF SqliteMatches
  <2>5. whole \subseteq memory
    <3>1. ASSUME NEW r \in whole PROVE r \in memory
      <4>1. r \in shown /\ Tokens[q] \cap Words[r.content] # {} /\ r.content \in Contents
        BY <1>1, <2>2, <3>1
      <4>2. Words[r.content] \subseteq Parts[r.content]
        BY <4>1, StoresConstants
      <4>3. Tokens[q] \cap Parts[r.content] # {}
        BY <4>1, <4>2
      <4> QED
        BY <2>3, <4>1, <4>3
    <3> QED
      BY <3>1
  <2>6. Table(db.episodes) /\ Table(shown) /\ Table(sqlite)
    <3>1. Table(db.episodes)
      BY <1>1, CandidatesFit
    <3>2. sqlite \subseteq shown
      BY <1>1, <2>3, <2>4
    <3> QED
      BY <2>2, <3>1, <3>2, PartOfTable
  <2>7. ToSet(PgSearch(pg, s, q, MaxEpisodes)) \subseteq memory
    <3>1. PICK found : found = {r \in Shown(pg, s) : q \in Holds[r.content]}
      OBVIOUS
    <3>2. found \subseteq shown
      BY <1>1, <2>1, <3>1
    <3>3. ASSUME NEW r \in found PROVE r \in memory
      <4>1. r \in shown /\ q \in Holds[r.content] /\ r.content \in Contents
        BY <2>2, <3>1, <3>2
      <4>2. Tokens[q] \subseteq Parts[r.content]
        BY <4>1, StoresConstants
      <4>3. Tokens[q] = {} \/ Tokens[q] \cap Parts[r.content] # {}
        BY <4>2
      <4> QED
        BY <2>3, <4>1, <4>3
    <3>4. Table(found) /\ MaxEpisodes \in Nat
      BY <2>6, <3>2, PartOfTable, SpacesConstants
    <3>5. PICK w : w = Take(Sorted(found, Newer), MaxEpisodes)
      OBVIOUS
    <3>6. ToSet(w) \subseteq found
      BY <3>4, <3>5, AnswersAreRows, Zenon
    <3>7. PgSearch(pg, s, q, MaxEpisodes) = w
      BY <3>1, <3>5 DEF PgSearch
    <3> QED
      BY <3>3, <3>6, <3>7
  <2>8. \A r \in ToSet(first), x \in sqlite : ~Newer(x, r)
    <3>1. first = Take(Sorted(sqlite, Newer), 1)
      BY <1>1 DEF SqliteSearch
    <3>2. Leads(first, sqlite)
      BY <2>6, <3>1, FirstIsNewest, Zenon
    <3> QED
      BY <3>2 DEF Leads
  <2> QED
    BY <2>4, <2>5, <2>7, <2>8 DEF Finds
<1>2. ASSUME SpacesInv PROVE SearchesAgree
  <2> SUFFICES ASSUME NEW s \in Spaces, NEW q \in Queries
               PROVE  Finds(s, q, Shown(db.episodes, s),
                            {r \in Shown(db.episodes, s) : Tokens[q] \cap Words[r.content] # {}},
                            SqliteMatches(db.episodes, db.fts, s, q),
                            PartMatches(mem.episodes, s, q),
                            SqliteSearch(db.episodes, db.fts, s, q, 1))
    BY Zenon DEF SearchesAgree, Finds
  <2> QED
    BY <1>1, <1>2
<1>3. SpacesInv => SearchesAgree
  BY <1>2
<1> QED
  BY <1>3, SpacesAreSound, PTL

(***************************************************************************)
(* A request changes one space.                                            *)
(***************************************************************************)
LEMMA SameSeen ==
  ASSUME NEW d, NEW e, NEW t, NEW u, Shown(e.episodes, t) = Shown(d.episodes, t),
         Live(e.facts, t) = Live(d.facts, t),
         listEntities(e.entities, t) = listEntities(d.entities, t),
         listDecisions(e.decisions, t) = listDecisions(d.decisions, t), e.spaces[t] = d.spaces[t]
  PROVE  ShowsTheSame(t, d, e)
  BY DEF ShowsTheSame, Seen

LEMMA AddsApart ==
  ASSUME NEW d, NEW e, NEW s, NEW t, t # s, AddsTo(d, e, s)
  PROVE  ShowsTheSame(t, d, e)
<1>1. Live(e.facts, t) = Live(d.facts, t) /\ listEntities(e.entities, t) = listEntities(d.entities, t)
  BY DEF AddsTo, Live, listEntities
<1>2. e.episodes = d.episodes /\ e.decisions = d.decisions /\ e.spaces = d.spaces
  BY DEF AddsTo, SameOtherwise
<1> QED
  BY <1>1, <1>2, SameSeen

LEMMA PutsApart ==
  ASSUME NEW d, NEW e, NEW s, NEW t, t # s, PutsIn(d, e, s)
  PROVE  ShowsTheSame(t, d, e)
<1>1. Shown(e.episodes, t) = Shown(d.episodes, t)
  BY DEF PutsIn, Shown
<1>2. e.facts = d.facts /\ e.entities = d.entities /\ e.decisions = d.decisions /\ e.spaces = d.spaces
  BY DEF PutsIn
<1> QED
  BY <1>1, <1>2, SameSeen

LEMMA ContentsApart ==
  ASSUME NEW d, NEW e, NEW t, SameContents(d, e), e.spaces[t] = d.spaces[t],
         listDecisions(e.decisions, t) = listDecisions(d.decisions, t)
  PROVE  ShowsTheSame(t, d, e)
  BY SameSeen DEF SameContents

LEMMA ForgetApart ==
  ASSUME NEW d \in Tables, NEW g, NEW a, NEW s, NEW t, t # s, NEW e \in Ids, NEW mode \in Modes,
         Forgot(d, g, a, s, e, mode), Table(d.facts), NEW k, Keyed(d.episodes, k),
         NEW n, Keyed(d.facts, n)
  PROVE  ShowsTheSame(t, d, g)
<1>1. d.episodes \subseteq Episode /\ d.facts \subseteq Fact
  BY DEF Tables
<1>2. /\ \A u : Shown(g.episodes, u) = {r \in Shown(d.episodes, u) : r.id # e}
      /\ mode = "purge" => \A r \in g.episodes : r.id # e
  <2>1. g.episodes = PgForgotten(d.episodes, e, mode)
    BY DEF Forgot
  <2>2. PICK E : E = g.episodes
    OBVIOUS
  <2>4. GoneFrom(d.episodes, E, e)
    BY <1>1, <2>1, <2>2, PgForgottenIs
  <2>3. mode = "purge" => \A r \in g.episodes : r.id # e
    BY <2>1 DEF PgForgotten, PurgeEpisode
  <2> QED
    BY <2>2, <2>3, <2>4 DEF GoneFrom
<1>3. /\ g.entities = d.entities /\ g.decisions = d.decisions /\ g.spaces = d.spaces
      /\ g.facts = IF mode = "purge" THEN PurgeFacts(d.facts, e)
                   ELSE RetractFacts(d.facts, Linked(a, d, s, e))
  BY DEF Forgot
<1>4. /\ mode # "purge" => Live(g.facts, t) = Live(d.facts, t)
      /\ mode = "purge" => Live(g.facts, t) = {f \in Live(d.facts, t) : f.source # e}
  <2>1. CASE mode = "purge"
    BY <1>3, <2>1 DEF PurgeFacts, Live
  <2>2. CASE mode # "purge"
    <3>1. PICK gone : gone = Linked(a, d, s, e)
      OBVIOUS
    <3>2. gone \subseteq Live(d.facts, s)
      BY <3>1, LinkedIs
    <3>3. gone \subseteq d.facts /\ \A f \in gone : f \notin Live(d.facts, t)
      BY <3>2 DEF Live
    <3>4. PICK F : F = g.facts
      OBVIOUS
    <3>5. F = RetractFacts(d.facts, gone)
      BY <1>3, <2>2, <3>1, <3>4
    <3>6. Retracted(d.facts, F, gone)
      BY <1>1, <3>3, <3>5, RetractFactsIs, Zenon
    <3> QED
      BY <2>2, <3>3, <3>4, <3>6 DEF Retracted
  <2> QED
    BY <2>1, <2>2
<1> DEFINE before == Seen(d, t)
           after == Seen(g, t)
<1>5. /\ before.memories = Shown(d.episodes, t) /\ before.facts = Live(d.facts, t)
      /\ after.memories = Shown(g.episodes, t) /\ after.facts = Live(g.facts, t)
      /\ after.entities = before.entities /\ after.decisions = before.decisions
      /\ after.space = before.space
  BY <1>3 DEF Seen
<1> HIDE DEF before, after
<1>6. after.memories = {r \in before.memories : r.id # e}
  BY <1>2, <1>5
<1>7. after.facts \in {before.facts, {f \in before.facts : f.source # e}}
  BY <1>4, <1>5
<1>8. after.facts # before.facts => \A r \in g.episodes : r.id # e
  BY <1>2, <1>4, <1>5
<1>9. \A part \in {"entities", "decisions", "space"} : after[part] = before[part]
  BY <1>5
<1> QED
  BY <1>6, <1>7, <1>8, <1>9 DEF before, after, ShowsTheSame

\* A request to one space leaves the others as they are.
LEMMA ServesOne ==
  ASSUME SpacesInv, NEW s \in Spaces, Serve(s), NEW t \in Spaces, t # s
  PROVE  ShowsTheSame(t, db, db') /\ ShowsTheSame(t, mem, mem')
<1>1. CASE \E c \in Contents : Remember(s, c)
  <2>1. PICK c \in Contents : Remember(s, c)
    BY <1>1
  <2>2. <<c>> \in Seq(Contents) /\ {newId.episode + 1} \in SUBSET Nat
    BY SoundTables
  <2>3. Request /\ Store(s, <<c>>, {newId.episode + 1})
    BY <2>1 DEF Remember
  <2>4. PutsIn(db, db', s) /\ PutsIn(mem, mem', s)
    BY <2>2, <2>3, StoreKeeps
  <2> QED
    BY <2>4, PutsApart
<1>2. CASE \E segments \in Documents : IngestMarkdown(s, segments)
  <2>1. PICK segments \in Documents : Request /\ Store(s, segments, {})
    BY <1>2 DEF IngestMarkdown
  <2>2. segments \in Seq(Contents) /\ {} \in SUBSET Nat
    BY SpacesConstants
  <2>3. PutsIn(db, db', s) /\ PutsIn(mem, mem', s)
    BY <2>1, <2>2, StoreKeeps
  <2> QED
    BY <2>3, PutsApart
<1>3. CASE \E e \in Ids, mode \in Modes : Forget(s, e, mode)
  <2>1. PICK e \in Ids, mode \in Modes : Forget(s, e, mode)
    BY <1>3
  <2>2. Forgot(db, db', "sqlite", s, e, mode) /\ Forgot(mem, mem', "memory", s, e, mode)
    BY <2>1, ForgetKeeps
  <2>3. /\ db \in Tables /\ mem \in Tables /\ newId.fact \in Nat
        /\ Keyed(db.facts, newId.fact) /\ Keyed(mem.facts, newId.fact)
        /\ Keyed(db.episodes, newId.episode) /\ Keyed(mem.episodes, newId.episode)
    BY SoundTables DEF Sound, SpacesInv, RowsInv
  <2>4. Table(db.facts) /\ Table(mem.facts)
    BY <2>3, KeyedIsTable
  <2>5. ShowsTheSame(t, db, db')
    BY <2>2, <2>3, <2>4, ForgetApart, Zenon
  <2>6. ShowsTheSame(t, mem, mem')
    BY <2>2, <2>3, <2>4, ForgetApart, Zenon
  <2> QED
    BY <2>5, <2>6
<1>4. CASE Consolidate(s) \/ Accept(s)
  BY <1>4, ConsolidateKeeps, AcceptKeeps, AddsApart
<1>5. CASE Preview(s)
  <2>1. db' = db /\ mem' = mem
    BY <1>5, PreviewKeeps
  <2> QED
    BY <2>1, SameSeen
<1>6. CASE Decide(s)
  <2>1. /\ SameContents(db, db') /\ SameContents(mem, mem')
        /\ db'.spaces = db.spaces /\ mem'.spaces = mem.spaces
        /\ listDecisions(db'.decisions, t) = listDecisions(db.decisions, t)
        /\ listDecisions(mem'.decisions, t) = listDecisions(mem.decisions, t)
    BY <1>6, DecideKeeps
  <2> QED
    BY <2>1, ContentsApart
<1> QED
  BY <1>1, <1>2, <1>3, <1>4, <1>5, <1>6 DEF Serve

\* Whatever is asked of one space, what the others show stays, but for an
\* episode that is forgotten through it (the routes of rest.ts).
THEOREM ApartThroughout == SpacesSpec => SpacesAreApart
<1>1. ASSUME SpacesInv, [SpacesNext]_spacesVars
      PROVE  [\A t \in Spaces :
                \/ ShowsTheSame(t, db, db') /\ ShowsTheSame(t, mem, mem')
                \/ Serve(t) \/ Manage(t)
             ]_spacesVars
  <2>1. ASSUME NEW s \in Spaces, Serve(s), NEW t \in Spaces, t # s
        PROVE  ShowsTheSame(t, db, db') /\ ShowsTheSame(t, mem, mem')
    BY <1>1, <2>1, ServesOne
  <2>2. ASSUME NEW s \in Spaces, Manage(s), NEW t \in Spaces, t # s
        PROVE  ShowsTheSame(t, db, db') /\ ShowsTheSame(t, mem, mem')
    <3>1. /\ SameContents(db, db') /\ SameContents(mem, mem')
          /\ db'.decisions = db.decisions /\ mem'.decisions = mem.decisions
          /\ db'.spaces[t] = db.spaces[t] /\ mem'.spaces[t] = mem.spaces[t]
      BY <1>1, <2>2, ManageKeeps
    <3> QED
      BY <3>1, ContentsApart
  <2>3. CASE UNCHANGED spacesVars
    BY <2>3
  <2>4. CASE SpacesNext
    <3>1. PICK s \in Spaces : Serve(s) \/ Manage(s)
      BY <2>4, ToolServes DEF SpacesNext
    <3> QED
      BY <2>1, <2>2, <3>1
  <2> QED
    BY <1>1, <2>3, <2>4
<1> QED
  BY <1>1, SpacesAreSound, PTL DEF SpacesSpec, SpacesAreApart

(***************************************************************************)
(* Spaces with room: extraction and forgetting read every current fact.    *)
(***************************************************************************)
Roomy ==
  \A s \in Spaces : /\ Cardinality(Live(db.facts, s)) <= FactLimit
                    /\ Cardinality(Live(db.facts, s)) <= ForgetLimit

\* No space states a claim twice.
Apart(rows) == \A s \in Spaces : \A f, x \in Live(rows, s) : f.claim = x.claim => f = x

\* The facts of a space come from episodes it shows.
Sourced(d, freed) ==
  \A f \in d.facts :
    f.live /\ <<f.space, f.source>> \notin freed =>
      \E r \in Shown(d.episodes, f.space) : r.id = f.source

SameFacts == mem.facts = db.facts /\ mem.entities = db.entities

RoomyInv == SameFacts /\ Apart(db.facts) /\ Sourced(db, loose)

ClaimsOf(rows, s) == {f.claim : f \in Live(rows, s)}

LEMMA RoomyHeld ==
  ASSUME SpacesInv, SameFacts, Roomy, NEW s \in Spaces
  PROVE  /\ Held("sqlite", db, s) = ClaimsOf(db.facts, s)
         /\ Held("memory", mem, s) = ClaimsOf(db.facts, s)
<1>1. Table(db.facts) /\ Table(mem.facts) /\ FactLimit \in Nat
  BY SoundTables, KeyedIsTable, SpacesConstants DEF Sound
<1>2. /\ Cardinality(Live(db.facts, s)) <= FactLimit
      /\ Live(mem.facts, s) = Live(db.facts, s)
  BY DEF Roomy, SameFacts
<1>3. ToSet(FactRows("sqlite", db, s, FactLimit)) = Live(db.facts, s)
  BY <1>1, <1>2, FactRowsAre
<1>4. ToSet(FactRows("memory", mem, s, FactLimit)) = Live(db.facts, s)
  BY <1>1, <1>2, FactRowsAre
<1> QED
  BY <1>3, <1>4 DEF Held, ClaimsOf

\* Extraction states no claim that is stated already.
LEMMA ExtractionApart ==
  ASSUME NEW r, NEW l, NEW d, NEW s, NEW cs, NEW id, NEW held,
         TurnInv(r, l, d, s, cs, id, held), held = ClaimsOf(d.facts, s), Apart(d.facts)
  PROVE  Apart(r.d.facts)
<1>1. /\ d.facts \subseteq r.d.facts
      /\ \A f \in Added(d, r.d) : f.space = s /\ f.claim \notin held
      /\ \A f, x \in Added(d, r.d) : f.claim = x.claim => f = x
  BY DEF TurnInv, FactsOf
<1>2. ASSUME NEW t \in Spaces, NEW f \in Live(r.d.facts, t), NEW x \in Live(r.d.facts, t),
             f.claim = x.claim
      PROVE  f = x
  <2>1. /\ f \in Live(d.facts, t) \/ (f \in Added(d, r.d) /\ t = s)
        /\ x \in Live(d.facts, t) \/ (x \in Added(d, r.d) /\ t = s)
    BY <1>1 DEF Live, Added
  <2>2. \A y \in Live(d.facts, s) : y.claim \in held
    BY DEF ClaimsOf
  <2> QED
    BY <1>1, <1>2, <2>1, <2>2 DEF Apart
<1> QED
  BY <1>2 DEF Apart

\* Each candidate comes from an episode that is shown, or is excused.
Backed(cs, d, s, more) ==
  \A j \in 1..Len(cs) : \/ <<s, cs[j].source>> \in more
                       \/ \E e \in Shown(d.episodes, s) : e.id = cs[j].source

LEMMA ExtractionSourced ==
  ASSUME NEW r, NEW l, NEW d, NEW s, NEW cs, NEW id, NEW held,
         TurnInv(r, l, d, s, cs, id, held), NEW freed, Sourced(d, freed), NEW more,
         Backed(cs, d, s, more)
  PROVE  Sourced(r.d, freed \union more)
<1>1. /\ r.d.episodes = d.episodes
      /\ \A f \in Added(d, r.d) :
           f.space = s /\ \E j \in 1..Len(cs) : cs[j].claim = f.claim /\ cs[j].source = f.source
  BY DEF TurnInv, FactsOf, SameOtherwise
<1>2. ASSUME NEW f \in r.d.facts, f.live, <<f.space, f.source>> \notin freed \union more
      PROVE  \E e \in Shown(r.d.episodes, f.space) : e.id = f.source
  <2>1. CASE f \in d.facts
    BY <1>1, <1>2, <2>1 DEF Sourced
  <2>2. CASE f \in Added(d, r.d)
    <3>1. PICK j \in 1..Len(cs) : cs[j].source = f.source
      BY <1>1, <2>2
    <3>2. f.space = s
      BY <1>1, <2>2
    <3> QED
      BY <1>1, <1>2, <3>1, <3>2 DEF Backed
  <2> QED
    BY <2>1, <2>2 DEF Added
<1> QED
  BY <1>2 DEF Sourced

LEMMA ExtractRoomy ==
  ASSUME SpacesInv, RoomyInv, Roomy, NEW s \in Spaces, NEW cs \in Seq(Proposal), Request,
         Extract(s, cs, cs), NEW more, Backed(cs, db, s, more), loose' = loose \union more
  PROVE  RoomyInv'
<1>0. SpacesTypeOK /\ RowsInv
  BY DEF SpacesInv
<1>1. PICK id \in Nat, at \in Nat : id = newId.fact /\ at = now'
  BY <1>0 DEF SpacesTypeOK, Request
<1>2. PICK u, v : /\ u = applyExtract("sqlite", db, s, cs, at, id, TRUE)
                  /\ v = applyExtract("memory", mem, s, cs, at, id, TRUE)
  OBVIOUS
<1>3. db' = u.d /\ mem' = v.d
  BY <1>1, <1>2 DEF Extract
<1>4. /\ db \in Tables /\ OneEntityEach(db) /\ Keyed(db.facts, id)
      /\ mem \in Tables /\ OneEntityEach(mem)
      /\ "sqlite" \in Adapters /\ "memory" \in Adapters
  BY <1>1, SoundTables DEF Sound, Adapters
<1>5. PICK held : held = Held("sqlite", db, s) /\ held = ClaimsOf(db.facts, s)
                  /\ held = Held("memory", mem, s)
  BY RoomyHeld DEF RoomyInv
<1>6. Extracted(u, db, s, cs, id, Held("sqlite", db, s), at)
  BY <1>2, <1>4, Extracts, Zenon
<1>7. PICK l : TurnInv(u, l, db, s, cs, id, held)
  BY <1>5, <1>6 DEF Extracted
<1>8. Apart(u.d.facts)
  BY <1>5, <1>7, ExtractionApart DEF RoomyInv
<1>9. Sourced(u.d, loose \union more)
  BY <1>7, ExtractionSourced DEF RoomyInv
<1>10. SameRun(u, v)
  <2>1. db.facts = mem.facts /\ db.entities = mem.entities
    BY DEF RoomyInv, SameFacts
  <2>2. Held("sqlite", db, s) = Held("memory", mem, s)
    BY <1>5
  <2>3. SameRun(applyExtract("sqlite", db, s, cs, at, id, TRUE),
                applyExtract("memory", mem, s, cs, at, id, TRUE))
    BY <1>4, <2>1, <2>2, SameExtraction, Zenon
  <2> QED
    BY <1>2, <2>3
<1> QED
  BY <1>3, <1>8, <1>9, <1>10 DEF RoomyInv, SameFacts, SameRun

LEMMA ConsolidateRoomy ==
  ASSUME SpacesInv, RoomyInv, Roomy, NEW s \in Spaces, Consolidate(s)
  PROVE  RoomyInv'
<1>1. PICK cs : cs = Candidates(db, s)
  OBVIOUS
<1>2. Candidates(mem, s) = cs
  BY <1>1 DEF SpacesInv, RowsInv, Candidates
<1>3. Request /\ Extract(s, cs, cs) /\ loose' = loose \union {}
  BY <1>1, <1>2 DEF Consolidate
<1>4. cs \in Seq(Proposal)
  BY <1>1, CandidatesFit
<1>5. Backed(cs, db, s, {})
  <2>1. db.episodes \subseteq Episode
    BY DEF SpacesInv, SpacesTypeOK, Tables
  <2> QED
    BY <1>1, <2>1, CandidatesFit, CandidatesAre DEF Backed
<1>6. PICK more : more = {}
  OBVIOUS
<1> QED
  BY <1>3, <1>4, <1>5, <1>6, ExtractRoomy

LEMMA AcceptRoomy ==
  ASSUME SpacesInv, RoomyInv, Roomy, NEW s \in Spaces, Accept(s)
  PROVE  RoomyInv'
<1>1. PICK more : more = {<<s, p.source>> : p \in ToSet(review)}
  OBVIOUS
<1>2. Request /\ Extract(s, review, review) /\ loose' = loose \union more
  BY <1>1 DEF Accept
<1>3. review \in Seq(Proposal)
  BY DEF SpacesInv, SpacesTypeOK
<1>4. Backed(review, db, s, more)
  <2>1. \A j \in 1..Len(review) : review[j] \in ToSet(review)
    BY <1>3 DEF ToSet
  <2> QED
    BY <1>1, <2>1 DEF Backed
<1>5. PICK cs \in Seq(Proposal) : Extract(s, cs, cs) /\ Backed(cs, db, s, more)
  BY <1>2, <1>3, <1>4
<1> QED
  BY <1>2, <1>5, ExtractRoomy

\* All facts drawn from the episode in the space are retracted.
LEMMA ForgetRoomy ==
  ASSUME SpacesInv, RoomyInv, Roomy, NEW s \in Spaces, NEW e \in Ids, NEW mode \in Modes,
         Forget(s, e, mode)
  PROVE  RoomyInv'
<1>1. /\ Forgot(db, db', "sqlite", s, e, mode) /\ Forgot(mem, mem', "memory", s, e, mode)
      /\ loose' = IF mode = "purge" THEN loose
                  ELSE loose \union {<<t, e>> : t \in Spaces \ {s}}
  BY ForgetKeeps DEF Forget
<1>2. /\ mem.facts = db.facts /\ mem.entities = db.entities
      /\ Apart(db.facts) /\ Sourced(db, loose)
  BY DEF RoomyInv, SameFacts
<1>3. PICK linked : linked = {f \in Live(db.facts, s) : f.source = e}
  OBVIOUS
<1>4. Linked("sqlite", db, s, e) = linked /\ Linked("memory", mem, s, e) = linked
  <2>1. Table(db.facts) /\ Table(mem.facts)
    BY SoundTables, KeyedIsTable DEF Sound
  <2>2. Cardinality(Live(db.facts, s)) <= ForgetLimit
    BY DEF Roomy
  <2> QED
    BY <1>2, <1>3, <2>1, <2>2, LinkedIs
<1>5. PICK g, h : g = db' /\ h = mem'
  OBVIOUS
<1>6. /\ g.facts = IF mode = "purge" THEN PurgeFacts(db.facts, e) ELSE RetractFacts(db.facts, linked)
      /\ h.facts = g.facts /\ h.entities = g.entities
  BY <1>1, <1>2, <1>4, <1>5 DEF Forgot
<1>7. db \in Tables /\ db.facts \subseteq Fact /\ db.episodes \subseteq Episode
      /\ Keyed(db.facts, newId.fact) /\ Keyed(db.episodes, newId.episode)
  BY SoundTables DEF Sound, SpacesInv, RowsInv, Tables
<1>8. \A t : /\ mode = "purge" => Live(g.facts, t) = {f \in Live(db.facts, t) : f.source # e}
             /\ mode # "purge" => Live(g.facts, t) = Live(db.facts, t) \ linked
  <2>1. CASE mode = "purge"
    BY <1>6, <2>1 DEF PurgeFacts, Live
  <2>2. CASE mode # "purge"
    <3>1. PICK F : F = g.facts /\ F = RetractFacts(db.facts, linked)
      BY <1>6, <2>2
    <3>2. linked \subseteq db.facts
      BY <1>3 DEF Live
    <3>3. Retracted(db.facts, F, linked)
      BY <1>7, <3>1, <3>2, RetractFactsIs, Zenon
    <3> QED
      BY <2>2, <3>1, <3>3 DEF Retracted
  <2> QED
    BY <2>1, <2>2
<1>9. GoneFrom(db.episodes, g.episodes, e)
  <2>1. PICK E : E = g.episodes /\ E = PgForgotten(db.episodes, e, mode)
    BY <1>1, <1>5 DEF Forgot
  <2>2. GoneFrom(db.episodes, E, e)
    BY <1>7, <2>1, PgForgottenIs
  <2> QED
    BY <2>1, <2>2
<1>10. Apart(g.facts)
  <2>1. \A t : Live(g.facts, t) \subseteq Live(db.facts, t)
    BY <1>8
  <2> QED
    BY <1>2, <2>1 DEF Apart
<1>11. ASSUME NEW f \in g.facts, f.live, <<f.space, f.source>> \notin loose'
       PROVE  \E r \in Shown(g.episodes, f.space) : r.id = f.source
  <2>1. f \in Live(g.facts, f.space)
    BY <1>11 DEF Live
  <2>2. f \in Live(db.facts, f.space)
    BY <1>8, <2>1
  <2>3. f \in db.facts /\ f.space \in Spaces /\ <<f.space, f.source>> \notin loose
    BY <1>1, <1>7, <1>11, <2>2 DEF Live, Fact
  <2>4. PICK r \in Shown(db.episodes, f.space) : r.id = f.source
    BY <1>2, <1>11, <2>3 DEF Sourced
  <2>5. f.source # e
    <3>1. CASE mode = "purge"
      BY <1>8, <2>1, <3>1
    <3>2. CASE mode # "purge"
      <4>1. SUFFICES ASSUME f.source = e PROVE FALSE
        OBVIOUS
      <4>2. f.space = s
        BY <1>1, <1>11, <2>3, <3>2, <4>1
      <4>3. f \in linked
        BY <1>3, <2>2, <4>1, <4>2
      <4> QED
        BY <1>8, <2>1, <3>2, <4>3
    <3> QED
      BY <3>1, <3>2
  <2> QED
    BY <1>9, <2>4, <2>5 DEF GoneFrom
<1>12. Sourced(g, loose')
  BY <1>11 DEF Sourced
<1> QED
  BY <1>5, <1>6, <1>10, <1>12 DEF RoomyInv, SameFacts

\* Requests that leave facts and entities alone.
LEMMA KeptRoomy ==
  ASSUME RoomyInv, db'.facts = db.facts, db'.entities = db.entities, mem'.facts = mem.facts,
         mem'.entities = mem.entities, loose' = loose,
         \A t : Shown(db.episodes, t) \subseteq Shown(db'.episodes, t)
  PROVE  RoomyInv'
<1>1. Sourced(db', loose')
  BY DEF RoomyInv, Sourced
<1> QED
  BY <1>1 DEF RoomyInv, SameFacts

LEMMA StepRoomy ==
  ASSUME SpacesInv, RoomyInv, Roomy, [SpacesNext]_spacesVars
  PROVE  RoomyInv'
<1>1. ASSUME NEW s \in Spaces, Serve(s) PROVE RoomyInv'
  <2>1. ASSUME NEW texts \in Seq(Contents), NEW evidence \in SUBSET Nat,
               Request, Store(s, texts, evidence)
        PROVE  RoomyInv'
    <3>1. PutsIn(db, db', s) /\ PutsIn(mem, mem', s) /\ loose' = loose
      BY <2>1, StoreKeeps DEF Store
    <3>2. \A t : Shown(db.episodes, t) \subseteq Shown(db'.episodes, t)
      BY <3>1 DEF PutsIn, Shown
    <3> QED
      BY <3>1, <3>2, KeptRoomy DEF PutsIn
  <2>2. CASE \E c \in Contents : Remember(s, c)
    <3>1. PICK c \in Contents : Request /\ Store(s, <<c>>, {newId.episode + 1})
      BY <2>2 DEF Remember
    <3>2. <<c>> \in Seq(Contents) /\ {newId.episode + 1} \in SUBSET Nat
      BY SoundTables
    <3> QED
      BY <2>1, <3>1, <3>2
  <2>3. CASE \E segments \in Documents : IngestMarkdown(s, segments)
    <3>1. PICK segments \in Documents : Request /\ Store(s, segments, {})
      BY <2>3 DEF IngestMarkdown
    <3>2. segments \in Seq(Contents) /\ {} \in SUBSET Nat
      BY SpacesConstants
    <3> QED
      BY <2>1, <3>1, <3>2
  <2>4. CASE \E e \in Ids, mode \in Modes : Forget(s, e, mode)
    BY <2>4, ForgetRoomy
  <2>5. CASE Consolidate(s)
    BY <2>5, ConsolidateRoomy
  <2>6. CASE Accept(s)
    BY <2>6, AcceptRoomy
  <2>7. CASE Preview(s)
    <3>1. db' = db /\ mem' = mem /\ loose' = loose
      BY <2>7 DEF Preview
    <3> QED
      BY <3>1, KeptRoomy
  <2>8. CASE Decide(s)
    <3>1. SameContents(db, db') /\ SameContents(mem, mem') /\ loose' = loose
      BY <2>8, DecideKeeps DEF Decide
    <3> QED
      BY <3>1, KeptRoomy DEF SameContents
  <2> QED
    BY <1>1, <2>2, <2>3, <2>4, <2>5, <2>6, <2>7, <2>8 DEF Serve
<1>2. ASSUME NEW s \in Spaces, Manage(s) PROVE RoomyInv'
  <2>1. SameContents(db, db') /\ SameContents(mem, mem') /\ loose' = loose
    BY <1>2, ManageKeeps DEF Manage, CreateSpace, PatchSpace, DeleteSpace
  <2> QED
    BY <2>1, KeptRoomy DEF SameContents
<1>3. CASE UNCHANGED spacesVars
  BY <1>3 DEF spacesVars, RoomyInv, SameFacts
<1>4. CASE SpacesNext
  BY <1>1, <1>2, <1>4, ToolServes DEF SpacesNext
<1> QED
  BY <1>3, <1>4

LEMMA InitRoomy == SpacesInit => RoomyInv
<1> SUFFICES ASSUME SpacesInit PROVE RoomyInv
  OBVIOUS
<1>1. db.facts = {} /\ db.entities = {}
  BY DEF SpacesInit, Seeded
<1>2. mem.facts = {} /\ mem.entities = {}
  BY DEF SpacesInit, Seeded
<1> QED
  BY <1>1, <1>2 DEF RoomyInv, SameFacts, Apart, Live, Sourced

\* While consolidation and forgetting read all that a space currently
\* states, the adapters keep the same facts, no claim twice, and none
\* without the episode it came from (applyExtract, retractLinkedFacts).
THEOREM RoomyInvHolds == SpacesSpec /\ []Roomy => []RoomyInv
<1>1. SpacesInit => RoomyInv
  BY InitRoomy
<1>2. SpacesInv /\ RoomyInv /\ Roomy /\ [SpacesNext]_spacesVars => RoomyInv'
  BY StepRoomy
<1> QED
  BY <1>1, <1>2, SpacesAreSound, PTL DEF SpacesSpec

\* Then no current fact of a space outlives the episode it was drawn from,
\* unless that was forgotten through another space (memory-service.ts
\* forget).
THEOREM NoneIsOrphaned == SpacesSpec /\ []Roomy => []NoOrphans
<1>1. RoomyInv => NoOrphans
  BY DEF RoomyInv, Sourced, NoOrphans
<1> QED
  BY <1>1, RoomyInvHolds, PTL

\* The newest rows, in some order of equal times.
LEMMA NewestInSomeOrder ==
  ASSUME NEW rows, NEW s, Table(Shown(rows, s)), NEW limit, NEW q, q = listRecent(rows, s, limit)
  PROVE  q \in PgListRecent(rows, s, limit)
<1>1. PICK shown : shown = Shown(rows, s)
  OBVIOUS
<1> DEFINE R == {p \in shown \X shown : Newer(p[1], p[2])}
<1>2. PICK w : w = Sorted(shown, Newer)
  OBVIOUS
<1>3. Lists(w, shown, R) /\ Table(shown)
  BY <1>1, <1>2, SortedIs
<1>4. w \in SetToSeqs(shown) /\ w \in Seq(shown) /\ DOMAIN w = 1..Len(w)
  BY <1>3, ListIs DEF Lists, Table
<1>5. ASSUME NEW i \in DOMAIN w, NEW j \in DOMAIN w, i < j
      PROVE  w[i].at >= w[j].at
  <2>1. <<w[i], w[j]>> \in R
    BY <1>3, <1>4, <1>5 DEF Lists
  <2>2. Newer(w[i], w[j]) /\ w[i] \in shown /\ w[j] \in shown
    BY <2>1
  <2>3. PICK x, y : x = w[i] /\ y = w[j]
    OBVIOUS
  <2>4. Newer(x, y) /\ x.at \in Nat /\ y.at \in Nat
    BY <1>3, <2>2, <2>3 DEF Table
  <2>5. x.at >= y.at
    BY <2>4, NewerIsLater
  <2> QED
    BY <2>3, <2>5
<1>6. q = Take(w, limit)
  BY <1>1, <1>2 DEF listRecent
<1> HIDE DEF R
<1> QED
  BY <1>1, <1>4, <1>5, <1>6, Zenon DEF PgListRecent

LEMMA SameButThese ==
  ASSUME NEW d \in Tables, NEW e \in Tables, e.facts = d.facts, e.entities = d.entities,
         e.episodes = d.episodes, e.evidence = d.evidence, e.decisions = d.decisions,
         [e.spaces EXCEPT ![Default] = "none"] = [d.spaces EXCEPT ![Default] = "none"]
  PROVE  [e EXCEPT !.fts = {}, !.aliases = {}, !.spaces[Default] = "none"] =
           [d EXCEPT !.fts = {}, !.aliases = {}, !.spaces[Default] = "none"]
  BY DEF Tables

\* Then the adapters hold the same rows and list them alike (listRecent and
\* queryFacts of each adapter).
THEOREM AdaptersAgreeThroughout == SpacesSpec /\ []Roomy => []AdaptersAgree
<1>1. ASSUME SpacesInv, RoomyInv PROVE AdaptersAgree
  <2>0. /\ SpacesTypeOK /\ RowsInv /\ db \in Tables /\ mem \in Tables
        /\ mem.facts = db.facts /\ mem.entities = db.entities
    BY <1>1 DEF SpacesInv, SpacesTypeOK, RoomyInv, SameFacts
  <2>1. [mem EXCEPT !.fts = {}, !.aliases = {}, !.spaces[Default] = "none"] =
          [db EXCEPT !.fts = {}, !.aliases = {}, !.spaces[Default] = "none"]
    <3>1. [mem.spaces EXCEPT ![Default] = "none"] = [db.spaces EXCEPT ![Default] = "none"]
      BY <2>0 DEF Tables, RowsInv
    <3> QED
      BY <2>0, <3>1, SameButThese DEF RowsInv
  <2>2. pg = db.episodes /\ db.fts = {r.id : r \in db.episodes}
    BY <2>0 DEF RowsInv
  <2>3. ASSUME NEW s \in Spaces
        PROVE  memories(db, s) \in PgListRecent(pg, s, ListLimit)
    <3>1. Table(Shown(pg, s))
      BY <1>1, <2>2, CandidatesFit, PartOfTable DEF Shown
    <3> QED
      BY <2>2, <3>1, NewestInSomeOrder DEF memories
  <2>4. ASSUME NEW s \in Spaces
        PROVE  \/ ToSet(queryFacts("sqlite", db, s)) = ToSet(queryFacts("memory", mem, s))
               \/ Cardinality(Live(db.facts, s)) > ListLimit
    <3>1. Table(db.facts) /\ Table(mem.facts) /\ ListLimit \in Nat
      BY <1>1, SoundTables, KeyedIsTable, SpacesConstants DEF Sound
    <3>2. IsFiniteSet(Live(db.facts, s))
      BY <3>1, FS_Subset DEF Table, Live
    <3>3. Cardinality(Live(db.facts, s)) \in Nat /\ Live(mem.facts, s) = Live(db.facts, s)
      BY <2>0, <3>2, FS_CardinalityType
    <3>4. CASE Cardinality(Live(db.facts, s)) <= ListLimit
      <4>1. ToSet(FactRows("sqlite", db, s, ListLimit)) = Live(db.facts, s)
        BY <3>1, <3>4, FactRowsAre
      <4>2. ToSet(FactRows("memory", mem, s, ListLimit)) = Live(mem.facts, s)
        BY <3>1, <3>3, <3>4, FactRowsAre
      <4> QED
        BY <3>3, <4>1, <4>2 DEF queryFacts
    <3>5. CASE ~(Cardinality(Live(db.facts, s)) <= ListLimit)
      BY <3>1, <3>3, <3>5
    <3> QED
      BY <3>4, <3>5
  <2> QED
    BY <2>1, <2>2, <2>3, <2>4 DEF AdaptersAgree
<1>2. SpacesInv /\ RoomyInv => AdaptersAgree
  BY <1>1
<1> QED
  BY <1>2, SpacesAreSound, RoomyInvHolds, PTL

\* A space that states no claim twice has no more facts than there are claims.
LEMMA NoMoreThanClaims ==
  ASSUME IsFiniteSet(Claims), NEW rows, rows \subseteq Fact, Apart(rows), NEW s \in Spaces
  PROVE  /\ Cardinality(Live(rows, s)) \in Nat
         /\ Cardinality(Live(rows, s)) <= Cardinality(Claims)
<1> DEFINE L == Live(rows, s)
           f == [r \in L |-> r.claim]
<1>1. \A r \in L : r.claim \in Claims
  BY DEF Fact, Live
<1>2. \A r, x \in L : r.claim = x.claim => r = x
  BY DEF Apart
<1>3. f \in Injection(L, Claims)
  BY <1>1, <1>2 DEF Injection, IsInjective
<1>4. IsFiniteSet(L) /\ Cardinality(L) <= Cardinality(Claims)
  BY <1>3, FS_Injection
<1>5. Cardinality(L) \in Nat
  BY <1>4, FS_CardinalityType
<1> QED
  BY <1>4, <1>5

\* There is room as long as all texts together make no more claims than
\* consolidation (200) and forgetting (500) read facts.
THEOREM FewClaimsLeaveRoom ==
  ASSUME IsFiniteSet(Claims), Cardinality(Claims) <= FactLimit, Cardinality(Claims) <= ForgetLimit
  PROVE  SpacesSpec => []Roomy
<1>1. ASSUME SpacesInv, RoomyInv PROVE Roomy
  <2>1. ASSUME NEW s \in Spaces
        PROVE  Cardinality(Live(db.facts, s)) \in Nat
               /\ Cardinality(Live(db.facts, s)) <= Cardinality(Claims)
    <3>1. db.facts \subseteq Fact /\ Apart(db.facts)
      BY <1>1 DEF SpacesInv, SpacesTypeOK, Tables, RoomyInv
    <3> QED
      BY <3>1, NoMoreThanClaims
  <2>2. Cardinality(Claims) \in Nat /\ FactLimit \in Nat /\ ForgetLimit \in Nat
    BY FS_CardinalityType, SpacesConstants
  <2>3. ASSUME NEW s \in Spaces
        PROVE  /\ Cardinality(Live(db.facts, s)) <= FactLimit
               /\ Cardinality(Live(db.facts, s)) <= ForgetLimit
    BY <2>1, <2>2
  <2> QED
    BY <2>3 DEF Roomy
<1>2. SpacesInv /\ RoomyInv => Roomy
  BY <1>1
<1>3. SpacesInit => RoomyInv
  BY InitRoomy
<1>4. SpacesInv /\ RoomyInv /\ [SpacesNext]_spacesVars => RoomyInv'
  BY <1>2, StepRoomy
<1> QED
  BY <1>2, <1>3, <1>4, SpacesAreSound, PTL DEF SpacesSpec

\* As long as few claims are made, no fact is orphaned and the adapters
\* agree, with no hypothesis on the behaviour.
COROLLARY FewClaimsAgree ==
  ASSUME IsFiniteSet(Claims), Cardinality(Claims) <= FactLimit, Cardinality(Claims) <= ForgetLimit
  PROVE  SpacesSpec => [](NoOrphans /\ AdaptersAgree)
  BY FewClaimsLeaveRoom, NoneIsOrphaned, AdaptersAgreeThroughout, PTL

(***************************************************************************)
(* A preview, and what comes of it.                                        *)
(***************************************************************************)
Agree(u, v) == u.known = v.known /\ u.proposed = v.proposed

LEMMA PreviewTurn ==
  ASSUME NEW a \in Adapters, NEW s \in Spaces, NEW c \in Proposal,
         NEW u \in Run, NEW v, Fits(v), Agree(u, v),
         NEW x, x = Persist(a, u, s, c, FALSE), NEW y, y = Persist(a, v, s, c, TRUE)
  PROVE  x \in Run /\ Fits(y) /\ Agree(x, y)
<1>1. Previewed(u, x, c)
  BY Previews, Zenon
<1>2. Persisted(v, y, s, c)
  BY Persists, Zenon DEF Fits
<1>3. Fits(y) /\ x \in Run
  BY <1>1, <1>2 DEF Fits, Persisted, Previewed
<1>4. CASE c.claim \in u.known
  BY <1>1, <1>2, <1>3, <1>4 DEF Agree, Persisted, Previewed
<1>5. CASE c.claim \notin u.known
  BY <1>1, <1>2, <1>3, <1>5 DEF Agree, Persisted, Previewed
<1> QED
  BY <1>4, <1>5

Prefix(p, q) == Len(p) <= Len(q) /\ \A k \in 1..Len(p) : p[k] = q[k]

LEMMA AppendGrows ==
  ASSUME NEW p \in Seq(Proposal), NEW c \in Proposal, NEW q, q = Append(p, c)
  PROVE  /\ q \in Seq(Proposal) /\ Len(p) \in Nat /\ Len(q) = Len(p) + 1 /\ q[Len(p) + 1] = c
         /\ \A k \in 1..Len(p) : q[k] = p[k]
<1>1. Len(p) \in Nat /\ Len(q) = Len(p) + 1 /\ q \in Seq(Proposal)
  BY LenProperties, AppendProperties
<1>2. q[Len(p) + 1] = c
  BY AppendProperties
<1>3. \A k \in 1..Len(p) : q[k] = p[k]
  BY AppendProperties
<1> QED
  BY <1>1, <1>2, <1>3

LEMMA PrefixGrows ==
  ASSUME NEW o \in Seq(Proposal), NEW p \in Seq(Proposal), NEW q, Prefix(o, p), NEW c \in Proposal,
         q = p \/ q = Append(p, c)
  PROVE  Prefix(o, q)
<1>1. CASE q = p
  BY <1>1
<1>2. CASE q = Append(p, c)
  <2>1. PICK m \in Nat, n \in Nat : m = Len(o) /\ n = Len(p)
    BY LenProperties
  <2>2. Len(q) = n + 1 /\ \A k \in 1..n : q[k] = p[k]
    BY <1>2, <2>1, AppendGrows
  <2>3. m <= n /\ \A k \in 1..m : o[k] = p[k]
    BY <2>1 DEF Prefix
  <2>4. m <= n + 1 /\ \A k \in 1..m : k \in 1..n
    BY <2>1, <2>3
  <2> QED
    BY <2>1, <2>2, <2>3, <2>4 DEF Prefix
<1> QED
  BY <1>1, <1>2

LEMMA PrefixOfItself == ASSUME NEW p \in Seq(Proposal) PROVE Prefix(p, p)
<1>1. Len(p) \in Nat
  BY LenProperties
<1> QED
  BY <1>1 DEF Prefix

\* What was proposed stays proposed, and in its place.
LEMMA ProposalsStay ==
  ASSUME NEW n \in Nat, NEW D, \A i \in 0..n : D[i].proposed \in Seq(Proposal),
         \A i \in 1..n : \/ D[i].proposed = D[i - 1].proposed
                         \/ \E c \in Proposal : D[i].proposed = Append(D[i - 1].proposed, c)
  PROVE  \A j \in 0..n : Prefix(D[j].proposed, D[n].proposed)
<1> DEFINE C == {i \in 0..n : \A j \in 0..i : Prefix(D[j].proposed, D[i].proposed)}
<1>1. 0 \in C
  <2>1. 0 \in 0..n /\ \A j \in 0..0 : j = 0
    OBVIOUS
  <2>2. Prefix(D[0].proposed, D[0].proposed)
    BY <2>1, PrefixOfItself
  <2> QED
    BY <2>1, <2>2
<1>2. ASSUME NEW i \in 1..n, i - 1 \in C
      PROVE  i \in C
  <2>1. i \in 0..n /\ i - 1 \in 0..n /\ \A j \in 0..i : j = i \/ (j \in 0..(i - 1) /\ j \in 0..n)
    OBVIOUS
  <2>2. Prefix(D[i].proposed, D[i].proposed)
    BY <2>1, PrefixOfItself
  <2>3. ASSUME NEW j \in 0..(i - 1), j \in 0..n
        PROVE  Prefix(D[j].proposed, D[i].proposed)
    <3>1. PICK o \in Seq(Proposal), p \in Seq(Proposal), q \in Seq(Proposal) :
            o = D[j].proposed /\ p = D[i - 1].proposed /\ q = D[i].proposed
      BY <2>1, <2>3
    <3>2. Prefix(o, p)
      BY <1>2, <2>3, <3>1
    <3>3. q = p \/ \E c \in Proposal : q = Append(p, c)
      BY <3>1
    <3>4. Prefix(o, q)
      BY <3>2, <3>3, PrefixGrows
    <3> QED
      BY <3>1, <3>4
  <2> QED
    BY <2>1, <2>2, <2>3
<1> HIDE DEF C
<1>3. 0..n \subseteq C
  BY <1>1, <1>2, EveryTurn
<1>4. n \in C
  BY <1>3
<1> QED
  BY <1>4 DEF C

\* Whatever is held has a subject with a name.
Settled(run) == \A k \in run.known : Named(run.d, Subject[k])

LEMMA TurnSettles ==
  ASSUME NEW a \in Adapters, NEW s \in Spaces, NEW c \in Proposal, NEW v, Fits(v), Settled(v),
         NEW y, y = Persist(a, v, s, c, TRUE)
  PROVE  Settled(y) /\ (c.claim \in v.known => SameRun(v, y))
<1>1. Persisted(v, y, s, c)
  BY Persists, Zenon DEF Fits
<1>2. v.d.entities \subseteq y.d.entities /\ Named(y.d, Subject[c.claim])
  BY <1>1, PersistedNames, Zenon
<1>3. y.known \subseteq v.known \union {c.claim}
  BY <1>1 DEF Persisted
<1>4. Settled(y)
  BY <1>2, <1>3 DEF Settled, Named
<1>5. ASSUME c.claim \in v.known
      PROVE  SameRun(v, y)
  <2>1. \E r \in v.d.entities : r.name = Subject[c.claim]
    BY <1>5 DEF Settled, Named
  <2>2. WithSubject(v.d.entities, s, c) = v.d.entities
    BY <2>1 DEF WithSubject, SqliteInsertEntity
  <2> QED
    BY <1>1, <1>5, <2>2 DEF Persisted, SameRun
<1> QED
  BY <1>4, <1>5

\* After the turn of a candidate, the proposals so far make the same of the
\* tables as the candidates so far.
KeepsUp(A, v) ==
  \E m \in Nat : /\ m = Len(v.proposed)
                 /\ Fits(A[m]) /\ SameRun(A[m], v)

LEMMA TurnKeepsUp ==
  ASSUME NEW a \in Adapters, NEW s \in Spaces, NEW c \in Proposal, NEW v, Fits(v), Settled(v),
         NEW A, KeepsUp(A, v), NEW P \in Seq(Proposal),
         \A j \in 1..Len(P) : A[j] = Persist(a, A[j - 1], s, P[j], TRUE),
         NEW y, y = Persist(a, v, s, c, TRUE), Prefix(y.proposed, P)
  PROVE  KeepsUp(A, y)
<1>1. Persisted(v, y, s, c)
  BY Persists, Zenon DEF Fits
<1>2. PICK m \in Nat : m = Len(v.proposed) /\ Fits(A[m]) /\ SameRun(A[m], v)
  BY DEF KeepsUp
<1>3. CASE c.claim \in v.known
  <2>1. SameRun(v, y)
    BY <1>3, TurnSettles, Zenon
  <2>2. Len(y.proposed) = m
    BY <1>2, <2>1 DEF SameRun
  <2>3. SameRun(A[m], y)
    BY <1>2, <2>1 DEF SameRun
  <2> QED
    BY <1>2, <2>2, <2>3 DEF KeepsUp
<1>4. CASE c.claim \notin v.known
  <2>1. y.proposed = Append(v.proposed, c) /\ v.proposed \in Seq(Proposal)
    BY <1>1, <1>4 DEF Persisted, Fits, Run
  <2>2. PICK n \in Nat : n = m + 1
    OBVIOUS
  <2>3. Len(y.proposed) = n /\ y.proposed[n] = c
    <3>1. PICK p \in Seq(Proposal) : p = v.proposed
      BY <2>1
    <3>2. Len(Append(p, c)) = Len(p) + 1 /\ Append(p, c)[Len(p) + 1] = c
      BY AppendProperties
    <3> QED
      BY <1>2, <2>1, <2>2, <3>1, <3>2
  <2>4. n \in 1..Len(P) /\ P[n] = c /\ m = n - 1
    <3>1. n <= Len(P) /\ \A k \in 1..n : y.proposed[k] = P[k]
      BY <2>3 DEF Prefix
    <3>2. Len(P) \in Nat
      BY LenProperties
    <3>3. n \in 1..n /\ n \in 1..Len(P) /\ m = n - 1
      BY <2>2, <3>1, <3>2
    <3> QED
      BY <2>3, <3>1, <3>3
  <2>5. PICK u, x : u = A[m] /\ x = A[n]
    OBVIOUS
  <2>6. x = Persist(a, u, s, c, TRUE)
    BY <2>4, <2>5
  <2>7. Fits(x) /\ SameRun(x, y)
    <3>1. Alike(u, v)
      BY <1>2, <2>5 DEF Alike
    <3>2. Alike(x, y)
      BY <2>6, <3>1, SameTurn, Zenon
    <3> QED
      BY <3>2 DEF Alike
  <2> QED
    BY <2>3, <2>5, <2>7 DEF KeepsUp
<1> QED
  BY <1>3, <1>4

\* Before the first turn.
LEMMA StartSettles ==
  ASSUME NEW a \in Adapters, NEW d, NEW id \in Nat, Sound(d, id), NEW s, NEW at \in Nat,
         NEW r, r = Start(a, d, s, at, id)
  PROVE  Fits(r) /\ Settled(r) /\ Len(r.proposed) = 0
<1>1. r.d = d /\ r.known = Held(a, d, s) /\ r.proposed = <<>>
  BY StartIs
<1>2. Table(d.facts) /\ d \in Tables /\ OneEntityEach(d)
  BY KeyedIsTable DEF Sound
<1>3. Fits(r)
  BY <1>1, <1>2, StartRuns DEF Fits
<1>4. ToSet(FactRows(a, d, s, FactLimit)) \subseteq d.facts
  <2>1. FactLimit \in Nat
    BY SpacesConstants
  <2>2. ToSet(FactRows(a, d, s, FactLimit)) \subseteq Live(d.facts, s)
    BY <1>2, <2>1, FactRowsAre
  <2> QED
    BY <2>2 DEF Live
<1>5. Settled(r)
  BY <1>1, <1>4 DEF Settled, Held, Sound
<1> QED
  BY <1>1, <1>3, <1>5

\* To be given its own proposals makes no difference to extraction.
LEMMA ProposalsDoAsMuch ==
  ASSUME NEW a \in Adapters, NEW d, NEW id \in Nat, Sound(d, id), NEW s \in Spaces,
         NEW cs \in Seq(Proposal), NEW at \in Nat,
         NEW r, r = applyExtract(a, d, s, cs, at, id, TRUE)
  PROVE  SameRun(applyExtract(a, d, s, r.proposed, at, id, TRUE), r)
<1>1. PICK n \in Nat : n = Len(cs)
  BY LenProperties
<1>2. PICK W : Turns(W, a, d, s, cs, at, id, TRUE)
  BY <1>1, Loop
<1>3. /\ W[0] = Start(a, d, s, at, id) /\ r = W[n]
      /\ \A i \in 1..n : W[i] = Persist(a, W[i - 1], s, cs[i], TRUE)
  BY <1>1, <1>2 DEF Turns
<1>4. \A i \in 1..n : cs[i] \in Proposal
  BY <1>1, ElementOfSeq
<1> DEFINE C == {i \in 0..n : Fits(W[i]) /\ Settled(W[i])}
<1>5. 0 \in C
  <2>1. Fits(W[0]) /\ Settled(W[0])
    BY <1>3, StartSettles
  <2> QED
    BY <2>1
<1>6. ASSUME NEW i \in 1..n, i - 1 \in C
      PROVE  i \in C /\ Persisted(W[i - 1], W[i], s, cs[i])
  <2>0. PICK v, y : v = W[i - 1] /\ y = W[i]
    OBVIOUS
  <2>1. PICK c \in Proposal : c = cs[i] /\ v = W[i - 1] /\ y = W[i]
    BY <1>4, <2>0
  <2>2. Fits(v) /\ Settled(v) /\ y = Persist(a, v, s, c, TRUE)
    BY <1>3, <1>6, <2>1
  <2>3. Persisted(v, y, s, c)
    BY <2>2, Persists, Zenon DEF Fits
  <2>4. Settled(y)
    BY <2>2, TurnSettles, Zenon
  <2>5. Fits(y)
    BY <2>3 DEF Persisted, Fits
  <2> QED
    BY <2>1, <2>3, <2>4, <2>5
<1>7. 0..n \subseteq C
  <2>1. \A i \in 1..n : i - 1 \in C => i \in C
    BY <1>6
  <2> HIDE DEF C
  <2> QED
    BY <1>5, <2>1, EveryTurn
<1>8. \A i \in 0..n : Fits(W[i]) /\ Settled(W[i]) /\ W[i].proposed \in Seq(Proposal)
  BY <1>7 DEF Fits, Run
<1>9. \A i \in 1..n : \/ W[i].proposed = W[i - 1].proposed
                      \/ \E c \in Proposal : W[i].proposed = Append(W[i - 1].proposed, c)
  <2> SUFFICES ASSUME NEW i \in 1..n
               PROVE  \/ W[i].proposed = W[i - 1].proposed
                      \/ W[i].proposed = Append(W[i - 1].proposed, cs[i])
    BY <1>4
  <2>1. i - 1 \in C
    BY <1>7
  <2>2. Persisted(W[i - 1], W[i], s, cs[i])
    BY <1>6, <2>1
  <2> QED
    BY <2>2 DEF Persisted
<1> HIDE DEF C
<1>10. PICK P \in Seq(Proposal) : P = W[n].proposed
  BY <1>8
<1>11. \A j \in 0..n : Prefix(W[j].proposed, P)
  BY <1>8, <1>9, <1>10, ProposalsStay
<1>12. PICK l \in Nat : l = Len(P)
  BY LenProperties
<1>13. PICK A : Turns(A, a, d, s, P, at, id, TRUE)
  BY <1>12, Loop
<1>14. /\ A[0] = Start(a, d, s, at, id) /\ applyExtract(a, d, s, P, at, id, TRUE) = A[l]
       /\ \A j \in 1..Len(P) : A[j] = Persist(a, A[j - 1], s, P[j], TRUE)
  BY <1>12, <1>13 DEF Turns
<1> DEFINE K == {i \in 0..n : KeepsUp(A, W[i])}
<1>15. 0 \in K
  <2>1. PICK u : u = A[0] /\ u = W[0]
    BY <1>3, <1>14
  <2>2. Fits(u) /\ Len(u.proposed) = 0
    BY <1>3, <2>1, StartSettles
  <2>3. 0 \in Nat /\ SameRun(u, u)
    BY DEF SameRun
  <2>4. KeepsUp(A, u)
    BY <2>1, <2>2, <2>3 DEF KeepsUp
  <2>5. KeepsUp(A, W[0])
    BY <2>1, <2>4
  <2> QED
    BY <2>5
<1>16. ASSUME NEW i \in 1..n, i - 1 \in K
       PROVE  i \in K
  <2>0. PICK v, y : v = W[i - 1] /\ y = W[i]
    OBVIOUS
  <2>1. PICK c \in Proposal : c = cs[i] /\ v = W[i - 1] /\ y = W[i]
    BY <1>4, <2>0
  <2>2. Fits(v) /\ Settled(v) /\ y = Persist(a, v, s, c, TRUE) /\ Prefix(y.proposed, P)
    <3>1. i \in 0..n /\ i - 1 \in 0..n
      OBVIOUS
    <3> QED
      BY <1>3, <1>8, <1>11, <2>1, <3>1
  <2>3. KeepsUp(A, v)
    BY <1>16, <2>1
  <2>4. KeepsUp(A, y)
    BY <1>14, <2>2, <2>3, TurnKeepsUp, Zenon
  <2> QED
    BY <2>1, <2>4
<1> HIDE DEF K
<1>17. n \in K
  <2>1. 0..n \subseteq K
    BY <1>15, <1>16, EveryTurn
  <2> QED
    BY <2>1
<1>18. SameRun(A[l], W[n])
  BY <1>10, <1>12, <1>17 DEF K, KeepsUp
<1> QED
  BY <1>3, <1>10, <1>14, <1>18

\* A preview proposes what consolidation would.
LEMMA PreviewProposes ==
  ASSUME NEW a \in Adapters, NEW d, NEW id \in Nat, Sound(d, id), NEW s \in Spaces,
         NEW cs \in Seq(Proposal), NEW at \in Nat
  PROVE  applyExtract(a, d, s, cs, 0, 0, FALSE).proposed =
           applyExtract(a, d, s, cs, at, id, TRUE).proposed
<1>1. PICK n \in Nat : n = Len(cs)
  BY LenProperties
<1>2. PICK U : Turns(U, a, d, s, cs, 0, 0, FALSE)
  BY <1>1, Loop
<1>3. PICK W : Turns(W, a, d, s, cs, at, id, TRUE)
  BY <1>1, Loop
<1>4. /\ U[0] = Start(a, d, s, 0, 0) /\ W[0] = Start(a, d, s, at, id)
      /\ \A i \in 1..n : /\ U[i] = Persist(a, U[i - 1], s, cs[i], FALSE)
                         /\ W[i] = Persist(a, W[i - 1], s, cs[i], TRUE)
      /\ applyExtract(a, d, s, cs, 0, 0, FALSE) = U[n]
      /\ applyExtract(a, d, s, cs, at, id, TRUE) = W[n]
  BY <1>1, <1>2, <1>3 DEF Turns
<1>5. \A i \in 1..n : cs[i] \in Proposal
  BY <1>1, ElementOfSeq
<1> DEFINE C == {i \in 0..n : U[i] \in Run /\ Fits(W[i]) /\ Agree(U[i], W[i])}
<1>6. 0 \in C
  <2>1. Table(d.facts) /\ d \in Tables
    BY KeyedIsTable DEF Sound
  <2>2. U[0] \in Run
    BY <1>4, <2>1, StartRuns
  <2>3. Fits(W[0])
    BY <1>4, StartSettles
  <2>4. Agree(U[0], W[0])
    BY <1>4, StartIs DEF Agree
  <2> QED
    BY <2>2, <2>3, <2>4
<1>7. ASSUME NEW i \in 1..n, i - 1 \in C
      PROVE  i \in C
  <2>1. PICK u, v, x, y : u = U[i - 1] /\ v = W[i - 1] /\ x = U[i] /\ y = W[i]
    OBVIOUS
  <2>2. PICK c \in Proposal : c = cs[i]
    BY <1>5
  <2>3. /\ u \in Run /\ Fits(v) /\ Agree(u, v)
        /\ x = Persist(a, u, s, c, FALSE) /\ y = Persist(a, v, s, c, TRUE)
    BY <1>4, <1>7, <2>1, <2>2
  <2>4. x \in Run /\ Fits(y) /\ Agree(x, y)
    BY <2>3, PreviewTurn
  <2> QED
    BY <2>1, <2>4
<1> HIDE DEF C
<1>8. n \in C
  <2>1. 0..n \subseteq C
    BY <1>6, <1>7, EveryTurn
  <2> QED
    BY <2>1
<1> QED
  BY <1>4, <1>8 DEF C, Agree

\* When every candidate is held, nothing is proposed.
LEMMA NothingMore ==
  ASSUME NEW a, NEW d \in Tables, Table(d.facts), NEW s, NEW cs \in Seq(Proposal),
         \A j \in 1..Len(cs) : cs[j].claim \in Held(a, d, s)
  PROVE  applyExtract(a, d, s, cs, 0, 0, FALSE).proposed = <<>>
<1>1. PICK n \in Nat : n = Len(cs)
  BY LenProperties
<1>2. PICK U : Turns(U, a, d, s, cs, 0, 0, FALSE)
  BY <1>1, Loop
<1>3. PICK r : r = Start(a, d, s, 0, 0)
  OBVIOUS
<1>4. r \in Run /\ r.known = Held(a, d, s) /\ r.proposed = <<>>
  BY <1>3, StartRuns, StartIs
<1>5. /\ U[0] = r /\ applyExtract(a, d, s, cs, 0, 0, FALSE) = U[n]
      /\ \A i \in 1..n : U[i] = Persist(a, U[i - 1], s, cs[i], FALSE)
  BY <1>1, <1>2, <1>3 DEF Turns
<1> DEFINE C == {i \in 0..n : U[i] = r}
<1>6. 0 \in C
  BY <1>5
<1>7. ASSUME NEW i \in 1..n, i - 1 \in C
      PROVE  i \in C
  <2>1. PICK c \in Proposal : c = cs[i]
    BY <1>1, ElementOfSeq
  <2>2. PICK t : t = U[i]
    OBVIOUS
  <2>3. t = Persist(a, r, s, c, FALSE) /\ c.claim \in r.known
    BY <1>1, <1>4, <1>5, <1>7, <2>1, <2>2
  <2>4. Previewed(r, t, c)
    BY <1>4, <2>3, Previews, Zenon
  <2>5. t = r
    BY <2>3, <2>4 DEF Previewed
  <2>6. U[i] = r /\ i \in 0..n
    BY <2>2, <2>5
  <2> QED
    BY <2>6
<1> HIDE DEF C
<1>8. n \in C
  <2>1. 0..n \subseteq C
    BY <1>6, <1>7, EveryTurn
  <2> QED
    BY <2>1
<1> QED
  BY <1>4, <1>5, <1>8 DEF C

LEMMA SameCandidates ==
  ASSUME NEW d, NEW e, NEW s, SameOtherwise(d, e)
  PROVE  Candidates(e, s) = Candidates(d, s)
  BY DEF Candidates, SameOtherwise

\* The preview and the acceptance of one space.
Foretells(s, preview, direct, accepted) ==
  /\ accepted.d.facts = direct.d.facts
  /\ accepted.d.entities = direct.d.entities
  /\ direct.proposed = preview
  /\ previewExtract("sqlite", direct.d, s) = <<>>

LEMMA PreviewForetells ==
  ASSUME IsFiniteSet(Claims), Cardinality(Claims) <= FactLimit,
         SpacesInv, RoomyInv, Roomy, NEW s \in Spaces,
         NEW cs, cs = Candidates(db, s), NEW id, id = newId.fact, NEW at \in Nat,
         NEW direct, direct = applyExtract("sqlite", db, s, cs, at, id, TRUE)
  PROVE  Foretells(s, previewExtract("sqlite", db, s), direct,
                   applyExtract("sqlite", db, s, direct.proposed, at, id, TRUE))
<1>1. cs \in Seq(Proposal)
  BY CandidatesFit
<1>2. Sound(db, id) /\ id \in Nat /\ "sqlite" \in Adapters
  BY SoundTables DEF Adapters
<1>3. PICK held : held = Held("sqlite", db, s) /\ held = ClaimsOf(db.facts, s)
  BY RoomyHeld DEF RoomyInv
<1>4. Extracted(direct, db, s, cs, id, held, at)
  <2>1. db \in Tables /\ OneEntityEach(db) /\ Keyed(db.facts, id)
    BY <1>2 DEF Sound
  <2>2. Extracted(direct, db, s, cs, id, Held("sqlite", db, s), at)
    BY <1>1, <1>2, <2>1, Extracts, Zenon
  <2> QED
    BY <1>3, <2>2
<1>5. TurnInv(direct, Len(cs), db, s, cs, id, held) /\ direct.id \in Nat
  BY <1>4 DEF Extracted, TurnInv, Run
<1>6. Sound(direct.d, direct.id)
  <2>1. \A k \in Nat : k <= k
    OBVIOUS
  <2>2. PICK n \in Nat : n = direct.id /\ direct.id <= n
    BY <1>5, <2>1, Zenon
  <2>3. Sound(direct.d, n) /\ AddsTo(db, direct.d, s)
    BY <1>1, <1>2, <2>2, ExtractionIsSound, Zenon
  <2> QED
    BY <2>2, <2>3
<1>7. previewExtract("sqlite", db, s) = direct.proposed
  <2>1. applyExtract("sqlite", db, s, cs, 0, 0, FALSE).proposed =
          applyExtract("sqlite", db, s, cs, at, id, TRUE).proposed
    BY <1>1, <1>2, PreviewProposes, ZenonT(30)
  <2> QED
    BY <2>1 DEF previewExtract
<1>8. SameRun(applyExtract("sqlite", db, s, direct.proposed, at, id, TRUE), direct)
  BY <1>1, <1>2, ProposalsDoAsMuch, Zenon
<1>9. PICK e, rows : e = direct.d /\ rows = e.facts
  OBVIOUS
<1>10. /\ Table(rows) /\ rows \subseteq Fact /\ e \in Tables
       /\ Apart(rows) /\ SameOtherwise(db, e)
  <2>1. Table(rows) /\ rows \subseteq Fact /\ e \in Tables
    BY <1>5, <1>6, <1>9, KeyedIsTable DEF Sound, Tables
  <2>2. Apart(direct.d.facts)
    BY <1>3, <1>5, ExtractionApart DEF RoomyInv
  <2> QED
    BY <1>5, <1>9, <2>1, <2>2 DEF TurnInv
<1>11. Held("sqlite", e, s) = ClaimsOf(rows, s)
  <2>1. FactLimit \in Nat /\ Cardinality(Claims) \in Nat
    BY SpacesConstants, FS_CardinalityType
  <2>2. /\ Cardinality(Live(rows, s)) \in Nat
        /\ Cardinality(Live(rows, s)) <= Cardinality(Claims)
    BY <1>10, NoMoreThanClaims
  <2>3. Cardinality(Live(rows, s)) <= FactLimit
    BY <2>1, <2>2
  <2>4. Table(e.facts) /\ Cardinality(Live(e.facts, s)) <= FactLimit
    BY <1>9, <1>10, <2>3, Zenon
  <2>5. ToSet(FactRows("sqlite", e, s, FactLimit)) = Live(e.facts, s)
    BY <2>1, <2>4, FactRowsAre
  <2> QED
    BY <1>9, <2>5 DEF Held, ClaimsOf
<1>12. ASSUME NEW j \in 1..Len(cs)
       PROVE  cs[j].claim \in ClaimsOf(rows, s)
  <2>1. PICK k : k = cs[j].claim
    OBVIOUS
  <2>2. k \in direct.known
    BY <1>5, <2>1 DEF TurnInv
  <2>3. CASE k \in held
    <3>1. db.facts \subseteq rows
      BY <1>5, <1>9 DEF TurnInv, FactsOf
    <3> QED
      BY <1>3, <2>1, <2>3, <3>1 DEF ClaimsOf, Live
  <2>4. CASE k \notin held
    <3>1. FactsOf(direct, db, s, cs, id, held)
      BY <1>5 DEF TurnInv
    <3>2. PICK f \in Added(db, direct.d) : f.claim = k
      BY <2>2, <2>4, <3>1 DEF FactsOf
    <3>3. f.space = s /\ f.live
      BY <3>1 DEF FactsOf
    <3> QED
      BY <1>9, <2>1, <3>2, <3>3 DEF ClaimsOf, Live, Added
  <2> QED
    BY <2>3, <2>4
<1>13. Candidates(e, s) = cs
  <2>1. Candidates(e, s) = Candidates(db, s)
    BY <1>10, SameCandidates, Zenon
  <2> QED
    BY <2>1
<1>14. previewExtract("sqlite", direct.d, s) = <<>>
  <2>1. applyExtract("sqlite", e, s, cs, 0, 0, FALSE).proposed = <<>>
    <3>1. \A j \in 1..Len(cs) : cs[j].claim \in Held("sqlite", e, s)
      BY <1>11, <1>12, Zenon
    <3>2. Table(e.facts) /\ e \in Tables
      BY <1>9, <1>10, Zenon
    <3> QED
      BY <1>1, <3>1, <3>2, NothingMore, Zenon
  <2> QED
    BY <1>9, <1>13, <2>1 DEF previewExtract
<1> QED
  BY <1>7, <1>8, <1>14 DEF Foretells, SameRun

\* As long as few claims are made, to accept what a preview proposed stores
\* what consolidation would have stored, and leaves nothing to propose
\* (knowledge-service.ts previewExtract, consolidate).
THEOREM PreviewsTellTheFuture ==
  ASSUME IsFiniteSet(Claims), Cardinality(Claims) <= FactLimit, Cardinality(Claims) <= ForgetLimit
  PROVE  SpacesSpec => []PreviewTellsTheFuture
<1>1. SpacesInv /\ RoomyInv /\ Roomy => PreviewTellsTheFuture
  <2> SUFFICES ASSUME SpacesInv, RoomyInv, Roomy
               PROVE  PreviewTellsTheFuture
    OBVIOUS
  <2>1. ASSUME NEW s \in Spaces,
               NEW preview, preview = previewExtract("sqlite", db, s),
               NEW direct,
               direct = applyExtract("sqlite", db, s, Candidates(db, s), now, newId.fact, TRUE),
               NEW accepted,
               accepted = applyExtract("sqlite", db, s, preview, now, newId.fact, TRUE)
        PROVE  Foretells(s, preview, direct, accepted)
    <3>1. PICK cs, id : cs = Candidates(db, s) /\ id = newId.fact
      OBVIOUS
    <3>2. PICK at \in Nat : at = now
      BY DEF SpacesInv, SpacesTypeOK
    <3>3. direct = applyExtract("sqlite", db, s, cs, at, id, TRUE)
      BY <2>1, <3>1, <3>2
    <3>4. Foretells(s, previewExtract("sqlite", db, s), direct,
                    applyExtract("sqlite", db, s, direct.proposed, at, id, TRUE))
      BY <3>1, <3>3, PreviewForetells, Zenon
    <3>5. direct.proposed = preview
      BY <2>1, <3>4 DEF Foretells
    <3> QED
      BY <2>1, <3>1, <3>2, <3>4, <3>5
  <2> QED
    BY <2>1 DEF PreviewTellsTheFuture, Foretells
<1> QED
  BY <1>1, SpacesAreSound, RoomyInvHolds, FewClaimsLeaveRoom, PTL
=============================================================================
