------------------------------ MODULE Validity ------------------------------
(***************************************************************************)
(* When a fact holds.  A fact extracted for a functional predicate         *)
(* (livesIn) closes the one before it (closePreviousFunctional, core/src/  *)
(* knowledge/knowledge-service.ts); an as-of query reads the intervals     *)
(* this leaves behind (storage/src/sqlite/sqlite-fact-repository.ts).      *)
(* One consolidation runs at a time; for two at once see Ledger.           *)
(***************************************************************************)
EXTENDS Integers, Sequences, FiniteSets

CONSTANTS
  Keys,        \* subject and predicate of a fact
  Functional,  \* those of a functional predicate
  Objects,     \* what a fact says of its key
  Unset,       \* no validFrom, no validUntil, no retractedAt
  MaxTime,     \* bound of the clock and of validFrom
  MaxFacts     \* bound of the history

ASSUME ValidityConstants ==
  /\ Functional \subseteq Keys
  /\ MaxTime \in Nat /\ MaxFacts \in Nat
  /\ Unset \notin Int

VARIABLES
  facts,     \* rows of the table, in the order they were asserted
  clock,     \* input.now
  frontier,  \* history: the latest start or withdrawal told of a key
  inOrder    \* history: the key was told nothing that starts earlier

validityVars == <<facts, clock, frontier, inOrder>>

Times == 0..MaxTime

FactRow == [key : Keys, object : Objects, assertedAt : Times,
            validFrom : Times \union {Unset}, validUntil : Times \union {Unset},
            retractedAt : Times \union {Unset}]

ValidityInit ==
  /\ facts = <<>>
  /\ clock = 0
  /\ frontier = [k \in Keys |-> 0]
  /\ inOrder = [k \in Keys |-> TRUE]

\* `a ?? b`
Or(a, b) == IF a = Unset THEN b ELSE a

Active(f) == f.retractedAt = Unset
From(f) == Or(f.validFrom, f.assertedAt)
Until(f) == Or(f.validUntil, f.retractedAt)

VisibleAt(f, t) == From(f) <= t /\ (Until(f) = Unset \/ t < Until(f))

\* factsBySpo and functionalBySp hold active facts only.
Held(k, o) == \E i \in DOMAIN facts : Active(facts[i]) /\ facts[i].key = k /\ facts[i].object = o

\* Slip: the previous fact ends now, whenever the next one starts.
SlipUntilNow(from) == clock

WorldUntil(from) == Or(from, clock)

\* supersedeFact, then the row as it is stored.
Superseded(f, until) == [f EXCEPT !.validUntil = until, !.retractedAt = clock]

Later(a, b) == IF a <= b THEN b ELSE a

\* persistExtractedFact: a fact that says something new of key k.
Tell(k, o, from) ==
  /\ Len(facts) < MaxFacts
  /\ ~Held(k, o)
  /\ facts' = Append(
       [i \in DOMAIN facts |->
          IF k \in Functional /\ facts[i].key = k /\ Active(facts[i])
          THEN Superseded(facts[i], WorldUntil(from))
          ELSE facts[i]],
       [key |-> k, object |-> o, assertedAt |-> clock, validFrom |-> from,
        validUntil |-> Unset, retractedAt |-> Unset])
  /\ inOrder' = [inOrder EXCEPT ![k] = @ /\ frontier[k] <= Or(from, clock)]
  /\ frontier' = [frontier EXCEPT ![k] = Later(@, Or(from, clock))]
  /\ UNCHANGED clock

\* retractLinkedFacts: the episode of an active fact is forgotten.
Withdraw(i) ==
  /\ i \in DOMAIN facts
  /\ Active(facts[i])
  /\ facts' = [facts EXCEPT ![i].retractedAt = clock]
  /\ frontier' = [frontier EXCEPT ![facts[i].key] = Later(@, clock)]
  /\ UNCHANGED <<clock, inOrder>>

Tick ==
  /\ clock < MaxTime
  /\ clock' = clock + 1
  /\ UNCHANGED <<facts, frontier, inOrder>>

ValidityNext ==
  \/ \E k \in Keys, o \in Objects, from \in Times \union {Unset} : Tell(k, o, from)
  \/ \E i \in 1..MaxFacts : Withdraw(i)
  \/ Tick

ValiditySpec == ValidityInit /\ [][ValidityNext]_validityVars

(***************************************************************************)
(* Properties.                                                             *)
(***************************************************************************)
ValidityTypeOK ==
  /\ facts \in Seq(FactRow)
  /\ clock \in Times
  /\ frontier \in [Keys -> Times]
  /\ inOrder \in [Keys -> BOOLEAN]

\* findContradictoryPairs: overlaps reads validUntil alone, of active facts.
Overlap(f, g) ==
  /\ f.validUntil = Unset \/ From(g) < f.validUntil
  /\ g.validUntil = Unset \/ From(f) < g.validUntil

Contradict(i, j) ==
  /\ i < j
  /\ Active(facts[i]) /\ Active(facts[j])
  /\ facts[i].key = facts[j].key /\ facts[i].object # facts[j].object
  /\ Overlap(facts[i], facts[j])

\* Of a functional key no two facts are visible at one time, if it was told
\* in the order of the world: every fact starts after the ones before it
\* and after their withdrawal (knowledge-service.ts:151 closes a fact with
\* the start of the next whatever that is; told out of order, as documents
\* are read, two facts of a key may be visible).  In any order, no two
\* contradict each other.
OnePlaceAtATime ==
  \A k \in Functional, i, j \in DOMAIN facts :
    (i < j /\ facts[i].key = k /\ facts[j].key = k) =>
      /\ ~Contradict(i, j)
      /\ inOrder[k] => \A t \in Times : ~(VisibleAt(facts[i], t) /\ VisibleAt(facts[j], t))
=============================================================================
