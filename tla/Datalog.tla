------------------------------- MODULE Datalog -------------------------------
(***************************************************************************)
(* evaluateDatalog (core/src/reasoning/datalog.ts): ground rules applied   *)
(* in order, pass after pass, until a pass derives nothing or there were   *)
(* MaxInferences passes.                                                   *)
(*                                                                         *)
(* A tuple is its key: tupleKey joins the terms with commas, and tuples    *)
(* with the same key are the same to the code.                             *)
(***************************************************************************)
EXTENDS Naturals, FiniteSets, Sequences

CONSTANTS
  Tuples,        \* ground tuples
  Programs,      \* the facts and rules it may be called with
  MaxInferences  \* passes (1000 in the code)

Rule == [head : Tuples, body : SUBSET Tuples]

ASSUME DatalogConstants ==
  /\ IsFiniteSet(Tuples)
  /\ MaxInferences \in Nat
  /\ Programs \subseteq [facts : SUBSET Tuples, rules : Seq(Rule)]

VARIABLES
  program,  \* the arguments
  known,    \* keys of the facts and of what was derived
  derived,  \* what was derived, in order
  changed,  \* whether this pass derived something
  pass,     \* `iterations`
  turn      \* the rule the pass is at

datalogVars == <<program, known, derived, changed, pass, turn>>

Rules == program.rules
PassOver == turn > Len(Rules)

DatalogStart(programs) ==
  /\ program \in programs
  /\ known = program.facts
  /\ derived = <<>>
  /\ changed = TRUE
  /\ pass = 0
  /\ turn = Len(program.rules) + 1

DatalogInit == DatalogStart(Programs)

\* Slip: the loop makes one pass.
SlipOnePass == pass < 1

GoesOn == changed /\ pass < MaxInferences

Holds(r) == r.body \subseteq known

BeginPass ==
  /\ PassOver
  /\ GoesOn
  /\ changed' = FALSE
  /\ pass' = pass + 1
  /\ turn' = 1
  /\ UNCHANGED <<program, known, derived>>

Derive ==
  /\ ~PassOver
  /\ LET r == Rules[turn]
     IN /\ Holds(r)
        /\ r.head \notin known
        /\ known' = known \union {r.head}
        /\ derived' = Append(derived, r.head)
  /\ changed' = TRUE
  /\ turn' = turn + 1
  /\ UNCHANGED <<program, pass>>

Pass ==
  /\ ~PassOver
  /\ ~(Holds(Rules[turn]) /\ Rules[turn].head \notin known)
  /\ turn' = turn + 1
  /\ UNCHANGED <<program, known, derived, changed, pass>>

DatalogNext == BeginPass \/ Derive \/ Pass

DatalogSpec == DatalogInit /\ [][DatalogNext]_datalogVars

(***************************************************************************)
(* Properties.                                                             *)
(***************************************************************************)
Stopped == PassOver /\ ~GoesOn

Closed(S) == \A i \in DOMAIN Rules : Rules[i].body \subseteq S => Rules[i].head \in S

Derivable == {Rules[i].head : i \in DOMAIN Rules} \ program.facts

\* Whatever is derived follows from the facts; and when the loop stops all
\* that follows was derived, provided no more than MaxInferences tuples
\* may be: each pass but the last derives one, whatever the rules' order
\* (datalog.ts:22, MAX_INFERENCES counts passes).
DatalogIsLeastModel ==
  /\ \A S \in SUBSET Tuples : program.facts \subseteq S /\ Closed(S) => known \subseteq S
  /\ Stopped /\ Cardinality(Derivable) <= MaxInferences => Closed(known)
=============================================================================
