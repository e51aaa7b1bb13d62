--------------------------- MODULE LedgerBeliefs ---------------------------
(***************************************************************************)
(* What a reader of the facts table sees: Ledger implements Beliefs.  The  *)
(* claims that queryFacts answers (memory-service.ts) are the beliefs.     *)
(***************************************************************************)
EXTENDS Ledger

Reader == INSTANCE Beliefs WITH believed <- {r.claim : r \in Active(facts)}

\* With one process, what queryFacts answers is a set of beliefs: a
\* consolidation never drops a claim but for another on the same key.
ImplementsBeliefs == Reader!BeliefSpec
=============================================================================
