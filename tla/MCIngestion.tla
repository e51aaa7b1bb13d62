---------------------------- MODULE MCIngestion ----------------------------
(* Instances of Ingestion for TLC: the URL request v retries u under u's   *)
(* idempotency key; m posts a Markdown body under a key of its own.        *)
EXTENDS Ingestion

CONSTANTS u, v, m, k1, k2

\* Keys for whichever of the requests an instance uses.
SomeKeys == [r \in Requests |-> IF r \in {u, v} THEN k1
                                ELSE IF r = m THEN k2 ELSE NoKey]
=============================================================================
