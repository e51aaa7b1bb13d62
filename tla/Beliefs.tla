------------------------------ MODULE Beliefs ------------------------------
(***************************************************************************)
(* What the fact ledger promises its readers: a set of claims that agree   *)
(* with each other.  New claims join it and displace only the claims on    *)
(* the same functional key; claims may be withdrawn.                       *)
(***************************************************************************)
CONSTANTS
  Claims,     \* subject, predicate and object of a fact
  Key,        \* subject and predicate of each claim
  Functional  \* the keys that hold one object at a time

VARIABLE believed

Rival(c, d) == c # d /\ Key[c] = Key[d] /\ Key[c] \in Functional

Agree(S) == \A c, d \in S : ~Rival(c, d)

BeliefInit == believed = {}

Learn ==
  \E new \in SUBSET Claims :
    /\ Agree(new)
    /\ believed' = {b \in believed : \A n \in new : ~Rival(b, n)} \union new

Withdraw == \E S \in SUBSET believed : believed' = believed \ S

BeliefNext == Learn \/ Withdraw

BeliefSpec == BeliefInit /\ [][BeliefNext]_believed
=============================================================================
