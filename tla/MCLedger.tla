------------------------------ MODULE MCLedger ------------------------------
(* Instances of Ledger for TLC: Alice lives in Tokyo or in Kyoto, and Dana *)
(* works at the cafe.                                                      *)
EXTENDS LedgerBeliefs

CONSTANTS e1, e2, e3, tokyo, kyoto, cafe, alice, dana

SomeKeys == [c \in Claims |-> IF c = cafe THEN dana ELSE alice]

SomeText == [e \in Episodes |-> IF e = e1 THEN <<tokyo, cafe>>
                                ELSE IF e = e2 THEN <<kyoto>> ELSE <<tokyo>>]
=============================================================================
