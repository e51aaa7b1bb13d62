------------------------------ MODULE MCSpaces ------------------------------
(* Two texts: one tells that Dana works at the cafe, the other says        *)
(* nothing but has "cafe" inside a longer word.                            *)
EXTENDS Spaces

CONSTANTS plain, other, dana, atCafe, cafe, both, hush, home, work

SomeSubject == [c \in Claims |-> dana]
SomeSays == [c \in Contents |-> IF c = plain THEN atCafe ELSE NoClaim]
SomeStored == <<plain>>
SomeDocuments == {<<plain, other>>}

\* "cafe", "cafe dana" and "?".
SomeTokens == [q \in Queries |-> CASE q = cafe -> {"cafe"} [] q = both -> {"cafe", "dana"}
                                   [] q = hush -> {}]
SomeWords == [c \in Contents |-> IF c = plain THEN {"dana", "cafe"} ELSE {}]
SomeParts == [c \in Contents |-> IF c = plain THEN {"dana", "cafe"} ELSE {"cafe"}]
SomeHolds == [c \in Contents |-> {cafe}]
=============================================================================
