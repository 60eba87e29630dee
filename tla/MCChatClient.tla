----------------------------- MODULE MCChatClient -----------------------------
(* Instances of ChatClient *)
EXTENDS ChatClient

CONSTANTS c1, c2

MCText   == {<<Letter>>, <<Apos>>, <<Quote>>}
MCStored == [users |-> 2, friend |-> {<<1, 2>>, <<2, 1>>}, group |-> <<1>>, member |-> {<<1, 1>>, <<1, 2>>}]
MCKnows  == [c \in {c1, c2} |-> IF c = c1 THEN {0, 1, 2} ELSE {1}]
MCMaxAsk == [c \in {c1, c2} |-> IF c = c1 THEN 2 ELSE 1]
===============================================================================
