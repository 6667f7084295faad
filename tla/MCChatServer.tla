---------------------------- MODULE MCChatServer ----------------------------
(* ChatServer with two user names, of which one begins like the address    *)
(* that the clients come from, and two receivers: the first name, and the  *)
(* beginning that the second name and the address have in common.          *)
EXTENDS ChatServer

CONSTANTS bob, one, digit

BothNames == {bob, one}
BothReceivers == {bob, digit}
BothBegin == [r \in BothReceivers |-> IF r = bob THEN {bob} ELSE {one, Address}]

OneName == {one}
OneReceiver == {digit}
OneBegins == [r \in OneReceiver |-> {one, Address}]

\* The clients and the workers are interchangeable.
Symmetry == Permutations(Clients) \cup Permutations(Workers)
=============================================================================
