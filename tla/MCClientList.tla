---------------------------- MODULE MCClientList ----------------------------
(* ClientList with model values for the clients, workers and addresses.    *)
EXTENDS ClientList

\* Clients that have not connected and addresses that were not used yet are
\* interchangeable: it does not matter which of them is next.
AnyOf(S) == CHOOSE x \in S : TRUE
UsedPlaces == {place[c] : c \in Created}
FreshInTurn ==
  /\ \A c \in Created' \ Created : c = AnyOf(Clients \ Created)
  /\ \A c \in Created' \ Created :
       place'[c] \notin UsedPlaces => place'[c] = AnyOf(Places \ UsedPlaces)
  /\ \A n \in Nodes :
       client[n] = NULL /\ client'[n] # NULL => n = AnyOf({m \in Nodes : client[m] = NULL})
=============================================================================
