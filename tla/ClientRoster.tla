---------------------------- MODULE ClientRoster ----------------------------
(***************************************************************************)
(* What the client list of the server promises: the connected clients in   *)
(* the order they connected, each once, and a listing of them that shows   *)
(* one moment.  ClientList implements this with linked nodes and a mutex.  *)
(***************************************************************************)
EXTENDS SequencesExt

CONSTANTS Clients, \* the client_s structures, one per accepted connection
          Workers, \* the threads that ask for a listing
          NULL     \* no listing

VARIABLES members, \* the clients in the list, oldest first
          listing  \* the listing each worker holds, or NULL

vars == <<members, listing>>

Init ==
  /\ members = <<>>
  /\ listing = [w \in Workers |-> NULL]

\* client_list_add.
Join(c) ==
  /\ ~Contains(members, c)
  /\ members' = Append(members, c)
  /\ UNCHANGED listing

\* client_list_remove: the others keep their order.
PlaceOf(c) == CHOOSE i \in DOMAIN members : members[i] = c
Leave(c) ==
  /\ Contains(members, c)
  /\ members' = RemoveAt(members, PlaceOf(c))
  /\ UNCHANGED listing

\* client_send_clients: the names of the members, in order.
List(w) ==
  /\ listing[w] = NULL
  /\ listing' = [listing EXCEPT ![w] = members]
  /\ UNCHANGED members

\* The buffer with the listing is freed.
Forget(w) ==
  /\ listing[w] # NULL
  /\ listing' = [listing EXCEPT ![w] = NULL]
  /\ UNCHANGED members

Next ==
  \/ \E c \in Clients : Join(c) \/ Leave(c)
  \/ \E w \in Workers : List(w) \/ Forget(w)

Spec == Init /\ [][Next]_vars
=============================================================================
