----------------------------- MODULE ChatSession ----------------------------
(***************************************************************************)
(* What the server promises about the session of each client: it asks for  *)
(* the listing, logs in once under a name it keeps, speaks after that, and *)
(* its farewell is the last thing it says.  CommandLine shows that the     *)
(* parser of a listener keeps to this, ChatServer that all threads do.     *)
(***************************************************************************)
CONSTANTS Clients,
          Names,   \* what a client can log in as
          Address  \* the name of a client before it logs in

VARIABLES last,    \* the kind of the last task each client created
          name     \* the name each client is known by

vars == <<last, name>>

Init ==
  /\ last = [c \in Clients |-> "none"]
  /\ name = [c \in Clients |-> Address]

Advance(c, from, to) ==
  /\ last[c] \in from
  /\ last' = [last EXCEPT ![c] = to]

\* The accept loop asks for the listing on behalf of the client.
Connect(c) == Advance(c, {"none"}, "list") /\ UNCHANGED name

LogIn(c) ==
  /\ Advance(c, {"list"}, "conn")
  /\ \E n \in Names : name' = [name EXCEPT ![c] = n]

\* Every word after the first changes nothing here.
Say(c) == Advance(c, {"conn"}, "text") /\ UNCHANGED name

Leave(c) == Advance(c, {"conn", "text"}, "disconn") /\ UNCHANGED name

Next == \E c \in Clients : Connect(c) \/ LogIn(c) \/ Say(c) \/ Leave(c)

Spec == Init /\ [][Next]_vars
=============================================================================
