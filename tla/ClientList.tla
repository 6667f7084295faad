----------------------------- MODULE ClientList -----------------------------
(***************************************************************************)
(* The list of connected clients (client_list.c) with the threads that use *)
(* it: the accept loop adds a client and starts its listener, a listener   *)
(* removes its own client after /leave, and workers walk the list, under   *)
(* the mutex for client_send_clients and without it for client_msg.        *)
(*                                                                         *)
(* A critical section is split wherever a walk without the mutex can see   *)
(* the difference: at every write of head, of a next field, and at every   *)
(* free.  Memory that was freed keeps its contents until the address is    *)
(* allocated again; a thread that reads it may also crash the process.     *)
(*                                                                         *)
(* A definition marked FAULT is not part of the specification.  It is the  *)
(* definition below it with a programming error; README.md names the       *)
(* property that TLC finds violated with it.                               *)
(***************************************************************************)
EXTENDS SequencesExt

CONSTANTS
  Main,    \* the thread of the accept loop; the signal handler runs on it
  Clients, \* bound: the connections ever accepted, and their listeners
  Workers, \* server.thread_pool
  Nodes,   \* addresses the allocator may return for a list node
  Places,  \* addresses the allocator may return for a client_s
  NULL

Threads == {Main} \cup Clients \cup Workers

ASSUME ListAssumption ==
  /\ Clients \cap Workers = {} /\ Main \notin Clients \cup Workers
  /\ NULL \notin Threads \cup Nodes \cup Places

VARIABLES
  head, tail,         \* client_list->head and client_list->tail
  next, prev, client, \* the fields of every node address, stale after a free
  allocated,          \* the node addresses that are allocated
  chain,              \* history: the nodes linked in the list, in order
  mutex,              \* the thread that holds client_list->mutex, or NULL
  pc,                 \* where each thread is
  curr,               \* the local curr of each thread; Main's new node
  rest,               \* the local next of client_list_destroy
  place,              \* the address of each client_s, kept when it is freed
  destroyed,          \* the clients for which client_destroy was called
  target,             \* the curr->client that a walk has read
  sender,             \* task->sender, once a worker needs it after its walk
  visited,            \* the clients a walk has sent to or copied, in order
  misled,             \* history: who got what a walk sent to a freed client_s
  stay,               \* history: the clients listed ever since a walk began
  stale,              \* history: what a walk stands on was freed under it
  crashed             \* the process is gone

fields == <<next, prev, client>>
list == <<head, tail, fields, allocated, chain>>
walks == <<target, sender, visited, misled, stay, stale>>
vars == <<list, mutex, pc, curr, rest, place, destroyed, walks, crashed>>

MainLabels == {"accept", "link", "start", "sweep", "closed"}
ListenerLabels == {"none", "listen", "search", "destroy", "free", "gone"}
WorkerLabels == {"idle", "visit", "send", "advance", "report"}

\* client_list_create.
ListInitHeadOnly == head = NULL /\ tail = "indeterminate" \* FAULT: tail is not set
ListInit == head = NULL /\ tail = NULL

Init ==
  /\ ListInit
  /\ next = [n \in Nodes |-> NULL]
  /\ prev = [n \in Nodes |-> NULL]
  /\ client = [n \in Nodes |-> NULL]
  /\ allocated = {} /\ chain = <<>>
  /\ mutex = NULL
  /\ pc = [t \in Threads |-> IF t = Main THEN "accept"
                             ELSE IF t \in Clients THEN "none" ELSE "idle"]
  /\ curr = [t \in Threads |-> NULL]
  /\ rest = NULL
  /\ place = [c \in Clients |-> NULL]
  /\ destroyed = {}
  /\ target = [w \in Workers |-> NULL]
  /\ sender = [w \in Workers |-> NULL]
  /\ misled = [w \in Workers |-> {}]
  /\ visited = [w \in Workers |-> <<>>]
  /\ stay = [w \in Workers |-> {}]
  /\ stale = [w \in Workers |-> FALSE]
  /\ crashed = FALSE

-----------------------------------------------------------------------------
At(t, label) == pc[t] = label /\ ~crashed
Goto(t, label) == pc' = [pc EXCEPT ![t] = label]

\* The clients in the list, oldest first.
Members == [i \in DOMAIN chain |-> client[chain[i]]]

\* The walks that stand on node n when it, or its client, is freed.
Stale(n) == [w \in Workers |-> stale[w] \/ curr[w] = n]

LockNothing(t) == UNCHANGED mutex \* FAULT: the mutex is forgotten
Lock(t) == mutex = NULL /\ mutex' = t

\* curr = curr->next.
NodeItself(n) == n \* FAULT: curr is not moved
NodeAfter(n) == next[n]

NodeKept(n) == allocated \* FAULT: free is forgotten
NodeFreed(n) == allocated \ {n}

\* Reading freed memory may crash the process.
Touch(ok) == IF ok THEN UNCHANGED crashed ELSE crashed' \in BOOLEAN

-----------------------------------------------------------------------------
(* The accept loop: client_create.                                         *)

Connected == {c \in Clients : pc[c] # "none"}

\* A client_s may get the address of one that was freed.  The task for the
\* listing is made here, and client_list_add allocates the node before it locks.
FreePlaces == Places \ {place[c] : c \in Clients \ destroyed}

Create ==
  /\ At(Main, "accept")
  /\ \E n \in Nodes \ allocated, c \in Clients \ Connected, p \in FreePlaces :
       /\ place' = [place EXCEPT ![c] = p]
       /\ allocated' = allocated \cup {n}
       /\ client' = [client EXCEPT ![n] = c]
       /\ next' = [next EXCEPT ![n] = NULL]
       /\ prev' = [prev EXCEPT ![n] = NULL]
       /\ curr' = [curr EXCEPT ![Main] = n]
  /\ Goto(Main, "link")
  /\ UNCHANGED <<head, tail, chain, mutex, rest, destroyed, walks, crashed>>

\* The pointers of a node appended at the back.
LinkByTail(n) == \* FAULT: an empty list is told by its tail
  IF tail = NULL THEN head' = n /\ UNCHANGED <<next, prev>>
  ELSE /\ prev' = [prev EXCEPT ![n] = tail]
       /\ next' = [next EXCEPT ![tail] = n]
       /\ UNCHANGED head
Link(n) ==
  IF head = NULL THEN head' = n /\ UNCHANGED <<next, prev>>
  ELSE /\ prev' = [prev EXCEPT ![n] = tail]
       /\ next' = [next EXCEPT ![tail] = n]
       /\ UNCHANGED head

\* The critical section of client_list_add.
Add ==
  /\ At(Main, "link")
  /\ mutex = NULL
  /\ Link(curr[Main])
  /\ tail' = curr[Main]
  /\ chain' = Append(chain, curr[Main])
  /\ Goto(Main, "start")
  /\ UNCHANGED <<client, allocated, mutex, curr, rest, place, destroyed, walks, crashed>>

\* pthread_create of the listener.
StartListener ==
  /\ At(Main, "start")
  /\ pc' = [pc EXCEPT ![client[curr[Main]]] = "listen", ![Main] = "accept"]
  /\ curr' = [curr EXCEPT ![Main] = NULL]
  /\ UNCHANGED <<list, mutex, rest, place, destroyed, walks, crashed>>

-----------------------------------------------------------------------------
(* A listener that leaves its loop: client_list_remove.                    *)

LeaveLock(c) ==
  /\ At(c, "listen")
  /\ Lock(c)
  /\ curr' = [curr EXCEPT ![c] = head]
  /\ Goto(c, "search")
  /\ UNCHANGED <<list, rest, place, destroyed, walks, crashed>>

\* curr->client == client compares addresses.
IsOf(n, c) == place[client[n]] = place[c]

\* One turn of the search.  Its end without a match, where client_list_remove
\* returns -1, is not an action: RemoveFinds says that it is never reached.
Search(c) ==
  /\ At(c, "search")
  /\ curr[c] # NULL
  /\ ~IsOf(curr[c], c)
  /\ curr' = [curr EXCEPT ![c] = NodeAfter(curr[c])]
  /\ Touch(curr[c] \in allocated)
  /\ UNCHANGED <<list, mutex, pc, rest, place, destroyed, walks>>

\* The new head has no prev, if there is one.
UnlinkFirst(n) ==
  /\ prev[n] = NULL
  /\ head' = next[head]
  /\ prev' = IF next[head] = NULL THEN prev ELSE [prev EXCEPT ![next[head]] = NULL]
  /\ UNCHANGED <<next, tail>>

TailBehind == tail \* FAULT: tail is not moved
TailBefore == prev[tail]

UnlinkLast(n) ==
  /\ prev[n] # NULL /\ next[n] = NULL
  /\ tail' = TailBefore
  /\ next' = [next EXCEPT ![prev[tail]] = NULL]
  /\ UNCHANGED <<head, prev>>

UnlinkMiddle(n) ==
  /\ prev[n] # NULL /\ next[n] # NULL
  /\ next' = [next EXCEPT ![prev[n]] = next[n]]
  /\ prev' = [prev EXCEPT ![next[n]] = prev[n]]
  /\ UNCHANGED <<head, tail>>

\* The chain without node n.
PlaceOf(n) == CHOOSE i \in DOMAIN chain : chain[i] = n
Unlinked(n) == RemoveAt(chain, PlaceOf(n))

Unlink(c) ==
  /\ At(c, "search")
  /\ curr[c] # NULL
  /\ IsOf(curr[c], c)
  /\ UnlinkFirst(curr[c]) \/ UnlinkLast(curr[c]) \/ UnlinkMiddle(curr[c])
  /\ chain' = Unlinked(curr[c])
  /\ stay' = [w \in Workers |-> stay[w] \ {c}]
  /\ Touch(curr[c] \in allocated)
  /\ Goto(c, "destroy")
  /\ UNCHANGED <<client, allocated, mutex, curr, rest, place, destroyed>>
  /\ UNCHANGED <<target, sender, visited, misled, stale>>

\* client_destroy: the streams are closed and the client_s is freed.
DestroyClient(c) ==
  /\ At(c, "destroy")
  /\ destroyed' = destroyed \cup {c}
  /\ stale' = Stale(curr[c])
  /\ Touch(c \notin destroyed)
  /\ Goto(c, "free")
  /\ UNCHANGED <<list, mutex, curr, rest, place, target, sender, visited, misled, stay>>

\* The node is freed and the mutex released; the thread ends.
FreeNode(c) ==
  /\ At(c, "free")
  /\ allocated' = NodeFreed(curr[c])
  /\ stale' = Stale(curr[c])
  /\ Touch(curr[c] \in allocated)
  /\ mutex' = NULL
  /\ curr' = [curr EXCEPT ![c] = NULL]
  /\ Goto(c, "gone")
  /\ UNCHANGED <<head, tail, fields, chain, rest, place, destroyed>>
  /\ UNCHANGED <<target, sender, visited, misled, stay>>

-----------------------------------------------------------------------------
(* A worker that walks the list: client_msg without the mutex,             *)
(* client_send_clients with it.                                            *)

\* A worker has left its loop before the list is destroyed (TaskQueue).
Open == pc[Main] \notin {"sweep", "closed"}

Begin(w) ==
  /\ At(w, "idle")
  /\ Open
  /\ curr' = [curr EXCEPT ![w] = head]
  /\ stay' = [stay EXCEPT ![w] = Range(Members)]
  /\ Goto(w, "visit")
  /\ UNCHANGED <<list, rest, place, destroyed, target, visited, misled, stale, crashed>>

\* The message is formatted with the name of its sender before the walk.
StartMsg(w) ==
  /\ Connected # {}
  /\ Begin(w)
  /\ UNCHANGED <<mutex, sender>>

\* Its sender may be freed: the name is read all the same, or the process ends.
FormatFreed(w) ==
  /\ At(w, "idle")
  /\ Open
  /\ \E c \in Connected \cap destroyed : sender' = [sender EXCEPT ![w] = c]
  /\ crashed' = TRUE
  /\ UNCHANGED <<list, mutex, pc, curr, rest, place, destroyed>>
  /\ UNCHANGED <<target, visited, misled, stay, stale>>

\* The listing that a new client, perhaps not yet in the list, is sent.
Created == {c \in Clients : place[c] # NULL}

StartListing(w) ==
  /\ Lock(w)
  /\ Begin(w)
  /\ \E c \in Created : sender' = [sender EXCEPT ![w] = c]

\* curr->client is read.
Load(w) ==
  /\ At(w, "visit")
  /\ curr[w] # NULL
  /\ target' = [target EXCEPT ![w] = client[curr[w]]]
  /\ Touch(curr[w] \in allocated)
  /\ Goto(w, "send")
  /\ UNCHANGED <<list, mutex, curr, rest, place, destroyed>>
  /\ UNCHANGED <<sender, visited, misled, stay, stale>>

\* Who is at the address of client c now.
Tenants(c) == {d \in Created \ destroyed : place[d] = place[c]}

\* The client is sent to, or its name copied.  What is sent to a client that was
\* freed goes to the one at its address, or nowhere.
Visit(w) ==
  /\ At(w, "send")
  /\ LET c == target[w]
     IN  /\ \/ /\ c \notin destroyed
               /\ visited' = [visited EXCEPT ![w] = Append(@, c)]
               /\ UNCHANGED misled
            \/ /\ c \in destroyed
               /\ misled' = [misled EXCEPT ![w] = @ \cup Tenants(c)]
               /\ UNCHANGED visited
         /\ Touch(c \notin destroyed)
  /\ target' = [target EXCEPT ![w] = NULL]
  /\ Goto(w, "advance")
  /\ UNCHANGED <<list, mutex, curr, rest, place, destroyed, sender, stay, stale>>

Advance(w) ==
  /\ At(w, "advance")
  /\ curr' = [curr EXCEPT ![w] = NodeAfter(curr[w])]
  /\ Touch(curr[w] \in allocated)
  /\ Goto(w, "visit")
  /\ UNCHANGED <<list, mutex, rest, place, destroyed, walks>>

Reset(w) ==
  /\ sender' = [sender EXCEPT ![w] = NULL]
  /\ misled' = [misled EXCEPT ![w] = {}]
  /\ UNCHANGED target
  /\ visited' = [visited EXCEPT ![w] = <<>>]
  /\ stay' = [stay EXCEPT ![w] = {}]
  /\ stale' = [stale EXCEPT ![w] = FALSE]

\* The end of client_msg.
EndMsg(w) ==
  /\ At(w, "visit")
  /\ curr[w] = NULL
  /\ mutex # w
  /\ Reset(w)
  /\ Goto(w, "idle")
  /\ UNCHANGED <<list, mutex, curr, rest, place, destroyed, crashed>>

\* client_send_clients unlocks, then sends what it copied.
EndListing(w) ==
  /\ At(w, "visit")
  /\ curr[w] = NULL
  /\ mutex = w
  /\ mutex' = NULL
  /\ Goto(w, "report")
  /\ UNCHANGED <<list, curr, rest, place, destroyed, walks, crashed>>

\* What was copied is sent to the client that asked for it, which may be freed.
SendListing(w) ==
  /\ At(w, "report")
  /\ visited[w] # <<>>
  /\ Reset(w)
  /\ Goto(w, "idle")
  /\ UNCHANGED <<list, mutex, curr, rest, place, destroyed, crashed>>

\* Without a comma in the buffer strrchr finds nothing, and the code writes to
\* address 0; and the stream of a client that was freed may not be there.
LoseListing(w) ==
  /\ At(w, "report")
  /\ visited[w] = <<>> \/ sender[w] \in destroyed
  /\ crashed' = TRUE
  /\ UNCHANGED <<list, mutex, pc, curr, rest, place, destroyed, walks>>

-----------------------------------------------------------------------------
(* client_list_destroy, called by server_close on the thread of the accept *)
(* loop after the workers were joined.  The listeners still run.           *)

SweepLock ==
  /\ At(Main, "accept")
  /\ Lock(Main)
  /\ \A w \in Workers : pc[w] = "idle"
  /\ curr' = [curr EXCEPT ![Main] = head]
  /\ rest' = head
  /\ Goto(Main, "sweep")
  /\ UNCHANGED <<list, place, destroyed, walks, crashed>>

\* One turn of the loop, which moves next and never curr.
SweepNode ==
  /\ At(Main, "sweep")
  /\ rest # NULL
  /\ rest' = next[curr[Main]]
  /\ destroyed' = destroyed \cup {client[curr[Main]]}
  /\ allocated' = NodeFreed(curr[Main])
  /\ Touch(curr[Main] \in allocated)
  /\ UNCHANGED <<head, tail, fields, chain, mutex, pc, curr, place, walks>>

SweepUnlock ==
  /\ At(Main, "sweep")
  /\ rest = NULL
  /\ mutex' = NULL
  /\ Goto(Main, "closed")
  /\ UNCHANGED <<list, curr, rest, place, destroyed, walks, crashed>>

-----------------------------------------------------------------------------
ListenerStep(c) ==
  LeaveLock(c) \/ Search(c) \/ Unlink(c) \/ DestroyClient(c) \/ FreeNode(c)

WorkerStep(w) ==
  \/ StartMsg(w) \/ FormatFreed(w) \/ StartListing(w)
  \/ Load(w) \/ Visit(w) \/ Advance(w) \/ EndMsg(w)
  \/ EndListing(w) \/ SendListing(w) \/ LoseListing(w)

MainStep == Create \/ Add \/ StartListener \/ SweepLock \/ SweepNode \/ SweepUnlock

Next ==
  \/ MainStep
  \/ \E c \in Clients : ListenerStep(c)
  \/ \E w \in Workers : WorkerStep(w)

Spec == Init /\ [][Next]_vars

\* A thread that can run is run.  Nobody has to connect, to leave, to send or
\* to interrupt the server.
Fairness ==
  /\ WF_vars(Add \/ StartListener \/ SweepNode \/ SweepUnlock)
  /\ \A c \in Clients :
       WF_vars(Search(c) \/ Unlink(c) \/ DestroyClient(c) \/ FreeNode(c))
  /\ \A w \in Workers :
       WF_vars(Load(w) \/ Visit(w) \/ Advance(w) \/ EndMsg(w) \/ EndListing(w))

FairSpec == Spec /\ Fairness

-----------------------------------------------------------------------------
(* Properties.                                                             *)

\* Every variable keeps its type.
TypeOK ==
  /\ head \in Nodes \cup {NULL} /\ tail \in Nodes \cup {NULL}
  /\ next \in [Nodes -> Nodes \cup {NULL}]
  /\ prev \in [Nodes -> Nodes \cup {NULL}]
  /\ client \in [Nodes -> Clients \cup {NULL}]
  /\ allocated \in SUBSET Nodes
  /\ chain \in Seq(Nodes)
  /\ mutex \in Threads \cup {NULL}
  /\ pc \in [Threads -> MainLabels \cup ListenerLabels \cup WorkerLabels]
  /\ pc[Main] \in MainLabels
  /\ \A c \in Clients : pc[c] \in ListenerLabels
  /\ \A w \in Workers : pc[w] \in WorkerLabels
  /\ curr \in [Threads -> Nodes \cup {NULL}]
  /\ rest \in Nodes \cup {NULL}
  /\ place \in [Clients -> Places \cup {NULL}]
  /\ destroyed \in SUBSET Clients
  /\ target \in [Workers -> Clients \cup {NULL}]
  /\ sender \in [Workers -> Clients \cup {NULL}]
  /\ misled \in [Workers -> SUBSET Clients]
  /\ visited \in [Workers -> Seq(Clients)]
  /\ stay \in [Workers -> SUBSET Clients]
  /\ stale \in [Workers -> BOOLEAN]
  /\ crashed \in BOOLEAN

\* Until the list is destroyed the pointers form one doubly linked list of
\* allocated nodes from head to tail, although client_list_remove leaves tail
\* dangling when it removes the only node.
Linked ==
  Open =>
    /\ \A i, j \in DOMAIN chain : chain[i] = chain[j] => i = j
    /\ Range(chain) \subseteq allocated
    /\ head = IF chain = <<>> THEN NULL ELSE chain[1]
    /\ chain # <<>> => tail = chain[Len(chain)]
    /\ \A i \in DOMAIN chain :
         /\ next[chain[i]] = IF i = Len(chain) THEN NULL ELSE chain[i + 1]
         /\ prev[chain[i]] = IF i = 1 THEN NULL ELSE chain[i - 1]

\* A client is in the list from before its listener starts until the listener
\* unlinks it, is destroyed once after that, and no node leaks.
OneNodePerClient ==
  Open =>
    /\ Range(Members) =
         {c \in Clients : pc[c] \in {"listen", "search"}}
           \cup (IF pc[Main] = "start" THEN {client[curr[Main]]} ELSE {})
    /\ destroyed = {c \in Clients : pc[c] \in {"free", "gone"}}
    /\ allocated = Range(chain)
         \cup (IF pc[Main] = "link" THEN {curr[Main]} ELSE {})
         \cup {curr[c] : c \in {d \in Clients : pc[d] \in {"destroy", "free"}}}

\* client_list_remove finds its client: the search never runs off the end.
RemoveFinds == Open => \A c \in Clients : pc[c] = "search" => curr[c] # NULL

\* Until the list is destroyed, a walk under the mutex stands on memory that is
\* not freed, and the process ends in three ways only: on a walk without the mutex
\* under which something was freed, on a listing that is empty because the client
\* it is for has not been added and nobody else is there, and on a task whose
\* sender was destroyed, when its name is read or its listing sent.
LockedIsSafe ==
  Open =>
    /\ \A w \in Workers : mutex = w => ~stale[w]
    /\ crashed => \E w \in Workers :
         \/ stale[w] /\ mutex # w /\ pc[w] \in {"visit", "send", "advance"}
         \/ pc[w] = "report" /\ visited[w] = <<>>
         \/ pc[w] \in {"idle", "report"} /\ sender[w] \in destroyed

\* The end of a walk that found its clients.
Ended(w) == pc[w] = "visit" /\ curr[w] = NULL

\* A walk reaches nobody twice at its own node, even on nodes that were freed and
\* allocated again under it.  If nothing was freed under it, it writes to nobody
\* else, so that nobody gets a message twice, and it reaches every client that was
\* in the list all the while, whatever was added or removed meanwhile.  A walk
\* under which something was freed may write to a client at the address of the
\* one that left.
WalkReachesStayers ==
  \A w \in Workers :
    /\ IsInjective(visited[w])
    /\ ~stale[w] => misled[w] = {}
    /\ Ended(w) /\ ~stale[w] => stay[w] \subseteq Range(visited[w])

Roster == INSTANCE ClientRoster WITH
  members <- Members,
  listing <- [w \in Workers |-> IF pc[w] = "report" THEN visited[w] ELSE NULL]

\* Seen without its pointers, the list is the roster of ClientRoster: clients
\* join at the end, a removal keeps the order of the others, and a listing
\* under the mutex shows the members of one moment.
RosterSpec == Roster!Spec

\* A removal that has begun ends, whatever comes and goes, if the process lives
\* and the list is not destroyed; and a walk ends, also on nodes that were freed
\* and allocated again under it.
WalksAndRemovalsEnd ==
  /\ \A c \in Clients : pc[c] = "search" ~> pc[c] = "gone" \/ crashed \/ ~Open
  /\ \A w \in Workers : pc[w] = "visit" ~> pc[w] \in {"idle", "report"} \/ crashed

\* server.c:199 says that the clients that are still in the list are freed, and
\* server.c:200 that at worst some leak.  No node should be read or freed again
\* after it was freed.
SweepFreesOnce == pc[Main] = "sweep" /\ rest # NULL => curr[Main] \in allocated
=============================================================================
