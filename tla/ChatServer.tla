----------------------------- MODULE ChatServer -----------------------------
(***************************************************************************)
(* The sessions of the chat server (client.c): the accept loop creates a   *)
(* client, its listener turns lines into tasks, workers process the tasks  *)
(* and write to the clients.                                               *)
(*                                                                         *)
(* The task queue is the FIFO of TaskFifo and the client list the sequence *)
(* of ClientRoster; TaskQueue and ClientList show that the code implements *)
(* them.  A walk of client_msg moves over the list while it changes.  What *)
(* a thread does after it used freed memory is left open: it may crash the *)
(* process, skip clients, or go on as if nothing had happened.             *)
(*                                                                         *)
(* A definition marked FAULT is not part of the specification.  It is the  *)
(* definition below it with a programming error; README.md names the       *)
(* property that TLC finds violated with it.                               *)
(***************************************************************************)
EXTENDS SequencesExt, BagsExt

CONSTANTS
  Main,       \* the thread of the accept loop
  Clients,    \* bound: the connections ever accepted, and their listeners
  Workers,    \* server.thread_pool
  Names,      \* user names
  Receivers,  \* the words that follow /msg, but for BROADCAST
  Begins,     \* Begins[r]: the names and addresses that begin with r
  Everybody,  \* the receiver "BROADCAST"
  Address,    \* the name of a client before it logs in
  MaxLines,   \* bound: the lines all clients send together that are carried out
  MaxHangUps, \* bound: the peers that close their socket without /leave
  NULL

Threads == {Main} \cup Clients \cup Workers

\* A task: its kind, its creator, its receiver, and how many its creator has made.
TaskKinds == {"list", "conn", "text", "disconn"}
TaskSet == [kind : TaskKinds, from : Clients, to : Receivers \cup {Everybody, NULL}, no : Nat]

ASSUME ChatAssumption ==
  /\ Clients \cap Workers = {} /\ Main \notin Clients \cup Workers
  /\ NULL \notin Threads \cup TaskSet
  /\ NULL \notin Names \cup Receivers \cup {Everybody, Address}
  /\ Everybody \notin Receivers
  /\ Begins \in [Receivers -> SUBSET (Names \cup {Address})]
  /\ MaxLines \in Nat /\ MaxHangUps \in Nat

VARIABLES
  queue,    \* the tasks waiting, oldest first
  roster,   \* the clients in the list, oldest first
  flags,    \* client->flags
  name,     \* client->name
  pc,       \* where each thread is
  fresh,    \* the client the accept loop is creating, or NULL
  job,      \* the task of each worker, or NULL
  at,       \* curr->client in the walk of each worker, or NULL
  text,     \* the sender's name in a worker's message, or its listing
  got,      \* the bag of messages written to each client by workers
  log,      \* history: the tasks each client created
  before,   \* history: the clients created before each client
  lines,    \* how many lines the listeners have read and carried out
  hungUp,   \* the clients whose peer has closed the socket
  freed,    \* the clients that were destroyed
  misused,  \* history: freed memory was used, or stands under a walk
  crashed   \* the process is gone

sessions == <<flags, name, lines, log>>
workers == <<job, at, text>>
vars == <<queue, roster, sessions, pc, fresh, workers, got, before,
          hungUp, freed, misused, crashed>>

Init ==
  /\ queue = <<>> /\ roster = <<>>
  /\ flags = [c \in Clients |-> {}]
  /\ name = [c \in Clients |-> Address]
  /\ pc = [t \in Threads |-> IF t = Main THEN "accept"
                             ELSE IF t \in Clients THEN "none" ELSE "idle"]
  /\ fresh = NULL
  /\ job = [w \in Workers |-> NULL]
  /\ at = [w \in Workers |-> NULL]
  /\ text = [w \in Workers |-> NULL]
  /\ got = [c \in Clients |-> EmptyBag]
  /\ log = [c \in Clients |-> <<>>]
  /\ before = [c \in Clients |-> {}]
  /\ lines = 0
  /\ hungUp = {} /\ freed = {} /\ misused = FALSE
  /\ crashed = FALSE

-----------------------------------------------------------------------------
At(t, label) == pc[t] = label /\ ~crashed
Goto(t, label) == pc' = [pc EXCEPT ![t] = label]

LoggedIn(c) == "loggedIn" \in flags[c]

\* A broadcast is for everyone, a private message for every client whose name, or
\* whose address before it has a name, begins with the receiver (str_eq compares
\* strlen(receiver) bytes).  A name that is being copied may be read as anything.
IsFor(to, c) == to = Everybody \/ (to \in Receivers /\ name[c] \in Begins[to])
MayMatch(to, c) == IsFor(to, c) \/ pc[c] = "login"
MayDiffer(to, c) == to # Everybody /\ (~IsFor(to, c) \/ pc[c] = "login")

\* A client that has the name it will keep.
Named(c) == LoggedIn(c) /\ pc[c] # "login"

\* task_queue_createtask: the task is queued and logged with the clients in the
\* list that it must reach: everyone, or the users of a name that it is for.
MustReach(to, c) == to = Everybody \/ (Named(c) /\ IsFor(to, c))
Audience(to) == {d \in Range(roster) : MustReach(to, d)}
SenderForgotten(c) == NULL \* FAULT: the sender is not set
Sender(c) == c
Enqueue(c, kind, to) ==
  /\ queue' = Append(queue, [kind |-> kind, from |-> Sender(c), to |-> to, no |-> Len(log[c]) + 1])
  /\ log' = [log EXCEPT ![c] = Append(@, [kind |-> kind, audience |-> Audience(to)])]

\* client_send_message: SIGPIPE, which nobody handles or ignores, kills the
\* process if the peer has reset the connection.
Reply(c) == IF c \in hungUp THEN crashed' \in BOOLEAN ELSE UNCHANGED crashed

\* The same for what a worker writes on behalf of a task.
Write(c, message) ==
  /\ got' = [got EXCEPT ![c] = BagAdd(@, message)]
  /\ Reply(c)

\* Freed memory is used.
Misuse == misused' = TRUE /\ crashed' \in BOOLEAN

-----------------------------------------------------------------------------
(* The accept loop: client_create.                                         *)

Created == {c \in Clients : pc[c] # "none"} \cup {fresh}

\* The task with the listing is created before the client is in the list.
Accept ==
  /\ At(Main, "accept")
  /\ \E c \in Clients \ Created :
       /\ fresh' = c
       /\ flags' = [flags EXCEPT ![c] = {"connected"}]
       /\ before' = [before EXCEPT ![c] = Created \ {NULL}]
       /\ Enqueue(c, "list", NULL)
  /\ Goto(Main, "add")
  /\ UNCHANGED <<roster, name, lines, workers, got, hungUp, freed, misused, crashed>>

\* client_list_add, then pthread_create: until its first line nobody can tell
\* whether the listener has started.
AddToList ==
  /\ At(Main, "add")
  /\ roster' = Append(roster, fresh)
  /\ pc' = [pc EXCEPT ![fresh] = "listen", ![Main] = "accept"]
  /\ fresh' = NULL
  /\ UNCHANGED <<queue, sessions, workers, got, before, hungUp, freed, misused, crashed>>

-----------------------------------------------------------------------------
(* A listener: client_listen and client_parse_command.                     *)

\* fgets returns a line and the client is connected.
ReadLine(c) ==
  /\ At(c, "listen")
  /\ lines < MaxLines
  /\ lines' = lines + 1

MayLogInAgain(c) == TRUE \* FAULT: nobody looks at the flag
MayLogIn(c) == ~LoggedIn(c)

\* /login, first the flag, then the name, then the announcement.
LoginFlag(c) ==
  /\ MayLogIn(c)
  /\ ReadLine(c)
  /\ flags' = [flags EXCEPT ![c] = @ \cup {"loggedIn"}]
  /\ Goto(c, "login")
  /\ UNCHANGED <<queue, roster, name, log, fresh, workers, got, before, hungUp, freed,
                 misused, crashed>>

LoginName(c) ==
  /\ At(c, "login")
  /\ \E n \in Names : name' = [name EXCEPT ![c] = n]
  /\ Goto(c, "announce")
  /\ Reply(c)
  /\ UNCHANGED <<queue, roster, flags, log, lines, fresh, workers, got, before, hungUp, freed, misused>>

Announce(c) ==
  /\ At(c, "announce")
  /\ Enqueue(c, "conn", Everybody)
  /\ Goto(c, "listen")
  /\ UNCHANGED <<roster, flags, name, lines, fresh, workers, got, before, hungUp, freed,
                 misused, crashed>>

MayAnyoneSay(c) == TRUE \* FAULT: nobody looks at the flag
MaySay(c) == LoggedIn(c)

\* A line that is not a command, or /msg with any word as its receiver and a text.
\* The receiver BROADCAST makes the second the same as the first.
Say(c) ==
  /\ MaySay(c)
  /\ ReadLine(c)
  /\ \E r \in Receivers \cup {Everybody} : Enqueue(c, "text", r)
  /\ UNCHANGED <<roster, flags, name, pc, fresh, workers, got, before, hungUp, freed,
                 misused, crashed>>

\* Any command but /login before the login, a second /login, a wrong usage, or an
\* unknown command, which is ignored.
Refuse(c) ==
  /\ At(c, "listen")
  /\ Reply(c)
  /\ UNCHANGED <<queue, roster, sessions, pc, fresh, workers, got, before, hungUp, freed, misused>>

\* /leave of a client that is in no room (no code puts one in a room).
Leave(c) ==
  /\ LoggedIn(c)
  /\ ReadLine(c)
  /\ flags' = [flags EXCEPT ![c] = @ \ {"connected"}]
  /\ Reply(c)
  /\ Goto(c, "bye")
  /\ UNCHANGED <<queue, roster, name, log, fresh, workers, got, before, hungUp, freed, misused>>

SayBye(c) ==
  /\ At(c, "bye")
  /\ Enqueue(c, "disconn", Everybody)
  /\ Goto(c, "remove")
  /\ UNCHANGED <<roster, flags, name, lines, fresh, workers, got, before, hungUp, freed,
                 misused, crashed>>

\* Where client c is in the list.
PositionOf(c) == CHOOSE i \in DOMAIN roster : roster[i] = c

UnlinkedFirst(c) == Tail(roster) \* FAULT: the head is unlinked, whoever it is
Unlinked(c) == RemoveAt(roster, PositionOf(c))

\* client_list_remove frees the client, whoever still points to it.
RemoveSelf(c) ==
  /\ At(c, "remove")
  /\ roster' = Unlinked(c)
  /\ freed' = freed \cup {c}
  /\ misused' = (misused \/ \E w \in Workers : at[w] = c)
  /\ Goto(c, "gone")
  /\ UNCHANGED <<queue, sessions, fresh, workers, got, before, hungUp, crashed>>

\* A blank line before the login has no command: strtok_r returns NULL and
\* strlen reads from it.
Blank(c) ==
  /\ ~LoggedIn(c)
  /\ At(c, "listen")
  /\ crashed' = TRUE
  /\ UNCHANGED <<queue, roster, sessions, pc, fresh, workers, got, before, hungUp,
                 freed, misused>>

\* The peer closes its socket.  Lines it sent may still be read; after them
\* fgets fails for ever, the listener spins and the client stays in the list.
HangUp(c) ==
  /\ pc[c] \notin {"none", "gone"} /\ ~crashed
  /\ Cardinality(hungUp) < MaxHangUps
  /\ hungUp' = hungUp \cup {c}
  /\ UNCHANGED <<queue, roster, sessions, pc, fresh, workers, got, before, freed,
                 misused, crashed>>

-----------------------------------------------------------------------------
(* A worker: client_process_task.                                          *)

\* task_queue_gettask.
Take(w) ==
  /\ At(w, "idle")
  /\ queue # <<>>
  /\ job' = [job EXCEPT ![w] = Head(queue)]
  /\ queue' = Tail(queue)
  /\ Goto(w, IF Head(queue).kind = "list" THEN "copy" ELSE "format")
  /\ UNCHANGED <<roster, sessions, fresh, at, text, got, before, hungUp, freed, misused, crashed>>

\* client_msg reads the name of the sender.  If the sender was freed, its memory
\* may be another client's by now; NULL stands for whatever is read there.
Format(w) ==
  /\ At(w, "format")
  /\ IF job[w].from \in freed
     THEN Misuse /\ text' = [text EXCEPT ![w] = NULL]
     ELSE text' = [text EXCEPT ![w] = name[job[w].from]] /\ UNCHANGED <<misused, crashed>>
  /\ Goto(w, "begin")
  /\ UNCHANGED <<queue, roster, sessions, fresh, job, at, got, before, hungUp, freed>>

\* The task is freed.
Done(w) ==
  /\ job' = [job EXCEPT ![w] = NULL]
  /\ text' = [text EXCEPT ![w] = NULL]
  /\ Goto(w, "idle")

\* The walk goes on at client c, or ends.
Move(w, c) ==
  /\ at' = [at EXCEPT ![w] = c]
  /\ IF c = NULL THEN Done(w) ELSE Goto(w, "walk") /\ UNCHANGED <<job, text>>

\* curr = head, without the mutex of the list.
Begin(w) ==
  /\ At(w, "begin")
  /\ Move(w, IF roster = <<>> THEN NULL ELSE Head(roster))
  /\ UNCHANGED <<queue, roster, sessions, fresh, got, before, hungUp, freed, misused, crashed>>

Visit(w) ==
  /\ At(w, "walk")
  /\ IF at[w] \in freed THEN Misuse /\ UNCHANGED got
     ELSE \/ /\ MayMatch(job[w].to, at[w])
             /\ Write(at[w], [kind |-> job[w].kind, from |-> job[w].from,
                              no |-> job[w].no, text |-> text[w]])
             /\ UNCHANGED misused
          \/ /\ MayDiffer(job[w].to, at[w])
             /\ UNCHANGED <<got, misused, crashed>>
  /\ Goto(w, "step")
  /\ UNCHANGED <<queue, roster, sessions, fresh, workers, before, hungUp, freed>>

AfterNone(c) == NULL \* FAULT: the walk ends after one client
\* The client after c in the list, or NULL.
AfterC(c) ==
  IF PositionOf(c) = Len(roster) THEN NULL ELSE roster[PositionOf(c) + 1]

\* curr = curr->next; from a node that was freed the walk may go anywhere.
Step(w) ==
  /\ At(w, "step")
  /\ IF at[w] \in freed
     THEN \E c \in Range(roster) \cup {NULL} : Move(w, c) /\ Misuse
     ELSE Move(w, AfterC(at[w])) /\ UNCHANGED <<misused, crashed>>
  /\ UNCHANGED <<queue, roster, sessions, fresh, got, before, hungUp, freed>>

\* client_send_clients copies the list under the mutex.  If it is empty the
\* last comma is looked for in an empty string and the process writes to NULL.
CopyList(w) ==
  /\ At(w, "copy")
  /\ text' = [text EXCEPT ![w] = Range(roster)]
  /\ crashed' = (roster = <<>>)
  /\ Goto(w, "reply")
  /\ UNCHANGED <<queue, roster, sessions, fresh, job, at, got, before, hungUp, freed, misused>>

SendList(w) ==
  /\ At(w, "reply")
  /\ LET c == job[w].from
     IN IF c \in freed THEN Misuse /\ UNCHANGED got
        ELSE /\ Write(c, [kind |-> "list", from |-> c, no |-> 1, text |-> text[w]])
             /\ UNCHANGED misused
  /\ Done(w)
  /\ UNCHANGED <<queue, roster, sessions, fresh, at, before, hungUp, freed>>

-----------------------------------------------------------------------------
MainStep == Accept \/ AddToList

SessionStep(c) == LoginName(c) \/ Announce(c) \/ SayBye(c) \/ RemoveSelf(c)

InputStep(c) == LoginFlag(c) \/ Say(c) \/ Refuse(c) \/ Leave(c) \/ Blank(c) \/ HangUp(c)

WorkerStep(w) ==
  \/ Take(w) \/ Format(w) \/ Begin(w) \/ Visit(w) \/ Step(w)
  \/ CopyList(w) \/ SendList(w)

Next ==
  \/ MainStep
  \/ \E c \in Clients : SessionStep(c) \/ InputStep(c)
  \/ \E w \in Workers : WorkerStep(w)

Spec == Init /\ [][Next]_vars

\* The threads run.  Nobody has to connect, to send a line or to hang up.
Fairness ==
  /\ WF_vars(AddToList)
  /\ \A c \in Clients : WF_vars(SessionStep(c))
  /\ \A w \in Workers : WF_vars(WorkerStep(w))

FairSpec == Spec /\ Fairness

-----------------------------------------------------------------------------
(* Properties.                                                             *)

Texts == Names \cup {Address, NULL} \cup SUBSET Clients

\* Every variable keeps its type.
TypeOK ==
  /\ queue \in Seq(TaskSet)
  /\ roster \in Seq(Clients)
  /\ flags \in [Clients -> SUBSET {"connected", "loggedIn"}]
  /\ name \in [Clients -> Names \cup {Address}]
  /\ pc[Main] \in {"accept", "add"}
  /\ \A c \in Clients :
       pc[c] \in {"none", "listen", "login", "announce", "bye", "remove", "gone"}
  /\ \A w \in Workers :
       pc[w] \in {"idle", "format", "begin", "walk", "step", "copy", "reply"}
  /\ fresh \in Clients \cup {NULL}
  /\ job \in [Workers -> TaskSet \cup {NULL}]
  /\ at \in [Workers -> Clients \cup {NULL}]
  /\ text \in [Workers -> Texts]
  /\ \A c \in Clients :
       DOMAIN got[c] \subseteq [kind : TaskKinds, from : Clients, no : Nat, text : Texts]
  /\ log \in [Clients -> Seq([kind : TaskKinds, audience : SUBSET Clients])]
  /\ before \in [Clients -> SUBSET Clients]
  /\ lines \in 0 .. MaxLines
  /\ hungUp \subseteq Clients /\ freed \subseteq Clients
  /\ misused \in BOOLEAN /\ crashed \in BOOLEAN

Session == INSTANCE ChatSession WITH
  last <- [c \in Clients |-> IF log[c] = <<>> THEN "none" ELSE Last(log[c]).kind],
  name <- [c \in Clients |-> IF Len(log[c]) < 2 THEN Address ELSE name[c]]

\* The accept loop and the listeners together keep to ChatSession: a client asks
\* for the listing first, is announced once before anything else it says, under
\* a name that never changes, and says nothing after its farewell.
SessionSpec == Session!Spec

\* client.c:190 says that the user must be logged in to use any command.  What
\* a client receives from another that is still there names it by the name it
\* logged in with, even though the name is copied after the flag is set and read by
\* other threads.
SendersAreNamed ==
  \A c \in Clients : \A m \in DOMAIN got[c] :
    m.kind # "list" /\ m.from \notin freed => m.text = name[m.from] /\ m.text \in Names

\* Client d got message no of client c.
Received(d, c, no) == \E m \in DOMAIN got[d] : m.from = c /\ m.no = no

\* When a task has been processed, every client that was listed when it was created,
\* and whom it was for, by the name it had logged in with if the message is private,
\* has its message or has left, although the list changed under the walk; and nobody
\* has anything twice, not even a client that logged in during the walk; unless freed
\* memory was in use.  A message for the address of a client that has no name yet
\* may be lost when it logs in.
Unprocessed == Range(queue) \cup (Range(job) \ {NULL})
IsDone(c, no) == \A t \in Unprocessed : ~(t.from = c /\ t.no = no)
ReachesAudience ==
  ~misused => \A d \in Clients :
    /\ \A c \in Clients : \A no \in DOMAIN log[c] :
         d \in log[c][no].audience \ freed /\ IsDone(c, no) => Received(d, c, no)
    /\ \A m \in DOMAIN got[d] : got[d][m] = 1

\* The listing a new client gets shows every client accepted before it that
\* has not left, however late the worker copies it.
ListingComplete ==
  \A w \in Workers : pc[w] = "reply" => before[job[w].from] \subseteq text[w] \cup freed

\* A message arrives at each client that was listed when it was created and whom
\* it was for, by the name it had logged in with if the message is private, or the
\* client leaves, or freed memory is used, or the process dies.
MessageArrives ==
  \A c, d \in Clients : \A no \in 1 .. (MaxLines + 2) :
    no \in DOMAIN log[c] /\ d \in log[c][no].audience
      ~> (Received(d, c, no) \/ d \in freed \/ misused \/ crashed)
=============================================================================
