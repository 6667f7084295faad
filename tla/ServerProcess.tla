---------------------------- MODULE ServerProcess ---------------------------
(***************************************************************************)
(* The process of the server from main to its end (main.c, server.c): the  *)
(* system calls of the start, each of which may fail, the accept loop and  *)
(* client_create, which take the lowest free descriptor and may find none, *)
(* client_destroy, and the handler of SIGINT and SIGQUIT, which closes a   *)
(* descriptor by its number on whichever thread it interrupts.             *)
(*                                                                         *)
(* The pool is TaskQueue and the list ClientList; here the handler waits   *)
(* for the pool and destroys the list and the queue, in a step each, and   *)
(* may wait for ever.                                                      *)
(*                                                                         *)
(* A definition marked FAULT is not part of the specification.  It is the  *)
(* definition below it with a programming error; README.md names the       *)
(* property that TLC finds violated with it.                               *)
(***************************************************************************)
EXTENDS SequencesExt

CONSTANTS
  Fds,        \* the descriptors a process may have, without the standard ones
  Clients,    \* bound: the connections ever made
  MaxSignals, \* bound: the signals ever sent
  Listener,   \* the listening socket
  NULL

ASSUME ProcessAssumption ==
  /\ Fds \subseteq Nat /\ IsFiniteSet(Fds) /\ MaxSignals \in Nat
  /\ Listener \notin Clients /\ NULL \notin Fds \cup Clients \cup {Listener}

VARIABLES
  main,      \* where the main thread is
  files,     \* what each descriptor refers to: a socket, or NULL if it is free
  socketFd,  \* server.socket_fd, or NULL before the socket is made
  held,      \* the numbers a client_s keeps: comm_id, write_fp, read_fp
  fresh,     \* the client being created, or NULL
  listed,    \* the clients in the list
  ready,     \* what server_init has set up, in order
  closer,    \* the thread server_close runs on: "main", "other" or "none"
  closing,   \* where server_close is; "stuck" if it waits for ever
  gone,      \* the list was destroyed
  signals,   \* how many signals were sent
  strayed,   \* history: the handler has closed the socket of a client
  ended      \* how the process ended, or "no"

sockets == <<files, held>>
handler == <<closer, closing, gone, signals>>
vars == <<main, sockets, socketFd, fresh, listed, ready, handler, strayed, ended>>

Init ==
  /\ main = "start"
  /\ files = [f \in Fds |-> NULL] /\ socketFd = NULL
  /\ held = [c \in Clients |-> <<>>]
  /\ fresh = NULL /\ listed = {}
  /\ ready = <<>>
  /\ closer = "none" /\ closing = "no" /\ gone = FALSE /\ signals = 0
  /\ strayed = FALSE /\ ended = "no"

-----------------------------------------------------------------------------
\* The main thread executes its own code: the handler is not on top of it.
At(label) == main = label /\ ended = "no" /\ ~(closer = "main" /\ closing # "done")

Free == {f \in Fds : files[f] = NULL}

\* A new descriptor is the lowest that is free.
Open(socket) == Free # {} /\ files' = [files EXCEPT ![Min(Free)] = socket]

\* close of a number closes whatever has that number.
Closed(fds) == [f \in Fds |-> IF f \in fds THEN NULL ELSE files[f]]

Exit(code) == ended' = code /\ main' = "exit"
Survive == UNCHANGED <<main, ended>>
\* After undefined behaviour the process goes on or is gone.
Risk(bad) == Survive \/ (bad /\ Exit("crash"))

-----------------------------------------------------------------------------
(* main, server_init and server_create_listener.                           *)

\* -s runs the server; -q and anything else but -l just return.
Main ==
  /\ At("start")
  /\ \/ main' = "socket" /\ UNCHANGED ended
     \/ Exit("success")
  /\ UNCHANGED <<sockets, socketFd, fresh, listed, ready, handler, strayed>>

Socket ==
  /\ At("socket")
  /\ \/ Open(Listener) /\ socketFd' = Min(Free) /\ main' = "resolve" /\ UNCHANGED ended
     \/ Exit("failure") /\ UNCHANGED <<files, socketFd>>
  /\ UNCHANGED <<held, fresh, listed, ready, handler, strayed>>

\* getaddrinfo, bind and listen.  A failure closes the socket, and -1 makes
\* server_init exit.
AfterFailureKept == files \* FAULT: close is forgotten
AfterFailure == Closed({socketFd})
Prepare(call, then) ==
  /\ At(call)
  /\ \/ main' = then /\ UNCHANGED <<files, ended>>
     \/ Exit("failure") /\ files' = AfterFailure
  /\ UNCHANGED <<held, socketFd, fresh, listed, ready, handler, strayed>>

\* The parts of the server are set up one after the other.
Parts == <<"flags", "list", "queue", "pool", "handler">>
SetUp ==
  /\ At("setup")
  /\ ready' = Append(ready, Parts[Len(ready) + 1])
  /\ main' = IF Len(ready') = Len(Parts) THEN "loop" ELSE "setup"
  /\ UNCHANGED <<sockets, socketFd, fresh, listed, handler, strayed, ended>>

-----------------------------------------------------------------------------
(* server_listen and client_create.                                        *)

\* accept fails at once if the descriptor is not the listening socket; any error
\* ends the loop, server_init and main return.
OnErrorGoOn == "loop" \* FAULT: the loop goes on after an error
OnError == "return"
CallAccept ==
  /\ At("loop")
  /\ main' = IF files[socketFd] = Listener THEN "accept" ELSE OnError
  /\ UNCHANGED <<sockets, socketFd, fresh, listed, ready, handler, strayed, ended>>

\* A call that waits keeps the socket, even if its descriptor is closed by
\* another thread.
Accept ==
  /\ At("accept")
  /\ \E c \in {d \in Clients : held[d] = <<>>} :
       /\ Open(c)
       /\ held' = [held EXCEPT ![c] = <<Min(Free)>>]
       /\ fresh' = c
  /\ main' = "dup"
  /\ UNCHANGED <<socketFd, listed, ready, handler, strayed, ended>>

\* No descriptor is free, the connection was aborted, or the handler has
\* interrupted the call.
AcceptFails ==
  /\ At("accept")
  /\ main' = OnError
  /\ UNCHANGED <<sockets, socketFd, fresh, listed, ready, handler, strayed, ended>>

\* fdopen of dup, for the stream to write and for the one to read.
CompleteLate(numbers) == Len(numbers) = 4 \* FAULT: one too many
Complete(numbers) == Len(numbers) = 3
Dup ==
  /\ At("dup")
  /\ Open(fresh)
  /\ held' = [held EXCEPT ![fresh] = Append(@, Min(Free))]
  /\ main' = IF Complete(held'[fresh]) THEN "add" ELSE "dup"
  /\ UNCHANGED <<socketFd, fresh, listed, ready, handler, strayed, ended>>

\* No descriptor is free, or no memory: what this client has is closed and the
\* whole process exits.
DupFails ==
  /\ At("dup")
  /\ files' = Closed(Range(held[fresh]))
  /\ Exit("failure")
  /\ UNCHANGED <<held, socketFd, fresh, listed, ready, handler, strayed>>

\* task_queue_enqueue and client_list_add.  The thread that the handler has
\* interrupted may hold the mutex, and the list may have been destroyed already.
AddToList ==
  /\ At("add")
  /\ \/ listed' = listed \cup {fresh} /\ fresh' = NULL /\ main' = "loop" /\ UNCHANGED ended
     \/ gone /\ Exit("crash") /\ UNCHANGED <<fresh, listed>>
     \/ /\ closer = "other" /\ closing # "done"
        /\ main' = "blocked"
        /\ UNCHANGED <<fresh, listed, ended>>
  /\ UNCHANGED <<sockets, socketFd, ready, handler, strayed>>

\* main returns, whatever the other threads do.
Return ==
  /\ At("return")
  /\ Exit("success")
  /\ UNCHANGED <<sockets, socketFd, fresh, listed, ready, handler, strayed>>

-----------------------------------------------------------------------------
(* client_destroy, called by a listener after /leave.                      *)

NumbersOfStreams(c) == Tail(held[c]) \* FAULT: comm_id is not closed
Numbers(c) == held[c]

Leave(c) ==
  /\ ended = "no" /\ c \in listed /\ ~gone
  /\ listed' = listed \ {c}
  /\ files' = Closed(Range(Numbers(c)))
  /\ UNCHANGED <<main, held, socketFd, fresh, ready, handler, strayed, ended>>

\* A listener that runs on after the list was destroyed uses what was freed.
ListenOn ==
  /\ ended = "no" /\ listed # {} /\ gone
  /\ Exit("crash")
  /\ UNCHANGED <<sockets, socketFd, fresh, listed, ready, handler, strayed>>

-----------------------------------------------------------------------------
(* Signals and server_close.                                               *)

\* Before server_close is installed a signal ends the process.
Kill ==
  /\ ended = "no" /\ "handler" \notin Range(ready)
  /\ signals < MaxSignals
  /\ Exit("killed")
  /\ UNCHANGED <<sockets, socketFd, fresh, listed, ready, handler, strayed>>

\* close(server.socket_fd) fails if the number is free, and that ends the process,
\* but the number may belong to a client by now.  accept does not wait on after
\* a signal.
Interrupt(thread) ==
  /\ ended = "no" /\ "handler" \in Range(ready)
  /\ signals < MaxSignals /\ signals' = signals + 1
  /\ IF files[socketFd] = NULL
     THEN Exit("failure") /\ UNCHANGED <<files, closer, closing, strayed>>
     ELSE /\ files' = Closed({socketFd})
          /\ strayed' = (strayed \/ files[socketFd] # Listener)
          /\ closer' = IF closer = "main" /\ closing # "done" THEN "main" ELSE thread
          /\ closing' = "join"
          /\ main' = IF thread = "main" /\ main = "accept" THEN "return" ELSE main
          /\ UNCHANGED ended
  /\ UNCHANGED <<held, socketFd, fresh, listed, ready, gone>>

\* The pool has been woken and is joined, for the second time if a client's
\* socket was taken for the listener's.
JoinPool ==
  /\ ended = "no" /\ closing = "join"
  /\ closing' = "sweep"
  /\ Risk(strayed)
  /\ UNCHANGED <<sockets, socketFd, fresh, listed, ready, closer, gone, signals, strayed>>

\* client_list_destroy.  Of several clients the first is destroyed again and
\* again (ClientList), and after a second call the list is that of the first.
SweepIsUndefined == strayed \/ Cardinality(listed) > 1
DestroyList ==
  /\ ended = "no" /\ closing = "sweep"
  /\ closing' = "free" /\ gone' = TRUE
  /\ IF listed = {} THEN UNCHANGED files
     ELSE \E c \in listed : files' = Closed(Range(Numbers(c)))
  /\ Risk(SweepIsUndefined)
  /\ UNCHANGED <<held, socketFd, fresh, listed, ready, closer, signals, strayed>>

\* task_queue_destroy.
DestroyQueue ==
  /\ ended = "no" /\ closing = "free"
  /\ closing' = "done"
  /\ Risk(strayed)
  /\ UNCHANGED <<sockets, socketFd, fresh, listed, ready, closer, gone, signals, strayed>>

\* The interrupted thread may hold a mutex of the list, of the queue or of the
\* allocator: the main thread inside client_create, any other at any time.
MayHoldMutex == closer = "other" \/ main \in {"dup", "add"}

\* A worker that missed the broadcast, or waits for a mutex, is never joined
\* (TaskQueue), nor is one by itself; the destroy functions wait for a mutex of
\* their own thread, or go round the nodes that were freed.
GetStuck ==
  /\ ended = "no"
  /\ closing = "join" \/ (closing \in {"sweep", "free"} /\ (MayHoldMutex \/ SweepIsUndefined))
  /\ closing' = "stuck"
  /\ main' = IF closer = "main" THEN "blocked" ELSE main
  /\ UNCHANGED <<sockets, socketFd, fresh, listed, ready, closer, gone, signals, strayed, ended>>

-----------------------------------------------------------------------------
MainStep ==
  \/ Main \/ Socket
  \/ Prepare("resolve", "bind") \/ Prepare("bind", "listen") \/ Prepare("listen", "setup")
  \/ SetUp \/ CallAccept \/ Dup \/ DupFails \/ AddToList \/ Return

CloseStep == JoinPool \/ DestroyList \/ DestroyQueue \/ GetStuck

Next ==
  \/ MainStep \/ Accept \/ AcceptFails
  \/ \E c \in Clients : Leave(c)
  \/ \E thread \in {"main", "other"} : Interrupt(thread)
  \/ ListenOn \/ Kill \/ CloseStep

Spec == Init /\ [][Next]_vars

\* The main thread runs, and so does the handler unless it is stuck.  Nobody has to
\* connect, to leave or to send a signal.
FairSpec == Spec /\ WF_vars(MainStep) /\ WF_vars(CloseStep)

-----------------------------------------------------------------------------
(* Properties.                                                             *)

\* Every variable keeps its type.
TypeOK ==
  /\ main \in {"start", "socket", "resolve", "bind", "listen", "setup", "loop",
              "accept", "dup", "add", "blocked", "return", "exit"}
  /\ files \in [Fds -> Clients \cup {Listener, NULL}]
  /\ socketFd \in Fds \cup {NULL}
  /\ held \in [Clients -> UNION {[1 .. n -> Fds] : n \in 0 .. 3}]
  /\ fresh \in Clients \cup {NULL} /\ listed \subseteq Clients
  /\ IsPrefix(ready, Parts)
  /\ closer \in {"main", "other", "none"}
  /\ closing \in {"no", "join", "sweep", "free", "done", "stuck"} /\ gone \in BOOLEAN
  /\ signals \in 0 .. MaxSignals /\ strayed \in BOOLEAN
  /\ ended \in {"no", "success", "failure", "crash", "killed"}

\* Up to the first signal and until the list is destroyed, whatever failed and
\* whoever left: a listed client has three descriptors of its own, the one being
\* created has those it keeps the numbers of, the listener has one until
\* server_close, which closes nothing else, and nobody else has any.  A start
\* that fails leaves none.
DescriptorsAccounted ==
  /\ ended = "no" /\ ~gone /\ signals <= 1 =>
       /\ \A f \in Fds : \A c \in Clients :
            files[f] = c <=> c \in listed \cup {fresh} /\ f \in Range(held[c])
       /\ \A c \in listed : Cardinality(Range(held[c])) = 3
       /\ \A f \in Fds : files[f] = Listener <=> f = socketFd /\ closing = "no"
  /\ signals <= 1 => ~strayed
  /\ ended = "failure" /\ ready = <<>> => Free = Fds

\* How a shutdown ends, which server.c:130 promises.  A handler that has interrupted
\* accept and got past the pool ends the process if at most one client is left and
\* nobody else's socket was closed before.  Wherever it interrupts the main
\* thread, the process ends or the main thread waits for ever.  On another thread,
\* even if it gets stuck there, the process ends once one more connection was
\* accepted, unless the main thread then waits for what that thread holds.
ShutdownEnds ==
  /\ (closing = "sweep" /\ closer = "main" /\ main = "return" /\ ~SweepIsUndefined) ~> ended # "no"
  /\ (closing # "no" /\ closer = "main") ~> ended # "no" \/ main = "blocked"
  /\ (closing # "no" /\ main = "dup") ~> ended # "no" \/ main = "blocked"
=============================================================================
