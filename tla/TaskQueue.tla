----------------------------- MODULE TaskQueue ------------------------------
(***************************************************************************)
(* The task queue (task_queue.c), the loop of the worker threads and the   *)
(* shutdown handler (server.c), at the level of the linked nodes, the      *)
(* mutex and the condition variable.                                       *)
(*                                                                         *)
(* A thread is a worker of the pool or a producer: the accept loop or a    *)
(* client listener that calls task_queue_createtask.  A critical section   *)
(* is one step when everything it touches is touched under the mutex only; *)
(* it is split where it reads server.flags, which the handler writes       *)
(* without the mutex.  The handler runs on the thread the signal interrupts*)
(* and that thread does nothing until the handler has returned.            *)
(*                                                                         *)
(* A definition marked FAULT is not part of the specification.  It is the  *)
(* definition below it with a programming error; README.md names the       *)
(* property that TLC finds violated with it.                               *)
(***************************************************************************)
EXTENDS Naturals, Sequences, FiniteSets, Functions

CONSTANTS
  Workers,       \* server.thread_pool
  Producers,     \* the threads that create tasks
  SignalTargets, \* the threads SIGINT and SIGQUIT may interrupt
  MaxSignals,    \* bound: at most this many signals (1 or 2)
  Nodes,         \* addresses the allocator may return for a queue node
  Tasks,         \* bound: the task_s structures ever created
  NULL

Threads == Workers \cup Producers

ASSUME QueueAssumption ==
  /\ Workers \cap Producers = {}
  /\ IsFiniteSet(Workers)
  /\ SignalTargets \subseteq Threads
  /\ MaxSignals \in {1, 2}
  /\ NULL \notin Nodes \cup Tasks \cup Threads

VARIABLES
  head, tail,  \* q->head and q->tail; tail dangles when the queue is empty
  next, task,  \* the fields of every node address, stale after a free
  allocated,   \* the node addresses that are allocated
  chain,       \* history: the nodes linked in the queue, oldest first
  mutex,       \* the thread that holds q->mutex, or NULL
  waiters,     \* the workers blocked on q->cond
  active,      \* server.flags & SERVER_ACTIVE
  pc,          \* where each thread is
  node,        \* a producer's new node, a worker's local f
  held,        \* the task a worker got from task_queue_gettask, or NULL
  made,        \* the tasks ever allocated
  freed,       \* the tasks released
  closer,      \* the thread on which server_close runs, or NULL
  closing      \* where server_close is

heap == <<head, tail, next, task, allocated, chain>>
shutdown == <<active, closer, closing>>
vars == <<heap, mutex, waiters, pc, node, held, made, freed, shutdown>>

WorkerLabels == {"loop", "lock", "check", "wait", "sleep", "bail", "run", "exit"}
ProducerLabels == {"idle", "lock", "insert"}

\* task_queue_create.
QueueInitHeadOnly == head = NULL /\ tail = "indeterminate" \* FAULT: tail is not set
QueueInit == head = NULL /\ tail = NULL

Init ==
  /\ QueueInit
  /\ next = [n \in Nodes |-> NULL]
  /\ task = [n \in Nodes |-> NULL]
  /\ allocated = {} /\ chain = <<>>
  /\ mutex = NULL /\ waiters = {}
  /\ active = TRUE
  /\ pc = [t \in Threads |-> IF t \in Workers THEN "loop" ELSE "idle"]
  /\ node = [t \in Threads |-> NULL]
  /\ held = [w \in Workers |-> NULL]
  /\ made = {} /\ freed = {}
  /\ closer = NULL /\ closing = "no"

-----------------------------------------------------------------------------
\* exit() in a second handler, or a crash, ends the process and every thread.
Alive == closing # "exited"

\* Thread t executes its own code: the handler is not running on top of it.
Runs(t) == Alive /\ (closer = t => closing = "done")

At(t, label) == pc[t] = label /\ Runs(t)
Goto(t, label) == pc' = [pc EXCEPT ![t] = label]

SignalNobody == UNCHANGED waiters \* FAULT: the signal is forgotten
\* FAULT: signals only when the queue was empty.
SignalIfEmpty ==
  IF waiters = {} \/ head # NULL THEN UNCHANGED waiters
  ELSE \E w \in waiters : waiters' = waiters \ {w}

\* pthread_cond_signal: wakes one waiter, if there is one.
Signal ==
  IF waiters = {} THEN UNCHANGED waiters
  ELSE \E w \in waiters : waiters' = waiters \ {w}

\* pthread_cond_wait gives the mutex up and blocks in one step.
Block(w) == mutex' = NULL /\ waiters' = waiters \cup {w}

LinkAtFront(n) == head' = n /\ next' = [next EXCEPT ![n] = head] \* FAULT: a stack
\* FAULT: tells an empty queue by its tail, which task_queue_gettask never resets.
LinkByTail(n) ==
  IF tail = NULL THEN head' = n /\ UNCHANGED next
  ELSE next' = [next EXCEPT ![tail] = n] /\ UNCHANGED head

\* The link a node gets at the back of the list.
Link(n) ==
  IF head = NULL THEN head' = n /\ UNCHANGED next
  ELSE next' = [next EXCEPT ![tail] = n] /\ UNCHANGED head

-----------------------------------------------------------------------------
(* Producers: task_queue_createtask and task_queue_enqueue.                *)

\* The task and its node are allocated and filled in before the lock.
Create(p) ==
  /\ At(p, "idle")
  /\ \E t \in Tasks \ made, n \in Nodes \ allocated :
       /\ made' = made \cup {t}
       /\ allocated' = allocated \cup {n}
       /\ task' = [task EXCEPT ![n] = t]
       /\ next' = [next EXCEPT ![n] = NULL]
       /\ node' = [node EXCEPT ![p] = n]
  /\ Goto(p, "lock")
  /\ UNCHANGED <<head, tail, chain, mutex, waiters, held, freed, shutdown>>

\* FAULT: a woken worker does not test the queue again.
AcquireOnce(t) ==
  /\ At(t, "lock") \/ At(t, "sleep")
  /\ t \notin waiters
  /\ mutex = NULL
  /\ mutex' = t
  /\ Goto(t, IF pc[t] = "sleep" THEN "bail" ELSE IF t \in Workers THEN "check" ELSE "insert")
  /\ UNCHANGED <<heap, waiters, node, held, made, freed, shutdown>>

\* pthread_mutex_lock, also inside pthread_cond_wait once it was woken.
Acquire(t) ==
  /\ At(t, "lock") \/ At(t, "sleep")
  /\ t \notin waiters
  /\ mutex = NULL
  /\ mutex' = t
  /\ Goto(t, IF t \in Workers THEN "check" ELSE "insert")
  /\ UNCHANGED <<heap, waiters, node, held, made, freed, shutdown>>

\* The rest of task_queue_enqueue: link, signal, unlock.
Insert(p) ==
  /\ At(p, "insert")
  /\ Link(node[p])
  /\ tail' = node[p]
  /\ chain' = Append(chain, node[p])
  /\ Signal
  /\ mutex' = NULL
  /\ node' = [node EXCEPT ![p] = NULL]
  /\ Goto(p, "idle")
  /\ UNCHANGED <<task, allocated, held, made, freed, shutdown>>

-----------------------------------------------------------------------------
(* Workers: server_thread_exec and task_queue_gettask.                     *)

\* FAULT: while (true).
LoopForever(w) ==
  /\ At(w, "loop")
  /\ Goto(w, "lock")
  /\ UNCHANGED <<heap, mutex, waiters, node, held, made, freed, shutdown>>

\* The test of the while loop in server_thread_exec.
LoopTest(w) ==
  /\ At(w, "loop")
  /\ Goto(w, IF active THEN "lock" ELSE "exit")
  /\ UNCHANGED <<heap, mutex, waiters, node, held, made, freed, shutdown>>

\* The test of the wait loop: f = q->head, then the flag if f is NULL.
Check(w) ==
  /\ At(w, "check")
  /\ node' = [node EXCEPT ![w] = head]
  /\ Goto(w, IF head = NULL /\ active THEN "wait" ELSE "bail")
  /\ UNCHANGED <<heap, mutex, waiters, held, made, freed, shutdown>>

Wait(w) ==
  /\ At(w, "wait")
  /\ Block(w)
  /\ Goto(w, "sleep")
  /\ UNCHANGED <<heap, node, held, made, freed, shutdown>>

\* POSIX allows pthread_cond_wait to return without a signal.
SpuriousWakeup(w) ==
  /\ Alive
  /\ w \in waiters
  /\ waiters' = waiters \ {w}
  /\ UNCHANGED <<heap, mutex, pc, node, held, made, freed, shutdown>>

\* The server is no longer active: unlock and return NULL.
Bail(w) ==
  /\ At(w, "bail")
  /\ ~active
  /\ mutex' = NULL
  /\ node' = [node EXCEPT ![w] = NULL]
  /\ Goto(w, "loop")
  /\ UNCHANGED <<heap, waiters, held, made, freed, shutdown>>

\* Unlink the first node, free it (through f), unlock, return its task.
Dequeue(w) ==
  /\ At(w, "bail")
  /\ active
  /\ held' = [held EXCEPT ![w] = task[head]]
  /\ head' = next[head]
  /\ allocated' = allocated \ {node[w]}
  /\ chain' = Tail(chain)
  /\ mutex' = NULL
  /\ node' = [node EXCEPT ![w] = NULL]
  /\ Goto(w, "run")
  /\ UNCHANGED <<tail, next, task, waiters, made, freed, shutdown>>

\* FAULT: the task is not freed.
RunWithoutFree(w) ==
  /\ At(w, "run")
  /\ held' = [held EXCEPT ![w] = NULL]
  /\ Goto(w, "loop")
  /\ UNCHANGED <<heap, mutex, waiters, node, made, freed, shutdown>>

\* client_process_task, then free.
Run(w) ==
  /\ At(w, "run")
  /\ freed' = freed \cup {held[w]}
  /\ held' = [held EXCEPT ![w] = NULL]
  /\ Goto(w, "loop")
  /\ UNCHANGED <<heap, mutex, waiters, node, made, shutdown>>

-----------------------------------------------------------------------------
(* server_close, on the thread that took the signal.                       *)

Handler(from, to) == Alive /\ closing = from /\ closing' = to

\* The listening socket is closed.
Interrupt(t) ==
  /\ Handler("no", "flag")
  /\ pc[t] # "exit"
  /\ closer' = t
  /\ UNCHANGED <<heap, mutex, waiters, active, pc, node, held, made, freed>>

\* A second signal: the descriptor is closed already, so close() fails, unless a
\* connection has got its number (ServerProcess).
InterruptAgain ==
  /\ MaxSignals > 1
  /\ closing \notin {"no", "exited"}
  /\ closing' = "exited"
  /\ UNCHANGED <<heap, mutex, waiters, active, closer, pc, node, held, made, freed>>

ClearFlag ==
  /\ Handler("flag", "broadcast")
  /\ active' = FALSE
  /\ UNCHANGED <<heap, mutex, waiters, closer, pc, node, held, made, freed>>

Broadcast ==
  /\ Handler("broadcast", "join")
  /\ waiters' = {}
  /\ UNCHANGED <<heap, mutex, active, closer, pc, node, held, made, freed>>

\* FAULT: the queue is destroyed without waiting for the pool.
JoinNobody ==
  /\ Handler("join", "sweep")
  /\ UNCHANGED <<heap, mutex, waiters, active, closer, pc, node, held, made, freed>>

\* pthread_join of every worker; joining oneself fails and is ignored.
Join ==
  /\ Handler("join", "sweep")
  /\ \A w \in Workers \ {closer} : pc[w] = "exit"
  /\ UNCHANGED <<heap, mutex, waiters, active, closer, pc, node, held, made, freed>>

\* client_list_destroy returns, or waits for ever for a mutex that the interrupted
\* thread holds, or frees a client twice (ClientList).
DestroyList ==
  /\ Alive /\ closing = "sweep"
  /\ closing' \in {"destroy", "stuck", "exited"}
  /\ UNCHANGED <<heap, mutex, waiters, active, closer, pc, node, held, made, freed>>

\* task_queue_destroy: lock, free the nodes one by one, unlock.
DestroyLock ==
  /\ Handler("destroy", "drain")
  /\ mutex = NULL
  /\ mutex' = closer
  /\ UNCHANGED <<heap, waiters, active, closer, pc, node, held, made, freed>>

DestroyNode ==
  /\ Handler("drain", "drain")
  /\ head # NULL
  /\ freed' = freed \cup {task[head]}
  /\ allocated' = allocated \ {head}
  /\ head' = next[head]
  /\ chain' = Tail(chain)
  /\ UNCHANGED <<tail, next, task, mutex, waiters, active, closer, pc, node, held, made>>

DestroyUnlock ==
  /\ Handler("drain", "done")
  /\ head = NULL
  /\ mutex' = NULL
  /\ UNCHANGED <<heap, waiters, active, closer, pc, node, held, made, freed>>

-----------------------------------------------------------------------------
WorkerStep(w) ==
  LoopTest(w) \/ Acquire(w) \/ Check(w) \/ Wait(w) \/ Bail(w) \/ Dequeue(w) \/ Run(w)

ProducerStep(p) == Acquire(p) \/ Insert(p)

CloseStep ==
  ClearFlag \/ Broadcast \/ Join \/ DestroyList \/ DestroyLock \/ DestroyNode \/ DestroyUnlock

Next ==
  \/ \E w \in Workers : WorkerStep(w) \/ SpuriousWakeup(w)
  \/ \E p \in Producers : Create(p) \/ ProducerStep(p)
  \/ \E t \in SignalTargets : Interrupt(t)
  \/ CloseStep
  \/ InterruptAgain

Spec == Init /\ [][Next]_vars

\* The scheduler runs every thread that can run.  Nobody has to create a
\* task, send a signal or be woken without cause.
Fairness ==
  /\ \A w \in Workers : WF_vars(WorkerStep(w))
  /\ \A p \in Producers : WF_vars(ProducerStep(p))
  /\ WF_vars(CloseStep)

FairSpec == Spec /\ Fairness

-----------------------------------------------------------------------------
(* Properties.                                                             *)

\* The heap, the locks and the program counters have their types.
TypeOK ==
  /\ head \in Nodes \cup {NULL} /\ tail \in Nodes \cup {NULL}
  /\ next \in [Nodes -> Nodes \cup {NULL}]
  /\ task \in [Nodes -> Tasks \cup {NULL}]
  /\ allocated \in SUBSET Nodes
  /\ chain \in Seq(Nodes)
  /\ mutex \in Threads \cup {NULL}
  /\ waiters \in SUBSET Workers
  /\ active \in BOOLEAN
  /\ pc \in [Threads -> WorkerLabels \cup ProducerLabels]
  /\ \A w \in Workers : pc[w] \in WorkerLabels
  /\ \A p \in Producers : pc[p] \in ProducerLabels
  /\ node \in [Threads -> Nodes \cup {NULL}]
  /\ held \in [Workers -> Tasks \cup {NULL}]
  /\ made \in SUBSET Tasks /\ freed \in SUBSET Tasks
  /\ closer \in Threads \cup {NULL}
  /\ closing \in {"no", "flag", "broadcast", "join", "sweep", "destroy", "drain", "done",
                 "stuck", "exited"}

\* The pointers form one acyclic list of allocated nodes that begins at head
\* and ends at tail.  gettask never resets a tail that dangles, so this rests
\* on enqueue looking at head alone to tell an empty queue.
Linked ==
  /\ \A i, j \in DOMAIN chain : chain[i] = chain[j] => i = j
  /\ Range(chain) \subseteq allocated
  /\ head = IF chain = <<>> THEN NULL ELSE chain[1]
  /\ chain # <<>> => tail = chain[Len(chain)]
  /\ \A i \in DOMAIN chain :
       next[chain[i]] = IF i = Len(chain) THEN NULL ELSE chain[i + 1]

\* Where a worker dereferences q->head there is a node, and the f it frees
\* is that node, although the flag was read again since the queue was tested.
DequeueSafe ==
  \A w \in Workers : pc[w] = "bail" /\ active => head # NULL /\ node[w] = head

\* What the threads' program counters say of the mutex, the flag and their
\* own variables.  With Linked and DequeueSafe this makes TypeOK inductive.
Critical == {"check", "wait", "bail", "insert"}

MutexInv ==
  /\ \A t \in Threads : pc[t] \in Critical => mutex = t
  /\ closing = "drain" => mutex = closer /\ pc[closer] \notin Critical

FlagInv ==
  /\ closing \in {"no", "flag"} => active
  /\ closing \notin {"no", "flag", "exited"} => ~active
  /\ closing # "no" => closer \in Threads

LocalInv ==
  /\ \A w \in waiters : pc[w] = "sleep"
  /\ \A w \in Workers : pc[w] = "run" <=> held[w] # NULL
  /\ \A p \in Producers :
       IF pc[p] = "idle" THEN node[p] = NULL
       ELSE node[p] \in allocated \ Range(chain) /\ next[node[p]] = NULL
  /\ \A p, q \in Producers : node[p] = node[q] /\ node[p] # NULL => p = q
  /\ \A n \in allocated : task[n] \in made

IInv == TypeOK /\ MutexInv /\ FlagInv /\ LocalInv /\ Linked /\ DequeueSafe

Pending == {task[node[p]] : p \in {q \in Producers : node[q] # NULL}}
Queued == {task[n] : n \in Range(chain)}
Held == {held[w] : w \in Workers} \ {NULL}

\* Every task is in one place: about to be inserted, in the queue, with one
\* worker, or freed; none is lost, run twice or freed twice, and every
\* allocated node is in the queue or about to be inserted.
OneOwner ==
  /\ made = Pending \cup Queued \cup Held \cup freed
  /\ Pending \cap (Queued \cup Held \cup freed) = {}
  /\ Queued \cap (Held \cup freed) = {}
  /\ Held \cap freed = {}
  /\ \A m, n \in allocated : task[m] = task[n] => m = n
  /\ \A v, w \in Workers : held[v] = held[w] /\ held[v] # NULL => v = w
  /\ allocated = Range(chain) \cup ({node[p] : p \in Producers} \ {NULL})

\* The workers that will look at the queue before they block again.
OnTheWay == {w \in Workers : w \notin waiters /\ pc[w] \notin {"wait", "run", "exit"}}

\* One signal per enqueue is enough: while a worker sleeps on the condition
\* variable, as many workers are on their way to the queue as there are tasks
\* in it.  No task waits for a worker that was not woken.
WorkConserving ==
  active /\ waiters # {} => Len(chain) <= Cardinality(OnTheWay)

\* When task_queue_destroy has emptied the queue, the tasks that are not freed
\* are those a producer is about to insert and the one the interrupted worker
\* was processing: the pool was drained before the queue was.
ShutdownFreesAll ==
  closing = "drain" /\ head = NULL =>
    made \ freed \subseteq Pending \cup {held[w] : w \in Workers \cap {closer}}

\* The tasks in the list, oldest first.
Contents == [i \in DOMAIN chain |-> task[chain[i]]]

Fifo == INSTANCE TaskFifo WITH queued <- Contents, running <- held, open <- active

\* Seen without its pointers, the queue is the FIFO of TaskFifo.
FifoSpec == Fifo!Spec

\* With a fair scheduler it is a fair FIFO: a waiting task is taken.
FifoFairSpec == Fifo!FairSpec

\* How far server_close comes when no second signal is sent.  If no worker is
\* between its test of the flag and its wait when the handler broadcasts, and the
\* interrupted thread does not hold the mutex of the queue, then every worker leaves
\* its loop and the handler reaches client_list_destroy.  If that returns, and the
\* mutex is not held then, server_close returns.
CleanShutdown ==
  /\ (closing = "join" /\ mutex # closer /\ \A w \in Workers : pc[w] # "wait" /\ w \notin waiters)
       ~> closing = "sweep" /\ \A w \in Workers \ {closer} : pc[w] = "exit"
  /\ closing = "destroy" /\ mutex # closer ~> closing = "done"

\* server.c:190 says that the broadcast makes the threads leave their loop.
\* The interrupted thread does not hold the mutex here.
PoolShutsDown ==
  closing = "join" /\ mutex # closer ~> \A w \in Workers \ {closer} : pc[w] = "exit"
=============================================================================
