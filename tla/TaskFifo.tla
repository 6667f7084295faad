------------------------------ MODULE TaskFifo ------------------------------
(***************************************************************************)
(* What the task queue of the server promises to the threads that use it:  *)
(* tasks are taken in the order they were submitted, each by one worker,   *)
(* only while the server is open, and are freed once, after they have been *)
(* taken or when the closed queue is discarded.  There is no mutex, no     *)
(* condition variable and no pointer here; TaskQueue implements this.      *)
(***************************************************************************)
EXTENDS Sequences, Functions

CONSTANTS Tasks,    \* task_s structures, one per task_queue_createtask call
          Workers,  \* the threads of server.thread_pool
          NULL

VARIABLES queued,   \* the tasks waiting, oldest first
          running,  \* the task each worker is processing, or NULL
          freed,    \* the tasks whose memory has been released
          open      \* the SERVER_ACTIVE flag

vars == <<queued, running, freed, open>>

Init ==
  /\ queued = <<>>
  /\ running = [w \in Workers |-> NULL]
  /\ freed = {}
  /\ open = TRUE

\* A task enters at the back, and never twice.
Submit(t) ==
  /\ t \notin Range(queued) \cup Range(running) \cup freed
  /\ queued' = Append(queued, t)
  /\ UNCHANGED <<running, freed, open>>

\* An idle worker takes the oldest task.
Take(w) ==
  /\ open
  /\ queued # <<>>
  /\ running[w] = NULL
  /\ running' = [running EXCEPT ![w] = Head(queued)]
  /\ queued' = Tail(queued)
  /\ UNCHANGED <<freed, open>>

\* The worker that took a task frees it.
Finish(w) ==
  /\ running[w] # NULL
  /\ freed' = freed \cup {running[w]}
  /\ running' = [running EXCEPT ![w] = NULL]
  /\ UNCHANGED <<queued, open>>

Close ==
  /\ open
  /\ open' = FALSE
  /\ UNCHANGED <<queued, running, freed>>

\* Only a closed queue is thrown away, with the tasks still in it.
Discard ==
  /\ ~open
  /\ queued # <<>>
  /\ freed' = freed \cup {Head(queued)}
  /\ queued' = Tail(queued)
  /\ UNCHANGED <<running, open>>

Next ==
  \/ \E t \in Tasks : Submit(t)
  \/ \E w \in Workers : Take(w) \/ Finish(w)
  \/ Close
  \/ Discard

Spec == Init /\ [][Next]_vars

\* While the server is open and a worker is idle, a waiting task is taken.
FairSpec ==
  /\ Spec
  /\ WF_vars(\E w \in Workers : Take(w))
  /\ \A w \in Workers : WF_vars(Finish(w))
=============================================================================
