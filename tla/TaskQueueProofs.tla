-------------------------- MODULE TaskQueueProofs ---------------------------
(* Proofs about TaskQueue for any number of workers, producers, tasks and  *)
(* node addresses: the list of tasks, who owns a task, the pool of workers *)
(* and what it leaves behind when the server closes.                       *)
EXTENDS TaskQueue, SequencesExt, SequenceTheorems, FiniteSetTheorems, TLAPS

-----------------------------------------------------------------------------
(* What the operations of the linked lists do to the sequence of their     *)
(* elements.                                                               *)

\* What task_queue_enqueue does to a list.
LEMMA AppendFacts ==
  ASSUME NEW S, NEW s \in Seq(S), NEW e \in S
  PROVE  /\ Append(s, e) \in Seq(S)
         /\ Len(s) \in Nat /\ Len(Append(s, e)) = Len(s) + 1
         /\ DOMAIN s = 1 .. Len(s) /\ DOMAIN Append(s, e) = 1 .. Len(s) + 1
         /\ \A i \in 1 .. Len(s) : Append(s, e)[i] = s[i]
         /\ Append(s, e)[Len(s) + 1] = e
         /\ Range(Append(s, e)) = Range(s) \cup {e}
<1>1. /\ Append(s, e) \in Seq(S) /\ Len(Append(s, e)) = Len(s) + 1
      /\ \A i \in 1 .. Len(s) : Append(s, e)[i] = s[i]
      /\ Append(s, e)[Len(s) + 1] = e
  BY AppendProperties
<1>2. Len(s) \in Nat /\ DOMAIN s = 1 .. Len(s) /\ DOMAIN Append(s, e) = 1 .. Len(s) + 1
  BY <1>1, LenProperties
<1>3. Range(Append(s, e)) = Range(s) \cup {e}
  <2>1. 1 .. Len(s) + 1 = (1 .. Len(s)) \cup {Len(s) + 1}
    BY <1>2
  <2> HIDE <1>2
  <2>2. Range(Append(s, e)) = {Append(s, e)[i] : i \in 1 .. Len(s)} \cup {Append(s, e)[Len(s) + 1]}
    BY <1>2, <2>1 DEF Range
  <2> QED
    BY <1>1, <1>2, <2>2 DEF Range
<1> QED
  BY <1>1, <1>2, <1>3

\* What task_queue_gettask does to a list that is not empty.
LEMMA TailFacts ==
  ASSUME NEW S, NEW s \in Seq(S), s # <<>>
  PROVE  /\ Head(s) \in S /\ 1 \in DOMAIN s /\ Head(s) = s[1]
         /\ Tail(s) \in Seq(S) /\ Len(Tail(s)) = Len(s) - 1 /\ Len(s) \in Nat
         /\ DOMAIN s = 1 .. Len(s) /\ DOMAIN Tail(s) = 1 .. Len(s) - 1
         /\ \A i \in 1 .. Len(s) - 1 : i + 1 \in 1 .. Len(s) /\ Tail(s)[i] = s[i + 1]
<1>1. Len(s) \in Nat /\ Len(s) # 0 /\ DOMAIN s = 1 .. Len(s)
  BY LenProperties, EmptySeq
<1>2. Head(s) = s[1]
  OBVIOUS
<1>3. Head(s) \in S /\ Tail(s) \in Seq(S) /\ Len(Tail(s)) = Len(s) - 1
      /\ \A i \in 1 .. Len(Tail(s)) : Tail(s)[i] = s[i + 1]
  BY HeadTailProperties
<1>4. DOMAIN Tail(s) = 1 .. Len(Tail(s))
  BY <1>3, LenProperties
<1> QED
  BY <1>1, <1>2, <1>3, <1>4

\* A list that something was appended to is not empty.
LEMMA AppendNotEmpty ==
  ASSUME NEW S, NEW s \in Seq(S), NEW e \in S
  PROVE  Append(s, e) # <<>>
  BY AppendProperties

\* The elements of a list are its first and those of the rest.
LEMMA TailRange ==
  ASSUME NEW S, NEW s \in Seq(S), s # <<>>
  PROVE  Len(s) \in Nat \ {0} /\ Range(s) = Range(Tail(s)) \cup {s[1]}
<1>1. /\ Len(s) \in Nat /\ DOMAIN s = 1 .. Len(s)
      /\ DOMAIN Tail(s) = 1 .. Len(s) - 1
      /\ \A i \in 1 .. Len(s) - 1 : Tail(s)[i] = s[i + 1]
  BY TailFacts
<1>2. Len(s) # 0
  BY EmptySeq
<1>3. ASSUME NEW i \in 1 .. Len(s), i # 1 PROVE s[i] \in Range(Tail(s))
  <2>1. i - 1 \in 1 .. Len(s) - 1 /\ (i - 1) + 1 = i
    BY <1>1, <1>3
  <2> QED
    BY <1>1, <2>1 DEF Range
<1>4. \A i \in 1 .. Len(s) - 1 : Tail(s)[i] \in Range(s)
  BY <1>1 DEF Range
<1>5. 1 \in DOMAIN s
  BY <1>1, <1>2
<1> QED
  BY <1>1, <1>2, <1>3, <1>4, <1>5 DEF Range

-----------------------------------------------------------------------------

\* Linking a new node behind the last one keeps the list well formed.
LEMMA LinkKeepsLinked ==
  ASSUME TypeOK, Linked,
         NEW n \in allocated, n \notin Range(chain), next[n] = NULL,
         Link(n), tail' = n, chain' = Append(chain, n), allocated' = allocated
  PROVE  /\ Linked'
         /\ chain' \in Seq(Nodes)
         /\ Range(chain') = Range(chain) \cup {n}
         /\ head' \in Nodes
         /\ next' \in [Nodes -> Nodes \cup {NULL}]
         /\ \A m \in Nodes : m \notin Range(chain) => next'[m] = next[m]
<1>1. n \in Nodes /\ chain \in Seq(Nodes) /\ NULL \notin Nodes
  BY QueueAssumption DEF TypeOK, QueueAssumption
<1>2. /\ chain' \in Seq(Nodes)
      /\ chain' # <<>>
      /\ Len(chain') = Len(chain) + 1
      /\ DOMAIN chain' = 1 .. (Len(chain) + 1)
      /\ \A i \in 1 .. Len(chain) : chain'[i] = chain[i]
      /\ chain'[Len(chain) + 1] = n
      /\ Range(chain') = Range(chain) \cup {n}
  BY <1>1, AppendFacts, AppendNotEmpty
<1>3. DOMAIN chain = 1 .. Len(chain) /\ Len(chain) \in Nat
  BY <1>1, LenProperties
<1>4. \A i \in 1 .. Len(chain) : chain[i] # n /\ chain[i] \in Nodes
  BY <1>1, <1>3, ElementOfSeq DEF Range
<1>5. \A i, j \in DOMAIN chain' : chain'[i] = chain'[j] => i = j
  BY <1>2, <1>3, <1>4 DEF Linked
<1>6. CASE chain = <<>>
  <2>1. head' = n /\ next' = next /\ Len(chain) = 0
    BY <1>1, <1>6 DEF Linked, Link
  <2> QED
    BY <1>1, <1>2, <1>5, <2>1 DEF Linked, TypeOK
<1>7. CASE chain # <<>>
  <2>1. /\ head' = head
        /\ next' = [next EXCEPT ![tail] = n]
        /\ Len(chain) \in DOMAIN chain
        /\ tail = chain[Len(chain)]
        /\ head = chain[1]
    BY <1>1, <1>3, <1>4, <1>7, EmptySeq DEF Linked, Link
  <2>2. ASSUME NEW i \in 1 .. (Len(chain) - 1)
        PROVE  next'[chain[i]] = chain[i + 1]
    <3>0. Len(chain) \in Nat
      BY <1>3
    <3>1. i \in 1 .. Len(chain) /\ i # Len(chain)
      BY <3>0
    <3>2. i \in DOMAIN chain /\ chain[i] \in Nodes
      BY <1>3, <1>4, <3>1
    <3>3. chain[i] # tail /\ next[chain[i]] = chain[i + 1]
      BY <2>1, <3>1, <3>2 DEF Linked
    <3> QED
      BY <2>1, <3>2, <3>3 DEF TypeOK
  <2>3. next'[tail] = n /\ next'[n] = NULL /\ tail \in Range(chain)
    BY <1>1, <1>3, <1>4, <2>1 DEF TypeOK, Range
  <2>4. \A i \in DOMAIN chain' :
          next'[chain'[i]] = IF i = Len(chain') THEN NULL ELSE chain'[i + 1]
    BY <1>2, <1>3, <2>1, <2>2, <2>3
  <2>5. head' = chain'[1]
    BY <1>2, <1>3, <2>1
  <2>6. next' \in [Nodes -> Nodes \cup {NULL}] /\ \A m \in Nodes \ {tail} : next'[m] = next[m]
    BY <1>1, <2>1 DEF TypeOK
  <2> QED
    BY <1>1, <1>2, <1>3, <1>4, <1>5, <2>1, <2>3, <2>4, <2>5, <2>6 DEF Linked
<1> QED
  BY <1>6, <1>7

\* Unlinking and freeing the first node keeps the list well formed.
LEMMA UnlinkKeepsLinked ==
  ASSUME TypeOK, Linked, head # NULL,
         head' = next[head], chain' = Tail(chain), allocated' = allocated \ {head},
         UNCHANGED <<tail, next>>
  PROVE  /\ Linked'
         /\ head \in Nodes
         /\ head \in Range(chain)
         /\ chain' \in Seq(Nodes)
         /\ Range(chain') = Range(chain) \ {head}
         /\ Head(chain) = head
         /\ chain # <<>>
<1>1. chain \in Seq(Nodes) /\ chain # <<>>
  BY DEF TypeOK, Linked
<1>2. /\ chain' \in Seq(Nodes)
      /\ Len(chain) \in Nat \ {0}
      /\ Len(chain') = Len(chain) - 1
      /\ DOMAIN chain = 1 .. Len(chain)
      /\ DOMAIN chain' = 1 .. (Len(chain) - 1)
      /\ \A i \in 1 .. (Len(chain) - 1) : chain'[i] = chain[i + 1]
      /\ Range(chain) = Range(chain') \cup {chain[1]}
      /\ Head(chain) = chain[1]
  BY <1>1, TailFacts, TailRange
<1>3. head = chain[1] /\ 1 \in DOMAIN chain /\ head \in Nodes
  BY <1>1, <1>2, ElementOfSeq DEF Linked
<1>4. chain[1] \notin Range(chain')
  BY <1>2, <1>3 DEF Linked, Range
<1>5. \A i, j \in DOMAIN chain' : chain'[i] = chain'[j] => i = j
  BY <1>2 DEF Linked
<1>6. head' = IF chain' = <<>> THEN NULL ELSE chain'[1]
  <2>1. CASE Len(chain) = 1
    BY <1>2, <1>3, <2>1, EmptySeq DEF Linked
  <2>2. CASE Len(chain) # 1
    BY <1>2, <1>3, <2>2 DEF Linked
  <2> QED
    BY <2>1, <2>2
<1>7. chain' # <<>> => tail' = chain'[Len(chain')]
  <2>1. SUFFICES ASSUME chain' # <<>> PROVE tail' = chain'[Len(chain')]
    OBVIOUS
  <2>2. Len(chain') \in 1 .. (Len(chain) - 1)
    BY <1>2, <2>1, EmptySeq
  <2> QED
    BY <1>1, <1>2, <2>2 DEF Linked
<1>8. \A i \in DOMAIN chain' :
        next'[chain'[i]] = IF i = Len(chain') THEN NULL ELSE chain'[i + 1]
  BY <1>2 DEF Linked
<1> QED
  BY <1>1, <1>2, <1>3, <1>4, <1>5, <1>6, <1>7, <1>8 DEF Linked

\* Every step keeps the inductive invariant.
LEMMA StepInv == IInv /\ [Next]_vars => IInv'
<1> SUFFICES ASSUME IInv, [Next]_vars PROVE IInv'
  OBVIOUS
<1> USE QueueAssumption DEF QueueAssumption, IInv
<1>1. ASSUME NEW p \in Producers, Create(p) PROVE IInv'
  <2>1. TypeOK'
    BY <1>1 DEF Create, At, Runs, Alive, Goto, TypeOK, Threads, WorkerLabels,
           ProducerLabels, heap, shutdown
  <2>2. MutexInv' /\ FlagInv'
    BY <1>1 DEF Create, At, Runs, Alive, Goto, MutexInv, FlagInv, Critical,
           TypeOK, Threads, WorkerLabels, ProducerLabels, heap, shutdown
  <2>3. LocalInv'
    BY <1>1 DEF Create, At, Runs, Alive, Goto, LocalInv, TypeOK, Threads,
           WorkerLabels, ProducerLabels, Linked, Range, heap, shutdown
  <2>4. Linked'
    BY <1>1 DEF Create, At, Runs, Alive, Goto, Linked, TypeOK, Range, heap,
           shutdown
  <2>5. DequeueSafe'
    BY <1>1 DEF Create, At, Runs, Alive, Goto, DequeueSafe, MutexInv,
           Critical, TypeOK, Threads, heap, shutdown
  <2> QED
    BY <2>1, <2>2, <2>3, <2>4, <2>5 DEF IInv
<1>2. ASSUME NEW t \in Threads, Acquire(t) PROVE IInv'
  <2>1. TypeOK'
    BY <1>2 DEF Acquire, At, Runs, Alive, Goto, TypeOK, Threads,
           WorkerLabels, ProducerLabels, heap, shutdown
  <2>2. MutexInv' /\ FlagInv'
    BY <1>2 DEF Acquire, At, Runs, Alive, Goto, MutexInv, FlagInv, Critical,
           TypeOK, Threads, WorkerLabels, ProducerLabels, heap, shutdown
  <2>3. LocalInv'
    BY <1>2 DEF Acquire, At, Runs, Alive, Goto, LocalInv, TypeOK, Threads,
           WorkerLabels, ProducerLabels, heap, shutdown
  <2>4. Linked'
    BY <1>2 DEF Acquire, At, Runs, Alive, Goto, Linked, TypeOK, heap,
           shutdown
  <2>5. DequeueSafe'
    BY <1>2 DEF Acquire, At, Runs, Alive, Goto, DequeueSafe, MutexInv,
           Critical, TypeOK, Threads, heap, shutdown
  <2> QED
    BY <2>1, <2>2, <2>3, <2>4, <2>5 DEF IInv
<1>3. ASSUME NEW p \in Producers, Insert(p) PROVE IInv'
  <2>1. /\ node[p] \in allocated /\ node[p] \notin Range(chain)
        /\ next[node[p]] = NULL /\ node[p] \in Nodes /\ pc[p] = "insert"
    BY <1>3 DEF LocalInv, Insert, At, TypeOK
  <2>2. /\ Linked'
        /\ chain' \in Seq(Nodes)
        /\ Range(chain') = Range(chain) \cup {node[p]}
        /\ head' \in Nodes
        /\ next' \in [Nodes -> Nodes \cup {NULL}]
        /\ \A m \in Nodes : m \notin Range(chain) => next'[m] = next[m]
    BY <1>3, <2>1, LinkKeepsLinked DEF Insert
  <2>3. TypeOK'
    BY <1>3, <2>1, <2>2 DEF Insert, Signal, At, Goto, shutdown, TypeOK, Threads,
           ProducerLabels, WorkerLabels
  <2>4. MutexInv' /\ FlagInv'
    BY <1>3, <2>1 DEF Insert, At, Runs, Alive, Goto, shutdown,
           MutexInv, FlagInv, Critical, TypeOK, Threads
  <2>5. LocalInv'
    BY <1>3, <2>1, <2>2 DEF Insert, Signal, At, Goto, LocalInv, TypeOK, Threads
  <2>6. DequeueSafe'
    BY <1>3, <2>1 DEF Insert, At, Goto, shutdown, DequeueSafe, MutexInv, Critical, TypeOK, Threads
  <2> QED
    BY <2>2, <2>3, <2>4, <2>5, <2>6 DEF IInv
<1>4. ASSUME NEW w \in Workers, LoopTest(w) PROVE IInv'
  <2>1. TypeOK'
    BY <1>4 DEF LoopTest, At, Runs, Alive, Goto, TypeOK, Threads,
           WorkerLabels, ProducerLabels, heap, shutdown
  <2>2. MutexInv' /\ FlagInv'
    BY <1>4 DEF LoopTest, At, Runs, Alive, Goto, MutexInv, FlagInv, Critical,
           TypeOK, Threads, WorkerLabels, ProducerLabels, heap, shutdown
  <2>3. LocalInv'
    BY <1>4 DEF LoopTest, At, Runs, Alive, Goto, LocalInv, TypeOK, Threads,
           WorkerLabels, ProducerLabels, heap, shutdown
  <2>4. Linked'
    BY <1>4 DEF LoopTest, At, Runs, Alive, Goto, Linked, TypeOK, heap,
           shutdown
  <2>5. DequeueSafe'
    BY <1>4 DEF LoopTest, At, Runs, Alive, Goto, DequeueSafe, MutexInv,
           Critical, TypeOK, Threads, heap, shutdown
  <2> QED
    BY <2>1, <2>2, <2>3, <2>4, <2>5 DEF IInv
<1>5. ASSUME NEW w \in Workers, Check(w) PROVE IInv'
  <2>1. TypeOK'
    BY <1>5 DEF Check, At, Runs, Alive, Goto, TypeOK, Threads, WorkerLabels,
           ProducerLabels, heap, shutdown
  <2>2. MutexInv' /\ FlagInv'
    BY <1>5 DEF Check, At, Runs, Alive, Goto, MutexInv, FlagInv, Critical,
           TypeOK, Threads, WorkerLabels, ProducerLabels, heap, shutdown
  <2>3. LocalInv'
    BY <1>5 DEF Check, At, Runs, Alive, Goto, LocalInv, TypeOK, Threads,
           WorkerLabels, ProducerLabels, heap, shutdown
  <2>4. Linked'
    BY <1>5 DEF Check, At, Runs, Alive, Goto, Linked, TypeOK, heap, shutdown
  <2>5. DequeueSafe'
    BY <1>5 DEF Check, At, Runs, Alive, Goto, DequeueSafe, MutexInv,
           Critical, TypeOK, Threads, heap, shutdown
  <2> QED
    BY <2>1, <2>2, <2>3, <2>4, <2>5 DEF IInv
<1>6. ASSUME NEW w \in Workers, Wait(w) PROVE IInv'
  <2>1. TypeOK'
    BY <1>6 DEF Wait, Block, At, Runs, Alive, Goto, TypeOK, Threads,
           WorkerLabels, ProducerLabels, heap, shutdown
  <2>2. MutexInv' /\ FlagInv'
    BY <1>6 DEF Wait, Block, At, Runs, Alive, Goto, MutexInv, FlagInv,
           Critical, TypeOK, Threads, WorkerLabels, ProducerLabels, heap,
           shutdown
  <2>3. LocalInv'
    BY <1>6 DEF Wait, Block, At, Runs, Alive, Goto, LocalInv, TypeOK,
           Threads, WorkerLabels, ProducerLabels, heap, shutdown
  <2>4. Linked'
    BY <1>6 DEF Wait, Block, At, Runs, Alive, Goto, Linked, TypeOK, heap,
           shutdown
  <2>5. DequeueSafe'
    BY <1>6 DEF Wait, Block, At, Runs, Alive, Goto, DequeueSafe, MutexInv,
           Critical, TypeOK, Threads, heap, shutdown
  <2> QED
    BY <2>1, <2>2, <2>3, <2>4, <2>5 DEF IInv
<1>7. ASSUME NEW w \in Workers, SpuriousWakeup(w) PROVE IInv'
  <2>1. TypeOK'
    BY <1>7 DEF SpuriousWakeup, TypeOK, Threads, WorkerLabels,
           ProducerLabels, heap, shutdown
  <2>2. MutexInv' /\ FlagInv'
    BY <1>7 DEF SpuriousWakeup, MutexInv, FlagInv, Critical, TypeOK, Threads,
           WorkerLabels, ProducerLabels, heap, shutdown
  <2>3. LocalInv'
    BY <1>7 DEF SpuriousWakeup, LocalInv, TypeOK, Threads, WorkerLabels,
           ProducerLabels, heap, shutdown
  <2>4. Linked'
    BY <1>7 DEF SpuriousWakeup, Linked, TypeOK, heap, shutdown
  <2>5. DequeueSafe'
    BY <1>7 DEF SpuriousWakeup, DequeueSafe, MutexInv, Critical, TypeOK,
           Threads, heap, shutdown
  <2> QED
    BY <2>1, <2>2, <2>3, <2>4, <2>5 DEF IInv
<1>8. ASSUME NEW w \in Workers, Bail(w) PROVE IInv'
  <2>1. TypeOK'
    BY <1>8 DEF Bail, At, Runs, Alive, Goto, TypeOK, Threads, WorkerLabels,
           ProducerLabels, heap, shutdown
  <2>2. MutexInv' /\ FlagInv'
    BY <1>8 DEF Bail, At, Runs, Alive, Goto, MutexInv, FlagInv, Critical,
           TypeOK, Threads, WorkerLabels, ProducerLabels, heap, shutdown
  <2>3. LocalInv'
    BY <1>8 DEF Bail, At, Runs, Alive, Goto, LocalInv, TypeOK, Threads,
           WorkerLabels, ProducerLabels, heap, shutdown
  <2>4. Linked'
    BY <1>8 DEF Bail, At, Runs, Alive, Goto, Linked, TypeOK, heap, shutdown
  <2>5. DequeueSafe'
    BY <1>8 DEF Bail, At, Runs, Alive, Goto, DequeueSafe, MutexInv, Critical,
           TypeOK, Threads, heap, shutdown
  <2> QED
    BY <2>1, <2>2, <2>3, <2>4, <2>5 DEF IInv
<1>9. ASSUME NEW w \in Workers, Dequeue(w) PROVE IInv'
  <2>1. pc[w] = "bail" /\ head # NULL /\ node[w] = head /\ mutex = w
    BY <1>9 DEF Dequeue, At, DequeueSafe, MutexInv, Critical, Threads
  <2>2. /\ Linked' /\ chain' \in Seq(Nodes)
        /\ head \in Nodes /\ head \in Range(chain)
        /\ Range(chain') = Range(chain) \ {head}
    BY <1>9, <2>1, UnlinkKeepsLinked DEF Dequeue
  <2>3. task[head] \in Tasks
    BY <2>2 DEF LocalInv, Linked, TypeOK
  <2>4. TypeOK'
    BY <1>9, <2>2, <2>3 DEF Dequeue, Goto, shutdown, TypeOK, Threads, WorkerLabels, ProducerLabels
  <2>5. MutexInv' /\ FlagInv'
    BY <1>9, <2>1 DEF Dequeue, At, Runs, Alive, Goto, shutdown,
           MutexInv, FlagInv, Critical, TypeOK, Threads
  <2>6. LocalInv'
    BY <1>9, <2>1, <2>2, <2>3 DEF Dequeue, At, Goto, LocalInv, TypeOK, Threads
  <2>7. DequeueSafe'
    BY <1>9, <2>1 DEF Dequeue, At, Goto, shutdown, DequeueSafe, MutexInv, Critical, TypeOK, Threads
  <2> QED
    BY <2>2, <2>4, <2>5, <2>6, <2>7 DEF IInv
<1>10. ASSUME NEW w \in Workers, Run(w) PROVE IInv'
  <2>1. TypeOK'
    BY <1>10 DEF Run, At, Runs, Alive, Goto, TypeOK, Threads, WorkerLabels,
           ProducerLabels, LocalInv, heap, shutdown
  <2>2. MutexInv' /\ FlagInv'
    BY <1>10 DEF Run, At, Runs, Alive, Goto, MutexInv, FlagInv, Critical,
           TypeOK, Threads, WorkerLabels, ProducerLabels, heap, shutdown
  <2>3. LocalInv'
    BY <1>10 DEF Run, At, Runs, Alive, Goto, LocalInv, TypeOK, Threads,
           WorkerLabels, ProducerLabels, heap, shutdown
  <2>4. Linked'
    BY <1>10 DEF Run, At, Runs, Alive, Goto, Linked, TypeOK, heap, shutdown
  <2>5. DequeueSafe'
    BY <1>10 DEF Run, At, Runs, Alive, Goto, DequeueSafe, MutexInv, Critical,
           TypeOK, Threads, heap, shutdown
  <2> QED
    BY <2>1, <2>2, <2>3, <2>4, <2>5 DEF IInv
<1>11. ASSUME NEW t \in SignalTargets, Interrupt(t) PROVE IInv'
  <2>1. TypeOK'
    BY <1>11 DEF Interrupt, Handler, TypeOK, Threads, WorkerLabels,
           ProducerLabels, heap, shutdown
  <2>2. MutexInv' /\ FlagInv'
    BY <1>11 DEF Interrupt, Handler, MutexInv, FlagInv, Critical, TypeOK,
           Threads, WorkerLabels, ProducerLabels, heap, shutdown
  <2>3. LocalInv'
    BY <1>11 DEF Interrupt, Handler, LocalInv, TypeOK, Threads, WorkerLabels,
           ProducerLabels, heap, shutdown
  <2>4. Linked'
    BY <1>11 DEF Interrupt, Handler, Linked, TypeOK, heap, shutdown
  <2>5. DequeueSafe'
    BY <1>11 DEF Interrupt, Handler, DequeueSafe, MutexInv, Critical, TypeOK,
           Threads, heap, shutdown
  <2> QED
    BY <2>1, <2>2, <2>3, <2>4, <2>5 DEF IInv
<1>12. CASE InterruptAgain
  <2>1. TypeOK'
    BY <1>12 DEF InterruptAgain, TypeOK, Threads, WorkerLabels,
           ProducerLabels, heap, shutdown
  <2>2. MutexInv' /\ FlagInv'
    BY <1>12 DEF InterruptAgain, MutexInv, FlagInv, Critical, TypeOK,
           Threads, WorkerLabels, ProducerLabels, heap, shutdown
  <2>3. LocalInv'
    BY <1>12 DEF InterruptAgain, LocalInv, TypeOK, Threads, WorkerLabels,
           ProducerLabels, heap, shutdown
  <2>4. Linked'
    BY <1>12 DEF InterruptAgain, Linked, TypeOK, heap, shutdown
  <2>5. DequeueSafe'
    BY <1>12 DEF InterruptAgain, DequeueSafe, MutexInv, Critical, TypeOK,
           Threads, heap, shutdown
  <2> QED
    BY <2>1, <2>2, <2>3, <2>4, <2>5 DEF IInv
<1>13. CASE ClearFlag
  <2>1. TypeOK'
    BY <1>13 DEF ClearFlag, Handler, TypeOK, Threads, WorkerLabels,
           ProducerLabels, heap, shutdown
  <2>2. MutexInv' /\ FlagInv'
    BY <1>13 DEF ClearFlag, Handler, MutexInv, FlagInv, Critical, TypeOK,
           Threads, WorkerLabels, ProducerLabels, heap, shutdown
  <2>3. LocalInv'
    BY <1>13 DEF ClearFlag, Handler, LocalInv, TypeOK, Threads, WorkerLabels,
           ProducerLabels, heap, shutdown
  <2>4. Linked'
    BY <1>13 DEF ClearFlag, Handler, Linked, TypeOK, heap, shutdown
  <2>5. DequeueSafe'
    BY <1>13 DEF ClearFlag, Handler, DequeueSafe, MutexInv, Critical, TypeOK,
           Threads, heap, shutdown
  <2> QED
    BY <2>1, <2>2, <2>3, <2>4, <2>5 DEF IInv
<1>14. CASE Broadcast
  <2>1. TypeOK'
    BY <1>14 DEF Broadcast, Handler, TypeOK, Threads, WorkerLabels,
           ProducerLabels, heap, shutdown
  <2>2. MutexInv' /\ FlagInv'
    BY <1>14 DEF Broadcast, Handler, MutexInv, FlagInv, Critical, TypeOK,
           Threads, WorkerLabels, ProducerLabels, heap, shutdown
  <2>3. LocalInv'
    BY <1>14 DEF Broadcast, Handler, LocalInv, TypeOK, Threads, WorkerLabels,
           ProducerLabels, heap, shutdown
  <2>4. Linked'
    BY <1>14 DEF Broadcast, Handler, Linked, TypeOK, heap, shutdown
  <2>5. DequeueSafe'
    BY <1>14 DEF Broadcast, Handler, DequeueSafe, MutexInv, Critical, TypeOK,
           Threads, heap, shutdown
  <2> QED
    BY <2>1, <2>2, <2>3, <2>4, <2>5 DEF IInv
<1>15. CASE Join
  <2>1. TypeOK'
    BY <1>15 DEF Join, Handler, TypeOK, Threads, WorkerLabels,
           ProducerLabels, heap, shutdown
  <2>2. MutexInv' /\ FlagInv'
    BY <1>15 DEF Join, Handler, MutexInv, FlagInv, Critical, TypeOK, Threads,
           WorkerLabels, ProducerLabels, heap, shutdown
  <2>3. LocalInv'
    BY <1>15 DEF Join, Handler, LocalInv, TypeOK, Threads, WorkerLabels,
           ProducerLabels, heap, shutdown
  <2>4. Linked'
    BY <1>15 DEF Join, Handler, Linked, TypeOK, heap, shutdown
  <2>5. DequeueSafe'
    BY <1>15 DEF Join, Handler, DequeueSafe, MutexInv, Critical, TypeOK,
           Threads, heap, shutdown
  <2> QED
    BY <2>1, <2>2, <2>3, <2>4, <2>5 DEF IInv
<1>20. CASE DestroyList
  <2>1. TypeOK'
    BY <1>20 DEF DestroyList, TypeOK, Threads, WorkerLabels,
           ProducerLabels, heap, shutdown
  <2>2. MutexInv' /\ FlagInv'
    BY <1>20 DEF DestroyList, MutexInv, FlagInv, Critical, TypeOK, Threads,
           WorkerLabels, ProducerLabels, heap, shutdown
  <2>3. LocalInv'
    BY <1>20 DEF DestroyList, LocalInv, TypeOK, Threads, WorkerLabels,
           ProducerLabels, heap, shutdown
  <2>4. Linked'
    BY <1>20 DEF DestroyList, Linked, TypeOK, heap, shutdown
  <2>5. DequeueSafe'
    BY <1>20 DEF DestroyList, DequeueSafe, MutexInv, Critical, TypeOK,
           Threads, heap, shutdown
  <2> QED
    BY <2>1, <2>2, <2>3, <2>4, <2>5 DEF IInv
<1>16. CASE DestroyLock
  <2>1. TypeOK'
    BY <1>16 DEF DestroyLock, Handler, TypeOK, Threads, WorkerLabels,
           ProducerLabels, heap, shutdown
  <2>2. MutexInv' /\ FlagInv'
    BY <1>16 DEF DestroyLock, Handler, MutexInv, FlagInv, Critical, TypeOK,
           Threads, WorkerLabels, ProducerLabels, heap, shutdown
  <2>3. LocalInv'
    BY <1>16 DEF DestroyLock, Handler, LocalInv, TypeOK, Threads,
           WorkerLabels, ProducerLabels, heap, shutdown
  <2>4. Linked'
    BY <1>16 DEF DestroyLock, Handler, Linked, TypeOK, heap, shutdown
  <2>5. DequeueSafe'
    BY <1>16 DEF DestroyLock, Handler, DequeueSafe, MutexInv, Critical,
           TypeOK, Threads, heap, shutdown
  <2> QED
    BY <2>1, <2>2, <2>3, <2>4, <2>5 DEF IInv
<1>17. CASE DestroyNode
  <2>1. /\ Linked' /\ chain' \in Seq(Nodes)
        /\ head \in Nodes /\ head \in Range(chain)
        /\ Range(chain') = Range(chain) \ {head}
    BY <1>17, UnlinkKeepsLinked DEF DestroyNode
  <2>2. task[head] \in Tasks
    BY <2>1 DEF LocalInv, Linked, TypeOK
  <2>3. TypeOK'
    BY <1>17, <2>1, <2>2 DEF DestroyNode, Handler, TypeOK
  <2>4. MutexInv' /\ FlagInv'
    BY <1>17 DEF DestroyNode, Handler, MutexInv, FlagInv
  <2>5. LocalInv'
    BY <1>17, <2>1 DEF DestroyNode, LocalInv, TypeOK
  <2>6. DequeueSafe'
    BY <1>17 DEF DestroyNode, Handler, DequeueSafe, FlagInv
  <2> QED
    BY <2>1, <2>3, <2>4, <2>5, <2>6 DEF IInv
<1>18. CASE DestroyUnlock
  <2>1. TypeOK'
    BY <1>18 DEF DestroyUnlock, Handler, TypeOK, Threads, WorkerLabels,
           ProducerLabels, heap, shutdown
  <2>2. MutexInv' /\ FlagInv'
    BY <1>18 DEF DestroyUnlock, Handler, MutexInv, FlagInv, Critical, TypeOK,
           Threads, WorkerLabels, ProducerLabels, heap, shutdown
  <2>3. LocalInv'
    BY <1>18 DEF DestroyUnlock, Handler, LocalInv, TypeOK, Threads,
           WorkerLabels, ProducerLabels, heap, shutdown
  <2>4. Linked'
    BY <1>18 DEF DestroyUnlock, Handler, Linked, TypeOK, heap, shutdown
  <2>5. DequeueSafe'
    BY <1>18 DEF DestroyUnlock, Handler, DequeueSafe, MutexInv, Critical,
           TypeOK, Threads, heap, shutdown
  <2> QED
    BY <2>1, <2>2, <2>3, <2>4, <2>5 DEF IInv
<1>19. CASE UNCHANGED vars
  <2>1. TypeOK' /\ MutexInv' /\ FlagInv'
    BY <1>19 DEF vars, heap, shutdown, TypeOK, MutexInv, FlagInv
  <2>2. LocalInv' /\ Linked' /\ DequeueSafe'
    BY <1>19 DEF vars, heap, shutdown, LocalInv, Linked, DequeueSafe
  <2> QED
    BY <2>1, <2>2
<1> QED
  BY <1>1, <1>2, <1>3, <1>4, <1>5, <1>6, <1>7, <1>8, <1>9, <1>10, <1>11,
         <1>12, <1>13, <1>14, <1>15, <1>16, <1>17, <1>18, <1>19, <1>20 DEF Next,
         WorkerStep, ProducerStep, CloseStep, Threads

LEMMA InitInv == Init => IInv
  BY QueueAssumption DEF QueueAssumption, Init, QueueInit, IInv, TypeOK, MutexInv, FlagInv, LocalInv,
     Linked, DequeueSafe, Threads, WorkerLabels, ProducerLabels, Critical, Range

\* The inductive invariant holds in every reachable state.
THEOREM Invariance == Spec => []IInv
  BY InitInv, StepInv, PTL DEF Spec

\* Every variable keeps its type: the pointers are node addresses or NULL and
\* every thread is at a label of its own code.
THEOREM TypeCorrect == Spec => []TypeOK
<1>1. IInv => TypeOK
  BY DEF IInv
<1> QED
  BY <1>1, Invariance, PTL

\* The pointers of the queue always form one well-formed list, dangling tail
\* included, for any number of threads and any reuse of addresses.
THEOREM ListWellFormed == Spec => []Linked
<1>1. IInv => Linked
  BY DEF IInv
<1> QED
  BY <1>1, Invariance, PTL

\* task_queue_gettask never dereferences a NULL head and frees the node that
\* it unlinks.
THEOREM DequeueIsSafe == Spec => []DequeueSafe
<1>1. IInv => DequeueSafe
  BY DEF IInv
<1> QED
  BY <1>1, Invariance, PTL

-----------------------------------------------------------------------------
\* The tasks in the queue when a node is linked or unlinked.
LEMMA InitOwner == Init => OneOwner
<1> SUFFICES ASSUME Init PROVE OneOwner
  OBVIOUS
<1>1. Range(chain) = {} /\ allocated = {} /\ made = {} /\ freed = {}
  BY DEF Init, Range
<1>2. Queued = {}
  BY <1>1 DEF Queued
<1>3. \A p \in Producers : node[p] = NULL
  BY DEF Init, Threads
<1>4. Pending = {} /\ {node[p] : p \in Producers} \ {NULL} = {}
  BY <1>3 DEF Pending
<1>5. \A w \in Workers : held[w] = NULL
  BY DEF Init
<1>6. Held = {}
  BY <1>5 DEF Held
<1> QED
  BY <1>1, <1>2, <1>4, <1>5, <1>6 DEF OneOwner

\* Steps that move no task and no node.
LEMMA SameOwner ==
  ASSUME OneOwner, UNCHANGED <<task, allocated, chain, held, made, freed>>,
         \A p \in Producers : node'[p] = node[p]
  PROVE  OneOwner'
<1>1. Pending' = Pending /\ Queued' = Queued /\ Held' = Held
  BY DEF Pending, Queued, Held
<1>2. {node[p] : p \in Producers}' = {node[p] : p \in Producers}
  OBVIOUS
<1> QED
  BY <1>1, <1>2 DEF OneOwner

LEMMA StepOwner == IInv /\ OneOwner /\ [Next]_vars => OneOwner'
<1> SUFFICES ASSUME IInv, OneOwner, [Next]_vars PROVE OneOwner'
  OBVIOUS
<1> USE QueueAssumption DEF QueueAssumption, IInv
<1>1. ASSUME NEW p \in Producers, Create(p) PROVE OneOwner'
  <2>1. PICK t \in Tasks \ made, n \in Nodes \ allocated :
           /\ made' = made \cup {t}
           /\ allocated' = allocated \cup {n}
           /\ task' = [task EXCEPT ![n] = t]
           /\ node' = [node EXCEPT ![p] = n]
           /\ UNCHANGED <<chain, held, freed>>
    BY <1>1 DEF Create
  <2>2. node[p] = NULL /\ Range(chain) \subseteq allocated
    BY <1>1 DEF Create, At, LocalInv, Linked
  <2>3. Queued' = Queued /\ Held' = Held
    BY <2>1, <2>2 DEF Queued, Held, TypeOK
  <2>4. \A q \in Producers : node[q] # NULL => node[q] \in allocated
    BY DEF LocalInv
  <2>5. Pending' = Pending \cup {t}
    <3>1. node'[p] = n /\ task'[n] = t /\ n # NULL /\ p \in Threads
      BY <2>1 DEF TypeOK, Threads
    <3>2. ASSUME NEW q \in Producers, q # p
          PROVE  /\ node'[q] = node[q]
                 /\ node[q] # NULL => task'[node[q]] = task[node[q]]
      BY <2>1, <2>4, <3>2 DEF TypeOK, Threads
    <3>3. ASSUME NEW x \in Pending PROVE x \in Pending'
      BY <2>2, <3>2, <3>3 DEF Pending
    <3>4. t \in Pending'
      BY <3>1 DEF Pending
    <3>5. ASSUME NEW x \in Pending' PROVE x \in Pending \cup {t}
      BY <3>1, <3>2, <3>5 DEF Pending
    <3> QED
      BY <3>3, <3>4, <3>5
  <2>6. t \notin Pending \cup Queued \cup Held \cup freed
    BY <2>1 DEF OneOwner
  <2>7. \A l, m \in allocated' : task'[l] = task'[m] => l = m
    BY <2>1 DEF OneOwner, LocalInv, TypeOK
  <2>8. {node[q] : q \in Producers}' \ {NULL} = ({node[q] : q \in Producers} \ {NULL}) \cup {n}
    BY <2>1, <2>2 DEF TypeOK, Threads
  <2> QED
    BY <2>1, <2>3, <2>5, <2>6, <2>7, <2>8 DEF OneOwner
<1>2. ASSUME NEW t \in Threads, Acquire(t) PROVE OneOwner'
  BY <1>2, SameOwner DEF Acquire, heap
<1>3. ASSUME NEW p \in Producers, Insert(p) PROVE OneOwner'
  <2> DEFINE n == node[p]
  <2>1. /\ n \in allocated /\ n \notin Range(chain) /\ n \in Nodes /\ n # NULL
        /\ next[n] = NULL
    BY <1>3 DEF LocalInv, Insert, At, TypeOK
  <2>2. Range(chain') = Range(chain) \cup {n}
    BY <1>3, <2>1, LinkKeepsLinked DEF Insert
  <2>3. /\ UNCHANGED <<task, allocated, held, made, freed>>
        /\ node' = [node EXCEPT ![p] = NULL]
    BY <1>3 DEF Insert
  <2>4. Queued' = Queued \cup {task[n]} /\ Held' = Held
    BY <2>2, <2>3 DEF Queued, Held
  <2>5. \A q \in Producers : node[q] = n => q = p
    BY <2>1 DEF LocalInv
  <2>6. task[n] \in Pending
    BY <2>1 DEF Pending
  <2>7. \A q \in Producers : q # p /\ node[q] # NULL => task[node[q]] # task[n]
    BY <2>1, <2>5 DEF OneOwner, LocalInv
  <2>8. Pending' = Pending \ {task[n]}
    BY <2>3, <2>7 DEF Pending, TypeOK, Threads
  <2>9. {node[q] : q \in Producers}' \ {NULL} = ({node[q] : q \in Producers} \ {NULL}) \ {n}
    BY <2>3, <2>5 DEF TypeOK, Threads
  <2> QED
    BY <2>1, <2>2, <2>3, <2>4, <2>6, <2>8, <2>9 DEF OneOwner
<1>4. ASSUME NEW w \in Workers, LoopTest(w) PROVE OneOwner'
  BY <1>4, SameOwner DEF LoopTest, heap
<1>5. ASSUME NEW w \in Workers, Check(w) PROVE OneOwner'
  <2>1. \A p \in Producers : node'[p] = node[p]
    BY <1>5 DEF Check, TypeOK, Threads
  <2> QED
    BY <1>5, <2>1, SameOwner DEF Check, heap
<1>6. ASSUME NEW w \in Workers, Wait(w) PROVE OneOwner'
  BY <1>6, SameOwner DEF Wait, heap
<1>7. ASSUME NEW w \in Workers, SpuriousWakeup(w) PROVE OneOwner'
  BY <1>7, SameOwner DEF SpuriousWakeup, heap
<1>8. ASSUME NEW w \in Workers, Bail(w) PROVE OneOwner'
  <2>1. \A p \in Producers : node'[p] = node[p]
    BY <1>8 DEF Bail, TypeOK, Threads
  <2> QED
    BY <1>8, <2>1, SameOwner DEF Bail, heap
<1>9. ASSUME NEW w \in Workers, Dequeue(w) PROVE OneOwner'
  <2>1. head # NULL /\ node[w] = head /\ held[w] = NULL
    BY <1>9 DEF Dequeue, At, DequeueSafe, LocalInv
  <2>2. /\ head \in Nodes /\ head \in Range(chain)
        /\ Range(chain') = Range(chain) \ {head}
        /\ Range(chain) \subseteq allocated
    BY <1>9, <2>1, UnlinkKeepsLinked DEF Dequeue, Linked
  <2>3. /\ UNCHANGED <<task, made, freed>>
        /\ allocated' = allocated \ {head}
        /\ held' = [held EXCEPT ![w] = task[head]]
        /\ \A p \in Producers : node'[p] = node[p]
    BY <1>9, <2>1 DEF Dequeue, TypeOK, Threads
  <2>4. task[head] \in Queued /\ task[head] # NULL
    BY <2>2 DEF Queued, LocalInv, TypeOK
  <2>5. Queued' = Queued \ {task[head]}
    BY <2>2, <2>3 DEF Queued, OneOwner
  <2>6. Held' = Held \cup {task[head]}
    BY <2>1, <2>3, <2>4 DEF Held, TypeOK
  <2>7. Pending' = Pending
    BY <2>3 DEF Pending
  <2>8. {node[q] : q \in Producers}' = {node[q] : q \in Producers}
    BY <2>3
  <2>9. head \notin {node[q] : q \in Producers}
    BY <2>1, <2>2 DEF LocalInv
  <2>10. \A u, v \in Workers : held'[u] = held'[v] /\ held'[u] # NULL => u = v
    BY <2>3, <2>4 DEF OneOwner, Held, TypeOK
  <2> QED
    BY <2>2, <2>3, <2>4, <2>5, <2>6, <2>7, <2>8, <2>9, <2>10 DEF OneOwner
<1>10. ASSUME NEW w \in Workers, Run(w) PROVE OneOwner'
  <2>1. held[w] # NULL
    BY <1>10 DEF Run, At, LocalInv
  <2>2. /\ UNCHANGED <<task, allocated, chain, node, made>>
        /\ freed' = freed \cup {held[w]}
        /\ held' = [held EXCEPT ![w] = NULL]
    BY <1>10 DEF Run, heap
  <2>3. Pending' = Pending /\ Queued' = Queued
    BY <2>2 DEF Pending, Queued
  <2>4. Held' = Held \ {held[w]} /\ held[w] \in Held
    BY <2>1, <2>2 DEF Held, OneOwner, TypeOK
  <2>5. \A u, v \in Workers : held'[u] = held'[v] /\ held'[u] # NULL => u = v
    BY <2>2 DEF OneOwner, TypeOK
  <2>6. {node[q] : q \in Producers}' = {node[q] : q \in Producers}
    BY <2>2
  <2> QED
    BY <2>2, <2>3, <2>4, <2>5, <2>6 DEF OneOwner
<1>11. ASSUME NEW t \in SignalTargets, Interrupt(t) PROVE OneOwner'
  BY <1>11, SameOwner DEF Interrupt, heap
<1>12. CASE InterruptAgain
  BY <1>12, SameOwner DEF InterruptAgain, heap
<1>13. CASE ClearFlag
  BY <1>13, SameOwner DEF ClearFlag, heap
<1>14. CASE Broadcast
  BY <1>14, SameOwner DEF Broadcast, heap
<1>15. CASE Join
  BY <1>15, SameOwner DEF Join, heap
<1>20. CASE DestroyList
  BY <1>20, SameOwner DEF DestroyList, heap
<1>16. CASE DestroyLock
  BY <1>16, SameOwner DEF DestroyLock, heap
<1>17. CASE DestroyNode
  <2>1. /\ head \in Nodes /\ head \in Range(chain)
        /\ Range(chain') = Range(chain) \ {head}
        /\ Range(chain) \subseteq allocated
    BY <1>17, UnlinkKeepsLinked DEF DestroyNode, Linked
  <2>2. /\ UNCHANGED <<task, node, held, made>>
        /\ allocated' = allocated \ {head}
        /\ freed' = freed \cup {task[head]}
    BY <1>17 DEF DestroyNode
  <2>3. Queued' = Queued \ {task[head]} /\ task[head] \in Queued
    BY <2>1, <2>2 DEF Queued, OneOwner
  <2>4. Pending' = Pending /\ Held' = Held
    BY <2>2 DEF Pending, Held
  <2>5. head \notin {node[q] : q \in Producers}
    BY <2>1 DEF LocalInv
  <2>6. {node[q] : q \in Producers}' = {node[q] : q \in Producers}
    BY <2>2
  <2> QED
    BY <2>1, <2>2, <2>3, <2>4, <2>5, <2>6 DEF OneOwner
<1>18. CASE DestroyUnlock
  BY <1>18, SameOwner DEF DestroyUnlock, heap
<1>19. CASE UNCHANGED vars
  BY <1>19, SameOwner DEF vars, heap
<1> QED
  BY <1>1, <1>2, <1>3, <1>4, <1>5, <1>6, <1>7, <1>8, <1>9, <1>10, <1>11, <1>12, <1>13, <1>14,
     <1>15, <1>16, <1>17, <1>18, <1>19, <1>20 DEF Next, WorkerStep, ProducerStep, CloseStep, Threads

\* No task is lost, given to two workers or freed twice, and no node leaks.
THEOREM EveryTaskHasOneOwner == Spec => []OneOwner
  BY InitOwner, StepOwner, Invariance, PTL DEF Spec


-----------------------------------------------------------------------------
(* The list of nodes implements the FIFO of TaskFifo.                      *)

\* The tasks of a sequence of nodes are a sequence of tasks.
LEMMA ContentsSeq ==
  ASSUME NEW S, NEW T, NEW s \in Seq(S), NEW f \in [S -> T]
  PROVE  /\ [i \in DOMAIN s |-> f[s[i]]] \in Seq(T)
         /\ Len([i \in DOMAIN s |-> f[s[i]]]) = Len(s)
<1>1. Len(s) \in Nat /\ DOMAIN s = 1 .. Len(s)
  BY LenProperties
<1>2. \A i \in 1 .. Len(s) : f[s[i]] \in T
  BY ElementOfSeq
<1>3. [i \in DOMAIN s |-> f[s[i]]] \in [1 .. Len(s) -> T]
  BY <1>1, <1>2
<1>4. [i \in DOMAIN s |-> f[s[i]]] \in Seq(T)
  BY <1>1, <1>3, SeqDef
<1> QED
  BY <1>1, <1>4, LenProperties

\* Reading the tasks after an append is appending the task.
LEMMA ContentsAppend ==
  ASSUME NEW S, NEW T, NEW s \in Seq(S), NEW e \in S, NEW f \in [S -> T]
  PROVE  [i \in DOMAIN Append(s, e) |-> f[Append(s, e)[i]]]
           = Append([i \in DOMAIN s |-> f[s[i]]], f[e])
<1> DEFINE a == [i \in DOMAIN Append(s, e) |-> f[Append(s, e)[i]]]
           q == [i \in DOMAIN s |-> f[s[i]]]
           b == Append(q, f[e])
<1>1. /\ Append(s, e) \in Seq(S)
      /\ Len(Append(s, e)) = Len(s) + 1
      /\ DOMAIN Append(s, e) = 1 .. (Len(s) + 1)
      /\ \A i \in 1 .. Len(s) : Append(s, e)[i] = s[i]
      /\ Append(s, e)[Len(s) + 1] = e
  BY AppendFacts
<1>2. DOMAIN s = 1 .. Len(s) /\ Len(s) \in Nat
  BY LenProperties
<1>3. q \in Seq(T) /\ Len(q) = Len(s)
  BY ContentsSeq
<1>4. a \in Seq(T) /\ Len(a) = Len(s) + 1
  BY <1>1, ContentsSeq
<1>5. f[e] \in T
  OBVIOUS
<1>6. /\ b \in Seq(T) /\ Len(b) = Len(s) + 1
      /\ \A i \in 1 .. Len(s) : b[i] = q[i]
      /\ b[Len(s) + 1] = f[e]
  <2> HIDE DEF q
  <2> QED
    BY <1>3, <1>5, AppendFacts
<1>7. ASSUME NEW i \in 1 .. (Len(s) + 1) PROVE a[i] = b[i]
  <2>1. CASE i \in 1 .. Len(s)
    BY <1>1, <1>2, <1>6, <2>1
  <2>2. CASE i = Len(s) + 1
    BY <1>1, <1>6, <2>2
  <2> QED
    BY <1>2, <2>1, <2>2
<1> HIDE DEF a, b
<1>8. a = b
  BY <1>4, <1>6, <1>7, SeqEqual
<1> QED
  BY <1>8 DEF a, b

\* Reading the tasks after the first node is gone is dropping the first task.
LEMMA ContentsTail ==
  ASSUME NEW S, NEW T, NEW s \in Seq(S), s # <<>>, NEW f \in [S -> T]
  PROVE  LET q == [i \in DOMAIN s |-> f[s[i]]]
         IN  /\ q # <<>>
             /\ Head(q) = f[s[1]]
             /\ [i \in DOMAIN Tail(s) |-> f[Tail(s)[i]]] = Tail(q)
<1> DEFINE a == [i \in DOMAIN Tail(s) |-> f[Tail(s)[i]]]
           q == [i \in DOMAIN s |-> f[s[i]]]
<1>1. /\ Tail(s) \in Seq(S)
      /\ Len(s) \in Nat \ {0}
      /\ Len(Tail(s)) = Len(s) - 1
      /\ DOMAIN s = 1 .. Len(s)
      /\ DOMAIN Tail(s) = 1 .. (Len(s) - 1)
      /\ \A i \in 1 .. (Len(s) - 1) : Tail(s)[i] = s[i + 1]
  BY TailFacts, TailRange
<1>2. q \in Seq(T) /\ Len(q) = Len(s)
  <2>1. s \in Seq(S) /\ f \in [S -> T]
    OBVIOUS
  <2> QED
    BY ONLY <2>1, ContentsSeq
<1>3. a \in Seq(T) /\ Len(a) = Len(s) - 1
  BY <1>1, ContentsSeq
<1>4. q # <<>>
  BY <1>1, <1>2, EmptySeq
<1>5. q[1] = f[s[1]]
  BY <1>1
<1>6. /\ Tail(q) \in Seq(T) /\ Len(Tail(q)) = Len(s) - 1
      /\ \A i \in 1 .. (Len(s) - 1) : Tail(q)[i] = q[i + 1]
      /\ Head(q) = q[1]
  <2> HIDE DEF q
  <2> QED
    BY <1>2, <1>4, TailFacts
<1>7. ASSUME NEW i \in 1 .. (Len(s) - 1) PROVE a[i] = Tail(q)[i]
  <2>1. i + 1 \in 1 .. Len(s)
    BY <1>1
  <2>2. q[i + 1] = f[s[i + 1]]
    BY <1>1, <2>1
  <2>3. a[i] = f[s[i + 1]]
    BY <1>1
  <2> QED
    BY <1>6, <2>2, <2>3
<1>8. a = Tail(q)
  <2> HIDE DEF a, q
  <2> QED
    BY <1>3, <1>6, <1>7, SeqEqual
<1> QED
  BY <1>4, <1>5, <1>6, <1>8

\* A task is among the contents exactly if its node is linked.
LEMMA ContentsRange ==
  ASSUME TypeOK
  PROVE  Range(Contents) = Queued
BY DEF Range, Contents, Queued

LEMMA InitImplements == Init => Fifo!Init
<1> SUFFICES ASSUME Init PROVE Fifo!Init
  OBVIOUS
<1>1. chain = <<>>
  BY DEF Init
<1>2. Contents = <<>>
  BY <1>1 DEF Contents
<1> QED
  BY <1>2 DEF Init, Fifo!Init

\* Steps the abstract queue does not see.
LEMMA FifoStutter ==
  ASSUME UNCHANGED <<task, chain, held, freed, active>>
  PROVE  UNCHANGED Fifo!vars
BY DEF Fifo!vars, Contents

LEMMA StepImplements == IInv /\ OneOwner /\ [Next]_vars => [Fifo!Next]_Fifo!vars
<1> SUFFICES ASSUME IInv, OneOwner, [Next]_vars PROVE [Fifo!Next]_Fifo!vars
  OBVIOUS
<1>a. /\ TypeOK /\ MutexInv /\ FlagInv /\ LocalInv /\ Linked /\ DequeueSafe
      /\ chain \in Seq(Nodes)
      /\ task \in [Nodes -> Tasks \cup {NULL}]
  BY DEF IInv, TypeOK
<1>b. Range(Contents) = Queued
  BY <1>a, ContentsRange
<1>c. Range(held) \subseteq Held \cup {NULL}
  BY <1>a DEF Range, Held, TypeOK
<1>1. ASSUME NEW p \in Producers, Create(p) PROVE UNCHANGED Fifo!vars
  <2>1. PICK n \in Nodes \ allocated :
          \E t \in Tasks : task' = [task EXCEPT ![n] = t]
    BY <1>1 DEF Create
  <2>2. UNCHANGED <<chain, held, freed, active>>
    BY <1>1 DEF Create, shutdown
  <2>3. \A i \in DOMAIN chain : chain[i] \in allocated /\ chain[i] \in Nodes
    BY <1>a DEF Linked, Range, TypeOK
  <2>4. \A i \in DOMAIN chain : task'[chain[i]] = task[chain[i]]
    BY <1>a, <2>1, <2>3
  <2>5. Contents' = Contents
    BY <2>2, <2>4 DEF Contents
  <2> QED
    BY <2>2, <2>5 DEF Fifo!vars
<1>2. ASSUME NEW t \in Threads, Acquire(t) PROVE UNCHANGED Fifo!vars
  BY <1>2, FifoStutter DEF Acquire, heap, shutdown
<1>3. ASSUME NEW p \in Producers, Insert(p) PROVE \E t \in Tasks : Fifo!Submit(t)
  <2>1. /\ chain' = Append(chain, node[p])
        /\ UNCHANGED <<task, held, freed, active>>
    BY <1>3 DEF Insert, shutdown
  <2>2. node[p] \in allocated /\ node[p] \in Nodes
    BY <1>3, <1>a DEF LocalInv, Insert, At, TypeOK
  <2>3. node[p] # NULL
    BY <2>2, QueueAssumption DEF QueueAssumption
  <2>4. Contents' = Append(Contents, task[node[p]])
    BY <1>a, <2>1, <2>2, ContentsAppend DEF Contents
  <2>5. task[node[p]] \in Pending
    BY <2>3 DEF Pending
  <2>6. task[node[p]] \in Tasks
    BY <1>a, <2>2 DEF LocalInv, TypeOK
  <2>7. task[node[p]] \notin Range(Contents) \cup Range(held) \cup freed
    BY <1>b, <1>c, <2>5, <2>6, QueueAssumption DEF OneOwner, QueueAssumption
  <2>8. Fifo!Submit(task[node[p]])
    BY <2>1, <2>4, <2>7 DEF Fifo!Submit, Fifo!Range, Range
  <2> QED
    BY <2>6, <2>8
<1>4. ASSUME NEW w \in Workers, LoopTest(w) PROVE UNCHANGED Fifo!vars
  BY <1>4, FifoStutter DEF LoopTest, heap, shutdown
<1>5. ASSUME NEW w \in Workers, Check(w) PROVE UNCHANGED Fifo!vars
  BY <1>5, FifoStutter DEF Check, heap, shutdown
<1>6. ASSUME NEW w \in Workers, Wait(w) PROVE UNCHANGED Fifo!vars
  BY <1>6, FifoStutter DEF Wait, heap, shutdown
<1>7. ASSUME NEW w \in Workers, SpuriousWakeup(w) PROVE UNCHANGED Fifo!vars
  BY <1>7, FifoStutter DEF SpuriousWakeup, heap, shutdown
<1>8. ASSUME NEW w \in Workers, Bail(w) PROVE UNCHANGED Fifo!vars
  BY <1>8, FifoStutter DEF Bail, heap, shutdown
<1>9. ASSUME NEW w \in Workers, Dequeue(w) PROVE Fifo!Take(w)
  <2>1. active /\ head # NULL /\ held[w] = NULL /\ pc[w] = "bail"
    BY <1>9, <1>a DEF Dequeue, At, DequeueSafe, LocalInv
  <2>2. chain # <<>> /\ head = chain[1]
    BY <1>a, <2>1 DEF Linked
  <2>3. /\ chain' = Tail(chain)
        /\ held' = [held EXCEPT ![w] = task[head]]
        /\ UNCHANGED <<task, freed, active>>
    BY <1>9 DEF Dequeue, shutdown
  <2>4. /\ Contents # <<>>
        /\ Head(Contents) = task[chain[1]]
        /\ Contents' = Tail(Contents)
    BY <1>a, <2>2, <2>3, ContentsTail DEF Contents
  <2> QED
    BY <2>1, <2>2, <2>3, <2>4 DEF Fifo!Take
<1>10. ASSUME NEW w \in Workers, Run(w) PROVE Fifo!Finish(w)
  <2>1. held[w] # NULL
    BY <1>10, <1>a DEF Run, At, LocalInv
  <2>2. Contents' = Contents
    BY <1>10 DEF Run, heap, Contents
  <2> QED
    BY <1>10, <2>1, <2>2 DEF Run, shutdown, Fifo!Finish
<1>11. ASSUME NEW t \in SignalTargets, Interrupt(t) PROVE UNCHANGED Fifo!vars
  BY <1>11, FifoStutter DEF Interrupt, heap
<1>12. ASSUME InterruptAgain PROVE UNCHANGED Fifo!vars
  BY <1>12, FifoStutter DEF InterruptAgain, heap
<1>13. ASSUME ClearFlag PROVE Fifo!Close
  <2>1. active
    BY <1>13, <1>a DEF ClearFlag, Handler, FlagInv
  <2>2. Contents' = Contents
    BY <1>13 DEF ClearFlag, heap, Contents
  <2> QED
    BY <1>13, <2>1, <2>2 DEF ClearFlag, Fifo!Close
<1>14. ASSUME Broadcast PROVE UNCHANGED Fifo!vars
  BY <1>14, FifoStutter DEF Broadcast, heap
<1>15. ASSUME Join PROVE UNCHANGED Fifo!vars
  BY <1>15, FifoStutter DEF Join, heap
<1>20. ASSUME DestroyList PROVE UNCHANGED Fifo!vars
  BY <1>20, FifoStutter DEF DestroyList, heap
<1>16. ASSUME DestroyLock PROVE UNCHANGED Fifo!vars
  BY <1>16, FifoStutter DEF DestroyLock, heap
<1>17. ASSUME DestroyNode PROVE Fifo!Discard
  <2>1. ~active
    BY <1>17, <1>a DEF DestroyNode, Handler, FlagInv
  <2>2. chain # <<>> /\ head = chain[1]
    BY <1>17, <1>a DEF DestroyNode, Linked
  <2>3. /\ chain' = Tail(chain)
        /\ freed' = freed \cup {task[head]}
        /\ UNCHANGED <<task, held, active>>
    BY <1>17 DEF DestroyNode
  <2>4. /\ Contents # <<>>
        /\ Head(Contents) = task[chain[1]]
        /\ Contents' = Tail(Contents)
    BY <1>a, <2>2, <2>3, ContentsTail DEF Contents
  <2> QED
    BY <2>1, <2>2, <2>3, <2>4 DEF Fifo!Discard
<1>18. ASSUME DestroyUnlock PROVE UNCHANGED Fifo!vars
  BY <1>18, FifoStutter DEF DestroyUnlock, heap
<1>19. ASSUME UNCHANGED vars PROVE UNCHANGED Fifo!vars
  BY <1>19, FifoStutter DEF vars, heap, shutdown
<1> QED
  BY <1>1, <1>2, <1>3, <1>4, <1>5, <1>6, <1>7, <1>8, <1>9, <1>10, <1>11, <1>12, <1>13, <1>14,
     <1>15, <1>16, <1>17, <1>18, <1>19, <1>20
  DEF Next, WorkerStep, ProducerStep, CloseStep, Threads, Fifo!Next

\* The linked queue behind its mutex and condition variable implements the
\* abstract FIFO: tasks are taken in the order they were submitted, once,
\* while the server is open, and are discarded only after it was closed.
THEOREM ImplementsFifo == Spec => FifoSpec
  BY InitImplements, StepImplements, Invariance, EveryTaskHasOneOwner, PTL
  DEF Spec, FifoSpec, Fifo!Spec

-----------------------------------------------------------------------------
(* How many workers are awake.                                             *)

\* While the server is active a worker decides to wait only if the queue is
\* empty, and the queue stays empty until the worker gives up the mutex.
WaitsOnEmpty == \A w \in Workers : pc[w] = "wait" /\ active => head = NULL

LEMMA InitWaits == Init => WaitsOnEmpty
  BY DEF Init, QueueInit, WaitsOnEmpty, Threads

LEMMA StepWaits == IInv /\ WaitsOnEmpty /\ [Next]_vars => WaitsOnEmpty'
<1> SUFFICES ASSUME IInv, WaitsOnEmpty, [Next]_vars PROVE WaitsOnEmpty'
  OBVIOUS
<1> USE QueueAssumption DEF QueueAssumption, IInv
<1>1. ASSUME NEW p \in Producers, Create(p) PROVE WaitsOnEmpty'
  BY <1>1 DEF Create, Goto, WaitsOnEmpty, TypeOK, Threads, shutdown
<1>2. ASSUME NEW t \in Threads, Acquire(t) PROVE WaitsOnEmpty'
  BY <1>2 DEF Acquire, Goto, WaitsOnEmpty, TypeOK, Threads, heap, shutdown
<1>3. ASSUME NEW p \in Producers, Insert(p) PROVE WaitsOnEmpty'
  <2>1. mutex = p
    BY <1>3 DEF Insert, At, MutexInv, Critical, Threads
  <2>2. \A w \in Workers : pc'[w] = pc[w] /\ pc[w] # "wait"
    BY <1>3, <2>1 DEF Insert, Goto, MutexInv, Critical, TypeOK, Threads
  <2> QED
    BY <2>2 DEF WaitsOnEmpty
<1>4. ASSUME NEW w \in Workers, LoopTest(w) PROVE WaitsOnEmpty'
  BY <1>4 DEF LoopTest, Goto, WaitsOnEmpty, TypeOK, Threads, heap, shutdown
<1>5. ASSUME NEW w \in Workers, Check(w) PROVE WaitsOnEmpty'
  BY <1>5 DEF Check, Goto, WaitsOnEmpty, TypeOK, Threads, heap, shutdown
<1>6. ASSUME NEW w \in Workers, Wait(w) PROVE WaitsOnEmpty'
  BY <1>6 DEF Wait, Goto, WaitsOnEmpty, TypeOK, Threads, heap, shutdown
<1>7. ASSUME NEW w \in Workers, SpuriousWakeup(w) PROVE WaitsOnEmpty'
  BY <1>7 DEF SpuriousWakeup, WaitsOnEmpty, heap, shutdown
<1>8. ASSUME NEW w \in Workers, Bail(w) PROVE WaitsOnEmpty'
  BY <1>8 DEF Bail, Goto, WaitsOnEmpty, TypeOK, Threads, heap, shutdown
<1>9. ASSUME NEW w \in Workers, Dequeue(w) PROVE WaitsOnEmpty'
  <2>1. mutex = w
    BY <1>9 DEF Dequeue, At, MutexInv, Critical, Threads
  <2>2. \A v \in Workers : pc'[v] # "wait"
    BY <1>9, <2>1 DEF Dequeue, At, Goto, MutexInv, Critical, TypeOK, Threads
  <2> QED
    BY <2>2 DEF WaitsOnEmpty
<1>10. ASSUME NEW w \in Workers, Run(w) PROVE WaitsOnEmpty'
  BY <1>10 DEF Run, Goto, WaitsOnEmpty, TypeOK, Threads, heap, shutdown
<1>11. ASSUME NEW t \in SignalTargets, Interrupt(t) PROVE WaitsOnEmpty'
  BY <1>11 DEF Interrupt, WaitsOnEmpty, heap
<1>12. CASE CloseStep \/ InterruptAgain
  <2>1. UNCHANGED pc
    BY <1>12 DEF CloseStep, InterruptAgain, ClearFlag, Broadcast, Join,
           DestroyList, DestroyLock, DestroyNode, DestroyUnlock
  <2>2. active' => UNCHANGED <<active, head>>
    BY <1>12 DEF CloseStep, InterruptAgain, ClearFlag, Broadcast, Join, Handler,
           DestroyList, DestroyLock, DestroyNode, DestroyUnlock, FlagInv, heap
  <2> QED
    BY <2>1, <2>2 DEF WaitsOnEmpty
<1>13. CASE UNCHANGED vars
  BY <1>13 DEF WaitsOnEmpty, vars, heap, shutdown
<1> QED
  BY <1>1, <1>2, <1>3, <1>4, <1>5, <1>6, <1>7, <1>8, <1>9, <1>10, <1>11, <1>12, <1>13
  DEF Next, WorkerStep, ProducerStep, Threads

-----------------------------------------------------------------------------
\* The number of workers on their way to the queue is a number, and how it
\* changes when a worker sets out or stops.
LEMMA OnTheWayFacts ==
  /\ IsFiniteSet(OnTheWay) /\ Cardinality(OnTheWay) \in Nat
  /\ \A w : w \notin OnTheWay =>
       Cardinality(OnTheWay \cup {w}) = Cardinality(OnTheWay) + 1
  /\ \A w \in OnTheWay : Cardinality(OnTheWay \ {w}) = Cardinality(OnTheWay) - 1
<1>1. IsFiniteSet(OnTheWay)
  BY QueueAssumption, FS_Subset DEF QueueAssumption, OnTheWay
<1> QED
  BY <1>1, FS_CardinalityType, FS_AddElement, FS_RemoveElement

\* A step after which at least the same workers are on their way, to a queue
\* that is not longer, while nobody starts to wait.
LEMMA SameWork ==
  ASSUME WorkConserving,
         OnTheWay \subseteq OnTheWay', chain' = chain,
         active' => active, waiters' \subseteq waiters
  PROVE  WorkConserving'
<1>1. IsFiniteSet(OnTheWay')
  BY QueueAssumption, FS_Subset DEF QueueAssumption, OnTheWay
<1>2. Cardinality(OnTheWay) <= Cardinality(OnTheWay')
  BY <1>1, FS_Subset
<1>3. /\ Cardinality(OnTheWay) \in Nat /\ Cardinality(OnTheWay') \in Nat
  BY <1>1, OnTheWayFacts, FS_CardinalityType
<1> QED
  BY <1>2, <1>3 DEF WorkConserving

LEMMA InitWork == Init => WorkConserving
  BY DEF Init, WorkConserving

LEMMA StepWork == IInv /\ WaitsOnEmpty /\ WorkConserving /\ [Next]_vars => WorkConserving'
<1> SUFFICES ASSUME IInv, WaitsOnEmpty, WorkConserving, [Next]_vars PROVE WorkConserving'
  OBVIOUS
<1> USE QueueAssumption DEF QueueAssumption, IInv
<1>a. chain \in Seq(Nodes) /\ Len(chain) \in Nat /\ Cardinality(OnTheWay) \in Nat
  BY LenProperties, OnTheWayFacts DEF TypeOK
<1>b. OnTheWay' = {w \in Workers : w \notin waiters' /\ pc'[w] \notin {"wait", "run", "exit"}}
  BY DEF OnTheWay
<1>c. Cardinality(OnTheWay') \in Nat
  BY <1>b, FS_Subset, FS_CardinalityType
<1>1. ASSUME NEW p \in Producers, Create(p) PROVE WorkConserving'
  <2>1. OnTheWay \subseteq OnTheWay'
    BY <1>1, <1>b DEF Create, Goto, OnTheWay, TypeOK, Threads
  <2> QED
    BY <1>1, <2>1, SameWork DEF Create, shutdown
<1>2. ASSUME NEW t \in Threads, Acquire(t) PROVE WorkConserving'
  <2>1. OnTheWay \subseteq OnTheWay'
    BY <1>2, <1>b DEF Acquire, Goto, OnTheWay, TypeOK, Threads
  <2> QED
    BY <1>2, <2>1, SameWork DEF Acquire, heap, shutdown
<1>3. ASSUME NEW p \in Producers, Insert(p) PROVE WorkConserving'
  <2>1. node[p] \in Nodes
    BY <1>3 DEF LocalInv, Insert, At, TypeOK
  <2>2. Len(chain') = Len(chain) + 1 /\ active' = active
    BY <1>3, <1>a, <2>1, AppendFacts DEF Insert, shutdown
  <2>3. \A w \in Workers : pc'[w] = pc[w]
    BY <1>3 DEF Insert, Goto, TypeOK, Threads
  <2>4. CASE waiters = {}
    BY <1>3, <2>4 DEF Insert, Signal, WorkConserving
  <2>5. CASE waiters # {}
    <3>1. PICK w \in waiters : waiters' = waiters \ {w}
      BY <1>3, <2>5 DEF Insert, Signal
    <3>2. w \in Workers /\ pc[w] = "sleep"
      BY DEF LocalInv, TypeOK
    <3>3. OnTheWay' = OnTheWay \cup {w} /\ w \notin OnTheWay
      BY <1>b, <2>3, <3>1, <3>2 DEF OnTheWay
    <3>4. Cardinality(OnTheWay') = Cardinality(OnTheWay) + 1
      BY <3>3, OnTheWayFacts
    <3> QED
      BY <1>a, <2>2, <2>5, <3>4 DEF WorkConserving
  <2> QED
    BY <2>4, <2>5
<1>4. ASSUME NEW w \in Workers, LoopTest(w) PROVE WorkConserving'
  <2>1. CASE active
    <3>1. OnTheWay \subseteq OnTheWay'
      BY <1>4, <1>b, <2>1 DEF LoopTest, Goto, OnTheWay, TypeOK, Threads
    <3> QED
      BY <1>4, <3>1, SameWork DEF LoopTest, heap, shutdown
  <2> QED
    BY <1>4, <2>1 DEF LoopTest, shutdown, WorkConserving
<1>5. ASSUME NEW w \in Workers, Check(w) PROVE WorkConserving'
  <2>1. CASE head = NULL
    <3>1. Len(chain') = 0
      BY <1>5, <2>1, <1>a, ElementOfSeq, EmptySeq DEF Linked, Check, heap
    <3> QED
      BY <1>c, <3>1 DEF WorkConserving
  <2>2. CASE head # NULL
    <3>1. OnTheWay \subseteq OnTheWay'
      BY <1>5, <1>b, <2>2 DEF Check, Goto, OnTheWay, TypeOK, Threads
    <3> QED
      BY <1>5, <3>1, SameWork DEF Check, heap, shutdown
  <2> QED
    BY <2>1, <2>2
<1>6. ASSUME NEW w \in Workers, Wait(w) PROVE WorkConserving'
  <2>1. active => head = NULL
    BY <1>6 DEF Wait, At, WaitsOnEmpty
  <2>2. active => Len(chain') = 0
    BY <1>6, <2>1, <1>a, ElementOfSeq, EmptySeq DEF Linked, Wait, heap
  <2> QED
    BY <1>6, <1>c, <2>2 DEF Wait, shutdown, WorkConserving
<1>7. ASSUME NEW w \in Workers, SpuriousWakeup(w) PROVE WorkConserving'
  <2>1. OnTheWay \subseteq OnTheWay'
    BY <1>7, <1>b DEF SpuriousWakeup, OnTheWay
  <2> QED
    BY <1>7, <2>1, SameWork DEF SpuriousWakeup, heap, shutdown
<1>8. ASSUME NEW w \in Workers, Bail(w) PROVE WorkConserving'
  BY <1>8 DEF Bail, shutdown, WorkConserving
<1>9. ASSUME NEW w \in Workers, Dequeue(w) PROVE WorkConserving'
  <2>1. pc[w] = "bail" /\ chain # <<>> /\ chain' = Tail(chain)
    BY <1>9 DEF Dequeue, At, DequeueSafe, Linked
  <2>2. Len(chain') = Len(chain) - 1
    BY <1>a, <2>1, TailFacts
  <2>3. w \in OnTheWay
    BY <2>1 DEF LocalInv, OnTheWay
  <2>4. OnTheWay' = OnTheWay \ {w}
    BY <1>9, <1>b DEF Dequeue, Goto, OnTheWay, TypeOK, Threads
  <2>5. Cardinality(OnTheWay') = Cardinality(OnTheWay) - 1
    BY <2>3, <2>4, OnTheWayFacts
  <2> QED
    BY <1>9, <1>a, <2>2, <2>5 DEF Dequeue, shutdown, WorkConserving
<1>10. ASSUME NEW w \in Workers, Run(w) PROVE WorkConserving'
  <2>1. OnTheWay \subseteq OnTheWay'
    BY <1>10, <1>b DEF Run, At, Goto, OnTheWay, TypeOK, Threads
  <2> QED
    BY <1>10, <2>1, SameWork DEF Run, heap, shutdown
<1>11. ASSUME NEW t \in SignalTargets, Interrupt(t) PROVE WorkConserving'
  BY <1>11, SameWork DEF Interrupt, heap, OnTheWay
<1>12. CASE CloseStep \/ InterruptAgain
  <2>1. /\ UNCHANGED pc
        /\ active' => UNCHANGED <<active, chain>>
        /\ waiters' \subseteq waiters
    BY <1>12 DEF CloseStep, InterruptAgain, ClearFlag, Broadcast, Join, Handler,
           DestroyList, DestroyLock, DestroyNode, DestroyUnlock, FlagInv, heap
  <2>2. OnTheWay \subseteq OnTheWay'
    BY <1>b, <2>1 DEF OnTheWay
  <2>3. CASE active'
    BY <2>1, <2>2, <2>3, SameWork
  <2> QED
    BY <2>3 DEF WorkConserving
<1>13. CASE UNCHANGED vars
  BY <1>13, SameWork DEF OnTheWay, vars, heap, shutdown
<1> QED
  BY <1>1, <1>2, <1>3, <1>4, <1>5, <1>6, <1>7, <1>8, <1>9, <1>10, <1>11, <1>12, <1>13
  DEF Next, WorkerStep, ProducerStep, Threads

\* While a worker sleeps on the condition variable, at least as many workers
\* are on their way to the queue as there are tasks in it, for a pool of any
\* size: the one signal of task_queue_enqueue is enough.
THEOREM PoolConservesWork == Spec => []WorkConserving
  BY InitWaits, StepWaits, InitWork, StepWork, Invariance, PTL DEF Spec

-----------------------------------------------------------------------------
\* Once server_close has joined the pool, every worker but the one it runs on
\* has left its loop, and stays out of it.
PoolGone ==
  closing \in {"sweep", "destroy", "drain", "done"} => \A w \in Workers \ {closer} : pc[w] = "exit"

LEMMA InitGone == Init => PoolGone
  BY DEF Init, PoolGone

LEMMA StepGone == IInv /\ PoolGone /\ [Next]_vars => PoolGone'
<1> SUFFICES ASSUME IInv, PoolGone, [Next]_vars PROVE PoolGone'
  OBVIOUS
<1>1. ASSUME NEW t \in Threads, UNCHANGED <<closer, closing>>,
             pc[t] # "exit", \A u \in Threads \ {t} : pc'[u] = pc[u]
      PROVE  PoolGone'
  BY <1>1 DEF PoolGone, Threads
<1>2. ASSUME NEW p \in Producers, Create(p) \/ ProducerStep(p) PROVE PoolGone'
  BY <1>1, <1>2 DEF Create, ProducerStep, Acquire, Insert, At, Goto, IInv, TypeOK, Threads, shutdown
<1>3. ASSUME NEW w \in Workers, WorkerStep(w) PROVE PoolGone'
  BY <1>1, <1>3 DEF WorkerStep, LoopTest, Acquire, Check, Wait, Bail, Dequeue, Run, At, Goto,
         IInv, TypeOK, Threads, shutdown
<1>4. ASSUME NEW w \in Workers, SpuriousWakeup(w) PROVE PoolGone'
  BY <1>4 DEF SpuriousWakeup, PoolGone, shutdown
<1>5. ASSUME NEW t \in SignalTargets, Interrupt(t) PROVE PoolGone'
  BY <1>5 DEF Interrupt, Handler, PoolGone
<1>6. CASE CloseStep \/ InterruptAgain
  BY <1>6 DEF CloseStep, InterruptAgain, ClearFlag, Broadcast, Join, Handler, DestroyList, DestroyLock,
         DestroyNode, DestroyUnlock, PoolGone
<1>7. CASE UNCHANGED vars
  BY <1>7 DEF PoolGone, vars, shutdown
<1> QED
  BY <1>2, <1>3, <1>4, <1>5, <1>6, <1>7 DEF Next

\* When server_close has emptied the queue every task is freed, but for those a
\* producer is about to insert and the one the interrupted worker was running.
THEOREM ShutdownDrainsPool == Spec => []ShutdownFreesAll
<1>1. IInv /\ OneOwner /\ PoolGone => ShutdownFreesAll
  <2> SUFFICES ASSUME IInv, OneOwner, PoolGone, closing = "drain", head = NULL
               PROVE  made \ freed \subseteq Pending \cup {held[w] : w \in Workers \cap {closer}}
    BY DEF ShutdownFreesAll
  <2> USE QueueAssumption DEF QueueAssumption, IInv
  <2>1. chain = <<>>
    BY ElementOfSeq, EmptySeq, LenProperties DEF Linked, TypeOK
  <2>2. Range(chain) = {}
    BY <2>1 DEF Range
  <2>3. Queued = {}
    BY <2>2 DEF Queued
  <2>4. \A w \in Workers \ {closer} : held[w] = NULL
    BY DEF PoolGone, LocalInv
  <2>5. Held \subseteq {held[w] : w \in Workers \cap {closer}}
    BY <2>4 DEF Held
  <2> QED
    BY <2>3, <2>5 DEF OneOwner
<1> QED
  BY <1>1, InitGone, StepGone, Invariance, EveryTaskHasOneOwner, PTL DEF Spec
=============================================================================
