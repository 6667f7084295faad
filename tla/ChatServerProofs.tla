-------------------------- MODULE ChatServerProofs --------------------------
(* Proofs about ChatServer for any number of clients, workers, user names, *)
(* receivers, lines and peers that hang up.                                *)
EXTENDS ChatServer, SequencesExt, SequenceTheorems, TLAPS

-----------------------------------------------------------------------------
(* What the operations of the linked lists do to the sequence of their     *)
(* elements.                                                               *)

\* No two places of a list hold the same.
Injective(s) == \A i, j \in DOMAIN s : s[i] = s[j] => i = j

\* What task_queue_enqueue and client_list_add do to a list.
LEMMA AppendFacts ==
  ASSUME NEW S, NEW s \in Seq(S), NEW e \in S
  PROVE  /\ Append(s, e) \in Seq(S)
         /\ Len(s) \in Nat /\ Len(Append(s, e)) = Len(s) + 1
         /\ DOMAIN s = 1 .. Len(s) /\ DOMAIN Append(s, e) = 1 .. Len(s) + 1
         /\ \A i \in 1 .. Len(s) : Append(s, e)[i] = s[i]
         /\ Append(s, e)[Len(s) + 1] = e
         /\ Range(Append(s, e)) = Range(s) \cup {e}
<1>1. /\ Append(s, e) \in Seq(S) /\ Len(Append(s, e)) = Len(s) + 1
      /\ \A i \in 1 .. Len(s) : Append(s, e)[i] = s[i]
      /\ Append(s, e)[Len(s) + 1] = e
  BY AppendProperties
<1>2. Len(s) \in Nat /\ DOMAIN s = 1 .. Len(s) /\ DOMAIN Append(s, e) = 1 .. Len(s) + 1
  BY <1>1, LenProperties
<1>3. Range(Append(s, e)) = Range(s) \cup {e}
  <2>1. 1 .. Len(s) + 1 = (1 .. Len(s)) \cup {Len(s) + 1}
    BY <1>2
  <2> HIDE <1>2
  <2>2. Range(Append(s, e)) = {Append(s, e)[i] : i \in 1 .. Len(s)} \cup {Append(s, e)[Len(s) + 1]}
    BY <1>2, <2>1 DEF Range
  <2> QED
    BY <1>1, <1>2, <2>2 DEF Range
<1> QED
  BY <1>1, <1>2, <1>3

\* What task_queue_gettask does to a list that is not empty.
LEMMA TailFacts ==
  ASSUME NEW S, NEW s \in Seq(S), s # <<>>
  PROVE  /\ Head(s) \in S /\ 1 \in DOMAIN s /\ Head(s) = s[1]
         /\ Tail(s) \in Seq(S) /\ Len(Tail(s)) = Len(s) - 1 /\ Len(s) \in Nat
         /\ DOMAIN s = 1 .. Len(s) /\ DOMAIN Tail(s) = 1 .. Len(s) - 1
         /\ \A i \in 1 .. Len(s) - 1 : i + 1 \in 1 .. Len(s) /\ Tail(s)[i] = s[i + 1]
<1>1. Len(s) \in Nat /\ Len(s) # 0 /\ DOMAIN s = 1 .. Len(s)
  BY LenProperties, EmptySeq
<1>2. Head(s) = s[1]
  OBVIOUS
<1>3. Head(s) \in S /\ Tail(s) \in Seq(S) /\ Len(Tail(s)) = Len(s) - 1
      /\ \A i \in 1 .. Len(Tail(s)) : Tail(s)[i] = s[i + 1]
  BY HeadTailProperties
<1>4. DOMAIN Tail(s) = 1 .. Len(Tail(s))
  BY <1>3, LenProperties
<1> QED
  BY <1>1, <1>2, <1>3, <1>4

\* What client_list_remove does to a list of different clients.
LEMMA RemoveFacts ==
  ASSUME NEW S, NEW s \in Seq(S), Injective(s), NEW k \in DOMAIN s
  PROVE  /\ RemoveAt(s, k) \in Seq(S)
         /\ Len(s) \in Nat /\ DOMAIN s = 1 .. Len(s)
         /\ Len(RemoveAt(s, k)) = Len(s) - 1 /\ DOMAIN RemoveAt(s, k) = 1 .. Len(s) - 1
         /\ \A i \in 1 .. Len(s) - 1 : RemoveAt(s, k)[i] = IF i < k THEN s[i] ELSE s[i + 1]
         /\ Range(RemoveAt(s, k)) = Range(s) \ {s[k]}
         /\ Injective(RemoveAt(s, k))
<1>1. Len(s) \in Nat /\ DOMAIN s = 1 .. Len(s) /\ \A i \in 1 .. Len(s) : s[i] \in S
  BY LenProperties, ElementOfSeq
<1>2. k \in 1 .. Len(s)
  BY <1>1
<1> DEFINE a == SubSeq(s, 1, k - 1)
           b == SubSeq(s, k + 1, Len(s))
<1>3. a \in Seq(S) /\ Len(a) = k - 1 /\ \A i \in 1 .. k - 1 : a[i] = s[i]
  <2>1. \A i \in 1 .. k - 1 : s[i] \in S
    BY <1>1, <1>2
  <2>2. /\ a \in Seq(S)
        /\ Len(a) = IF 1 <= k - 1 THEN k - 1 - 1 + 1 ELSE 0
        /\ \A i \in 1 .. k - 1 - 1 + 1 : a[i] = s[1 + i - 1]
    <3> HIDE DEF a
    <3>1. 1 \in Int /\ k - 1 \in Int
      BY <1>1, <1>2
    <3> QED
      BY <2>1, <3>1, SubSeqProperties DEF a
  <2> HIDE DEF a
  <2> QED
    BY <1>1, <1>2, <2>2
<1>4. b \in Seq(S) /\ Len(b) = Len(s) - k /\ \A i \in 1 .. Len(s) - k : b[i] = s[k + i]
  <2>1. \A i \in k + 1 .. Len(s) : s[i] \in S
    BY <1>1, <1>2
  <2>2. /\ b \in Seq(S)
        /\ Len(b) = IF k + 1 <= Len(s) THEN Len(s) - (k + 1) + 1 ELSE 0
        /\ \A i \in 1 .. Len(s) - (k + 1) + 1 : b[i] = s[k + 1 + i - 1]
    <3>1. k + 1 \in Int /\ Len(s) \in Int
      BY <1>1, <1>2
    <3> QED
      BY <2>1, <3>1, SubSeqProperties
  <2> HIDE DEF b
  <2>3. Len(b) = Len(s) - k
    BY <1>1, <1>2, <2>2
  <2>4. \A i \in 1 .. Len(s) - k : i \in 1 .. Len(s) - (k + 1) + 1 /\ k + 1 + i - 1 = k + i
    BY <1>1, <1>2
  <2>5. \A i \in 1 .. Len(s) - k : b[i] = s[k + i]
    BY <2>2, <2>4
  <2> QED
    BY <2>2, <2>3, <2>5
<1>5. RemoveAt(s, k) = a \o b
  BY DEF RemoveAt
<1> HIDE DEF a, b
<1>6. /\ a \o b \in Seq(S) /\ Len(a \o b) = Len(s) - 1
      /\ \A i \in 1 .. Len(s) - 1 : (a \o b)[i] = IF i <= k - 1 THEN a[i] ELSE b[i - (k - 1)]
  <2>1. /\ a \o b \in Seq(S) /\ Len(a \o b) = Len(a) + Len(b)
        /\ \A i \in 1 .. Len(a) + Len(b) : (a \o b)[i] = IF i <= Len(a) THEN a[i] ELSE b[i - Len(a)]
    BY <1>3, <1>4, ConcatProperties
  <2>2. Len(a) + Len(b) = Len(s) - 1
    BY <1>1, <1>2, <1>3, <1>4
  <2> QED
    BY <1>3, <2>1, <2>2
<1>7. \A i \in 1 .. Len(s) - 1 : (a \o b)[i] = IF i < k THEN s[i] ELSE s[i + 1]
  <2> SUFFICES ASSUME NEW i \in 1 .. Len(s) - 1
               PROVE  (a \o b)[i] = IF i < k THEN s[i] ELSE s[i + 1]
    OBVIOUS
  <2>1. (a \o b)[i] = IF i <= k - 1 THEN a[i] ELSE b[i - (k - 1)]
    BY <1>6
  <2>2. CASE i < k
    <3>1. i <= k - 1 /\ i \in 1 .. k - 1
      BY <1>1, <1>2, <2>2
    <3> QED
      BY <1>3, <2>1, <2>2, <3>1
  <2>3. CASE ~(i < k)
    <3>1. ~(i <= k - 1) /\ i - (k - 1) \in 1 .. Len(s) - k /\ k + (i - (k - 1)) = i + 1
      BY <1>1, <1>2, <2>3
    <3>2. b[i - (k - 1)] = s[k + (i - (k - 1))]
      BY <1>4, <3>1
    <3> QED
      BY <2>1, <2>3, <3>1, <3>2
  <2> QED
    BY <2>2, <2>3
<1> DEFINE r == RemoveAt(s, k)
<1>8. /\ r \in Seq(S) /\ Len(r) = Len(s) - 1
      /\ \A i \in 1 .. Len(s) - 1 : r[i] = IF i < k THEN s[i] ELSE s[i + 1]
  BY <1>5, <1>6, <1>7, Zenon
<1> HIDE DEF r
<1>9. DOMAIN r = 1 .. Len(s) - 1
  BY <1>8, LenProperties
<1>10. Range(r) = Range(s) \ {s[k]}
  <2>1. \A i \in 1 .. Len(s) - 1 : \E j \in 1 .. Len(s) : j # k /\ r[i] = s[j]
    <3> SUFFICES ASSUME NEW i \in 1 .. Len(s) - 1
                 PROVE  \E j \in 1 .. Len(s) : j # k /\ r[i] = s[j]
      OBVIOUS
    <3>1. i \in 1 .. Len(s) /\ i + 1 \in 1 .. Len(s)
      BY <1>1
    <3>2. CASE i < k
      BY <1>8, <3>1, <3>2
    <3>3. CASE ~(i < k)
      <4>1. i + 1 # k
        BY <1>1, <1>2, <3>3
      <4> QED
        BY <1>8, <3>1, <3>3, <4>1
    <3> QED
      BY <3>2, <3>3
  <2>2. \A j \in 1 .. Len(s) : j # k => \E i \in 1 .. Len(s) - 1 : r[i] = s[j]
    <3> SUFFICES ASSUME NEW j \in 1 .. Len(s), j # k
                 PROVE  \E i \in 1 .. Len(s) - 1 : r[i] = s[j]
      OBVIOUS
    <3>1. CASE j < k
      <4>1. j \in 1 .. Len(s) - 1
        BY <1>1, <1>2, <3>1
      <4> QED
        BY <1>8, <3>1, <4>1
    <3>2. CASE ~(j < k)
      <4>1. j - 1 \in 1 .. Len(s) - 1 /\ ~(j - 1 < k) /\ j - 1 + 1 = j
        BY <1>1, <1>2, <3>2
      <4>2. r[j - 1] = s[j - 1 + 1]
        BY <1>8, <4>1
      <4> QED
        BY <4>1, <4>2
    <3> QED
      BY <3>1, <3>2
  <2>3. \A j \in 1 .. Len(s) : s[j] = s[k] => j = k
    BY <1>1, <1>2 DEF Injective
  <2>4. Range(r) = {r[i] : i \in 1 .. Len(s) - 1} /\ Range(s) = {s[j] : j \in 1 .. Len(s)}
    BY <1>1, <1>9 DEF Range
  <2>5. ASSUME NEW x \in Range(r) PROVE x \in Range(s) \ {s[k]}
    BY <2>1, <2>3, <2>4
  <2>6. ASSUME NEW x \in Range(s) \ {s[k]} PROVE x \in Range(r)
    BY <2>2, <2>4
  <2> QED
    BY <2>5, <2>6
<1>11. Injective(r)
  <2> SUFFICES ASSUME NEW i \in 1 .. Len(s) - 1, NEW j \in 1 .. Len(s) - 1, r[i] = r[j]
               PROVE  i = j
    BY <1>9 DEF Injective
  <2>1. /\ i \in 1 .. Len(s) /\ i + 1 \in 1 .. Len(s)
        /\ j \in 1 .. Len(s) /\ j + 1 \in 1 .. Len(s)
    BY <1>1
  <2>2. \A x, y \in 1 .. Len(s) : s[x] = s[y] => x = y
    BY <1>1 DEF Injective
  <2>3. (IF i < k THEN s[i] ELSE s[i + 1]) = (IF j < k THEN s[j] ELSE s[j + 1])
    BY <1>8
  <2> QED
    BY <1>2, <2>1, <2>2, <2>3
<1> QED
  BY <1>1, <1>8, <1>9, <1>10, <1>11 DEF r

-----------------------------------------------------------------------------

(* The inductive invariant.                                                *)

MainLabels == {"accept", "add"}
SessionLabels == {"none", "listen", "login", "announce", "bye", "remove", "gone"}
WorkerLabels == {"idle", "format", "begin", "walk", "step", "copy", "reply"}

\* What TypeOK leaves open: which functions pc and got are.
ShapeInv ==
  /\ pc \in [Threads -> MainLabels \cup SessionLabels \cup WorkerLabels]
  /\ DOMAIN got = Clients

\* The client under construction is not listed and has no listener yet.
FreshInv ==
  /\ fresh = NULL <=> pc[Main] = "accept"
  /\ fresh # NULL => pc[fresh] = "none"

\* The list has exactly the clients whose listener runs, each once.
RosterInv ==
  /\ \A c \in Clients : c \in Range(roster) <=> pc[c] \notin {"none", "gone"}
  /\ \A c \in Clients : c \in freed <=> pc[c] = "gone"
  /\ \A i, j \in DOMAIN roster : roster[i] = roster[j] => i = j

\* What a client has said so far: nothing, the request for the listing, its
\* announcement and perhaps more, or its farewell.
Silent(c) == Len(log[c]) = 0
Listed(c) == Len(log[c]) = 1
Speaking(c) == Len(log[c]) >= 2 /\ Last(log[c]).kind \in {"conn", "text"} /\ name[c] \in Names
HasLeft(c) == Len(log[c]) >= 2 /\ Last(log[c]).kind = "disconn" /\ name[c] \in Names

\* Where a listener is tells what its client has said.
InSession(c) ==
  /\ pc[c] = "none" => ~LoggedIn(c) /\ IF c = fresh THEN Listed(c) ELSE Silent(c)
  /\ pc[c] = "listen" => IF LoggedIn(c) THEN Speaking(c) ELSE Listed(c)
  /\ pc[c] = "login" => LoggedIn(c) /\ Listed(c)
  /\ pc[c] = "announce" => LoggedIn(c) /\ Listed(c) /\ name[c] \in Names
  /\ pc[c] = "bye" => Speaking(c)
  /\ pc[c] \in {"remove", "gone"} => HasLeft(c)

SessionInv == \A c \in Clients : InSession(c)

\* The first task of a client, and no other, asks for the listing.
LogInv ==
  \A c \in Clients : \A no \in DOMAIN log[c] : log[c][no].kind = "list" <=> no = 1

\* A task is one of those its creator made.
Logged(t) == t.no \in DOMAIN log[t.from] /\ log[t.from][t.no].kind = t.kind

QueueInv == \A i \in DOMAIN queue : Logged(queue[i])

\* A worker has a task unless it is idle, of the kind its place in the code is for.
JobInv ==
  \A w \in Workers :
    /\ pc[w] = "idle" <=> job[w] = NULL
    /\ pc[w] # "idle" => Logged(job[w])
    /\ pc[w] \in {"copy", "reply"} => job[w].kind = "list"
    /\ pc[w] \in {"format", "begin", "walk", "step"} => job[w].kind # "list"

\* A walk stands at a client that is listed, or was freed under it.
WalkInv ==
  \A w \in Workers :
    /\ at[w] # NULL <=> pc[w] \in {"walk", "step"}
    /\ at[w] # NULL => at[w] \in Range(roster) \cup freed

\* The text of a message is the name of its sender, as long as that is there.
TextInv ==
  \A w \in Workers :
    pc[w] \in {"begin", "walk", "step"} /\ job[w].from \notin freed
      => text[w] = name[job[w].from]

\* So it is in the messages that arrived, which were all asked for by a client
\* that had logged in.
GotInv ==
  \A d \in Clients : \A m \in DOMAIN got[d] :
    m.kind # "list" =>
      /\ Len(log[m.from]) >= 2
      /\ m.from \notin freed => m.text = name[m.from]

\* A client created before another is in the list by the time that is copied.
BeforeInv == \A c \in Clients : \A d \in before[c] : pc[d] # "none"

IInv ==
  /\ TypeOK /\ ShapeInv /\ FreshInv /\ RosterInv /\ SessionInv /\ LogInv /\ QueueInv
  /\ JobInv /\ WalkInv /\ TextInv /\ GotInv /\ BeforeInv /\ ListingComplete

-----------------------------------------------------------------------------
(* Lemmas about steps.                                                     *)

LEMMA Labels ==
  /\ Main \notin Clients \cup Workers /\ Clients \cap Workers = {}
  /\ Threads = {Main} \cup Clients \cup Workers
  /\ NULL \notin Threads \cup TaskSet \cup Names \cup Receivers \cup {Everybody, Address}
  BY ChatAssumption DEF ChatAssumption, Threads

\* What a task that is created adds to the queue and to the log.
LEMMA EnqueueFacts ==
  ASSUME TypeOK, NEW c \in Clients, NEW kind \in TaskKinds,
         NEW to \in Receivers \cup {Everybody, NULL}, Enqueue(c, kind, to)
  PROVE  /\ queue' \in Seq(TaskSet)
         /\ log' \in [Clients -> Seq([kind : TaskKinds, audience : SUBSET Clients])]
         /\ DOMAIN queue' = DOMAIN queue \cup {Len(queue) + 1}
         /\ \A i \in DOMAIN queue : queue'[i] = queue[i]
         /\ queue'[Len(queue) + 1] = [kind |-> kind, from |-> c, to |-> to, no |-> Len(log[c]) + 1]
         /\ Len(log[c]) \in Nat /\ Len(log'[c]) = Len(log[c]) + 1
         /\ DOMAIN log[c] = 1 .. Len(log[c]) /\ DOMAIN log'[c] = 1 .. Len(log[c]) + 1
         /\ \A no \in DOMAIN log[c] : log'[c][no] = log[c][no]
         /\ log'[c][Len(log[c]) + 1] = [kind |-> kind, audience |-> Audience(to)]
         /\ \A d \in Clients \ {c} : log'[d] = log[d]
<1> DEFINE t == [kind |-> kind, from |-> c, to |-> to, no |-> Len(log[c]) + 1]
           e == [kind |-> kind, audience |-> Audience(to)]
           Entries == [kind : TaskKinds, audience : SUBSET Clients]
<1>1. log[c] \in Seq(Entries) /\ queue \in Seq(TaskSet)
  BY DEF TypeOK
<1>2. e \in Entries
  <2>1. \A d \in Range(roster) : d \in Clients
    BY LenProperties, ElementOfSeq DEF TypeOK, Range
  <2> QED
    BY <2>1 DEF Audience
<1>3. t \in TaskSet
  <2>1. Len(log[c]) + 1 \in Nat
    BY <1>1, LenProperties
  <2> QED
    BY <2>1 DEF TaskSet
<1> HIDE DEF t, e, Entries
<1>4. /\ Append(log[c], e) \in Seq(Entries)
      /\ Len(log[c]) \in Nat /\ Len(Append(log[c], e)) = Len(log[c]) + 1
      /\ DOMAIN log[c] = 1 .. Len(log[c]) /\ DOMAIN Append(log[c], e) = 1 .. Len(log[c]) + 1
      /\ \A i \in 1 .. Len(log[c]) : Append(log[c], e)[i] = log[c][i]
      /\ Append(log[c], e)[Len(log[c]) + 1] = e
  BY <1>1, <1>2, AppendFacts
<1>5. /\ Append(queue, t) \in Seq(TaskSet)
      /\ Len(queue) \in Nat
      /\ DOMAIN queue = 1 .. Len(queue) /\ DOMAIN Append(queue, t) = 1 .. Len(queue) + 1
      /\ \A i \in 1 .. Len(queue) : Append(queue, t)[i] = queue[i]
      /\ Append(queue, t)[Len(queue) + 1] = t
  BY <1>1, <1>3, AppendFacts
<1>6. queue' = Append(queue, t) /\ log' = [log EXCEPT ![c] = Append(@, e)]
  BY Zenon DEF Enqueue, Sender, t, e
<1>7. log'[c] = Append(log[c], e) /\ \A d \in Clients \ {c} : log'[d] = log[d]
  <2>1. log \in [Clients -> Seq(Entries)]
    BY DEF TypeOK, Entries
  <2> QED
    BY <1>6, <2>1, Zenon
<1>8. log' \in [Clients -> Seq(Entries)]
  <2>1. log \in [Clients -> Seq(Entries)]
    BY DEF TypeOK, Entries
  <2> QED
    BY <1>4, <1>6, <2>1, Zenon
<1>9. (1 .. Len(queue)) \cup {Len(queue) + 1} = 1 .. Len(queue) + 1
  BY <1>5
<1>10. /\ queue' \in Seq(TaskSet)
       /\ DOMAIN queue' = DOMAIN queue \cup {Len(queue) + 1}
       /\ \A i \in DOMAIN queue : queue'[i] = queue[i]
       /\ queue'[Len(queue) + 1] = t
  BY <1>5, <1>6, <1>9, Zenon
<1>11. /\ Len(log'[c]) = Len(log[c]) + 1
       /\ DOMAIN log'[c] = 1 .. Len(log[c]) + 1
       /\ \A no \in DOMAIN log[c] : log'[c][no] = log[c][no]
       /\ log'[c][Len(log[c]) + 1] = e
  BY <1>4, <1>7, Zenon
<1> QED
  BY <1>4, <1>7, <1>8, <1>10, <1>11, Zenon DEF t, e, Entries

ClientStep == MainStep \/ \E c \in Clients : SessionStep(c) \/ InputStep(c)

\* The accept loop and the listeners leave the workers alone.
LEMMA ClientStepFrame ==
  ASSUME TypeOK, ShapeInv, FreshInv, ClientStep
  PROVE  /\ UNCHANGED <<job, at, text, got>>
         /\ \A w \in Workers : pc'[w] = pc[w]
<1> USE Labels DEF TypeOK, ShapeInv, FreshInv, Goto, At
<1>1. CASE Accept
  BY <1>1 DEF Accept, workers
<1>2. CASE AddToList
  BY <1>2 DEF AddToList, workers
<1>3. ASSUME NEW c \in Clients, SessionStep(c)
      PROVE  UNCHANGED <<job, at, text, got>> /\ \A w \in Workers : pc'[w] = pc[w]
  BY <1>3 DEF SessionStep, LoginName, Announce, SayBye, RemoveSelf, workers
<1>4. ASSUME NEW c \in Clients, InputStep(c)
      PROVE  UNCHANGED <<job, at, text, got>> /\ \A w \in Workers : pc'[w] = pc[w]
  BY <1>4 DEF InputStep, LoginFlag, Say, Refuse, Leave, Blank, HangUp, ReadLine, workers
<1> QED
  BY <1>1, <1>2, <1>3, <1>4 DEF ClientStep, MainStep

\* The workers leave the sessions and the list alone.
LEMMA WorkerStepFrame ==
  ASSUME ShapeInv, NEW w \in Workers, WorkerStep(w)
  PROVE  /\ UNCHANGED <<roster, flags, name, lines, log, fresh, before, hungUp, freed>>
         /\ pc' \in [Threads -> MainLabels \cup SessionLabels \cup WorkerLabels]
         /\ \A t \in Threads : t # w => pc'[t] = pc[t]
         /\ pc'[w] \in WorkerLabels
<1> USE Labels DEF ShapeInv, Goto, At, sessions, WorkerLabels
<1>1. CASE Take(w)
  BY <1>1 DEF Take
<1>2. CASE Format(w)
  BY <1>2 DEF Format
<1>3. CASE Begin(w)
  BY <1>3 DEF Begin, Move, Done
<1>4. CASE Visit(w)
  BY <1>4 DEF Visit
<1>5. CASE Step(w)
  BY <1>5 DEF Step, Move, Done
<1>6. CASE CopyList(w)
  BY <1>6 DEF CopyList
<1>7. CASE SendList(w)
  BY <1>7 DEF SendList, Done
<1> QED
  BY <1>1, <1>2, <1>3, <1>4, <1>5, <1>6, <1>7 DEF WorkerStep

\* What was said stays said, a name that was announced stays, and who was listed
\* is listed until freed.
Grows ==
  \A c \in Clients :
    /\ \A no \in DOMAIN log[c] : no \in DOMAIN log'[c] /\ log'[c][no] = log[c][no]
    /\ Len(log[c]) >= 2 => Len(log'[c]) >= 2 /\ name'[c] = name[c]
    /\ Len(log[c]) >= 1 => before'[c] = before[c]
    /\ c \in freed => c \in freed'
    /\ c \in Range(roster) \cup freed => c \in Range(roster)' \cup freed'

Sessions == FreshInv /\ RosterInv /\ SessionInv /\ LogInv /\ BeforeInv

LEMMA StepSessions ==
  ASSUME TypeOK, ShapeInv, Sessions, [Next]_vars
  PROVE  Sessions' /\ Grows /\ ShapeInv'
<1> USE Labels DEF MainLabels, SessionLabels, WorkerLabels
<1>a. FreshInv /\ RosterInv /\ SessionInv /\ LogInv /\ BeforeInv
  BY DEF Sessions
<1>b. /\ pc \in [Threads -> MainLabels \cup SessionLabels \cup WorkerLabels]
      /\ \A c \in Clients : pc[c] \in SessionLabels
      /\ name \in [Clients -> Names \cup {Address}]
      /\ flags \in [Clients -> SUBSET {"connected", "loggedIn"}]
      /\ before \in [Clients -> SUBSET Clients]
      /\ fresh \in Clients \cup {NULL}
      /\ roster \in Seq(Clients)
  BY DEF ShapeInv, TypeOK
<1>c. \A c \in Clients : Len(log[c]) \in Nat /\ DOMAIN log[c] = 1 .. Len(log[c])
  BY LenProperties DEF TypeOK
<1>d. DOMAIN roster = 1 .. Len(roster) /\ Injective(roster)
  BY <1>a, <1>b, LenProperties DEF RosterInv, Injective
<1>1. CASE Accept
  <2>1. PICK c \in Clients \ Created :
          /\ fresh' = c
          /\ flags' = [flags EXCEPT ![c] = {"connected"}]
          /\ before' = [before EXCEPT ![c] = Created \ {NULL}]
          /\ Enqueue(c, "list", NULL)
    BY <1>1 DEF Accept
  <2>2. /\ pc[Main] = "accept" /\ pc' = [pc EXCEPT ![Main] = "add"]
        /\ UNCHANGED <<roster, name, freed, got>>
    BY <1>1 DEF Accept, At, Goto
  <2>3. c \in Clients /\ pc[c] = "none" /\ c # fresh /\ fresh = NULL
    BY <1>a, <2>2 DEF Created, FreshInv
  <2>4. /\ Len(log[c]) \in Nat /\ Len(log'[c]) = Len(log[c]) + 1
        /\ DOMAIN log[c] = 1 .. Len(log[c]) /\ DOMAIN log'[c] = 1 .. Len(log[c]) + 1
        /\ \A no \in DOMAIN log[c] : log'[c][no] = log[c][no]
        /\ log'[c][Len(log[c]) + 1] = [kind |-> "list", audience |-> Audience(NULL)]
        /\ \A d \in Clients \ {c} : log'[d] = log[d]
    BY <2>1, EnqueueFacts DEF TaskKinds
  <2>5. Len(log[c]) = 0 /\ ~LoggedIn(c)
    BY <1>a, <2>3 DEF SessionInv, InSession, Silent
  <2>6. FreshInv'
    BY <1>b, <2>1, <2>2, <2>3 DEF FreshInv
  <2>7. RosterInv'
    BY <1>a, <1>b, <2>2 DEF RosterInv
  <2>8. SessionInv'
    <3>1. InSession(c)'
      BY <1>b, <2>1, <2>2, <2>3, <2>4, <2>5 DEF InSession, Listed, LoggedIn
    <3>2. ASSUME NEW d \in Clients, d # c PROVE InSession(d)'
      <4>1. InSession(d) /\ d # fresh
        BY <1>a, <2>3 DEF SessionInv
      <4>2. /\ log'[d] = log[d] /\ flags'[d] = flags[d] /\ name'[d] = name[d]
            /\ pc'[d] = pc[d] /\ d # fresh'
        BY <1>b, <2>1, <2>2, <2>4, <3>2
      <4> QED
        BY <4>1, <4>2 DEF InSession, Listed, LoggedIn, Silent, Speaking, HasLeft, Last
    <3> QED
      BY <3>1, <3>2 DEF SessionInv
  <2>9. LogInv'
    BY <1>a, <2>4, <2>5 DEF LogInv
  <2>10. BeforeInv'
    BY <1>a, <1>b, <2>1, <2>2, <2>3 DEF BeforeInv, Created
  <2>11. Grows
    BY <1>b, <2>1, <2>2, <2>4, <2>5 DEF Grows
  <2> QED
    BY <1>b, <2>2, <2>6, <2>7, <2>8, <2>9, <2>10, <2>11 DEF Sessions, ShapeInv
<1>2. CASE AddToList
  <2>1. /\ pc[Main] = "add" /\ pc' = [pc EXCEPT ![fresh] = "listen", ![Main] = "accept"]
        /\ fresh' = NULL /\ UNCHANGED <<flags, name, log, before, freed, got>>
        /\ roster' = Append(roster, fresh)
    BY <1>2 DEF AddToList, At, sessions
  <2>2. fresh \in Clients /\ pc[fresh] = "none"
    BY <1>a, <1>b, <2>1 DEF FreshInv
  <2>3. \A t \in Threads : pc'[t] = IF t = fresh THEN "listen" ELSE IF t = Main THEN "accept" ELSE pc[t]
    BY <1>b, <2>1, <2>2
  <2>4. fresh \notin Range(roster) /\ fresh \notin freed
    BY <1>a, <2>2 DEF RosterInv
  <2>5. /\ Len(roster) \in Nat /\ DOMAIN Append(roster, fresh) = 1 .. Len(roster) + 1
        /\ \A i \in 1 .. Len(roster) : Append(roster, fresh)[i] = roster[i]
        /\ Append(roster, fresh)[Len(roster) + 1] = fresh
        /\ Range(Append(roster, fresh)) = Range(roster) \cup {fresh}
    BY <1>b, <2>2, AppendFacts
  <2>6. /\ DOMAIN roster' = 1 .. Len(roster) + 1
        /\ \A i \in 1 .. Len(roster) : roster'[i] = roster[i]
        /\ roster'[Len(roster) + 1] = fresh
        /\ Range(roster)' = Range(roster) \cup {fresh}
    BY <2>1, <2>5, Zenon
  <2>7. FreshInv'
    BY <1>b, <2>1, <2>2, <2>3 DEF FreshInv
  <2>8. RosterInv'
    <3>1. \A i \in 1 .. Len(roster) : roster[i] # fresh
      BY <1>d, <2>4 DEF Range
    <3>2. \A i, j \in DOMAIN roster' : roster'[i] = roster'[j] => i = j
      BY <1>a, <1>d, <2>5, <2>6, <3>1 DEF RosterInv
    <3>3. \A c \in Clients : c \in Range(roster)' <=> pc'[c] \notin {"none", "gone"}
      BY <1>a, <2>2, <2>3, <2>6 DEF RosterInv
    <3>4. \A c \in Clients : c \in freed' <=> pc'[c] = "gone"
      <4> SUFFICES ASSUME NEW c \in Clients PROVE c \in freed' <=> pc'[c] = "gone"
        OBVIOUS
      <4>1. freed' = freed /\ (c \in freed <=> pc[c] = "gone")
        BY <1>a, <2>1 DEF RosterInv
      <4>2. c \in Threads /\ c # Main
        OBVIOUS
      <4> QED
        BY <2>2, <2>3, <4>1, <4>2
    <3> QED
      BY <3>2, <3>3, <3>4 DEF RosterInv
  <2>9. SessionInv'
    <3>1. ASSUME NEW d \in Clients PROVE InSession(d)'
      <4>1. InSession(d) /\ InSession(fresh)
        BY <1>a, <2>2 DEF SessionInv
      <4>2. /\ log'[d] = log[d] /\ flags'[d] = flags[d] /\ name'[d] = name[d]
            /\ pc'[d] = (IF d = fresh THEN "listen" ELSE pc[d]) /\ d # fresh'
        BY <1>b, <2>1, <2>3
      <4> QED
        BY <2>2, <4>1, <4>2 DEF InSession, Listed, LoggedIn, Silent, Speaking, HasLeft, Last
    <3> QED
      BY <3>1 DEF SessionInv
  <2>10. LogInv' /\ Grows
    BY <1>a, <2>1, <2>6 DEF LogInv, Grows
  <2>11. BeforeInv'
    BY <1>a, <1>b, <2>1, <2>3 DEF BeforeInv
  <2> QED
    BY <1>b, <2>1, <2>2, <2>7, <2>8, <2>9, <2>10, <2>11 DEF Sessions, ShapeInv
<1>3. ASSUME NEW c \in Clients, UNCHANGED <<roster, freed, fresh, before>>,
             \A t \in Threads : t # c => pc'[t] = pc[t],
             pc[c] \notin {"none", "gone"}, pc'[c] \notin {"none", "gone"}
      PROVE  FreshInv' /\ RosterInv' /\ BeforeInv'
  <2>1. FreshInv'
    BY <1>a, <1>b, <1>3 DEF FreshInv
  <2>2. RosterInv'
    BY <1>a, <1>b, <1>3 DEF RosterInv
  <2>3. BeforeInv'
    BY <1>a, <1>b, <1>3 DEF BeforeInv
  <2> QED
    BY <2>1, <2>2, <2>3
<1>4. ASSUME NEW c \in Clients, UNCHANGED fresh, InSession(c)',
             \A d \in Clients : d # c =>
               log'[d] = log[d] /\ flags'[d] = flags[d] /\ name'[d] = name[d] /\ pc'[d] = pc[d]
      PROVE  SessionInv'
  <2> SUFFICES ASSUME NEW d \in Clients, d # c PROVE InSession(d)'
    BY <1>4 DEF SessionInv
  <2>1. InSession(d)
    BY <1>a DEF SessionInv
  <2> QED
    BY <1>4, <2>1 DEF InSession, Listed, LoggedIn, Silent, Speaking, HasLeft, Last
<1>5. ASSUME NEW c \in Clients, LoginFlag(c)
      PROVE  Sessions' /\ Grows /\ ShapeInv'
  <2>1. /\ pc[c] = "listen" /\ pc' = [pc EXCEPT ![c] = "login"] /\ ~LoggedIn(c)
        /\ flags' = [flags EXCEPT ![c] = @ \cup {"loggedIn"}]
        /\ UNCHANGED <<roster, freed, fresh, before, log, name, got>>
    BY <1>5 DEF LoginFlag, ReadLine, At, Goto, MayLogIn
  <2>2. InSession(c)'
    BY <1>a, <1>b, <2>1 DEF SessionInv, InSession, Listed, LoggedIn
  <2>3. FreshInv' /\ RosterInv' /\ BeforeInv' /\ SessionInv'
    BY <1>b, <1>3, <1>4, <2>1, <2>2
  <2>4. LogInv' /\ Grows
    BY <1>a, <2>1 DEF LogInv, Grows
  <2> QED
    BY <1>b, <2>1, <2>3, <2>4 DEF Sessions, ShapeInv
<1>6. ASSUME NEW c \in Clients, LoginName(c)
      PROVE  Sessions' /\ Grows /\ ShapeInv'
  <2>1. /\ pc[c] = "login" /\ pc' = [pc EXCEPT ![c] = "announce"]
        /\ \E n \in Names : name' = [name EXCEPT ![c] = n]
        /\ UNCHANGED <<roster, freed, fresh, before, log, flags, got>>
    BY <1>6 DEF LoginName, At, Goto
  <2>2. InSession(c)' /\ Len(log[c]) = 1
    BY <1>a, <1>b, <2>1 DEF SessionInv, InSession, Listed, LoggedIn
  <2>3. FreshInv' /\ RosterInv' /\ BeforeInv' /\ SessionInv'
    BY <1>b, <1>3, <1>4, <2>1, <2>2
  <2>4. LogInv'
    BY <1>a, <2>1 DEF LogInv
  <2>5. Grows
    <3>1. \A d \in Clients : Len(log[d]) >= 2 => name'[d] = name[d]
      <4>1. ~(Len(log[c]) >= 2)
        BY <2>2
      <4> QED
        BY <1>b, <2>1, <4>1
    <3> QED
      BY <2>1, <3>1 DEF Grows
  <2> QED
    BY <1>b, <2>1, <2>3, <2>4, <2>5 DEF Sessions, ShapeInv
<1>7. ASSUME NEW c \in Clients, Announce(c) \/ Say(c) \/ SayBye(c)
      PROVE  Sessions' /\ Grows /\ ShapeInv'
  <2>1. PICK kind \in TaskKinds \ {"list"}, to \in Receivers \cup {Everybody} :
          /\ Enqueue(c, kind, to)
          /\ \/ pc[c] = "announce" /\ kind = "conn" /\ pc' = [pc EXCEPT ![c] = "listen"]
             \/ pc[c] = "listen" /\ kind = "text" /\ LoggedIn(c) /\ UNCHANGED pc
             \/ pc[c] = "bye" /\ kind = "disconn" /\ pc' = [pc EXCEPT ![c] = "remove"]
    <3>1. CASE Announce(c)
      <4>1. "conn" \in TaskKinds \ {"list"} /\ Enqueue(c, "conn", Everybody)
        BY <3>1 DEF Announce, TaskKinds
      <4>2. pc[c] = "announce" /\ pc' = [pc EXCEPT ![c] = "listen"]
        BY <3>1 DEF Announce, At, Goto
      <4> QED
        BY <4>1, <4>2, Zenon
    <3>2. CASE Say(c)
      <4>1. "text" \in TaskKinds \ {"list"} /\ \E r \in Receivers \cup {Everybody} : Enqueue(c, "text", r)
        BY <3>2 DEF Say, TaskKinds
      <4>2. pc[c] = "listen" /\ LoggedIn(c) /\ UNCHANGED pc
        BY <3>2 DEF Say, At, ReadLine, MaySay
      <4> QED
        BY <4>1, <4>2, Zenon
    <3>3. CASE SayBye(c)
      <4>1. "disconn" \in TaskKinds \ {"list"} /\ Enqueue(c, "disconn", Everybody)
        BY <3>3 DEF SayBye, TaskKinds
      <4>2. pc[c] = "bye" /\ pc' = [pc EXCEPT ![c] = "remove"]
        BY <3>3 DEF SayBye, At, Goto
      <4> QED
        BY <4>1, <4>2, Zenon
    <3> QED
      BY <1>7, <3>1, <3>2, <3>3
  <2>2. UNCHANGED <<roster, freed, fresh, before, name, flags, got>>
    BY <1>7 DEF Announce, Say, SayBye
  <2>3. /\ Len(log[c]) \in Nat /\ Len(log'[c]) = Len(log[c]) + 1
        /\ DOMAIN log[c] = 1 .. Len(log[c]) /\ DOMAIN log'[c] = 1 .. Len(log[c]) + 1
        /\ \A no \in DOMAIN log[c] : log'[c][no] = log[c][no]
        /\ log'[c][Len(log[c]) + 1] = [kind |-> kind, audience |-> Audience(to)]
        /\ \A d \in Clients \ {c} : log'[d] = log[d]
    <3>1. kind \in TaskKinds /\ to \in Receivers \cup {Everybody, NULL} /\ Enqueue(c, kind, to)
      BY <2>1
    <3> QED
      BY <3>1, EnqueueFacts
  <2>4. Last(log'[c]).kind = kind
    BY <2>3 DEF Last
  <2>5. Len(log[c]) >= 1 /\ name[c] \in Names
    BY <1>a, <2>1 DEF SessionInv, InSession, Listed, Speaking
  <2>6. Len(log'[c]) >= 2
    BY <2>3, <2>5
  <2>7. InSession(c)'
    <3>1. CASE pc[c] = "announce" /\ kind = "conn" /\ pc' = [pc EXCEPT ![c] = "listen"]
      <4>1. LoggedIn(c)' /\ pc'[c] = "listen"
        BY <1>a, <1>b, <2>2, <3>1 DEF SessionInv, InSession, LoggedIn
      <4> QED
        BY <2>2, <2>4, <2>5, <2>6, <3>1, <4>1 DEF InSession, Speaking
    <3>2. CASE pc[c] = "listen" /\ kind = "text" /\ LoggedIn(c) /\ UNCHANGED pc
      BY <2>2, <2>4, <2>5, <2>6, <3>2 DEF InSession, Speaking, LoggedIn
    <3>3. CASE pc[c] = "bye" /\ kind = "disconn" /\ pc' = [pc EXCEPT ![c] = "remove"]
      <4>1. pc'[c] = "remove"
        BY <1>b, <3>3
      <4> QED
        BY <2>2, <2>4, <2>5, <2>6, <3>3, <4>1 DEF InSession, HasLeft
    <3> QED
      BY <2>1, <3>1, <3>2, <3>3
  <2>8. /\ pc[c] \notin {"none", "gone"} /\ pc'[c] \notin {"none", "gone"}
        /\ \A t \in Threads : t # c => pc'[t] = pc[t]
        /\ pc' \in [Threads -> MainLabels \cup SessionLabels \cup WorkerLabels]
    BY <1>b, <2>1
  <2>9. FreshInv' /\ RosterInv' /\ BeforeInv'
    BY <1>3, <2>2, <2>8
  <2>10. SessionInv'
    BY <1>4, <2>2, <2>3, <2>7, <2>8
  <2>11. LogInv'
    BY <1>a, <2>3, <2>5 DEF LogInv
  <2>12. Grows
    BY <1>b, <2>2, <2>3 DEF Grows
  <2> QED
    BY <2>2, <2>8, <2>9, <2>10, <2>11, <2>12 DEF Sessions, ShapeInv
<1>8. ASSUME NEW c \in Clients, RemoveSelf(c)
      PROVE  Sessions' /\ Grows /\ ShapeInv'
  <2>1. /\ pc[c] = "remove" /\ pc' = [pc EXCEPT ![c] = "gone"]
        /\ freed' = freed \cup {c} /\ roster' = RemoveAt(roster, PositionOf(c))
        /\ UNCHANGED <<flags, name, log, fresh, before, got>>
    BY <1>8 DEF RemoveSelf, At, Goto, sessions, Unlinked
  <2>2. c \in Range(roster)
    BY <1>a, <2>1 DEF RosterInv
  <2>3. PositionOf(c) \in DOMAIN roster /\ roster[PositionOf(c)] = c
    BY <2>2 DEF PositionOf, Range
  <2>4. Range(RemoveAt(roster, PositionOf(c))) = Range(roster) \ {c}
        /\ Injective(RemoveAt(roster, PositionOf(c)))
    BY <1>b, <1>d, <2>3, RemoveFacts
  <2>5. Range(roster)' = Range(roster) \ {c} /\ Injective(roster')
    BY <2>1, <2>4, Zenon
  <2>6. \A t \in Threads : pc'[t] = IF t = c THEN "gone" ELSE pc[t]
    BY <1>b, <2>1
  <2>7. FreshInv'
    BY <1>a, <1>b, <2>1, <2>6 DEF FreshInv
  <2>8. RosterInv'
    <3>1. \A d \in Clients : d \in Range(roster)' <=> pc'[d] \notin {"none", "gone"}
      BY <1>a, <2>5, <2>6 DEF RosterInv
    <3>2. \A d \in Clients : d \in freed' <=> pc'[d] = "gone"
      BY <1>a, <2>1, <2>6 DEF RosterInv
    <3> QED
      BY <2>5, <3>1, <3>2 DEF RosterInv, Injective
  <2>9. SessionInv'
    <3>1. InSession(c)'
      BY <1>a, <1>b, <2>1 DEF SessionInv, InSession, HasLeft, Last
    <3> QED
      BY <1>b, <1>4, <2>1, <3>1
  <2>10. LogInv' /\ Grows
    BY <1>a, <2>1, <2>5 DEF LogInv, Grows
  <2>11. BeforeInv'
    BY <1>a, <1>b, <2>1, <2>6 DEF BeforeInv
  <2> QED
    BY <1>b, <2>1, <2>7, <2>8, <2>9, <2>10, <2>11 DEF Sessions, ShapeInv
<1>9. ASSUME NEW c \in Clients, Leave(c)
      PROVE  Sessions' /\ Grows /\ ShapeInv'
  <2>1. /\ pc[c] = "listen" /\ pc' = [pc EXCEPT ![c] = "bye"] /\ LoggedIn(c)
        /\ flags' = [flags EXCEPT ![c] = @ \ {"connected"}]
        /\ UNCHANGED <<roster, freed, fresh, before, log, name, got>>
    BY <1>9 DEF Leave, ReadLine, At, Goto
  <2>2. InSession(c)'
    BY <1>a, <1>b, <2>1 DEF SessionInv, InSession, Speaking, Last
  <2>3. FreshInv' /\ RosterInv' /\ BeforeInv' /\ SessionInv'
    BY <1>b, <1>3, <1>4, <2>1, <2>2
  <2>4. LogInv' /\ Grows
    BY <1>a, <2>1 DEF LogInv, Grows
  <2> QED
    BY <1>b, <2>1, <2>3, <2>4 DEF Sessions, ShapeInv
<1>10. ASSUME UNCHANGED <<roster, flags, name, log, fresh, before, freed>>,
              DOMAIN got' = Clients,
              pc' \in [Threads -> MainLabels \cup SessionLabels \cup WorkerLabels],
              \A t \in {Main} \cup Clients : pc'[t] = pc[t]
       PROVE  Sessions' /\ Grows /\ ShapeInv'
  <2>1. FreshInv' /\ RosterInv' /\ BeforeInv' /\ LogInv'
    BY <1>a, <1>b, <1>10 DEF FreshInv, RosterInv, BeforeInv, LogInv
  <2>2. SessionInv'
    BY <1>a, <1>10 DEF SessionInv, InSession, Listed, LoggedIn, Silent, Speaking, HasLeft, Last
  <2>3. Grows
    BY <1>10 DEF Grows
  <2> QED
    BY <1>10, <2>1, <2>2, <2>3 DEF Sessions, ShapeInv
<1>11. ASSUME NEW c \in Clients, Refuse(c) \/ Blank(c) \/ HangUp(c)
       PROVE  Sessions' /\ Grows /\ ShapeInv'
  BY <1>10, <1>11 DEF Refuse, Blank, HangUp, sessions, ShapeInv
<1>12. ASSUME NEW w \in Workers, WorkerStep(w)
       PROVE  Sessions' /\ Grows /\ ShapeInv'
  <2>1. DOMAIN got' = Clients
    BY <1>12 DEF WorkerStep, Take, Format, Begin, Visit, Step, CopyList, SendList, Write, ShapeInv
  <2> QED
    BY <1>10, <1>12, <2>1, WorkerStepFrame
<1>13. CASE UNCHANGED vars
  BY <1>10, <1>13 DEF vars, sessions, ShapeInv
<1> QED
  BY <1>1, <1>2, <1>5, <1>6, <1>7, <1>8, <1>9, <1>11, <1>12, <1>13
     DEF Next, MainStep, SessionStep, InputStep

WorkInv == QueueInv /\ JobInv /\ WalkInv /\ TextInv /\ GotInv /\ ListingComplete

StaysLogged(t) == t.no \in DOMAIN log'[t.from] /\ log'[t.from][t.no].kind = t.kind

\* What a logged task says of its creator, and that it stays logged.
LEMMA LoggedFacts ==
  ASSUME TypeOK, LogInv, NEW t \in TaskSet, Logged(t)
  PROVE  /\ t.from \in Clients /\ Len(log[t.from]) >= 1
         /\ t.kind # "list" => Len(log[t.from]) >= 2
         /\ Grows => StaysLogged(t)
<1>1. t.from \in Clients /\ t.no \in DOMAIN log[t.from] /\ log[t.from][t.no].kind = t.kind
  BY DEF TaskSet, Logged
<1>2. Len(log[t.from]) \in Nat /\ DOMAIN log[t.from] = 1 .. Len(log[t.from])
  BY <1>1, LenProperties DEF TypeOK
<1>3. t.kind # "list" => t.no # 1
  BY <1>1 DEF LogInv
<1>4. Grows => StaysLogged(t)
  BY <1>1 DEF Grows, StaysLogged
<1> QED
  BY <1>1, <1>2, <1>3, <1>4

LEMMA StepWork ==
  ASSUME IInv, [Next]_vars, Grows
  PROVE  WorkInv'
<1> USE Labels DEF SessionLabels, WorkerLabels
<1>a. /\ TypeOK /\ ShapeInv /\ LogInv /\ QueueInv /\ JobInv /\ WalkInv /\ TextInv
      /\ GotInv /\ ListingComplete /\ BeforeInv /\ RosterInv /\ FreshInv
  BY DEF IInv
<1>b. /\ queue \in Seq(TaskSet) /\ DOMAIN queue = 1 .. Len(queue) /\ Len(queue) \in Nat
      /\ \A i \in DOMAIN queue : queue[i] \in TaskSet
      /\ job \in [Workers -> TaskSet \cup {NULL}]
      /\ at \in [Workers -> Clients \cup {NULL}]
      /\ text \in [Workers -> Texts]
      /\ pc \in [Threads -> MainLabels \cup SessionLabels \cup WorkerLabels]
      /\ \A w \in Workers : pc[w] \in WorkerLabels
      /\ DOMAIN got = Clients
  BY <1>a, LenProperties, ElementOfSeq DEF TypeOK, ShapeInv
<1>c. \A w \in Workers : pc[w] # "idle" => job[w] \in TaskSet /\ Logged(job[w])
  BY <1>a, <1>b DEF JobInv
<1>d. ASSUME NEW i \in DOMAIN queue PROVE StaysLogged(queue[i])
  BY <1>a, <1>b, LoggedFacts DEF QueueInv
<1>e. ASSUME NEW w \in Workers, pc[w] # "idle" PROVE StaysLogged(job[w])
  BY <1>a, <1>c, <1>e, LoggedFacts
<1> DEFINE Fine(w) ==
             /\ pc'[w] = "idle" <=> job'[w] = NULL
             /\ pc'[w] # "idle" => StaysLogged(job'[w])
             /\ pc'[w] \in {"copy", "reply"} => job'[w].kind = "list"
             /\ pc'[w] \in {"format", "begin", "walk", "step"} => job'[w].kind # "list"
             /\ at'[w] # NULL <=> pc'[w] \in {"walk", "step"}
             /\ at'[w] # NULL => at'[w] \in Range(roster)' \cup freed'
             /\ pc'[w] \in {"begin", "walk", "step"} /\ job'[w].from \notin freed'
                  => text'[w] = name'[job'[w].from]
             /\ pc'[w] = "reply" => before'[job'[w].from] \subseteq text'[w] \cup freed'
<1>f. ASSUME NEW w \in Workers, pc'[w] = pc[w], job'[w] = job[w], at'[w] = at[w], text'[w] = text[w]
      PROVE  Fine(w)
  <2>1. /\ pc'[w] = "idle" <=> job'[w] = NULL
        /\ pc'[w] \in {"copy", "reply"} => job'[w].kind = "list"
        /\ pc'[w] \in {"format", "begin", "walk", "step"} => job'[w].kind # "list"
        /\ at'[w] # NULL <=> pc'[w] \in {"walk", "step"}
    BY <1>a, <1>f DEF JobInv, WalkInv
  <2>2. at'[w] # NULL => at'[w] \in Range(roster)' \cup freed'
    BY <1>a, <1>b, <1>f DEF WalkInv, Grows
  <2>3. ASSUME pc'[w] \in {"begin", "walk", "step"}, job'[w].from \notin freed'
        PROVE  text'[w] = name'[job'[w].from]
    <3>1. /\ job[w] \in TaskSet /\ Logged(job[w]) /\ job[w].kind # "list"
      BY <1>a, <1>c, <1>f, <2>3 DEF JobInv
    <3>2. job[w].from \in Clients /\ Len(log[job[w].from]) >= 2
      BY <1>a, <3>1, LoggedFacts
    <3>3. job[w].from \notin freed /\ name'[job[w].from] = name[job[w].from]
      BY <1>f, <2>3, <3>2 DEF Grows
    <3> QED
      BY <1>a, <1>f, <2>3, <3>3 DEF TextInv
  <2>4. ASSUME pc'[w] = "reply"
        PROVE  before'[job'[w].from] \subseteq text'[w] \cup freed'
    <3>1. job[w].from \in Clients /\ Len(log[job[w].from]) >= 1
      BY <1>a, <1>c, <1>f, <2>4, LoggedFacts
    <3>2. before[job[w].from] \subseteq text[w] \cup freed /\ before[job[w].from] \subseteq Clients
      BY <1>a, <1>f, <2>4, <3>1 DEF ListingComplete, TypeOK
    <3>3. before'[job[w].from] = before[job[w].from] /\ \A d \in Clients : d \in freed => d \in freed'
      BY <3>1 DEF Grows
    <3> QED
      BY <1>f, <3>2, <3>3
  <2> QED
    BY <1>e, <1>f, <2>1, <2>2, <2>3, <2>4
<1>g. ASSUME NEW d \in Clients, NEW m \in DOMAIN got[d], m.kind # "list"
      PROVE  /\ Len(log'[m.from]) >= 2
             /\ m.from \notin freed' => m.text = name'[m.from]
  <2>1. m.from \in Clients
    BY <1>a, <1>g DEF TypeOK
  <2> QED
    BY <1>a, <1>g, <2>1 DEF GotInv, Grows
<1>1. ASSUME UNCHANGED <<job, at, text, got>>, \A w \in Workers : pc'[w] = pc[w]
      PROVE  JobInv' /\ WalkInv' /\ TextInv' /\ GotInv' /\ ListingComplete'
  <2>1. JobInv'
    BY <1>1, <1>f DEF JobInv, Logged, StaysLogged
  <2>2. WalkInv'
    BY <1>1, <1>f DEF WalkInv
  <2>3. TextInv'
    BY <1>1, <1>f DEF TextInv
  <2>4. ListingComplete'
    BY <1>1, <1>f DEF ListingComplete
  <2>5. GotInv'
    BY <1>1, <1>g DEF GotInv
  <2> QED
    BY <2>1, <2>2, <2>3, <2>4, <2>5
<1>2. ASSUME UNCHANGED queue PROVE QueueInv'
  BY <1>2, <1>d DEF QueueInv, Logged, StaysLogged
<1>3. ASSUME NEW c \in Clients, NEW kind \in TaskKinds, NEW to \in Receivers \cup {Everybody, NULL},
             Enqueue(c, kind, to)
      PROVE  QueueInv'
  <2>1. /\ DOMAIN queue' = DOMAIN queue \cup {Len(queue) + 1}
        /\ \A i \in DOMAIN queue : queue'[i] = queue[i]
        /\ queue'[Len(queue) + 1] = [kind |-> kind, from |-> c, to |-> to, no |-> Len(log[c]) + 1]
        /\ Len(log[c]) \in Nat
        /\ DOMAIN log'[c] = 1 .. Len(log[c]) + 1
        /\ log'[c][Len(log[c]) + 1] = [kind |-> kind, audience |-> Audience(to)]
    <3>1. /\ DOMAIN queue' = DOMAIN queue \cup {Len(queue) + 1}
          /\ \A i \in DOMAIN queue : queue'[i] = queue[i]
      BY <1>a, <1>3, EnqueueFacts
    <3>2. queue'[Len(queue) + 1] = [kind |-> kind, from |-> c, to |-> to, no |-> Len(log[c]) + 1]
      BY <1>a, <1>3, EnqueueFacts
    <3>3. Len(log[c]) \in Nat /\ DOMAIN log'[c] = 1 .. Len(log[c]) + 1
      BY <1>a, <1>3, EnqueueFacts
    <3>4. log'[c][Len(log[c]) + 1] = [kind |-> kind, audience |-> Audience(to)]
      BY <1>a, <1>3, EnqueueFacts
    <3> QED
      BY <3>1, <3>2, <3>3, <3>4
  <2>2. StaysLogged(queue'[Len(queue) + 1])
    <3>1. /\ queue'[Len(queue) + 1].from = c /\ queue'[Len(queue) + 1].no = Len(log[c]) + 1
          /\ queue'[Len(queue) + 1].kind = kind
      BY <2>1
    <3>2. Len(log[c]) + 1 \in DOMAIN log'[c] /\ log'[c][Len(log[c]) + 1].kind = kind
      BY <2>1
    <3> QED
      BY <1>2, <3>1, <3>2 DEF StaysLogged
  <2>3. ASSUME NEW i \in DOMAIN queue PROVE StaysLogged(queue'[i])
    BY <1>d, <2>1
  <2> QED
    BY <2>1, <2>2, <2>3 DEF QueueInv, Logged, StaysLogged
<1>4. ASSUME NEW w \in Workers, Fine(w),
             \A v \in Workers : v # w => /\ pc'[v] = pc[v] /\ job'[v] = job[v]
                                         /\ at'[v] = at[v] /\ text'[v] = text[v]
      PROVE  JobInv' /\ WalkInv' /\ TextInv' /\ ListingComplete'
  <2>1. \A v \in Workers : Fine(v)
    BY <1>4, <1>f
  <2> QED
    BY <2>1 DEF JobInv, WalkInv, TextInv, ListingComplete, Logged, StaysLogged
<1>5. ASSUME NEW w \in Workers, pc[w] \in {"begin", "step"},
             NEW c \in Range(roster) \cup {NULL}, Move(w, c),
             UNCHANGED <<queue, roster, freed, name, got>>
      PROVE  WorkInv'
  <2>1. /\ at' = [at EXCEPT ![w] = c]
        /\ \/ /\ c = NULL /\ job' = [job EXCEPT ![w] = NULL]
              /\ text' = [text EXCEPT ![w] = NULL] /\ pc' = [pc EXCEPT ![w] = "idle"]
           \/ /\ c # NULL /\ pc' = [pc EXCEPT ![w] = "walk"] /\ UNCHANGED <<job, text>>
    BY <1>5 DEF Move, Done, Goto
  <2>2. Fine(w)
    <3>1. CASE c = NULL
      BY <1>b, <2>1, <3>1
    <3>2. CASE c # NULL
      <4>1. pc'[w] = "walk" /\ job'[w] = job[w] /\ at'[w] = c /\ text'[w] = text[w]
        BY <1>b, <2>1, <3>2
      <4>2. job[w] # NULL /\ StaysLogged(job[w]) /\ job[w].kind # "list"
        BY <1>a, <1>e, <1>5 DEF JobInv
      <4>3. job[w].from \notin freed => text[w] = name[job[w].from]
        <5>1. CASE pc[w] = "begin"
          BY <1>a, <5>1 DEF TextInv
        <5>2. CASE pc[w] = "step"
          BY <1>a, <5>2 DEF TextInv
        <5> QED
          BY <1>5, <5>1, <5>2
      <4> QED
        BY <1>5, <3>2, <4>1, <4>2, <4>3
    <3> QED
      BY <3>1, <3>2
  <2>3. \A v \in Workers : v # w => /\ pc'[v] = pc[v] /\ job'[v] = job[v]
                                    /\ at'[v] = at[v] /\ text'[v] = text[v]
    BY <1>b, <2>1
  <2> HIDE DEF Fine
  <2>4. JobInv' /\ WalkInv' /\ TextInv' /\ ListingComplete'
    BY <1>4, <2>2, <2>3
  <2>5. GotInv'
    BY <1>5, <1>g DEF GotInv
  <2> QED
    BY <1>2, <1>5, <2>4, <2>5 DEF WorkInv
<1>6. ASSUME NEW w \in Workers, Take(w) PROVE WorkInv'
  <2>1. /\ pc[w] = "idle" /\ queue # <<>>
        /\ job' = [job EXCEPT ![w] = Head(queue)] /\ queue' = Tail(queue)
        /\ pc' = [pc EXCEPT ![w] = IF Head(queue).kind = "list" THEN "copy" ELSE "format"]
        /\ UNCHANGED <<at, text, got>>
    BY <1>6 DEF Take, At, Goto
  <2>2. /\ Head(queue) \in TaskSet /\ 1 \in DOMAIN queue /\ Head(queue) = queue[1]
        /\ DOMAIN Tail(queue) = 1 .. Len(queue) - 1
        /\ \A i \in 1 .. Len(queue) - 1 : i + 1 \in 1 .. Len(queue) /\ Tail(queue)[i] = queue[i + 1]
    BY <1>b, <2>1, TailFacts
  <2>3. StaysLogged(Head(queue)) /\ Head(queue) # NULL
    BY <1>d, <2>2
  <2>4. Fine(w)
    <3>1. job'[w] = Head(queue) /\ at'[w] = NULL
      BY <1>a, <1>b, <2>1 DEF WalkInv
    <3>2. pc'[w] = IF Head(queue).kind = "list" THEN "copy" ELSE "format"
      BY <1>b, <2>1
    <3> QED
      BY <2>3, <3>1, <3>2
  <2>5. \A v \in Workers : v # w => /\ pc'[v] = pc[v] /\ job'[v] = job[v]
                                    /\ at'[v] = at[v] /\ text'[v] = text[v]
    BY <1>b, <2>1
  <2> HIDE DEF Fine
  <2>6. JobInv' /\ WalkInv' /\ TextInv' /\ ListingComplete'
    BY <1>4, <2>4, <2>5
  <2>7. QueueInv'
    <3>1. \A i \in 1 .. Len(queue) - 1 : StaysLogged(Tail(queue)[i])
      BY <1>b, <1>d, <2>2
    <3>2. \A i \in DOMAIN queue' : StaysLogged(queue'[i])
      BY <2>1, <2>2, <3>1, Zenon
    <3> QED
      BY <3>2 DEF QueueInv, Logged, StaysLogged
  <2>8. GotInv'
    BY <1>g, <2>1 DEF GotInv
  <2> QED
    BY <2>6, <2>7, <2>8 DEF WorkInv
<1>7. ASSUME NEW w \in Workers, Format(w) PROVE WorkInv'
  <2>1. /\ pc[w] = "format" /\ pc' = [pc EXCEPT ![w] = "begin"]
        /\ UNCHANGED <<queue, job, at, got, freed, name>>
        /\ \/ job[w].from \in freed /\ text' = [text EXCEPT ![w] = NULL]
           \/ job[w].from \notin freed /\ text' = [text EXCEPT ![w] = name[job[w].from]]
    BY <1>7 DEF Format, At, Goto, sessions
  <2>2. Fine(w)
    <3>1. /\ pc'[w] = "begin" /\ job'[w] = job[w] /\ at'[w] = NULL /\ StaysLogged(job[w])
          /\ job[w] # NULL /\ job[w].kind # "list"
      BY <1>a, <1>b, <1>e, <2>1 DEF WalkInv, JobInv
    <3>2. job[w].from \notin freed => text'[w] = name[job[w].from]
      BY <1>b, <2>1
    <3> QED
      BY <2>1, <3>1, <3>2
  <2>3. \A v \in Workers : v # w => /\ pc'[v] = pc[v] /\ job'[v] = job[v]
                                    /\ at'[v] = at[v] /\ text'[v] = text[v]
    BY <1>b, <2>1
  <2> HIDE DEF Fine
  <2>4. JobInv' /\ WalkInv' /\ TextInv' /\ ListingComplete'
    BY <1>4, <2>2, <2>3
  <2>5. GotInv'
    BY <1>g, <2>1 DEF GotInv
  <2> QED
    BY <1>2, <2>1, <2>4, <2>5 DEF WorkInv
<1>8. ASSUME NEW w \in Workers, Begin(w) PROVE WorkInv'
  <2>1. \E c \in Range(roster) \cup {NULL} : Move(w, c)
    <3>1. CASE roster = <<>>
      BY <1>8, <3>1 DEF Begin
    <3>2. CASE roster # <<>>
      <4>1. Head(roster) \in Range(roster)
        BY <1>a, <3>2, TailFacts DEF TypeOK, Range
      <4>2. Move(w, Head(roster))
        BY <1>8, <3>2 DEF Begin
      <4> QED
        BY <4>1, <4>2, Zenon
    <3> QED
      BY <3>1, <3>2
  <2>2. pc[w] = "begin" /\ UNCHANGED <<queue, roster, freed, name, got>>
    BY <1>8 DEF Begin, At, sessions
  <2> QED
    BY <1>5, <2>1, <2>2
<1>9. ASSUME NEW w \in Workers, Visit(w) PROVE WorkInv'
  <2>1. /\ pc[w] = "walk" /\ pc' = [pc EXCEPT ![w] = "step"]
        /\ UNCHANGED <<queue, job, at, text, freed, roster, name, log>>
        /\ \/ UNCHANGED got
           \/ got' = [got EXCEPT ![at[w]] = BagAdd(@, [kind |-> job[w].kind, from |-> job[w].from,
                                                       no |-> job[w].no, text |-> text[w]])]
    BY <1>9 DEF Visit, At, Goto, workers, sessions, Write
  <2>2. /\ job[w] \in TaskSet /\ StaysLogged(job[w]) /\ job[w].kind # "list" /\ Logged(job[w])
        /\ at[w] \in Range(roster) \cup freed /\ at[w] # NULL
        /\ job[w].from \notin freed => text[w] = name[job[w].from]
    <3>1. at[w] # NULL /\ job[w] \in TaskSet /\ StaysLogged(job[w]) /\ Logged(job[w])
      BY <1>a, <1>c, <1>e, <2>1 DEF WalkInv
    <3>2. at[w] \in Range(roster) \cup freed
      BY <1>a, <3>1 DEF WalkInv
    <3>3. job[w].kind # "list" /\ (job[w].from \notin freed => text[w] = name[job[w].from])
      BY <1>a, <2>1 DEF JobInv, TextInv
    <3> QED
      BY <3>1, <3>2, <3>3
  <2>3. Fine(w)
    <3>1. pc'[w] = "step" /\ job'[w] = job[w] /\ at'[w] = at[w] /\ text'[w] = text[w]
      BY <1>b, <2>1
    <3> QED
      BY <2>1, <2>2, <3>1
  <2>4. \A v \in Workers : v # w => /\ pc'[v] = pc[v] /\ job'[v] = job[v]
                                    /\ at'[v] = at[v] /\ text'[v] = text[v]
    BY <1>b, <2>1
  <2> HIDE DEF Fine
  <2>5. JobInv' /\ WalkInv' /\ TextInv' /\ ListingComplete'
    BY <1>4, <2>3, <2>4
  <2>6. GotInv'
    <3> DEFINE m == [kind |-> job[w].kind, from |-> job[w].from, no |-> job[w].no, text |-> text[w]]
    <3>1. m.from = job[w].from /\ m.text = text[w]
      OBVIOUS
    <3>2. Len(log'[m.from]) >= 2 /\ (m.from \notin freed' => m.text = name'[m.from])
      <4>1. job[w].from \in Clients /\ Len(log[job[w].from]) >= 2
        BY <1>a, <2>2, LoggedFacts
      <4> QED
        BY <2>1, <2>2, <3>1, <4>1
    <3> HIDE DEF m
    <3>3. CASE UNCHANGED got
      BY <1>g, <3>3 DEF GotInv
    <3>4. CASE got' = [got EXCEPT ![at[w]] = BagAdd(@, m)]
      <4>1. ASSUME NEW d \in Clients PROVE DOMAIN got'[d] \subseteq DOMAIN got[d] \cup {m}
        <5>1. got'[d] = got[d] \/ got'[d] = BagAdd(got[d], m)
          BY <1>b, <3>4
        <5> QED
          BY <5>1 DEF BagAdd
      <4> QED
        BY <1>g, <3>2, <4>1 DEF GotInv
    <3> QED
      BY <2>1, <3>3, <3>4 DEF m
  <2> QED
    BY <1>2, <2>1, <2>5, <2>6 DEF WorkInv
<1>10. ASSUME NEW w \in Workers, Step(w) PROVE WorkInv'
  <2>1. pc[w] = "step" /\ UNCHANGED <<queue, roster, freed, name, got>>
    BY <1>10 DEF Step, At, sessions
  <2>2. \E c \in Range(roster) \cup {NULL} : Move(w, c)
    <3>1. CASE at[w] \in freed
      BY <1>10, <3>1 DEF Step
    <3>2. CASE at[w] \notin freed
      <4>1. at[w] \in Range(roster)
        <5>1. at[w] # NULL
          BY <1>a, <2>1 DEF WalkInv
        <5> QED
          BY <1>a, <3>2, <5>1 DEF WalkInv
      <4>2. PositionOf(at[w]) \in DOMAIN roster
        BY <4>1 DEF PositionOf, Range
      <4>3. DOMAIN roster = 1 .. Len(roster) /\ Len(roster) \in Nat
        BY <1>a, LenProperties DEF TypeOK
      <4>4. AfterC(at[w]) \in Range(roster) \cup {NULL}
        <5>1. CASE PositionOf(at[w]) = Len(roster)
          BY <5>1 DEF AfterC
        <5>2. CASE PositionOf(at[w]) # Len(roster)
          <6>1. PositionOf(at[w]) + 1 \in DOMAIN roster
            BY <4>2, <4>3, <5>2
          <6> QED
            BY <5>2, <6>1 DEF AfterC, Range
        <5> QED
          BY <5>1, <5>2
      <4>5. Move(w, AfterC(at[w]))
        BY <1>10, <3>2 DEF Step
      <4> QED
        BY <4>4, <4>5, Zenon
    <3> QED
      BY <3>1, <3>2
  <2> QED
    BY <1>5, <2>1, <2>2
<1>11. ASSUME NEW w \in Workers, CopyList(w) PROVE WorkInv'
  <2>1. /\ pc[w] = "copy" /\ pc' = [pc EXCEPT ![w] = "reply"]
        /\ text' = [text EXCEPT ![w] = Range(roster)]
        /\ UNCHANGED <<queue, job, at, got, freed, roster, before>>
    BY <1>11 DEF CopyList, At, Goto
  <2>2. /\ job[w] \in TaskSet /\ StaysLogged(job[w]) /\ job[w].kind = "list" /\ at[w] = NULL
    BY <1>a, <1>c, <1>e, <2>1 DEF JobInv, WalkInv
  <2>3. before[job[w].from] \subseteq Range(roster) \cup freed
    <3>1. job[w].from \in Clients
      BY <2>2 DEF TaskSet
    <3>2. \A d \in before[job[w].from] : d \in Clients /\ pc[d] # "none"
      BY <1>a, <3>1 DEF BeforeInv, TypeOK
    <3> QED
      BY <1>a, <3>2 DEF RosterInv
  <2>4. Fine(w)
    <3>1. pc'[w] = "reply" /\ job'[w] = job[w] /\ at'[w] = NULL /\ text'[w] = Range(roster)
      BY <1>b, <2>1, <2>2
    <3> QED
      BY <2>1, <2>2, <2>3, <3>1
  <2>5. \A v \in Workers : v # w => /\ pc'[v] = pc[v] /\ job'[v] = job[v]
                                    /\ at'[v] = at[v] /\ text'[v] = text[v]
    BY <1>b, <2>1
  <2> HIDE DEF Fine
  <2>6. JobInv' /\ WalkInv' /\ TextInv' /\ ListingComplete'
    BY <1>4, <2>4, <2>5
  <2>7. GotInv'
    BY <1>g, <2>1 DEF GotInv
  <2> QED
    BY <1>2, <2>1, <2>6, <2>7 DEF WorkInv
<1>12. ASSUME NEW w \in Workers, SendList(w) PROVE WorkInv'
  <2>1. /\ pc[w] = "reply" /\ pc' = [pc EXCEPT ![w] = "idle"]
        /\ job' = [job EXCEPT ![w] = NULL] /\ text' = [text EXCEPT ![w] = NULL]
        /\ UNCHANGED <<queue, at>>
        /\ \/ UNCHANGED got
           \/ got' = [got EXCEPT ![job[w].from] = BagAdd(@, [kind |-> "list", from |-> job[w].from,
                                                             no |-> 1, text |-> text[w]])]
    BY <1>12 DEF SendList, At, Goto, Done, Write
  <2>2. Fine(w)
    <3>1. pc'[w] = "idle" /\ job'[w] = NULL /\ at'[w] = NULL
      BY <1>a, <1>b, <2>1 DEF WalkInv
    <3> QED
      BY <3>1
  <2>3. \A v \in Workers : v # w => /\ pc'[v] = pc[v] /\ job'[v] = job[v]
                                    /\ at'[v] = at[v] /\ text'[v] = text[v]
    BY <1>b, <2>1
  <2> HIDE DEF Fine
  <2>4. JobInv' /\ WalkInv' /\ TextInv' /\ ListingComplete'
    BY <1>4, <2>2, <2>3
  <2>5. GotInv'
    <3> DEFINE m == [kind |-> "list", from |-> job[w].from, no |-> 1, text |-> text[w]]
    <3>1. m.kind = "list"
      OBVIOUS
    <3> HIDE DEF m
    <3>2. CASE UNCHANGED got
      BY <1>g, <3>2 DEF GotInv
    <3>3. CASE got' = [got EXCEPT ![job[w].from] = BagAdd(@, m)]
      <4>1. ASSUME NEW d \in Clients PROVE DOMAIN got'[d] \subseteq DOMAIN got[d] \cup {m}
        <5>1. got'[d] = got[d] \/ got'[d] = BagAdd(got[d], m)
          BY <1>b, <3>3
        <5> QED
          BY <5>1 DEF BagAdd
      <4> QED
        BY <1>g, <3>1, <4>1 DEF GotInv
    <3> QED
      BY <2>1, <3>2, <3>3 DEF m
  <2> QED
    BY <1>2, <2>1, <2>4, <2>5 DEF WorkInv
<1>13. CASE ClientStep
  <2>1. JobInv' /\ WalkInv' /\ TextInv' /\ GotInv' /\ ListingComplete'
    BY <1>a, <1>1, <1>13, ClientStepFrame
  <2>2. CASE UNCHANGED queue
    BY <1>2, <2>1, <2>2 DEF WorkInv
  <2>3. ASSUME NEW c \in Clients, NEW kind \in TaskKinds, NEW to \in Receivers \cup {Everybody, NULL},
               Enqueue(c, kind, to)
        PROVE  WorkInv'
    BY <1>3, <2>1, <2>3 DEF WorkInv
  <2>4. CASE Accept
    <3>1. \E c \in Clients : Enqueue(c, "list", NULL)
      BY <2>4 DEF Accept
    <3> QED
      BY <2>3, <3>1 DEF TaskKinds
  <2>5. CASE AddToList
    BY <2>2, <2>5 DEF AddToList
  <2>6. ASSUME NEW c \in Clients, SessionStep(c) PROVE WorkInv'
    BY <2>2, <2>3, <2>6
       DEF SessionStep, LoginName, Announce, SayBye, RemoveSelf, TaskKinds
  <2>7. ASSUME NEW c \in Clients, InputStep(c) PROVE WorkInv'
    BY <2>2, <2>3, <2>7
       DEF InputStep, LoginFlag, Say, Refuse, Leave, Blank, HangUp, TaskKinds
  <2> QED
    BY <1>13, <2>4, <2>5, <2>6, <2>7 DEF ClientStep, MainStep
<1>14. CASE UNCHANGED vars
  BY <1>1, <1>2, <1>14 DEF vars, workers, WorkInv
<1> QED
  BY <1>6, <1>7, <1>8, <1>9, <1>10, <1>11, <1>12, <1>13, <1>14
     DEF Next, WorkerStep, ClientStep

LEMMA StepType ==
  ASSUME IInv, [Next]_vars
  PROVE  TypeOK'
<1> USE Labels
<1>a. /\ TypeOK /\ ShapeInv /\ JobInv /\ WalkInv /\ FreshInv
  BY DEF IInv
<1>b. /\ pc \in [Threads -> MainLabels \cup SessionLabels \cup WorkerLabels]
      /\ pc[Main] \in MainLabels
      /\ \A c \in Clients : pc[c] \in SessionLabels
      /\ \A w \in Workers : pc[w] \in WorkerLabels
  BY <1>a DEF TypeOK, ShapeInv, MainLabels, SessionLabels, WorkerLabels
<1>c. /\ queue \in Seq(TaskSet) /\ roster \in Seq(Clients)
      /\ flags \in [Clients -> SUBSET {"connected", "loggedIn"}]
      /\ name \in [Clients -> Names \cup {Address}]
      /\ fresh \in Clients \cup {NULL}
      /\ job \in [Workers -> TaskSet \cup {NULL}]
      /\ at \in [Workers -> Clients \cup {NULL}]
      /\ text \in [Workers -> Texts]
      /\ log \in [Clients -> Seq([kind : TaskKinds, audience : SUBSET Clients])]
      /\ before \in [Clients -> SUBSET Clients]
      /\ lines \in 0 .. MaxLines /\ MaxLines \in Nat
      /\ hungUp \subseteq Clients /\ freed \subseteq Clients
      /\ misused \in BOOLEAN /\ crashed \in BOOLEAN
  BY <1>a, ChatAssumption DEF TypeOK, ChatAssumption
<1> DEFINE Message == [kind : TaskKinds, from : Clients, no : Nat, text : Texts]
           PcType == /\ pc'[Main] \in MainLabels
                     /\ \A c \in Clients : pc'[c] \in SessionLabels
                     /\ \A w \in Workers : pc'[w] \in WorkerLabels
           GotType == \A c \in Clients : DOMAIN got'[c] \subseteq Message
<1>d. \A c \in Clients : DOMAIN got[c] \subseteq Message
  BY <1>a DEF TypeOK
<1>e. \A c \in Range(roster) : c \in Clients
  BY <1>c, LenProperties, ElementOfSeq DEF Range
<1>1. ASSUME PcType, UNCHANGED <<job, at, text, got, roster, freed, fresh, before>>,
             queue' \in Seq(TaskSet), lines' \in 0 .. MaxLines,
             log' \in [Clients -> Seq([kind : TaskKinds, audience : SUBSET Clients])],
             flags' \in [Clients -> SUBSET {"connected", "loggedIn"}],
             name' \in [Clients -> Names \cup {Address}],
             hungUp' \subseteq Clients, crashed' \in BOOLEAN, UNCHANGED misused
      PROVE  TypeOK'
  BY <1>1, <1>c, <1>d DEF TypeOK, MainLabels, SessionLabels, WorkerLabels
<1>2. ASSUME NEW c \in Clients, NEW l \in SessionLabels, pc' = [pc EXCEPT ![c] = l]
      PROVE  PcType
  BY <1>b, <1>2
<1>3. ASSUME UNCHANGED pc PROVE PcType
  BY <1>b, <1>3
<1>4. ASSUME NEW c \in Clients, ReadLine(c) PROVE lines' \in 0 .. MaxLines
  BY <1>c, <1>4 DEF ReadLine
<1>5. ASSUME NEW c \in Clients, Reply(c) PROVE crashed' \in BOOLEAN
  BY <1>c, <1>5 DEF Reply
<1>6. ASSUME NEW c \in Clients, NEW kind \in TaskKinds, NEW to \in Receivers \cup {Everybody, NULL},
             Enqueue(c, kind, to)
      PROVE  /\ queue' \in Seq(TaskSet)
             /\ log' \in [Clients -> Seq([kind : TaskKinds, audience : SUBSET Clients])]
  BY <1>a, <1>6, EnqueueFacts
<1>7. CASE Accept
  <2>1. PICK c \in Clients :
          /\ fresh' = c
          /\ flags' = [flags EXCEPT ![c] = {"connected"}]
          /\ before' = [before EXCEPT ![c] = Created \ {NULL}]
          /\ Enqueue(c, "list", NULL)
    BY <1>7 DEF Accept
  <2>2. /\ queue' \in Seq(TaskSet)
        /\ log' \in [Clients -> Seq([kind : TaskKinds, audience : SUBSET Clients])]
    BY <1>6, <2>1 DEF TaskKinds
  <2>3. Created \ {NULL} \subseteq Clients
    BY <1>c DEF Created
  <2>4. /\ fresh' \in Clients /\ before' \in [Clients -> SUBSET Clients]
        /\ flags' \in [Clients -> SUBSET {"connected", "loggedIn"}]
    BY <1>c, <2>1, <2>3
  <2>5. PcType
    BY <1>7, <1>b DEF Accept, Goto, MainLabels
  <2> QED
    BY <1>7, <1>c, <1>d, <2>2, <2>4, <2>5
       DEF Accept, TypeOK, workers, MainLabels, SessionLabels, WorkerLabels
<1>8. CASE AddToList
  <2>1. fresh \in Clients
    BY <1>8, <1>a, <1>c DEF AddToList, At, FreshInv
  <2>2. PcType
    BY <1>8, <1>b, <2>1 DEF AddToList, MainLabels, SessionLabels
  <2>3. Append(roster, fresh) \in Seq(Clients)
    BY <1>c, <2>1, AppendFacts
  <2>4. roster' \in Seq(Clients) /\ fresh' = NULL
    BY <1>8, <2>3 DEF AddToList
  <2> QED
    BY <1>8, <1>c, <1>d, <2>2, <2>4
       DEF AddToList, TypeOK, workers, sessions, MainLabels, SessionLabels, WorkerLabels
<1>9. ASSUME NEW c \in Clients, LoginFlag(c) PROVE TypeOK'
  BY <1>1, <1>2, <1>4, <1>9, <1>c DEF LoginFlag, Goto, SessionLabels, workers
<1>10. ASSUME NEW c \in Clients, LoginName(c) PROVE TypeOK'
  <2>1. PICK n \in Names : name' = [name EXCEPT ![c] = n]
    BY <1>10 DEF LoginName
  <2>2. name' \in [Clients -> Names \cup {Address}]
    BY <1>c, <2>1
  <2>3. PcType /\ crashed' \in BOOLEAN
    BY <1>2, <1>5, <1>10 DEF LoginName, Goto, SessionLabels
  <2>4. UNCHANGED <<queue, roster, flags, log, lines, fresh, job, at, text, got, before, hungUp,
                    freed, misused>>
    BY <1>10 DEF LoginName, workers
  <2> HIDE DEF PcType
  <2> QED
    BY <1>1, <1>c, <2>2, <2>3, <2>4
<1>11. ASSUME NEW c \in Clients, Announce(c) PROVE TypeOK'
  <2>1. Enqueue(c, "conn", Everybody) /\ "conn" \in TaskKinds
    BY <1>11 DEF Announce, TaskKinds
  <2> QED
    BY <1>1, <1>2, <1>6, <1>11, <1>c, <2>1 DEF Announce, Goto, SessionLabels, workers
<1>12. ASSUME NEW c \in Clients, Say(c) PROVE TypeOK'
  <2>1. (\E r \in Receivers \cup {Everybody, NULL} : Enqueue(c, "text", r)) /\ "text" \in TaskKinds
    BY <1>12 DEF Say, TaskKinds
  <2> QED
    BY <1>1, <1>3, <1>4, <1>6, <1>12, <1>c, <2>1 DEF Say, workers
<1>13. ASSUME NEW c \in Clients, Leave(c) PROVE TypeOK'
  BY <1>1, <1>2, <1>4, <1>5, <1>13, <1>c DEF Leave, Goto, SessionLabels, workers
<1>14. ASSUME NEW c \in Clients, SayBye(c) PROVE TypeOK'
  <2>1. Enqueue(c, "disconn", Everybody) /\ "disconn" \in TaskKinds
    BY <1>14 DEF SayBye, TaskKinds
  <2> QED
    BY <1>1, <1>2, <1>6, <1>14, <1>c, <2>1 DEF SayBye, Goto, SessionLabels, workers
<1>15. ASSUME NEW c \in Clients, RemoveSelf(c) PROVE TypeOK'
  <2>1. c \in Range(roster)
    BY <1>15 DEF IInv, RosterInv, RemoveSelf, At
  <2>2. PositionOf(c) \in DOMAIN roster
    BY <2>1 DEF PositionOf, Range
  <2>3. RemoveAt(roster, PositionOf(c)) \in Seq(Clients)
    BY <1>c, <2>2, RemoveFacts DEF IInv, RosterInv, Injective
  <2>4. roster' \in Seq(Clients)
    BY <1>15, <2>3, Zenon DEF RemoveSelf, Unlinked
  <2>5. PcType
    BY <1>2, <1>15 DEF RemoveSelf, Goto, SessionLabels
  <2>6. misused' \in BOOLEAN
    BY <1>15, <1>c DEF RemoveSelf
  <2>7. freed' \subseteq Clients
    BY <1>15, <1>c DEF RemoveSelf
  <2>8. UNCHANGED <<queue, sessions, fresh, workers, got, before, hungUp, crashed>>
    BY <1>15 DEF RemoveSelf
  <2> HIDE DEF GotType
  <2> QED
    BY <1>c, <1>d, <2>4, <2>5, <2>6, <2>7, <2>8
       DEF TypeOK, workers, sessions, MainLabels, SessionLabels, WorkerLabels
<1>16. ASSUME NEW c \in Clients, Refuse(c) \/ Blank(c) \/ HangUp(c) PROVE TypeOK'
  BY <1>1, <1>3, <1>5, <1>16, <1>c DEF Refuse, Blank, HangUp, workers, sessions
<1>17. ASSUME NEW w \in Workers, WorkerStep(w) PROVE TypeOK'
  <2>1. /\ UNCHANGED <<roster, flags, name, lines, log, fresh, before, hungUp, freed>>
        /\ \A t \in Threads : t # w => pc'[t] = pc[t]
        /\ pc'[w] \in WorkerLabels
    BY <1>a, <1>17, WorkerStepFrame
  <2>2. PcType
    BY <1>b, <2>1
  <2>3. ASSUME queue' \in Seq(TaskSet), job' \in [Workers -> TaskSet \cup {NULL}],
               at' \in [Workers -> Clients \cup {NULL}], text' \in [Workers -> Texts],
               GotType, misused' \in BOOLEAN, crashed' \in BOOLEAN
        PROVE  TypeOK'
    BY <1>c, <2>1, <2>2, <2>3 DEF TypeOK, MainLabels, SessionLabels, WorkerLabels
  <2>4. ASSUME UNCHANGED got PROVE GotType
    BY <1>d, <2>4
  <2>5. ASSUME NEW c \in Clients, NEW m \in Message, got' = [got EXCEPT ![c] = BagAdd(@, m)]
        PROVE  GotType
    <3> SUFFICES ASSUME NEW d \in Clients PROVE DOMAIN got'[d] \subseteq Message
      OBVIOUS
    <3> HIDE DEF Message
    <3>1. got'[d] = got[d] \/ got'[d] = BagAdd(got[d], m)
      BY <1>a, <2>5 DEF ShapeInv
    <3>2. DOMAIN got'[d] \subseteq DOMAIN got[d] \cup {m}
      BY <3>1 DEF BagAdd
    <3> QED
      BY <1>d, <3>2
  <2>6. Misuse => misused' \in BOOLEAN /\ crashed' \in BOOLEAN
    BY DEF Misuse
  <2>7. NULL \in Texts /\ \A c \in Clients : name[c] \in Texts
    BY <1>c DEF Texts
  <2>8. ASSUME NEW c \in Clients \cup {NULL}, Move(w, c)
        PROVE  /\ job' \in [Workers -> TaskSet \cup {NULL}]
               /\ at' \in [Workers -> Clients \cup {NULL}] /\ text' \in [Workers -> Texts]
    <3>1. at' = [at EXCEPT ![w] = c] /\ (c = NULL => Done(w)) /\ (c # NULL => UNCHANGED <<job, text>>)
      BY <2>8 DEF Move
    <3>2. at' \in [Workers -> Clients \cup {NULL}]
      BY <1>c, <3>1
    <3>3. CASE c = NULL
      <4>1. job' = [job EXCEPT ![w] = NULL] /\ text' = [text EXCEPT ![w] = NULL]
        BY <3>1, <3>3 DEF Done
      <4>2. job' \in [Workers -> TaskSet \cup {NULL}]
        BY <1>c, <4>1
      <4>3. text' \in [Workers -> Texts]
        BY <1>c, <2>7, <4>1
      <4> QED
        BY <3>2, <4>2, <4>3
    <3>4. CASE c # NULL
      BY <1>c, <3>1, <3>2, <3>4
    <3> QED
      BY <3>3, <3>4
  <2> HIDE DEF PcType, GotType
  <2>9. CASE Take(w)
    <3>1. Head(queue) \in TaskSet /\ Tail(queue) \in Seq(TaskSet)
      BY <1>c, <2>9, TailFacts DEF Take
    <3>2. queue' \in Seq(TaskSet) /\ job' \in [Workers -> TaskSet \cup {NULL}]
      BY <1>c, <2>9, <3>1 DEF Take
    <3> QED
      BY <1>c, <2>3, <2>4, <2>9, <3>2 DEF Take
  <2>10. CASE Format(w)
    <3>1. job[w].from \in Clients
      BY <1>a, <1>c, <2>10 DEF Format, At, JobInv, TaskSet
    <3>2. /\ text' \in [Workers -> Texts] /\ misused' \in BOOLEAN /\ crashed' \in BOOLEAN
      <4>1. CASE job[w].from \in freed
        <5>1. Misuse /\ text' = [text EXCEPT ![w] = NULL]
          BY <2>10, <4>1 DEF Format
        <5>2. text' \in [Workers -> Texts]
          BY <1>c, <2>7, <5>1
        <5> QED
          BY <2>6, <5>1, <5>2
      <4>2. CASE job[w].from \notin freed
        <5>1. text' = [text EXCEPT ![w] = name[job[w].from]] /\ UNCHANGED <<misused, crashed>>
          BY <2>10, <4>2 DEF Format
        <5>2. text' \in [Workers -> Texts]
          BY <1>c, <2>7, <3>1, <5>1
        <5> QED
          BY <1>c, <5>1, <5>2
      <4> QED
        BY <4>1, <4>2
    <3> QED
      BY <1>c, <2>3, <2>4, <2>10, <3>2 DEF Format
  <2>11. CASE Begin(w)
    <3>1. CASE roster = <<>>
      BY <1>c, <2>3, <2>4, <2>8, <2>11, <3>1 DEF Begin
    <3>2. CASE roster # <<>>
      <4>1. Head(roster) \in Clients
        BY <1>c, <3>2, TailFacts
      <4> QED
        BY <1>c, <2>3, <2>4, <2>8, <2>11, <3>2, <4>1 DEF Begin
    <3> QED
      BY <3>1, <3>2
  <2>12. CASE Visit(w)
    <3>1. job[w] \in TaskSet /\ at[w] \in Clients
      BY <1>a, <1>c, <2>12 DEF Visit, At, JobInv, WalkInv
    <3>2. CASE UNCHANGED got
      <4>1. misused' \in BOOLEAN /\ crashed' \in BOOLEAN
        BY <1>c, <2>6, <2>12, <3>1 DEF Visit, Write, Reply
      <4> QED
        BY <1>c, <2>3, <2>4, <2>12, <3>2, <4>1 DEF Visit, workers
    <3>3. CASE Write(at[w], [kind |-> job[w].kind, from |-> job[w].from, no |-> job[w].no,
                             text |-> text[w]]) /\ UNCHANGED misused
      <4>1. [kind |-> job[w].kind, from |-> job[w].from, no |-> job[w].no,
             text |-> text[w]] \in Message
        BY <1>c, <3>1 DEF TaskSet
      <4>2. GotType
        BY <2>5, <3>1, <3>3, <4>1 DEF Write
      <4>3. crashed' \in BOOLEAN
        BY <1>5, <3>1, <3>3 DEF Write
      <4> QED
        BY <1>c, <2>3, <2>12, <3>3, <4>2, <4>3 DEF Visit, workers
    <3> QED
      BY <2>12, <3>2, <3>3 DEF Visit
  <2>13. CASE Step(w)
    <3>1. CASE at[w] \in freed
      BY <1>c, <1>e, <2>3, <2>4, <2>6, <2>8, <2>13, <3>1 DEF Step
    <3>2. CASE at[w] \notin freed
      <4>1. AfterC(at[w]) \in Clients \cup {NULL}
        <5>1. at[w] \in Range(roster)
          BY <1>a, <2>13, <3>2 DEF Step, At, WalkInv
        <5>2. PositionOf(at[w]) \in DOMAIN roster
          BY <5>1 DEF PositionOf, Range
        <5>3. DOMAIN roster = 1 .. Len(roster) /\ Len(roster) \in Nat
          BY <1>c, LenProperties
        <5>4. CASE PositionOf(at[w]) = Len(roster)
          BY <5>4 DEF AfterC
        <5>5. CASE PositionOf(at[w]) # Len(roster)
          <6>1. PositionOf(at[w]) + 1 \in DOMAIN roster
            BY <5>2, <5>3, <5>5
          <6> QED
            BY <1>e, <5>5, <6>1 DEF AfterC, Range
        <5> QED
          BY <5>4, <5>5
      <4>2. Move(w, AfterC(at[w])) /\ UNCHANGED <<queue, got, misused, crashed>>
        BY <2>13, <3>2 DEF Step
      <4> QED
        BY <1>c, <2>3, <2>4, <2>8, <4>1, <4>2
    <3> QED
      BY <3>1, <3>2
  <2>14. CASE CopyList(w)
    <3>1. Range(roster) \in Texts
      BY <1>e DEF Texts
    <3>2. text' \in [Workers -> Texts] /\ crashed' \in BOOLEAN
      BY <1>c, <2>14, <3>1 DEF CopyList
    <3> QED
      BY <1>c, <2>3, <2>4, <2>14, <3>2 DEF CopyList
  <2>15. CASE SendList(w)
    <3>1. job[w].from \in Clients
      BY <1>a, <1>c, <2>15 DEF SendList, At, JobInv, TaskSet
    <3>2. job' \in [Workers -> TaskSet \cup {NULL}] /\ text' \in [Workers -> Texts]
      BY <1>c, <2>7, <2>15 DEF SendList, Done
    <3>3. CASE job[w].from \in freed
      <4>1. Misuse /\ UNCHANGED <<got, queue, at>>
        BY <2>15, <3>3 DEF SendList
      <4> QED
        BY <1>c, <2>3, <2>4, <2>6, <3>2, <4>1
    <3>4. CASE job[w].from \notin freed
      <4> DEFINE m == [kind |-> "list", from |-> job[w].from, no |-> 1, text |-> text[w]]
      <4>1. Write(job[w].from, m) /\ UNCHANGED <<misused, queue, at>>
        BY <2>15, <3>4 DEF SendList
      <4>2. m \in Message
        BY <1>c, <3>1 DEF TaskKinds
      <4>3. GotType /\ crashed' \in BOOLEAN
        BY <1>5, <2>5, <3>1, <4>1, <4>2 DEF Write
      <4> QED
        BY <1>c, <2>3, <3>2, <4>1, <4>3
    <3> QED
      BY <3>3, <3>4
  <2> QED
    BY <1>17, <2>9, <2>10, <2>11, <2>12, <2>13, <2>14, <2>15 DEF WorkerStep
<1>18. CASE UNCHANGED vars
  BY <1>1, <1>3, <1>18, <1>c DEF vars, workers, sessions
<1> QED
  BY <1>7, <1>8, <1>9, <1>10, <1>11, <1>12, <1>13, <1>14, <1>15, <1>16, <1>17, <1>18
     DEF Next, MainStep, SessionStep, InputStep

LEMMA InitInv == Init => IInv
<1> SUFFICES ASSUME Init PROVE IInv
  OBVIOUS
<1> USE Labels DEF MainLabels, SessionLabels, WorkerLabels
<1>1. queue = <<>> /\ roster = <<>> /\ \A c \in Clients : log[c] = <<>> /\ got[c] = EmptyBag
  BY DEF Init
<1>2. DOMAIN queue = {} /\ DOMAIN roster = {} /\ Range(roster) = {}
  BY <1>1 DEF Range
<1>3. \A c \in Clients : DOMAIN log[c] = {} /\ Len(log[c]) = 0 /\ DOMAIN got[c] = {}
  BY <1>1 DEF EmptyBag, SetToBag
<1>4. pc \in [Threads -> MainLabels \cup SessionLabels \cup WorkerLabels]
  BY DEF Init
<1>5. /\ pc[Main] = "accept" /\ \A c \in Clients : pc[c] = "none"
      /\ \A w \in Workers : pc[w] = "idle"
  BY DEF Init
<1>6. TypeOK
  <2>1. <<>> \in Seq(TaskSet) /\ <<>> \in Seq(Clients)
        /\ <<>> \in Seq([kind : TaskKinds, audience : SUBSET Clients])
    BY EmptySeq
  <2>2. NULL \in Texts /\ MaxLines \in Nat
    BY ChatAssumption DEF Texts, ChatAssumption
  <2>3. queue \in Seq(TaskSet) /\ roster \in Seq(Clients)
    BY <1>1, <2>1
  <2>4. log \in [Clients -> Seq([kind : TaskKinds, audience : SUBSET Clients])]
    BY <2>1 DEF Init
  <2>5. /\ flags \in [Clients -> SUBSET {"connected", "loggedIn"}]
        /\ name \in [Clients -> Names \cup {Address}]
        /\ fresh \in Clients \cup {NULL}
        /\ job \in [Workers -> TaskSet \cup {NULL}]
        /\ at \in [Workers -> Clients \cup {NULL}]
        /\ before \in [Clients -> SUBSET Clients]
    BY DEF Init
  <2>6. text \in [Workers -> Texts] /\ lines \in 0 .. MaxLines
    BY <2>2 DEF Init
  <2>7. hungUp \subseteq Clients /\ freed \subseteq Clients /\ misused \in BOOLEAN /\ crashed \in BOOLEAN
    BY DEF Init
  <2>8. \A c \in Clients :
          DOMAIN got[c] \subseteq [kind : TaskKinds, from : Clients, no : Nat, text : Texts]
    BY <1>3
  <2> QED
    BY <1>5, <2>3, <2>4, <2>5, <2>6, <2>7, <2>8 DEF TypeOK
<1>7. ShapeInv /\ FreshInv /\ RosterInv
  BY <1>2, <1>4, <1>5 DEF Init, ShapeInv, FreshInv, RosterInv
<1>8. SessionInv /\ LogInv
  BY <1>3, <1>5 DEF Init, SessionInv, InSession, LogInv, LoggedIn, Silent
<1>9. QueueInv /\ JobInv /\ WalkInv /\ TextInv /\ GotInv /\ BeforeInv /\ ListingComplete
  BY <1>2, <1>3, <1>5
     DEF Init, QueueInv, JobInv, WalkInv, TextInv, GotInv, BeforeInv, ListingComplete
<1> QED
  BY <1>6, <1>7, <1>8, <1>9 DEF IInv

LEMMA StepInv == IInv /\ [Next]_vars => IInv'
<1> SUFFICES ASSUME IInv, [Next]_vars PROVE IInv'
  OBVIOUS
<1>1. TypeOK'
  BY StepType
<1>2. Sessions' /\ Grows /\ ShapeInv'
  BY StepSessions DEF IInv, Sessions
<1>3. WorkInv'
  BY <1>2, StepWork
<1> QED
  BY <1>1, <1>2, <1>3 DEF IInv, Sessions, WorkInv

\* Every reachable state of the sessions, the queue and the workers is one of those
\* the invariant describes: where a listener or worker is in its code tells what its
\* client has said and what it holds.
THEOREM Invariance == Spec => []IInv
  BY InitInv, StepInv, PTL DEF Spec

-----------------------------------------------------------------------------
(* Theorems.                                                               *)

\* Every variable keeps its type; workers have tasks, and walks stand at clients.
THEOREM TypeCorrect == Spec => []TypeOK
<1>1. IInv => TypeOK
  BY DEF IInv
<1> QED
  BY <1>1, Invariance, PTL

\* Nobody who has said more than the first task is without a name.
LEMMA SpeakersAreNamed ==
  ASSUME IInv, NEW c \in Clients, Len(log[c]) >= 2
  PROVE  name[c] \in Names
<1>1. InSession(c) /\ pc[c] \in SessionLabels
  BY DEF IInv, TypeOK, SessionInv, SessionLabels
<1>2. Len(log[c]) # 1 /\ Len(log[c]) # 0
  <2>1. log[c] \in Seq([kind : TaskKinds, audience : SUBSET Clients])
    BY DEF IInv, TypeOK
  <2>2. Len(log[c]) \in Nat
    BY <2>1, LenProperties
  <2>3. \A n \in Nat : n >= 2 => n # 1 /\ n # 0
    OBVIOUS
  <2> QED
    BY <2>2, <2>3
<1> QED
  BY <1>1, <1>2 DEF InSession, SessionLabels, Silent, Listed, Speaking, HasLeft

\* What a client receives names its sender by the name that one logged in with, as
\* long as the sender is there, however a worker's copy of the name, the login of
\* the sender and its departure are interleaved.
THEOREM MessagesNameTheSender == Spec => []SendersAreNamed
<1>1. IInv => SendersAreNamed
  <2> SUFFICES ASSUME IInv, NEW c \in Clients, NEW m \in DOMAIN got[c],
                      m.kind # "list", m.from \notin freed
               PROVE  m.text = name[m.from] /\ m.text \in Names
    BY DEF SendersAreNamed
  <2>1. m.from \in Clients
    BY DEF IInv, TypeOK
  <2>2. Len(log[m.from]) >= 2 /\ m.text = name[m.from]
    BY DEF IInv, GotInv
  <2> QED
    BY <2>1, <2>2, SpeakersAreNamed
<1> QED
  BY <1>1, Invariance, PTL

\* The listing a new client gets shows every client accepted before it that has
\* not left, although its task is created before it is in the list and the list
\* is copied at any later time.
THEOREM ListingShowsAll == Spec => []ListingComplete
<1>1. IInv => ListingComplete
  BY DEF IInv
<1> QED
  BY <1>1, Invariance, PTL

-----------------------------------------------------------------------------
(* ChatServer implements ChatSession.                                      *)

LastKind(c) == IF log[c] = <<>> THEN "none" ELSE Last(log[c]).kind
KnownAs(c) == IF Len(log[c]) < 2 THEN Address ELSE name[c]

LEMMA SessionInit == Init => Session!Init
<1> SUFFICES ASSUME Init PROVE Session!Init
  OBVIOUS
<1>1. \A c \in Clients : log[c] = <<>> /\ Len(log[c]) = 0
  BY DEF Init
<1> QED
  BY <1>1 DEF Session!Init

\* A step that leaves the log and the names of those who have spoken is no step
\* of the sessions.
LEMMA SessionStutter ==
  ASSUME UNCHANGED log, \A c \in Clients : Len(log[c]) < 2 \/ name'[c] = name[c]
  PROVE  UNCHANGED Session!vars
  BY DEF Session!vars

\* A step in which client c creates a task.
LEMMA SessionSpeaks ==
  ASSUME IInv, NEW c \in Clients, NEW kind \in TaskKinds,
         NEW to \in Receivers \cup {Everybody, NULL}, Enqueue(c, kind, to), UNCHANGED name,
         \/ kind = "list" /\ Len(log[c]) = 0
         \/ kind = "conn" /\ Listed(c) /\ name[c] \in Names
         \/ kind \in {"text", "disconn"} /\ Speaking(c)
  PROVE  [Session!Next]_Session!vars
<1>1. /\ Len(log[c]) \in Nat /\ Len(log'[c]) = Len(log[c]) + 1
      /\ DOMAIN log[c] = 1 .. Len(log[c])
      /\ log'[c][Len(log[c]) + 1] = [kind |-> kind, audience |-> Audience(to)]
      /\ \A d \in Clients \ {c} : log'[d] = log[d]
      /\ log'[c] \in Seq([kind : TaskKinds, audience : SUBSET Clients])
      /\ log[c] \in Seq([kind : TaskKinds, audience : SUBSET Clients])
  <2>1. TypeOK /\ log[c] \in Seq([kind : TaskKinds, audience : SUBSET Clients])
    BY DEF IInv, TypeOK
  <2>2. /\ log' \in [Clients -> Seq([kind : TaskKinds, audience : SUBSET Clients])]
        /\ Len(log[c]) \in Nat /\ Len(log'[c]) = Len(log[c]) + 1
        /\ DOMAIN log[c] = 1 .. Len(log[c])
        /\ log'[c][Len(log[c]) + 1] = [kind |-> kind, audience |-> Audience(to)]
        /\ \A d \in Clients \ {c} : log'[d] = log[d]
    BY <2>1, EnqueueFacts
  <2> QED
    BY <2>1, <2>2
<1>2. log'[c] # <<>> /\ (log[c] = <<>> <=> Len(log[c]) = 0)
  BY <1>1, EmptySeq
<1>3. LastKind(c)' = kind /\ \A d \in Clients \ {c} : LastKind(d)' = LastKind(d)
  BY <1>1, <1>2 DEF LastKind, Last
<1>4. \A d \in Clients \ {c} : KnownAs(d)' = KnownAs(d)
  BY <1>1 DEF KnownAs
<1> DEFINE last == [d \in Clients |-> LastKind(d)]
           known == [d \in Clients |-> KnownAs(d)]
<1>5. last' = [last EXCEPT ![c] = kind]
  BY <1>3
<1>6. Session!Connect(c) <=> /\ last[c] \in {"none"} /\ last' = [last EXCEPT ![c] = "list"]
                             /\ known' = known
  BY Zenon DEF Session!Connect, Session!Advance, LastKind, KnownAs
<1>7. Session!LogIn(c) <=> /\ last[c] \in {"list"} /\ last' = [last EXCEPT ![c] = "conn"]
                           /\ \E n \in Names : known' = [known EXCEPT ![c] = n]
  BY Zenon DEF Session!LogIn, Session!Advance, LastKind, KnownAs
<1>8. Session!Say(c) <=> /\ last[c] \in {"conn"} /\ last' = [last EXCEPT ![c] = "text"]
                         /\ known' = known
  BY Zenon DEF Session!Say, Session!Advance, LastKind, KnownAs
<1>9. Session!Leave(c) <=> /\ last[c] \in {"conn", "text"} /\ last' = [last EXCEPT ![c] = "disconn"]
                           /\ known' = known
  BY Zenon DEF Session!Leave, Session!Advance, LastKind, KnownAs
<1>10. UNCHANGED Session!vars <=> last' = last /\ known' = known
  BY Zenon DEF Session!vars, LastKind, KnownAs
<1>11. CASE kind = "list" /\ Len(log[c]) = 0
  <2>1. last[c] = "none" /\ KnownAs(c)' = KnownAs(c)
    BY <1>1, <1>2, <1>11 DEF LastKind, KnownAs
  <2>2. known' = known
    BY <1>4, <2>1
  <2> QED
    BY <1>5, <1>6, <1>11, <2>1, <2>2 DEF Session!Next
<1>12. CASE kind = "conn" /\ Listed(c) /\ name[c] \in Names
  <2>1. Len(log[c]) = 1 /\ log[c][1].kind = "list"
    BY <1>1, <1>12 DEF IInv, LogInv, Listed
  <2>2. last[c] = "list"
    BY <1>2, <2>1 DEF LastKind, Last
  <2>3. KnownAs(c)' = name[c]
    BY <1>1, <2>1 DEF KnownAs
  <2>4. known' = [known EXCEPT ![c] = name[c]]
    BY <1>4, <2>3
  <2> QED
    BY <1>5, <1>7, <1>12, <2>2, <2>4 DEF Session!Next
<1>13. CASE kind \in {"text", "disconn"} /\ Speaking(c)
  <2>1. Len(log[c]) >= 2 /\ last[c] \in {"conn", "text"}
    BY <1>1, <1>2, <1>13 DEF Speaking, LastKind
  <2>2. KnownAs(c)' = KnownAs(c)
    BY <1>1, <2>1 DEF KnownAs
  <2>3. known' = known
    BY <1>4, <2>2
  <2>4. CASE kind = "disconn"
    BY <1>5, <1>9, <2>1, <2>3, <2>4 DEF Session!Next
  <2>5. CASE kind = "text" /\ last[c] = "conn"
    BY <1>5, <1>8, <2>3, <2>5 DEF Session!Next
  <2>6. CASE kind = "text" /\ last[c] = "text"
    <3>1. last' = last
      BY <1>5, <2>6
    <3> QED
      BY <1>10, <2>3, <3>1
  <2> QED
    BY <1>13, <2>1, <2>4, <2>5, <2>6
<1> QED
  BY <1>11, <1>12, <1>13

\* Each step of ChatServer is a step of ChatSession, or leaves its variables.
LEMMA SessionNext == IInv /\ [Next]_vars => [Session!Next]_Session!vars
<1> SUFFICES ASSUME IInv, [Next]_vars PROVE [Session!Next]_Session!vars
  OBVIOUS
<1>a. TypeOK /\ SessionInv /\ FreshInv /\ ShapeInv
  BY DEF IInv
<1>b. \A c \in Clients : InSession(c) /\ Len(log[c]) \in Nat
  BY <1>a, LenProperties DEF SessionInv, TypeOK
<1>1. CASE Accept
  <2>1. PICK c \in Clients \ Created : Enqueue(c, "list", NULL)
    BY <1>1 DEF Accept
  <2>2. c \in Clients /\ pc[c] = "none" /\ c # fresh /\ UNCHANGED name
    BY <1>1 DEF Created, Accept
  <2>3. Len(log[c]) = 0
    BY <1>b, <2>2 DEF InSession, Silent
  <2> QED
    BY <2>1, <2>2, <2>3, SessionSpeaks DEF TaskKinds
<1>2. CASE AddToList
  BY <1>2, SessionStutter DEF AddToList, sessions
<1>3. ASSUME NEW c \in Clients, LoginName(c) PROVE [Session!Next]_Session!vars
  <2>1. Len(log[c]) < 2
    <3>1. pc[c] = "login" /\ InSession(c)
      BY <1>3, <1>b DEF LoginName, At
    <3>2. Len(log[c]) = 1
      BY <3>1 DEF InSession, Listed
    <3> QED
      BY <3>2
  <2>2. \A d \in Clients \ {c} : name'[d] = name[d]
    BY <1>3, <1>a DEF LoginName, TypeOK
  <2> QED
    BY <1>3, <2>1, <2>2, SessionStutter DEF LoginName
<1>4. ASSUME NEW c \in Clients, Announce(c) PROVE [Session!Next]_Session!vars
  <2>1. Listed(c) /\ name[c] \in Names
    BY <1>4, <1>b DEF Announce, At, InSession
  <2> QED
    BY <1>4, <2>1, SessionSpeaks DEF Announce, TaskKinds
<1>5. ASSUME NEW c \in Clients, SayBye(c) PROVE [Session!Next]_Session!vars
  <2>1. Speaking(c)
    BY <1>5, <1>b DEF SayBye, At, InSession
  <2> QED
    BY <1>5, <2>1, SessionSpeaks DEF SayBye, TaskKinds
<1>6. ASSUME NEW c \in Clients, Say(c) PROVE [Session!Next]_Session!vars
  <2>1. Speaking(c)
    BY <1>6, <1>b DEF Say, At, ReadLine, MaySay, InSession
  <2> QED
    BY <1>6, <2>1, SessionSpeaks DEF Say, TaskKinds
<1>7. ASSUME NEW c \in Clients,
             RemoveSelf(c) \/ LoginFlag(c) \/ Refuse(c) \/ Leave(c) \/ Blank(c) \/ HangUp(c)
      PROVE  [Session!Next]_Session!vars
  <2>1. UNCHANGED <<log, name>>
    BY <1>7 DEF RemoveSelf, LoginFlag, Refuse, Leave, Blank, HangUp, sessions
  <2> QED
    BY <2>1, SessionStutter
<1>8. ASSUME NEW w \in Workers, WorkerStep(w) PROVE [Session!Next]_Session!vars
  BY <1>8, <1>a, WorkerStepFrame, SessionStutter
<1>9. CASE UNCHANGED vars
  BY <1>9, SessionStutter DEF vars, sessions
<1> QED
  BY <1>1, <1>2, <1>3, <1>4, <1>5, <1>6, <1>7, <1>8, <1>9
     DEF Next, MainStep, SessionStep, InputStep

\* The accept loop, the listeners and the workers together keep to ChatSession:
\* a client asks for the listing first, is announced once under a name it keeps,
\* and says nothing after its farewell.
THEOREM ImplementsSession == Spec => SessionSpec
<1>1. Spec => Session!Init /\ [][Session!Next]_Session!vars
  BY SessionInit, SessionNext, Invariance, PTL DEF Spec
<1> QED
  BY <1>1 DEF SessionSpec, Session!Spec

-----------------------------------------------------------------------------
(* Delivery: a task that was processed has reached everyone it was for,    *)
(* and nobody twice, for any number of clients, workers and lines.         *)

\* Who is in the audience of a task was listed then and is listed until freed; the
\* listing is for its creator alone.
AudienceInv ==
  \A c \in Clients : \A no \in DOMAIN log[c] :
    /\ log[c][no].audience \subseteq Range(roster) \cup freed
    /\ log[c][no].kind = "list" => log[c][no].audience = {}

\* A task that waits or is worked on must still reach everyone it had to at first.
ForAudience(t) == \A d \in log[t.from][t.no].audience : MustReach(t.to, d)
ToInv ==
  /\ \A i \in DOMAIN queue : ForAudience(queue[i])
  /\ \A w \in Workers : job[w] # NULL => ForAudience(job[w])

\* No task is twice in the queue, with two workers, or in both.
Same(t, u) == t.from = u.from /\ t.no = u.no
OnceInv ==
  /\ \A i, j \in DOMAIN queue : Same(queue[i], queue[j]) => i = j
  /\ \A i \in DOMAIN queue : \A w \in Workers : job[w] # NULL => ~Same(queue[i], job[w])
  /\ \A v, w \in Workers : job[v] # NULL /\ job[w] # NULL /\ Same(job[v], job[w]) => v = w

\* A message comes from a task that was created.
SourceInv == \A d \in Clients : \A m \in DOMAIN got[d] : m.no \in DOMAIN log[m.from]

\* A walk has passed the clients before the one it stands at, and that one after
\* it was visited.
Ahead(s, d, c) == \E i, j \in DOMAIN s : i < j /\ s[i] = d /\ s[j] = c
Passed(w, d) == Ahead(roster, d, at[w]) \/ (pc[w] = "step" /\ d = at[w])

\* Nobody has a message of a task before a walk for it begins.  A walk has
\* delivered to those of the audience it has passed, and only to those passed.
FreshTask(t) == \A d \in Clients : ~Received(d, t.from, t.no)
OnWalk(w) ==
  /\ \A d \in log[job[w].from][job[w].no].audience :
       Passed(w, d) => Received(d, job[w].from, job[w].no)
  /\ \A d \in Clients \ freed : Received(d, job[w].from, job[w].no) => Passed(w, d)

CleanInv ==
  ~misused =>
    /\ \A w \in Workers : at[w] \notin freed
    /\ \A i \in DOMAIN queue : FreshTask(queue[i])
    /\ \A w \in Workers : pc[w] \in {"format", "begin", "copy", "reply"} => FreshTask(job[w])
    /\ \A w \in Workers : pc[w] \in {"walk", "step"} => OnWalk(w)

TaskInv == AudienceInv /\ ToInv /\ OnceInv /\ SourceInv /\ CleanInv /\ ReachesAudience

-----------------------------------------------------------------------------
(* Lemmas about the order in a list.                                       *)

LEMMA AheadInAppend ==
  ASSUME NEW S, NEW s \in Seq(S), NEW e \in S, e \notin Range(s),
         NEW c \in Range(s), NEW d
  PROVE  Ahead(Append(s, e), d, c) <=> Ahead(s, d, c)
<1> DEFINE r == Append(s, e)
<1>1. /\ Len(s) \in Nat /\ DOMAIN s = 1 .. Len(s) /\ DOMAIN r = 1 .. Len(s) + 1
      /\ \A i \in 1 .. Len(s) : r[i] = s[i]
      /\ r[Len(s) + 1] = e
  BY AppendFacts
<1> HIDE DEF r
<1>2. ASSUME NEW i \in DOMAIN r, NEW j \in DOMAIN r, i < j, r[i] = d, r[j] = c
      PROVE  Ahead(s, d, c)
  <2>1. c # e
    OBVIOUS
  <2>2. j # Len(s) + 1
    BY <1>1, <1>2, <2>1
  <2>3. i \in 1 .. Len(s) /\ j \in 1 .. Len(s)
    BY <1>1, <1>2, <2>2
  <2> QED
    BY <1>1, <1>2, <2>3 DEF Ahead
<1>3. ASSUME NEW i \in DOMAIN s, NEW j \in DOMAIN s, i < j, s[i] = d, s[j] = c
      PROVE  Ahead(r, d, c)
  <2>1. i \in DOMAIN r /\ j \in DOMAIN r /\ r[i] = d /\ r[j] = c
    BY <1>1, <1>3
  <2> QED
    BY <1>3, <2>1 DEF Ahead
<1>4. Ahead(r, d, c) <=> Ahead(s, d, c)
  BY <1>2, <1>3 DEF Ahead
<1> QED
  BY <1>4 DEF r

LEMMA AheadInRemove ==
  ASSUME NEW S, NEW s \in Seq(S), Injective(s), NEW k \in DOMAIN s,
         NEW c, NEW d, c # s[k], d # s[k]
  PROVE  Ahead(RemoveAt(s, k), d, c) <=> Ahead(s, d, c)
<1> DEFINE r == RemoveAt(s, k)
<1>1. /\ Len(s) \in Nat /\ DOMAIN s = 1 .. Len(s) /\ DOMAIN r = 1 .. Len(s) - 1
      /\ \A i \in 1 .. Len(s) - 1 : r[i] = IF i < k THEN s[i] ELSE s[i + 1]
  BY RemoveFacts
<1> HIDE DEF r
<1>2. ASSUME NEW i \in DOMAIN r, NEW j \in DOMAIN r, i < j, r[i] = d, r[j] = c
      PROVE  Ahead(s, d, c)
  <2> DEFINE x == IF i < k THEN i ELSE i + 1
             y == IF j < k THEN j ELSE j + 1
  <2>1. x \in DOMAIN s /\ y \in DOMAIN s /\ x < y
    BY <1>1, <1>2
  <2>2. s[x] = d /\ s[y] = c
    BY <1>1, <1>2
  <2> QED
    BY <2>1, <2>2 DEF Ahead
<1>3. ASSUME NEW i \in DOMAIN s, NEW j \in DOMAIN s, i < j, s[i] = d, s[j] = c
      PROVE  Ahead(r, d, c)
  <2> DEFINE x == IF i < k THEN i ELSE i - 1
             y == IF j < k THEN j ELSE j - 1
  <2>1. i # k /\ j # k
    BY <1>3
  <2>2. x \in DOMAIN r /\ y \in DOMAIN r /\ x < y
    BY <1>1, <1>3, <2>1
  <2>3. r[x] = d /\ r[y] = c
    <3>1. r[x] = s[i]
      <4>1. CASE i < k
        BY <1>1, <2>2, <4>1
      <4>2. CASE ~(i < k)
        <5>1. x = i - 1 /\ ~(i - 1 < k) /\ i - 1 + 1 = i
          BY <1>1, <2>1, <4>2
        <5> QED
          BY <1>1, <2>2, <5>1
      <4> QED
        BY <4>1, <4>2
    <3>2. r[y] = s[j]
      <4>1. CASE j < k
        BY <1>1, <2>2, <4>1
      <4>2. CASE ~(j < k)
        <5>1. y = j - 1 /\ ~(j - 1 < k) /\ j - 1 + 1 = j
          BY <1>1, <2>1, <4>2
        <5> QED
          BY <1>1, <2>2, <5>1
      <4> QED
        BY <4>1, <4>2
    <3> QED
      BY <1>3, <3>1, <3>2
  <2> QED
    BY <2>2, <2>3 DEF Ahead
<1>4. Ahead(r, d, c) <=> Ahead(s, d, c)
  BY <1>2, <1>3 DEF Ahead
<1> QED
  BY <1>4 DEF r

\* Nobody is ahead of the first, everybody else of the last, and ahead of the next
\* are those ahead of a client and that client.
LEMMA AheadFacts ==
  ASSUME NEW S, NEW s \in Seq(S), Injective(s), NEW k \in DOMAIN s, NEW d
  PROVE  /\ ~Ahead(s, s[k], s[k])
         /\ ~Ahead(s, d, s[1])
         /\ k = Len(s) /\ d \in Range(s) => Ahead(s, d, s[k]) \/ d = s[k]
         /\ k # Len(s) => k + 1 \in DOMAIN s /\ (Ahead(s, d, s[k + 1]) <=> Ahead(s, d, s[k]) \/ d = s[k])
<1>1. DOMAIN s = 1 .. Len(s) /\ Len(s) \in Nat /\ 1 \in DOMAIN s
  BY LenProperties
<1>2. \A i, j \in DOMAIN s : s[i] = s[j] => i = j
  BY DEF Injective
<1>3. ~Ahead(s, s[k], s[k])
  BY <1>1, <1>2 DEF Ahead
<1>4. ~Ahead(s, d, s[1])
  BY <1>1, <1>2 DEF Ahead
<1>5. k = Len(s) /\ d \in Range(s) => Ahead(s, d, s[k]) \/ d = s[k]
  <2> SUFFICES ASSUME k = Len(s), NEW i \in DOMAIN s, d = s[i], i # k
               PROVE  Ahead(s, d, s[k])
    BY DEF Range
  <2>1. i < k
    BY <1>1
  <2> QED
    BY <2>1 DEF Ahead
<1>6. ASSUME k # Len(s)
      PROVE  k + 1 \in DOMAIN s /\ (Ahead(s, d, s[k + 1]) <=> Ahead(s, d, s[k]) \/ d = s[k])
  <2>1. k + 1 \in DOMAIN s
    BY <1>1, <1>6
  <2>2. ASSUME NEW i \in DOMAIN s, NEW j \in DOMAIN s, i < j, s[i] = d, s[j] = s[k + 1]
        PROVE  Ahead(s, d, s[k]) \/ d = s[k]
    <3>1. j = k + 1
      BY <1>2, <2>1, <2>2
    <3>2. i = k \/ i < k
      BY <1>1, <2>2, <3>1
    <3> QED
      BY <2>2, <3>2 DEF Ahead
  <2>3. ASSUME NEW i \in DOMAIN s, NEW j \in DOMAIN s, i < j, s[i] = d, s[j] = s[k]
        PROVE  Ahead(s, d, s[k + 1])
    <3>1. j = k /\ i < k + 1
      BY <1>1, <1>2, <2>3
    <3> QED
      BY <2>1, <2>3, <3>1 DEF Ahead
  <2>4. d = s[k] => Ahead(s, d, s[k + 1])
    <3>1. k < k + 1
      BY <1>1
    <3> QED
      BY <2>1, <3>1 DEF Ahead
  <2> QED
    BY <2>1, <2>2, <2>3, <2>4 DEF Ahead
<1> QED
  BY <1>3, <1>4, <1>5, <1>6

-----------------------------------------------------------------------------
(* Lemmas about steps.                                                     *)

\* A name, once it was copied, stays.
KeepsNames == \A d \in Clients : Named(d) => Named(d)' /\ name'[d] = name[d]

LEMMA StepNames ==
  ASSUME IInv, [Next]_vars
  PROVE  KeepsNames
<1> USE Labels DEF KeepsNames, Named, LoggedIn
<1>a. /\ TypeOK /\ ShapeInv /\ SessionInv /\ FreshInv
      /\ pc \in [Threads -> MainLabels \cup SessionLabels \cup WorkerLabels]
      /\ flags \in [Clients -> SUBSET {"connected", "loggedIn"}]
      /\ name \in [Clients -> Names \cup {Address}]
      /\ \A c \in Clients : InSession(c)
  BY DEF IInv, TypeOK, ShapeInv, SessionInv
<1>1. CASE Accept
  <2>1. PICK c \in Clients \ Created : flags' = [flags EXCEPT ![c] = {"connected"}]
    BY <1>1 DEF Accept
  <2>2. ~LoggedIn(c)
    BY <1>a, <2>1 DEF Created, InSession
  <2>3. UNCHANGED name /\ pc' = [pc EXCEPT ![Main] = "add"]
    BY <1>1 DEF Accept, Goto
  <2> QED
    BY <1>a, <2>1, <2>2, <2>3
<1>2. CASE AddToList
  <2>1. UNCHANGED <<name, flags>> /\ pc' = [pc EXCEPT ![fresh] = "listen", ![Main] = "accept"]
    BY <1>2 DEF AddToList, sessions
  <2> QED
    BY <1>a, <2>1
<1>3. ASSUME NEW c \in Clients, LoginFlag(c) PROVE KeepsNames
  <2>1. /\ UNCHANGED name /\ pc' = [pc EXCEPT ![c] = "login"] /\ ~LoggedIn(c)
        /\ flags' = [flags EXCEPT ![c] = @ \cup {"loggedIn"}]
    BY <1>3 DEF LoginFlag, Goto, MayLogIn
  <2> QED
    BY <1>a, <2>1
<1>4. ASSUME NEW c \in Clients, LoginName(c) PROVE KeepsNames
  <2>1. /\ UNCHANGED flags /\ pc' = [pc EXCEPT ![c] = "announce"] /\ pc[c] = "login"
        /\ \E n \in Names : name' = [name EXCEPT ![c] = n]
    BY <1>4 DEF LoginName, Goto, At
  <2> QED
    BY <1>a, <2>1
<1>5. ASSUME NEW c \in Clients, Leave(c) PROVE KeepsNames
  <2>1. /\ UNCHANGED name /\ pc' = [pc EXCEPT ![c] = "bye"]
        /\ flags' = [flags EXCEPT ![c] = @ \ {"connected"}]
    BY <1>5 DEF Leave, Goto
  <2> QED
    BY <1>a, <2>1
<1>6. ASSUME NEW c \in Clients, Announce(c) \/ Say(c) \/ SayBye(c) \/ RemoveSelf(c)
                                  \/ Refuse(c) \/ Blank(c) \/ HangUp(c)
      PROVE  KeepsNames
  <2>1. /\ UNCHANGED <<name, flags>>
        /\ UNCHANGED pc \/ \E l \in SessionLabels \ {"login"} : pc' = [pc EXCEPT ![c] = l]
    BY <1>6 DEF Announce, Say, SayBye, RemoveSelf, Refuse, Blank, HangUp, sessions, Goto,
                SessionLabels
  <2> QED
    BY <1>a, <2>1
<1>7. ASSUME NEW w \in Workers, WorkerStep(w) PROVE KeepsNames
  BY <1>7, <1>a, WorkerStepFrame
<1>8. CASE UNCHANGED vars
  BY <1>8 DEF vars, sessions
<1> QED
  BY <1>1, <1>2, <1>3, <1>4, <1>5, <1>6, <1>7, <1>8
     DEF Next, MainStep, SessionStep, InputStep

\* The tasks that wait or are worked on, and what is in the log, have their types.
LEMMA TaskTypes ==
  ASSUME IInv
  PROVE  /\ \A i \in DOMAIN queue : queue[i] \in TaskSet /\ Logged(queue[i])
         /\ \A w \in Workers : job[w] # NULL => job[w] \in TaskSet /\ Logged(job[w])
         /\ \A w \in Workers : job[w] # NULL <=> pc[w] # "idle"
         /\ \A t \in TaskSet : t.from \in Clients
         /\ \A c \in Clients : \A no \in DOMAIN log[c] : log[c][no].audience \subseteq Clients
         /\ \A c \in Clients : Len(log[c]) \in Nat /\ DOMAIN log[c] = 1 .. Len(log[c])
         /\ queue \in Seq(TaskSet) /\ DOMAIN queue = 1 .. Len(queue) /\ Len(queue) \in Nat
         /\ DOMAIN job = Workers /\ DOMAIN got = Clients
         /\ \A d \in Clients : \A m \in DOMAIN got[d] : m.from \in Clients
         /\ \A w \in Workers : at[w] # NULL <=> pc[w] \in {"walk", "step"}
         /\ \A w \in Workers : at[w] # NULL => at[w] \in Range(roster) \cup freed
<1>1. /\ TypeOK /\ ShapeInv /\ QueueInv /\ JobInv /\ WalkInv
  BY DEF IInv
<1>2. \A c \in Clients : log[c] \in Seq([kind : TaskKinds, audience : SUBSET Clients])
  BY <1>1 DEF TypeOK
<1>3. \A c \in Clients : Len(log[c]) \in Nat /\ DOMAIN log[c] = 1 .. Len(log[c])
  BY <1>2, LenProperties
<1>4. \A c \in Clients : \A no \in DOMAIN log[c] : log[c][no].audience \subseteq Clients
  <2> SUFFICES ASSUME NEW c \in Clients, NEW no \in DOMAIN log[c]
               PROVE  log[c][no].audience \subseteq Clients
    OBVIOUS
  <2>1. log[c][no] \in [kind : TaskKinds, audience : SUBSET Clients]
    BY <1>2, <1>3, ElementOfSeq
  <2> QED
    BY <2>1
<1>5. /\ queue \in Seq(TaskSet) /\ DOMAIN queue = 1 .. Len(queue) /\ Len(queue) \in Nat
      /\ \A i \in DOMAIN queue : queue[i] \in TaskSet /\ Logged(queue[i])
  BY <1>1, LenProperties, ElementOfSeq DEF TypeOK, QueueInv
<1>6. /\ \A w \in Workers : job[w] # NULL => job[w] \in TaskSet /\ Logged(job[w])
      /\ \A w \in Workers : job[w] # NULL <=> pc[w] # "idle"
      /\ DOMAIN job = Workers
  BY <1>1 DEF TypeOK, JobInv
<1>7. \A d \in Clients : \A m \in DOMAIN got[d] : m.from \in Clients
  BY <1>1 DEF TypeOK
<1>8. /\ \A w \in Workers : at[w] # NULL <=> pc[w] \in {"walk", "step"}
      /\ \A w \in Workers : at[w] # NULL => at[w] \in Range(roster) \cup freed
  BY <1>1 DEF WalkInv
<1>9. (\A t \in TaskSet : t.from \in Clients) /\ DOMAIN got = Clients
  BY <1>1 DEF TaskSet, ShapeInv
<1> QED
  BY <1>3, <1>4, <1>5, <1>6, <1>7, <1>8, <1>9

MustReachNext(to, d) ==
  \/ to = Everybody
  \/ "loggedIn" \in flags'[d] /\ pc'[d] # "login" /\ to \in Receivers /\ name'[d] \in Begins[to]

ForAudienceNext(t) == \A d \in log'[t.from][t.no].audience : MustReachNext(t.to, d)

\* A message that must reach a client stays so.
LEMMA StaysFor ==
  ASSUME KeepsNames, NEW to, NEW d \in Clients, MustReach(to, d)
  PROVE  MustReachNext(to, d)
  BY DEF KeepsNames, MustReach, MustReachNext, Named, LoggedIn, IsFor

\* Tasks that were there before must still reach whom they had to.
LEMMA StepTo ==
  ASSUME IInv, ToInv, KeepsNames,
         \A t \in TaskSet : Logged(t) => log'[t.from][t.no] = log[t.from][t.no],
         \A i \in DOMAIN queue' :
           (\E j \in DOMAIN queue : queue'[i] = queue[j]) \/ ForAudienceNext(queue'[i]),
         \A w \in Workers : job'[w] # NULL =>
           job'[w] = job[w] \/ \E j \in DOMAIN queue : job'[w] = queue[j]
  PROVE  ToInv'
<1>1. ASSUME NEW t \in TaskSet, Logged(t), ForAudience(t)
      PROVE  ForAudienceNext(t)
  <2>1. log'[t.from][t.no].audience = log[t.from][t.no].audience
    BY <1>1
  <2>2. \A d \in log[t.from][t.no].audience : d \in Clients /\ MustReach(t.to, d)
    BY <1>1, TaskTypes DEF Logged, ForAudience
  <2> QED
    BY <2>1, <2>2, StaysFor DEF ForAudienceNext
<1>2. \A j \in DOMAIN queue : ForAudienceNext(queue[j])
  BY <1>1, TaskTypes DEF ToInv
<1>3. \A i \in DOMAIN queue' : ForAudienceNext(queue'[i])
  BY <1>2
<1>4. \A w \in Workers : job'[w] # NULL => ForAudienceNext(job'[w])
  <2>1. \A w \in Workers : job[w] # NULL => ForAudienceNext(job[w])
    BY <1>1, TaskTypes DEF ToInv
  <2> QED
    BY <1>2, <2>1
<1> QED
  BY <1>3, <1>4 DEF ToInv, ForAudience, ForAudienceNext, MustReach, MustReachNext, Named,
                    LoggedIn, IsFor

\* Where a worker has not yet delivered anything of its task.
Early == {"format", "begin", "copy", "reply"}

\* A step that changes neither the list, the tasks nor what was received.
LEMMA QuietStep ==
  ASSUME IInv, TaskInv, KeepsNames,
         \A w \in Workers : pc'[w] = pc[w] \/ {pc[w], pc'[w]} \subseteq Early,
         UNCHANGED <<queue, roster, log, job, at, got, freed>>, misused => misused'
  PROVE  TaskInv'
<1>a. AudienceInv /\ ToInv /\ OnceInv /\ SourceInv /\ CleanInv /\ ReachesAudience
  BY DEF TaskInv
<1>1. AudienceInv'
  BY <1>a DEF AudienceInv
<1>2. ToInv'
  BY <1>a, StepTo
<1>3. OnceInv' /\ SourceInv'
  BY <1>a DEF OnceInv, SourceInv, Same
<1>4. CleanInv'
  <2> SUFFICES ASSUME ~misused' PROVE CleanInv'
    BY DEF CleanInv
  <2>1. \A w \in Workers : pc'[w] \in Early => FreshTask(job[w])'
    BY <1>a DEF CleanInv, FreshTask, Received, Early
  <2>2. \A w \in Workers : pc'[w] \in {"walk", "step"} => OnWalk(w)'
    BY <1>a DEF CleanInv, OnWalk, Passed, Received, Early
  <2> QED
    BY <1>a, <2>1, <2>2 DEF CleanInv, FreshTask, Received, Early
<1>5. ReachesAudience'
  BY <1>a DEF ReachesAudience, IsDone, Unprocessed, Received
<1> QED
  BY <1>1, <1>2, <1>3, <1>4, <1>5 DEF TaskInv

\* A step in which a task is created.
LEMMA CreateStep ==
  ASSUME IInv, TaskInv, KeepsNames, \A w \in Workers : pc'[w] = pc[w],
         NEW c \in Clients, NEW kind \in TaskKinds, NEW to \in Receivers \cup {Everybody, NULL},
         Enqueue(c, kind, to), kind = "list" => to = NULL,
         UNCHANGED <<roster, name, job, at, got, freed, misused>>
  PROVE  TaskInv'
<1> DEFINE n == Len(log[c]) + 1
<1>a. AudienceInv /\ ToInv /\ OnceInv /\ SourceInv /\ CleanInv /\ ReachesAudience /\ TypeOK
  BY DEF TaskInv, IInv
<1>b. /\ DOMAIN queue' = DOMAIN queue \cup {Len(queue) + 1}
      /\ \A i \in DOMAIN queue : queue'[i] = queue[i]
      /\ queue'[Len(queue) + 1] = [kind |-> kind, from |-> c, to |-> to, no |-> n]
      /\ DOMAIN log[c] = 1 .. Len(log[c]) /\ DOMAIN log'[c] = 1 .. n /\ Len(log[c]) \in Nat
      /\ \A no \in DOMAIN log[c] : log'[c][no] = log[c][no]
      /\ log'[c][n] = [kind |-> kind, audience |-> Audience(to)]
      /\ \A d \in Clients \ {c} : log'[d] = log[d]
  BY <1>a, EnqueueFacts
<1> HIDE DEF n
<1>c. DOMAIN log'[c] = DOMAIN log[c] \cup {n} /\ n \notin DOMAIN log[c]
  BY <1>b DEF n
<1>d. /\ queue'[Len(queue) + 1].from = c /\ queue'[Len(queue) + 1].to = to
      /\ queue'[Len(queue) + 1].no = n
      /\ log'[c][n].audience = Audience(to) /\ log'[c][n].kind = kind
  BY <1>b
<1>e. Len(queue) + 1 \notin DOMAIN queue
  BY TaskTypes
<1>f. \A d \in Clients : \A no \in DOMAIN log[d] : no \in DOMAIN log'[d] /\ log'[d][no] = log[d][no]
  BY <1>b, <1>c
<1>g. \A t \in TaskSet : Logged(t) =>
        t.from \in Clients /\ log'[t.from][t.no] = log[t.from][t.no] /\ ~(t.from = c /\ t.no = n)
  BY <1>c, <1>f, TaskTypes DEF Logged
<1>1. AudienceInv'
  <2>1. Audience(to) \subseteq Range(roster) /\ (kind = "list" => Audience(to) = {})
    BY Labels DEF Audience, MustReach, IsFor
  <2>2. ASSUME NEW d \in Clients, NEW no \in DOMAIN log'[d]
        PROVE  /\ log'[d][no].audience \subseteq Range(roster) \cup freed
               /\ log'[d][no].kind = "list" => log'[d][no].audience = {}
    <3>1. CASE d = c /\ no = n
      BY <1>d, <2>1, <3>1
    <3>2. CASE ~(d = c /\ no = n)
      <4>1. no \in DOMAIN log[d] /\ log'[d][no] = log[d][no]
        BY <1>b, <1>c, <2>2, <3>2
      <4> QED
        BY <1>a, <4>1 DEF AudienceInv
    <3> QED
      BY <3>1, <3>2
  <2> QED
    BY <2>2 DEF AudienceInv
<1>2. ToInv'
  <2>1. \A d \in Audience(to) : MustReachNext(to, d)
    <3>1. \A d \in Audience(to) : d \in Clients /\ MustReach(to, d)
      BY <1>a, LenProperties, ElementOfSeq DEF Audience, TypeOK, Range
    <3> QED
      BY <3>1, StaysFor
  <2>2. ForAudienceNext(queue'[Len(queue) + 1])
    BY <1>d, <2>1 DEF ForAudienceNext
  <2>3. \A i \in DOMAIN queue' :
          (\E j \in DOMAIN queue : queue'[i] = queue[j]) \/ ForAudienceNext(queue'[i])
    BY <1>b, <2>2
  <2>4. \A t \in TaskSet : Logged(t) => log'[t.from][t.no] = log[t.from][t.no]
    BY <1>g
  <2>5. UNCHANGED job
    OBVIOUS
  <2> QED
    BY <1>a, <2>3, <2>4, <2>5, StepTo
<1>3. OnceInv'
  <2>1. \A i \in DOMAIN queue : ~(queue[i].from = c /\ queue[i].no = n)
    BY <1>g, TaskTypes
  <2>2. \A w \in Workers : job[w] # NULL => ~(job[w].from = c /\ job[w].no = n)
    BY <1>g, TaskTypes
  <2>3. \A i, j \in DOMAIN queue' : Same(queue'[i], queue'[j]) => i = j
    BY <1>a, <1>b, <1>d, <2>1 DEF OnceInv, Same
  <2>4. \A i \in DOMAIN queue' : \A w \in Workers : job[w] # NULL => ~Same(queue'[i], job[w])
    BY <1>a, <1>b, <1>d, <2>2 DEF OnceInv, Same
  <2> QED
    BY <1>a, <2>3, <2>4 DEF OnceInv, Same
<1>4. SourceInv'
  <2>1. ASSUME NEW d \in Clients, NEW m \in DOMAIN got[d] PROVE m.no \in DOMAIN log'[m.from]
    <3>1. m.from \in Clients /\ m.no \in DOMAIN log[m.from]
      BY <1>a, TaskTypes DEF SourceInv
    <3> QED
      BY <1>f, <3>1
  <2> QED
    BY <2>1 DEF SourceInv
<1>5. CleanInv'
  <2> SUFFICES ASSUME ~misused PROVE CleanInv'
    BY DEF CleanInv
  <2>1. ASSUME NEW i \in DOMAIN queue', NEW d \in Clients, NEW m \in DOMAIN got[d]
        PROVE  ~(m.from = queue'[i].from /\ m.no = queue'[i].no)
    <3>1. CASE i = Len(queue) + 1
      BY <1>a, <1>c, <1>d, <3>1 DEF SourceInv
    <3>2. CASE i \in DOMAIN queue
      BY <1>a, <1>b, <3>2 DEF CleanInv, FreshTask, Received
    <3> QED
      BY <1>b, <3>1, <3>2
  <2>2. \A i \in DOMAIN queue' : FreshTask(queue[i])'
    BY <2>1 DEF FreshTask, Received
  <2>3. \A w \in Workers : pc'[w] \in {"format", "begin", "copy", "reply"} => FreshTask(job[w])'
    BY <1>a DEF CleanInv, FreshTask, Received
  <2>4. ASSUME NEW w \in Workers, pc'[w] \in {"walk", "step"} PROVE OnWalk(w)'
    <3>1. OnWalk(w) /\ job[w] # NULL
      BY <1>a, <2>4, TaskTypes DEF CleanInv
    <3>2. log'[job[w].from][job[w].no] = log[job[w].from][job[w].no]
      BY <1>g, <3>1, TaskTypes
    <3> QED
      BY <3>1, <3>2 DEF OnWalk, Passed, Received
  <2> QED
    BY <1>a, <2>2, <2>3, <2>4 DEF CleanInv
<1>6. ReachesAudience'
  <2> SUFFICES ASSUME ~misused PROVE ReachesAudience'
    BY DEF ReachesAudience
  <2>1. ASSUME NEW d \in Clients, NEW e \in Clients, NEW no \in DOMAIN log'[e],
               d \in log'[e][no].audience \ freed, IsDone(e, no)'
        PROVE  Received(d, e, no)
    <3>1. /\ \A i \in DOMAIN queue' : ~(queue'[i].from = e /\ queue'[i].no = no)
          /\ \A w \in DOMAIN job : job[w] # NULL => ~(job[w].from = e /\ job[w].no = no)
      BY <2>1 DEF IsDone, Unprocessed, Range
    <3>2. ~(e = c /\ no = n)
      BY <1>b, <1>d, <3>1
    <3>3. no \in DOMAIN log[e] /\ log'[e][no] = log[e][no]
      BY <1>b, <1>c, <2>1, <3>2
    <3>4. \A i \in DOMAIN queue : ~(queue[i].from = e /\ queue[i].no = no)
      BY <1>b, <3>1
    <3>5. IsDone(e, no)
      BY <3>1, <3>4 DEF IsDone, Unprocessed, Range
    <3> QED
      BY <1>a, <2>1, <3>3, <3>5 DEF ReachesAudience
  <2>2. ASSUME NEW d \in Clients, NEW m \in DOMAIN got[d] PROVE got[d][m] = 1
    BY <1>a DEF ReachesAudience
  <2> QED
    BY <2>1, <2>2 DEF ReachesAudience, Received
<1> QED
  BY <1>1, <1>2, <1>3, <1>4, <1>5, <1>6 DEF TaskInv

\* What client_list_add does to the walks: nothing.
LEMMA AddStep ==
  ASSUME IInv, TaskInv, KeepsNames, AddToList
  PROVE  TaskInv'
<1> USE Labels
<1>a. /\ AudienceInv /\ ToInv /\ OnceInv /\ SourceInv /\ CleanInv /\ ReachesAudience
      /\ TypeOK /\ ShapeInv /\ FreshInv /\ RosterInv
  BY DEF TaskInv, IInv
<1>b. /\ roster' = Append(roster, fresh) /\ pc[Main] = "add"
      /\ pc' = [pc EXCEPT ![fresh] = "listen", ![Main] = "accept"]
      /\ UNCHANGED <<queue, name, log, job, at, got, freed, misused>>
  BY DEF AddToList, At, sessions, workers
<1>c. fresh \in Clients /\ fresh \notin Range(roster)
  BY <1>a, <1>b DEF FreshInv, RosterInv, TypeOK
<1>d. \A w \in Workers : pc'[w] = pc[w]
  BY <1>a, <1>b, <1>c DEF ShapeInv
<1>e. \A d \in Range(roster) : d \in Range(Append(roster, fresh))
  BY <1>a, <1>c, AppendFacts DEF TypeOK
<1>f. \A d \in Range(roster) : d \in Range(roster')
  BY <1>b, <1>e, Zenon
<1>1. AudienceInv'
  BY <1>a, <1>b, <1>f DEF AudienceInv
<1>2. ToInv' /\ OnceInv' /\ SourceInv'
  BY <1>a, <1>b, StepTo DEF OnceInv, Same, SourceInv
<1>3. ASSUME NEW w \in Workers, ~misused, pc'[w] \in {"walk", "step"}
      PROVE  OnWalk(w)'
  <2>1. OnWalk(w) /\ at[w] \in Range(roster)
    <3>1. OnWalk(w) /\ at[w] # NULL /\ at[w] \notin freed
      BY <1>a, <1>d, <1>3, TaskTypes DEF CleanInv
    <3> QED
      BY <3>1, TaskTypes
  <2>2. \A d : Ahead(Append(roster, fresh), d, at[w]) <=> Ahead(roster, d, at[w])
    BY <1>a, <1>c, <2>1, AheadInAppend DEF TypeOK
  <2>3. \A d : Ahead(roster', d, at[w]) <=> Ahead(roster, d, at[w])
    BY <1>b, <2>2, Zenon
  <2> QED
    BY <1>b, <1>d, <2>1, <2>3 DEF OnWalk, Passed, Received
<1>4. CleanInv'
  <2> SUFFICES ASSUME ~misused PROVE CleanInv'
    BY <1>b DEF CleanInv
  <2>1. /\ \A w \in Workers : at'[w] \notin freed'
        /\ \A i \in DOMAIN queue' : FreshTask(queue[i])'
        /\ \A w \in Workers : pc'[w] \in {"format", "begin", "copy", "reply"} => FreshTask(job[w])'
    <3>1. UNCHANGED <<queue, job, at, got, freed>>
      BY <1>b
    <3>2. /\ \A w \in Workers : at[w] \notin freed
          /\ \A i \in DOMAIN queue : FreshTask(queue[i])
          /\ \A w \in Workers : pc[w] \in {"format", "begin", "copy", "reply"} => FreshTask(job[w])
      BY <1>a DEF CleanInv
    <3> QED
      BY <1>d, <3>1, <3>2 DEF FreshTask, Received
  <2> QED
    BY <1>3, <2>1 DEF CleanInv
<1>5. ReachesAudience'
  BY <1>a, <1>b DEF ReachesAudience, IsDone, Unprocessed, Received
<1> QED
  BY <1>1, <1>2, <1>4, <1>5 DEF TaskInv

\* What client_list_remove does to the walks: the client leaves the audience of
\* those that do not stand at it.
LEMMA RemoveStep ==
  ASSUME IInv, TaskInv, KeepsNames, NEW c \in Clients, RemoveSelf(c)
  PROVE  TaskInv'
<1> USE Labels
<1>a. /\ AudienceInv /\ ToInv /\ OnceInv /\ SourceInv /\ CleanInv /\ ReachesAudience
      /\ TypeOK /\ ShapeInv /\ RosterInv
  BY DEF TaskInv, IInv
<1>b. /\ roster' = RemoveAt(roster, PositionOf(c)) /\ pc[c] = "remove"
      /\ pc' = [pc EXCEPT ![c] = "gone"] /\ freed' = freed \cup {c}
      /\ UNCHANGED <<queue, name, log, job, at, got>>
      /\ misused' = (misused \/ \E w \in Workers : at[w] = c)
  BY DEF RemoveSelf, At, Goto, sessions, workers, Unlinked
<1>c. c \in Range(roster) /\ c \notin freed
  BY <1>a, <1>b DEF RosterInv
<1>d. PositionOf(c) \in DOMAIN roster /\ roster[PositionOf(c)] = c
  BY <1>c DEF PositionOf, Range
<1>e. roster \in Seq(Clients) /\ Injective(roster)
  BY <1>a DEF TypeOK, RosterInv, Injective
<1>f. Range(RemoveAt(roster, PositionOf(c))) = Range(roster) \ {c}
  BY <1>d, <1>e, RemoveFacts
<1>g. Range(roster') = Range(roster) \ {c}
  BY <1>b, <1>f, Zenon
<1>h. \A w \in Workers : pc'[w] = pc[w]
  BY <1>a, <1>b DEF ShapeInv
<1>1. AudienceInv'
  BY <1>a, <1>b, <1>g DEF AudienceInv
<1>2. ToInv' /\ OnceInv' /\ SourceInv'
  BY <1>a, <1>b, StepTo DEF OnceInv, Same, SourceInv
<1>3. ASSUME NEW w \in Workers, ~misused', pc'[w] \in {"walk", "step"}
      PROVE  OnWalk(w)'
  <2>1. OnWalk(w) /\ at[w] # c /\ ~misused
    BY <1>a, <1>b, <1>h, <1>3 DEF CleanInv
  <2>2. \A d : d # c => (Ahead(RemoveAt(roster, PositionOf(c)), d, at[w]) <=> Ahead(roster, d, at[w]))
    BY <1>d, <1>e, <2>1, AheadInRemove
  <2>3. \A d : d # c => (Ahead(roster', d, at[w]) <=> Ahead(roster, d, at[w]))
    BY <1>b, <2>2, Zenon
  <2>4. ~Ahead(roster', c, at[w])
    BY <1>g DEF Ahead, Range
  <2>5. \A d : d # c => (Passed(w, d)' <=> Passed(w, d))
    BY <1>b, <1>h, <2>3 DEF Passed
  <2>6. ~Passed(w, c)'
    BY <1>b, <2>1, <2>4 DEF Passed
  <2>7. ASSUME NEW d \in log[job[w].from][job[w].no].audience, Passed(w, d)'
        PROVE  Received(d, job[w].from, job[w].no)
    BY <2>1, <2>5, <2>6, <2>7 DEF OnWalk
  <2>8. ASSUME NEW d \in Clients \ freed', Received(d, job[w].from, job[w].no)
        PROVE  Passed(w, d)'
    BY <1>b, <2>1, <2>5, <2>8 DEF OnWalk
  <2> QED
    BY <1>b, <2>7, <2>8 DEF OnWalk, Received
<1>4. CleanInv'
  BY <1>a, <1>b, <1>h, <1>3 DEF CleanInv, FreshTask, Received
<1>5. ReachesAudience'
  <2> SUFFICES ASSUME ~misused' PROVE ReachesAudience'
    BY DEF ReachesAudience
  <2>1. ~misused /\ freed \subseteq freed'
    BY <1>b
  <2>2. ASSUME NEW d \in Clients, NEW e \in Clients, NEW no \in DOMAIN log[e],
               d \in log[e][no].audience \ freed', IsDone(e, no)
        PROVE  Received(d, e, no)
    BY <1>a, <2>1, <2>2 DEF ReachesAudience
  <2>3. \A d \in Clients : \A m \in DOMAIN got[d] : got[d][m] = 1
    BY <1>a, <2>1 DEF ReachesAudience
  <2> QED
    BY <1>b, <2>2, <2>3 DEF ReachesAudience, IsDone, Unprocessed, Received
<1> QED
  BY <1>1, <1>2, <1>4, <1>5 DEF TaskInv

-----------------------------------------------------------------------------
(* The steps of a worker.                                                  *)

\* What is received in a step of worker w is a message of its task.
Delivers(w) ==
  \A d \in Clients :
    /\ DOMAIN got[d] \subseteq DOMAIN got'[d]
    /\ \A m \in DOMAIN got'[d] : m \in DOMAIN got[d] \/ Same(m, job[w])

ReceivedNext(d, c, no) == \E m \in DOMAIN got'[d] : m.from = c /\ m.no = no

LEMMA OtherTasks ==
  ASSUME NEW w, Delivers(w), NEW t, ~Same(t, job[w]), NEW d \in Clients
  PROVE  ReceivedNext(d, t.from, t.no) <=> Received(d, t.from, t.no)
  BY DEF Delivers, Same, ReceivedNext, Received

\* A message that was not there is there once.
LEMMA Delivered ==
  ASSUME NEW w, NEW c \in Clients, NEW m, Same(m, job[w]), DOMAIN got = Clients,
         got' = [got EXCEPT ![c] = BagAdd(@, m)],
         ~Received(c, m.from, m.no), \A d \in Clients : \A x \in DOMAIN got[d] : got[d][x] = 1
  PROVE  /\ Delivers(w) /\ DOMAIN got' = Clients
         /\ \A d \in Clients \ {c} : got'[d] = got[d]
         /\ m \in DOMAIN got'[c]
         /\ \A d \in Clients : \A x \in DOMAIN got'[d] : got'[d][x] = 1
<1>1. m \notin DOMAIN got[c]
  BY DEF Received
<1>2. DOMAIN got' = Clients /\ got'[c] = BagAdd(got[c], m) /\ \A d \in Clients \ {c} : got'[d] = got[d]
  OBVIOUS
<1>3. got'[c] = [e \in DOMAIN got[c] \cup {m} |-> IF e = m THEN 1 ELSE got[c][e]]
  BY <1>1, <1>2 DEF BagAdd
<1>4. DOMAIN got'[c] = DOMAIN got[c] \cup {m} /\ \A x \in DOMAIN got'[c] : got'[c][x] = 1
  BY <1>3
<1>5. Delivers(w)
  BY <1>2, <1>4 DEF Delivers
<1> QED
  BY <1>2, <1>4, <1>5

\* What is received from a task that is logged stays within the log.
LEMMA SourceStays ==
  ASSUME IInv, SourceInv, NEW w \in Workers, Delivers(w), Logged(job[w]), UNCHANGED log
  PROVE  SourceInv'
<1> SUFFICES ASSUME NEW d \in Clients, NEW m \in DOMAIN got'[d] PROVE m.no \in DOMAIN log[m.from]
  BY DEF SourceInv
<1>1. CASE m \in DOMAIN got[d]
  BY <1>1 DEF SourceInv
<1>2. CASE Same(m, job[w])
  BY <1>2 DEF Same, Logged
<1> QED
  BY <1>1, <1>2 DEF Delivers

\* The other workers are where they were with their tasks.
LEMMA OtherWorkers ==
  ASSUME IInv, OnceInv, CleanInv, ~misused, NEW w \in Workers, job[w] # NULL, Delivers(w),
         UNCHANGED <<roster, log, freed>>,
         NEW v \in Workers, v # w, pc'[v] = pc[v], job'[v] = job[v], at'[v] = at[v]
  PROVE  /\ pc'[v] \in Early => FreshTask(job[v])'
         /\ pc'[v] \in {"walk", "step"} => OnWalk(v)'
<1>1. pc[v] # "idle" => ~Same(job[v], job[w])
  BY TaskTypes DEF OnceInv
<1>2. ASSUME pc[v] \in Early PROVE FreshTask(job[v])'
  <2>1. FreshTask(job[v]) /\ ~Same(job[v], job[w])
    BY <1>1, <1>2 DEF CleanInv, Early
  <2>2. \A d \in Clients : ReceivedNext(d, job[v].from, job[v].no)
                             <=> Received(d, job[v].from, job[v].no)
    BY <2>1, OtherTasks
  <2> QED
    BY <2>1, <2>2 DEF FreshTask, Received, ReceivedNext
<1>3. ASSUME pc[v] \in {"walk", "step"} PROVE OnWalk(v)'
  <2>1. OnWalk(v) /\ ~Same(job[v], job[w]) /\ job[v] # NULL
    BY <1>1, <1>3, TaskTypes DEF CleanInv
  <2>2. \A d \in Clients : ReceivedNext(d, job[v].from, job[v].no)
                             <=> Received(d, job[v].from, job[v].no)
    BY <2>1, OtherTasks
  <2>3. log[job[v].from][job[v].no].audience \subseteq Clients
    BY <2>1, TaskTypes DEF Logged
  <2>4. \A d : Passed(v, d)' <=> Passed(v, d)
    BY DEF Passed
  <2>5. \A d \in log[job[v].from][job[v].no].audience :
          Passed(v, d)' => ReceivedNext(d, job[v].from, job[v].no)
    BY <2>1, <2>2, <2>3, <2>4 DEF OnWalk
  <2>6. \A d \in Clients \ freed : ReceivedNext(d, job[v].from, job[v].no) => Passed(v, d)'
    BY <2>1, <2>2, <2>4 DEF OnWalk
  <2> QED
    BY <2>5, <2>6 DEF OnWalk, Received, ReceivedNext
<1> QED
  BY <1>2, <1>3

\* Nor has anyone received the tasks in the queue.
LEMMA WaitingTasks ==
  ASSUME IInv, OnceInv, CleanInv, ~misused, NEW w \in Workers, job[w] # NULL, Delivers(w),
         UNCHANGED queue
  PROVE  \A i \in DOMAIN queue' : FreshTask(queue[i])'
<1> SUFFICES ASSUME NEW i \in DOMAIN queue, NEW d \in Clients
             PROVE  ~ReceivedNext(d, queue[i].from, queue[i].no)
  BY DEF FreshTask, Received, ReceivedNext
<1>1. ~Same(queue[i], job[w]) /\ ~Received(d, queue[i].from, queue[i].no)
  BY DEF OnceInv, CleanInv, FreshTask
<1> QED
  BY <1>1, OtherTasks

\* A worker ends its work on a task when everyone it was for has its message.
LEMMA FinishStep ==
  ASSUME IInv, TaskInv, KeepsNames, NEW w \in Workers, job[w] # NULL, Delivers(w),
         UNCHANGED <<queue, roster, log, name, freed>>, misused => misused',
         job' = [job EXCEPT ![w] = NULL], pc' = [pc EXCEPT ![w] = "idle"],
         at' = [at EXCEPT ![w] = NULL],
         ~misused' =>
           /\ \A d \in log[job[w].from][job[w].no].audience \ freed :
                ReceivedNext(d, job[w].from, job[w].no)
           /\ \A d \in Clients : \A x \in DOMAIN got'[d] : got'[d][x] = 1
  PROVE  TaskInv'
<1> USE Labels
<1>a. /\ AudienceInv /\ ToInv /\ OnceInv /\ SourceInv /\ CleanInv /\ ReachesAudience
      /\ TypeOK /\ ShapeInv
  BY DEF TaskInv, IInv
<1>b. /\ job'[w] = NULL /\ pc'[w] = "idle" /\ at'[w] = NULL
      /\ \A v \in Workers : v # w => pc'[v] = pc[v] /\ job'[v] = job[v] /\ at'[v] = at[v]
      /\ DOMAIN job' = Workers
  BY <1>a DEF TypeOK, ShapeInv
<1>c. NULL \notin freed /\ Logged(job[w])
  BY <1>a, TaskTypes DEF TypeOK
<1>1. AudienceInv'
  BY <1>a DEF AudienceInv
<1>2. ToInv'
  BY <1>a, <1>b, StepTo
<1>3. OnceInv'
  BY <1>a, <1>b DEF OnceInv, Same
<1>4. SourceInv'
  BY <1>a, <1>c, SourceStays
<1>5. CleanInv'
  <2> SUFFICES ASSUME ~misused' PROVE CleanInv'
    BY DEF CleanInv
  <2>1. \A i \in DOMAIN queue' : FreshTask(queue[i])'
    BY <1>a, WaitingTasks
  <2>2. ASSUME NEW v \in Workers
        PROVE  /\ at'[v] \notin freed
               /\ pc'[v] \in Early => FreshTask(job[v])'
               /\ pc'[v] \in {"walk", "step"} => OnWalk(v)'
    <3>1. CASE v = w
      BY <1>b, <1>c, <3>1 DEF Early
    <3>2. CASE v # w
      <4>1. at'[v] \notin freed
        BY <1>a, <1>b, <3>2 DEF CleanInv
      <4> QED
        BY <1>a, <1>b, <3>2, <4>1, OtherWorkers
    <3> QED
      BY <3>1, <3>2
  <2> QED
    BY <2>1, <2>2 DEF CleanInv, Early
<1>6. ReachesAudience'
  <2> SUFFICES ASSUME ~misused' PROVE ReachesAudience'
    BY DEF ReachesAudience
  <2>1. ASSUME NEW d \in Clients, NEW e \in Clients, NEW no \in DOMAIN log[e],
               d \in log[e][no].audience \ freed, IsDone(e, no)'
        PROVE  ReceivedNext(d, e, no)
    <3>1. CASE e = job[w].from /\ no = job[w].no
      BY <2>1, <3>1
    <3>2. CASE ~(e = job[w].from /\ no = job[w].no)
      <4>1. /\ \A i \in DOMAIN queue : ~(queue[i].from = e /\ queue[i].no = no)
            /\ \A v \in DOMAIN job' : job'[v] # NULL => ~(job'[v].from = e /\ job'[v].no = no)
        BY <2>1 DEF IsDone, Unprocessed, Range
      <4>2. \A v \in Workers : job[v] # NULL => ~(job[v].from = e /\ job[v].no = no)
        BY <1>b, <3>2, <4>1
      <4>3. IsDone(e, no)
        BY <4>1, <4>2, TaskTypes DEF IsDone, Unprocessed, Range
      <4>4. Received(d, e, no)
        BY <1>a, <2>1, <4>3 DEF ReachesAudience
      <4> QED
        BY <4>4 DEF Delivers, Received, ReceivedNext
    <3> QED
      BY <3>1, <3>2
  <2> QED
    BY <2>1 DEF ReachesAudience, Received, ReceivedNext
<1> QED
  BY <1>1, <1>2, <1>3, <1>4, <1>5, <1>6 DEF TaskInv

\* A worker goes on with its task.
LEMMA KeepStep ==
  ASSUME IInv, TaskInv, KeepsNames, NEW w \in Workers, job[w] # NULL, Delivers(w),
         UNCHANGED <<queue, roster, log, name, freed, job>>, misused => misused',
         \A v \in Workers : v # w => pc'[v] = pc[v] /\ at'[v] = at[v],
         ~misused' =>
           /\ at'[w] \notin freed
           /\ pc'[w] \in {"walk", "step"} /\ OnWalk(w)'
           /\ \A d \in Clients : \A x \in DOMAIN got'[d] : got'[d][x] = 1
  PROVE  TaskInv'
<1>a. /\ AudienceInv /\ ToInv /\ OnceInv /\ SourceInv /\ CleanInv /\ ReachesAudience
  BY DEF TaskInv
<1>1. AudienceInv' /\ ToInv' /\ OnceInv'
  BY <1>a, StepTo DEF AudienceInv, OnceInv, Same
<1>2. SourceInv'
  BY <1>a, TaskTypes, SourceStays
<1>3. CleanInv'
  <2> SUFFICES ASSUME ~misused' PROVE CleanInv'
    BY DEF CleanInv
  <2>1. \A i \in DOMAIN queue' : FreshTask(queue[i])'
    BY <1>a, WaitingTasks
  <2>2. ASSUME NEW v \in Workers
        PROVE  /\ at'[v] \notin freed
               /\ pc'[v] \in Early => FreshTask(job[v])'
               /\ pc'[v] \in {"walk", "step"} => OnWalk(v)'
    <3>1. CASE v = w
      BY <3>1 DEF Early
    <3>2. CASE v # w
      <4>1. at'[v] \notin freed
        BY <1>a, <3>2 DEF CleanInv
      <4> QED
        BY <1>a, <3>2, <4>1, OtherWorkers
    <3> QED
      BY <3>1, <3>2
  <2> QED
    BY <2>1, <2>2 DEF CleanInv, Early
<1>4. ReachesAudience'
  <2> SUFFICES ASSUME ~misused' PROVE ReachesAudience'
    BY DEF ReachesAudience
  <2>1. ASSUME NEW d \in Clients, NEW e \in Clients, NEW no \in DOMAIN log[e],
               d \in log[e][no].audience \ freed, IsDone(e, no)
        PROVE  ReceivedNext(d, e, no)
    <3>1. Received(d, e, no)
      BY <1>a, <2>1 DEF ReachesAudience
    <3> QED
      BY <3>1 DEF Delivers, Received, ReceivedNext
  <2> QED
    BY <2>1 DEF ReachesAudience, IsDone, Unprocessed, Received, ReceivedNext
<1> QED
  BY <1>1, <1>2, <1>3, <1>4 DEF TaskInv

\* When nothing is written, nothing is delivered.
LEMMA NothingDelivered ==
  ASSUME TaskInv, NEW w, UNCHANGED got
  PROVE  /\ Delivers(w)
         /\ ~misused => \A d \in Clients : \A x \in DOMAIN got'[d] : got'[d][x] = 1
  BY DEF Delivers, TaskInv, ReachesAudience

LEMMA TakeStep ==
  ASSUME IInv, TaskInv, KeepsNames, NEW w \in Workers, Take(w)
  PROVE  TaskInv'
<1> USE Labels
<1>a. /\ AudienceInv /\ ToInv /\ OnceInv /\ SourceInv /\ CleanInv /\ ReachesAudience
      /\ TypeOK /\ ShapeInv
  BY DEF TaskInv, IInv
<1>b. /\ pc[w] = "idle" /\ queue # <<>> /\ queue' = Tail(queue)
      /\ job' = [job EXCEPT ![w] = Head(queue)]
      /\ pc' = [pc EXCEPT ![w] = IF Head(queue).kind = "list" THEN "copy" ELSE "format"]
      /\ UNCHANGED <<roster, log, name, freed, misused, got, at>>
  BY DEF Take, At, Goto, sessions
<1>c. /\ 1 \in DOMAIN queue /\ Head(queue) = queue[1] /\ Head(queue) \in TaskSet
      /\ DOMAIN Tail(queue) = 1 .. Len(queue) - 1
      /\ \A i \in 1 .. Len(queue) - 1 : i + 1 \in 1 .. Len(queue) /\ Tail(queue)[i] = queue[i + 1]
  BY <1>b, TailFacts, TaskTypes
<1>d. /\ DOMAIN queue' = 1 .. Len(queue) - 1
      /\ \A i \in DOMAIN queue' : i + 1 \in DOMAIN queue /\ queue'[i] = queue[i + 1]
  BY <1>b, <1>c, TaskTypes, Zenon
<1>e. /\ job[w] = NULL /\ job'[w] = queue[1] /\ pc'[w] \in Early
      /\ \A v \in Workers : v # w => pc'[v] = pc[v] /\ job'[v] = job[v]
      /\ DOMAIN job' = Workers
  BY <1>a, <1>b, <1>c, TaskTypes DEF TypeOK, ShapeInv, Early
<1>f. \A i \in DOMAIN queue' : i + 1 # 1
  BY <1>d
<1>1. AudienceInv' /\ SourceInv'
  BY <1>a, <1>b DEF AudienceInv, SourceInv
<1>2. ToInv'
  <2>1. \A i \in DOMAIN queue' : \E j \in DOMAIN queue : queue'[i] = queue[j]
    BY <1>d
  <2>2. \A v \in Workers : job'[v] # NULL =>
          job'[v] = job[v] \/ \E j \in DOMAIN queue : job'[v] = queue[j]
    BY <1>c, <1>e
  <2> QED
    BY <1>a, <1>b, <2>1, <2>2, StepTo
<1>3. OnceInv'
  <2>1. ASSUME NEW i \in DOMAIN queue', NEW j \in DOMAIN queue', Same(queue'[i], queue'[j])
        PROVE  i = j
    <3>1. i + 1 = j + 1
      BY <1>a, <1>d, <2>1 DEF OnceInv
    <3> QED
      BY <1>d, <3>1, TaskTypes
  <2>2. ASSUME NEW i \in DOMAIN queue', NEW v \in Workers, job'[v] # NULL
        PROVE  ~Same(queue'[i], job'[v])
    BY <1>a, <1>c, <1>d, <1>e, <1>f, <2>2 DEF OnceInv
  <2>3. ASSUME NEW u \in Workers, NEW v \in Workers, job'[u] # NULL, job'[v] # NULL,
               Same(job'[u], job'[v])
        PROVE  u = v
    <3>1. CASE u # w /\ v # w
      BY <1>a, <1>e, <2>3, <3>1 DEF OnceInv
    <3>2. ASSUME NEW x \in Workers, x # w, job[x] # NULL
          PROVE  ~Same(queue[1], job[x]) /\ ~Same(job[x], queue[1])
      BY <1>a, <1>c, <3>2 DEF OnceInv, Same
    <3> QED
      BY <1>e, <2>3, <3>1, <3>2
  <2> QED
    BY <2>1, <2>2, <2>3 DEF OnceInv, Same
<1>4. CleanInv'
  <2> SUFFICES ASSUME ~misused PROVE CleanInv'
    BY <1>b DEF CleanInv
  <2>1. /\ \A v \in Workers : at[v] \notin freed
        /\ \A i \in DOMAIN queue : FreshTask(queue[i])
        /\ \A v \in Workers : pc[v] \in Early => FreshTask(job[v])
        /\ \A v \in Workers : pc[v] \in {"walk", "step"} => OnWalk(v)
    BY <1>a DEF CleanInv, Early
  <2>2. \A i \in DOMAIN queue' : FreshTask(queue[i])'
    BY <1>b, <1>d, <2>1 DEF FreshTask, Received
  <2>3. ASSUME NEW v \in Workers
        PROVE  /\ pc'[v] \in Early => FreshTask(job[v])'
               /\ pc'[v] \in {"walk", "step"} => OnWalk(v)'
    <3>1. CASE v = w
      <4>1. FreshTask(queue[1])
        BY <1>c, <2>1
      <4> QED
        BY <1>b, <1>e, <3>1, <4>1 DEF FreshTask, Received, Early
    <3>2. CASE v # w
      <4>1. pc'[v] = pc[v] /\ job'[v] = job[v] /\ UNCHANGED <<roster, log, freed, got, at>>
        BY <1>b, <1>e, <3>2
      <4> QED
        BY <2>1, <4>1 DEF FreshTask, OnWalk, Passed, Received
    <3> QED
      BY <3>1, <3>2
  <2> QED
    BY <1>b, <2>1, <2>2, <2>3 DEF CleanInv, Early
<1>5. ReachesAudience'
  <2>1. ASSUME NEW e, NEW no, IsDone(e, no)' PROVE IsDone(e, no)
    <3>1. /\ \A i \in DOMAIN queue' : ~(queue'[i].from = e /\ queue'[i].no = no)
          /\ \A v \in Workers : job'[v] # NULL => ~(job'[v].from = e /\ job'[v].no = no)
      BY <1>e, <2>1 DEF IsDone, Unprocessed, Range
    <3>2. \A v \in Workers : job[v] # NULL => ~(job[v].from = e /\ job[v].no = no)
      BY <1>e, <3>1
    <3>3. ~(queue[1].from = e /\ queue[1].no = no)
      BY <1>c, <1>e, <3>1
    <3>4. ASSUME NEW i \in DOMAIN queue PROVE ~(queue[i].from = e /\ queue[i].no = no)
      <4>1. CASE i = 1
        BY <3>3, <4>1
      <4>2. CASE i # 1
        <5>1. i - 1 \in DOMAIN queue' /\ i - 1 + 1 = i
          BY <1>d, <4>2, TaskTypes
        <5>2. queue'[i - 1] = queue[i]
          BY <1>d, <5>1
        <5> QED
          BY <3>1, <5>1, <5>2
      <4> QED
        BY <4>1, <4>2
    <3> QED
      BY <3>2, <3>4, TaskTypes DEF IsDone, Unprocessed, Range
  <2> QED
    BY <1>a, <1>b, <2>1 DEF ReachesAudience, Received
<1> QED
  BY <1>1, <1>2, <1>3, <1>4, <1>5 DEF TaskInv

\* Everyone the task of a walk is for is in the list or freed.
LEMMA AudienceListed ==
  ASSUME IInv, TaskInv, NEW w \in Workers, job[w] # NULL
  PROVE  log[job[w].from][job[w].no].audience \subseteq (Range(roster) \cup freed) \cap Clients
<1>1. job[w].from \in Clients /\ job[w].no \in DOMAIN log[job[w].from]
  BY TaskTypes DEF Logged
<1> QED
  BY <1>1, TaskTypes DEF TaskInv, AudienceInv

LEMMA BeginStep ==
  ASSUME IInv, TaskInv, KeepsNames, NEW w \in Workers, Begin(w)
  PROVE  TaskInv'
<1> USE Labels
<1>a. /\ TypeOK /\ ShapeInv /\ CleanInv
      /\ roster \in Seq(Clients) /\ Injective(roster)
  BY DEF IInv, TaskInv, TypeOK, RosterInv, Injective
<1>b. pc[w] = "begin" /\ UNCHANGED <<queue, roster, log, name, freed, misused, got>>
  BY DEF Begin, At, sessions
<1>c. job[w] # NULL /\ Delivers(w)
      /\ (~misused => \A d \in Clients : \A x \in DOMAIN got'[d] : got'[d][x] = 1)
  BY <1>b, TaskTypes, NothingDelivered
<1>1. CASE roster = <<>>
  <2>1. Move(w, NULL) /\ Range(roster) = {}
    BY <1>1 DEF Begin, Range
  <2>2. at' = [at EXCEPT ![w] = NULL] /\ job' = [job EXCEPT ![w] = NULL] /\ pc' = [pc EXCEPT ![w] = "idle"]
    BY <2>1 DEF Move, Done, Goto
  <2>3. log[job[w].from][job[w].no].audience \subseteq freed
    BY <1>c, <2>1, AudienceListed
  <2> QED
    BY <1>b, <1>c, <2>2, <2>3, FinishStep
<1>2. CASE roster # <<>>
  <2>1. Head(roster) \in Clients /\ 1 \in DOMAIN roster /\ Head(roster) = roster[1]
    BY <1>a, <1>2, TailFacts
  <2>2. Move(w, Head(roster)) /\ Head(roster) # NULL
    BY <1>2, <2>1 DEF Begin
  <2>3. /\ at' = [at EXCEPT ![w] = Head(roster)] /\ UNCHANGED job
        /\ pc' = [pc EXCEPT ![w] = "walk"]
    BY <2>2 DEF Move, Goto
  <2>4. /\ at'[w] = roster[1] /\ pc'[w] = "walk"
        /\ \A v \in Workers : v # w => pc'[v] = pc[v] /\ at'[v] = at[v]
    BY <1>a, <2>1, <2>3 DEF TypeOK, ShapeInv
  <2>5. roster[1] \notin freed
    <3>1. roster[1] \in Range(roster) /\ roster[1] \in Clients
      BY <2>1 DEF Range
    <3> QED
      BY <3>1 DEF IInv, RosterInv
  <2>6. ASSUME ~misused PROVE OnWalk(w)'
    <3>1. FreshTask(job[w])
      BY <1>a, <1>b, <2>6 DEF CleanInv
    <3>2. \A d : ~Ahead(roster, d, roster[1])
      BY <1>a, <2>1, AheadFacts
    <3>3. \A d : ~Passed(w, d)'
      BY <1>b, <2>4, <3>2 DEF Passed
    <3>4. \A d \in Clients : ~ReceivedNext(d, job[w].from, job[w].no)
      BY <1>b, <3>1 DEF FreshTask, Received, ReceivedNext
    <3> QED
      BY <2>3, <3>3, <3>4 DEF OnWalk, Received, ReceivedNext
  <2> QED
    BY <1>b, <1>c, <2>3, <2>4, <2>5, <2>6, KeepStep
<1> QED
  BY <1>1, <1>2

LEMMA VisitStep ==
  ASSUME IInv, TaskInv, KeepsNames, NEW w \in Workers, Visit(w)
  PROVE  TaskInv'
<1> USE Labels
<1> DEFINE t == job[w]
           c == at[w]
           A == log[t.from][t.no].audience
           m == [kind |-> t.kind, from |-> t.from, no |-> t.no, text |-> text[w]]
<1>a. /\ TypeOK /\ ShapeInv /\ CleanInv /\ ToInv
      /\ roster \in Seq(Clients) /\ Injective(roster)
  BY DEF IInv, TaskInv, TypeOK, RosterInv, Injective
<1>b. /\ pc[w] = "walk" /\ pc' = [pc EXCEPT ![w] = "step"]
      /\ UNCHANGED <<queue, roster, log, name, freed, job, at, text>>
  BY DEF Visit, At, Goto, sessions, workers
<1>c. /\ t # NULL /\ c # NULL /\ c \in Clients /\ Same(m, t) /\ m.from = t.from /\ m.no = t.no
      /\ pc'[w] = "step" /\ \A v \in Workers : v # w => pc'[v] = pc[v] /\ at'[v] = at[v]
  BY <1>a, <1>b, TaskTypes DEF TypeOK, ShapeInv, Same
<1>d. A \subseteq Clients
  BY <1>c, AudienceListed
<1>e. misused => misused'
  BY DEF Visit, Misuse
<1>f. \A d : Passed(w, d)' <=> Ahead(roster, d, c) \/ d = c
  BY <1>b, <1>c DEF Passed
<1>g. \A d : Passed(w, d) <=> Ahead(roster, d, c)
  BY <1>b DEF Passed
<1> HIDE DEF t, c, A, m
<1>1. CASE c \in freed
  <2>1. misused' /\ UNCHANGED got
    BY <1>1 DEF Visit, Misuse, c
  <2> QED
    BY <1>b, <1>c, <2>1, NothingDelivered, KeepStep DEF t
<1>2. CASE c \notin freed
  <2>1. ASSUME ~misused
        PROVE  /\ \A d \in A : Ahead(roster, d, c) => Received(d, t.from, t.no)
               /\ \A d \in Clients \ freed : Received(d, t.from, t.no) => Ahead(roster, d, c)
               /\ ~Received(c, t.from, t.no)
    <3>1. OnWalk(w)
      BY <1>a, <1>b, <2>1 DEF CleanInv
    <3>2. c \in Range(roster)
      BY <1>2, <1>c, TaskTypes DEF c
    <3>3. ~Ahead(roster, c, c)
      BY <1>a, <3>2, AheadFacts DEF Range
    <3> QED
      BY <1>2, <1>c, <1>g, <3>1, <3>3 DEF OnWalk, t, A
  <2>2. CASE got' = [got EXCEPT ![c] = BagAdd(@, m)] /\ UNCHANGED misused
    <3>1. got' = [got EXCEPT ![c] = BagAdd(@, m)] /\ UNCHANGED misused
      BY <2>2
    <3>2. Delivers(w)
      <4>1. ASSUME NEW d \in Clients
            PROVE  DOMAIN got'[d] = DOMAIN got[d] \/ DOMAIN got'[d] = DOMAIN got[d] \cup {m}
        <5>1. got'[d] = got[d] \/ got'[d] = BagAdd(got[d], m)
          BY <3>1, TaskTypes
        <5> QED
          BY <5>1 DEF BagAdd
      <4> QED
        BY <1>c, <4>1 DEF Delivers, t
    <3>3. ASSUME ~misused
          PROVE  /\ OnWalk(w)'
                 /\ \A d \in Clients : \A x \in DOMAIN got'[d] : got'[d][x] = 1
      <4>1. \A d \in Clients : \A x \in DOMAIN got[d] : got[d][x] = 1
        BY <3>3 DEF TaskInv, ReachesAudience
      <4>2. ~Received(c, m.from, m.no)
        BY <1>c, <2>1, <3>3
      <4>3. Same(m, job[w]) /\ DOMAIN got = Clients
        BY <1>c, TaskTypes DEF t
      <4>4. /\ \A d \in Clients \ {c} : got'[d] = got[d]
            /\ m \in DOMAIN got'[c]
            /\ \A d \in Clients : \A x \in DOMAIN got'[d] : got'[d][x] = 1
        BY <1>c, <3>1, <4>1, <4>2, <4>3, Delivered
      <4>5. ReceivedNext(c, t.from, t.no)
        BY <1>c, <4>4 DEF ReceivedNext
      <4>6. \A d \in Clients \ {c} : ReceivedNext(d, t.from, t.no) <=> Received(d, t.from, t.no)
        BY <4>4 DEF ReceivedNext, Received
      <4>7. \A d \in A : Passed(w, d)' => ReceivedNext(d, t.from, t.no)
        BY <1>d, <1>f, <2>1, <3>3, <4>5, <4>6
      <4>8. \A d \in Clients \ freed : ReceivedNext(d, t.from, t.no) => Passed(w, d)'
        BY <1>f, <2>1, <3>3, <4>6
      <4>9. OnWalk(w)'
        BY <1>b, <4>7, <4>8 DEF OnWalk, Received, ReceivedNext, t, A
      <4> QED
        BY <4>4, <4>9
    <3> QED
      BY <1>2, <1>b, <1>c, <3>1, <3>2, <3>3, KeepStep DEF t, c
  <2>3. CASE MayDiffer(t.to, c) /\ UNCHANGED <<got, misused>>
    <3>1. UNCHANGED <<got, misused>>
      BY <2>3
    <3>2. c \notin A
      BY <1>a, <1>c, <2>3 DEF ToInv, ForAudience, MustReach, Named, MayDiffer, t, A
    <3>3. ASSUME ~misused PROVE OnWalk(w)'
      <4>1. \A d : ReceivedNext(d, t.from, t.no) <=> Received(d, t.from, t.no)
        BY <3>1 DEF ReceivedNext, Received
      <4>2. \A d \in A : Passed(w, d)' => ReceivedNext(d, t.from, t.no)
        BY <1>f, <2>1, <3>2, <3>3, <4>1
      <4>3. \A d \in Clients \ freed : ReceivedNext(d, t.from, t.no) => Passed(w, d)'
        BY <1>f, <2>1, <3>3, <4>1
      <4> QED
        BY <1>b, <4>2, <4>3 DEF OnWalk, Received, ReceivedNext, t, A
    <3> QED
      BY <1>2, <1>b, <1>c, <3>1, <3>3, NothingDelivered, KeepStep DEF t, c
  <2> QED
    BY <1>2, <2>2, <2>3 DEF Visit, Write, t, c, m
<1> QED
  BY <1>1, <1>2

LEMMA StepStep ==
  ASSUME IInv, TaskInv, KeepsNames, NEW w \in Workers, Step(w)
  PROVE  TaskInv'
<1> USE Labels
<1> DEFINE t == job[w]
           A == log[t.from][t.no].audience
           k == PositionOf(at[w])
<1>a. /\ TypeOK /\ ShapeInv /\ CleanInv
      /\ roster \in Seq(Clients) /\ Injective(roster)
  BY DEF IInv, TaskInv, TypeOK, RosterInv, Injective
<1>b. pc[w] = "step" /\ UNCHANGED <<queue, roster, log, name, freed, got>> /\ (misused => misused')
  BY DEF Step, At, sessions, Misuse
<1>c. /\ t # NULL /\ at[w] # NULL /\ Delivers(w)
      /\ (~misused => \A d \in Clients : \A x \in DOMAIN got'[d] : got'[d][x] = 1)
  BY <1>b, TaskTypes, NothingDelivered
<1>d. \A d : ReceivedNext(d, t.from, t.no) <=> Received(d, t.from, t.no)
  BY <1>b DEF ReceivedNext, Received
<1>e. \A d : Passed(w, d) <=> Ahead(roster, d, at[w]) \/ d = at[w]
  BY <1>b DEF Passed
<1>f. A \subseteq (Range(roster) \cup freed) \cap Clients
  BY <1>c, AudienceListed
<1>g. ASSUME NEW c, Move(w, c), c # NULL
      PROVE  /\ UNCHANGED job /\ at'[w] = c /\ pc'[w] = "walk"
             /\ \A v \in Workers : v # w => pc'[v] = pc[v] /\ at'[v] = at[v]
  BY <1>a, <1>g DEF Move, Goto, TypeOK, ShapeInv
<1>h. ASSUME Move(w, NULL)
      PROVE  /\ at' = [at EXCEPT ![w] = NULL] /\ job' = [job EXCEPT ![w] = NULL]
             /\ pc' = [pc EXCEPT ![w] = "idle"]
  BY <1>h DEF Move, Done, Goto
<1>i. \A d \in Range(roster) : d \in Clients /\ d # NULL
  BY <1>a, LenProperties, ElementOfSeq DEF Range
<1> HIDE DEF t, A, k
<1>1. CASE at[w] \in freed
  <2>1. PICK c \in Range(roster) \cup {NULL} : Move(w, c) /\ misused'
    BY <1>1 DEF Step, Misuse
  <2>2. CASE c = NULL
    BY <1>b, <1>c, <1>h, <2>1, <2>2, FinishStep DEF t
  <2>3. CASE c # NULL
    BY <1>b, <1>c, <1>g, <2>1, <2>3, KeepStep DEF t
  <2> QED
    BY <2>2, <2>3
<1>2. CASE at[w] \notin freed
  <2>1. Move(w, AfterC(at[w])) /\ UNCHANGED misused
    BY <1>2 DEF Step
  <2>2. k \in DOMAIN roster /\ roster[k] = at[w]
    <3>1. at[w] \in Range(roster)
      BY <1>2, <1>c, TaskTypes
    <3> QED
      BY <3>1 DEF Range, PositionOf, k
  <2>3. ASSUME ~misused
        PROVE  /\ \A d \in A : Passed(w, d) => Received(d, t.from, t.no)
               /\ \A d \in Clients \ freed : Received(d, t.from, t.no) => Passed(w, d)
    BY <1>a, <1>b, <2>3 DEF CleanInv, OnWalk, t, A
  <2>4. CASE k = Len(roster)
    <3>1. AfterC(at[w]) = NULL
      BY <2>4 DEF AfterC, k
    <3>2. \A d \in Range(roster) : Passed(w, d)
      BY <1>a, <1>e, <2>2, <2>4, AheadFacts
    <3>3. ASSUME ~misused PROVE \A d \in A \ freed : ReceivedNext(d, t.from, t.no)
      BY <1>d, <1>f, <2>3, <3>2, <3>3
    <3> QED
      BY <1>b, <1>c, <1>h, <2>1, <3>1, <3>3, FinishStep DEF t, A
  <2>5. CASE k # Len(roster)
    <3>1. /\ AfterC(at[w]) = roster[k + 1] /\ k + 1 \in DOMAIN roster
          /\ \A d : Ahead(roster, d, roster[k + 1]) <=> Passed(w, d)
      BY <1>a, <1>e, <2>2, <2>5, AheadFacts DEF AfterC, k
    <3>2. roster[k + 1] \in Range(roster)
      BY <3>1 DEF Range
    <3>3. roster[k + 1] # NULL /\ roster[k + 1] \notin freed
      BY <1>i, <3>2 DEF IInv, RosterInv
    <3>4. /\ UNCHANGED job /\ at'[w] = roster[k + 1] /\ pc'[w] = "walk"
          /\ \A v \in Workers : v # w => pc'[v] = pc[v] /\ at'[v] = at[v]
      BY <1>g, <2>1, <3>1, <3>3
    <3>5. \A d : Passed(w, d)' <=> Passed(w, d)
      <4>1. \A d : Passed(w, d)' <=> Ahead(roster, d, roster[k + 1])
        BY <1>b, <3>4 DEF Passed
      <4> QED
        BY <3>1, <4>1
    <3>6. ASSUME ~misused PROVE OnWalk(w)'
      <4>1. /\ \A d \in A : Passed(w, d)' => ReceivedNext(d, t.from, t.no)
            /\ \A d \in Clients \ freed : ReceivedNext(d, t.from, t.no) => Passed(w, d)'
        BY <1>d, <2>3, <3>5, <3>6
      <4> QED
        BY <1>b, <3>4, <4>1 DEF OnWalk, Received, ReceivedNext, t, A
    <3> QED
      BY <1>b, <1>c, <2>1, <3>3, <3>4, <3>6, KeepStep DEF t
  <2> QED
    BY <2>4, <2>5
<1> QED
  BY <1>1, <1>2

LEMMA SendListStep ==
  ASSUME IInv, TaskInv, KeepsNames, NEW w \in Workers, SendList(w)
  PROVE  TaskInv'
<1> USE Labels
<1> DEFINE c == job[w].from
           m == [kind |-> "list", from |-> c, no |-> 1, text |-> text[w]]
<1>a. /\ TypeOK /\ ShapeInv /\ CleanInv /\ JobInv /\ WalkInv /\ LogInv /\ AudienceInv
  BY DEF IInv, TaskInv
<1>b. /\ pc[w] = "reply" /\ pc' = [pc EXCEPT ![w] = "idle"]
      /\ job' = [job EXCEPT ![w] = NULL]
      /\ UNCHANGED <<queue, roster, log, name, freed, at>> /\ (misused => misused')
  BY DEF SendList, At, Goto, Done, sessions, Misuse
<1>c. /\ job[w] # NULL /\ job[w].kind = "list" /\ c \in Clients /\ Logged(job[w]) /\ at[w] = NULL
  BY <1>a, <1>b, TaskTypes DEF JobInv
<1>d. job[w].no = 1 /\ log[c][1].audience = {}
  BY <1>a, <1>c DEF Logged, LogInv, AudienceInv
<1>e. Same(m, job[w]) /\ m.from = c /\ m.no = 1
  BY <1>d DEF Same
<1>f. at' = [at EXCEPT ![w] = NULL]
  BY <1>a, <1>b, <1>c DEF TypeOK
<1> HIDE DEF c, m
<1>1. CASE c \in freed
  <2>1. misused' /\ UNCHANGED got
    BY <1>1 DEF SendList, Misuse, c
  <2> QED
    BY <1>b, <1>c, <1>f, <2>1, NothingDelivered, FinishStep
<1>2. CASE c \notin freed
  <2>1. got' = [got EXCEPT ![c] = BagAdd(@, m)] /\ UNCHANGED misused
    BY <1>2 DEF SendList, Write, c, m
  <2>2. Delivers(w)
    <3>1. ASSUME NEW d \in Clients
          PROVE  DOMAIN got'[d] = DOMAIN got[d] \/ DOMAIN got'[d] = DOMAIN got[d] \cup {m}
      <4>1. got'[d] = got[d] \/ got'[d] = BagAdd(got[d], m)
        BY <2>1, TaskTypes
      <4> QED
        BY <4>1 DEF BagAdd
    <3> QED
      BY <1>e, <3>1 DEF Delivers
  <2>3. ASSUME ~misused
        PROVE  \A d \in Clients : \A x \in DOMAIN got'[d] : got'[d][x] = 1
    <3>1. \A d \in Clients : \A x \in DOMAIN got[d] : got[d][x] = 1
      BY <2>3 DEF TaskInv, ReachesAudience
    <3>2. ~Received(c, m.from, m.no)
      BY <1>a, <1>b, <1>c, <1>d, <1>e, <2>3 DEF CleanInv, FreshTask, c
    <3> QED
      BY <1>c, <1>e, <2>1, <3>1, <3>2, TaskTypes, Delivered
  <2> QED
    BY <1>b, <1>c, <1>d, <1>f, <2>1, <2>2, <2>3, FinishStep DEF c
<1> QED
  BY <1>1, <1>2

-----------------------------------------------------------------------------
(* The theorem.                                                            *)

LEMMA DeliveryStep == IInv /\ TaskInv /\ [Next]_vars => TaskInv'
<1> SUFFICES ASSUME IInv, TaskInv, [Next]_vars PROVE TaskInv'
  OBVIOUS
<1> USE Labels
<1>a. TypeOK /\ ShapeInv /\ FreshInv /\ TaskInv
  BY DEF IInv
<1>b. KeepsNames
  BY StepNames
<1>1. CASE Accept
  <2>1. PICK c \in Clients : Enqueue(c, "list", NULL)
    BY <1>1 DEF Accept
  <2>2. UNCHANGED <<roster, name, job, at, got, freed, misused>> /\ "list" \in TaskKinds
    BY <1>1 DEF Accept, workers, TaskKinds
  <2>3. \A w \in Workers : pc'[w] = pc[w]
    BY <1>1, <1>a, ClientStepFrame DEF ClientStep, MainStep
  <2> QED
    BY <1>a, <1>b, <2>1, <2>2, <2>3, CreateStep
<1>2. CASE AddToList
  BY <1>2, <1>a, <1>b, AddStep
<1>3. ASSUME NEW c \in Clients, RemoveSelf(c) PROVE TaskInv'
  BY <1>3, <1>a, <1>b, RemoveStep
<1>4. ASSUME NEW c \in Clients, Announce(c) \/ Say(c) \/ SayBye(c) PROVE TaskInv'
  <2>1. PICK kind \in TaskKinds \ {"list"}, to \in Receivers \cup {Everybody} : Enqueue(c, kind, to)
    <3>1. {"conn", "text", "disconn"} \subseteq TaskKinds \ {"list"}
      BY DEF TaskKinds
    <3> QED
      BY <1>4, <3>1 DEF Announce, Say, SayBye
  <2>2. UNCHANGED <<roster, name, job, at, got, freed, misused>>
    BY <1>4 DEF Announce, Say, SayBye, workers
  <2>3. \A w \in Workers : pc'[w] = pc[w]
    BY <1>4, <1>a, ClientStepFrame DEF ClientStep, SessionStep, InputStep
  <2>4. kind \in TaskKinds /\ to \in Receivers \cup {Everybody, NULL} /\ kind # "list"
    OBVIOUS
  <2> QED
    BY <1>a, <1>b, <2>1, <2>2, <2>3, <2>4, CreateStep
<1>5. ASSUME NEW c \in Clients, LoginFlag(c) \/ LoginName(c) \/ Leave(c) \/ Refuse(c)
                                  \/ Blank(c) \/ HangUp(c)
      PROVE  TaskInv'
  <2>1. UNCHANGED <<queue, roster, log, job, at, got, freed, misused>>
    BY <1>5 DEF LoginFlag, LoginName, Leave, Refuse, Blank, HangUp, workers, sessions
  <2>2. \A w \in Workers : pc'[w] = pc[w]
    BY <1>5, <1>a, ClientStepFrame DEF ClientStep, SessionStep, InputStep
  <2> QED
    BY <1>a, <1>b, <2>1, <2>2, QuietStep
<1>6. ASSUME NEW w \in Workers, Format(w) \/ CopyList(w) PROVE TaskInv'
  <2>1. UNCHANGED <<queue, roster, log, job, at, got, freed>> /\ (misused => misused')
    BY <1>6 DEF Format, CopyList, sessions, Misuse
  <2>2. \A v \in Workers : pc'[v] = pc[v] \/ {pc[v], pc'[v]} \subseteq Early
    BY <1>6, <1>a DEF Format, CopyList, At, Goto, Early, ShapeInv
  <2> QED
    BY <1>a, <1>b, <2>1, <2>2, QuietStep
<1>7. ASSUME NEW w \in Workers, WorkerStep(w) PROVE TaskInv'
  BY <1>6, <1>7, <1>a, <1>b, TakeStep, BeginStep, VisitStep, StepStep, SendListStep
     DEF WorkerStep
<1>8. CASE UNCHANGED vars
  <2>1. UNCHANGED <<queue, roster, log, job, at, got, freed, misused, pc>>
    BY <1>8 DEF vars, sessions, workers
  <2> QED
    BY <1>a, <1>b, <2>1, QuietStep
<1> QED
  BY <1>1, <1>2, <1>3, <1>4, <1>5, <1>7, <1>8 DEF Next, MainStep, SessionStep, InputStep

LEMMA DeliveryInit == Init => TaskInv
<1> SUFFICES ASSUME Init PROVE TaskInv
  OBVIOUS
<1> USE Labels
<1>1. queue = <<>> /\ \A c \in Clients : log[c] = <<>> /\ got[c] = EmptyBag
  BY DEF Init
<1>2. DOMAIN queue = {} /\ \A c \in Clients : DOMAIN log[c] = {} /\ DOMAIN got[c] = {}
  BY <1>1 DEF EmptyBag, SetToBag
<1>3. /\ \A w \in Workers : job[w] = NULL /\ at[w] = NULL /\ pc[w] = "idle"
      /\ freed = {}
  BY DEF Init
<1>4. AudienceInv /\ ToInv /\ OnceInv /\ SourceInv
  BY <1>2, <1>3 DEF AudienceInv, ToInv, OnceInv, SourceInv
<1>5. CleanInv /\ ReachesAudience
  BY <1>2, <1>3 DEF CleanInv, ReachesAudience
<1> QED
  BY <1>4, <1>5 DEF TaskInv

\* As long as no freed memory is in use, a task that has been processed has reached
\* everyone who was listed when it was created, if it is private every user of a name
\* it was for, who is still there, and nobody has anything twice, although the walks
\* of the workers go over the list without its mutex while clients are appended to
\* and removed from it, and get their names.
THEOREM TasksReachTheirAudience == Spec => []ReachesAudience
<1>1. Spec => []TaskInv
  BY DeliveryInit, DeliveryStep, Invariance, PTL DEF Spec
<1>2. TaskInv => ReachesAudience
  BY DEF TaskInv
<1> QED
  BY <1>1, <1>2, PTL
=============================================================================
