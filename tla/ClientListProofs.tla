-------------------------- MODULE ClientListProofs ---------------------------
(* Proofs about ClientList for any number of clients, workers and          *)
(* addresses of nodes and of clients.                                      *)
EXTENDS ClientList, SequencesExt, SequenceTheorems, TLAPS

-----------------------------------------------------------------------------
(* What the operations of the linked lists do to the sequence of their     *)
(* elements.                                                               *)

\* No two places of a list hold the same.
Injective(s) == \A i, j \in DOMAIN s : s[i] = s[j] => i = j

\* What client_list_add does to a list.
LEMMA AppendFacts ==
  ASSUME NEW S, NEW s \in Seq(S), NEW e \in S
  PROVE  /\ Append(s, e) \in Seq(S)
         /\ Len(s) \in Nat /\ Len(Append(s, e)) = Len(s) + 1
         /\ DOMAIN s = 1 .. Len(s) /\ DOMAIN Append(s, e) = 1 .. Len(s) + 1
         /\ \A i \in 1 .. Len(s) : Append(s, e)[i] = s[i]
         /\ Append(s, e)[Len(s) + 1] = e
         /\ Range(Append(s, e)) = Range(s) \cup {e}
<1>1. /\ Append(s, e) \in Seq(S) /\ Len(Append(s, e)) = Len(s) + 1
      /\ \A i \in 1 .. Len(s) : Append(s, e)[i] = s[i]
      /\ Append(s, e)[Len(s) + 1] = e
  BY AppendProperties
<1>2. Len(s) \in Nat /\ DOMAIN s = 1 .. Len(s) /\ DOMAIN Append(s, e) = 1 .. Len(s) + 1
  BY <1>1, LenProperties
<1>3. Range(Append(s, e)) = Range(s) \cup {e}
  <2>1. 1 .. Len(s) + 1 = (1 .. Len(s)) \cup {Len(s) + 1}
    BY <1>2
  <2> HIDE <1>2
  <2>2. Range(Append(s, e)) = {Append(s, e)[i] : i \in 1 .. Len(s)} \cup {Append(s, e)[Len(s) + 1]}
    BY <1>2, <2>1 DEF Range
  <2> QED
    BY <1>1, <1>2, <2>2 DEF Range
<1> QED
  BY <1>1, <1>2, <1>3

\* What client_list_remove does to a list of different clients.
LEMMA RemoveFacts ==
  ASSUME NEW S, NEW s \in Seq(S), Injective(s), NEW k \in DOMAIN s
  PROVE  /\ RemoveAt(s, k) \in Seq(S)
         /\ Len(s) \in Nat /\ DOMAIN s = 1 .. Len(s)
         /\ Len(RemoveAt(s, k)) = Len(s) - 1 /\ DOMAIN RemoveAt(s, k) = 1 .. Len(s) - 1
         /\ \A i \in 1 .. Len(s) - 1 : RemoveAt(s, k)[i] = IF i < k THEN s[i] ELSE s[i + 1]
         /\ Range(RemoveAt(s, k)) = Range(s) \ {s[k]}
         /\ Injective(RemoveAt(s, k))
<1>1. Len(s) \in Nat /\ DOMAIN s = 1 .. Len(s) /\ \A i \in 1 .. Len(s) : s[i] \in S
  BY LenProperties, ElementOfSeq
<1>2. k \in 1 .. Len(s)
  BY <1>1
<1> DEFINE a == SubSeq(s, 1, k - 1)
           b == SubSeq(s, k + 1, Len(s))
<1>3. a \in Seq(S) /\ Len(a) = k - 1 /\ \A i \in 1 .. k - 1 : a[i] = s[i]
  <2>1. \A i \in 1 .. k - 1 : s[i] \in S
    BY <1>1, <1>2
  <2>2. /\ a \in Seq(S)
        /\ Len(a) = IF 1 <= k - 1 THEN k - 1 - 1 + 1 ELSE 0
        /\ \A i \in 1 .. k - 1 - 1 + 1 : a[i] = s[1 + i - 1]
    <3> HIDE DEF a
    <3>1. 1 \in Int /\ k - 1 \in Int
      BY <1>1, <1>2
    <3> QED
      BY <2>1, <3>1, SubSeqProperties DEF a
  <2> HIDE DEF a
  <2> QED
    BY <1>1, <1>2, <2>2
<1>4. b \in Seq(S) /\ Len(b) = Len(s) - k /\ \A i \in 1 .. Len(s) - k : b[i] = s[k + i]
  <2>1. \A i \in k + 1 .. Len(s) : s[i] \in S
    BY <1>1, <1>2
  <2>2. /\ b \in Seq(S)
        /\ Len(b) = IF k + 1 <= Len(s) THEN Len(s) - (k + 1) + 1 ELSE 0
        /\ \A i \in 1 .. Len(s) - (k + 1) + 1 : b[i] = s[k + 1 + i - 1]
    <3>1. k + 1 \in Int /\ Len(s) \in Int
      BY <1>1, <1>2
    <3> QED
      BY <2>1, <3>1, SubSeqProperties
  <2> HIDE DEF b
  <2>3. Len(b) = Len(s) - k
    BY <1>1, <1>2, <2>2
  <2>4. \A i \in 1 .. Len(s) - k : i \in 1 .. Len(s) - (k + 1) + 1 /\ k + 1 + i - 1 = k + i
    BY <1>1, <1>2
  <2>5. \A i \in 1 .. Len(s) - k : b[i] = s[k + i]
    BY <2>2, <2>4
  <2> QED
    BY <2>2, <2>3, <2>5
<1>5. RemoveAt(s, k) = a \o b
  BY DEF RemoveAt
<1> HIDE DEF a, b
<1>6. /\ a \o b \in Seq(S) /\ Len(a \o b) = Len(s) - 1
      /\ \A i \in 1 .. Len(s) - 1 : (a \o b)[i] = IF i <= k - 1 THEN a[i] ELSE b[i - (k - 1)]
  <2>1. /\ a \o b \in Seq(S) /\ Len(a \o b) = Len(a) + Len(b)
        /\ \A i \in 1 .. Len(a) + Len(b) : (a \o b)[i] = IF i <= Len(a) THEN a[i] ELSE b[i - Len(a)]
    BY <1>3, <1>4, ConcatProperties
  <2>2. Len(a) + Len(b) = Len(s) - 1
    BY <1>1, <1>2, <1>3, <1>4
  <2> QED
    BY <1>3, <2>1, <2>2
<1>7. \A i \in 1 .. Len(s) - 1 : (a \o b)[i] = IF i < k THEN s[i] ELSE s[i + 1]
  <2> SUFFICES ASSUME NEW i \in 1 .. Len(s) - 1
               PROVE  (a \o b)[i] = IF i < k THEN s[i] ELSE s[i + 1]
    OBVIOUS
  <2>1. (a \o b)[i] = IF i <= k - 1 THEN a[i] ELSE b[i - (k - 1)]
    BY <1>6
  <2>2. CASE i < k
    <3>1. i <= k - 1 /\ i \in 1 .. k - 1
      BY <1>1, <1>2, <2>2
    <3> QED
      BY <1>3, <2>1, <2>2, <3>1
  <2>3. CASE ~(i < k)
    <3>1. ~(i <= k - 1) /\ i - (k - 1) \in 1 .. Len(s) - k /\ k + (i - (k - 1)) = i + 1
      BY <1>1, <1>2, <2>3
    <3>2. b[i - (k - 1)] = s[k + (i - (k - 1))]
      BY <1>4, <3>1
    <3> QED
      BY <2>1, <2>3, <3>1, <3>2
  <2> QED
    BY <2>2, <2>3
<1> DEFINE r == RemoveAt(s, k)
<1>8. /\ r \in Seq(S) /\ Len(r) = Len(s) - 1
      /\ \A i \in 1 .. Len(s) - 1 : r[i] = IF i < k THEN s[i] ELSE s[i + 1]
  BY <1>5, <1>6, <1>7, Zenon
<1> HIDE DEF r
<1>9. DOMAIN r = 1 .. Len(s) - 1
  BY <1>8, LenProperties
<1>10. Range(r) = Range(s) \ {s[k]}
  <2>1. \A i \in 1 .. Len(s) - 1 : \E j \in 1 .. Len(s) : j # k /\ r[i] = s[j]
    <3> SUFFICES ASSUME NEW i \in 1 .. Len(s) - 1
                 PROVE  \E j \in 1 .. Len(s) : j # k /\ r[i] = s[j]
      OBVIOUS
    <3>1. i \in 1 .. Len(s) /\ i + 1 \in 1 .. Len(s)
      BY <1>1
    <3>2. CASE i < k
      BY <1>8, <3>1, <3>2
    <3>3. CASE ~(i < k)
      <4>1. i + 1 # k
        BY <1>1, <1>2, <3>3
      <4> QED
        BY <1>8, <3>1, <3>3, <4>1
    <3> QED
      BY <3>2, <3>3
  <2>2. \A j \in 1 .. Len(s) : j # k => \E i \in 1 .. Len(s) - 1 : r[i] = s[j]
    <3> SUFFICES ASSUME NEW j \in 1 .. Len(s), j # k
                 PROVE  \E i \in 1 .. Len(s) - 1 : r[i] = s[j]
      OBVIOUS
    <3>1. CASE j < k
      <4>1. j \in 1 .. Len(s) - 1
        BY <1>1, <1>2, <3>1
      <4> QED
        BY <1>8, <3>1, <4>1
    <3>2. CASE ~(j < k)
      <4>1. j - 1 \in 1 .. Len(s) - 1 /\ ~(j - 1 < k) /\ j - 1 + 1 = j
        BY <1>1, <1>2, <3>2
      <4>2. r[j - 1] = s[j - 1 + 1]
        BY <1>8, <4>1
      <4> QED
        BY <4>1, <4>2
    <3> QED
      BY <3>1, <3>2
  <2>3. \A j \in 1 .. Len(s) : s[j] = s[k] => j = k
    BY <1>1, <1>2 DEF Injective
  <2>4. Range(r) = {r[i] : i \in 1 .. Len(s) - 1} /\ Range(s) = {s[j] : j \in 1 .. Len(s)}
    BY <1>1, <1>9 DEF Range
  <2>5. ASSUME NEW x \in Range(r) PROVE x \in Range(s) \ {s[k]}
    BY <2>1, <2>3, <2>4
  <2>6. ASSUME NEW x \in Range(s) \ {s[k]} PROVE x \in Range(r)
    BY <2>2, <2>4
  <2> QED
    BY <2>5, <2>6
<1>11. Injective(r)
  <2> SUFFICES ASSUME NEW i \in 1 .. Len(s) - 1, NEW j \in 1 .. Len(s) - 1, r[i] = r[j]
               PROVE  i = j
    BY <1>9 DEF Injective
  <2>1. /\ i \in 1 .. Len(s) /\ i + 1 \in 1 .. Len(s)
        /\ j \in 1 .. Len(s) /\ j + 1 \in 1 .. Len(s)
    BY <1>1
  <2>2. \A x, y \in 1 .. Len(s) : s[x] = s[y] => x = y
    BY <1>1 DEF Injective
  <2>3. (IF i < k THEN s[i] ELSE s[i + 1]) = (IF j < k THEN s[j] ELSE s[j + 1])
    BY <1>8
  <2> QED
    BY <1>2, <2>1, <2>2, <2>3
<1> QED
  BY <1>1, <1>8, <1>9, <1>10, <1>11 DEF r

-----------------------------------------------------------------------------

(* The inductive invariant.                                                *)

\* Who holds the mutex, by the place of each thread; a worker is in its loop only
\* as long as the list is not destroyed.
MutexInv ==
  /\ mutex = Main <=> pc[Main] = "sweep"
  /\ \A c \in Clients : mutex = c <=> pc[c] \in {"search", "destroy", "free"}
  /\ \A w \in Workers : mutex = w => pc[w] \in {"visit", "send", "advance"}
  /\ \A w \in Workers : pc[w] # "idle" => Open

\* The pointers of the nodes of the chain, also after the list was destroyed.
ChainInv ==
  /\ \A i, j \in DOMAIN chain : chain[i] = chain[j] => i = j
  /\ head = IF chain = <<>> THEN NULL ELSE chain[1]
  /\ chain # <<>> => tail = chain[Len(chain)]
  /\ \A i \in DOMAIN chain :
       /\ next[chain[i]] = IF i = Len(chain) THEN NULL ELSE chain[i + 1]
       /\ prev[chain[i]] = IF i = 1 THEN NULL ELSE chain[i - 1]

\* A node that is pointed to has had a client.
ClientInv ==
  /\ \A i \in DOMAIN chain : client[chain[i]] # NULL
  /\ \A n \in Nodes : next[n] # NULL => client[n] # NULL /\ client[next[n]] # NULL
  /\ \A t \in Threads : curr[t] # NULL => client[curr[t]] # NULL

\* The clients in the list, each there once.
MembersInv ==
  /\ \A i, j \in DOMAIN chain : client[chain[i]] = client[chain[j]] => i = j
  /\ \A c \in Clients :
       (\E i \in DOMAIN chain : client[chain[i]] = c) <=>
         \/ pc[c] \in {"listen", "search"}
         \/ pc[Main] = "start" /\ c = client[curr[Main]]

\* The client_s structures whose addresses a search compares.
InUse(c) ==
  \/ \E i \in DOMAIN chain : client[chain[i]] = c
  \/ pc[Main] = "link" /\ c = client[curr[Main]]

\* No two of them are at the same address.
PlaceInv == \A c, d \in Clients : InUse(c) /\ InUse(d) /\ place[c] = place[d] => c = d

\* The node the accept loop is about to link or has linked, and the walk of
\* client_list_destroy.
MainInv ==
  /\ pc[Main] \in {"link", "start"} => curr[Main] # NULL /\ pc[client[curr[Main]]] = "none"
  /\ pc[Main] = "link" =>
       /\ curr[Main] \notin Range(chain)
       /\ next[curr[Main]] = NULL /\ prev[curr[Main]] = NULL
       /\ \A c \in Clients : pc[c] \in {"destroy", "free"} => curr[c] # curr[Main]
  /\ pc[Main] = "start" => curr[Main] \in Range(chain)
  /\ pc[Main] = "sweep" /\ rest # NULL => curr[Main] \in Range(chain)

\* A listener searches from the head on and has its client still ahead; what it
\* unlinked is in the list no more, but points there.
RemovalInv ==
  \A c \in Clients :
    /\ pc[c] = "search" =>
         \E i, j \in DOMAIN chain : i <= j /\ chain[i] = curr[c] /\ client[chain[j]] = c
    /\ pc[c] \in {"destroy", "free"} =>
         curr[c] # NULL /\ curr[c] \notin Range(chain) /\ client[curr[c]] = c
    /\ pc[c] = "destroy" => next[curr[c]] \in Range(chain) \cup {NULL}

\* What is allocated and whose client was destroyed, as long as the list was not.
MemoryInv ==
  Open =>
    /\ \A c \in Clients : c \in destroyed <=> pc[c] \in {"free", "gone"}
    /\ \A n \in Nodes :
         n \in allocated <=>
           \/ n \in Range(chain)
           \/ pc[Main] = "link" /\ n = curr[Main]
           \/ \E c \in Clients : pc[c] \in {"destroy", "free"} /\ n = curr[c]

\* The node is linked, or just unlinked and its client not yet destroyed.
OnList(n) ==
  \/ n \in Range(chain)
  \/ \E c \in Clients : pc[c] = "destroy" /\ n = curr[c]

\* A walk stands on the list, unless what it stood on was freed under it.
WalkInv ==
  \A w \in Workers :
    /\ pc[w] = "idle" => curr[w] = NULL /\ visited[w] = <<>> /\ stay[w] = {} /\ ~stale[w]
    /\ pc[w] = "report" => curr[w] = NULL
    /\ pc[w] = "advance" => curr[w] # NULL
    /\ ~stale[w] /\ curr[w] # NULL => OnList(curr[w])

\* What a walk has read stays what its node says, and it misleads nobody, unless
\* what it stood on was freed under it.
TargetInv ==
  \A w \in Workers :
    /\ pc[w] = "send" => curr[w] # NULL /\ target[w] # NULL
    /\ pc[w] = "send" /\ ~stale[w] => target[w] = client[curr[w]]
    /\ ~stale[w] => misled[w] = {}

\* The first k members were visited, and nobody else.
VisitedFirst(w, k) ==
  /\ Len(visited[w]) = k
  /\ \A i \in 1 .. k : i \in DOMAIN chain /\ visited[w][i] = client[chain[i]]

\* A walk under the mutex has visited the members before the one it stands on.
LockedWalkInv ==
  \A w \in Workers : mutex = w =>
    /\ ~stale[w]
    /\ curr[w] = NULL => VisitedFirst(w, Len(chain))
    /\ \A i \in DOMAIN chain : curr[w] = chain[i] =>
         VisitedFirst(w, IF pc[w] = "advance" THEN i ELSE i - 1)

\* A client that has not connected is not known anywhere.
FreshInv ==
  \A c \in Clients :
    pc[c] = "none" =>
      \/ pc[Main] \in {"link", "start"} /\ client[curr[Main]] = c
      \/ /\ \A n \in Nodes : client[n] # c
         /\ \A w \in Workers : c \notin Range(visited[w]) /\ target[w] # c

\* The clients that stay are in the list.
StayInv ==
  \A w \in Workers : \A c \in stay[w] : \E i \in DOMAIN chain : client[chain[i]] = c

-----------------------------------------------------------------------------
(* Every pointer, also a stale one, leads from a client to one that        *)
(* connected later: that is why a walk reaches nobody twice.               *)

\* The age of the client of a node: when it connected.
AgeOf(age, n) == age[client[n]]

NextIsYounger(age) ==
  /\ \A n \in Nodes : next[n] # NULL => AgeOf(age, n) < AgeOf(age, next[n])
  /\ \A i, j \in DOMAIN chain : i < j => AgeOf(age, chain[i]) < AgeOf(age, chain[j])

NewestIsLast(age) ==
  pc[Main] = "link" =>
    \A n \in Nodes \ {curr[Main]} : client[n] # NULL => AgeOf(age, n) < AgeOf(age, curr[Main])

\* Of the members, those not older than what was just unlinked are those not older
\* than what it points to.
GapStays(age) ==
  \A d \in Clients : pc[d] = "destroy" => \A i \in DOMAIN chain :
    \/ AgeOf(age, chain[i]) < age[d]
    \/ next[curr[d]] # NULL /\ AgeOf(age, next[curr[d]]) <= AgeOf(age, chain[i])

\* A client is behind a walk that stands on node n: it is older than the node, or
\* the node's own once that was visited.
Behind(age, w, c) ==
  \/ curr[w] = NULL
  \/ age[c] < AgeOf(age, curr[w])
  \/ pc[w] = "advance" /\ age[c] = AgeOf(age, curr[w])

\* What a walk has read, perhaps from a node that was since allocated again, is
\* not younger than the node, and younger than all it visited.
TargetIsNext(age) ==
  \A w \in Workers : pc[w] = "send" =>
    /\ age[target[w]] <= AgeOf(age, curr[w])
    /\ \A i \in DOMAIN visited[w] : age[visited[w][i]] < age[target[w]]

VisitedIsBehind(age) ==
  \A w \in Workers :
    /\ \A i, j \in DOMAIN visited[w] : i < j => age[visited[w][i]] < age[visited[w][j]]
    /\ \A i \in DOMAIN visited[w] : Behind(age, w, visited[w][i])

BehindIsVisited(age) ==
  \A w \in Workers : ~stale[w] /\ pc[w] # "idle" =>
    \A c \in stay[w] : Behind(age, w, c) => c \in Range(visited[w])

Ages(age, top) ==
  /\ \A c \in Clients : age[c] < top
  /\ NextIsYounger(age) /\ NewestIsLast(age) /\ GapStays(age)
  /\ TargetIsNext(age) /\ VisitedIsBehind(age) /\ BehindIsVisited(age)

AgeInv == \E age \in [Clients -> Nat], top \in Nat : Ages(age, top)

\* A crash is seen at once by the thread that caused it.
CrashOf(w) ==
  \/ stale[w] /\ mutex # w /\ pc[w] \in {"visit", "send", "advance"}
  \/ pc[w] = "report" /\ visited[w] = <<>>
  \/ pc[w] \in {"idle", "report"} /\ sender[w] \in destroyed
CrashInv == Open /\ crashed => \E w \in Workers : CrashOf(w)

IInv ==
  /\ TypeOK /\ MutexInv /\ ChainInv /\ ClientInv /\ MembersInv /\ PlaceInv /\ MainInv /\ RemovalInv
  /\ MemoryInv /\ WalkInv /\ TargetInv /\ LockedWalkInv /\ FreshInv /\ StayInv /\ CrashInv /\ AgeInv

-----------------------------------------------------------------------------
(* Lemmas about steps.                                                     *)

LEMMA Labels ==
  /\ Main \notin Clients \cup Workers /\ Clients \cap Workers = {}
  /\ Threads = {Main} \cup Clients \cup Workers
  /\ NULL \notin Threads \cup Nodes
  BY ListAssumption DEF ListAssumption, Threads

LEMMA ChainFacts ==
  ASSUME TypeOK
  PROVE  /\ Len(chain) \in Nat /\ DOMAIN chain = 1 .. Len(chain)
         /\ \A i \in DOMAIN chain : chain[i] \in Nodes
         /\ chain = <<>> <=> Len(chain) = 0
         /\ \A n : n \in Range(chain) <=> \E i \in DOMAIN chain : n = chain[i]
<1>1. chain \in Seq(Nodes)
  BY DEF TypeOK
<1>2. Len(chain) \in Nat /\ DOMAIN chain = 1 .. Len(chain)
  BY <1>1, LenProperties
<1>3. \A i \in DOMAIN chain : chain[i] \in Nodes
  BY <1>1, <1>2, ElementOfSeq
<1>4. chain = <<>> <=> Len(chain) = 0
  BY <1>1, EmptySeq
<1>5. \A n : n \in Range(chain) <=> \E i \in DOMAIN chain : n = chain[i]
  BY DEF Range
<1> QED
  BY <1>2, <1>3, <1>4, <1>5

\* What client_list_add does to the list.
LEMMA AddFacts ==
  ASSUME TypeOK, ChainInv, MainInv, Add
  PROVE  LET n == curr[Main]
             k == Len(chain)
         IN  /\ n \in Nodes /\ n \notin Range(chain)
             /\ chain' \in Seq(Nodes) /\ Len(chain') = k + 1 /\ DOMAIN chain' = 1 .. k + 1
             /\ \A i \in 1 .. k : chain'[i] = chain[i]
             /\ chain'[k + 1] = n /\ Range(chain') = Range(chain) \cup {n}
             /\ head' = IF chain = <<>> THEN n ELSE head
             /\ tail' = n
             /\ next' = [m \in Nodes |-> IF chain # <<>> /\ m = chain[k] THEN n ELSE next[m]]
             /\ prev' = [m \in Nodes |-> IF chain # <<>> /\ m = n THEN chain[k] ELSE prev[m]]
<1> DEFINE n == curr[Main]
           k == Len(chain)
<1>1. n \in Nodes /\ n \notin Range(chain)
  BY Labels DEF Add, At, MainInv, TypeOK
<1>2. chain' = Append(chain, n) /\ chain \in Seq(Nodes)
  BY DEF Add, TypeOK
<1> HIDE DEF n
<1>3. /\ Append(chain, n) \in Seq(Nodes) /\ k \in Nat
      /\ Len(Append(chain, n)) = k + 1 /\ DOMAIN Append(chain, n) = 1 .. k + 1
      /\ \A i \in 1 .. k : Append(chain, n)[i] = chain[i]
      /\ Append(chain, n)[k + 1] = n /\ Range(Append(chain, n)) = Range(chain) \cup {n}
  BY <1>1, <1>2, AppendFacts
<1>4. /\ chain' \in Seq(Nodes) /\ Len(chain') = k + 1 /\ DOMAIN chain' = 1 .. k + 1
      /\ \A i \in 1 .. k : chain'[i] = chain[i]
      /\ chain'[k + 1] = n /\ Range(chain') = Range(chain) \cup {n}
  BY <1>2, <1>3, Zenon
<1>5. head = NULL <=> chain = <<>>
  BY ChainFacts, Labels DEF ChainInv
<1>6. chain # <<>> => tail = chain[k]
  BY DEF ChainInv
<1>7. head' = (IF chain = <<>> THEN n ELSE head) /\ tail' = n
  BY <1>5 DEF Add, Link, n
<1>8. next \in [Nodes -> Nodes \cup {NULL}] /\ prev \in [Nodes -> Nodes \cup {NULL}]
  BY DEF TypeOK
<1>9. next' = [m \in Nodes |-> IF chain # <<>> /\ m = chain[k] THEN n ELSE next[m]]
  <2>1. CASE chain = <<>>
    BY <1>5, <1>8, <2>1 DEF Add, Link
  <2>2. CASE chain # <<>>
    BY <1>5, <1>6, <1>8, <2>2 DEF Add, Link, n
  <2> QED
    BY <2>1, <2>2
<1>10. prev' = [m \in Nodes |-> IF chain # <<>> /\ m = n THEN chain[k] ELSE prev[m]]
  <2>1. CASE chain = <<>>
    BY <1>5, <1>8, <2>1 DEF Add, Link
  <2>2. CASE chain # <<>>
    BY <1>5, <1>6, <1>8, <2>2 DEF Add, Link, n
  <2> QED
    BY <2>1, <2>2
<1> QED
  BY <1>1, <1>4, <1>7, <1>9, <1>10 DEF n

\* A search takes no other client for its own: where it stands and where its client
\* is are in the list.
LEMMA Recognized ==
  ASSUME TypeOK, ClientInv, PlaceInv, RemovalInv, NEW c \in Clients, pc[c] = "search", curr[c] # NULL
  PROVE  IsOf(curr[c], c) <=> client[curr[c]] = c
<1>1. PICK i, j \in DOMAIN chain : chain[i] = curr[c] /\ client[chain[j]] = c
  BY DEF RemovalInv
<1>2. client[curr[c]] \in Clients
  BY <1>1, ChainFacts DEF TypeOK, ClientInv
<1>3. InUse(c) /\ InUse(client[curr[c]])
  BY <1>1 DEF InUse
<1> QED
  BY <1>2, <1>3 DEF PlaceInv, IsOf

\* What client_list_remove does to the list, wherever the node is: at the front, at
\* the back, in between, or all of these.
LEMMA UnlinkFacts ==
  ASSUME TypeOK, ChainInv, ClientInv, PlaceInv, RemovalInv, NEW c \in Clients, Unlink(c)
  PROVE  \E k \in DOMAIN chain :
           /\ curr[c] = chain[k] /\ client[chain[k]] = c
           /\ chain' = RemoveAt(chain, k)
           /\ chain' \in Seq(Nodes) /\ Len(chain') = Len(chain) - 1
           /\ DOMAIN chain' = 1 .. Len(chain) - 1
           /\ \A i \in 1 .. Len(chain) - 1 : chain'[i] = IF i < k THEN chain[i] ELSE chain[i + 1]
           /\ Range(chain') = Range(chain) \ {chain[k]}
           /\ head' = IF k = 1 THEN next[chain[1]] ELSE head
           /\ tail' = IF k # 1 /\ k = Len(chain) THEN chain[k - 1] ELSE tail
           /\ next' = [m \in Nodes |-> IF k # 1 /\ m = chain[k - 1] THEN next[chain[k]] ELSE next[m]]
           /\ prev' = [m \in Nodes |-> IF k # Len(chain) /\ m = chain[k + 1]
                                       THEN prev[chain[k]] ELSE prev[m]]
<1>1. /\ Len(chain) \in Nat /\ DOMAIN chain = 1 .. Len(chain)
      /\ \A i \in DOMAIN chain : chain[i] \in Nodes
  BY ChainFacts
<1>2. PICK k \in DOMAIN chain : chain[k] = curr[c]
  BY DEF Unlink, At, RemovalInv
<1>3. client[chain[k]] = c
  BY <1>2, Recognized DEF Unlink, At
<1>4. PlaceOf(curr[c]) = k
  <2>1. \A i \in DOMAIN chain : chain[i] = curr[c] <=> i = k
    BY <1>2 DEF ChainInv
  <2> QED
    BY <2>1 DEF PlaceOf
<1>5. chain' = RemoveAt(chain, k)
  BY <1>4 DEF Unlink, Unlinked
<1>6. chain \in Seq(Nodes) /\ Injective(chain)
  BY DEF TypeOK, ChainInv, Injective
<1>7. /\ RemoveAt(chain, k) \in Seq(Nodes) /\ Len(RemoveAt(chain, k)) = Len(chain) - 1
      /\ DOMAIN RemoveAt(chain, k) = 1 .. Len(chain) - 1
      /\ \A i \in 1 .. Len(chain) - 1 :
           RemoveAt(chain, k)[i] = IF i < k THEN chain[i] ELSE chain[i + 1]
      /\ Range(RemoveAt(chain, k)) = Range(chain) \ {chain[k]}
  BY <1>6, RemoveFacts
<1>8. /\ chain' \in Seq(Nodes) /\ Len(chain') = Len(chain) - 1
      /\ DOMAIN chain' = 1 .. Len(chain) - 1
      /\ \A i \in 1 .. Len(chain) - 1 : chain'[i] = IF i < k THEN chain[i] ELSE chain[i + 1]
      /\ Range(chain') = Range(chain) \ {chain[k]}
  BY <1>5, <1>7, Zenon
<1>9. /\ next[chain[k]] = IF k = Len(chain) THEN NULL ELSE chain[k + 1]
      /\ prev[chain[k]] = IF k = 1 THEN NULL ELSE chain[k - 1]
      /\ head = chain[1] /\ tail = chain[Len(chain)]
  <2>1. chain # <<>>
    BY <1>1, ChainFacts
  <2> QED
    BY <2>1 DEF ChainInv
<1>10. /\ k \in 1 .. Len(chain)
       /\ k # 1 => k - 1 \in DOMAIN chain /\ chain[k - 1] \in Nodes
       /\ k # Len(chain) => k + 1 \in DOMAIN chain /\ chain[k + 1] \in Nodes
  BY <1>1
<1>11. NULL \notin Nodes
  BY Labels
<1>12. /\ prev[chain[k]] = NULL <=> k = 1
       /\ next[chain[k]] = NULL <=> k = Len(chain)
  BY <1>9, <1>10, <1>11
<1>13. next \in [Nodes -> Nodes \cup {NULL}] /\ prev \in [Nodes -> Nodes \cup {NULL}]
  BY DEF TypeOK
<1> DEFINE newHead == head' = IF k = 1 THEN next[chain[1]] ELSE head
           newTail == tail' = IF k # 1 /\ k = Len(chain) THEN chain[k - 1] ELSE tail
           newNext == next' = [m \in Nodes |-> IF k # 1 /\ m = chain[k - 1]
                                               THEN next[chain[k]] ELSE next[m]]
           newPrev == prev' = [m \in Nodes |-> IF k # Len(chain) /\ m = chain[k + 1]
                                               THEN prev[chain[k]] ELSE prev[m]]
<1>14. newHead /\ newTail /\ newNext /\ newPrev
  <2>1. CASE UnlinkFirst(curr[c])
    <3>1. k = 1
      BY <1>2, <1>12, <2>1 DEF UnlinkFirst
    <3>2. next[head] = NULL <=> k = Len(chain)
      BY <1>9, <1>12, <3>1
    <3>3. newHead /\ newTail
      BY <1>9, <2>1, <3>1 DEF UnlinkFirst
    <3>4. newNext
      BY <1>13, <2>1, <3>1 DEF UnlinkFirst
    <3>5. newPrev
      <4>1. CASE k = Len(chain)
        BY <1>13, <2>1, <3>2, <4>1 DEF UnlinkFirst
      <4>2. CASE k # Len(chain)
        <5>1. next[head] = chain[k + 1] /\ prev[chain[k]] = NULL
          BY <1>9, <3>1, <4>2
        <5> QED
          BY <1>13, <2>1, <3>2, <4>2, <5>1 DEF UnlinkFirst
      <4> QED
        BY <4>1, <4>2
    <3> QED
      BY <3>3, <3>4, <3>5
  <2>2. CASE UnlinkLast(curr[c])
    <3>1. k # 1 /\ k = Len(chain)
      BY <1>2, <1>12, <2>2 DEF UnlinkLast
    <3>2. prev[tail] = chain[k - 1] /\ next[chain[k]] = NULL
      BY <1>9, <3>1
    <3>3. newHead /\ newTail
      BY <2>2, <3>1, <3>2 DEF UnlinkLast, TailBefore
    <3>4. newNext
      BY <1>13, <2>2, <3>1, <3>2 DEF UnlinkLast
    <3>5. newPrev
      BY <1>13, <2>2, <3>1 DEF UnlinkLast
    <3> QED
      BY <3>3, <3>4, <3>5
  <2>3. CASE UnlinkMiddle(curr[c])
    <3>1. k # 1 /\ k # Len(chain)
      BY <1>2, <1>12, <2>3 DEF UnlinkMiddle
    <3>2. prev[chain[k]] = chain[k - 1] /\ next[chain[k]] = chain[k + 1]
      BY <1>9, <3>1
    <3>3. newHead /\ newTail
      BY <2>3, <3>1 DEF UnlinkMiddle
    <3>4. newNext
      BY <1>2, <1>13, <2>3, <3>1, <3>2 DEF UnlinkMiddle
    <3>5. newPrev
      BY <1>2, <1>13, <2>3, <3>1, <3>2 DEF UnlinkMiddle
    <3> QED
      BY <3>3, <3>4, <3>5
  <2> QED
    BY <2>1, <2>2, <2>3 DEF Unlink
<1> QED
  BY <1>2, <1>3, <1>5, <1>8, <1>14

LEMMA UnlinkElsewhere ==
  ASSUME TypeOK, ChainInv, ClientInv, PlaceInv, RemovalInv, NEW c \in Clients, Unlink(c)
  PROVE  \A n \in Nodes \ Range(chain) : next'[n] = next[n] /\ prev'[n] = prev[n]
<1>1. \A n \in Nodes \ Range(chain) : next'[n] = next[n]
  <2>1. PICK k \in DOMAIN chain :
           next' = [m \in Nodes |-> IF k # 1 /\ m = chain[k - 1] THEN next[chain[k]] ELSE next[m]]
    BY UnlinkFacts
  <2>2. k # 1 => chain[k - 1] \in Range(chain)
    BY ChainFacts
  <2> QED
    BY <2>1, <2>2
<1>2. \A n \in Nodes \ Range(chain) : prev'[n] = prev[n]
  <2>1. PICK k \in DOMAIN chain :
           prev' = [m \in Nodes |-> IF k # Len(chain) /\ m = chain[k + 1]
                                    THEN prev[chain[k]] ELSE prev[m]]
    BY UnlinkFacts
  <2>2. k # Len(chain) => chain[k + 1] \in Range(chain)
    BY ChainFacts
  <2> QED
    BY <2>1, <2>2
<1> QED
  BY <1>1, <1>2

\* The other steps leave the pointers alone, except that the accept loop sets those
\* of a node that was not allocated.
ListStays == UNCHANGED <<head, tail, next, prev, client, chain>>

LEMMA ListFrame ==
  ASSUME [Next]_vars
  PROVE  \/ Create \/ Add
         \/ \E c \in Clients : Unlink(c)
         \/ ListStays
<1>1. CASE MainStep
  BY <1>1 DEF MainStep, StartListener, SweepLock, SweepNode, SweepUnlock, ListStays, list, fields
<1>2. ASSUME NEW c \in Clients, ListenerStep(c) PROVE Unlink(c) \/ ListStays
  BY <1>2 DEF ListenerStep, LeaveLock, Search, DestroyClient, FreeNode, ListStays, list, fields
<1>3. ASSUME NEW w \in Workers, WorkerStep(w) PROVE ListStays
  BY <1>3 DEF WorkerStep, StartMsg, StartListing, FormatFreed, Begin, Load, Visit, Advance, EndMsg, EndListing,
              SendListing, LoseListing, ListStays, list, fields
<1>4. CASE UNCHANGED vars
  BY <1>4 DEF vars, list, fields, ListStays
<1> QED
  BY <1>1, <1>2, <1>3, <1>4 DEF Next

\* The accept loop fills in a node that nobody stands on and that is not linked.
LEMMA CreateFacts ==
  ASSUME TypeOK, MemoryInv, Create
  PROVE  \E n \in Nodes, c \in Clients :
           /\ pc[Main] = "accept" /\ pc[c] = "none"
           /\ n \notin allocated /\ n \notin Range(chain)
           /\ \A d \in Clients : pc[d] \in {"destroy", "free"} => curr[d] # n
           /\ allocated' = allocated \cup {n}
           /\ client' = [client EXCEPT ![n] = c]
           /\ next' = [next EXCEPT ![n] = NULL] /\ prev' = [prev EXCEPT ![n] = NULL]
           /\ curr' = [curr EXCEPT ![Main] = n] /\ pc' = [pc EXCEPT ![Main] = "link"]
<1>1. PICK n \in Nodes \ allocated, c \in Clients \ Connected :
        /\ allocated' = allocated \cup {n}
        /\ client' = [client EXCEPT ![n] = c]
        /\ next' = [next EXCEPT ![n] = NULL]
        /\ prev' = [prev EXCEPT ![n] = NULL]
        /\ curr' = [curr EXCEPT ![Main] = n]
  BY DEF Create
<1>2. pc[Main] = "accept" /\ pc' = [pc EXCEPT ![Main] = "link"]
  BY DEF Create, At, Goto
<1>3. Open
  BY <1>2 DEF Open
<1>4. pc[c] = "none"
  BY DEF Connected
<1>5. n \notin Range(chain) /\ \A d \in Clients : pc[d] \in {"destroy", "free"} => curr[d] # n
  BY <1>3 DEF MemoryInv
<1> QED
  BY <1>1, <1>2, <1>4, <1>5

LEMMA StepChain == IInv /\ [Next]_vars => ChainInv'
<1> SUFFICES ASSUME IInv, [Next]_vars PROVE ChainInv'
  OBVIOUS
<1> USE DEF IInv
<1>1. /\ Len(chain) \in Nat /\ DOMAIN chain = 1 .. Len(chain)
      /\ \A i \in DOMAIN chain : chain[i] \in Nodes
      /\ chain = <<>> <=> Len(chain) = 0
      /\ \A n : n \in Range(chain) <=> \E i \in DOMAIN chain : n = chain[i]
  BY ChainFacts
<1>2. next \in [Nodes -> Nodes \cup {NULL}] /\ prev \in [Nodes -> Nodes \cup {NULL}]
  BY DEF TypeOK
<1>3. CASE Create
  <2>1. PICK n \in Nodes : /\ n \notin Range(chain)
                           /\ next' = [next EXCEPT ![n] = NULL]
                           /\ prev' = [prev EXCEPT ![n] = NULL]
    BY <1>3, CreateFacts
  <2>2. \A i \in DOMAIN chain : next'[chain[i]] = next[chain[i]] /\ prev'[chain[i]] = prev[chain[i]]
    BY <1>1, <1>2, <2>1
  <2>3. UNCHANGED <<head, tail, chain>>
    BY <1>3 DEF Create
  <2> QED
    BY <2>2, <2>3 DEF ChainInv
<1>4. CASE Add
  <2> DEFINE n == curr[Main]
             k == Len(chain)
  <2>1. /\ n \in Nodes /\ n \notin Range(chain)
        /\ chain' \in Seq(Nodes) /\ Len(chain') = k + 1 /\ DOMAIN chain' = 1 .. k + 1
        /\ \A i \in 1 .. k : chain'[i] = chain[i]
        /\ chain'[k + 1] = n
        /\ head' = IF chain = <<>> THEN n ELSE head
        /\ tail' = n
        /\ next' = [m \in Nodes |-> IF chain # <<>> /\ m = chain[k] THEN n ELSE next[m]]
        /\ prev' = [m \in Nodes |-> IF chain # <<>> /\ m = n THEN chain[k] ELSE prev[m]]
    BY <1>4, AddFacts
  <2>2. next[n] = NULL /\ prev[n] = NULL
    BY <1>4 DEF MainInv, Add, At
  <2> HIDE DEF n
  <2>3. \A i, j \in DOMAIN chain' : chain'[i] = chain'[j] => i = j
    <3>1. \A i \in 1 .. k : chain[i] # n
      BY <1>1, <2>1
    <3>2. \A i \in 1 .. k + 1 : i \in 1 .. k \/ i = k + 1
      BY <1>1
    <3>3. \A i, j \in 1 .. k : chain[i] = chain[j] => i = j
      BY <1>1 DEF ChainInv
    <3> QED
      BY <2>1, <3>1, <3>2, <3>3
  <2>4. chain' # <<>>
    <3>1. Len(chain') # 0
      BY <1>1, <2>1
    <3> QED
      BY <2>1, <3>1, EmptySeq
  <2>5. head' = chain'[1]
    <3>1. CASE chain = <<>>
      BY <1>1, <2>1, <3>1
    <3>2. CASE chain # <<>>
      <4>1. 1 \in 1 .. k
        BY <1>1, <3>2
      <4> QED
        BY <2>1, <3>2, <4>1 DEF ChainInv
    <3> QED
      BY <3>1, <3>2
  <2>6. ASSUME NEW i \in DOMAIN chain'
        PROVE  /\ next'[chain'[i]] = IF i = Len(chain') THEN NULL ELSE chain'[i + 1]
               /\ prev'[chain'[i]] = IF i = 1 THEN NULL ELSE chain'[i - 1]
    <3>1. CASE i = k + 1
      <4>1. \A j \in DOMAIN chain : chain[j] # n
        BY <1>1, <2>1
      <4>2. chain # <<>> => k \in DOMAIN chain /\ chain[k] # n /\ k \in 1 .. k
        BY <1>1, <4>1
      <4>3. next'[n] = NULL
        BY <2>1, <2>2, <4>2
      <4>4. prev'[n] = IF chain # <<>> THEN chain[k] ELSE NULL
        BY <2>1, <2>2
      <4>5. chain = <<>> <=> i = 1
        BY <1>1, <3>1
      <4>6. chain # <<>> => chain'[i - 1] = chain[k]
        BY <1>1, <2>1, <3>1, <4>2
      <4> QED
        BY <2>1, <3>1, <4>3, <4>4, <4>5, <4>6
    <3>2. CASE i # k + 1
      <4>1. i \in 1 .. k /\ i \in DOMAIN chain /\ chain # <<>>
        BY <1>1, <2>1, <3>2
      <4>2. chain'[i] = chain[i] /\ chain[i] \in Nodes /\ chain[i] # n
        BY <1>1, <2>1, <4>1
      <4>3. prev'[chain[i]] = IF i = 1 THEN NULL ELSE chain[i - 1]
        BY <2>1, <4>1, <4>2 DEF ChainInv
      <4>4. i # 1 => chain'[i - 1] = chain[i - 1]
        BY <1>1, <2>1, <4>1
      <4>5. chain[i] = chain[k] <=> i = k
        BY <1>1, <4>1 DEF ChainInv
      <4>6. next'[chain[i]] = IF i = k THEN n ELSE next[chain[i]]
        BY <2>1, <4>1, <4>2, <4>5
      <4>7. i # k => next[chain[i]] = chain[i + 1] /\ chain'[i + 1] = chain[i + 1]
        <5>1. i # k => i + 1 \in 1 .. k
          BY <1>1, <4>1
        <5> QED
          BY <2>1, <4>1, <5>1 DEF ChainInv
      <4> QED
        BY <1>1, <2>1, <3>2, <4>2, <4>3, <4>4, <4>6, <4>7
    <3> QED
      BY <3>1, <3>2
  <2> QED
    BY <2>1, <2>3, <2>4, <2>5, <2>6 DEF ChainInv
<1>5. ASSUME NEW c \in Clients, Unlink(c) PROVE ChainInv'
  <2> DEFINE len == Len(chain)
  <2>1. PICK k \in DOMAIN chain :
           /\ chain' \in Seq(Nodes) /\ Len(chain') = len - 1
           /\ DOMAIN chain' = 1 .. len - 1
           /\ \A i \in 1 .. len - 1 : chain'[i] = IF i < k THEN chain[i] ELSE chain[i + 1]
           /\ head' = IF k = 1 THEN next[chain[1]] ELSE head
           /\ tail' = IF k # 1 /\ k = len THEN chain[k - 1] ELSE tail
           /\ next' = [m \in Nodes |-> IF k # 1 /\ m = chain[k - 1] THEN next[chain[k]] ELSE next[m]]
           /\ prev' = [m \in Nodes |-> IF k # len /\ m = chain[k + 1] THEN prev[chain[k]] ELSE prev[m]]
    <3>1. TypeOK /\ ChainInv /\ ClientInv /\ PlaceInv /\ RemovalInv
      OBVIOUS
    <3> HIDE DEF IInv
    <3> QED
      BY <1>5, <3>1, UnlinkFacts
  <2>2. \A i, j \in 1 .. len : chain[i] = chain[j] => i = j
    BY <1>1 DEF ChainInv
  <2>3. \A i \in 1 .. len :
           /\ next[chain[i]] = IF i = len THEN NULL ELSE chain[i + 1]
           /\ prev[chain[i]] = IF i = 1 THEN NULL ELSE chain[i - 1]
           /\ chain[i] \in Nodes
    BY <1>1 DEF ChainInv
  <2>4. k \in 1 .. len /\ len \in Nat
    BY <1>1
  <2>5. head = chain[1] /\ tail = chain[len]
    BY <1>1, <2>4 DEF ChainInv
  <2>6. chain' = <<>> <=> len = 1
    <3>1. Len(chain') = 0 <=> len = 1
      BY <2>1, <2>4
    <3> QED
      BY <2>1, <3>1, EmptySeq
  <2> HIDE DEF len
  <2>7. \A i, j \in DOMAIN chain' : chain'[i] = chain'[j] => i = j
    <3> SUFFICES ASSUME NEW i \in 1 .. len - 1, NEW j \in 1 .. len - 1, chain'[i] = chain'[j]
                 PROVE  i = j
      BY <2>1
    <3>1. /\ i \in 1 .. len /\ i + 1 \in 1 .. len
          /\ j \in 1 .. len /\ j + 1 \in 1 .. len
      BY <2>4
    <3>2. (IF i < k THEN chain[i] ELSE chain[i + 1]) = (IF j < k THEN chain[j] ELSE chain[j + 1])
      BY <2>1
    <3> QED
      BY <2>2, <2>4, <3>1, <3>2
  <2>8. head' = IF chain' = <<>> THEN NULL ELSE chain'[1]
    <3>1. CASE len = 1
      BY <2>1, <2>3, <2>4, <2>6, <3>1
    <3>2. CASE len # 1
      <4>1. 1 \in 1 .. len - 1 /\ 1 \in 1 .. len
        BY <2>4, <3>2
      <4>2. chain'[1] = IF 1 < k THEN chain[1] ELSE chain[1 + 1]
        BY <2>1, <4>1
      <4>3. next[chain[1]] = chain[1 + 1]
        BY <2>3, <3>2, <4>1
      <4>4. k # 1 <=> 1 < k
        BY <2>4
      <4> QED
        BY <2>1, <2>5, <2>6, <3>2, <4>2, <4>3, <4>4
    <3> QED
      BY <3>1, <3>2
  <2>9. chain' # <<>> => tail' = chain'[Len(chain')]
    <3> SUFFICES ASSUME len # 1 PROVE tail' = chain'[len - 1]
      BY <2>1, <2>6
    <3>1. len - 1 \in 1 .. len - 1
      BY <2>4
    <3>2. chain'[len - 1] = IF len - 1 < k THEN chain[len - 1] ELSE chain[len - 1 + 1]
      BY <2>1, <3>1
    <3>3. (len - 1 < k <=> k = len) /\ len - 1 + 1 = len
      BY <2>4
    <3>4. k = len => k # 1 /\ k - 1 = len - 1
      BY <2>4
    <3> QED
      BY <2>1, <2>5, <3>2, <3>3, <3>4
  <2>10. ASSUME NEW i \in DOMAIN chain'
         PROVE  /\ next'[chain'[i]] = IF i = Len(chain') THEN NULL ELSE chain'[i + 1]
                /\ prev'[chain'[i]] = IF i = 1 THEN NULL ELSE chain'[i - 1]
    <3>1. /\ i \in 1 .. len - 1 /\ i \in 1 .. len /\ i + 1 \in 1 .. len
          /\ chain[i] \in Nodes /\ chain[i + 1] \in Nodes
      BY <2>1, <2>3, <2>4
    <3>2. CASE i < k
      <4>1. chain'[i] = chain[i]
        BY <2>1, <3>1, <3>2
      <4>2. k # 1 /\ k - 1 \in 1 .. len /\ (chain[i] = chain[k - 1] <=> i = k - 1)
        BY <2>2, <2>4, <3>1, <3>2
      <4>3. next'[chain[i]] = IF i = k - 1 THEN next[chain[k]] ELSE next[chain[i]]
        BY <2>1, <3>1, <4>2
      <4>4. k # len => k + 1 \in 1 .. len /\ chain[i] # chain[k + 1]
        BY <2>2, <2>4, <3>1, <3>2
      <4>5. prev'[chain[i]] = prev[chain[i]]
        BY <2>1, <3>1, <4>4
      <4>6. i # 1 => chain'[i - 1] = chain[i - 1]
        <5>1. i # 1 => i - 1 \in 1 .. len - 1 /\ i - 1 < k
          BY <2>4, <3>1, <3>2
        <5> QED
          BY <2>1, <5>1
      <4>7. next'[chain[i]] = IF i = len - 1 THEN NULL ELSE chain'[i + 1]
        <5>1. i # len - 1 => i + 1 \in 1 .. len - 1
          BY <2>4, <3>1
        <5>2. i # len - 1 => chain'[i + 1] = IF i + 1 < k THEN chain[i + 1] ELSE chain[i + 1 + 1]
          BY <2>1, <5>1
        <5>3. CASE i = k - 1
          <6>1. ~(i + 1 < k) /\ i + 1 = k /\ (i = len - 1 <=> k = len)
            BY <2>4, <3>1, <5>3
          <6> QED
            BY <2>3, <2>4, <4>3, <5>2, <5>3, <6>1
        <5>4. CASE i # k - 1
          <6>1. i + 1 < k /\ i # len /\ i # len - 1
            BY <2>4, <3>1, <3>2, <5>4
          <6> QED
            BY <2>3, <3>1, <4>3, <5>2, <5>4, <6>1
        <5> QED
          BY <5>3, <5>4
      <4>8. prev[chain[i]] = IF i = 1 THEN NULL ELSE chain[i - 1]
        BY <2>3, <3>1
      <4> QED
        BY <2>1, <4>1, <4>5, <4>6, <4>7, <4>8
    <3>3. CASE ~(i < k)
      <4>1. chain'[i] = chain[i + 1]
        BY <2>1, <3>1, <3>3
      <4>2. k # 1 => k - 1 \in 1 .. len /\ chain[i + 1] # chain[k - 1]
        BY <2>2, <2>4, <3>1, <3>3
      <4>3. next'[chain[i + 1]] = next[chain[i + 1]]
        BY <2>1, <3>1, <4>2
      <4>4. k # len /\ k + 1 \in 1 .. len /\ (chain[i + 1] = chain[k + 1] <=> i = k)
        BY <2>2, <2>4, <3>1, <3>3
      <4>5. prev'[chain[i + 1]] = IF i = k THEN prev[chain[k]] ELSE prev[chain[i + 1]]
        BY <2>1, <3>1, <4>4
      <4>6. next'[chain[i + 1]] = IF i = len - 1 THEN NULL ELSE chain'[i + 1]
        <5>1. i # len - 1 => i + 1 \in 1 .. len - 1 /\ ~(i + 1 < k)
          BY <2>4, <3>1, <3>3
        <5>2. i # len - 1 => chain'[i + 1] = chain[i + 1 + 1]
          BY <2>1, <5>1
        <5>3. i = len - 1 <=> i + 1 = len
          BY <2>4, <3>1
        <5> QED
          BY <2>3, <3>1, <4>3, <5>2, <5>3
      <4>7. prev'[chain[i + 1]] = IF i = 1 THEN NULL ELSE chain'[i - 1]
        <5>1. prev[chain[i + 1]] = chain[i]
          <6>1. i + 1 # 1 /\ i + 1 - 1 = i
            BY <3>1
          <6> QED
            BY <2>3, <3>1, <6>1
        <5>2. CASE i = k
          <6>1. i # 1 => i - 1 \in 1 .. len - 1 /\ i - 1 < k
            BY <2>4, <3>1, <5>2
          <6>2. i # 1 => chain'[i - 1] = chain[i - 1]
            BY <2>1, <6>1
          <6> QED
            BY <2>3, <2>4, <4>5, <5>2, <6>2
        <5>3. CASE i # k
          <6>1. i # 1 /\ i - 1 \in 1 .. len - 1 /\ ~(i - 1 < k) /\ i - 1 + 1 = i
            BY <2>4, <3>1, <3>3, <5>3
          <6>2. chain'[i - 1] = chain[i - 1 + 1]
            BY <2>1, <6>1
          <6> QED
            BY <4>5, <5>1, <5>3, <6>1, <6>2
        <5> QED
          BY <5>2, <5>3
      <4> QED
        BY <2>1, <4>1, <4>6, <4>7
    <3> QED
      BY <3>2, <3>3
  <2> QED
    BY <2>7, <2>8, <2>9, <2>10 DEF ChainInv
<1>6. CASE ListStays
  BY <1>6 DEF ListStays, ChainInv
<1> QED
  BY <1>3, <1>4, <1>5, <1>6, ListFrame

\* The thread of a step is the only one whose place changes, except that the accept
\* loop starts a listener.
LEMMA StepMutex == IInv /\ [Next]_vars => MutexInv'
<1> SUFFICES ASSUME IInv, [Next]_vars PROVE MutexInv'
  OBVIOUS
<1> USE DEF IInv
<1>1. /\ pc \in [Threads -> MainLabels \cup ListenerLabels \cup WorkerLabels]
      /\ \A w \in Workers : pc[w] \in WorkerLabels
  BY DEF TypeOK
<1>2. /\ Main \in Threads /\ Main \notin Clients /\ Main \notin Workers
      /\ \A c \in Clients : c \in Threads /\ c \notin Workers
      /\ \A w \in Workers : w \in Threads /\ w \notin Clients
      /\ NULL \notin Threads
  BY Labels
<1>3. CASE MainStep
  <2>1. CASE Create
    BY <1>1, <1>2, <2>1 DEF Create, At, Goto, MutexInv, Open
  <2>2. CASE Add
    BY <1>1, <1>2, <2>2 DEF Add, At, Goto, MutexInv, Open
  <2>3. CASE StartListener
    <3>1. client[curr[Main]] \in Clients \cup {NULL} /\ curr[Main] # NULL /\ pc[client[curr[Main]]] = "none"
      BY <1>2, <2>3 DEF StartListener, At, TypeOK, MainInv
    <3>2. client[curr[Main]] \in Clients
      BY <1>2, <3>1 DEF ClientInv
    <3> QED
      BY <1>1, <1>2, <2>3, <3>1, <3>2 DEF StartListener, At, MutexInv, Open
  <2>4. CASE SweepLock
    BY <1>1, <1>2, <2>4 DEF SweepLock, Lock, At, Goto, MutexInv, Open
  <2>5. CASE SweepNode
    BY <1>1, <1>2, <2>5 DEF SweepNode, At, MutexInv, Open
  <2>6. CASE SweepUnlock
    BY <1>1, <1>2, <2>6 DEF SweepUnlock, At, Goto, MutexInv, Open
  <2> QED
    BY <1>3, <2>1, <2>2, <2>3, <2>4, <2>5, <2>6 DEF MainStep
<1>4. ASSUME NEW c \in Clients, ListenerStep(c) PROVE MutexInv'
  <2>1. CASE LeaveLock(c)
    BY <1>1, <1>2, <2>1 DEF LeaveLock, Lock, At, Goto, MutexInv, Open
  <2>2. CASE Search(c)
    BY <1>1, <1>2, <2>2 DEF Search, At, Goto, MutexInv, Open
  <2>3. CASE Unlink(c)
    BY <1>1, <1>2, <2>3 DEF Unlink, At, Goto, MutexInv, Open
  <2>4. CASE DestroyClient(c)
    BY <1>1, <1>2, <2>4 DEF DestroyClient, At, Goto, MutexInv, Open
  <2>5. CASE FreeNode(c)
    BY <1>1, <1>2, <2>5 DEF FreeNode, At, Goto, MutexInv, Open
  <2> QED
    BY <1>4, <2>1, <2>2, <2>3, <2>4, <2>5 DEF ListenerStep
<1>5. ASSUME NEW w \in Workers, WorkerStep(w) PROVE MutexInv'
  <2>1. CASE StartMsg(w)
    BY <1>1, <1>2, <2>1 DEF StartMsg, Begin, At, Goto, MutexInv, Open
  <2>2. CASE StartListing(w)
    BY <1>1, <1>2, <2>2 DEF StartListing, Lock, Begin, At, Goto, MutexInv, Open
  <2>3. CASE Load(w) \/ Visit(w)
    BY <1>1, <1>2, <2>3 DEF Load, Visit, At, Goto, MutexInv, Open
  <2>4. CASE Advance(w)
    BY <1>1, <1>2, <2>4 DEF Advance, At, Goto, MutexInv, Open
  <2>5. CASE EndMsg(w)
    BY <1>1, <1>2, <2>5 DEF EndMsg, At, Goto, MutexInv, Open
  <2>6. CASE EndListing(w)
    BY <1>1, <1>2, <2>6 DEF EndListing, At, Goto, MutexInv, Open
  <2>7. CASE SendListing(w) \/ LoseListing(w) \/ FormatFreed(w)
    BY <1>1, <1>2, <2>7 DEF SendListing, LoseListing, FormatFreed, list, At, Goto, MutexInv, Open
  <2> QED
    BY <1>5, <2>1, <2>2, <2>3, <2>4, <2>5, <2>6, <2>7 DEF WorkerStep
<1>6. CASE UNCHANGED vars
  BY <1>6 DEF vars, MutexInv, Open
<1> QED
  BY <1>3, <1>4, <1>5, <1>6 DEF Next

\* The nodes a thread can come to, from the head or along a pointer.
LEMMA Reached ==
  ASSUME TypeOK, ChainInv, ClientInv
  PROVE  /\ head # NULL => head \in Nodes /\ client[head] # NULL
         /\ \A n \in Nodes : next[n] # NULL => next[n] \in Nodes /\ client[next[n]] # NULL
         /\ \A n \in Nodes : client[n] # NULL => client[n] \in Clients
         /\ \A i \in DOMAIN chain : chain[i] \in Nodes /\ client[chain[i]] \in Clients
         /\ \A t \in Threads : curr[t] # NULL => curr[t] \in Nodes /\ client[curr[t]] \in Clients
<1>1. \A i \in DOMAIN chain : chain[i] \in Nodes /\ client[chain[i]] # NULL
  BY ChainFacts DEF ClientInv
<1>2. \A n \in Nodes : client[n] # NULL => client[n] \in Clients
  BY DEF TypeOK
<1>3. head # NULL => head \in Nodes /\ client[head] # NULL
  <2>1. chain # <<>> => 1 \in DOMAIN chain
    BY ChainFacts
  <2> QED
    BY <1>1, <2>1 DEF ChainInv
<1>4. \A n \in Nodes : next[n] # NULL => next[n] \in Nodes /\ client[next[n]] # NULL
  BY DEF TypeOK, ClientInv
<1>5. \A t \in Threads : curr[t] # NULL => curr[t] \in Nodes /\ client[curr[t]] # NULL
  BY DEF TypeOK, ClientInv
<1> QED
  BY <1>1, <1>2, <1>3, <1>4, <1>5

LEMMA StepClient == IInv /\ [Next]_vars => ClientInv'
<1> SUFFICES ASSUME IInv, [Next]_vars PROVE ClientInv'
  OBVIOUS
<1> USE DEF IInv
<1>1. /\ \A i \in DOMAIN chain : chain[i] \in Nodes /\ client[chain[i]] \in Clients
      /\ NULL \notin Nodes /\ NULL \notin Clients
      /\ Main \in Threads /\ Clients \subseteq Threads /\ Workers \subseteq Threads
  BY Reached, Labels
<1>2. /\ next \in [Nodes -> Nodes \cup {NULL}]
      /\ client \in [Nodes -> Clients \cup {NULL}]
      /\ curr \in [Threads -> Nodes \cup {NULL}]
  BY DEF TypeOK
<1>3. CASE Create
  <2>1. PICK n \in Nodes, c \in Clients : /\ client' = [client EXCEPT ![n] = c]
                                          /\ next' = [next EXCEPT ![n] = NULL]
                                          /\ curr' = [curr EXCEPT ![Main] = n]
    BY <1>3, CreateFacts
  <2>2. \A m \in Nodes : client[m] # NULL => client'[m] # NULL
    BY <1>1, <1>2, <2>1
  <2>3. \A m \in Nodes : next'[m] # NULL => client'[m] # NULL /\ client'[next'[m]] # NULL
    <3> SUFFICES ASSUME NEW m \in Nodes, next'[m] # NULL
                 PROVE  client'[m] # NULL /\ client'[next'[m]] # NULL
      OBVIOUS
    <3>1. m # n /\ next'[m] = next[m] /\ next[m] \in Nodes
      BY <1>2, <2>1
    <3> QED
      BY <2>2, <3>1 DEF ClientInv
  <2>4. \A t \in Threads : curr'[t] # NULL => client'[curr'[t]] # NULL
    <3> SUFFICES ASSUME NEW t \in Threads, curr'[t] # NULL PROVE client'[curr'[t]] # NULL
      OBVIOUS
    <3>1. CASE t = Main
      BY <1>1, <1>2, <2>1, <3>1
    <3>2. CASE t # Main
      <4>1. curr'[t] = curr[t] /\ curr[t] \in Nodes
        BY <1>2, <2>1, <3>2
      <4> QED
        BY <2>2, <4>1 DEF ClientInv
    <3> QED
      BY <3>1, <3>2
  <2>5. \A i \in DOMAIN chain : client'[chain[i]] # NULL
    BY <1>1, <2>2
  <2>6. chain' = chain
    BY <1>3 DEF Create
  <2> QED
    BY <2>3, <2>4, <2>5, <2>6 DEF ClientInv
<1>4. CASE Add
  <2> DEFINE n == curr[Main]
             k == Len(chain)
  <2>1. /\ n \in Nodes /\ DOMAIN chain' = 1 .. k + 1
        /\ \A i \in 1 .. k : chain'[i] = chain[i]
        /\ chain'[k + 1] = n
        /\ next' = [m \in Nodes |-> IF chain # <<>> /\ m = chain[k] THEN n ELSE next[m]]
    BY <1>4, AddFacts
  <2>2. client' = client /\ curr' = curr
    BY <1>4 DEF Add
  <2>3. client[n] # NULL
    BY <1>1, <2>1 DEF ClientInv
  <2>4. chain # <<>> => k \in DOMAIN chain
    BY ChainFacts
  <2>5. DOMAIN chain = 1 .. k /\ k \in Nat
    BY ChainFacts
  <2>6. \A i \in DOMAIN chain' : client[chain'[i]] # NULL
    <3>1. \A i \in 1 .. k + 1 : i \in 1 .. k \/ i = k + 1
      BY <2>5
    <3> QED
      BY <1>1, <2>1, <2>3, <2>5, <3>1
  <2> HIDE DEF n
  <2>7. \A m \in Nodes : next'[m] # NULL => client[m] # NULL /\ client[next'[m]] # NULL
    BY <1>1, <2>1, <2>3, <2>4 DEF ClientInv
  <2> QED
    BY <2>2, <2>6, <2>7 DEF ClientInv
<1>5. ASSUME NEW c \in Clients, Unlink(c) PROVE ClientInv'
  <2> DEFINE len == Len(chain)
  <2>1. PICK k \in DOMAIN chain :
           /\ DOMAIN chain' = 1 .. len - 1
           /\ \A i \in 1 .. len - 1 : chain'[i] = IF i < k THEN chain[i] ELSE chain[i + 1]
           /\ next' = [m \in Nodes |-> IF k # 1 /\ m = chain[k - 1] THEN next[chain[k]] ELSE next[m]]
    BY <1>5, UnlinkFacts
  <2>2. client' = client /\ curr' = curr
    BY <1>5 DEF Unlink
  <2>3. DOMAIN chain = 1 .. len /\ len \in Nat
    BY ChainFacts
  <2>4. \A i \in 1 .. len - 1 : i \in DOMAIN chain /\ i + 1 \in DOMAIN chain
    BY <2>3
  <2>5. k # 1 => k - 1 \in DOMAIN chain
    BY <2>3
  <2>6. \A i \in DOMAIN chain' : client[chain'[i]] # NULL
    BY <1>1, <2>1, <2>4
  <2>7. \A m \in Nodes : next'[m] # NULL => client[m] # NULL /\ client[next'[m]] # NULL
    BY <1>1, <2>1, <2>5 DEF ClientInv
  <2> QED
    BY <2>2, <2>6, <2>7 DEF ClientInv
<1>6. CASE ListStays /\ ~Create
  <2>1. \A t \in Threads : \/ curr'[t] = curr[t] \/ curr'[t] = NULL \/ curr'[t] = head
                           \/ curr[t] # NULL /\ curr'[t] = next[curr[t]]
    <3>1. CASE MainStep
      BY <1>2, <1>6, <3>1 DEF MainStep, Add, StartListener, SweepLock, SweepNode, SweepUnlock
    <3>2. ASSUME NEW c \in Clients, ListenerStep(c)
          PROVE  \A t \in Threads : \/ curr'[t] = curr[t] \/ curr'[t] = NULL \/ curr'[t] = head
                                    \/ curr[t] # NULL /\ curr'[t] = next[curr[t]]
      BY <1>1, <1>2, <3>2 DEF ListenerStep, LeaveLock, Search, Unlink, DestroyClient, FreeNode, NodeAfter
    <3>3. ASSUME NEW w \in Workers, WorkerStep(w)
          PROVE  \A t \in Threads : \/ curr'[t] = curr[t] \/ curr'[t] = NULL \/ curr'[t] = head
                                    \/ curr[t] # NULL /\ curr'[t] = next[curr[t]]
      <4>1. pc[w] = "advance" => curr[w] # NULL
        BY DEF WalkInv
      <4> QED
        BY <1>1, <1>2, <3>3, <4>1
           DEF WorkerStep, StartMsg, StartListing, FormatFreed, Begin, Load, Visit, Advance, EndMsg, EndListing,
               SendListing, LoseListing, NodeAfter, At
    <3>4. CASE UNCHANGED vars
      BY <3>4 DEF vars
    <3> QED
      BY <3>1, <3>2, <3>3, <3>4 DEF Next
  <2>2. \A t \in Threads : curr'[t] # NULL => client[curr'[t]] # NULL
    <3>1. /\ head # NULL => client[head] # NULL
          /\ \A n \in Nodes : next[n] # NULL => client[next[n]] # NULL
          /\ \A t \in Threads : curr[t] # NULL => curr[t] \in Nodes /\ client[curr[t]] # NULL
      BY Reached DEF ClientInv
    <3> QED
      BY <2>1, <3>1
  <2> QED
    BY <1>6, <2>2 DEF ListStays, ClientInv
<1> QED
  BY <1>3, <1>4, <1>5, <1>6, ListFrame

\* What a step of a worker leaves to the others.
LEMMA WorkerFrame ==
  ASSUME TypeOK, NEW w \in Workers, WorkerStep(w)
  PROVE  /\ \A t \in Threads \ {w} : curr'[t] = curr[t] /\ pc'[t] = pc[t]
         /\ ListStays /\ UNCHANGED <<allocated, rest, destroyed>>
         /\ \A v \in Workers \ {w} :
              /\ visited'[v] = visited[v] /\ stay'[v] = stay[v] /\ stale'[v] = stale[v]
              /\ target'[v] = target[v] /\ misled'[v] = misled[v] /\ sender'[v] = sender[v]
<1>1. w \in Threads
  BY Labels
<1> QED
  BY <1>1 DEF WorkerStep, StartMsg, StartListing, FormatFreed, Begin, Load, Visit, Advance, EndMsg, EndListing,
              SendListing, LoseListing, Reset, Goto, TypeOK, ListStays, list, fields, walks

LEMMA StepType == IInv /\ [Next]_vars => TypeOK'
<1> SUFFICES ASSUME IInv, [Next]_vars PROVE TypeOK'
  OBVIOUS
<1> USE DEF IInv
<1>1. /\ NULL \notin Nodes /\ NULL \notin Clients
      /\ Main \in Threads /\ Clients \subseteq Threads /\ Workers \subseteq Threads
      /\ Main \notin Clients /\ Main \notin Workers /\ Clients \cap Workers = {}
  BY Labels
<1>2. /\ head # NULL => head \in Nodes
      /\ \A n \in Nodes : next[n] # NULL => next[n] \in Nodes
      /\ \A i \in DOMAIN chain : chain[i] \in Nodes /\ client[chain[i]] \in Clients
      /\ \A t \in Threads : curr[t] # NULL => curr[t] \in Nodes /\ client[curr[t]] \in Clients
  BY Reached
<1> USE DEF TypeOK
\* The list.
<1>3. /\ head' \in Nodes \cup {NULL} /\ tail' \in Nodes \cup {NULL}
      /\ next' \in [Nodes -> Nodes \cup {NULL}]
      /\ prev' \in [Nodes -> Nodes \cup {NULL}]
      /\ client' \in [Nodes -> Clients \cup {NULL}]
      /\ chain' \in Seq(Nodes)
  <2>1. CASE Create
    BY <2>1, CreateFacts DEF Create
  <2>2. CASE Add
    <3>1. LET n == curr[Main]
              k == Len(chain)
          IN  /\ n \in Nodes /\ chain' \in Seq(Nodes)
              /\ head' = IF chain = <<>> THEN n ELSE head
              /\ tail' = n
              /\ next' = [m \in Nodes |-> IF chain # <<>> /\ m = chain[k] THEN n ELSE next[m]]
              /\ prev' = [m \in Nodes |-> IF chain # <<>> /\ m = n THEN chain[k] ELSE prev[m]]
      BY <2>2, AddFacts
    <3>2. chain # <<>> => chain[Len(chain)] \in Nodes
      BY ChainFacts
    <3>3. client' = client
      BY <2>2 DEF Add
    <3>4. chain' \in Seq(Nodes) /\ head' \in Nodes \cup {NULL} /\ tail' \in Nodes \cup {NULL}
      BY <3>1
    <3>5. next' \in [Nodes -> Nodes \cup {NULL}]
      BY <3>1
    <3>6. prev' \in [Nodes -> Nodes \cup {NULL}]
      BY <3>1, <3>2
    <3> QED
      BY <3>3, <3>4, <3>5, <3>6
  <2>3. ASSUME NEW c \in Clients, Unlink(c)
        PROVE  /\ head' \in Nodes \cup {NULL} /\ tail' \in Nodes \cup {NULL}
               /\ next' \in [Nodes -> Nodes \cup {NULL}]
               /\ prev' \in [Nodes -> Nodes \cup {NULL}]
               /\ client' \in [Nodes -> Clients \cup {NULL}]
               /\ chain' \in Seq(Nodes)
    <3> HIDE DEF TypeOK
    <3>1. PICK k \in DOMAIN chain :
           /\ chain' \in Seq(Nodes)
           /\ head' = IF k = 1 THEN next[chain[1]] ELSE head
           /\ tail' = IF k # 1 /\ k = Len(chain) THEN chain[k - 1] ELSE tail
           /\ next' = [m \in Nodes |-> IF k # 1 /\ m = chain[k - 1] THEN next[chain[k]] ELSE next[m]]
           /\ prev' = [m \in Nodes |-> IF k # Len(chain) /\ m = chain[k + 1]
                                       THEN prev[chain[k]] ELSE prev[m]]
      BY <2>3, UnlinkFacts
    <3>2. k # 1 => k - 1 \in DOMAIN chain
      BY ChainFacts
    <3>3. client' = client
      BY <2>3 DEF Unlink
    <3> USE DEF TypeOK
    <3>4. head' \in Nodes \cup {NULL} /\ tail' \in Nodes \cup {NULL}
      BY <1>2, <3>1, <3>2
    <3>5. next' \in [Nodes -> Nodes \cup {NULL}]
      BY <1>2, <3>1
    <3>6. prev' \in [Nodes -> Nodes \cup {NULL}]
      BY <1>2, <3>1
    <3> QED
      BY <3>1, <3>3, <3>4, <3>5, <3>6
  <2>4. CASE ListStays
    BY <2>4 DEF ListStays
  <2> QED
    BY <2>1, <2>2, <2>3, <2>4, ListFrame
\* The threads.
<1> DEFINE PcType(p) == /\ p \in [Threads -> MainLabels \cup ListenerLabels \cup WorkerLabels]
                        /\ p[Main] \in MainLabels
                        /\ \A c \in Clients : p[c] \in ListenerLabels
                        /\ \A w \in Workers : p[w] \in WorkerLabels
           Locals == /\ mutex' \in Threads \cup {NULL}
                     /\ curr' \in [Threads -> Nodes \cup {NULL}]
                     /\ rest' \in Nodes \cup {NULL}
                     /\ destroyed' \in SUBSET Clients
                     /\ allocated' \in SUBSET Nodes
           Spots == place' \in [Clients -> Places \cup {NULL}]
           Aims == /\ target' \in [Workers -> Clients \cup {NULL}]
                   /\ sender' \in [Workers -> Clients \cup {NULL}]
                   /\ misled' \in [Workers -> SUBSET Clients]
           Walks == /\ visited' \in [Workers -> Seq(Clients)]
                    /\ stay' \in [Workers -> SUBSET Clients]
                    /\ stale' \in [Workers -> BOOLEAN]
           Quiet == UNCHANGED walks
<1>4. PcType(pc)
  OBVIOUS
<1>5. CASE MainStep
  <2>1. PcType(pc')
    <3>1. CASE StartListener
      <4>1. client[curr[Main]] \in Clients
        BY <1>1, <1>2, <3>1 DEF StartListener, At, MainInv
      <4> QED
        BY <1>1, <3>1, <4>1 DEF StartListener, MainLabels, ListenerLabels
    <3>2. CASE Create \/ Add \/ SweepLock \/ SweepNode \/ SweepUnlock
      <4>1. pc' = pc \/ \E l \in MainLabels : pc' = [pc EXCEPT ![Main] = l]
        BY <3>2 DEF Create, Add, SweepLock, SweepNode, SweepUnlock, Goto, MainLabels
      <4>2. CASE pc' = pc
        BY <1>4, <4>2
      <4>3. CASE \E l \in MainLabels : pc' = [pc EXCEPT ![Main] = l]
        BY <1>1, <4>3
      <4> QED
        BY <4>1, <4>2, <4>3
    <3> QED
      BY <1>5, <3>1, <3>2 DEF MainStep
  <2>2. Locals
    <3>1. CASE SweepNode
      <4>1. curr[Main] # NULL
        BY <1>1, <1>2, <3>1, ChainFacts DEF SweepNode, At, MainInv
      <4> QED
        BY <1>1, <1>2, <3>1, <4>1 DEF SweepNode, NodeFreed
    <3>2. CASE Create \/ Add \/ StartListener \/ SweepLock \/ SweepUnlock
      <4>1. \/ curr' = curr
            \/ \E n \in Nodes \cup {NULL} : curr' = [curr EXCEPT ![Main] = n]
        BY <1>1, <1>2, <3>2 DEF Create, Add, StartListener, SweepLock, SweepUnlock
      <4>3. curr' \in [Threads -> Nodes \cup {NULL}]
        BY <4>1
      <4>2. mutex' \in Threads \cup {NULL}
        BY <1>1, <3>2 DEF Create, Add, StartListener, SweepLock, SweepUnlock, Lock
      <4> QED
        BY <1>1, <1>2, <3>2, <4>2, <4>3 DEF Create, Add, StartListener, SweepLock, SweepUnlock, list
    <3> QED
      BY <1>5, <3>1, <3>2 DEF MainStep
  <2>3. Quiet
    BY <1>5 DEF MainStep, Create, Add, StartListener, SweepLock, SweepNode, SweepUnlock
  <2>4. crashed' \in BOOLEAN
    BY <1>5 DEF MainStep, Create, Add, StartListener, SweepLock, SweepNode, SweepUnlock, Touch
  <2>5. Spots
    BY <1>5 DEF MainStep, Create, Add, StartListener, SweepLock, SweepNode, SweepUnlock, FreePlaces
  <2> QED
    BY <1>3, <2>1, <2>2, <2>3, <2>4, <2>5 DEF walks
<1>6. ASSUME NEW c \in Clients, ListenerStep(c) PROVE TypeOK'
  <2>1. PcType(pc')
    <3>1. pc' = pc \/ \E l \in ListenerLabels : pc' = [pc EXCEPT ![c] = l]
      BY <1>6 DEF ListenerStep, LeaveLock, Search, Unlink, DestroyClient, FreeNode, Goto,
                  ListenerLabels
    <3>2. CASE pc' = pc
      BY <1>4, <3>2
    <3>3. CASE \E l \in ListenerLabels : pc' = [pc EXCEPT ![c] = l]
      BY <1>1, <3>3
    <3> QED
      BY <3>1, <3>2, <3>3
  <2>2. Locals
    <3>1. curr' \in [Threads -> Nodes \cup {NULL}]
      BY <1>1, <1>2, <1>6 DEF ListenerStep, LeaveLock, Search, Unlink, DestroyClient, FreeNode, NodeAfter
    <3>2. mutex' \in Threads \cup {NULL}
      BY <1>1, <1>6 DEF ListenerStep, LeaveLock, Search, Unlink, DestroyClient, FreeNode, Lock
    <3>3. destroyed' \in SUBSET Clients /\ rest' \in Nodes \cup {NULL} /\ allocated' \in SUBSET Nodes
      BY <1>1, <1>6 DEF ListenerStep, LeaveLock, Search, Unlink, DestroyClient, FreeNode, NodeFreed, list
    <3> QED
      BY <3>1, <3>2, <3>3
  <2>3. Walks
    <3>1. visited' = visited
      BY <1>6 DEF ListenerStep, LeaveLock, Search, Unlink, DestroyClient, FreeNode, walks
    <3>2. stay' = stay \/ stay' = [w \in Workers |-> stay[w] \ {c}]
      BY <1>6 DEF ListenerStep, LeaveLock, Search, Unlink, DestroyClient, FreeNode, walks
    <3>3. stale' = stale \/ stale' = Stale(curr[c])
      BY <1>6 DEF ListenerStep, LeaveLock, Search, Unlink, DestroyClient, FreeNode, walks
    <3>4. Stale(curr[c]) \in [Workers -> BOOLEAN]
      BY DEF Stale
    <3> QED
      BY <3>1, <3>2, <3>3, <3>4
  <2>4. crashed' \in BOOLEAN
    BY <1>6 DEF ListenerStep, LeaveLock, Search, Unlink, DestroyClient, FreeNode, Touch
  <2>5. Spots /\ Aims
    BY <1>6 DEF ListenerStep, LeaveLock, Search, Unlink, DestroyClient, FreeNode, walks
  <2> QED
    BY <1>3, <2>1, <2>2, <2>3, <2>4, <2>5
<1>7. ASSUME NEW w \in Workers, WorkerStep(w) PROVE TypeOK'
  <2>1. PcType(pc')
    <3>1. pc' = pc \/ \E l \in WorkerLabels : pc' = [pc EXCEPT ![w] = l]
      BY <1>7 DEF WorkerStep, StartMsg, StartListing, FormatFreed, Begin, Load, Visit, Advance, EndMsg, EndListing,
                  SendListing, LoseListing, Goto, WorkerLabels
    <3>2. CASE pc' = pc
      BY <1>4, <3>2
    <3>3. CASE \E l \in WorkerLabels : pc' = [pc EXCEPT ![w] = l]
      BY <1>1, <3>3
    <3> QED
      BY <3>1, <3>2, <3>3
  <2>2. Locals
    <3>1. pc[w] = "advance" => curr[w] # NULL
      BY DEF WalkInv
    <3> QED
      <4>1. \/ curr' = curr
            \/ \E n \in Nodes \cup {NULL} : curr' = [curr EXCEPT ![w] = n]
        BY <1>1, <1>2, <1>7, <3>1
           DEF WorkerStep, StartMsg, StartListing, FormatFreed, Begin, Load, Visit, Advance, EndMsg,
               EndListing, SendListing, LoseListing, NodeAfter, At
      <4>4. curr' \in [Threads -> Nodes \cup {NULL}]
        BY <4>1
      <4>2. mutex' \in Threads \cup {NULL}
        BY <1>1, <1>7
           DEF WorkerStep, StartMsg, StartListing, FormatFreed, Begin, Load, Visit, Advance, EndMsg,
               EndListing, SendListing, LoseListing, Lock
      <4>3. UNCHANGED <<rest, destroyed, allocated>>
        BY <1>7, WorkerFrame
      <4> QED
        BY <4>2, <4>3, <4>4
  <2>3. visited' \in [Workers -> Seq(Clients)]
    <3>1. CASE Visit(w)
      <4>1. target[w] \in Clients /\ visited[w] \in Seq(Clients)
        BY <1>1, <1>2, <3>1 DEF Visit, At, TargetInv
      <4>2. Append(visited[w], target[w]) \in Seq(Clients)
        BY <4>1, AppendProperties
      <4> QED
        BY <3>1, <4>2 DEF Visit
    <3>2. CASE ~Visit(w)
      <4>1. <<>> \in Seq(Clients)
        BY EmptySeq
      <4> QED
        BY <1>7, <3>2, <4>1
           DEF WorkerStep, StartMsg, StartListing, FormatFreed, Begin, Load, Advance, EndMsg, EndListing, SendListing, LoseListing,
               Reset, walks
    <3> QED
      BY <3>1, <3>2
  <2>4. stay' \in [Workers -> SUBSET Clients]
    <3>1. Range(Members) \subseteq Clients
      BY <1>2 DEF Members, Range
    <3> QED
      BY <1>7, <3>1 DEF WorkerStep, StartMsg, StartListing, FormatFreed, Begin, Load, Visit, Advance, EndMsg, EndListing,
                        SendListing, LoseListing, Reset, walks
  <2>5. stale' \in [Workers -> BOOLEAN]
    BY <1>7 DEF WorkerStep, StartMsg, StartListing, FormatFreed, Begin, Load, Visit, Advance, EndMsg, EndListing,
                SendListing, LoseListing, Reset, walks
  <2>6. crashed' \in BOOLEAN
    BY <1>7 DEF WorkerStep, StartMsg, StartListing, FormatFreed, Begin, Load, Visit, Advance, EndMsg, EndListing,
                SendListing, LoseListing, Touch
  <2>7. Spots
    BY <1>7 DEF WorkerStep, StartMsg, StartListing, FormatFreed, Begin, Load, Visit, Advance, EndMsg, EndListing,
                SendListing, LoseListing
  <2>8. sender' \in [Workers -> Clients \cup {NULL}]
    BY <1>7 DEF WorkerStep, StartMsg, StartListing, FormatFreed, Begin, Load, Visit, Advance, EndMsg, EndListing,
                SendListing, LoseListing, Reset, Created, walks
  <2>9. target' \in [Workers -> Clients \cup {NULL}]
    <3>1. CASE Load(w)
      <4>1. client[curr[w]] \in Clients
        BY <1>1, <1>2, <3>1 DEF Load
      <4> QED
        BY <3>1, <4>1 DEF Load
    <3>2. CASE ~Load(w)
      BY <1>7, <3>2 DEF WorkerStep, StartMsg, StartListing, FormatFreed, Begin, Visit, Advance, EndMsg,
                        EndListing, SendListing, LoseListing, Reset, walks
    <3> QED
      BY <3>1, <3>2
  <2>10. misled' \in [Workers -> SUBSET Clients]
    <3>1. CASE Visit(w)
      <4>1. Tenants(target[w]) \subseteq Clients
        BY DEF Tenants, Created
      <4> QED
        BY <3>1, <4>1 DEF Visit
    <3>2. CASE ~Visit(w)
      BY <1>7, <3>2 DEF WorkerStep, StartMsg, StartListing, FormatFreed, Begin, Load, Advance, EndMsg,
                        EndListing, SendListing, LoseListing, Reset, walks
    <3> QED
      BY <3>1, <3>2
  <2> QED
    BY <1>3, <2>1, <2>2, <2>3, <2>4, <2>5, <2>6, <2>7, <2>8, <2>9, <2>10
<1>8. CASE UNCHANGED vars
  BY <1>8 DEF vars, list, fields, walks
<1> QED
  BY <1>5, <1>6, <1>7, <1>8 DEF Next

\* What a step of the other threads leaves to the others.
LEMMA MainFrame ==
  ASSUME IInv, MainStep
  PROVE  /\ \A t \in Threads \ {Main} : curr'[t] = curr[t]
         /\ \A w \in Workers : pc'[w] = pc[w]
         /\ ~StartListener => \A c \in Clients : pc'[c] = pc[c]
         /\ UNCHANGED walks
<1>1. Main \in Threads /\ Main \notin Clients /\ Main \notin Workers /\ Clients \cap Workers = {}
      /\ Clients \subseteq Threads /\ Workers \subseteq Threads
  BY Labels
<1>2. ASSUME StartListener PROVE \A w \in Workers : pc'[w] = pc[w]
  <2>1. client[curr[Main]] \notin Workers
    <3>1. curr[Main] # NULL
      BY <1>2 DEF StartListener, At, MainInv, IInv
    <3>2. client[curr[Main]] \in Clients
      BY <1>1, <3>1, Reached DEF IInv
    <3> QED
      BY <1>1, <3>2
  <2> QED
    BY <1>1, <1>2, <2>1 DEF StartListener, TypeOK, IInv
<1> QED
  BY <1>1, <1>2
     DEF MainStep, Create, Add, StartListener, SweepLock, SweepNode, SweepUnlock, Goto, TypeOK, IInv

LEMMA ListenerFrame ==
  ASSUME TypeOK, NEW c \in Clients, ListenerStep(c)
  PROVE  /\ \A t \in Threads \ {c} : curr'[t] = curr[t] /\ pc'[t] = pc[t]
         /\ UNCHANGED <<client, rest, place, target, sender, visited, misled>>
<1>1. c \in Threads
  BY Labels
<1> QED
  BY <1>1 DEF ListenerStep, LeaveLock, Search, Unlink, DestroyClient, FreeNode, Goto, TypeOK,
              list, fields, walks

LEMMA StepMembers == IInv /\ [Next]_vars => MembersInv'
<1> SUFFICES ASSUME IInv, [Next]_vars PROVE MembersInv'
  OBVIOUS
<1> USE DEF IInv
<1>1. /\ Len(chain) \in Nat /\ DOMAIN chain = 1 .. Len(chain)
      /\ \A n : n \in Range(chain) <=> \E i \in DOMAIN chain : n = chain[i]
  BY ChainFacts
<1>2. \A i \in DOMAIN chain : chain[i] \in Nodes /\ client[chain[i]] \in Clients
  BY Reached
<1>3. Main \in Threads /\ Main \notin Clients /\ Clients \cap Workers = {} /\ Main \notin Workers
      /\ Clients \subseteq Threads /\ Workers \subseteq Threads
  BY Labels
<1>4. pc \in [Threads -> MainLabels \cup ListenerLabels \cup WorkerLabels]
  BY DEF TypeOK
<1> DEFINE InList(c) == \E i \in DOMAIN chain : client[chain[i]] = c
           Starting(c) == pc[Main] = "start" /\ c = client[curr[Main]]
\* A step that changes neither the list nor who is in it.
<1>5. ASSUME chain' = chain, \A i \in DOMAIN chain : client'[chain[i]] = client[chain[i]],
             \A c \in Clients : (pc'[c] \in {"listen", "search"} \/ Starting(c)')
                                  <=> (pc[c] \in {"listen", "search"} \/ Starting(c))
      PROVE  MembersInv'
  <2>1. \A c \in Clients : InList(c)' <=> InList(c)
    BY <1>5
  <2> QED
    BY <1>5, <2>1 DEF MembersInv
<1>6. CASE MainStep
  <2>1. CASE Create
    <3>1. PICK n \in Nodes, d \in Clients : /\ pc[Main] = "accept" /\ n \notin Range(chain)
                                            /\ client' = [client EXCEPT ![n] = d]
                                            /\ pc' = [pc EXCEPT ![Main] = "link"]
      BY <2>1, CreateFacts
    <3>2. \A i \in DOMAIN chain : client'[chain[i]] = client[chain[i]]
      BY <1>1, <1>2, <3>1 DEF TypeOK
    <3>3. chain' = chain
      BY <2>1 DEF Create
    <3>4. \A c \in Clients : pc'[c] = pc[c] /\ ~Starting(c)' /\ ~Starting(c)
      BY <1>3, <1>4, <3>1
    <3> QED
      BY <1>5, <3>2, <3>3, <3>4
  <2>2. CASE Add
    <3> DEFINE n == curr[Main]
               k == Len(chain)
    <3>1. /\ n \in Nodes /\ DOMAIN chain' = 1 .. k + 1
          /\ \A i \in 1 .. k : chain'[i] = chain[i]
          /\ chain'[k + 1] = n
      BY <2>2, AddFacts
    <3>2. UNCHANGED <<client, curr>> /\ pc[Main] = "link" /\ pc' = [pc EXCEPT ![Main] = "start"]
      BY <2>2 DEF Add, At, Goto
    <3>3. client[n] \in Clients /\ pc[client[n]] = "none"
      BY <1>3, <3>1, <3>2, Reached DEF MainInv
    <3>4. \A c \in Clients : InList(c) <=> pc[c] \in {"listen", "search"}
      BY <3>2 DEF MembersInv
    <3>5. \A i \in 1 .. k : client[chain[i]] # client[n]
      BY <1>1, <1>2, <3>3, <3>4
    <3>6. \A i \in 1 .. k + 1 : i \in 1 .. k \/ i = k + 1
      BY <1>1
    <3>7. \A c \in Clients : pc'[c] = pc[c] /\ (Starting(c)' <=> c = client[n])
      BY <1>3, <1>4, <3>2
    <3> HIDE DEF n
    <3>8. \A i, j \in 1 .. k : client[chain[i]] = client[chain[j]] => i = j
      BY <1>1 DEF MembersInv
    <3>9. \A i, j \in DOMAIN chain' : client'[chain'[i]] = client'[chain'[j]] => i = j
      BY <3>1, <3>2, <3>5, <3>6, <3>8
    <3>10. \A c \in Clients : InList(c)' <=> InList(c) \/ c = client[n]
      <4>1. k + 1 \in DOMAIN chain' /\ \A i \in DOMAIN chain : i \in DOMAIN chain'
        BY <1>1, <3>1
      <4>2. \A c \in Clients : InList(c)' => InList(c) \/ c = client[n]
        BY <1>1, <3>1, <3>2, <3>6
      <4>3. \A c \in Clients : InList(c) => InList(c)'
        BY <1>1, <3>1, <3>2, <4>1
      <4>4. \A c \in Clients : c = client[n] => InList(c)'
        BY <3>1, <3>2, <4>1
      <4> QED
        BY <4>2, <4>3, <4>4
    <3> QED
      BY <3>4, <3>7, <3>9, <3>10 DEF MembersInv
  <2>3. CASE StartListener
    <3>1. /\ UNCHANGED <<chain, client>> /\ pc[Main] = "start"
          /\ pc' = [pc EXCEPT ![client[curr[Main]]] = "listen", ![Main] = "accept"]
      BY <2>3 DEF StartListener, At, list, fields
    <3>2. client[curr[Main]] \in Clients /\ pc[client[curr[Main]]] = "none"
      BY <1>3, <3>1, Reached DEF MainInv
    <3>3. \A c \in Clients : /\ ~Starting(c)'
                             /\ pc'[c] = IF Starting(c) THEN "listen" ELSE pc[c]
      BY <1>3, <1>4, <3>1, <3>2
    <3> QED
      BY <1>5, <3>1, <3>3
  <2>4. CASE SweepLock \/ SweepNode \/ SweepUnlock
    <3>1. UNCHANGED <<chain, client>> /\ pc[Main] # "start" /\ pc'[Main] # "start"
          /\ \A c \in Clients : pc'[c] = pc[c]
      BY <1>3, <1>4, <2>4 DEF SweepLock, SweepNode, SweepUnlock, At, Goto, list, fields
    <3> QED
      BY <1>5, <3>1
  <2> QED
    BY <1>6, <2>1, <2>2, <2>3, <2>4 DEF MainStep
<1>7. ASSUME NEW c \in Clients, ListenerStep(c) PROVE MembersInv'
  <2>1. /\ \A t \in Threads \ {c} : curr'[t] = curr[t] /\ pc'[t] = pc[t]
        /\ client' = client
    BY <1>7, ListenerFrame
  <2>2. \A d \in Clients : Starting(d)' <=> Starting(d)
    BY <1>3, <2>1
  <2>3. CASE Unlink(c)
    <3> DEFINE len == Len(chain)
    <3>1. PICK k \in DOMAIN chain :
             /\ client[chain[k]] = c
             /\ DOMAIN chain' = 1 .. len - 1
             /\ \A i \in 1 .. len - 1 : chain'[i] = IF i < k THEN chain[i] ELSE chain[i + 1]
      BY <2>3, UnlinkFacts
    <3>2. pc[c] = "search" /\ pc'[c] = "destroy"
      BY <1>3, <1>4, <2>3 DEF Unlink, At, Goto
    <3>3. \A i \in 1 .. len - 1 : i \in 1 .. len /\ i + 1 \in 1 .. len
      BY <1>1
    <3>4. \A i, j \in 1 .. len : client[chain[i]] = client[chain[j]] => i = j
      BY <1>1 DEF MembersInv
    <3>5. k \in 1 .. len /\ len \in Nat
      BY <1>1
    <3> HIDE DEF len
    <3>6. \A i, j \in DOMAIN chain' : client'[chain'[i]] = client'[chain'[j]] => i = j
      <4> SUFFICES ASSUME NEW i \in 1 .. len - 1, NEW j \in 1 .. len - 1,
                          client[chain'[i]] = client[chain'[j]]
                   PROVE  i = j
        BY <2>1, <3>1
      <4>1. (IF i < k THEN client[chain[i]] ELSE client[chain[i + 1]])
              = (IF j < k THEN client[chain[j]] ELSE client[chain[j + 1]])
        BY <3>1
      <4> QED
        BY <3>3, <3>4, <3>5, <4>1
    <3>7. \A d \in Clients : InList(d)' <=> InList(d) /\ d # c
      <4> SUFFICES ASSUME NEW d \in Clients PROVE InList(d)' <=> InList(d) /\ d # c
        OBVIOUS
      <4>1. ASSUME NEW i \in 1 .. len - 1, client[chain'[i]] = d
            PROVE  InList(d) /\ d # c
        <5>1. CASE i < k
          <6>1. client[chain[i]] = d /\ i # k
            BY <3>1, <3>3, <3>5, <4>1, <5>1
          <6> QED
            BY <1>1, <3>1, <3>3, <3>4, <3>5, <6>1 DEF len
        <5>2. CASE ~(i < k)
          <6>1. client[chain[i + 1]] = d /\ i + 1 # k
            BY <3>1, <3>3, <3>5, <4>1, <5>2
          <6> QED
            BY <1>1, <3>1, <3>3, <3>4, <3>5, <6>1 DEF len
        <5> QED
          BY <5>1, <5>2
      <4>2. ASSUME NEW i \in 1 .. len, client[chain[i]] = d, d # c
            PROVE  \E j \in 1 .. len - 1 : client[chain'[j]] = d
        <5>1. i # k
          BY <3>1, <4>2
        <5>2. CASE i < k
          <6>1. i \in 1 .. len - 1
            BY <3>5, <5>2
          <6> QED
            BY <3>1, <4>2, <5>2, <6>1
        <5>3. CASE ~(i < k)
          <6>1. i - 1 \in 1 .. len - 1 /\ ~(i - 1 < k) /\ i - 1 + 1 = i
            BY <3>5, <5>1, <5>3
          <6>2. chain'[i - 1] = chain[i - 1 + 1]
            BY <3>1, <6>1
          <6> QED
            BY <4>2, <6>1, <6>2
        <5> QED
          BY <5>2, <5>3
      <4>3. DOMAIN chain = 1 .. len
        BY <1>1 DEF len
      <4> QED
        BY <2>1, <3>1, <4>1, <4>2, <4>3
    <3>8. \A d \in Clients \ {c} : pc'[d] = pc[d]
      BY <1>3, <2>1
    <3>9. ~Starting(c)
      BY <1>3, <3>2 DEF MainInv
    <3> QED
      BY <2>2, <3>2, <3>6, <3>7, <3>8, <3>9 DEF MembersInv
  <2>4. CASE ~Unlink(c)
    <3>1. pc'[c] \in {"listen", "search"} <=> pc[c] \in {"listen", "search"}
      BY <1>3, <1>4, <1>7, <2>4
         DEF ListenerStep, LeaveLock, Search, DestroyClient, FreeNode, At, Goto
    <3>2. chain' = chain
      BY <1>7, <2>4 DEF ListenerStep, LeaveLock, Search, DestroyClient, FreeNode, list
    <3>3. \A d \in Clients : pc'[d] \in {"listen", "search"} <=> pc[d] \in {"listen", "search"}
      BY <1>3, <2>1, <3>1
    <3> QED
      BY <1>5, <2>1, <2>2, <3>2, <3>3
  <2> QED
    BY <2>3, <2>4
<1>8. ASSUME NEW w \in Workers, WorkerStep(w) PROVE MembersInv'
  <2>1. /\ \A t \in Threads \ {w} : curr'[t] = curr[t] /\ pc'[t] = pc[t]
        /\ client' = client /\ chain' = chain
    BY <1>8, WorkerFrame DEF ListStays
  <2> QED
    BY <1>3, <1>5, <2>1
<1>9. CASE UNCHANGED vars
  BY <1>5, <1>9 DEF vars, list, fields
<1> QED
  BY <1>6, <1>7, <1>8, <1>9 DEF Next

\* Where the list is not changed, it keeps its nodes; a removal takes one away.
LEMMA ChainGrows ==
  ASSUME IInv, [Next]_vars
  PROVE  /\ ListStays \/ Create => Range(chain') = Range(chain)
         /\ Add => Range(chain') = Range(chain) \cup {curr[Main]}
         /\ \A c \in Clients : Unlink(c) => Range(chain') = Range(chain) \ {curr[c]}
<1> USE DEF IInv
<1>1. ListStays \/ Create => Range(chain') = Range(chain)
  BY DEF ListStays, Create
<1>2. Add => Range(chain') = Range(chain) \cup {curr[Main]}
  BY AddFacts
<1>3. ASSUME NEW c \in Clients, Unlink(c) PROVE Range(chain') = Range(chain) \ {curr[c]}
  BY <1>3, UnlinkFacts
<1> QED
  BY <1>1, <1>2, <1>3

\* A new client_s is at the address of no other that a search can meet.
LEMMA StepPlace == IInv /\ [Next]_vars => PlaceInv'
<1> SUFFICES ASSUME IInv, [Next]_vars PROVE PlaceInv'
  OBVIOUS
<1> USE DEF IInv
<1>1. /\ Main \in Threads /\ Main \notin Clients /\ Clients \cap Workers = {} /\ Main \notin Workers
      /\ Clients \subseteq Threads /\ Workers \subseteq Threads
  BY Labels
<1>2. \A i \in DOMAIN chain : chain[i] \in Nodes /\ client[chain[i]] \in Clients
  BY Reached
<1>3. /\ pc \in [Threads -> MainLabels \cup ListenerLabels \cup WorkerLabels]
      /\ curr \in [Threads -> Nodes \cup {NULL}]
      /\ client \in [Nodes -> Clients \cup {NULL}]
      /\ place \in [Clients -> Places \cup {NULL}]
  BY DEF TypeOK
<1>4. /\ Len(chain) \in Nat /\ DOMAIN chain = 1 .. Len(chain)
      /\ \A n : n \in Range(chain) <=> \E i \in DOMAIN chain : n = chain[i]
  BY ChainFacts
\* A step after which nobody is in use who was not.
<1>5. ASSUME place' = place, \A x \in Clients : InUse(x)' => InUse(x) PROVE PlaceInv'
  BY <1>5 DEF PlaceInv
<1>6. ASSUME chain' = chain, client' = client, place' = place, curr'[Main] = curr[Main],
             pc'[Main] = "link" => pc[Main] = "link"
      PROVE  PlaceInv'
  <2>1. \A x \in Clients : InUse(x)' => InUse(x)
    BY <1>6 DEF InUse
  <2> QED
    BY <1>5, <1>6, <2>1
<1>7. CASE MainStep
  <2>1. CASE Create
    <3>1. PICK n \in Nodes \ allocated, e \in Clients \ Connected, p \in FreePlaces :
            /\ place' = [place EXCEPT ![e] = p]
            /\ client' = [client EXCEPT ![n] = e]
            /\ curr' = [curr EXCEPT ![Main] = n]
      BY <2>1 DEF Create
    <3>2. pc[Main] = "accept" /\ chain' = chain /\ Open
      BY <2>1 DEF Create, At, Open
    <3>3. \A i \in DOMAIN chain : chain[i] # n
      BY <1>4, <3>1, <3>2 DEF MemoryInv
    <3>4. curr'[Main] = n /\ client'[n] = e /\ \A i \in DOMAIN chain : client'[chain[i]] = client[chain[i]]
      BY <1>1, <1>2, <1>3, <3>1, <3>3
    <3>5. ASSUME NEW x \in Clients, \E i \in DOMAIN chain : client[chain[i]] = x
          PROVE  x # e /\ InUse(x) /\ place'[x] = place[x] /\ place[x] # p
      <4>1. pc[x] \in {"listen", "search"}
        BY <3>2, <3>5 DEF MembersInv
      <4>2. x \notin destroyed
        BY <3>2, <4>1 DEF MemoryInv
      <4>3. x # e
        BY <3>1, <4>1 DEF Connected
      <4> QED
        BY <1>3, <3>1, <3>5, <4>2, <4>3 DEF FreePlaces, InUse
    <3>6. place'[e] = p
      BY <1>3, <3>1
    <3>7. \A x \in Clients : InUse(x)' => x = e \/ \E i \in DOMAIN chain : client[chain[i]] = x
      BY <3>2, <3>4 DEF InUse
    <3> QED
      BY <3>5, <3>6, <3>7 DEF PlaceInv
  <2>2. CASE Add
    <3>1. /\ DOMAIN chain' = 1 .. Len(chain) + 1
          /\ \A i \in 1 .. Len(chain) : chain'[i] = chain[i]
          /\ chain'[Len(chain) + 1] = curr[Main]
      BY <2>2, AddFacts
    <3>2. UNCHANGED <<client, place, curr>> /\ pc[Main] = "link" /\ pc'[Main] = "start"
      BY <1>1, <1>3, <2>2 DEF Add, At, Goto
    <3>3. \A i \in DOMAIN chain' : i \in DOMAIN chain \/ i = Len(chain) + 1
      BY <1>4, <3>1
    <3>4. \A x \in Clients : InUse(x)' => InUse(x)
      BY <1>4, <3>1, <3>2, <3>3 DEF InUse
    <3> QED
      BY <1>5, <3>2, <3>4
  <2>3. CASE StartListener \/ SweepLock \/ SweepNode \/ SweepUnlock
    <3>1. UNCHANGED <<chain, client, place>>
      BY <2>3 DEF StartListener, SweepLock, SweepNode, SweepUnlock, list, fields
    <3>2. pc'[Main] # "link"
      <4>1. CASE StartListener
        <5>1. client[curr[Main]] \in Clients
          BY <1>1, <4>1, Reached DEF StartListener, At, MainInv
        <5> QED
          BY <1>1, <1>3, <4>1, <5>1 DEF StartListener
      <4>2. CASE SweepLock \/ SweepNode \/ SweepUnlock
        BY <1>1, <1>3, <4>2 DEF SweepLock, SweepNode, SweepUnlock, At, Goto
      <4> QED
        BY <2>3, <4>1, <4>2
    <3>3. \A x \in Clients : InUse(x)' => InUse(x)
      BY <3>1, <3>2 DEF InUse
    <3> QED
      BY <1>5, <3>1, <3>3
  <2> QED
    BY <1>7, <2>1, <2>2, <2>3 DEF MainStep
<1>8. ASSUME NEW c \in Clients, ListenerStep(c) PROVE PlaceInv'
  <2>1. client' = client /\ place' = place /\ curr'[Main] = curr[Main] /\ pc'[Main] = pc[Main]
    BY <1>1, <1>8, ListenerFrame
  <2>2. CASE Unlink(c)
    <3>1. PICK k \in DOMAIN chain :
             /\ DOMAIN chain' = 1 .. Len(chain) - 1
             /\ \A i \in 1 .. Len(chain) - 1 : chain'[i] = IF i < k THEN chain[i] ELSE chain[i + 1]
      BY <2>2, UnlinkFacts
    <3>2. \A i \in DOMAIN chain' : \E j \in DOMAIN chain : chain'[i] = chain[j]
      <4> SUFFICES ASSUME NEW i \in 1 .. Len(chain) - 1 PROVE \E j \in DOMAIN chain : chain'[i] = chain[j]
        BY <3>1
      <4>1. i \in DOMAIN chain /\ i + 1 \in DOMAIN chain
        BY <1>4
      <4> QED
        BY <3>1, <4>1
    <3>3. \A x \in Clients : InUse(x)' => InUse(x)
      BY <2>1, <3>2 DEF InUse
    <3> QED
      BY <1>5, <2>1, <3>3
  <2>3. CASE ~Unlink(c)
    <3>1. chain' = chain
      BY <1>8, <2>3 DEF ListenerStep, LeaveLock, Search, DestroyClient, FreeNode, list
    <3> QED
      BY <1>6, <2>1, <3>1
  <2> QED
    BY <2>2, <2>3
<1>9. ASSUME NEW w \in Workers, WorkerStep(w) PROVE PlaceInv'
  <2>1. /\ \A t \in Threads \ {w} : curr'[t] = curr[t] /\ pc'[t] = pc[t]
        /\ ListStays
    BY <1>9, WorkerFrame
  <2>2. place' = place
    BY <1>9 DEF WorkerStep, StartMsg, StartListing, FormatFreed, Begin, Load, Visit, Advance, EndMsg,
                EndListing, SendListing, LoseListing
  <2> QED
    BY <1>1, <1>6, <2>1, <2>2 DEF ListStays
<1>10. CASE UNCHANGED vars
  BY <1>6, <1>10 DEF vars, list, fields
<1> QED
  BY <1>7, <1>8, <1>9, <1>10 DEF Next

LEMMA StepMain == IInv /\ [Next]_vars => MainInv'
<1> SUFFICES ASSUME IInv, [Next]_vars PROVE MainInv'
  OBVIOUS
<1> USE DEF IInv
<1>1. \A n : n \in Range(chain) <=> \E i \in DOMAIN chain : n = chain[i]
  BY ChainFacts
<1>2. /\ \A i \in DOMAIN chain : chain[i] \in Nodes /\ client[chain[i]] \in Clients
      /\ head # NULL => head \in Nodes
      /\ \A t \in Threads : curr[t] # NULL => curr[t] \in Nodes /\ client[curr[t]] \in Clients
  BY Reached
<1>3. Main \in Threads /\ Main \notin Clients /\ Clients \cap Workers = {} /\ Main \notin Workers
      /\ Clients \subseteq Threads /\ Workers \subseteq Threads /\ NULL \notin Nodes
  BY Labels
<1>4. /\ pc \in [Threads -> MainLabels \cup ListenerLabels \cup WorkerLabels]
      /\ curr \in [Threads -> Nodes \cup {NULL}]
      /\ next \in [Nodes -> Nodes \cup {NULL}] /\ prev \in [Nodes -> Nodes \cup {NULL}]
      /\ client \in [Nodes -> Clients \cup {NULL}]
  BY DEF TypeOK
<1>5. CASE MainStep
  <2>1. CASE Create
    <3>1. PICK n \in Nodes, c \in Clients :
             /\ pc[Main] = "accept" /\ pc[c] = "none" /\ n \notin Range(chain)
             /\ \A d \in Clients : pc[d] \in {"destroy", "free"} => curr[d] # n
             /\ client' = [client EXCEPT ![n] = c]
             /\ next' = [next EXCEPT ![n] = NULL] /\ prev' = [prev EXCEPT ![n] = NULL]
             /\ curr' = [curr EXCEPT ![Main] = n] /\ pc' = [pc EXCEPT ![Main] = "link"]
      BY <2>1, CreateFacts
    <3>2. Range(chain') = Range(chain)
      BY <2>1, ChainGrows
    <3>3. /\ pc'[Main] = "link" /\ curr'[Main] = n /\ client'[n] = c /\ pc'[c] = "none"
          /\ next'[n] = NULL /\ prev'[n] = NULL
          /\ \A d \in Clients : pc'[d] = pc[d] /\ curr'[d] = curr[d]
      BY <1>3, <1>4, <3>1
    <3> QED
      BY <1>3, <3>1, <3>2, <3>3 DEF MainInv
  <2>2. CASE Add
    <3>1. /\ pc[Main] = "link" /\ pc'[Main] = "start" /\ UNCHANGED <<client, curr>>
          /\ \A c \in Clients : pc'[c] = pc[c]
      BY <1>3, <1>4, <2>2 DEF Add, At, Goto
    <3>2. curr[Main] # NULL /\ client[curr[Main]] \in Clients /\ pc[client[curr[Main]]] = "none"
      BY <1>2, <1>3, <3>1 DEF MainInv
    <3>3. curr[Main] \in Range(chain')
      BY <2>2, ChainGrows
    <3> QED
      BY <3>1, <3>2, <3>3 DEF MainInv
  <2>3. CASE StartListener
    <3>1. pc[Main] = "start"
      BY <2>3 DEF StartListener, At
    <3>2. pc'[Main] = "accept"
      BY <1>3, <1>4, <2>3 DEF StartListener
    <3> QED
      BY <3>2 DEF MainInv
  <2>4. CASE SweepLock
    <3>1. pc'[Main] = "sweep" /\ curr'[Main] = head /\ rest' = head /\ chain' = chain
      BY <1>3, <1>4, <2>4 DEF SweepLock, Goto, list
    <3>2. head # NULL => head \in Range(chain)
      <4>1. chain # <<>> => 1 \in DOMAIN chain
        BY ChainFacts
      <4> QED
        BY <1>1, <4>1 DEF ChainInv
    <3> QED
      BY <3>1, <3>2 DEF MainInv
  <2>5. CASE SweepNode
    BY <2>5 DEF SweepNode, At, MainInv
  <2>6. CASE SweepUnlock
    <3>1. pc'[Main] = "closed"
      BY <1>3, <1>4, <2>6 DEF SweepUnlock, Goto
    <3> QED
      BY <3>1 DEF MainInv
  <2> QED
    BY <1>5, <2>1, <2>2, <2>3, <2>4, <2>5, <2>6 DEF MainStep
<1>6. ASSUME NEW c \in Clients, ListenerStep(c) PROVE MainInv'
  <2>1. /\ \A t \in Threads \ {c} : curr'[t] = curr[t] /\ pc'[t] = pc[t]
        /\ client' = client /\ rest' = rest
    BY <1>6, ListenerFrame
  <2>2. pc'[Main] = pc[Main] /\ curr'[Main] = curr[Main]
    BY <1>3, <2>1
  <2>3. pc[c] # "none" /\ pc'[c] # "none"
    BY <1>3, <1>4, <1>6 DEF ListenerStep, LeaveLock, Search, Unlink, DestroyClient, FreeNode, At, Goto
  <2>4. pc[Main] \in {"link", "start"} =>
          curr'[Main] # NULL /\ pc'[client'[curr'[Main]]] = "none"
    <3> SUFFICES ASSUME pc[Main] \in {"link", "start"}
                 PROVE  curr[Main] # NULL /\ pc'[client[curr[Main]]] = "none"
      BY <2>1, <2>2
    <3>1. curr[Main] # NULL /\ pc[client[curr[Main]]] = "none"
      BY DEF MainInv
    <3>2. client[curr[Main]] \in Threads \ {c}
      BY <1>2, <1>3, <2>3, <3>1
    <3> QED
      BY <2>1, <3>1, <3>2
  <2>5. CASE Unlink(c)
    <3>1. Range(chain') = Range(chain) \ {curr[c]}
      BY <2>5, ChainGrows
    <3>2. curr[c] \in Range(chain) /\ client[curr[c]] = c
      BY <1>1, <2>5, UnlinkFacts
    <3>3. pc[Main] = "start" => curr[Main] # curr[c]
      <4>1. pc[Main] = "start" => pc[client[curr[Main]]] = "none"
        BY DEF MainInv
      <4> QED
        BY <2>3, <3>2, <4>1
    <3>4. pc[Main] # "sweep"
      BY <2>5 DEF Unlink, At, MutexInv
    <3>5. UNCHANGED curr
      BY <2>5 DEF Unlink
    <3>6. pc[Main] = "link" => next'[curr[Main]] = NULL /\ prev'[curr[Main]] = NULL
      <4> SUFFICES ASSUME pc[Main] = "link"
                   PROVE  next'[curr[Main]] = NULL /\ prev'[curr[Main]] = NULL
        OBVIOUS
      <4>1. /\ curr[Main] \in Nodes /\ curr[Main] \notin Range(chain)
            /\ next[curr[Main]] = NULL /\ prev[curr[Main]] = NULL
        BY <1>2, <1>3 DEF MainInv
      <4> QED
        BY <2>5, <4>1, UnlinkElsewhere
    <3>7. pc[Main] = "link" => \A d \in Clients : pc'[d] \in {"destroy", "free"} => curr[d] # curr[Main]
      <4> SUFFICES ASSUME pc[Main] = "link", NEW d \in Clients, pc'[d] \in {"destroy", "free"}
                   PROVE  curr[d] # curr[Main]
        OBVIOUS
      <4>1. CASE d = c
        BY <3>2, <4>1 DEF MainInv
      <4>2. CASE d # c
        BY <1>3, <2>1, <4>2 DEF MainInv
      <4> QED
        BY <4>1, <4>2
    <3>8. pc[Main] = "link" => curr[Main] \notin Range(chain')
      BY <3>1 DEF MainInv
    <3>9. pc[Main] = "start" => curr[Main] \in Range(chain')
      BY <3>1, <3>3 DEF MainInv
    <3> QED
      BY <2>2, <2>4, <3>4, <3>5, <3>6, <3>7, <3>8, <3>9 DEF MainInv
  <2>6. CASE ~Unlink(c)
    <3>1. UNCHANGED <<chain, next, prev>>
      BY <1>6, <2>6 DEF ListenerStep, LeaveLock, Search, DestroyClient, FreeNode, list, fields
    <3>2. pc'[c] \in {"destroy", "free"} => pc[c] \in {"destroy", "free"} /\ curr'[c] = curr[c]
      BY <1>3, <1>4, <1>6, <2>6
         DEF ListenerStep, LeaveLock, Search, DestroyClient, FreeNode, At, Goto
    <3>3. \A d \in Clients : pc'[d] \in {"destroy", "free"} =>
                               pc[d] \in {"destroy", "free"} /\ curr'[d] = curr[d]
      BY <1>3, <2>1, <3>2
    <3> QED
      BY <2>1, <2>2, <2>4, <3>1, <3>3 DEF MainInv
  <2> QED
    BY <2>5, <2>6
<1>7. ASSUME NEW w \in Workers, WorkerStep(w) PROVE MainInv'
  <2>1. /\ \A t \in Threads \ {w} : curr'[t] = curr[t] /\ pc'[t] = pc[t]
        /\ UNCHANGED <<client, chain, next, prev, rest>>
    BY <1>7, WorkerFrame DEF ListStays
  <2>2. /\ pc'[Main] = pc[Main] /\ curr'[Main] = curr[Main]
        /\ \A c \in Clients : pc'[c] = pc[c] /\ curr'[c] = curr[c]
    BY <1>3, <2>1
  <2>3. pc[Main] \in {"link", "start"} => client[curr[Main]] \in Clients
    BY <1>2, <1>3 DEF MainInv
  <2> QED
    BY <2>1, <2>2, <2>3 DEF MainInv
<1>8. CASE UNCHANGED vars
  BY <1>8 DEF vars, list, fields, MainInv
<1> QED
  BY <1>5, <1>6, <1>7, <1>8 DEF Next

LEMMA StepRemoval == IInv /\ [Next]_vars => RemovalInv'
<1> SUFFICES ASSUME IInv, [Next]_vars PROVE RemovalInv'
  OBVIOUS
<1> USE DEF IInv
<1>1. /\ Len(chain) \in Nat /\ DOMAIN chain = 1 .. Len(chain)
      /\ \A n : n \in Range(chain) <=> \E i \in DOMAIN chain : n = chain[i]
  BY ChainFacts
<1>2. /\ \A i \in DOMAIN chain : chain[i] \in Nodes /\ client[chain[i]] \in Clients
      /\ \A t \in Threads : curr[t] # NULL => curr[t] \in Nodes
  BY Reached
<1>3. Main \in Threads /\ Main \notin Clients /\ Clients \cap Workers = {} /\ Main \notin Workers
      /\ Clients \subseteq Threads /\ Workers \subseteq Threads /\ NULL \notin Nodes
      /\ NULL \notin Threads
  BY Labels
<1>4. /\ pc \in [Threads -> MainLabels \cup ListenerLabels \cup WorkerLabels]
      /\ curr \in [Threads -> Nodes \cup {NULL}]
      /\ next \in [Nodes -> Nodes \cup {NULL}]
      /\ client \in [Nodes -> Clients \cup {NULL}]
  BY DEF TypeOK
\* A listener that is where it was, in a list that is as it was.
<1> DEFINE Removing(c) ==
      /\ pc[c] = "search" =>
           \E i, j \in DOMAIN chain : i <= j /\ chain[i] = curr[c] /\ client[chain[j]] = c
      /\ pc[c] \in {"destroy", "free"} =>
           curr[c] # NULL /\ curr[c] \notin Range(chain) /\ client[curr[c]] = c
      /\ pc[c] = "destroy" => next[curr[c]] \in Range(chain) \cup {NULL}
<1>5. ASSUME NEW c \in Clients PROVE Removing(c)
  BY DEF RemovalInv
<1>6. ASSUME UNCHANGED <<chain, client, next>>, NEW c \in Clients, pc'[c] = pc[c], curr'[c] = curr[c]
      PROVE  Removing(c)'
  BY <1>5, <1>6
<1>7. CASE MainStep
  <2>1. CASE Create
    <3>1. PICK n \in Nodes, c \in Clients :
             /\ n \notin Range(chain)
             /\ \A d \in Clients : pc[d] \in {"destroy", "free"} => curr[d] # n
             /\ client' = [client EXCEPT ![n] = c]
             /\ next' = [next EXCEPT ![n] = NULL]
             /\ curr' = [curr EXCEPT ![Main] = n] /\ pc' = [pc EXCEPT ![Main] = "link"]
      BY <2>1, CreateFacts
    <3>2. chain' = chain
      BY <2>1 DEF Create
    <3>3. \A i \in DOMAIN chain : client'[chain[i]] = client[chain[i]]
      BY <1>1, <1>2, <1>4, <3>1
    <3>4. ASSUME NEW d \in Clients PROVE Removing(d)'
      <4>1. pc'[d] = pc[d] /\ curr'[d] = curr[d]
        BY <1>3, <1>4, <3>1
      <4>2. pc[d] \in {"destroy", "free"} => client'[curr[d]] = client[curr[d]]
                                             /\ next'[curr[d]] = next[curr[d]]
        BY <1>2, <1>3, <1>4, <1>5, <3>1
      <4> QED
        BY <1>5, <3>2, <3>3, <4>1, <4>2
    <3> QED
      BY <3>4 DEF RemovalInv
  <2>2. CASE Add
    <3>1. \A d \in Clients : pc'[d] = pc[d] /\ pc[d] \notin {"search", "destroy", "free"}
      BY <1>3, <1>4, <2>2 DEF Add, Goto, MutexInv
    <3> QED
      BY <3>1 DEF RemovalInv
  <2>3. CASE StartListener
    <3>1. /\ UNCHANGED <<chain, client, next>>
          /\ pc' = [pc EXCEPT ![client[curr[Main]]] = "listen", ![Main] = "accept"]
          /\ \A d \in Clients : curr'[d] = curr[d]
      BY <1>3, <1>4, <2>3 DEF StartListener, list, fields
    <3>2. \A d \in Clients : pc'[d] = pc[d] \/ pc'[d] = "listen"
      BY <1>3, <1>4, <3>1
    <3>3. ASSUME NEW d \in Clients PROVE Removing(d)'
      BY <1>6, <3>1, <3>2
    <3> QED
      BY <3>3 DEF RemovalInv
  <2>4. CASE SweepLock \/ SweepNode \/ SweepUnlock
    <3>1. UNCHANGED <<chain, client, next>> /\ \A d \in Clients : curr'[d] = curr[d] /\ pc'[d] = pc[d]
      BY <1>3, <1>4, <2>4 DEF SweepLock, SweepNode, SweepUnlock, Goto, list, fields
    <3>2. ASSUME NEW d \in Clients PROVE Removing(d)'
      BY <1>6, <3>1
    <3> QED
      BY <3>2 DEF RemovalInv
  <2> QED
    BY <1>7, <2>1, <2>2, <2>3, <2>4 DEF MainStep
<1>8. ASSUME NEW c \in Clients, ListenerStep(c) PROVE RemovalInv'
  <2>1. /\ \A t \in Threads \ {c} : curr'[t] = curr[t] /\ pc'[t] = pc[t]
        /\ client' = client
    BY <1>8, ListenerFrame
  <2>2. ASSUME NEW d \in Clients, d # c PROVE Removing(d)'
    <3>1. pc'[d] = pc[d] /\ curr'[d] = curr[d]
      BY <1>3, <2>1, <2>2
    <3>2. CASE Unlink(c)
      <4>1. pc[d] \notin {"search", "destroy", "free"}
        BY <2>2, <3>2 DEF Unlink, At, MutexInv
      <4> QED
        BY <3>1, <4>1
    <3>3. CASE ~Unlink(c)
      <4>1. UNCHANGED <<chain, next>>
        BY <1>8, <3>3 DEF ListenerStep, LeaveLock, Search, DestroyClient, FreeNode, list, fields
      <4> QED
        BY <1>6, <2>1, <3>1, <4>1
    <3> QED
      BY <3>2, <3>3
  <2>3. Removing(c)'
    <3>1. CASE LeaveLock(c)
      <4>1. /\ UNCHANGED <<chain, client>> /\ curr'[c] = head
            /\ pc[c] = "listen" /\ pc'[c] = "search"
        BY <1>3, <1>4, <3>1 DEF LeaveLock, At, Goto, list, fields
      <4>2. PICK j \in DOMAIN chain : client[chain[j]] = c
        BY <4>1 DEF MembersInv
      <4>3. 1 \in DOMAIN chain /\ 1 <= j /\ chain # <<>>
        BY <1>1, ChainFacts
      <4>4. chain[1] = head
        BY <4>3 DEF ChainInv
      <4> QED
        BY <4>1, <4>2, <4>3, <4>4
    <3>2. CASE Search(c)
      <4>1. /\ UNCHANGED <<chain, client>> /\ pc[c] = "search" /\ pc'[c] = "search"
            /\ client[curr[c]] # c /\ curr'[c] = next[curr[c]]
        BY <1>3, <1>4, <3>2, Recognized DEF Search, At, NodeAfter, list, fields
      <4>2. PICK i \in DOMAIN chain, j \in DOMAIN chain :
               i <= j /\ chain[i] = curr[c] /\ client[chain[j]] = c
        BY <1>5, <4>1
      <4>3. i + 1 \in DOMAIN chain /\ i + 1 <= j /\ i # Len(chain)
        BY <1>1, <4>1, <4>2
      <4>4. curr'[c] = chain[i + 1]
        BY <4>1, <4>2, <4>3 DEF ChainInv
      <4> QED
        BY <4>1, <4>2, <4>3, <4>4
    <3>3. CASE Unlink(c)
      <4>1. pc'[c] = "destroy" /\ curr' = curr /\ client' = client
        BY <1>3, <1>4, <3>3 DEF Unlink, At, Goto
      <4>2. PICK k \in DOMAIN chain :
           /\ curr[c] = chain[k] /\ client[chain[k]] = c
           /\ Range(chain') = Range(chain) \ {chain[k]}
           /\ next' = [m \in Nodes |-> IF k # 1 /\ m = chain[k - 1] THEN next[chain[k]] ELSE next[m]]
        BY <3>3, UnlinkFacts
      <4>3. \A i \in DOMAIN chain : i # k => chain[i] # chain[k]
        BY DEF ChainInv
      <4>4. /\ k # 1 => k - 1 \in DOMAIN chain /\ k - 1 # k
            /\ k # Len(chain) => k + 1 \in DOMAIN chain /\ k + 1 # k
        BY <1>1
      <4>5. next'[chain[k]] = next[chain[k]]
        BY <1>2, <4>2, <4>3, <4>4
      <4>6. next[chain[k]] = IF k = Len(chain) THEN NULL ELSE chain[k + 1]
        BY DEF ChainInv
      <4>7. k # Len(chain) => chain[k + 1] \in Range(chain')
        BY <1>1, <4>2, <4>3, <4>4
      <4>8. next'[curr'[c]] \in Range(chain') \cup {NULL}
        BY <4>1, <4>2, <4>5, <4>6, <4>7
      <4>9. curr'[c] # NULL /\ curr'[c] \notin Range(chain') /\ client'[curr'[c]] = c
        BY <1>2, <1>3, <4>1, <4>2
      <4> QED
        BY <4>1, <4>8, <4>9
    <3>4. CASE DestroyClient(c)
      <4>1. /\ UNCHANGED <<chain, client, curr>> /\ pc[c] = "destroy" /\ pc'[c] = "free"
        BY <1>3, <1>4, <3>4 DEF DestroyClient, At, Goto, list, fields
      <4> QED
        BY <1>5, <4>1
    <3>5. CASE FreeNode(c)
      <4>1. pc'[c] = "gone"
        BY <1>3, <1>4, <3>5 DEF FreeNode, At, Goto
      <4> QED
        BY <4>1
    <3> QED
      BY <1>8, <3>1, <3>2, <3>3, <3>4, <3>5 DEF ListenerStep
  <2>4. ASSUME NEW d \in Clients PROVE Removing(d)'
    BY <2>2, <2>3
  <2> QED
    BY <2>4 DEF RemovalInv
<1>9. ASSUME NEW w \in Workers, WorkerStep(w) PROVE RemovalInv'
  <2>1. /\ \A t \in Threads \ {w} : curr'[t] = curr[t] /\ pc'[t] = pc[t]
        /\ UNCHANGED <<client, chain, next>>
    BY <1>9, WorkerFrame DEF ListStays
  <2>2. ASSUME NEW d \in Clients PROVE Removing(d)'
    BY <1>3, <1>6, <2>1
  <2> QED
    BY <2>2 DEF RemovalInv
<1>10. CASE UNCHANGED vars
  BY <1>10 DEF vars, list, fields, RemovalInv
<1> QED
  BY <1>7, <1>8, <1>9, <1>10 DEF Next

LEMMA StepMemory == IInv /\ [Next]_vars => MemoryInv'
<1> SUFFICES ASSUME IInv, [Next]_vars, Open' PROVE MemoryInv'
  BY DEF MemoryInv
<1> USE DEF IInv
<1> DEFINE Used(n) == \/ n \in Range(chain)
                      \/ pc[Main] = "link" /\ n = curr[Main]
                      \/ \E c \in Clients : pc[c] \in {"destroy", "free"} /\ n = curr[c]
           Gone(c) == pc[c] \in {"free", "gone"}
<1>1. /\ Main \in Threads /\ Main \notin Clients /\ Clients \cap Workers = {} /\ Main \notin Workers
      /\ Clients \subseteq Threads /\ Workers \subseteq Threads /\ NULL \notin Nodes
      /\ NULL \notin Threads
  BY Labels
<1>2. /\ pc \in [Threads -> MainLabels \cup ListenerLabels \cup WorkerLabels]
      /\ curr \in [Threads -> Nodes \cup {NULL}]
  BY DEF TypeOK
<1>3. Open
  <2>1. CASE MainStep
    BY <1>1, <1>2, <2>1 DEF MainStep, Create, Add, StartListener, SweepLock, SweepNode, SweepUnlock,
                          At, Goto, Open
  <2>2. ASSUME NEW c \in Clients, ListenerStep(c) PROVE Open
    BY <1>1, <2>2, ListenerFrame DEF Open
  <2>3. ASSUME NEW w \in Workers, WorkerStep(w) PROVE Open
    BY <1>1, <2>3, WorkerFrame DEF Open
  <2>4. CASE UNCHANGED vars
    BY <2>4 DEF vars, Open
  <2> QED
    BY <2>1, <2>2, <2>3, <2>4 DEF Next
<1>4. /\ \A c \in Clients : c \in destroyed <=> Gone(c)
      /\ \A n \in Nodes : n \in allocated <=> Used(n)
  BY <1>3 DEF MemoryInv
<1>5. SUFFICES /\ \A c \in Clients : c \in destroyed' <=> Gone(c)'
               /\ \A n \in Nodes : n \in allocated' <=> Used(n)'
  BY DEF MemoryInv
<1> HIDE DEF Used
<1>6. CASE MainStep
  <2>1. CASE Create
    <3>1. PICK n \in Nodes :
             /\ pc[Main] = "accept" /\ allocated' = allocated \cup {n}
             /\ curr' = [curr EXCEPT ![Main] = n] /\ pc' = [pc EXCEPT ![Main] = "link"]
      BY <2>1, CreateFacts
    <3>2. Range(chain') = Range(chain) /\ destroyed' = destroyed
      BY <2>1, ChainGrows DEF Create
    <3>3. /\ \A c \in Clients : pc'[c] = pc[c] /\ curr'[c] = curr[c]
          /\ pc'[Main] = "link" /\ curr'[Main] = n
      BY <1>1, <1>2, <3>1
    <3>4. \A m \in Nodes : Used(m)' <=> Used(m) \/ m = n
      BY <3>1, <3>2, <3>3 DEF Used
    <3> QED
      BY <1>4, <3>1, <3>2, <3>3, <3>4
  <2>2. CASE Add
    <3>1. Range(chain') = Range(chain) \cup {curr[Main]}
      BY <2>2, ChainGrows
    <3>2. /\ pc[Main] = "link" /\ UNCHANGED <<curr, destroyed, allocated>>
          /\ pc'[Main] = "start" /\ \A c \in Clients : pc'[c] = pc[c]
      BY <1>1, <1>2, <2>2 DEF Add, At, Goto
    <3>3. \A m \in Nodes : Used(m)' <=> Used(m)
      BY <3>1, <3>2 DEF Used
    <3> QED
      BY <1>4, <3>2, <3>3
  <2>3. CASE StartListener
    <3>1. /\ UNCHANGED <<chain, destroyed, allocated>> /\ pc[Main] = "start" /\ pc'[Main] = "accept"
          /\ pc' = [pc EXCEPT ![client[curr[Main]]] = "listen", ![Main] = "accept"]
          /\ \A c \in Clients : curr'[c] = curr[c]
      BY <1>1, <1>2, <2>3 DEF StartListener, At, list
    <3>2. pc[client[curr[Main]]] = "none"
      BY <3>1 DEF MainInv
    <3>3. \A c \in Clients : pc'[c] = pc[c] \/ (pc'[c] = "listen" /\ pc[c] = "none")
      BY <1>1, <1>2, <3>1, <3>2
    <3>4. \A m \in Nodes : Used(m)' <=> Used(m)
      BY <3>1, <3>3 DEF Used
    <3> QED
      BY <1>4, <3>1, <3>3, <3>4
  <2>4. CASE SweepLock \/ SweepNode \/ SweepUnlock
    <3>1. pc'[Main] \in {"sweep", "closed"}
      BY <1>1, <1>2, <2>4 DEF SweepLock, SweepNode, SweepUnlock, At, Goto
    <3> QED
      BY <3>1 DEF Open
  <2> QED
    BY <1>6, <2>1, <2>2, <2>3, <2>4 DEF MainStep
<1>7. ASSUME NEW c \in Clients, ListenerStep(c)
      PROVE  /\ \A d \in Clients : d \in destroyed' <=> Gone(d)'
             /\ \A n \in Nodes : n \in allocated' <=> Used(n)'
  <2>1. \A t \in Threads \ {c} : curr'[t] = curr[t] /\ pc'[t] = pc[t]
    BY <1>7, ListenerFrame
  <2>2. /\ \A d \in Clients \ {c} : curr'[d] = curr[d] /\ pc'[d] = pc[d]
        /\ pc'[Main] = pc[Main] /\ curr'[Main] = curr[Main]
    BY <1>1, <2>1
  <2>3. pc[c] \in {"search", "destroy", "free"} =>
          \A d \in Clients \ {c} : pc[d] \notin {"destroy", "free"}
    BY DEF MutexInv
  <2>4. CASE LeaveLock(c) \/ Search(c)
    <3>1. /\ UNCHANGED <<chain, destroyed, allocated>>
          /\ pc[c] \in {"listen", "search"} /\ pc'[c] \in {"listen", "search"}
      BY <1>1, <1>2, <2>4 DEF LeaveLock, Search, At, Goto, list
    <3>2. \A m \in Nodes : Used(m)' <=> Used(m)
      BY <2>2, <3>1 DEF Used
    <3>3. \A d \in Clients : Gone(d)' <=> Gone(d)
      BY <2>2, <3>1
    <3> QED
      BY <1>4, <3>1, <3>2, <3>3
  <2>5. CASE Unlink(c)
    <3>1. Range(chain') = Range(chain) \ {curr[c]}
      BY <2>5, ChainGrows
    <3>2. curr[c] \in Range(chain)
      BY <2>5, ChainFacts DEF Unlink, At, RemovalInv
    <3>3. /\ UNCHANGED <<destroyed, allocated, curr>>
          /\ pc[c] = "search" /\ pc'[c] = "destroy"
      BY <1>1, <1>2, <2>5 DEF Unlink, At, Goto
    <3>4. \A m \in Nodes : Used(m)' <=> Used(m)
      BY <2>2, <2>3, <3>1, <3>2, <3>3 DEF Used
    <3>5. \A d \in Clients : Gone(d)' <=> Gone(d)
      BY <2>2, <3>3
    <3> QED
      BY <1>4, <3>3, <3>4, <3>5
  <2>6. CASE DestroyClient(c)
    <3>1. /\ UNCHANGED <<chain, allocated, curr>> /\ destroyed' = destroyed \cup {c}
          /\ pc[c] = "destroy" /\ pc'[c] = "free"
      BY <1>1, <1>2, <2>6 DEF DestroyClient, At, Goto, list
    <3>2. \A m \in Nodes : Used(m)' <=> Used(m)
      BY <2>2, <3>1 DEF Used
    <3>3. \A d \in Clients : Gone(d)' <=> Gone(d) \/ d = c
      BY <2>2, <3>1
    <3> QED
      BY <1>4, <3>1, <3>2, <3>3
  <2>7. CASE FreeNode(c)
    <3>1. /\ UNCHANGED <<chain, destroyed>> /\ allocated' = allocated \ {curr[c]}
          /\ pc[c] = "free" /\ pc'[c] = "gone"
      BY <1>1, <1>2, <2>7 DEF FreeNode, NodeFreed, At, Goto
    <3>2. curr[c] \notin Range(chain) /\ (pc[Main] = "link" => curr[Main] # curr[c])
      BY <3>1 DEF RemovalInv, MainInv
    <3>3. \A m \in Nodes : Used(m)' <=> Used(m) /\ m # curr[c]
      BY <2>2, <2>3, <3>1, <3>2 DEF Used
    <3>4. \A d \in Clients : Gone(d)' <=> Gone(d)
      BY <2>2, <3>1
    <3> QED
      BY <1>4, <3>1, <3>3, <3>4
  <2> QED
    BY <1>7, <2>4, <2>5, <2>6, <2>7 DEF ListenerStep
<1>8. ASSUME NEW w \in Workers, WorkerStep(w)
      PROVE  /\ \A d \in Clients : d \in destroyed' <=> Gone(d)'
             /\ \A n \in Nodes : n \in allocated' <=> Used(n)'
  <2>1. /\ \A t \in Threads \ {w} : curr'[t] = curr[t] /\ pc'[t] = pc[t]
        /\ UNCHANGED <<chain, allocated, destroyed>>
    BY <1>8, WorkerFrame DEF ListStays
  <2>2. /\ \A d \in Clients : curr'[d] = curr[d] /\ pc'[d] = pc[d]
        /\ pc'[Main] = pc[Main] /\ curr'[Main] = curr[Main]
    BY <1>1, <2>1
  <2>3. \A m \in Nodes : Used(m)' <=> Used(m)
    BY <2>1, <2>2 DEF Used
  <2> QED
    BY <1>4, <2>1, <2>2, <2>3
<1>9. CASE UNCHANGED vars
  <2>1. UNCHANGED <<chain, allocated, destroyed, curr, pc>>
    BY <1>9 DEF vars, list
  <2>2. \A m \in Nodes : Used(m)' <=> Used(m)
    BY <2>1 DEF Used
  <2> QED
    BY <1>4, <2>1, <2>2
<1> QED
  BY <1>6, <1>7, <1>8, <1>9 DEF Next

\* What a walk that is not stale stands on is there, with its client.
LEMMA WalkIsLive ==
  ASSUME IInv, NEW w \in Workers, pc[w] # "idle", ~stale[w], curr[w] # NULL
  PROVE  curr[w] \in allocated /\ client[curr[w]] \notin destroyed
<1> USE DEF IInv
<1>1. Open
  BY DEF MutexInv
<1>2. OnList(curr[w])
  BY DEF WalkInv
<1>3. w \in Threads /\ Main \in Threads
  BY Labels
<1>4. curr[w] \in Nodes /\ client[curr[w]] \in Clients
  BY <1>3, Reached
<1>5. CASE curr[w] \in Range(chain)
  <2>1. PICK i \in DOMAIN chain : curr[w] = chain[i]
    BY <1>5, ChainFacts
  <2>2. client[chain[i]] \in Clients
    BY Reached
  <2>3. \/ pc[client[chain[i]]] \in {"listen", "search"}
        \/ pc[Main] = "start" /\ client[chain[i]] = client[curr[Main]]
    BY <2>2 DEF MembersInv
  <2>4. pc[client[chain[i]]] \notin {"free", "gone"}
    BY <2>3 DEF MainInv
  <2> QED
    BY <1>1, <1>4, <1>5, <2>1, <2>4 DEF MemoryInv
<1>6. CASE \E c \in Clients : pc[c] = "destroy" /\ curr[w] = curr[c]
  <2>1. PICK c \in Clients : pc[c] = "destroy" /\ curr[w] = curr[c]
    BY <1>6
  <2>2. client[curr[c]] = c
    BY <2>1 DEF RemovalInv
  <2> QED
    BY <1>1, <1>4, <2>1, <2>2 DEF MemoryInv
<1> QED
  BY <1>2, <1>5, <1>6 DEF OnList

\* A listener only touches what is there.
LEMMA RemovalIsLive ==
  ASSUME IInv, Open, NEW c \in Clients
  PROVE  /\ pc[c] \in {"search", "destroy", "free"} => curr[c] \in allocated
         /\ pc[c] = "destroy" => c \notin destroyed
<1> USE DEF IInv
<1>1. ASSUME pc[c] = "search" PROVE curr[c] \in allocated
  <2>1. curr[c] \in Range(chain) /\ curr[c] \in Nodes
    BY <1>1, ChainFacts DEF RemovalInv
  <2> QED
    BY <2>1 DEF MemoryInv
<1>2. ASSUME pc[c] \in {"destroy", "free"} PROVE curr[c] \in allocated
  <2>1. c \in Threads
    BY Labels
  <2>2. curr[c] \in Nodes
    BY <1>2, <2>1, Reached DEF RemovalInv
  <2> QED
    BY <1>2, <2>2 DEF MemoryInv
<1>3. pc[c] = "destroy" => c \notin destroyed
  BY DEF MemoryInv
<1> QED
  BY <1>1, <1>2, <1>3

LEMMA StepCrash == IInv /\ [Next]_vars => CrashInv'
<1> SUFFICES ASSUME IInv, [Next]_vars, Open', crashed' PROVE CrashInv'
  BY DEF CrashInv
<1> USE DEF IInv
<1>1. /\ Main \in Threads /\ Main \notin Clients /\ Clients \cap Workers = {} /\ Main \notin Workers
      /\ Clients \subseteq Threads /\ Workers \subseteq Threads
  BY Labels
<1>2. pc \in [Threads -> MainLabels \cup ListenerLabels \cup WorkerLabels]
  BY DEF TypeOK
<1>3. CASE MainStep
  <2>1. SweepNode => ~Open'
    BY DEF SweepNode, At, Open
  <2> QED
    BY <1>3, <2>1 DEF MainStep, Create, Add, StartListener, SweepLock, SweepUnlock, At
<1>4. ASSUME NEW c \in Clients, ListenerStep(c) PROVE CrashInv'
  <2>1. pc'[Main] = pc[Main]
    BY <1>1, <1>4, ListenerFrame
  <2>2. Open
    BY <2>1 DEF Open
  <2>3. /\ pc[c] \in {"search", "destroy", "free"} => curr[c] \in allocated
        /\ pc[c] = "destroy" => c \notin destroyed
    BY <2>2, RemovalIsLive
  <2>4. crashed' = crashed /\ ~crashed
    BY <1>4, <2>3 DEF ListenerStep, LeaveLock, Search, Unlink, DestroyClient, FreeNode, At, Touch
  <2> QED
    BY <2>4
<1>5. ASSUME NEW w \in Workers, WorkerStep(w) PROVE CrashInv'
  <2>1. CASE Load(w) \/ Visit(w) \/ Advance(w)
    <3>1. /\ pc[w] \in {"visit", "send", "advance"} /\ pc'[w] \in {"visit", "send", "advance"}
          /\ curr[w] # NULL /\ stale' = stale /\ mutex' = mutex /\ ~crashed
      BY <1>1, <1>2, <2>1 DEF Load, Visit, Advance, At, Goto, WalkInv, TargetInv, walks
    <3>2. stale[w]
      <4> SUFFICES ASSUME ~stale[w] PROVE FALSE
        OBVIOUS
      <4>1. curr[w] \in allocated /\ client[curr[w]] \notin destroyed
        BY <3>1, WalkIsLive
      <4>2. pc[w] = "send" => target[w] = client[curr[w]]
        BY DEF TargetInv
      <4> QED
        BY <2>1, <3>1, <4>1, <4>2 DEF Load, Visit, Advance, At, Touch
    <3>3. mutex # w
      BY <3>2 DEF LockedWalkInv
    <3>4. CrashOf(w)'
      BY <3>1, <3>2, <3>3 DEF CrashOf
    <3> QED
      BY <3>4 DEF CrashInv
  <2>2. CASE FormatFreed(w)
    <3>1. /\ pc[w] = "idle" /\ pc' = pc /\ destroyed' = destroyed
          /\ \E c \in destroyed : sender' = [sender EXCEPT ![w] = c]
      BY <2>2 DEF FormatFreed, At
    <3>2. sender'[w] \in destroyed
      BY <3>1 DEF TypeOK
    <3>3. CrashOf(w)'
      BY <3>1, <3>2 DEF CrashOf
    <3> QED
      BY <3>3 DEF CrashInv
  <2>3. CASE LoseListing(w)
    <3>1. /\ pc[w] = "report" /\ UNCHANGED <<pc, visited, sender, destroyed>>
          /\ visited[w] = <<>> \/ sender[w] \in destroyed
      BY <2>3 DEF LoseListing, At, walks
    <3>2. CrashOf(w)'
      BY <3>1 DEF CrashOf
    <3> QED
      BY <3>2 DEF CrashInv
  <2>4. CASE StartMsg(w) \/ StartListing(w) \/ EndMsg(w) \/ EndListing(w) \/ SendListing(w)
    BY <2>4 DEF StartMsg, StartListing, Begin, EndMsg, EndListing, SendListing, At
  <2> QED
    BY <1>5, <2>1, <2>2, <2>3, <2>4 DEF WorkerStep
<1>6. CASE UNCHANGED vars
  BY <1>6 DEF vars, walks, CrashInv, CrashOf, Open
<1> QED
  BY <1>3, <1>4, <1>5, <1>6 DEF Next

\* What a removal does to the walks.
LEMMA RemovalAndWalks ==
  ASSUME IInv, NEW c \in Clients, ListenerStep(c), NEW w \in Workers
  PROVE  /\ pc'[w] = pc[w] /\ curr'[w] = curr[w] /\ visited'[w] = visited[w]
         /\ stay'[w] \subseteq stay[w]
         /\ stale[w] => stale'[w]
         /\ stale'[w] /\ ~stale[w] => /\ pc[c] \in {"destroy", "free"}
                                      /\ curr[w] = curr[c] /\ curr[w] # NULL
         /\ Unlink(c) => c \notin stay'[w]
         /\ DestroyClient(c) /\ curr[w] = curr[c] => stale'[w]
<1> USE DEF IInv
<1>1. pc'[w] = pc[w] /\ curr'[w] = curr[w] /\ visited'[w] = visited[w]
  BY ListenerFrame, Labels
<1>2. stay' = stay \/ stay' = [v \in Workers |-> stay[v] \ {c}]
  BY DEF ListenerStep, LeaveLock, Search, Unlink, DestroyClient, FreeNode, walks
<1>3. Unlink(c) => stay' = [v \in Workers |-> stay[v] \ {c}]
  BY DEF Unlink
<1>4. DestroyClient(c) \/ FreeNode(c) =>
        stale' = Stale(curr[c]) /\ pc[c] \in {"destroy", "free"} /\ curr[c] # NULL
  BY DEF DestroyClient, FreeNode, At, RemovalInv
<1>5. LeaveLock(c) \/ Search(c) \/ Unlink(c) => stale' = stale
  BY DEF LeaveLock, Search, Unlink, walks
<1>6. Stale(curr[c])[w] <=> stale[w] \/ curr[w] = curr[c]
  BY DEF Stale
<1>7. CASE DestroyClient(c) \/ FreeNode(c)
  <2>1. stale'[w] <=> stale[w] \/ curr[w] = curr[c]
    BY <1>4, <1>6, <1>7
  <2> QED
    BY <1>1, <1>2, <1>3, <1>4, <1>7, <2>1
<1>8. CASE LeaveLock(c) \/ Search(c) \/ Unlink(c)
  <2>1. ~DestroyClient(c)
    BY <1>8 DEF LeaveLock, Search, Unlink, DestroyClient, At
  <2> QED
    BY <1>1, <1>2, <1>3, <1>5, <1>8, <2>1
<1> QED
  BY <1>7, <1>8 DEF ListenerStep

LEMMA StepWalk == IInv /\ [Next]_vars => WalkInv'
<1> SUFFICES ASSUME IInv, [Next]_vars PROVE WalkInv'
  OBVIOUS
<1> USE DEF IInv
<1>1. /\ Main \in Threads /\ Main \notin Clients /\ Clients \cap Workers = {} /\ Main \notin Workers
      /\ Clients \subseteq Threads /\ Workers \subseteq Threads /\ NULL \notin Nodes
      /\ NULL \notin Threads
  BY Labels
<1>2. /\ pc \in [Threads -> MainLabels \cup ListenerLabels \cup WorkerLabels]
      /\ curr \in [Threads -> Nodes \cup {NULL}]
      /\ visited \in [Workers -> Seq(Clients)]
      /\ stay \in [Workers -> SUBSET Clients]
      /\ stale \in [Workers -> BOOLEAN]
  BY DEF TypeOK
<1> DEFINE Walking(w) ==
      /\ pc[w] = "idle" => curr[w] = NULL /\ visited[w] = <<>> /\ stay[w] = {} /\ ~stale[w]
      /\ pc[w] = "report" => curr[w] = NULL
      /\ pc[w] = "advance" => curr[w] # NULL
      /\ ~stale[w] /\ curr[w] # NULL => OnList(curr[w])
<1>3. ASSUME NEW w \in Workers PROVE Walking(w)
  BY DEF WalkInv
<1>4. ASSUME NEW w \in Workers, pc'[w] = pc[w], curr'[w] = curr[w], UNCHANGED walks,
             OnList(curr[w]) => OnList(curr[w])'
      PROVE  Walking(w)'
  BY <1>3, <1>4 DEF OnList, walks
<1>5. CASE MainStep
  <2> SUFFICES ASSUME NEW w \in Workers PROVE Walking(w)'
    BY DEF WalkInv
  <2>1. /\ pc'[w] = pc[w] /\ curr'[w] = curr[w] /\ UNCHANGED walks
        /\ \A c \in Clients : curr'[c] = curr[c]
    BY <1>1, <1>5, MainFrame
  <2>2. Range(chain) \subseteq Range(chain')
    BY <1>5, ChainGrows DEF MainStep, StartListener, SweepLock, SweepNode, SweepUnlock, ListStays,
                            list, fields
  <2>3. \A c \in Clients : pc[c] = "destroy" => pc'[c] = "destroy"
    <3>1. CASE StartListener
      <4>1. /\ pc' = [pc EXCEPT ![client[curr[Main]]] = "listen", ![Main] = "accept"]
            /\ pc[client[curr[Main]]] = "none"
        BY <3>1 DEF StartListener, At, MainInv
      <4> QED
        BY <1>1, <1>2, <4>1
    <3>2. CASE ~StartListener
      BY <1>5, <3>2, MainFrame
    <3> QED
      BY <3>1, <3>2
  <2> QED
    BY <1>4, <2>1, <2>2, <2>3 DEF OnList
<1>6. ASSUME NEW c \in Clients, ListenerStep(c) PROVE WalkInv'
  <2> SUFFICES ASSUME NEW w \in Workers PROVE Walking(w)'
    BY DEF WalkInv
  <2>1. /\ pc'[w] = pc[w] /\ curr'[w] = curr[w] /\ visited'[w] = visited[w]
        /\ stay'[w] \subseteq stay[w]
        /\ stale[w] => stale'[w]
        /\ stale'[w] /\ ~stale[w] => curr[w] # NULL
        /\ DestroyClient(c) /\ curr[w] = curr[c] => stale'[w]
    BY <1>6, RemovalAndWalks
  <2>2. /\ \A d \in Clients \ {c} : curr'[d] = curr[d] /\ pc'[d] = pc[d]
    BY <1>1, <1>6, ListenerFrame
  <2>3. pc[c] \in {"search", "destroy", "free"} =>
          \A d \in Clients \ {c} : pc[d] \notin {"destroy", "free"}
    BY DEF MutexInv
  <2>4. ASSUME ~stale'[w], curr[w] # NULL PROVE OnList(curr[w])'
    <3>1. OnList(curr[w]) /\ curr'[w] = curr[w]
      BY <1>3, <2>1, <2>4
    <3>2. CASE LeaveLock(c) \/ Search(c)
      <4>1. pc[c] # "destroy" /\ Range(chain') = Range(chain)
        BY <3>2 DEF LeaveLock, Search, At, list
      <4> QED
        BY <2>2, <3>1, <4>1 DEF OnList
    <3>3. CASE Unlink(c)
      <4>1. Range(chain') = Range(chain) \ {curr[c]}
        BY <3>3, ChainGrows
      <4>2. pc[c] = "search" /\ pc'[c] = "destroy" /\ curr' = curr
        BY <1>1, <1>2, <3>3 DEF Unlink, At, Goto
      <4> QED
        BY <2>2, <3>1, <4>1, <4>2 DEF OnList
    <3>4. CASE DestroyClient(c) \/ FreeNode(c)
      <4>1. pc[c] \in {"destroy", "free"} /\ Range(chain') = Range(chain)
        BY <3>4 DEF DestroyClient, FreeNode, At, list
      <4>2. curr[w] \in Range(chain)
        <5>1. CASE DestroyClient(c)
          BY <2>1, <2>3, <2>4, <3>1, <4>1, <5>1 DEF OnList
        <5>2. CASE FreeNode(c)
          BY <2>3, <3>1, <4>1, <5>2 DEF OnList, FreeNode, At
        <5> QED
          BY <3>4, <5>1, <5>2
      <4> QED
        BY <3>1, <4>1, <4>2 DEF OnList
    <3> QED
      BY <1>6, <3>2, <3>3, <3>4 DEF ListenerStep
  <2>5. pc[w] = "idle" => ~stale'[w] /\ stay'[w] = {}
    BY <1>3, <2>1
  <2> QED
    BY <1>3, <2>1, <2>4, <2>5
<1>7. ASSUME NEW w \in Workers, WorkerStep(w) PROVE WalkInv'
  <2> SUFFICES ASSUME NEW v \in Workers PROVE Walking(v)'
    BY DEF WalkInv
  <2>1. /\ \A t \in Threads \ {w} : curr'[t] = curr[t] /\ pc'[t] = pc[t]
        /\ UNCHANGED <<chain, next>>
        /\ \A u \in Workers \ {w} :
             visited'[u] = visited[u] /\ stay'[u] = stay[u] /\ stale'[u] = stale[u]
    BY <1>7, WorkerFrame DEF ListStays
  <2>2. \A c \in Clients : curr'[c] = curr[c] /\ pc'[c] = pc[c]
    BY <1>1, <2>1
  <2>3. ASSUME NEW u \in Workers, curr'[u] = NULL \/ curr'[u] \in Range(chain)
                                  \/ (curr'[u] = curr[u] /\ OnList(curr[u]))
        PROVE  curr'[u] # NULL => OnList(curr[u])'
    BY <2>1, <2>2, <2>3 DEF OnList
  <2>4. CASE v # w
    <3>1. /\ pc'[v] = pc[v] /\ curr'[v] = curr[v] /\ visited'[v] = visited[v]
          /\ stay'[v] = stay[v] /\ stale'[v] = stale[v]
      BY <1>1, <2>1, <2>4
    <3> QED
      BY <1>3, <2>3, <3>1
  <2>5. CASE v = w
    <3>1. CASE StartMsg(w) \/ StartListing(w)
      <4>1. pc'[w] = "visit" /\ curr'[w] = head
        BY <1>1, <1>2, <3>1 DEF StartMsg, StartListing, Begin, Goto
      <4>2. head # NULL => head \in Range(chain)
        <5>1. chain # <<>> => 1 \in DOMAIN chain
          BY ChainFacts
        <5> QED
          BY <5>1, ChainFacts DEF ChainInv
      <4> QED
        BY <2>3, <2>5, <4>1, <4>2
    <3>2. CASE Load(w) \/ Visit(w)
      <4>1. pc'[w] \in {"send", "advance"} /\ curr' = curr /\ curr[w] # NULL /\ stale' = stale
        BY <1>1, <1>2, <3>2 DEF Load, Visit, At, Goto, TargetInv
      <4> QED
        BY <1>3, <2>3, <2>5, <4>1
    <3>3. CASE Advance(w)
      <4>1. pc[w] = "advance" /\ pc'[w] = "visit" /\ curr'[w] = next[curr[w]] /\ stale' = stale
        BY <1>1, <1>2, <3>3 DEF Advance, At, Goto, NodeAfter, walks
      <4>2. ~stale[w] => next[curr[w]] \in Range(chain) \cup {NULL}
        <5> SUFFICES ASSUME ~stale[w] PROVE next[curr[w]] \in Range(chain) \cup {NULL}
          OBVIOUS
        <5>1. OnList(curr[w])
          BY <1>3, <4>1
        <5>2. CASE curr[w] \in Range(chain)
          <6>1. PICK i \in DOMAIN chain : curr[w] = chain[i]
            BY <5>2, ChainFacts
          <6>2. i # Len(chain) => i + 1 \in DOMAIN chain
            BY ChainFacts
          <6> QED
            BY <6>1, <6>2, ChainFacts DEF ChainInv
        <5>3. CASE \E c \in Clients : pc[c] = "destroy" /\ curr[w] = curr[c]
          BY <5>3 DEF RemovalInv
        <5> QED
          BY <5>1, <5>2, <5>3 DEF OnList
      <4> QED
        BY <2>3, <2>5, <4>1, <4>2
    <3>4. CASE EndMsg(w) \/ SendListing(w)
      <4>1. /\ pc'[w] = "idle" /\ curr' = curr /\ curr[w] = NULL
            /\ visited' = [visited EXCEPT ![w] = <<>>] /\ stay' = [stay EXCEPT ![w] = {}]
            /\ stale' = [stale EXCEPT ![w] = FALSE]
        BY <1>1, <1>2, <1>3, <3>4 DEF EndMsg, SendListing, At, Goto, Reset
      <4> QED
        BY <1>2, <2>5, <4>1
    <3>5. CASE EndListing(w)
      <4>1. pc'[w] = "report" /\ curr' = curr /\ curr[w] = NULL
        BY <1>1, <1>2, <3>5 DEF EndListing, Goto
      <4> QED
        BY <2>5, <4>1
    <3>6. CASE FormatFreed(w) \/ LoseListing(w)
      <4>1. pc' = pc /\ curr' = curr /\ visited' = visited /\ stay' = stay /\ stale' = stale
        BY <3>6 DEF FormatFreed, LoseListing, walks
      <4> QED
        BY <1>3, <2>3, <2>5, <4>1
    <3> QED
      BY <1>7, <3>1, <3>2, <3>3, <3>4, <3>5, <3>6 DEF WorkerStep
  <2> QED
    BY <2>4, <2>5
<1>8. CASE UNCHANGED vars
  <2>1. UNCHANGED <<pc, curr, chain, walks>>
    BY <1>8 DEF vars, list
  <2>2. ASSUME NEW w \in Workers PROVE Walking(w)'
    BY <1>4, <2>1 DEF OnList
  <2> QED
    BY <2>2 DEF WalkInv
<1> QED
  BY <1>5, <1>6, <1>7, <1>8 DEF Next

LEMMA StepTarget == IInv /\ [Next]_vars => TargetInv'
<1> SUFFICES ASSUME IInv, [Next]_vars, NEW v \in Workers
             PROVE  /\ pc'[v] = "send" => curr'[v] # NULL /\ target'[v] # NULL
                    /\ pc'[v] = "send" /\ ~stale'[v] => target'[v] = client'[curr'[v]]
                    /\ ~stale'[v] => misled'[v] = {}
  BY DEF TargetInv
<1> USE DEF IInv
<1>1. /\ Main \in Threads /\ Main \notin Clients /\ Clients \cap Workers = {} /\ Main \notin Workers
      /\ Clients \subseteq Threads /\ Workers \subseteq Threads /\ NULL \notin Clients
  BY Labels
<1>2. /\ pc \in [Threads -> MainLabels \cup ListenerLabels \cup WorkerLabels]
      /\ target \in [Workers -> Clients \cup {NULL}]
      /\ misled \in [Workers -> SUBSET Clients]
      /\ stale \in [Workers -> BOOLEAN]
      /\ client \in [Nodes -> Clients \cup {NULL}]
  BY DEF TypeOK
<1>3. /\ pc[v] = "send" => curr[v] # NULL /\ target[v] # NULL
      /\ pc[v] = "send" /\ ~stale[v] => target[v] = client[curr[v]]
      /\ ~stale[v] => misled[v] = {}
  BY DEF TargetInv
\* The client of the node a walk stands on changes only if the node was freed.
<1>4. ASSUME pc'[v] = pc[v], curr'[v] = curr[v], target'[v] = target[v], misled'[v] = misled[v],
             stale[v] => stale'[v], ~stale[v] /\ pc[v] = "send" => client'[curr[v]] = client[curr[v]]
      PROVE  /\ pc'[v] = "send" => curr'[v] # NULL /\ target'[v] # NULL
             /\ pc'[v] = "send" /\ ~stale'[v] => target'[v] = client'[curr'[v]]
             /\ ~stale'[v] => misled'[v] = {}
  <2>1. stale'[v] \/ ~stale[v]
    BY <1>4
  <2> QED
    BY <1>3, <1>4, <2>1
<1>5. CASE MainStep
  <2>1. /\ pc'[v] = pc[v] /\ curr'[v] = curr[v]
        /\ target' = target /\ misled' = misled /\ stale' = stale
    BY <1>1, <1>5, MainFrame DEF walks
  <2>2. ASSUME ~stale[v], pc[v] = "send" PROVE client'[curr[v]] = client[curr[v]]
    <3>1. curr[v] \in allocated
      BY <1>3, <2>2, WalkIsLive
    <3>2. CASE Create
      <4>1. PICK n \in Nodes, c \in Clients : n \notin allocated /\ client' = [client EXCEPT ![n] = c]
        BY <3>2, CreateFacts
      <4> QED
        BY <1>2, <3>1, <4>1
    <3>3. CASE ~Create
      BY <1>5, <3>3 DEF MainStep, Add, StartListener, SweepLock, SweepNode, SweepUnlock, list, fields
    <3> QED
      BY <3>2, <3>3
  <2> QED
    BY <1>4, <2>1, <2>2
<1>6. ASSUME NEW c \in Clients, ListenerStep(c)
      PROVE  /\ pc'[v] = "send" => curr'[v] # NULL /\ target'[v] # NULL
             /\ pc'[v] = "send" /\ ~stale'[v] => target'[v] = client'[curr'[v]]
             /\ ~stale'[v] => misled'[v] = {}
  <2>1. client' = client /\ target' = target /\ misled' = misled
    BY <1>6, ListenerFrame
  <2>2. pc'[v] = pc[v] /\ curr'[v] = curr[v] /\ (stale[v] => stale'[v])
    BY <1>6, RemovalAndWalks
  <2> QED
    BY <1>4, <2>1, <2>2
<1>7. ASSUME NEW w \in Workers, WorkerStep(w)
      PROVE  /\ pc'[v] = "send" => curr'[v] # NULL /\ target'[v] # NULL
             /\ pc'[v] = "send" /\ ~stale'[v] => target'[v] = client'[curr'[v]]
             /\ ~stale'[v] => misled'[v] = {}
  <2>1. client' = client
    BY <1>7, WorkerFrame DEF ListStays
  <2>2. CASE v # w
    <3>1. /\ pc'[v] = pc[v] /\ curr'[v] = curr[v] /\ stale'[v] = stale[v]
          /\ target'[v] = target[v] /\ misled'[v] = misled[v]
      BY <1>1, <1>7, <2>2, WorkerFrame
    <3> QED
      BY <1>4, <2>1, <3>1
  <2>3. CASE v = w
    <3>1. CASE Load(w)
      <4>1. /\ curr' = curr /\ curr[w] # NULL /\ stale' = stale /\ misled' = misled
            /\ target' = [target EXCEPT ![w] = client[curr[w]]]
        BY <3>1 DEF Load
      <4>2. target'[w] = client[curr[w]] /\ client[curr[w]] \in Clients
        BY <1>1, <1>2, <4>1, Reached
      <4> QED
        BY <1>1, <1>3, <2>1, <2>3, <4>1, <4>2
    <3>2. CASE Visit(w)
      <4>1. /\ pc[w] = "send" /\ pc'[w] = "advance" /\ stale' = stale
            /\ target[w] \notin destroyed => misled' = misled
        BY <1>1, <1>2, <3>2 DEF Visit, At, Goto
      <4>2. ~stale[w] => target[w] \notin destroyed
        BY <1>3, <2>3, <4>1, WalkIsLive
      <4> QED
        BY <1>3, <2>3, <4>1, <4>2
    <3>3. CASE EndMsg(w) \/ SendListing(w)
      <4>1. pc'[w] = "idle" /\ misled' = [misled EXCEPT ![w] = {}]
        BY <1>1, <1>2, <3>3 DEF EndMsg, SendListing, Goto, Reset
      <4> QED
        BY <1>2, <2>3, <4>1
    <3>4. CASE StartMsg(w) \/ StartListing(w) \/ Advance(w) \/ EndListing(w)
      <4>1. pc'[w] # "send" /\ misled' = misled /\ stale' = stale
        BY <1>1, <1>2, <3>4 DEF StartMsg, StartListing, Begin, Advance, EndListing, Goto, walks
      <4> QED
        BY <1>3, <2>3, <4>1
    <3>5. CASE FormatFreed(w) \/ LoseListing(w)
      <4>1. UNCHANGED <<pc, curr, target, misled, stale>>
        BY <3>5 DEF FormatFreed, LoseListing, walks
      <4> QED
        BY <1>4, <2>1, <4>1
    <3> QED
      BY <1>7, <3>1, <3>2, <3>3, <3>4, <3>5 DEF WorkerStep
  <2> QED
    BY <2>2, <2>3
<1>8. CASE UNCHANGED vars
  <2>1. UNCHANGED <<pc, curr, client, target, misled, stale>>
    BY <1>8 DEF vars, list, fields, walks
  <2> QED
    BY <1>4, <2>1
<1> QED
  BY <1>5, <1>6, <1>7, <1>8 DEF Next

LEMMA StepLockedWalk == IInv /\ [Next]_vars => LockedWalkInv'
<1> SUFFICES ASSUME IInv, [Next]_vars, NEW w \in Workers, mutex' = w
             PROVE  /\ ~stale'[w]
                    /\ curr'[w] = NULL => VisitedFirst(w, Len(chain))'
                    /\ \A i \in DOMAIN chain' : curr'[w] = chain'[i] =>
                         VisitedFirst(w, IF pc[w] = "advance" THEN i ELSE i - 1)'
  BY DEF LockedWalkInv
<1> USE DEF IInv
<1> DEFINE Walked(k) == VisitedFirst(w, k)
           Locked ==
             /\ ~stale'[w]
             /\ curr'[w] = NULL => Walked(Len(chain))'
             /\ \A i \in DOMAIN chain' : curr'[w] = chain'[i] =>
                  Walked(IF pc[w] = "advance" THEN i ELSE i - 1)'
<1>1. /\ Main \in Threads /\ Main \notin Clients /\ Clients \cap Workers = {} /\ Main \notin Workers
      /\ Clients \subseteq Threads /\ Workers \subseteq Threads /\ NULL \notin Nodes
      /\ NULL \notin Threads
  BY Labels
<1>2. /\ pc \in [Threads -> MainLabels \cup ListenerLabels \cup WorkerLabels]
      /\ curr \in [Threads -> Nodes \cup {NULL}]
      /\ visited \in [Workers -> Seq(Clients)]
      /\ stale \in [Workers -> BOOLEAN]
      /\ client \in [Nodes -> Clients \cup {NULL}]
  BY DEF TypeOK
<1>3. /\ Len(chain) \in Nat /\ DOMAIN chain = 1 .. Len(chain)
      /\ \A i \in DOMAIN chain : chain[i] \in Nodes
      /\ \A i \in DOMAIN chain : client[chain[i]] \in Clients
      /\ \A n : n \in Range(chain) <=> \E i \in DOMAIN chain : n = chain[i]
  BY ChainFacts, Reached
\* A step of another thread, under which the members stay what they are.
<1>4. ASSUME mutex = w, chain' = chain, \A i \in DOMAIN chain : client'[chain[i]] = client[chain[i]],
             pc'[w] = pc[w], curr'[w] = curr[w], visited'[w] = visited[w], stale'[w] = stale[w]
      PROVE  Locked
  <2>1. ASSUME NEW k PROVE VisitedFirst(w, k) => /\ Len(visited'[w]) = k
                                                 /\ \A i \in 1 .. k :
                                                      /\ i \in DOMAIN chain'
                                                      /\ visited'[w][i] = client'[chain'[i]]
    BY <1>4 DEF VisitedFirst
  <2> QED
    BY <1>4, <2>1 DEF LockedWalkInv, VisitedFirst
<1>5. CASE MainStep
  <2>1. mutex = w
    BY <1>1, <1>5 DEF MainStep, Create, Add, StartListener, SweepLock, SweepNode, SweepUnlock, Lock
  <2>2. /\ pc'[w] = pc[w] /\ curr'[w] = curr[w] /\ UNCHANGED walks
    BY <1>1, <1>5, MainFrame
  <2>3. chain' = chain /\ \A i \in DOMAIN chain : client'[chain[i]] = client[chain[i]]
    <3>1. CASE Create
      <4>1. PICK n \in Nodes, c \in Clients : n \notin Range(chain) /\ client' = [client EXCEPT ![n] = c]
        BY <3>1, CreateFacts
      <4>2. chain' = chain
        BY <3>1 DEF Create
      <4> QED
        BY <1>2, <1>3, <4>1, <4>2
    <3>2. CASE Add
      BY <1>1, <2>1, <3>2 DEF Add
    <3>3. CASE StartListener \/ SweepLock \/ SweepNode \/ SweepUnlock
      BY <3>3 DEF StartListener, SweepLock, SweepNode, SweepUnlock, list, fields
    <3> QED
      BY <1>5, <3>1, <3>2, <3>3 DEF MainStep
  <2> QED
    BY <1>4, <2>1, <2>2, <2>3 DEF walks
<1>6. ASSUME NEW c \in Clients, ListenerStep(c) PROVE Locked
  <2>1. pc[c] \in {"search", "destroy", "free"} <=> mutex = c
    BY DEF MutexInv
  <2>2. FALSE
    BY <1>1, <1>6, <2>1
       DEF ListenerStep, LeaveLock, Search, Unlink, DestroyClient, FreeNode, Lock, At
  <2> QED
    BY <2>2
<1>7. ASSUME NEW v \in Workers, WorkerStep(v) PROVE Locked
  <2>1. /\ \A t \in Threads \ {v} : curr'[t] = curr[t] /\ pc'[t] = pc[t]
        /\ UNCHANGED <<chain, client>>
        /\ \A u \in Workers \ {v} :
             visited'[u] = visited[u] /\ stay'[u] = stay[u] /\ stale'[u] = stale[u]
    BY <1>7, WorkerFrame DEF ListStays
  <2>2. CASE v # w
    <3>1. mutex = w
      BY <1>1, <1>7, <2>2 DEF WorkerStep, StartMsg, StartListing, FormatFreed, Begin, Load, Visit, Advance, EndMsg,
                              EndListing, SendListing, LoseListing, Lock
    <3> QED
      BY <1>1, <1>4, <2>1, <2>2, <3>1
  <2>3. CASE v = w
    <3>1. CASE StartListing(w)
      <4>1. /\ pc[w] = "idle" /\ pc'[w] = "visit" /\ curr'[w] = head
            /\ visited' = visited /\ stale' = stale
        BY <1>1, <1>2, <3>1 DEF StartListing, Begin, At, Goto
      <4>2. visited[w] = <<>> /\ ~stale[w]
        BY <4>1 DEF WalkInv
      <4>3. VisitedFirst(w, 0)'
        BY <4>1, <4>2 DEF VisitedFirst
      <4>4. chain = <<>> => Len(chain) = 0
        BY ChainFacts
      <4>5. curr'[w] = NULL => Len(chain') = 0
        <5>1. chain # <<>> => head \in Nodes
          BY Reached, ChainFacts DEF ChainInv
        <5> QED
          BY <1>1, <2>1, <4>1, <4>4, <5>1
      <4>6. \A i \in DOMAIN chain' : curr'[w] = chain'[i] => i - 1 = 0
        <5> SUFFICES ASSUME NEW i \in DOMAIN chain, head = chain[i] PROVE i = 1
          BY <2>1, <4>1
        <5>1. chain # <<>> /\ 1 \in DOMAIN chain
          BY <1>3, ChainFacts
        <5> QED
          BY <5>1 DEF ChainInv
      <4> HIDE DEF Walked
      <4>7. Walked(0)'
        BY <4>3 DEF Walked
      <4>8. curr'[w] = NULL => Walked(Len(chain))'
        BY <4>5, <4>7 DEF Walked
      <4>9. \A i \in DOMAIN chain' : curr'[w] = chain'[i] => Walked(i - 1)'
        BY <4>6, <4>7 DEF Walked
      <4> QED
        BY <4>1, <4>2, <4>8, <4>9 DEF Walked
    <3>2. CASE Visit(w)
      <4>1. /\ mutex = w /\ pc[w] = "send" /\ pc'[w] = "advance" /\ curr' = curr /\ stale' = stale
            /\ curr[w] # NULL
        BY <1>1, <1>2, <3>2 DEF Visit, At, Goto, TargetInv
      <4>2. ~stale[w]
        BY <4>1 DEF LockedWalkInv
      <4>3. client[curr[w]] \notin destroyed /\ target[w] = client[curr[w]]
        BY <4>1, <4>2, WalkIsLive DEF TargetInv
      <4>4. visited'[w] = Append(visited[w], client[curr[w]])
        BY <1>2, <3>2, <4>3 DEF Visit
      <4>5. ASSUME NEW i \in DOMAIN chain, curr[w] = chain[i] PROVE VisitedFirst(w, i)'
        <5>1. Len(visited[w]) = i - 1
              /\ \A j \in 1 .. i - 1 : j \in DOMAIN chain /\ visited[w][j] = client[chain[j]]
          BY <4>1, <4>5 DEF LockedWalkInv, VisitedFirst
        <5>2. visited[w] \in Seq(Clients) /\ client[curr[w]] \in Clients
          BY <1>2, <1>3, <4>5
        <5> DEFINE s == Append(visited[w], client[curr[w]])
        <5>3. /\ Len(s) = Len(visited[w]) + 1
              /\ \A j \in 1 .. Len(visited[w]) : s[j] = visited[w][j]
              /\ s[Len(visited[w]) + 1] = client[curr[w]]
          BY <5>2, AppendFacts
        <5> HIDE DEF s
        <5>4. Len(s) = i /\ s[i] = client[chain[i]]
          BY <1>3, <4>5, <5>1, <5>3
        <5>5. \A j \in 1 .. i : j \in DOMAIN chain /\ s[j] = client[chain[j]]
          <6> SUFFICES ASSUME NEW j \in 1 .. i PROVE j \in DOMAIN chain /\ s[j] = client[chain[j]]
            OBVIOUS
          <6>1. CASE j = i
            BY <5>4, <6>1
          <6>2. CASE j # i
            <7>1. j \in 1 .. i - 1
              BY <1>3, <6>2
            <7> QED
              BY <5>1, <5>3, <7>1
          <6> QED
            BY <6>1, <6>2
        <5>6. visited'[w] = s
          BY <4>4 DEF s
        <5>7. Len(visited'[w]) = i /\ \A j \in 1 .. i : visited'[w][j] = client[chain[j]]
          BY <5>4, <5>5, <5>6, Zenon
        <5> QED
          BY <2>1, <5>5, <5>7 DEF VisitedFirst
      <4> QED
        BY <2>1, <4>1, <4>2, <4>5 DEF VisitedFirst
    <3>3. CASE Advance(w)
      <4>1. /\ mutex = w /\ pc[w] = "advance" /\ pc'[w] = "visit" /\ curr'[w] = next[curr[w]]
            /\ UNCHANGED <<visited, stale>>
        BY <1>1, <1>2, <3>3 DEF Advance, At, Goto, NodeAfter, walks
      <4>2. ~stale[w] /\ OnList(curr[w])
        BY <4>1 DEF LockedWalkInv, WalkInv
      <4>3. \A c \in Clients : pc[c] # "destroy"
        BY <1>1, <4>1 DEF MutexInv
      <4>4. PICK i \in DOMAIN chain : curr[w] = chain[i]
        BY <1>3, <4>2, <4>3 DEF OnList
      <4>5. VisitedFirst(w, i)
        BY <4>1, <4>4 DEF LockedWalkInv
      <4>6. VisitedFirst(w, i)'
        BY <2>1, <4>1, <4>5 DEF VisitedFirst
      <4>7. curr'[w] = IF i = Len(chain) THEN NULL ELSE chain[i + 1]
        BY <4>1, <4>4 DEF ChainInv
      <4>8. i # Len(chain) => i + 1 \in DOMAIN chain
        BY <1>3
      <4>9. curr'[w] = NULL => Len(chain') = i
        BY <1>1, <1>3, <2>1, <4>7, <4>8
      <4>10. \A j \in DOMAIN chain' : curr'[w] = chain'[j] => j - 1 = i
        <5> SUFFICES ASSUME NEW j \in DOMAIN chain, curr'[w] = chain[j] PROVE j - 1 = i
          BY <2>1
        <5>1. i # Len(chain) /\ chain[i + 1] = chain[j]
          BY <1>1, <1>3, <4>7
        <5>2. j = i + 1
          BY <4>8, <5>1 DEF ChainInv
        <5> QED
          BY <1>3, <5>2
      <4> HIDE DEF Walked
      <4>11. Walked(i)'
        BY <4>6 DEF Walked
      <4>12. curr'[w] = NULL => Walked(Len(chain))'
        BY <4>9, <4>11 DEF Walked
      <4>13. \A j \in DOMAIN chain' : curr'[w] = chain'[j] => Walked(j - 1)'
        BY <4>10, <4>11 DEF Walked
      <4> QED
        BY <4>1, <4>2, <4>12, <4>13 DEF Walked
    <3>4. CASE StartMsg(w) \/ EndMsg(w) \/ EndListing(w) \/ SendListing(w) \/ LoseListing(w)
      BY <1>1, <3>4 DEF StartMsg, Begin, EndMsg, EndListing, SendListing, LoseListing, At, MutexInv
    <3>5. CASE FormatFreed(w)
      BY <1>1, <3>5 DEF FormatFreed, At, MutexInv
    <3>6. CASE Load(w)
      <4>1. /\ mutex = w /\ pc[w] = "visit" /\ pc'[w] = "send"
            /\ UNCHANGED <<chain, client, curr, visited, stale>>
        BY <1>1, <1>2, <3>6 DEF Load, At, Goto, list, fields
      <4>2. \A k : VisitedFirst(w, k) => VisitedFirst(w, k)'
        BY <4>1 DEF VisitedFirst
      <4>3. ~stale[w] /\ curr[w] # NULL
        BY <3>6, <4>1 DEF LockedWalkInv, Load
      <4>4. \A i \in DOMAIN chain : curr[w] = chain[i] => VisitedFirst(w, i - 1)
        BY <4>1 DEF LockedWalkInv
      <4>5. \A i \in DOMAIN chain' : curr'[w] = chain'[i] => VisitedFirst(w, i - 1)'
        BY <4>1, <4>2, <4>4
      <4> QED
        BY <4>1, <4>3, <4>5
    <3> QED
      BY <1>7, <2>3, <3>1, <3>2, <3>3, <3>4, <3>5, <3>6 DEF WorkerStep
  <2> QED
    BY <2>2, <2>3
<1>8. CASE UNCHANGED vars
  BY <1>4, <1>8 DEF vars, list, fields, walks
<1> QED
  BY <1>5, <1>6, <1>7, <1>8 DEF Next

LEMMA StepFresh == IInv /\ [Next]_vars => FreshInv'
<1> SUFFICES ASSUME IInv, [Next]_vars PROVE FreshInv'
  OBVIOUS
<1> USE DEF IInv
<1>1. /\ Main \in Threads /\ Main \notin Clients /\ Clients \cap Workers = {} /\ Main \notin Workers
      /\ Clients \subseteq Threads /\ Workers \subseteq Threads
  BY Labels
<1>2. /\ pc \in [Threads -> MainLabels \cup ListenerLabels \cup WorkerLabels]
      /\ curr \in [Threads -> Nodes \cup {NULL}]
      /\ visited \in [Workers -> Seq(Clients)]
      /\ target \in [Workers -> Clients \cup {NULL}]
      /\ client \in [Nodes -> Clients \cup {NULL}]
  BY DEF TypeOK
<1> DEFINE Underway(c) == pc[Main] \in {"link", "start"} /\ client[curr[Main]] = c
           Unknown(c) == /\ \A n \in Nodes : client[n] # c
                         /\ \A w \in Workers : c \notin Range(visited[w]) /\ target[w] # c
           Known(c) == pc[c] = "none" => Underway(c) \/ Unknown(c)
<1>3. ASSUME NEW c \in Clients PROVE Known(c)
  BY DEF FreshInv
<1>4. SUFFICES ASSUME NEW c \in Clients PROVE Known(c)'
  BY DEF FreshInv
<1>5. ASSUME pc'[c] = "none" => pc[c] = "none", UNCHANGED <<client, visited, target>>,
             Underway(c) => Underway(c)'
      PROVE  Known(c)'
  BY <1>3, <1>5
<1>6. CASE MainStep
  <2>1. UNCHANGED <<visited, target>>
    BY <1>6, MainFrame DEF walks
  <2>2. CASE Create
    <3>1. PICK n \in Nodes, d \in Clients :
             /\ pc[Main] = "accept" /\ client' = [client EXCEPT ![n] = d]
             /\ curr' = [curr EXCEPT ![Main] = n] /\ pc' = [pc EXCEPT ![Main] = "link"]
      BY <2>2, CreateFacts
    <3>2. pc'[Main] = "link" /\ curr'[Main] = n /\ client'[n] = d /\ pc'[c] = pc[c]
      BY <1>1, <1>2, <3>1
    <3>3. pc[c] = "none" => Unknown(c)
      BY <1>3, <3>1
    <3>4. CASE c = d
      BY <3>2, <3>4
    <3>5. CASE c # d
      <4>1. pc[c] = "none" => \A m \in Nodes : client'[m] # c
        BY <1>2, <3>1, <3>3, <3>5
      <4> QED
        BY <2>1, <3>2, <3>3, <4>1
    <3> QED
      BY <3>4, <3>5
  <2>3. CASE Add
    <3>1. UNCHANGED <<client, curr>> /\ pc'[c] = pc[c] /\ pc'[Main] = "start"
      BY <1>1, <1>2, <2>3 DEF Add, Goto
    <3> QED
      BY <1>5, <2>1, <3>1
  <2>4. CASE StartListener
    <3>1. UNCHANGED client /\ pc[Main] = "start"
          /\ pc' = [pc EXCEPT ![client[curr[Main]]] = "listen", ![Main] = "accept"]
      BY <2>4 DEF StartListener, At, list, fields
    <3>2. pc'[c] = "none" => pc[c] = "none" /\ ~Underway(c)
      BY <1>1, <1>2, <3>1
    <3> QED
      BY <1>3, <2>1, <3>1, <3>2
  <2>5. CASE SweepLock \/ SweepNode \/ SweepUnlock
    <3>1. UNCHANGED client /\ pc[Main] \notin {"link", "start"} /\ pc'[c] = pc[c]
      BY <1>1, <1>2, <2>5 DEF SweepLock, SweepNode, SweepUnlock, At, Goto, list, fields
    <3> QED
      BY <1>5, <2>1, <3>1
  <2> QED
    BY <1>6, <2>2, <2>3, <2>4, <2>5 DEF MainStep
<1>7. ASSUME NEW d \in Clients, ListenerStep(d) PROVE Known(c)'
  <2>1. /\ \A t \in Threads \ {d} : curr'[t] = curr[t] /\ pc'[t] = pc[t]
        /\ UNCHANGED <<client, visited, target>>
    BY <1>7, ListenerFrame
  <2>2. pc'[d] # "none"
    BY <1>1, <1>2, <1>7 DEF ListenerStep, LeaveLock, Search, Unlink, DestroyClient, FreeNode, At, Goto
  <2> QED
    BY <1>1, <1>5, <2>1, <2>2
<1>8. ASSUME NEW w \in Workers, WorkerStep(w) PROVE Known(c)'
  <2>1. /\ \A t \in Threads \ {w} : curr'[t] = curr[t] /\ pc'[t] = pc[t]
        /\ UNCHANGED client
        /\ \A v \in Workers \ {w} : visited'[v] = visited[v] /\ target'[v] = target[v]
    BY <1>8, WorkerFrame DEF ListStays
  <2>2. pc'[c] = pc[c] /\ (Underway(c) => Underway(c)')
    BY <1>1, <2>1
  <2>3. ASSUME Unknown(c) PROVE c \notin Range(visited'[w])
    <3>1. CASE Visit(w)
      <4>1. visited'[w] = visited[w] \/ visited'[w] = Append(visited[w], target[w])
        BY <1>2, <3>1 DEF Visit
      <4>2. target[w] \in Clients
        BY <1>2, <3>1 DEF Visit, At, TargetInv
      <4>3. Range(Append(visited[w], target[w])) = Range(visited[w]) \cup {target[w]}
        BY <1>2, <4>2, AppendFacts
      <4>4. c # target[w] /\ c \notin Range(visited[w])
        BY <2>3, <4>2
      <4>5. c \notin Range(Append(visited[w], target[w]))
        BY <4>3, <4>4
      <4> QED
        BY <4>1, <4>4, <4>5, Zenon
    <3>2. CASE ~Visit(w)
      <4>1. visited'[w] = visited[w] \/ visited'[w] = <<>>
        BY <1>2, <1>8, <3>2 DEF WorkerStep, StartMsg, StartListing, FormatFreed, Begin, Load, Advance, EndMsg, EndListing,
                              SendListing, LoseListing, Reset, walks
      <4>2. c \notin Range(<<>>)
        BY DEF Range
      <4> QED
        BY <2>3, <4>1, <4>2
    <3> QED
      BY <3>1, <3>2
  <2>4. ASSUME Unknown(c) PROVE target'[w] # c
    <3>1. CASE Load(w)
      <4>1. curr[w] # NULL /\ target' = [target EXCEPT ![w] = client[curr[w]]]
        BY <3>1 DEF Load
      <4>2. curr[w] \in Nodes
        BY <1>1, <4>1, Reached
      <4> QED
        BY <1>2, <2>4, <4>1, <4>2
    <3>2. CASE ~Load(w)
      <4>1. target'[w] = target[w] \/ target'[w] = NULL
        BY <1>2, <1>8, <3>2 DEF WorkerStep, StartMsg, StartListing, FormatFreed, Begin, Visit, Advance,
                              EndMsg, EndListing, SendListing, LoseListing, Reset, walks
      <4>2. c # NULL
        BY Labels
      <4> QED
        BY <2>4, <4>1, <4>2
    <3> QED
      BY <3>1, <3>2
  <2>5. Unknown(c) => Unknown(c)'
    BY <2>1, <2>3, <2>4
  <2> QED
    BY <1>3, <2>2, <2>5
<1>9. CASE UNCHANGED vars
  BY <1>5, <1>9 DEF vars, list, fields, walks
<1> QED
  BY <1>6, <1>7, <1>8, <1>9 DEF Next

LEMMA StepStay == IInv /\ [Next]_vars => StayInv'
<1> SUFFICES ASSUME IInv, [Next]_vars, NEW w \in Workers, NEW c \in stay'[w]
             PROVE  \E i \in DOMAIN chain' : client'[chain'[i]] = c
  BY DEF StayInv
<1>1. MembersInv'
  BY StepMembers
<1> USE DEF IInv
<1> DEFINE InList == \E i \in DOMAIN chain : client[chain[i]] = c
           Starting == pc[Main] = "start" /\ c = client[curr[Main]]
<1>2. /\ Main \in Threads /\ Main \notin Clients /\ Clients \cap Workers = {} /\ Main \notin Workers
      /\ Clients \subseteq Threads /\ Workers \subseteq Threads
  BY Labels
<1>3. /\ pc \in [Threads -> MainLabels \cup ListenerLabels \cup WorkerLabels]
      /\ stay \in [Workers -> SUBSET Clients]
  BY DEF TypeOK
<1>4. c \in stay[w] => c \in Clients /\ InList
  BY <1>3 DEF StayInv
<1>5. ASSUME c \in Clients
      PROVE  /\ InList <=> pc[c] \in {"listen", "search"} \/ Starting
             /\ InList' <=> pc'[c] \in {"listen", "search"} \/ Starting'
  BY <1>1, <1>5 DEF MembersInv
<1>6. CASE MainStep
  <2>1. c \in Clients /\ (pc[c] \in {"listen", "search"} \/ Starting)
    BY <1>4, <1>5, <1>6, MainFrame DEF walks
  <2>2. CASE StartListener
    <3>1. pc' = [pc EXCEPT ![client[curr[Main]]] = "listen", ![Main] = "accept"]
      BY <2>2 DEF StartListener
    <3>2. pc'[c] \in {"listen", "search"}
      BY <1>2, <1>3, <2>1, <3>1
    <3> QED
      BY <1>5, <2>1, <3>2
  <2>3. CASE ~StartListener
    <3>1. pc[Main] # "start" /\ pc'[c] = pc[c]
      BY <1>6, <2>1, <2>3, MainFrame DEF MainStep, Create, Add, SweepLock, SweepNode, SweepUnlock, At
    <3> QED
      BY <1>5, <2>1, <3>1
  <2> QED
    BY <2>2, <2>3
<1>7. ASSUME NEW d \in Clients, ListenerStep(d) PROVE InList'
  <2>1. c \in stay[w] /\ (Unlink(d) => d # c)
    BY <1>7, RemovalAndWalks
  <2>2. /\ \A t \in Threads \ {d} : curr'[t] = curr[t] /\ pc'[t] = pc[t]
        /\ client' = client
    BY <1>7, ListenerFrame
  <2>3. c \in Clients /\ (pc[c] \in {"listen", "search"} \/ Starting)
    BY <1>4, <1>5, <2>1
  <2>4. Starting => Starting'
    BY <1>2, <2>2
  <2>5. pc[c] \in {"listen", "search"} => pc'[c] \in {"listen", "search"}
    <3>1. CASE d # c
      BY <1>2, <2>2, <2>3, <3>1
    <3>2. CASE d = c
      BY <1>2, <1>3, <1>7, <2>1, <3>2
         DEF ListenerStep, LeaveLock, Search, DestroyClient, FreeNode, At, Goto
    <3> QED
      BY <3>1, <3>2
  <2> QED
    BY <1>5, <2>3, <2>4, <2>5
<1>8. ASSUME NEW v \in Workers, WorkerStep(v) PROVE InList'
  <2>1. UNCHANGED <<chain, client>>
        /\ \A u \in Workers \ {v} : stay'[u] = stay[u]
    BY <1>8, WorkerFrame DEF ListStays
  <2>2. CASE c \in stay[w]
    BY <1>4, <2>1, <2>2
  <2>3. CASE c \notin stay[w]
    <3>1. v = w
      BY <2>1, <2>3
    <3>2. stay'[w] \subseteq stay[w] \/ stay'[w] = Range(Members)
      BY <1>3, <1>8, <3>1 DEF WorkerStep, StartMsg, StartListing, FormatFreed, Begin, Load, Visit, Advance, EndMsg,
                              EndListing, SendListing, LoseListing, Reset, walks
    <3>3. c \in Range(Members)
      BY <2>3, <3>2
    <3> QED
      BY <2>1, <3>3 DEF Members, Range
  <2> QED
    BY <2>2, <2>3
<1>9. CASE UNCHANGED vars
  BY <1>4, <1>9 DEF vars, list, fields, walks
<1> QED
  BY <1>6, <1>7, <1>8, <1>9 DEF Next

-----------------------------------------------------------------------------
(* The ages.                                                               *)

\* The ages that the lemmas compare are numbers.
LEMMA AgeTypes ==
  ASSUME IInv, NEW age \in [Clients -> Nat]
  PROVE  /\ \A c \in Clients : age[c] \in Nat
         /\ \A i \in DOMAIN chain : AgeOf(age, chain[i]) \in Nat
         /\ \A n \in Nodes : next[n] # NULL => /\ AgeOf(age, n) \in Nat
                                               /\ AgeOf(age, next[n]) \in Nat
         /\ \A t \in Threads : curr[t] # NULL => AgeOf(age, curr[t]) \in Nat
<1> USE DEF IInv
<1>1. \A i \in DOMAIN chain : client[chain[i]] \in Clients
  BY Reached
<1>2. \A n \in Nodes : next[n] # NULL => client[n] \in Clients /\ client[next[n]] \in Clients
  <2>1. \A n \in Nodes : client[n] # NULL => client[n] \in Clients
    BY Reached
  <2>2. \A n \in Nodes : next[n] # NULL => next[n] \in Nodes
    BY Reached
  <2> QED
    BY <2>1, <2>2 DEF ClientInv
<1>3. \A t \in Threads : curr[t] # NULL => client[curr[t]] \in Clients
  BY Reached
<1> QED
  BY <1>1, <1>2, <1>3 DEF AgeOf

\* Steps that do not fill in a node leave the ages as they are.
LEMMA SameClients ==
  ASSUME [Next]_vars, ~Create
  PROVE  client' = client
  BY ListFrame DEF Add, Unlink, ListStays

LEMMA StepYounger ==
  ASSUME IInv, [Next]_vars, ~Create, NEW age \in [Clients -> Nat],
         NextIsYounger(age), NewestIsLast(age)
  PROVE  NextIsYounger(age)'
<1> USE DEF IInv
<1>1. client' = client
  BY SameClients
<1>2. /\ Len(chain) \in Nat /\ DOMAIN chain = 1 .. Len(chain)
      /\ \A n : n \in Range(chain) <=> \E i \in DOMAIN chain : n = chain[i]
      /\ chain = <<>> <=> Len(chain) = 0
  BY ChainFacts
<1>3. \A i \in DOMAIN chain : /\ chain[i] \in Nodes /\ client[chain[i]] # NULL
                              /\ AgeOf(age, chain[i]) \in Nat
  BY Reached, AgeTypes DEF ClientInv
<1>4. SUFFICES /\ \A n \in Nodes : next'[n] # NULL => AgeOf(age, n) < AgeOf(age, next'[n])
               /\ \A i, j \in DOMAIN chain' : i < j => AgeOf(age, chain'[i]) < AgeOf(age, chain'[j])
  BY <1>1 DEF NextIsYounger, AgeOf
<1>5. /\ \A n \in Nodes : next[n] # NULL => AgeOf(age, n) < AgeOf(age, next[n])
      /\ \A i, j \in DOMAIN chain : i < j => AgeOf(age, chain[i]) < AgeOf(age, chain[j])
  BY DEF NextIsYounger
<1>6. CASE Add
  <2> DEFINE n == curr[Main]
             k == Len(chain)
  <2>1. /\ n \in Nodes /\ n \notin Range(chain)
        /\ DOMAIN chain' = 1 .. k + 1
        /\ \A i \in 1 .. k : chain'[i] = chain[i]
        /\ chain'[k + 1] = n
        /\ next' = [m \in Nodes |-> IF chain # <<>> /\ m = chain[k] THEN n ELSE next[m]]
    BY <1>6, AddFacts
  <2>2. \A m \in Nodes \ {n} : client[m] # NULL => AgeOf(age, m) < AgeOf(age, n)
    BY <1>6 DEF NewestIsLast, Add, At
  <2>3. \A i \in 1 .. k : AgeOf(age, chain[i]) < AgeOf(age, n)
    BY <1>2, <1>3, <2>1, <2>2
  <2> HIDE DEF n
  <2>4. \A m \in Nodes : next'[m] # NULL => AgeOf(age, m) < AgeOf(age, next'[m])
    <3> SUFFICES ASSUME NEW m \in Nodes, next'[m] # NULL PROVE AgeOf(age, m) < AgeOf(age, next'[m])
      OBVIOUS
    <3>1. CASE chain # <<>> /\ m = chain[k]
      <4>1. k \in 1 .. k /\ next'[m] = n
        BY <1>2, <2>1, <3>1
      <4> QED
        BY <2>3, <3>1, <4>1
    <3>2. CASE ~(chain # <<>> /\ m = chain[k])
      <4>1. next'[m] = next[m]
        BY <2>1, <3>2
      <4> QED
        BY <1>5, <4>1
    <3> QED
      BY <3>1, <3>2
  <2>5. \A i, j \in DOMAIN chain' : i < j => AgeOf(age, chain'[i]) < AgeOf(age, chain'[j])
    <3> SUFFICES ASSUME NEW i \in 1 .. k + 1, NEW j \in 1 .. k + 1, i < j
                 PROVE  AgeOf(age, chain'[i]) < AgeOf(age, chain'[j])
      BY <2>1
    <3>1. i \in 1 .. k /\ chain'[i] = chain[i]
      BY <1>2, <2>1
    <3>2. CASE j = k + 1
      BY <2>1, <2>3, <3>1, <3>2
    <3>3. CASE j # k + 1
      <4>1. j \in 1 .. k /\ chain'[j] = chain[j]
        BY <1>2, <2>1, <3>3
      <4> QED
        BY <1>2, <1>5, <3>1, <4>1
    <3> QED
      BY <3>2, <3>3
  <2> QED
    BY <2>4, <2>5
<1>7. ASSUME NEW c \in Clients, Unlink(c)
      PROVE  /\ \A n \in Nodes : next'[n] # NULL => AgeOf(age, n) < AgeOf(age, next'[n])
             /\ \A i, j \in DOMAIN chain' : i < j => AgeOf(age, chain'[i]) < AgeOf(age, chain'[j])
  <2> DEFINE len == Len(chain)
  <2>1. PICK k \in DOMAIN chain :
           /\ DOMAIN chain' = 1 .. len - 1
           /\ \A i \in 1 .. len - 1 : chain'[i] = IF i < k THEN chain[i] ELSE chain[i + 1]
           /\ next' = [m \in Nodes |-> IF k # 1 /\ m = chain[k - 1] THEN next[chain[k]] ELSE next[m]]
    BY <1>7, UnlinkFacts
  <2>2. \A m \in Nodes : next'[m] # NULL => AgeOf(age, m) < AgeOf(age, next'[m])
    <3> SUFFICES ASSUME NEW m \in Nodes, next'[m] # NULL PROVE AgeOf(age, m) < AgeOf(age, next'[m])
      OBVIOUS
    <3>1. CASE k # 1 /\ m = chain[k - 1]
      <4>1. next'[m] = next[chain[k]] /\ next[chain[k]] # NULL
        BY <2>1, <3>1
      <4>2. k # len /\ next[chain[k]] = chain[k + 1]
        BY <4>1 DEF ChainInv
      <4>3. k - 1 \in DOMAIN chain /\ k + 1 \in DOMAIN chain /\ k - 1 < k + 1
        BY <1>2, <3>1, <4>2
      <4> QED
        BY <1>5, <3>1, <4>1, <4>2, <4>3
    <3>2. CASE ~(k # 1 /\ m = chain[k - 1])
      <4>1. next'[m] = next[m]
        BY <2>1, <3>2
      <4> QED
        BY <1>5, <4>1
    <3> QED
      BY <3>1, <3>2
  <2>3. \A i, j \in DOMAIN chain' : i < j => AgeOf(age, chain'[i]) < AgeOf(age, chain'[j])
    <3> SUFFICES ASSUME NEW i \in 1 .. len - 1, NEW j \in 1 .. len - 1, i < j
                 PROVE  AgeOf(age, chain'[i]) < AgeOf(age, chain'[j])
      BY <2>1
    <3>1. /\ i \in DOMAIN chain /\ i + 1 \in DOMAIN chain
          /\ j \in DOMAIN chain /\ j + 1 \in DOMAIN chain
          /\ i < j + 1 /\ i + 1 < j + 1 /\ (~(i < k) => ~(j < k))
      BY <1>2
    <3>2. /\ chain'[i] = IF i < k THEN chain[i] ELSE chain[i + 1]
          /\ chain'[j] = IF j < k THEN chain[j] ELSE chain[j + 1]
      BY <2>1
    <3> QED
      BY <1>5, <3>1, <3>2
  <2> QED
    BY <2>2, <2>3
<1>8. CASE ListStays
  BY <1>5, <1>8 DEF ListStays
<1> QED
  BY <1>6, <1>7, <1>8, ListFrame

LEMMA StepNewest ==
  ASSUME IInv, [Next]_vars, ~Create, NEW age \in [Clients -> Nat], NewestIsLast(age)
  PROVE  NewestIsLast(age)'
<1> USE DEF IInv
<1>1. client' = client
  BY SameClients
<1>2. Main \in Threads /\ Main \notin Clients /\ Main \notin Workers
  BY Labels
<1>3. pc'[Main] = "link" => pc[Main] = "link" /\ curr'[Main] = curr[Main]
  <2>1. CASE MainStep
    BY <1>2, <2>1 DEF MainStep, Add, StartListener, SweepLock, SweepNode, SweepUnlock, At, Goto, TypeOK
  <2>2. ASSUME NEW c \in Clients, ListenerStep(c)
        PROVE  pc'[Main] = pc[Main] /\ curr'[Main] = curr[Main]
    BY <1>2, <2>2, ListenerFrame
  <2>3. ASSUME NEW w \in Workers, WorkerStep(w)
        PROVE  pc'[Main] = pc[Main] /\ curr'[Main] = curr[Main]
    BY <1>2, <2>3, WorkerFrame
  <2>4. CASE UNCHANGED vars
    BY <2>4 DEF vars
  <2> QED
    BY <2>1, <2>2, <2>3, <2>4 DEF Next
<1> QED
  BY <1>1, <1>3 DEF NewestIsLast, AgeOf

LEMMA StepGap ==
  ASSUME IInv, [Next]_vars, ~Create, NEW age \in [Clients -> Nat], NextIsYounger(age), GapStays(age)
  PROVE  GapStays(age)'
<1> USE DEF IInv
<1>1. client' = client
  BY SameClients
<1>2. /\ Main \in Threads /\ Main \notin Clients /\ Main \notin Workers /\ Clients \cap Workers = {}
      /\ Clients \subseteq Threads /\ Workers \subseteq Threads /\ NULL \notin Nodes
  BY Labels
<1>3. pc \in [Threads -> MainLabels \cup ListenerLabels \cup WorkerLabels]
  BY DEF TypeOK
<1>4. SUFFICES ASSUME NEW d \in Clients, pc'[d] = "destroy", NEW i \in DOMAIN chain'
               PROVE  \/ AgeOf(age, chain'[i]) < age[d]
                      \/ /\ next'[curr'[d]] # NULL
                         /\ AgeOf(age, next'[curr'[d]]) <= AgeOf(age, chain'[i])
  BY <1>1 DEF GapStays, AgeOf
<1> DEFINE Gap == \/ AgeOf(age, chain'[i]) < age[d]
                  \/ /\ next'[curr'[d]] # NULL
                     /\ AgeOf(age, next'[curr'[d]]) <= AgeOf(age, chain'[i])
<1>5. ASSUME UNCHANGED <<chain, next>>, pc[d] = "destroy", curr'[d] = curr[d] PROVE Gap
  BY <1>5 DEF GapStays
<1>6. CASE MainStep
  <2>1. curr'[d] = curr[d]
    BY <1>2, <1>6, MainFrame
  <2>2. pc[d] = "destroy"
    <3>1. CASE StartListener
      <4>1. pc' = [pc EXCEPT ![client[curr[Main]]] = "listen", ![Main] = "accept"]
        BY <3>1 DEF StartListener
      <4> QED
        BY <1>2, <1>3, <1>4, <4>1
    <3>2. CASE ~StartListener
      BY <1>4, <1>6, <3>2, MainFrame
    <3> QED
      BY <3>1, <3>2
  <2>3. mutex # NULL
    BY <1>2, <2>2, Labels DEF MutexInv
  <2>4. UNCHANGED <<chain, next>>
    BY <1>6, <2>3 DEF MainStep, Add, StartListener, SweepLock, SweepNode, SweepUnlock, list, fields
  <2> QED
    BY <1>5, <2>1, <2>2, <2>4
<1>7. ASSUME NEW c \in Clients, ListenerStep(c) PROVE Gap
  <2>1. \A t \in Threads \ {c} : curr'[t] = curr[t] /\ pc'[t] = pc[t]
    BY <1>7, ListenerFrame
  <2>2. CASE Unlink(c)
    <3>1. pc[c] = "search" /\ curr' = curr
      BY <2>2 DEF Unlink, At
    <3>2. d = c
      BY <1>2, <1>4, <2>1, <3>1 DEF MutexInv
    <3> DEFINE len == Len(chain)
    <3>3. PICK k \in DOMAIN chain :
           /\ curr[c] = chain[k] /\ client[chain[k]] = c
           /\ DOMAIN chain' = 1 .. len - 1
           /\ \A j \in 1 .. len - 1 : chain'[j] = IF j < k THEN chain[j] ELSE chain[j + 1]
           /\ Range(chain') = Range(chain) \ {chain[k]}
      BY <2>2, UnlinkFacts
    <3>4. /\ len \in Nat /\ DOMAIN chain = 1 .. len
          /\ \A j \in DOMAIN chain : chain[j] \in Nodes
      BY ChainFacts
    <3>5. PICK m \in DOMAIN chain :
           /\ curr[c] = chain[m]
           /\ next' = [n \in Nodes |-> IF m # 1 /\ n = chain[m - 1] THEN next[chain[m]] ELSE next[n]]
      BY <2>2, UnlinkFacts
    <3>6. next'[chain[k]] = next[chain[k]]
      <4>1. m # 1 => m - 1 \in DOMAIN chain /\ m - 1 # m
        BY <3>4
      <4>2. m # 1 => chain[m] # chain[m - 1]
        BY <4>1 DEF ChainInv
      <4> QED
        BY <3>3, <3>4, <3>5, <4>2
    <3>7. next[chain[k]] = IF k = len THEN NULL ELSE chain[k + 1]
      BY DEF ChainInv
    <3>8. i \in 1 .. len /\ i + 1 \in 1 .. len /\ k \in 1 .. len
      BY <3>3, <3>4
    <3>9. age[d] = AgeOf(age, chain[k])
      BY <3>2, <3>3 DEF AgeOf
    <3>10. CASE i < k
      <4>1. chain'[i] = chain[i]
        BY <3>3, <3>10
      <4>2. AgeOf(age, chain[i]) < AgeOf(age, chain[k])
        BY <3>4, <3>8, <3>10 DEF NextIsYounger
      <4> QED
        BY <3>9, <4>1, <4>2
    <3>11. CASE ~(i < k)
      <4>1. chain'[i] = chain[i + 1]
        BY <3>3, <3>11
      <4>2. k # len /\ k + 1 \in DOMAIN chain /\ k + 1 <= i + 1
        BY <3>4, <3>8, <3>11
      <4>3. next'[curr'[d]] = chain[k + 1] /\ chain[k + 1] # NULL
        BY <1>2, <3>1, <3>2, <3>3, <3>4, <3>6, <3>7, <4>2
      <4>4. AgeOf(age, chain[k + 1]) <= AgeOf(age, chain[i + 1])
        <5>1. AgeOf(age, chain[k + 1]) \in Nat /\ AgeOf(age, chain[i + 1]) \in Nat
          BY <3>4, <3>8, <4>2, AgeTypes
        <5>2. k + 1 < i + 1 => AgeOf(age, chain[k + 1]) < AgeOf(age, chain[i + 1])
          BY <3>4, <3>8, <4>2 DEF NextIsYounger
        <5>3. k + 1 = i + 1 \/ k + 1 < i + 1
          BY <3>4, <3>8, <4>2
        <5>4. k + 1 = i + 1 => AgeOf(age, chain[k + 1]) = AgeOf(age, chain[i + 1])
          OBVIOUS
        <5> HIDE DEF len
        <5> QED
          BY <5>1, <5>2, <5>3, <5>4
      <4> QED
        BY <4>1, <4>3, <4>4
    <3> QED
      BY <3>10, <3>11
  <2>3. CASE ~Unlink(c)
    <3>1. pc[d] = "destroy" /\ curr'[d] = curr[d] /\ UNCHANGED <<chain, next>>
      <4>1. UNCHANGED <<chain, next>>
        BY <1>7, <2>3 DEF ListenerStep, LeaveLock, Search, DestroyClient, FreeNode, list, fields
      <4>2. CASE d = c
        BY <1>2, <1>3, <1>4, <1>7, <2>3, <4>2
           DEF ListenerStep, LeaveLock, Search, DestroyClient, FreeNode, At, Goto
      <4>3. CASE d # c
        BY <1>2, <1>4, <2>1, <4>1, <4>3
      <4> QED
        BY <1>2, <1>4, <2>1, <4>1, <4>2, <4>3
    <3> QED
      BY <1>5, <3>1
  <2> QED
    BY <2>2, <2>3
<1>8. ASSUME NEW w \in Workers, WorkerStep(w) PROVE Gap
  <2>1. /\ \A t \in Threads \ {w} : curr'[t] = curr[t] /\ pc'[t] = pc[t]
        /\ UNCHANGED <<chain, next>>
    BY <1>8, WorkerFrame DEF ListStays
  <2> QED
    BY <1>2, <1>4, <1>5, <2>1
<1>9. CASE UNCHANGED vars
  BY <1>4, <1>5, <1>9 DEF vars, list, fields
<1> QED
  BY <1>6, <1>7, <1>8, <1>9 DEF Next

\* For the walks that are not a worker's own step, nothing moves but who stays and
\* what is stale.
LEMMA OtherWalks ==
  ASSUME IInv, [Next]_vars, ~Create, NEW w \in Workers, ~WorkerStep(w)
  PROVE  /\ pc'[w] = pc[w] /\ curr'[w] = curr[w] /\ visited'[w] = visited[w]
         /\ target'[w] = target[w]
         /\ stay'[w] \subseteq stay[w] /\ (stale[w] => stale'[w])
<1>1. w \in Threads /\ w # Main /\ w \notin Clients
  BY Labels
<1>2. CASE MainStep
  BY <1>1, <1>2, MainFrame DEF walks
<1>3. ASSUME NEW c \in Clients, ListenerStep(c)
      PROVE  /\ pc'[w] = pc[w] /\ curr'[w] = curr[w] /\ visited'[w] = visited[w] /\ target'[w] = target[w]
             /\ stay'[w] \subseteq stay[w] /\ (stale[w] => stale'[w])
  <2>1. target' = target
    BY <1>3 DEF ListenerStep, LeaveLock, Search, Unlink, DestroyClient, FreeNode, walks
  <2> QED
    BY <1>3, <2>1, RemovalAndWalks
<1>4. ASSUME NEW v \in Workers, WorkerStep(v)
      PROVE  /\ pc'[w] = pc[w] /\ curr'[w] = curr[w] /\ visited'[w] = visited[w] /\ target'[w] = target[w]
             /\ stay'[w] \subseteq stay[w] /\ (stale[w] => stale'[w])
  BY <1>1, <1>4, WorkerFrame DEF IInv
<1>5. CASE UNCHANGED vars
  BY <1>5 DEF vars, walks
<1> QED
  BY <1>2, <1>3, <1>4, <1>5 DEF Next

LEMMA StepTargetAge ==
  ASSUME IInv, [Next]_vars, ~Create, NEW age \in [Clients -> Nat],
         NextIsYounger(age), VisitedIsBehind(age), TargetIsNext(age)
  PROVE  TargetIsNext(age)'
<1> USE DEF IInv
<1>1. client' = client
  BY SameClients
<1> SUFFICES ASSUME NEW w \in Workers, pc'[w] = "send"
             PROVE  /\ age[target'[w]] <= AgeOf(age, curr'[w])
                    /\ \A i \in DOMAIN visited'[w] : age[visited'[w][i]] < age[target'[w]]
  BY <1>1 DEF TargetIsNext, AgeOf
<1>2. /\ w \in Threads
      /\ pc \in [Threads -> MainLabels \cup ListenerLabels \cup WorkerLabels]
      /\ target \in [Workers -> Clients \cup {NULL}]
  BY Labels DEF TypeOK
<1>3. CASE ~WorkerStep(w)
  <2>1. /\ pc'[w] = pc[w] /\ curr'[w] = curr[w] /\ visited'[w] = visited[w]
        /\ target'[w] = target[w]
    BY <1>3, OtherWalks
  <2>2. /\ age[target[w]] <= AgeOf(age, curr[w])
        /\ \A i \in DOMAIN visited[w] : age[visited[w][i]] < age[target[w]]
    BY <2>1 DEF TargetIsNext
  <2> QED
    BY <2>1, <2>2
<1>4. CASE Load(w)
  <2>1. /\ pc[w] = "visit" /\ curr[w] # NULL
        /\ UNCHANGED <<curr, visited>> /\ target' = [target EXCEPT ![w] = client[curr[w]]]
    BY <1>4 DEF Load, At
  <2>2. age[target'[w]] = AgeOf(age, curr[w])
    BY <1>2, <2>1 DEF AgeOf
  <2>3. AgeOf(age, curr[w]) \in Nat
    BY <1>2, <2>1, AgeTypes
  <2>4. \A i \in DOMAIN visited[w] : age[visited[w][i]] < AgeOf(age, curr[w])
    BY <2>1 DEF VisitedIsBehind, Behind
  <2> QED
    BY <2>1, <2>2, <2>3, <2>4
<1>5. CASE WorkerStep(w) /\ ~Load(w)
  <2>1. pc'[w] # "send"
    BY <1>2, <1>5 DEF WorkerStep, StartMsg, StartListing, FormatFreed, Begin, Visit, Advance, EndMsg,
                      EndListing, SendListing, LoseListing, At, Goto
  <2> QED
    BY <2>1
<1> QED
  BY <1>3, <1>4, <1>5

LEMMA StepVisited ==
  ASSUME IInv, [Next]_vars, ~Create, NEW age \in [Clients -> Nat],
         NextIsYounger(age), VisitedIsBehind(age), TargetIsNext(age)
  PROVE  VisitedIsBehind(age)'
<1> USE DEF IInv
<1>1. client' = client
  BY SameClients
<1> SUFFICES ASSUME NEW w \in Workers
             PROVE  /\ \A i, j \in DOMAIN visited'[w] :
                         i < j => age[visited'[w][i]] < age[visited'[w][j]]
                    /\ \A i \in DOMAIN visited'[w] : Behind(age, w, visited[w][i])'
  BY DEF VisitedIsBehind
<1> DEFINE InOrder(s) == \A i, j \in DOMAIN s : i < j => age[s[i]] < age[s[j]]
           AllBehind(s) == \A i \in DOMAIN s : \/ curr'[w] = NULL
                                               \/ age[s[i]] < AgeOf(age, curr'[w])
                                               \/ pc'[w] = "advance" /\ age[s[i]] = AgeOf(age, curr'[w])
<1>2. SUFFICES InOrder(visited'[w]) /\ AllBehind(visited'[w])
  BY <1>1 DEF Behind, AgeOf
<1>3. w \in Threads /\ NULL \notin Nodes /\ visited[w] \in Seq(Clients)
      /\ pc \in [Threads -> MainLabels \cup ListenerLabels \cup WorkerLabels]
      /\ curr \in [Threads -> Nodes \cup {NULL}]
      /\ visited \in [Workers -> Seq(Clients)]
  BY Labels DEF TypeOK
<1>4. /\ InOrder(visited[w])
      /\ \A i \in DOMAIN visited[w] : \/ curr[w] = NULL
                                      \/ age[visited[w][i]] < AgeOf(age, curr[w])
                                      \/ pc[w] = "advance" /\ age[visited[w][i]] = AgeOf(age, curr[w])
  BY DEF VisitedIsBehind, Behind
<1>5. CASE ~WorkerStep(w)
  <2>1. pc'[w] = pc[w] /\ curr'[w] = curr[w] /\ visited'[w] = visited[w]
    BY <1>5, OtherWalks
  <2> QED
    BY <1>4, <2>1
<1>6. CASE StartMsg(w) \/ StartListing(w) \/ EndMsg(w) \/ SendListing(w)
  <2>1. visited'[w] = <<>>
    <3>1. CASE StartMsg(w) \/ StartListing(w)
      BY <3>1 DEF StartMsg, StartListing, Begin, At, WalkInv
    <3>2. CASE EndMsg(w) \/ SendListing(w)
      BY <1>3, <3>2 DEF EndMsg, SendListing, Reset
    <3> QED
      BY <1>6, <3>1, <3>2
  <2>2. DOMAIN visited'[w] = {}
    BY <2>1
  <2> QED
    BY <2>2
<1>7. CASE Visit(w)
  <2>1. /\ pc[w] = "send" /\ pc'[w] = "advance" /\ curr' = curr /\ curr[w] # NULL
        /\ visited'[w] = Append(visited[w], target[w]) \/ visited'[w] = visited[w]
    BY <1>3, <1>7 DEF Visit, At, Goto, TargetInv
  <2>2. /\ target[w] \in Clients
        /\ age[target[w]] <= AgeOf(age, curr[w])
        /\ \A i \in DOMAIN visited[w] : age[visited[w][i]] < age[target[w]]
    BY <2>1 DEF TargetIsNext, TargetInv, TypeOK
  <2>5. age[target[w]] \in Nat /\ AgeOf(age, curr[w]) \in Nat
    BY <1>3, <2>1, <2>2, AgeTypes
  <2>6. \A i \in DOMAIN visited[w] : visited[w][i] \in Clients
    BY <1>3, ElementOfSeq, LenProperties
  <2>7. \A i \in DOMAIN visited[w] : age[visited[w][i]] < AgeOf(age, curr[w])
    BY <2>2, <2>5, <2>6
  <2>3. CASE visited'[w] = visited[w]
    BY <1>4, <2>1, <2>3, <2>7
  <2>4. CASE visited'[w] = Append(visited[w], target[w])
    <3> DEFINE s == Append(visited[w], target[w])
               k == Len(visited[w])
    <3>1. target[w] \in Clients
      BY <2>2
    <3>2. /\ k \in Nat /\ DOMAIN visited[w] = 1 .. k
          /\ DOMAIN s = 1 .. k + 1
          /\ \A i \in 1 .. k : s[i] = visited[w][i]
          /\ s[k + 1] = target[w]
      BY <1>3, <3>1, AppendFacts, LenProperties
    <3>3. visited'[w] = s
      BY <2>4
    <3> HIDE DEF s, k
    <3>4. age[s[k + 1]] = age[target[w]]
      BY <3>2
    <3>5. InOrder(s)
      <4> SUFFICES ASSUME NEW i \in 1 .. k + 1, NEW j \in 1 .. k + 1, i < j
                   PROVE  age[s[i]] < age[s[j]]
        BY <3>2
      <4>1. i \in 1 .. k /\ s[i] = visited[w][i]
        BY <3>2
      <4>2. CASE j = k + 1
        BY <2>2, <3>2, <3>4, <4>1, <4>2
      <4>3. CASE j # k + 1
        <5>1. j \in 1 .. k /\ s[j] = visited[w][j]
          BY <3>2, <4>3
        <5> QED
          BY <1>4, <3>2, <4>1, <5>1
      <4> QED
        BY <4>2, <4>3
    <3>6. AllBehind(s)
      <4> SUFFICES ASSUME NEW i \in 1 .. k + 1
                   PROVE  age[s[i]] < AgeOf(age, curr[w]) \/ age[s[i]] = AgeOf(age, curr[w])
        BY <2>1, <3>2
      <4>1. CASE i = k + 1
        BY <2>2, <2>5, <3>4, <4>1
      <4>2. CASE i # k + 1
        <5>1. i \in 1 .. k /\ s[i] = visited[w][i]
          BY <3>2, <4>2
        <5> QED
          BY <2>7, <3>2, <5>1
      <4> QED
        BY <4>1, <4>2
    <3> HIDE DEF InOrder, AllBehind
    <3> QED
      BY <3>3, <3>5, <3>6
  <2> QED
    BY <2>1, <2>3, <2>4
<1>8. CASE Advance(w)
  <2>1. /\ curr'[w] = next[curr[w]] /\ visited' = visited /\ pc[w] = "advance"
    BY <1>3, <1>8 DEF Advance, At, NodeAfter, walks
  <2>2. curr[w] # NULL /\ curr[w] \in Nodes
    BY <1>3, <2>1 DEF WalkInv
  <2>3. CASE next[curr[w]] = NULL
    BY <1>4, <2>1, <2>3
  <2>4. CASE next[curr[w]] # NULL
    <3>1. /\ AgeOf(age, curr[w]) < AgeOf(age, next[curr[w]])
          /\ AgeOf(age, curr[w]) \in Nat /\ AgeOf(age, next[curr[w]]) \in Nat
      BY <2>2, <2>4, AgeTypes DEF NextIsYounger
    <3>2. \A i \in DOMAIN visited[w] : age[visited[w][i]] \in Nat
      BY <1>3, ElementOfSeq, LenProperties
    <3>3. \A i \in DOMAIN visited[w] : age[visited[w][i]] < AgeOf(age, next[curr[w]])
      BY <1>4, <2>2, <3>1, <3>2
    <3> QED
      BY <1>4, <2>1, <3>3
  <2> QED
    BY <2>3, <2>4
<1>9. CASE EndListing(w)
  <2>1. curr' = curr /\ curr[w] = NULL /\ visited' = visited
    BY <1>9 DEF EndListing, walks
  <2> QED
    BY <1>4, <2>1
<1>10. CASE Load(w)
  <2>1. pc[w] = "visit" /\ UNCHANGED <<curr, visited>>
    BY <1>10 DEF Load, At
  <2> QED
    BY <1>4, <2>1
<1>11. CASE FormatFreed(w) \/ LoseListing(w)
  <2>1. UNCHANGED <<pc, curr, visited>>
    BY <1>11 DEF FormatFreed, LoseListing, walks
  <2> QED
    BY <1>4, <2>1
<1> QED
  BY <1>5, <1>6, <1>7, <1>8, <1>9, <1>10, <1>11 DEF WorkerStep

\* A client that stays, and the node a walk stands on that nobody freed, by their
\* ages: the same age is the same client.
LEMMA StandsAmongStayers ==
  ASSUME IInv, NEW age \in [Clients -> Nat], NextIsYounger(age), GapStays(age),
         NEW w \in Workers, ~stale[w], curr[w] # NULL, NEW c \in stay[w]
  PROVE  /\ c \in Clients
         /\ age[c] = AgeOf(age, curr[w]) => c = client[curr[w]]
         /\ AgeOf(age, curr[w]) < age[c] =>
              next[curr[w]] # NULL /\ AgeOf(age, next[curr[w]]) <= age[c]
<1> USE DEF IInv
<1>1. c \in Clients /\ curr[w] \in Nodes /\ age[c] \in Nat
  BY Labels DEF TypeOK
<1>2. PICK i \in DOMAIN chain : client[chain[i]] = c
  BY DEF StayInv
<1>3. age[c] = AgeOf(age, chain[i])
  BY <1>2 DEF AgeOf
<1>4. AgeOf(age, curr[w]) \in Nat
      /\ \A j \in DOMAIN chain : AgeOf(age, chain[j]) \in Nat
  BY Labels, AgeTypes
<1>5. next[curr[w]] # NULL => /\ AgeOf(age, curr[w]) < AgeOf(age, next[curr[w]])
                              /\ AgeOf(age, next[curr[w]]) \in Nat
  BY <1>1, AgeTypes DEF NextIsYounger
<1>6. OnList(curr[w])
  BY DEF WalkInv
<1>7. CASE curr[w] \in Range(chain)
  <2>1. PICK j \in DOMAIN chain : curr[w] = chain[j]
    BY <1>7, ChainFacts
  <2>2. Len(chain) \in Nat /\ DOMAIN chain = 1 .. Len(chain)
    BY ChainFacts
  <2>3. /\ i < j => AgeOf(age, chain[i]) < AgeOf(age, chain[j])
        /\ j < i => AgeOf(age, chain[j]) < AgeOf(age, chain[i])
    BY DEF NextIsYounger
  <2>4. age[c] = AgeOf(age, curr[w]) => i = j
    BY <1>3, <1>4, <2>1, <2>2, <2>3
  <2>5. AgeOf(age, curr[w]) < age[c] => j < i
    <3>1. i = j => age[c] = AgeOf(age, curr[w])
      BY <1>3, <2>1
    <3> QED
      BY <1>1, <1>3, <1>4, <2>1, <2>2, <2>3, <3>1
  <2>6. ASSUME j < i PROVE next[curr[w]] # NULL /\ AgeOf(age, next[curr[w]]) <= age[c]
    <3>1. j # Len(chain) /\ j + 1 \in DOMAIN chain /\ (j + 1 = i \/ j + 1 < i)
      BY <2>2, <2>6
    <3>2. next[curr[w]] = chain[j + 1] /\ chain[j + 1] # NULL
      BY <2>1, <3>1, ChainFacts, Labels DEF ChainInv
    <3>3. j + 1 < i => AgeOf(age, chain[j + 1]) < AgeOf(age, chain[i])
      BY <3>1 DEF NextIsYounger
    <3>4. AgeOf(age, chain[j + 1]) \in Nat /\ AgeOf(age, chain[i]) \in Nat
      BY <1>4, <3>1
    <3>5. AgeOf(age, chain[j + 1]) <= AgeOf(age, chain[i])
      BY <3>1, <3>3, <3>4
    <3> QED
      BY <1>3, <3>2, <3>5
  <2> QED
    BY <1>1, <1>2, <2>1, <2>4, <2>5, <2>6
<1>8. CASE \E d \in Clients : pc[d] = "destroy" /\ curr[w] = curr[d]
  <2>1. PICK d \in Clients : pc[d] = "destroy" /\ curr[w] = curr[d]
    BY <1>8
  <2>2. age[d] = AgeOf(age, curr[w])
    BY <2>1 DEF RemovalInv, AgeOf
  <2>3. \/ age[c] < age[d]
        \/ next[curr[w]] # NULL /\ AgeOf(age, next[curr[w]]) <= age[c]
    BY <1>3, <2>1 DEF GapStays
  <2> QED
    BY <1>1, <1>4, <1>5, <2>2, <2>3
<1> QED
  BY <1>6, <1>7, <1>8 DEF OnList

LEMMA StepBehind ==
  ASSUME IInv, [Next]_vars, ~Create, NEW age \in [Clients -> Nat],
         NextIsYounger(age), GapStays(age), BehindIsVisited(age)
  PROVE  BehindIsVisited(age)'
<1> USE DEF IInv
<1>1. client' = client
  BY SameClients
<1> DEFINE BehindNow(v, c) == \/ curr'[v] = NULL
                              \/ age[c] < AgeOf(age, curr'[v])
                              \/ pc'[v] = "advance" /\ age[c] = AgeOf(age, curr'[v])
<1>2. SUFFICES ASSUME NEW w \in Workers, ~stale'[w], pc'[w] # "idle", NEW c \in stay'[w],
                      BehindNow(w, c)
               PROVE  c \in Range(visited'[w])
  BY <1>1 DEF BehindIsVisited, Behind, AgeOf
<1>3. w \in Threads /\ NULL \notin Nodes /\ visited[w] \in Seq(Clients)
      /\ pc \in [Threads -> MainLabels \cup ListenerLabels \cup WorkerLabels]
      /\ curr \in [Threads -> Nodes \cup {NULL}]
      /\ visited \in [Workers -> Seq(Clients)]
  BY Labels DEF TypeOK
<1>4. ASSUME ~stale[w], pc[w] # "idle", c \in stay[w], curr[w] = NULL
             \/ age[c] < AgeOf(age, curr[w]) \/ (pc[w] = "advance" /\ age[c] = AgeOf(age, curr[w]))
      PROVE  c \in Range(visited[w])
  BY <1>4 DEF BehindIsVisited, Behind
<1>5. CASE ~WorkerStep(w)
  <2>1. /\ pc'[w] = pc[w] /\ curr'[w] = curr[w] /\ visited'[w] = visited[w]
        /\ stay'[w] \subseteq stay[w] /\ (stale[w] => stale'[w])
    BY <1>5, OtherWalks
  <2> QED
    BY <1>2, <1>4, <2>1
<1>6. CASE StartMsg(w) \/ StartListing(w)
  <2>1. /\ curr'[w] = head /\ stay'[w] = Range(Members) /\ pc'[w] = "visit"
    BY <1>3, <1>6 DEF StartMsg, StartListing, Begin, Goto, TypeOK
  <2>2. PICK i \in DOMAIN chain : client[chain[i]] = c
    BY <1>2, <2>1 DEF Members, Range
  <2>3. chain # <<>> /\ Len(chain) \in Nat /\ DOMAIN chain = 1 .. Len(chain) /\ 1 \in DOMAIN chain
    BY <2>2, ChainFacts
  <2>4. head = chain[1] /\ chain[1] # NULL
    BY <1>3, <2>3, ChainFacts DEF ChainInv
  <2>5. age[c] < AgeOf(age, chain[1])
    BY <1>2, <2>1, <2>4
  <2>6. /\ i = 1 \/ AgeOf(age, chain[1]) < AgeOf(age, chain[i])
        /\ age[c] = AgeOf(age, chain[i])
        /\ AgeOf(age, chain[1]) \in Nat /\ AgeOf(age, chain[i]) \in Nat
    <3>1. i = 1 \/ 1 < i
      BY <2>3
    <3> QED
      BY <2>2, <2>3, <3>1, AgeTypes DEF NextIsYounger, AgeOf
  <2> QED
    BY <2>5, <2>6
<1>7. CASE Visit(w)
  <2>1. /\ pc[w] = "send" /\ curr' = curr /\ curr[w] # NULL /\ stale' = stale /\ stay' = stay
    BY <1>7 DEF Visit, At, TargetInv
  <2>2. client[curr[w]] \notin destroyed /\ target[w] = client[curr[w]]
    BY <1>2, <2>1, WalkIsLive DEF TargetInv
  <2>3. visited'[w] = Append(visited[w], client[curr[w]])
    BY <1>3, <1>7, <2>2 DEF Visit
  <2>4. client[curr[w]] \in Clients
    BY <1>3, <2>1, Reached
  <2>5. Range(Append(visited[w], client[curr[w]])) = Range(visited[w]) \cup {client[curr[w]]}
    BY <1>3, <2>4, AppendFacts
  <2>6. age[c] = AgeOf(age, curr[w]) => c = client[curr[w]]
    BY <1>2, <2>1, StandsAmongStayers
  <2>7. age[c] < AgeOf(age, curr[w]) => c \in Range(visited[w])
    BY <1>2, <1>4, <2>1
  <2>8. c \in Range(Append(visited[w], client[curr[w]]))
    BY <1>2, <2>1, <2>5, <2>6, <2>7
  <2> QED
    BY <2>3, <2>8, Zenon
<1>8. CASE Advance(w)
  <2>1. /\ curr'[w] = next[curr[w]] /\ UNCHANGED walks /\ pc[w] = "advance" /\ pc'[w] = "visit"
    BY <1>3, <1>8 DEF Advance, At, NodeAfter, Goto
  <2>2. UNCHANGED <<visited, stay, stale>>
    BY <2>1 DEF walks
  <2>3. curr[w] # NULL /\ curr[w] \in Nodes
    BY <1>3, <2>1 DEF WalkInv
  <2>4. /\ c \in Clients
        /\ AgeOf(age, curr[w]) < age[c] =>
             next[curr[w]] # NULL /\ AgeOf(age, next[curr[w]]) <= age[c]
    BY <1>2, <2>2, <2>3, StandsAmongStayers
  <2>5. /\ age[c] \in Nat /\ AgeOf(age, curr[w]) \in Nat
        /\ next[curr[w]] # NULL => AgeOf(age, next[curr[w]]) \in Nat
    BY <1>3, <2>3, <2>4, AgeTypes
  <2>6. next[curr[w]] = NULL \/ age[c] < AgeOf(age, next[curr[w]])
    BY <1>2, <2>1
  <2>7. age[c] < AgeOf(age, curr[w]) \/ age[c] = AgeOf(age, curr[w])
    BY <2>4, <2>5, <2>6
  <2> QED
    BY <1>2, <1>4, <2>1, <2>2, <2>7
<1>9. CASE EndMsg(w) \/ SendListing(w)
  BY <1>2, <1>3, <1>9 DEF EndMsg, SendListing, Goto
<1>10. CASE EndListing(w)
  <2>1. /\ curr' = curr /\ curr[w] = NULL /\ UNCHANGED walks /\ pc[w] = "visit"
    BY <1>10 DEF EndListing, At
  <2> QED
    BY <1>2, <1>4, <2>1 DEF walks
<1>11. CASE Load(w)
  <2>1. pc[w] = "visit" /\ pc'[w] = "send" /\ UNCHANGED <<curr, visited, stay, stale>>
    BY <1>3, <1>11 DEF Load, At, Goto
  <2> QED
    BY <1>2, <1>4, <2>1
<1>12. CASE FormatFreed(w) \/ LoseListing(w)
  <2>1. UNCHANGED <<pc, curr, visited, stay, stale>>
    BY <1>12 DEF FormatFreed, LoseListing, walks
  <2> QED
    BY <1>2, <1>4, <2>1
<1> QED
  BY <1>5, <1>6, <1>7, <1>8, <1>9, <1>10, <1>11, <1>12 DEF WorkerStep

\* The client that connects is younger than all: its node may be one that a walk
\* still stands on, but nobody of the others is moved in age by that.
LEMMA CreateAges ==
  ASSUME IInv, Create, NEW age \in [Clients -> Nat], NEW top \in Nat, Ages(age, top)
  PROVE  AgeInv'
<1> USE DEF IInv
<1>1. PICK n \in Nodes, c \in Clients :
         /\ pc[Main] = "accept" /\ pc[c] = "none"
         /\ n \notin allocated /\ n \notin Range(chain)
         /\ \A d \in Clients : pc[d] \in {"destroy", "free"} => curr[d] # n
         /\ client' = [client EXCEPT ![n] = c]
         /\ next' = [next EXCEPT ![n] = NULL]
         /\ curr' = [curr EXCEPT ![Main] = n] /\ pc' = [pc EXCEPT ![Main] = "link"]
  BY CreateFacts
<1>2. chain' = chain /\ UNCHANGED walks
  BY DEF Create
<1>3. UNCHANGED <<visited, stay, stale, target>>
  BY <1>2 DEF walks
<1>4. /\ \A m \in Nodes : client[m] # c
      /\ \A w \in Workers : c \notin Range(visited[w]) /\ target[w] # c
  BY <1>1 DEF FreshInv
<1>5. /\ Main \in Threads /\ Main \notin Clients /\ Main \notin Workers
      /\ Clients \subseteq Threads /\ Workers \subseteq Threads /\ NULL \notin Nodes
  BY Labels
<1>6. /\ client \in [Nodes -> Clients \cup {NULL}]
      /\ next \in [Nodes -> Nodes \cup {NULL}]
      /\ pc \in [Threads -> MainLabels \cup ListenerLabels \cup WorkerLabels]
      /\ curr \in [Threads -> Nodes \cup {NULL}]
      /\ visited \in [Workers -> Seq(Clients)]
      /\ stay \in [Workers -> SUBSET Clients]
  BY DEF TypeOK
<1>7. /\ \A t \in Threads \ {Main} : curr'[t] = curr[t] /\ pc'[t] = pc[t]
      /\ curr'[Main] = n
      /\ client'[n] = c /\ next'[n] = NULL
      /\ \A m \in Nodes \ {n} : client'[m] = client[m] /\ next'[m] = next[m]
  BY <1>1, <1>5, <1>6
<1>8. PICK older \in [Clients -> Nat] : older = [age EXCEPT ![c] = top]
  OBVIOUS
<1>9. /\ older[c] = top
      /\ \A d \in Clients \ {c} : older[d] = age[d]
      /\ \A d \in Clients : age[d] \in Nat /\ age[d] < top
  BY <1>8 DEF Ages
<1> DEFINE Old(m) == AgeOf(age, m)
           New(m) == older[client'[m]]
<1>10. /\ New(n) = top
       /\ \A m \in Nodes \ {n} :
            client[m] # NULL => New(m) = Old(m) /\ Old(m) \in Nat /\ Old(m) < top
  <2>1. \A m \in Nodes \ {n} : client[m] # NULL => client[m] \in Clients \ {c}
    BY <1>4, <1>6
  <2> QED
    BY <1>7, <1>9, <2>1 DEF AgeOf
<1>11. \A i \in DOMAIN chain : chain[i] \in Nodes \ {n} /\ client[chain[i]] # NULL
  BY <1>1, ChainFacts DEF ClientInv
<1>12. NextIsYounger(older)'
  <2>1. ASSUME NEW m \in Nodes, next'[m] # NULL PROVE New(m) < New(next'[m])
    <3>1. m # n /\ next'[m] = next[m] /\ next[m] \in Nodes
      BY <1>6, <1>7, <2>1
    <3>2. client[m] # NULL /\ client[next[m]] # NULL /\ Old(m) < Old(next[m])
      BY <2>1, <3>1 DEF ClientInv, Ages, NextIsYounger
    <3>3. New(m) = Old(m) /\ Old(m) < top
      BY <1>10, <3>1, <3>2
    <3>4. CASE next[m] = n
      BY <1>10, <3>1, <3>3, <3>4
    <3>5. CASE next[m] # n
      <4>1. New(next[m]) = Old(next[m])
        BY <1>10, <3>1, <3>2, <3>5
      <4> QED
        BY <3>1, <3>2, <3>3, <4>1
    <3> QED
      BY <3>4, <3>5
  <2>2. ASSUME NEW i \in DOMAIN chain, NEW j \in DOMAIN chain, i < j
        PROVE  New(chain[i]) < New(chain[j])
    <3>1. Old(chain[i]) < Old(chain[j])
      BY <2>2 DEF Ages, NextIsYounger
    <3> QED
      BY <1>10, <1>11, <3>1
  <2> QED
    BY <1>2, <2>1, <2>2 DEF NextIsYounger, AgeOf
<1>13. NewestIsLast(older)'
  <2>1. ASSUME NEW m \in Nodes \ {n}, client'[m] # NULL PROVE New(m) < New(n)
    BY <1>7, <1>10, <2>1
  <2> QED
    BY <1>7, <2>1 DEF NewestIsLast, AgeOf
<1>14. GapStays(older)'
  <2>1. ASSUME NEW d \in Clients, pc'[d] = "destroy", NEW i \in DOMAIN chain
        PROVE  \/ New(chain[i]) < older[d]
               \/ next'[curr'[d]] # NULL /\ New(next'[curr'[d]]) <= New(chain[i])
    <3>1. d \in Threads /\ d # Main /\ pc[d] = "destroy" /\ curr'[d] = curr[d]
      BY <1>5, <1>7, <2>1
    <3>2. d # c
      BY <1>1, <3>1
    <3>3. older[d] = age[d] /\ New(chain[i]) = Old(chain[i])
      BY <1>9, <1>10, <1>11, <3>2
    <3>4. curr[d] \in Nodes \ {n} /\ next[curr[d]] \in Range(chain) \cup {NULL}
      BY <1>1, <1>6, <3>1 DEF RemovalInv
    <3>5. next'[curr'[d]] = next[curr[d]]
      BY <1>7, <3>1, <3>4
    <3>6. next[curr[d]] # NULL => New(next[curr[d]]) = Old(next[curr[d]])
      <4>1. next[curr[d]] # NULL => \E j \in DOMAIN chain : next[curr[d]] = chain[j]
        BY <3>4, ChainFacts
      <4> QED
        BY <1>10, <1>11, <4>1
    <3>7. \/ Old(chain[i]) < age[d]
          \/ next[curr[d]] # NULL /\ Old(next[curr[d]]) <= Old(chain[i])
      BY <3>1 DEF Ages, GapStays
    <3> QED
      BY <3>3, <3>5, <3>6, <3>7
  <2> QED
    BY <1>2, <2>1 DEF GapStays, AgeOf
<1>15. ASSUME NEW w \in Workers
       PROVE  /\ w \in Threads /\ w # Main /\ curr'[w] = curr[w] /\ pc'[w] = pc[w]
              /\ curr[w] # NULL => curr[w] \in Nodes /\ client[curr[w]] # NULL
  BY <1>5, <1>6, <1>7 DEF ClientInv
<1>16. VisitedIsBehind(older)'
  <2> SUFFICES ASSUME NEW w \in Workers
               PROVE  /\ \A i, j \in DOMAIN visited[w] :
                           i < j => older[visited[w][i]] < older[visited[w][j]]
                      /\ \A i \in DOMAIN visited[w] :
                           \/ curr'[w] = NULL
                           \/ older[visited[w][i]] < New(curr'[w])
                           \/ pc'[w] = "advance" /\ older[visited[w][i]] = New(curr'[w])
    BY <1>3 DEF VisitedIsBehind, Behind, AgeOf
  <2>1. \A i \in DOMAIN visited[w] : visited[w][i] \in Clients \ {c}
    <3>1. \A i \in DOMAIN visited[w] : visited[w][i] \in Clients
      BY <1>6, ElementOfSeq, LenProperties
    <3> QED
      BY <1>4, <3>1 DEF Range
  <2>2. \A i \in DOMAIN visited[w] : older[visited[w][i]] = age[visited[w][i]]
                                     /\ age[visited[w][i]] < top
    BY <1>9, <2>1
  <2>3. \A i, j \in DOMAIN visited[w] : i < j => age[visited[w][i]] < age[visited[w][j]]
    BY DEF Ages, VisitedIsBehind
  <2>4. \A i \in DOMAIN visited[w] :
          \/ curr[w] = NULL
          \/ age[visited[w][i]] < Old(curr[w])
          \/ pc[w] = "advance" /\ age[visited[w][i]] = Old(curr[w])
    BY DEF Ages, VisitedIsBehind, Behind
  <2>5. CASE curr[w] = n
    BY <1>10, <1>15, <2>2, <2>3, <2>5
  <2>6. CASE curr[w] # n
    <3>1. curr[w] # NULL => New(curr[w]) = Old(curr[w])
      BY <1>10, <1>15, <2>6
    <3> QED
      BY <1>15, <2>2, <2>3, <2>4, <3>1
  <2> QED
    BY <2>5, <2>6
<1>17. BehindIsVisited(older)'
  <2> SUFFICES ASSUME NEW w \in Workers, ~stale[w], pc'[w] # "idle", NEW d \in stay[w],
                      \/ curr'[w] = NULL
                      \/ older[d] < New(curr'[w])
                      \/ pc'[w] = "advance" /\ older[d] = New(curr'[w])
               PROVE  d \in Range(visited[w])
    BY <1>3 DEF BehindIsVisited, Behind, AgeOf
  <2>1. d \in Clients \ {c}
    BY <1>4, <1>6, <1>11 DEF StayInv
  <2>2. older[d] = age[d]
    BY <1>9, <2>1
  <2>3. curr[w] # NULL => curr[w] # n
    <3>1. curr[w] # NULL => OnList(curr[w])
      BY DEF WalkInv
    <3> QED
      BY <1>1, <3>1 DEF OnList
  <2>4. curr[w] # NULL => New(curr[w]) = Old(curr[w])
    BY <1>10, <1>15, <2>3
  <2>5. \/ curr[w] = NULL
        \/ age[d] < Old(curr[w])
        \/ pc[w] = "advance" /\ age[d] = Old(curr[w])
    BY <1>15, <2>2, <2>4
  <2> QED
    BY <1>15, <2>5 DEF Ages, BehindIsVisited, Behind
<1>18. \A d \in Clients : older[d] < top + 1
  <2>1. \A d \in Clients : older[d] = top \/ older[d] < top
    BY <1>9
  <2> QED
    BY <2>1
<1>19. TargetIsNext(older)'
  <2> SUFFICES ASSUME NEW w \in Workers, pc[w] = "send"
               PROVE  /\ older[target[w]] <= New(curr[w])
                      /\ \A i \in DOMAIN visited[w] : older[visited[w][i]] < older[target[w]]
    BY <1>3, <1>15 DEF TargetIsNext, AgeOf
  <2>1. target[w] \in Clients \ {c} /\ curr[w] # NULL
    BY <1>4 DEF TargetInv, TypeOK
  <2>2. \A i \in DOMAIN visited[w] : visited[w][i] \in Clients \ {c}
    <3>1. \A i \in DOMAIN visited[w] : visited[w][i] \in Clients
      BY <1>6, ElementOfSeq, LenProperties
    <3> QED
      BY <1>4, <3>1 DEF Range
  <2>3. /\ age[target[w]] <= Old(curr[w])
        /\ \A i \in DOMAIN visited[w] : age[visited[w][i]] < age[target[w]]
    BY DEF Ages, TargetIsNext
  <2>4. older[target[w]] <= New(curr[w])
    <3>1. CASE curr[w] = n
      BY <1>9, <1>10, <2>1, <3>1
    <3>2. CASE curr[w] # n
      <4>1. New(curr[w]) = Old(curr[w])
        BY <1>10, <1>15, <2>1, <3>2
      <4> QED
        BY <1>9, <2>1, <2>3, <4>1
    <3> QED
      BY <3>1, <3>2
  <2>5. \A i \in DOMAIN visited[w] : older[visited[w][i]] < older[target[w]]
    BY <1>9, <2>1, <2>2, <2>3
  <2> QED
    BY <2>4, <2>5
<1>20. Ages(older, top + 1)'
  BY <1>12, <1>13, <1>14, <1>16, <1>17, <1>18, <1>19 DEF Ages
<1> QED
  BY <1>20 DEF AgeInv

LEMMA StepAge == IInv /\ [Next]_vars => AgeInv'
<1> SUFFICES ASSUME IInv, [Next]_vars PROVE AgeInv'
  OBVIOUS
<1>1. PICK age \in [Clients -> Nat], top \in Nat : Ages(age, top)
  BY DEF IInv, AgeInv
<1>2. CASE Create
  BY <1>1, <1>2, CreateAges
<1>3. CASE ~Create
  <2>1. NextIsYounger(age)' /\ NewestIsLast(age)'
    BY <1>1, <1>3, StepYounger, StepNewest DEF Ages
  <2>2. GapStays(age)'
    BY <1>1, <1>3, StepGap DEF Ages
  <2>3. TargetIsNext(age)' /\ VisitedIsBehind(age)' /\ BehindIsVisited(age)'
    BY <1>1, <1>3, StepTargetAge, StepVisited, StepBehind DEF Ages
  <2>4. Ages(age, top)'
    BY <1>1, <2>1, <2>2, <2>3 DEF Ages
  <2> QED
    BY <2>4 DEF AgeInv
<1> QED
  BY <1>2, <1>3

-----------------------------------------------------------------------------
(* The invariant holds.                                                    *)

LEMMA InitInv == Init => IInv
<1> SUFFICES ASSUME Init PROVE IInv
  OBVIOUS
<1>1. /\ Main \in Threads /\ Main \notin Clients /\ Main \notin Workers /\ Clients \cap Workers = {}
      /\ Clients \subseteq Threads /\ Workers \subseteq Threads /\ NULL \notin Threads
      /\ Threads = {Main} \cup Clients \cup Workers
  BY Labels
<1>2. /\ head = NULL /\ tail = NULL /\ chain = <<>> /\ allocated = {} /\ mutex = NULL
      /\ rest = NULL /\ destroyed = {} /\ crashed = FALSE
      /\ next = [n \in Nodes |-> NULL] /\ prev = [n \in Nodes |-> NULL]
      /\ client = [n \in Nodes |-> NULL] /\ curr = [t \in Threads |-> NULL]
      /\ visited = [w \in Workers |-> <<>>] /\ stay = [w \in Workers |-> {}]
      /\ stale = [w \in Workers |-> FALSE]
      /\ place = [c \in Clients |-> NULL] /\ target = [w \in Workers |-> NULL]
      /\ sender = [w \in Workers |-> NULL] /\ misled = [w \in Workers |-> {}]
  BY DEF Init, ListInit
<1>3. pc[Main] = "accept" /\ \A c \in Clients : pc[c] = "none"
  BY <1>1 DEF Init
<1>4. \A w \in Workers : pc[w] = "idle"
  BY <1>1 DEF Init
<1>5. pc \in [Threads -> MainLabels \cup ListenerLabels \cup WorkerLabels]
  BY <1>1 DEF Init, MainLabels, ListenerLabels, WorkerLabels
<1>6. DOMAIN chain = {} /\ Range(chain) = {}
  BY <1>2 DEF Range
<1>7. TypeOK
  <2>1. chain \in Seq(Nodes) /\ visited \in [Workers -> Seq(Clients)]
    BY <1>2
  <2> QED
    BY <1>1, <1>2, <1>3, <1>4, <1>5, <2>1 DEF TypeOK, MainLabels, ListenerLabels, WorkerLabels
<1>8. MutexInv
  BY <1>1, <1>2, <1>3, <1>4 DEF MutexInv
<1>9. ChainInv
  BY <1>2, <1>6 DEF ChainInv
<1>10. ClientInv
  BY <1>2, <1>6 DEF ClientInv
<1>11. MembersInv
  BY <1>3, <1>6 DEF MembersInv
<1>12. MainInv /\ RemovalInv
  BY <1>3 DEF MainInv, RemovalInv
<1>13. MemoryInv
  BY <1>2, <1>3, <1>6 DEF MemoryInv
<1>14. WalkInv /\ TargetInv /\ PlaceInv
  BY <1>1, <1>2, <1>3, <1>4, <1>6 DEF WalkInv, TargetInv, PlaceInv, InUse
<1>15. LockedWalkInv
  BY <1>1, <1>2 DEF LockedWalkInv
<1>16. FreshInv
  <2>1. \A w \in Workers : Range(visited[w]) = {}
    <3>1. \A w \in Workers : DOMAIN visited[w] = {}
      BY <1>2
    <3> QED
      BY <3>1 DEF Range
  <2>2. \A n \in Nodes : client[n] = NULL
    BY <1>2
  <2>3. NULL \notin Clients
    BY <1>1
  <2>4. \A w \in Workers : target[w] = NULL
    BY <1>2
  <2> QED
    BY <2>1, <2>2, <2>3, <2>4 DEF FreshInv
<1>17. StayInv /\ CrashInv
  BY <1>2 DEF StayInv, CrashInv
<1>18. AgeInv
  <2> DEFINE age == [c \in Clients |-> 0]
  <2>1. age \in [Clients -> Nat] /\ \A c \in Clients : age[c] < 1
    OBVIOUS
  <2> HIDE DEF age
  <2>2. NextIsYounger(age) /\ NewestIsLast(age) /\ GapStays(age)
    BY <1>2, <1>3, <1>6 DEF NextIsYounger, NewestIsLast, GapStays
  <2>3. VisitedIsBehind(age) /\ BehindIsVisited(age)
    BY <1>2, <1>4 DEF VisitedIsBehind, BehindIsVisited
  <2>5. TargetIsNext(age)
    BY <1>4 DEF TargetIsNext
  <2>4. Ages(age, 1)
    BY <2>1, <2>2, <2>3, <2>5 DEF Ages
  <2> QED
    BY <2>1, <2>4 DEF AgeInv
<1> QED
  BY <1>7, <1>8, <1>9, <1>10, <1>11, <1>12, <1>13, <1>14, <1>15, <1>16, <1>17, <1>18 DEF IInv

LEMMA StepInv == IInv /\ [Next]_vars => IInv'
  BY StepType, StepMutex, StepChain, StepClient, StepMembers, StepPlace, StepMain, StepRemoval, StepMemory,
     StepWalk, StepTarget, StepLockedWalk, StepFresh, StepStay, StepCrash, StepAge DEF IInv

\* Every reachable state of the list and its threads is one of those the invariant
\* describes, for any number of clients, workers and addresses.
THEOREM Invariance == Spec => []IInv
  BY InitInv, StepInv, PTL DEF Spec

\* Every variable keeps its type.
THEOREM TypeCorrect == Spec => []TypeOK
<1>1. IInv => TypeOK
  BY DEF IInv
<1> QED
  BY <1>1, Invariance, PTL

\* Until client_list_destroy runs, head, tail, next and prev form one doubly linked
\* list of allocated nodes, also after client_list_remove left tail dangling.
THEOREM ListWellFormed == Spec => []Linked
<1>1. IInv => Linked
  <2> SUFFICES ASSUME IInv, Open PROVE Linked
    BY DEF Linked
  <2> USE DEF IInv
  <2>1. Range(chain) \subseteq Nodes
    BY ChainFacts
  <2>2. Range(chain) \subseteq allocated
    BY <2>1 DEF MemoryInv
  <2> QED
    BY <2>2 DEF Linked, ChainInv
<1> QED
  BY <1>1, Invariance, PTL

\* A client is in the list from client_list_add until its listener unlinks it, is
\* destroyed once after that, and what is allocated is in the list or about to be
\* linked or freed: no node leaks.
THEOREM NodesAccounted == Spec => []OneNodePerClient
<1>1. IInv => OneNodePerClient
  <2> SUFFICES ASSUME IInv, Open PROVE OneNodePerClient
    BY DEF OneNodePerClient
  <2> USE DEF IInv
  <2>1. /\ Main \in Threads /\ Clients \subseteq Threads
        /\ allocated \subseteq Nodes /\ destroyed \subseteq Clients
    BY Labels DEF TypeOK
  <2>2. pc[Main] = "start" => client[curr[Main]] \in Clients
    BY <2>1, Reached DEF MainInv
  <2>3. Range(Members) =
          {c \in Clients : pc[c] \in {"listen", "search"}}
            \cup (IF pc[Main] = "start" THEN {client[curr[Main]]} ELSE {})
    <3>1. \A c : c \in Range(Members) <=> \E i \in DOMAIN chain : client[chain[i]] = c
      BY DEF Members, Range
    <3>2. \A i \in DOMAIN chain : client[chain[i]] \in Clients
      BY Reached
    <3>3. \A c : c \in Range(Members) => c \in Clients
      BY <3>1, <3>2
    <3>4. \A c \in Clients : c \in Range(Members) <=>
            \/ pc[c] \in {"listen", "search"}
            \/ pc[Main] = "start" /\ c = client[curr[Main]]
      BY <3>1 DEF MembersInv
    <3> QED
      BY <2>2, <3>3, <3>4
  <2>4. destroyed = {c \in Clients : pc[c] \in {"free", "gone"}}
    BY <2>1 DEF MemoryInv
  <2>5. allocated = Range(chain)
          \cup (IF pc[Main] = "link" THEN {curr[Main]} ELSE {})
          \cup {curr[c] : c \in {d \in Clients : pc[d] \in {"destroy", "free"}}}
    <3>1. Range(chain) \subseteq Nodes
      BY ChainFacts
    <3>2. pc[Main] = "link" => curr[Main] \in Nodes
      BY <2>1, Reached DEF MainInv
    <3>3. \A c \in Clients : pc[c] \in {"destroy", "free"} => curr[c] \in Nodes
      BY <2>1, Reached DEF RemovalInv
    <3>4. \A n \in Nodes :
            n \in allocated <=>
              \/ n \in Range(chain)
              \/ pc[Main] = "link" /\ n = curr[Main]
              \/ \E c \in Clients : pc[c] \in {"destroy", "free"} /\ n = curr[c]
      BY DEF MemoryInv
    <3> QED
      BY <2>1, <3>1, <3>2, <3>3, <3>4
  <2> QED
    BY <2>3, <2>4, <2>5 DEF OneNodePerClient
<1> QED
  BY <1>1, Invariance, PTL

\* The search of client_list_remove never runs off the end of the list: the return
\* of -1 is unreachable.
THEOREM RemovalFindsItsClient == Spec => []RemoveFinds
<1>1. IInv => RemoveFinds
  <2> SUFFICES ASSUME IInv, NEW c \in Clients, pc[c] = "search" PROVE curr[c] # NULL
    BY DEF RemoveFinds
  <2>1. PICK i \in DOMAIN chain : chain[i] = curr[c]
    BY DEF IInv, RemovalInv
  <2> QED
    BY <2>1, ChainFacts, Labels DEF IInv
<1> QED
  BY <1>1, Invariance, PTL

\* Until client_list_destroy runs, no walk under the mutex stands on freed memory,
\* and the process crashes in three ways only: in a walk of client_msg under which
\* something was freed, in client_send_clients with an empty list, and by the use
\* of a task's sender that was freed.
THEOREM LockedWalksAreSafe == Spec => []LockedIsSafe
<1>1. IInv => LockedIsSafe
  BY DEF IInv, LockedWalkInv, CrashInv, CrashOf, LockedIsSafe
<1> QED
  BY <1>1, Invariance, PTL

\* A walk of client_msg or client_send_clients reaches nobody twice at its own node.
\* If nothing was freed under it, it also writes to nobody else, and reaches all
\* that were in the list all the while.
THEOREM WalksReachStayers == Spec => []WalkReachesStayers
<1>1. IInv => WalkReachesStayers
  <2> SUFFICES ASSUME IInv, NEW w \in Workers
               PROVE  /\ IsInjective(visited[w])
                      /\ ~stale[w] => misled[w] = {}
                      /\ Ended(w) /\ ~stale[w] => stay[w] \subseteq Range(visited[w])
    BY DEF WalkReachesStayers
  <2>1. PICK age \in [Clients -> Nat], top \in Nat : Ages(age, top)
    BY DEF IInv, AgeInv
  <2>2. visited[w] \in Seq(Clients) /\ w \in Threads
    BY Labels DEF IInv, TypeOK
  <2>3. ASSUME NEW i \in DOMAIN visited[w], NEW j \in DOMAIN visited[w],
               visited[w][i] = visited[w][j]
        PROVE  i = j
    <3>1. DOMAIN visited[w] = 1 .. Len(visited[w]) /\ Len(visited[w]) \in Nat
          /\ visited[w][i] \in Clients
      BY <2>2, LenProperties, ElementOfSeq
    <3>2. ~(i < j) /\ ~(j < i)
      BY <2>1, <2>3, <3>1 DEF Ages, VisitedIsBehind
    <3> QED
      BY <3>1, <3>2
  <2>4. IsInjective(visited[w])
    BY <2>3 DEF IsInjective
  <2>5. Ended(w) /\ ~stale[w] => stay[w] \subseteq Range(visited[w])
    BY <2>1 DEF Ended, Ages, BehindIsVisited, Behind
  <2>6. ~stale[w] => misled[w] = {}
    BY DEF IInv, TargetInv
  <2> QED
    BY <2>4, <2>5, <2>6
<1> QED
  BY <1>1, Invariance, PTL

-----------------------------------------------------------------------------
(* The refinement: the list, seen without its pointers, is the roster.     *)

\* The clients of a sequence of nodes, in order.
ClientsOf(ch, cl) == [i \in DOMAIN ch |-> cl[ch[i]]]

LEMMA ClientsOfFacts ==
  ASSUME NEW ch \in Seq(Nodes), NEW cl, \A i \in DOMAIN ch : cl[ch[i]] \in Clients
  PROVE  /\ ClientsOf(ch, cl) \in Seq(Clients) /\ Len(ClientsOf(ch, cl)) = Len(ch)
         /\ Len(ch) \in Nat /\ DOMAIN ch = 1 .. Len(ch) /\ DOMAIN ClientsOf(ch, cl) = 1 .. Len(ch)
         /\ \A i \in 1 .. Len(ch) : ClientsOf(ch, cl)[i] = cl[ch[i]]
<1>1. Len(ch) \in Nat /\ DOMAIN ch = 1 .. Len(ch)
  BY LenProperties
<1>2. ClientsOf(ch, cl) = [i \in 1 .. Len(ch) |-> cl[ch[i]]]
  BY <1>1 DEF ClientsOf
<1>3. [i \in 1 .. Len(ch) |-> cl[ch[i]]] \in Seq(Clients)
  BY <1>1
<1>4. Len([i \in 1 .. Len(ch) |-> cl[ch[i]]]) = Len(ch)
  BY <1>1
<1>5. ClientsOf(ch, cl) \in Seq(Clients) /\ Len(ClientsOf(ch, cl)) = Len(ch)
  BY <1>2, <1>3, <1>4, Zenon
<1> QED
  BY <1>1, <1>2, <1>5 DEF ClientsOf

LEMMA MembersFacts ==
  ASSUME IInv
  PROVE  /\ Members = ClientsOf(chain, client)
         /\ Members \in Seq(Clients) /\ Len(Members) = Len(chain) /\ Injective(Members)
         /\ Len(chain) \in Nat /\ DOMAIN chain = 1 .. Len(chain) /\ DOMAIN Members = 1 .. Len(chain)
         /\ \A i \in 1 .. Len(chain) : Members[i] = client[chain[i]]
<1>1. Members = ClientsOf(chain, client)
  BY DEF Members, ClientsOf
<1>2. chain \in Seq(Nodes) /\ \A i \in DOMAIN chain : client[chain[i]] \in Clients
  BY Reached DEF IInv, TypeOK
<1>3. /\ Members \in Seq(Clients) /\ Len(Members) = Len(chain)
      /\ Len(chain) \in Nat /\ DOMAIN chain = 1 .. Len(chain) /\ DOMAIN Members = 1 .. Len(chain)
      /\ \A i \in 1 .. Len(chain) : Members[i] = client[chain[i]]
  BY <1>1, <1>2, ClientsOfFacts, Zenon
<1>4. Injective(Members)
  BY <1>3 DEF IInv, MembersInv, Injective
<1> QED
  BY <1>1, <1>3, <1>4

\* A sequence that has the length and the elements of the members is the members.
LEMMA SameMembers ==
  ASSUME NEW s \in Seq(Clients), NEW ch \in Seq(Nodes), NEW cl,
         Len(ch) = Len(s), \A i \in 1 .. Len(s) : cl[ch[i]] = s[i]
  PROVE  ClientsOf(ch, cl) = s
<1>1. /\ Len(s) \in Nat /\ DOMAIN ch = 1 .. Len(s)
      /\ \A i \in 1 .. Len(s) : s[i] \in Clients
  BY LenProperties, ElementOfSeq
<1>2. \A i \in DOMAIN ch : cl[ch[i]] \in Clients
  BY <1>1
<1> HIDE DEF ClientsOf
<1>3. /\ ClientsOf(ch, cl) \in Seq(Clients) /\ Len(ClientsOf(ch, cl)) = Len(s)
      /\ \A i \in 1 .. Len(s) : ClientsOf(ch, cl)[i] = s[i]
  BY <1>2, ClientsOfFacts
<1> QED
  BY <1>3, SeqEqual

\* The listing a worker holds: what it visited under the mutex, until it is sent.
Listings == [w \in Workers |-> IF pc[w] = "report" THEN visited[w] ELSE NULL]

LEMMA RosterStays ==
  ASSUME IInv, chain' = chain, \A i \in DOMAIN chain : client'[chain[i]] = client[chain[i]]
  PROVE  Members' = Members
  BY DEF Members

LEMMA ListingStays ==
  ASSUME \A w \in Workers : pc'[w] = pc[w] /\ visited'[w] = visited[w]
  PROVE  Listings' = Listings
  BY DEF Listings

LEMMA RosterInit == Init => Roster!Init
<1> SUFFICES ASSUME Init PROVE Roster!Init
  OBVIOUS
<1>1. Members = <<>>
  <2>1. chain = <<>> /\ DOMAIN chain = {}
    BY DEF Init
  <2> QED
    BY <2>1 DEF Members
<1>2. Listings = [w \in Workers |-> NULL]
  <2>1. \A w \in Workers : pc[w] # "report"
    BY Labels DEF Init
  <2> QED
    BY <2>1 DEF Listings
<1> QED
  BY <1>1, <1>2 DEF Roster!Init, Listings

\* client_list_add lets the client of the new node join.
LEMMA AddJoins ==
  ASSUME IInv, Add
  PROVE  Roster!Join(client[curr[Main]]) /\ client[curr[Main]] \in Clients
<1> USE DEF IInv
<1> DEFINE n == curr[Main]
           c == client[curr[Main]]
<1>1. Main \in Threads /\ pc[Main] = "link"
  BY Labels DEF Add, At
<1>2. n # NULL /\ n \in Nodes /\ c \in Clients /\ pc[c] = "none"
  BY <1>1, Reached DEF MainInv
<1>3. /\ Members \in Seq(Clients) /\ Len(Members) = Len(chain)
      /\ Len(chain) \in Nat /\ DOMAIN chain = 1 .. Len(chain)
      /\ \A i \in 1 .. Len(chain) : Members[i] = client[chain[i]]
  BY MembersFacts
<1>4. ~Contains(Members, c)
  <2>1. ~\E i \in DOMAIN chain : client[chain[i]] = c
    BY <1>1, <1>2 DEF MembersInv
  <2> QED
    BY <1>3, <2>1 DEF Contains
<1>5. Members' = Append(Members, c)
  <2> DEFINE s == Append(Members, c)
  <2>1. /\ s \in Seq(Clients) /\ Len(s) = Len(chain) + 1
        /\ \A i \in 1 .. Len(chain) : s[i] = client[chain[i]]
        /\ s[Len(chain) + 1] = c
    BY <1>2, <1>3, AppendFacts
  <2>2. /\ chain' \in Seq(Nodes) /\ Len(chain') = Len(chain) + 1
        /\ \A i \in 1 .. Len(chain) : chain'[i] = chain[i]
        /\ chain'[Len(chain) + 1] = n
    BY AddFacts
  <2>3. client' = client
    BY DEF Add
  <2> HIDE DEF s
  <2>4. \A i \in 1 .. Len(s) : client'[chain'[i]] = s[i]
    <3> SUFFICES ASSUME NEW i \in 1 .. Len(chain) + 1 PROVE client'[chain'[i]] = s[i]
      BY <2>1
    <3>1. i \in 1 .. Len(chain) \/ i = Len(chain) + 1
      BY <1>3
    <3> QED
      BY <2>1, <2>2, <2>3, <3>1
  <2>5. ClientsOf(chain', client') = s
    BY <2>1, <2>2, <2>4, SameMembers
  <2> QED
    BY <2>5 DEF Members, ClientsOf, s
<1>6. Listings' = Listings
  <2>1. visited' = visited /\ \A w \in Workers : pc'[w] = pc[w]
    BY MainFrame DEF MainStep, walks
  <2> QED
    BY <2>1, ListingStays
<1> QED
  BY <1>2, <1>4, <1>5, <1>6 DEF Roster!Join, Roster!Contains, Contains, Listings

\* client_list_remove lets the client of the thread leave: the others keep their
\* order, wherever the node was.
LEMMA UnlinkLeaves ==
  ASSUME IInv, NEW c \in Clients, Unlink(c)
  PROVE  Roster!Leave(c)
<1> USE DEF IInv
<1>1. /\ Members \in Seq(Clients) /\ Len(Members) = Len(chain) /\ Injective(Members)
      /\ Len(chain) \in Nat /\ DOMAIN chain = 1 .. Len(chain)
      /\ DOMAIN Members = 1 .. Len(chain)
      /\ \A i \in 1 .. Len(chain) : Members[i] = client[chain[i]]
  BY MembersFacts
<1>2. PICK k \in DOMAIN chain :
         /\ client[chain[k]] = c
         /\ chain' \in Seq(Nodes) /\ Len(chain') = Len(chain) - 1
         /\ \A i \in 1 .. Len(chain) - 1 : chain'[i] = IF i < k THEN chain[i] ELSE chain[i + 1]
  BY UnlinkFacts
<1>3. k \in 1 .. Len(chain) /\ Members[k] = c
  BY <1>1, <1>2
<1>4. Contains(Members, c)
  BY <1>1, <1>3 DEF Contains
<1>5. Roster!PlaceOf(c) = k
  <2>1. \A i \in DOMAIN Members : Members[i] = c <=> i = k
    BY <1>1, <1>3 DEF Injective
  <2> QED
    BY <1>1, <1>3, <2>1 DEF Roster!PlaceOf
<1>6. Members' = RemoveAt(Members, k)
  <2> DEFINE s == RemoveAt(Members, k)
  <2>1. /\ s \in Seq(Clients) /\ Len(s) = Len(chain) - 1
        /\ \A i \in 1 .. Len(chain) - 1 : s[i] = IF i < k THEN Members[i] ELSE Members[i + 1]
    <3> DEFINE m == Members
    <3>1. m \in Seq(Clients) /\ Injective(m) /\ k \in DOMAIN m /\ Len(m) = Len(chain)
      BY <1>1, <1>3
    <3> HIDE DEF m
    <3>2. /\ RemoveAt(m, k) \in Seq(Clients) /\ Len(RemoveAt(m, k)) = Len(m) - 1
          /\ \A i \in 1 .. Len(m) - 1 : RemoveAt(m, k)[i] = IF i < k THEN m[i] ELSE m[i + 1]
      BY <3>1, RemoveFacts
    <3> QED
      BY <3>1, <3>2, Zenon DEF m, s
  <2> HIDE DEF s
  <2>2. client' = client
    BY DEF Unlink
  <2>3. \A i \in 1 .. Len(s) : client'[chain'[i]] = s[i]
    <3> SUFFICES ASSUME NEW i \in 1 .. Len(chain) - 1 PROVE client'[chain'[i]] = s[i]
      BY <2>1
    <3>1. i \in 1 .. Len(chain) /\ i + 1 \in 1 .. Len(chain)
      BY <1>1
    <3> QED
      BY <1>1, <1>2, <2>1, <2>2, <3>1
  <2>4. ClientsOf(chain', client') = s
    BY <1>2, <2>1, <2>3, SameMembers
  <2> QED
    BY <2>4 DEF Members, ClientsOf, s
<1>7. Listings' = Listings
  <2>1. \A w \in Workers : pc'[w] = pc[w] /\ visited'[w] = visited[w]
    BY RemovalAndWalks DEF ListenerStep
  <2> QED
    BY <2>1, ListingStays
<1> QED
  BY <1>4, <1>5, <1>6, <1>7 DEF Roster!Leave, Roster!Contains, Contains, Roster!RemoveAt, RemoveAt,
                                Listings

\* What client_send_clients copied under the mutex is the members of that moment.
LEMMA ListingIsMembers ==
  ASSUME IInv, NEW w \in Workers, mutex = w, curr[w] = NULL
  PROVE  visited[w] = Members
<1>1. /\ Members \in Seq(Clients) /\ Len(Members) = Len(chain)
      /\ \A i \in 1 .. Len(chain) : Members[i] = client[chain[i]]
  BY MembersFacts
<1>2. visited[w] \in Seq(Clients)
  BY DEF IInv, TypeOK
<1>3. VisitedFirst(w, Len(chain))
  BY DEF IInv, LockedWalkInv
<1>4. /\ Len(visited[w]) = Len(Members)
      /\ \A i \in 1 .. Len(visited[w]) : visited[w][i] = Members[i]
  BY <1>1, <1>3 DEF VisitedFirst
<1> QED
  BY <1>1, <1>2, <1>4, SeqEqual

\* The end of a walk under the mutex is a listing.
LEMMA EndLists ==
  ASSUME IInv, NEW w \in Workers, EndListing(w)
  PROVE  Roster!List(w)
<1> USE DEF IInv
<1>1. /\ w \in Threads /\ pc[w] = "visit" /\ curr[w] = NULL /\ mutex = w
      /\ pc' = [pc EXCEPT ![w] = "report"] /\ visited' = visited
      /\ chain' = chain /\ client' = client
  BY Labels DEF EndListing, At, Goto, walks, list, fields
<1>2. visited[w] = Members
  BY <1>1, ListingIsMembers
<1>3. pc'[w] = "report" /\ \A v \in Workers \ {w} : pc'[v] = pc[v]
  <2>1. Workers \subseteq Threads
    BY Labels
  <2> QED
    BY <1>1, <2>1 DEF TypeOK
<1>4. Listings[w] = NULL
  BY <1>1 DEF Listings
<1>5. Listings' = [Listings EXCEPT ![w] = Members]
  <2> DEFINE m == Members
  <2>1. visited[w] = m
    BY <1>2
  <2> HIDE DEF m
  <2>2. \A v \in Workers : (IF pc'[v] = "report" THEN visited'[v] ELSE NULL)
                             = IF v = w THEN m ELSE Listings[v]
    BY <1>1, <1>3, <2>1 DEF Listings
  <2>3. Listings' = [v \in Workers |-> IF v = w THEN m ELSE Listings[v]]
    BY <2>2 DEF Listings
  <2>4. [Listings EXCEPT ![w] = m] = [v \in Workers |-> IF v = w THEN m ELSE Listings[v]]
    BY DEF Listings
  <2> QED
    BY <2>3, <2>4 DEF m
<1>6. Members' = Members
  BY <1>1, RosterStays
<1> QED
  BY <1>4, <1>5, <1>6 DEF Roster!List, Listings

\* The listing is forgotten when it was sent.
LEMMA SendForgets ==
  ASSUME IInv, NEW w \in Workers, SendListing(w)
  PROVE  Roster!Forget(w) \/ UNCHANGED <<Members, Listings>>
<1> USE DEF IInv
<1>1. /\ w \in Threads /\ pc[w] = "report" /\ pc' = [pc EXCEPT ![w] = "idle"]
      /\ chain' = chain /\ client' = client
      /\ visited' = [visited EXCEPT ![w] = <<>>]
  BY Labels DEF SendListing, At, Goto, Reset, list, fields
<1>2. pc'[w] = "idle" /\ \A v \in Workers \ {w} : pc'[v] = pc[v] /\ visited'[v] = visited[v]
  <2>1. Workers \subseteq Threads
    BY Labels
  <2> QED
    BY <1>1, <2>1 DEF TypeOK
<1>3. Listings' = [Listings EXCEPT ![w] = NULL]
  <2>1. \A v \in Workers : (IF pc'[v] = "report" THEN visited'[v] ELSE NULL)
                             = IF v = w THEN NULL ELSE Listings[v]
    BY <1>2 DEF Listings
  <2>2. Listings' = [v \in Workers |-> IF v = w THEN NULL ELSE Listings[v]]
    BY <2>1 DEF Listings
  <2>3. [Listings EXCEPT ![w] = NULL] = [v \in Workers |-> IF v = w THEN NULL ELSE Listings[v]]
    BY DEF Listings
  <2> QED
    BY <2>2, <2>3
<1>4. Members' = Members
  BY <1>1, RosterStays
<1>5. CASE Listings[w] # NULL
  BY <1>3, <1>4, <1>5 DEF Roster!Forget, Listings
<1>6. CASE Listings[w] = NULL
  <2>1. [Listings EXCEPT ![w] = NULL] = Listings
    BY <1>6 DEF Listings
  <2> QED
    BY <1>3, <1>4, <2>1
<1> QED
  BY <1>5, <1>6

LEMMA RosterNext == IInv /\ [Next]_vars => [Roster!Next]_(Roster!vars)
<1> SUFFICES ASSUME IInv, [Next]_vars
             PROVE  Roster!Next \/ UNCHANGED <<Members, Listings>>
  BY DEF Roster!vars, Listings
<1> USE DEF IInv
<1>1. Main \in Threads /\ Workers \subseteq Threads
  BY Labels
\* The other steps neither change the members nor what a worker has listed.
<1>2. ASSUME ListStays, \A w \in Workers : pc'[w] = pc[w] /\ visited'[w] = visited[w]
      PROVE  UNCHANGED <<Members, Listings>>
  BY <1>2, RosterStays, ListingStays DEF ListStays
<1>3. CASE MainStep
  <2>1. \A w \in Workers : pc'[w] = pc[w] /\ visited'[w] = visited[w]
    BY <1>3, MainFrame DEF walks
  <2>2. CASE Create
    <3>1. PICK n \in Nodes, c \in Clients : n \notin Range(chain) /\ client' = [client EXCEPT ![n] = c]
      BY <2>2, CreateFacts
    <3>2. chain' = chain /\ client \in [Nodes -> Clients \cup {NULL}]
      BY <2>2 DEF Create, TypeOK
    <3>3. \A i \in DOMAIN chain : client'[chain[i]] = client[chain[i]]
      BY <3>1, <3>2, ChainFacts
    <3> QED
      BY <2>1, <3>2, <3>3, RosterStays, ListingStays
  <2>3. CASE Add
    BY <2>3, AddJoins DEF Roster!Next
  <2>4. CASE StartListener \/ SweepLock \/ SweepNode \/ SweepUnlock
    <3>1. ListStays
      BY <2>4 DEF StartListener, SweepLock, SweepNode, SweepUnlock, ListStays, list, fields
    <3> QED
      BY <1>2, <2>1, <3>1
  <2> QED
    BY <1>3, <2>2, <2>3, <2>4 DEF MainStep
<1>4. ASSUME NEW c \in Clients, ListenerStep(c) PROVE Roster!Next \/ UNCHANGED <<Members, Listings>>
  <2>1. CASE Unlink(c)
    BY <2>1, UnlinkLeaves DEF Roster!Next
  <2>2. CASE ~Unlink(c)
    <3>1. ListStays
      BY <1>4, <2>2
         DEF ListenerStep, LeaveLock, Search, DestroyClient, FreeNode, ListStays, list, fields
    <3>2. \A w \in Workers : pc'[w] = pc[w] /\ visited'[w] = visited[w]
      BY <1>4, RemovalAndWalks
    <3> QED
      BY <1>2, <3>1, <3>2
  <2> QED
    BY <2>1, <2>2
<1>5. ASSUME NEW w \in Workers, WorkerStep(w) PROVE Roster!Next \/ UNCHANGED <<Members, Listings>>
  <2>1. /\ \A t \in Threads \ {w} : pc'[t] = pc[t]
        /\ ListStays /\ \A v \in Workers \ {w} : visited'[v] = visited[v]
    BY <1>5, WorkerFrame
  <2>2. Members' = Members
    BY <2>1, RosterStays DEF ListStays
  <2>3. CASE EndListing(w)
    BY <2>3, EndLists DEF Roster!Next
  <2>4. CASE SendListing(w)
    BY <2>4, SendForgets DEF Roster!Next
  <2>5. CASE StartMsg(w) \/ StartListing(w) \/ Load(w) \/ Visit(w) \/ Advance(w) \/ EndMsg(w)
    <3>1. pc[w] # "report" /\ pc'[w] # "report"
      BY <1>1, <2>5 DEF StartMsg, StartListing, FormatFreed, Begin, Load, Visit, Advance, EndMsg, At, Goto, TypeOK
    <3>2. \A v \in Workers : (IF pc'[v] = "report" THEN visited'[v] ELSE NULL)
                               = IF pc[v] = "report" THEN visited[v] ELSE NULL
      BY <1>1, <2>1, <3>1
    <3>3. Listings' = Listings
      BY <3>2 DEF Listings
    <3> QED
      BY <2>2, <3>3
  <2>6. CASE FormatFreed(w) \/ LoseListing(w)
    BY <1>2, <2>1, <2>6 DEF FormatFreed, LoseListing, walks
  <2> QED
    BY <1>5, <2>3, <2>4, <2>5, <2>6 DEF WorkerStep
<1>6. CASE UNCHANGED vars
  BY <1>2, <1>6 DEF vars, list, fields, walks, ListStays
<1> QED
  BY <1>3, <1>4, <1>5, <1>6 DEF Next

\* Seen without its pointers, the list is the roster of ClientRoster: a client joins
\* at the end, a removal keeps the order of the others, and a listing under the
\* mutex shows the members of one moment, whatever runs meanwhile.
THEOREM ImplementsRoster == Spec => RosterSpec
<1>1. Spec => Roster!Init /\ [][Roster!Next]_(Roster!vars)
  BY RosterInit, RosterNext, Invariance, PTL DEF Spec
<1> QED
  BY <1>1 DEF RosterSpec, Roster!Spec
=============================================================================
