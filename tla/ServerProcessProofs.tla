------------------------- MODULE ServerProcessProofs ------------------------
(* Proofs about ServerProcess for any number of descriptors, connections   *)
(* and signals.                                                            *)
EXTENDS ServerProcess, SequenceTheorems, FiniteSetTheorems, TLAPS

\* The calls of the start, before and after there is a socket.
Early == {"start", "socket"}
Preparing == {"resolve", "bind", "listen"}
Serving == {"loop", "accept", "dup", "add", "blocked", "return"}

PartNames == {"flags", "list", "queue", "pool", "handler"}

\* The parts set up are the first ones of Parts.
FirstParts(s) ==
  /\ s \in Seq(PartNames) /\ Len(s) <= Len(Parts)
  /\ \A i \in 1 .. Len(s) : s[i] = Parts[i]

ReadyInv == FirstParts(ready)

\* How far the start has come, by the place of the main thread; a process that
\* has ended leaves it at the exit.
StartInv ==
  /\ main \in Early \cup Preparing => ready = <<>>
  /\ main \in Early => socketFd = NULL
  /\ main = "setup" => Len(ready) < Len(Parts)
  /\ main \in Serving \/ closing # "no" \/ listed # {} => ready = Parts
  /\ main \in Preparing \cup Serving \cup {"setup"} \/ closing # "no" => socketFd \in Fds
  /\ main = "exit" <=> ended # "no"

\* Nobody connects before the accept loop, and only there a client is created.
FreshInv ==
  /\ \A c \in listed : Len(held[c]) = 3
  /\ ended = "no" =>
       /\ main \in {"dup", "add"} => fresh # NULL
       /\ fresh # NULL => main \in {"dup", "add", "blocked"}
       /\ fresh \notin listed
       /\ main = "dup" => Len(held[fresh]) \in {1, 2}
       /\ main = "add" => Len(held[fresh]) = 3

\* Of the numbers a client keeps no two are the same.
Distinct(s) == \A i, j \in 1 .. Len(s) : s[i] = s[j] => i = j

\* Up to the first signal every descriptor belongs to whom it was opened for.
OwnersInv ==
  ended = "no" /\ ~gone /\ signals <= 1 =>
    /\ \A f \in Fds : \A c \in Clients :
         files[f] = c <=> c \in listed \cup {fresh} /\ f \in Range(held[c])
    /\ \A c \in listed \cup ({fresh} \ {NULL}) : Distinct(held[c])
    /\ \A f \in Fds : files[f] = Listener <=> f = socketFd /\ closing = "no"

SignalInv ==
  /\ signals = 0 => closing = "no" /\ ~gone
  /\ signals <= 1 => ~strayed
  /\ ended = "failure" /\ ready = <<>> => Free = Fds
  /\ ended = "no" /\ main \in Early => Free = Fds
  /\ ended = "no" /\ main \in Preparing => Free = Fds \ {socketFd}

IInv == TypeOK /\ ReadyInv /\ StartInv /\ FreshInv /\ OwnersInv /\ SignalInv

-----------------------------------------------------------------------------
(* Lemmas.                                                                 *)

LEMMA PartsFacts ==
  /\ Parts \in Seq(PartNames) /\ Len(Parts) = 5
  /\ Parts[1] = "flags" /\ Parts[2] = "list" /\ Parts[3] = "queue"
  /\ Parts[4] = "pool" /\ Parts[5] = "handler"
<1>1. <<"flags", "list", "queue", "pool", "handler">> \in [1 .. 5 -> PartNames]
  BY DEF PartNames
<1>2. Parts \in Seq(PartNames) /\ Len(Parts) = 5
  BY <1>1, SeqDef, LenProperties DEF Parts
<1>3. Parts[1] = "flags" /\ Parts[2] = "list" /\ Parts[3] = "queue"
  BY DEF Parts
<1>4. Parts[4] = "pool" /\ Parts[5] = "handler"
  BY DEF Parts
<1> QED
  BY <1>2, <1>3, <1>4

\* A part that is set up comes with those before it.
LEMMA ReadyOrder ==
  ASSUME NEW s, FirstParts(s)
  PROVE  /\ Len(s) \in Nat
         /\ IsPrefix(s, Parts)
         /\ "handler" \in Range(s) <=> s = Parts
<1>1. Len(s) \in Nat /\ DOMAIN s = 1 .. Len(s) /\ s \in Seq(PartNames)
  BY LenProperties DEF FirstParts
<1>2. \A i \in 1 .. Len(s) : s[i] \in PartNames /\ Parts[i] \in PartNames
  BY <1>1, ElementOfSeq DEF FirstParts
<1>3. 1 \in Int /\ Len(s) \in Int
  BY <1>1
<1>4. IsPrefix(s, Parts)
  <2>1. /\ SubSeq(s, 1, Len(s)) \in Seq(PartNames)
        /\ Len(SubSeq(s, 1, Len(s))) = IF 1 <= Len(s) THEN Len(s) - 1 + 1 ELSE 0
        /\ \A i \in 1 .. (Len(s) - 1 + 1) : SubSeq(s, 1, Len(s))[i] = s[1 + i - 1]
    BY <1>2, <1>3, SubSeqProperties
  <2>2. /\ SubSeq(Parts, 1, Len(s)) \in Seq(PartNames)
        /\ Len(SubSeq(Parts, 1, Len(s))) = IF 1 <= Len(s) THEN Len(s) - 1 + 1 ELSE 0
        /\ \A i \in 1 .. (Len(s) - 1 + 1) : SubSeq(Parts, 1, Len(s))[i] = Parts[1 + i - 1]
    BY <1>2, <1>3, SubSeqProperties
  <2>3. \A i \in 1 .. Len(SubSeq(s, 1, Len(s))) :
          SubSeq(s, 1, Len(s))[i] = SubSeq(Parts, 1, Len(s))[i]
    BY <1>1, <2>1, <2>2 DEF FirstParts
  <2>4. SubSeq(s, 1, Len(s)) = SubSeq(Parts, 1, Len(s))
    BY <2>1, <2>2, <2>3, SeqEqual
  <2> QED
    BY <2>4 DEF IsPrefix, FirstParts
<1>5. Len(s) = 5 => s = Parts
  BY <1>1, PartsFacts, SeqEqual DEF FirstParts
<1>6. \A i \in 1 .. Len(s) : i \in 1 .. 5 /\ s[i] = Parts[i]
  BY <1>1, PartsFacts DEF FirstParts
<1>7. "handler" \in Range(s) => Len(s) = 5
  BY <1>1, <1>6, PartsFacts DEF Range, FirstParts
<1>8. s = Parts => "handler" \in Range(s)
  <2>1. SUFFICES ASSUME s = Parts PROVE "handler" \in Range(s)
    OBVIOUS
  <2>2. 5 \in DOMAIN s /\ s[5] = "handler"
    BY <1>1, <2>1, PartsFacts
  <2> QED
    BY <2>2 DEF Range
<1> QED
  BY <1>1, <1>4, <1>5, <1>7, <1>8

\* The lowest free descriptor is free.
LEMMA LowestIsFree ==
  ASSUME Free # {}
  PROVE  Min(Free) \in Free
<1>1. Free \subseteq Nat
  BY ProcessAssumption DEF ProcessAssumption, Free
<1> DEFINE UpTo(x) == {y \in Free : y <= x}
           R == StrictSubsetOrdering(Free)
<1>2. IsFiniteSet(Free)
  BY FS_Subset, ProcessAssumption DEF ProcessAssumption, Free
<1>3. {UpTo(x) : x \in Free} \subseteq FiniteSubsetsOf(Free)
  BY <1>2, FS_Subset DEF FiniteSubsetsOf
<1>4. PICK s \in {UpTo(x) : x \in Free} : \A t \in {UpTo(x) : x \in Free} : ~(<<t, s>> \in R)
  <2>1. IsWellFoundedOn(R, FiniteSubsetsOf(Free))
    BY FS_StrictSubsetOrderingWellFounded
  <2>2. {UpTo(x) : x \in Free} # {}
    OBVIOUS
  <2> HIDE DEF R, UpTo
  <2> QED
    BY <1>3, <2>1, <2>2, WFMin
<1>5. PICK m \in Free : s = UpTo(m)
  BY <1>4
<1>6. ASSUME NEW y \in Free, y < m PROVE FALSE
  <2>1. UpTo(y) \subseteq UpTo(m) /\ m \in UpTo(m) /\ m \notin UpTo(y)
    <3>1. y \in Nat /\ m \in Nat /\ \A z \in Free : z \in Nat
      BY <1>1
    <3>2. \A z \in Free : z <= y => z <= m
      BY <1>6, <3>1
    <3>3. m <= m /\ ~(m <= y)
      BY <1>6, <3>1
    <3> QED
      BY <3>2, <3>3
  <2>2. <<UpTo(y), UpTo(m)>> \in R
    BY <2>1 DEF StrictSubsetOrdering
  <2> QED
    BY <1>4, <1>5, <2>2
<1>7. \A y \in Free : m <= y
  BY <1>1, <1>6
<1> QED
  BY <1>7 DEF Min

\* The numbers of a client are a sequence of at most three descriptors.
LEMMA NumbersType ==
  ASSUME NEW s
  PROVE  s \in UNION {[1 .. n -> Fds] : n \in 0 .. 3} <=> s \in Seq(Fds) /\ Len(s) \in 0 .. 3
<1>1. ASSUME NEW n \in 0 .. 3, s \in [1 .. n -> Fds]
      PROVE  s \in Seq(Fds) /\ Len(s) \in 0 .. 3
  BY <1>1, SeqDef, LenProperties
<1>2. ASSUME s \in Seq(Fds), Len(s) \in 0 .. 3
      PROVE  \E n \in 0 .. 3 : s \in [1 .. n -> Fds]
  BY <1>2, LenProperties
<1> QED
  BY <1>1, <1>2

\* A number that is new joins the numbers of a client.
LEMMA AppendNumber ==
  ASSUME NEW s \in Seq(Fds), NEW f \in Fds, f \notin Range(s), Distinct(s)
  PROVE  /\ Append(s, f) \in Seq(Fds) /\ Len(Append(s, f)) = Len(s) + 1
         /\ Len(s) \in Nat
         /\ Distinct(Append(s, f))
         /\ Range(Append(s, f)) = Range(s) \cup {f}
<1>1. /\ Append(s, f) \in Seq(Fds) /\ Len(Append(s, f)) = Len(s) + 1
      /\ \A i \in 1 .. Len(s) : Append(s, f)[i] = s[i]
      /\ Append(s, f)[Len(s) + 1] = f
  BY AppendProperties
<1>2. Len(s) \in Nat /\ DOMAIN s = 1 .. Len(s) /\ DOMAIN Append(s, f) = 1 .. (Len(s) + 1)
  BY <1>1, LenProperties
<1>3. \A i \in 1 .. Len(s) : s[i] # f
  BY <1>2 DEF Range
<1>4. Distinct(Append(s, f))
  BY <1>1, <1>2, <1>3 DEF Distinct
<1>5. Range(Append(s, f)) = Range(s) \cup {f}
  BY <1>1, <1>2 DEF Range
<1> QED
  BY <1>1, <1>2, <1>4, <1>5

\* Three numbers of which no two are the same are three descriptors.
LEMMA ThreeNumbers ==
  ASSUME NEW s \in Seq(Fds), Len(s) = 3, Distinct(s)
  PROVE  Cardinality(Range(s)) = 3
<1>1. DOMAIN s = 1 .. 3
  BY LenProperties
<1>2. Range(s) = {s[1], s[2], s[3]}
  BY <1>1 DEF Range
<1>3. s[1] # s[2] /\ s[1] # s[3] /\ s[2] # s[3]
  BY DEF Distinct
<1>4. IsFiniteSet({s[1]}) /\ Cardinality({s[1]}) = 1
  BY FS_Singleton
<1>5. IsFiniteSet({s[1]} \cup {s[2]}) /\ Cardinality({s[1]} \cup {s[2]}) = 1 + 1
  <2>1. s[2] \notin {s[1]}
    BY <1>3
  <2> QED
    BY <1>4, <2>1, FS_AddElement
<1>6. Cardinality(({s[1]} \cup {s[2]}) \cup {s[3]}) = (1 + 1) + 1
  <2>1. s[3] \notin {s[1]} \cup {s[2]}
    BY <1>3
  <2> QED
    BY <1>5, <2>1, FS_AddElement
<1>7. Range(s) = ({s[1]} \cup {s[2]}) \cup {s[3]}
  BY <1>2
<1>8. Cardinality(Range(s)) = (1 + 1) + 1
  BY <1>6, <1>7
<1> QED
  BY <1>8

-----------------------------------------------------------------------------
(* The invariant.                                                          *)

LEMMA InitInv == Init => IInv
<1> SUFFICES ASSUME Init PROVE IInv
  OBVIOUS
<1>1. ready \in Seq(PartNames) /\ Len(ready) = 0
  BY EmptySeq DEF Init
<1>2. ReadyInv
  BY <1>1, PartsFacts DEF ReadyInv, FirstParts
<1>3. \A c \in Clients : held[c] = <<>>
  BY DEF Init
<1>4. <<>> \in Seq(Fds) /\ Len(<<>>) = 0
  BY EmptySeq
<1>5. <<>> \in UNION {[1 .. n -> Fds] : n \in 0 .. 3}
  BY <1>4, NumbersType
<1>6. held \in [Clients -> UNION {[1 .. n -> Fds] : n \in 0 .. 3}]
  BY <1>5 DEF Init
<1>7. IsPrefix(ready, Parts)
  BY <1>2, ReadyOrder DEF ReadyInv
<1>8. TypeOK
  <2>1. files \in [Fds -> Clients \cup {Listener, NULL}] /\ signals \in 0 .. MaxSignals
    BY ProcessAssumption DEF ProcessAssumption, Init
  <2> QED
    BY <1>6, <1>7, <2>1 DEF Init, TypeOK
<1>9. StartInv /\ FreshInv
  BY PartsFacts, <1>1 DEF Init, StartInv, FreshInv, Early, Preparing, Serving
<1>10. OwnersInv /\ SignalInv
  BY ProcessAssumption DEF ProcessAssumption, Init, OwnersInv, SignalInv, Free, Preparing
<1> QED
  BY <1>2, <1>8, <1>9, <1>10 DEF IInv

LEMMA StepInv == IInv /\ [Next]_vars => IInv'
<1> SUFFICES ASSUME IInv, [Next]_vars PROVE IInv'
  OBVIOUS
<1> USE DEF Early, Preparing, Serving
<1>a. TypeOK /\ ReadyInv /\ StartInv /\ FreshInv /\ OwnersInv /\ SignalInv
  BY DEF IInv
<1>b. /\ Len(ready) \in Nat /\ Len(Parts) = 5
      /\ "handler" \in Range(ready) <=> ready = Parts
      /\ ready = Parts => ready # <<>>
  <2>1. Parts # <<>>
    BY PartsFacts, EmptySeq
  <2> QED
    BY <1>a, <2>1, ReadyOrder, PartsFacts DEF ReadyInv
<1>c. /\ NULL \notin Fds /\ NULL \notin Clients /\ NULL # Listener /\ Listener \notin Clients
  BY ProcessAssumption DEF ProcessAssumption
<1>d. \A c \in Clients : held[c] \in Seq(Fds) /\ Len(held[c]) \in 0 .. 3
  BY <1>a, NumbersType DEF TypeOK
<1>1. ASSUME UNCHANGED ready PROVE ReadyInv' /\ IsPrefix(ready, Parts)'
  BY <1>1, <1>a DEF ReadyInv, FirstParts, TypeOK
<1>2. CASE Main
  <2>1. UNCHANGED <<sockets, socketFd, fresh, listed, ready, handler, strayed>> /\ main = "start"
    BY <1>2 DEF Main, At
  <2>2. TypeOK'
    BY <1>1, <1>2, <1>a, <2>1 DEF Main, Exit, TypeOK, sockets, handler
  <2>3. StartInv' /\ FreshInv'
    BY <1>2, <1>a, <2>1 DEF Main, At, Exit, StartInv, FreshInv, sockets, handler
  <2>4. OwnersInv' /\ SignalInv'
    BY <1>2, <1>a, <2>1 DEF Main, At, Exit, OwnersInv, SignalInv, Free, Distinct, sockets, handler
  <2> QED
    BY <1>1, <2>1, <2>2, <2>3, <2>4 DEF IInv
<1>3. CASE Socket
  <2>1. /\ UNCHANGED <<held, fresh, listed, ready, handler, strayed>> /\ main = "socket"
        /\ ended = "no" /\ Free = Fds /\ ready = <<>> /\ listed = {} /\ fresh = NULL /\ closing = "no"
    BY <1>3, <1>a, <1>b DEF Socket, At, SignalInv, StartInv, FreshInv
  <2>2. CASE Exit("failure") /\ UNCHANGED <<files, socketFd>>
    <3>1. TypeOK'
      BY <1>1, <1>a, <2>1, <2>2 DEF Exit, TypeOK, handler
    <3>2. StartInv' /\ FreshInv' /\ OwnersInv' /\ SignalInv'
      BY <1>a, <2>1, <2>2 DEF Exit, StartInv, FreshInv, OwnersInv, SignalInv, Free, handler
    <3> QED
      BY <1>1, <2>1, <3>1, <3>2 DEF IInv
  <2>3. CASE Open(Listener) /\ socketFd' = Min(Free) /\ main' = "resolve" /\ UNCHANGED ended
    <3>1. PICK f \in Fds : /\ f = Min(Free) /\ socketFd' = f
                           /\ files' = [files EXCEPT ![f] = Listener]
      BY <2>3, LowestIsFree DEF Open, Free
    <3>2. \A g \in Fds : files[g] = NULL /\ files'[g] = IF g = f THEN Listener ELSE NULL
      BY <1>a, <2>1, <3>1 DEF TypeOK, Free
    <3>3. TypeOK'
      BY <1>1, <1>a, <2>1, <2>3, <3>1 DEF TypeOK, handler
    <3>4. StartInv' /\ FreshInv'
      BY <1>a, <2>1, <2>3, <3>1 DEF StartInv, FreshInv, handler
    <3>5. Free' = Fds \ {f}
      BY <1>c, <3>2 DEF Free
    <3>6. OwnersInv' /\ SignalInv'
      BY <1>a, <1>c, <2>1, <2>3, <3>1, <3>2, <3>5 DEF OwnersInv, SignalInv, handler
    <3> QED
      BY <1>1, <2>1, <3>3, <3>4, <3>6 DEF IInv
  <2> QED
    BY <1>3, <2>2, <2>3 DEF Socket
<1>4. ASSUME NEW call \in Preparing, NEW then \in Preparing \cup {"setup"}, Prepare(call, then)
      PROVE  IInv'
  <2>1. /\ UNCHANGED <<held, socketFd, fresh, listed, ready, handler, strayed>> /\ main = call
        /\ ended = "no" /\ Free = Fds \ {socketFd} /\ ready = <<>> /\ listed = {} /\ fresh = NULL
        /\ closing = "no" /\ socketFd \in Fds
    BY <1>4, <1>a, <1>b DEF Prepare, At, SignalInv, StartInv, FreshInv
  <2>2. Len(<<>>) = 0
    BY EmptySeq
  <2>3. CASE main' = then /\ UNCHANGED <<files, ended>>
    <3>1. TypeOK'
      BY <1>1, <1>a, <2>1, <2>3 DEF TypeOK, handler
    <3>2. StartInv' /\ FreshInv'
      BY <1>a, <1>b, <2>1, <2>2, <2>3 DEF StartInv, FreshInv, handler
    <3>3. OwnersInv' /\ SignalInv'
      BY <1>a, <2>1, <2>3 DEF OwnersInv, SignalInv, Free, Distinct, handler
    <3> QED
      BY <1>1, <2>1, <3>1, <3>2, <3>3 DEF IInv
  <2>4. CASE Exit("failure") /\ files' = AfterFailure
    <3>1. TypeOK'
      BY <1>1, <1>a, <2>1, <2>4 DEF Exit, AfterFailure, Closed, TypeOK, handler
    <3>2. Free' = Fds
      BY <2>1, <2>4 DEF AfterFailure, Closed, Free
    <3>3. StartInv' /\ FreshInv' /\ OwnersInv' /\ SignalInv'
      BY <1>a, <2>1, <2>4, <3>2 DEF Exit, StartInv, FreshInv, OwnersInv, SignalInv, handler
    <3> QED
      BY <1>1, <2>1, <3>1, <3>3 DEF IInv
  <2> QED
    BY <1>4, <2>3, <2>4 DEF Prepare
<1>5. CASE SetUp
  <2>0. /\ UNCHANGED <<sockets, socketFd, fresh, listed, handler, strayed, ended>>
        /\ main = "setup" /\ ended = "no" /\ ready' = Append(ready, Parts[Len(ready) + 1])
    BY <1>5 DEF SetUp, At
  <2>1. /\ UNCHANGED <<sockets, socketFd, fresh, listed, handler, strayed, ended>>
        /\ main = "setup" /\ ended = "no" /\ ready' = Append(ready, Parts[Len(ready) + 1])
        /\ Len(ready) < 5 /\ listed = {} /\ closing = "no" /\ socketFd \in Fds /\ fresh = NULL
    <3>1. Len(ready) < 5 /\ socketFd \in Fds /\ fresh = NULL
      BY <2>0, <1>a, <1>b DEF StartInv, FreshInv
    <3>2. ready # Parts
      <4>1. ready = Parts => Len(ready) = Len(Parts)
        BY Zenon
      <4> QED
        BY <1>b, <3>1, <4>1
    <3> QED
      BY <2>0, <3>1, <3>2, <1>a DEF StartInv
  <2>2. Parts[Len(ready) + 1] \in PartNames
    BY <1>b, <2>1, PartsFacts DEF PartNames
  <2>3. /\ ready' \in Seq(PartNames) /\ Len(ready') = Len(ready) + 1
        /\ \A i \in 1 .. Len(ready) : ready'[i] = ready[i]
        /\ ready'[Len(ready) + 1] = Parts[Len(ready) + 1]
    BY <1>a, <2>1, <2>2, AppendProperties DEF ReadyInv, FirstParts
  <2>4. ReadyInv'
    BY <1>a, <1>b, <2>1, <2>3 DEF ReadyInv, FirstParts
  <2>5. IsPrefix(ready', Parts) /\ (Len(ready') = 5 => ready' = Parts) /\ ready' # <<>>
    <3>1. IsPrefix(ready', Parts)
      BY <2>4, ReadyOrder DEF ReadyInv
    <3>2. Len(ready') = 5 => ready' = Parts
      BY <2>4, PartsFacts, SeqEqual DEF ReadyInv, FirstParts
    <3>3. ready' # <<>>
      BY <1>b, <2>3, EmptySeq
    <3> QED
      BY <3>1, <3>2, <3>3
  <2>6. main' = IF Len(ready') = 5 THEN "loop" ELSE "setup"
    BY <1>5, <1>b DEF SetUp
  <2>7. TypeOK'
    BY <1>a, <2>1, <2>5, <2>6 DEF TypeOK, sockets, handler
  <2>8. StartInv' /\ FreshInv'
    BY <1>a, <1>b, <2>1, <2>3, <2>5, <2>6 DEF StartInv, FreshInv, sockets, handler
  <2>9. OwnersInv' /\ SignalInv'
    BY <1>a, <2>1, <2>6 DEF OwnersInv, SignalInv, Distinct, Free, sockets, handler
  <2> QED
    BY <2>4, <2>7, <2>8, <2>9 DEF IInv
<1>6. CASE CallAccept
  <2>1. /\ UNCHANGED <<sockets, socketFd, fresh, listed, ready, handler, strayed, ended>>
        /\ main = "loop" /\ main' \in {"accept", "return"}
    BY <1>6 DEF CallAccept, At, OnError
  <2>2. TypeOK' /\ StartInv' /\ FreshInv'
    BY <1>1, <1>a, <2>1 DEF TypeOK, StartInv, FreshInv, sockets, handler
  <2>3. OwnersInv' /\ SignalInv'
    BY <1>a, <2>1 DEF OwnersInv, SignalInv, Distinct, Free, sockets, handler
  <2> QED
    BY <1>1, <2>1, <2>2, <2>3 DEF IInv
<1>7. CASE AcceptFails
  <2>1. /\ UNCHANGED <<sockets, socketFd, fresh, listed, ready, handler, strayed, ended>>
        /\ main = "accept" /\ main' = "return"
    BY <1>7 DEF AcceptFails, At, OnError
  <2>2. TypeOK' /\ StartInv' /\ FreshInv'
    BY <1>1, <1>a, <2>1 DEF TypeOK, StartInv, FreshInv, sockets, handler
  <2>3. OwnersInv' /\ SignalInv'
    BY <1>a, <2>1 DEF OwnersInv, SignalInv, Distinct, Free, sockets, handler
  <2> QED
    BY <1>1, <2>1, <2>2, <2>3 DEF IInv
<1>8. CASE Accept
  <2>1. /\ UNCHANGED <<socketFd, listed, ready, handler, strayed, ended>>
        /\ main = "accept" /\ main' = "dup" /\ ended = "no" /\ ready = Parts /\ fresh = NULL
        /\ socketFd \in Fds
    BY <1>8, <1>a DEF Accept, At, StartInv, FreshInv
  <2>2. PICK c \in Clients : /\ held[c] = <<>> /\ Open(c) /\ fresh' = c
                            /\ held' = [held EXCEPT ![c] = <<Min(Free)>>]
    BY <1>8 DEF Accept
  <2>3. PICK f \in Fds : /\ f = Min(Free) /\ files[f] = NULL
                         /\ files' = [files EXCEPT ![f] = c]
    BY <2>2, LowestIsFree DEF Open, Free
  <2>4. /\ <<f>> \in Seq(Fds) /\ Len(<<f>>) = 1 /\ Range(<<f>>) = {f} /\ Distinct(<<f>>)
    BY DEF Range, Distinct
  <2>5. held'[c] = <<f>> /\ \A d \in Clients : d # c => held'[d] = held[d]
    BY <1>a, <2>2, <2>3 DEF TypeOK
  <2>6. c \notin listed
    BY <1>a, <2>2, EmptySeq DEF FreshInv
  <2>7. TypeOK'
    <3>1. <<f>> \in UNION {[1 .. n -> Fds] : n \in 0 .. 3}
      BY <2>4, NumbersType
    <3>2. held' \in [Clients -> UNION {[1 .. n -> Fds] : n \in 0 .. 3}]
      BY <1>a, <2>2, <2>3, <3>1 DEF TypeOK
    <3> QED
      BY <1>1, <1>a, <2>1, <2>2, <2>3, <3>2 DEF TypeOK, handler
  <2>8. StartInv' /\ SignalInv'
    BY <1>a, <1>b, <2>1 DEF StartInv, SignalInv, handler
  <2>9. FreshInv'
    BY <1>a, <1>c, <2>1, <2>2, <2>4, <2>5, <2>6 DEF FreshInv, TypeOK
  <2>10. OwnersInv'
    <3>1. SUFFICES ASSUME ~gone, signals <= 1 PROVE OwnersInv'
      BY <2>1 DEF OwnersInv, handler
    <3>2. \A g \in Fds : files'[g] = IF g = f THEN c ELSE files[g]
      BY <1>a, <2>3 DEF TypeOK
    <3>3. ASSUME NEW g \in Fds, NEW d \in Clients
          PROVE  files'[g] = d <=> d \in listed' \cup {fresh'} /\ g \in Range(held'[d])
      BY <1>a, <1>c, <2>1, <2>2, <2>3, <2>4, <2>5, <2>6, <3>1, <3>2 DEF OwnersInv
    <3>4. \A d \in listed' \cup ({fresh'} \ {NULL}) : Distinct(held'[d])
      BY <1>a, <2>1, <2>2, <2>4, <2>5, <3>1 DEF OwnersInv, TypeOK
    <3>5. \A g \in Fds : files'[g] = Listener <=> g = socketFd' /\ closing' = "no"
      BY <1>a, <1>c, <2>1, <2>3, <3>1, <3>2 DEF OwnersInv, handler
    <3> QED
      BY <3>3, <3>4, <3>5 DEF OwnersInv
  <2> QED
    BY <1>1, <2>1, <2>7, <2>8, <2>9, <2>10 DEF IInv
<1>9. CASE Dup
  <2>1. /\ UNCHANGED <<socketFd, fresh, listed, ready, handler, strayed, ended>>
        /\ main = "dup" /\ ended = "no" /\ ready = Parts /\ fresh \in Clients
        /\ Len(held[fresh]) \in {1, 2} /\ socketFd \in Fds /\ fresh \notin listed
    BY <1>9, <1>a, <1>c DEF Dup, At, StartInv, FreshInv, TypeOK
  <2>2. PICK f \in Fds : /\ f = Min(Free) /\ files[f] = NULL
                         /\ files' = [files EXCEPT ![f] = fresh]
                         /\ held' = [held EXCEPT ![fresh] = Append(held[fresh], f)]
    BY <1>9, LowestIsFree DEF Dup, Open, Free
  <2>3. /\ held'[fresh] = Append(held[fresh], f)
        /\ \A d \in Clients : d # fresh => held'[d] = held[d]
        /\ Append(held[fresh], f) \in Seq(Fds)
        /\ Len(held'[fresh]) = Len(held[fresh]) + 1
    BY <1>a, <1>d, <2>1, <2>2, AppendProperties DEF TypeOK
  <2>4. main' = IF Len(held'[fresh]) = 3 THEN "add" ELSE "dup"
    BY <1>9 DEF Dup, Complete
  <2>5. TypeOK'
    <3>0. Len(Append(held[fresh], f)) \in 0 .. 3
      BY <2>1, <2>3
    <3>1. Append(held[fresh], f) \in UNION {[1 .. n -> Fds] : n \in 0 .. 3}
      BY <2>3, <3>0, NumbersType
    <3>2. held' \in [Clients -> UNION {[1 .. n -> Fds] : n \in 0 .. 3}]
      BY <1>a, <2>2, <3>1 DEF TypeOK
    <3> QED
      BY <1>1, <1>a, <2>1, <2>2, <2>4, <3>2 DEF TypeOK, handler
  <2>6. StartInv' /\ SignalInv'
    BY <1>a, <1>b, <2>1, <2>4 DEF StartInv, SignalInv, handler
  <2>7. FreshInv'
    BY <1>a, <2>1, <2>3, <2>4 DEF FreshInv, TypeOK
  <2>8. OwnersInv'
    <3>1. SUFFICES ASSUME ~gone, signals <= 1 PROVE OwnersInv'
      BY <2>1 DEF OwnersInv, handler
    <3>2. \A g \in Fds : files'[g] = IF g = f THEN fresh ELSE files[g]
      BY <1>a, <2>2 DEF TypeOK
    <3>3. f \notin Range(held[fresh]) /\ Distinct(held[fresh])
      BY <1>a, <1>c, <2>1, <2>2, <3>1 DEF OwnersInv
    <3>4. Distinct(held'[fresh]) /\ Range(held'[fresh]) = Range(held[fresh]) \cup {f}
      BY <1>d, <2>1, <2>3, <3>3, AppendNumber
    <3>5. ASSUME NEW g \in Fds, NEW d \in Clients
          PROVE  files'[g] = d <=> d \in listed' \cup {fresh'} /\ g \in Range(held'[d])
      BY <1>a, <1>c, <2>1, <2>2, <2>3, <3>1, <3>2, <3>4 DEF OwnersInv
    <3>6. \A d \in listed' \cup ({fresh'} \ {NULL}) : Distinct(held'[d])
      BY <1>a, <2>1, <2>3, <3>1, <3>4 DEF OwnersInv, TypeOK
    <3>7. \A g \in Fds : files'[g] = Listener <=> g = socketFd' /\ closing' = "no"
      BY <1>a, <1>c, <2>1, <2>2, <3>1, <3>2 DEF OwnersInv, handler
    <3> QED
      BY <3>5, <3>6, <3>7 DEF OwnersInv
  <2> QED
    BY <1>1, <2>1, <2>5, <2>6, <2>7, <2>8 DEF IInv
<1>10. CASE DupFails
  <2>1. /\ UNCHANGED <<held, socketFd, fresh, listed, ready, handler, strayed>>
        /\ main = "dup" /\ ready = Parts /\ main' = "exit" /\ ended' = "failure"
        /\ socketFd \in Fds
    BY <1>10, <1>a DEF DupFails, At, Exit, StartInv
  <2>2. files' \in [Fds -> Clients \cup {Listener, NULL}]
    BY <1>10, <1>a DEF DupFails, Closed, TypeOK
  <2>3. TypeOK' /\ StartInv' /\ FreshInv'
    BY <1>1, <1>a, <2>1, <2>2 DEF TypeOK, StartInv, FreshInv, handler
  <2>4. OwnersInv' /\ SignalInv'
    BY <1>a, <1>b, <2>1 DEF OwnersInv, SignalInv, handler
  <2> QED
    BY <1>1, <2>1, <2>3, <2>4 DEF IInv
<1>11. CASE AddToList
  <2>1. /\ UNCHANGED <<sockets, socketFd, ready, handler, strayed>>
        /\ main = "add" /\ ended = "no" /\ ready = Parts /\ socketFd \in Fds
        /\ fresh \in Clients /\ fresh \notin listed /\ Len(held[fresh]) = 3
        /\ \/ /\ listed' = listed \cup {fresh} /\ fresh' = NULL
              /\ main' = "loop" /\ ended' = "no"
           \/ /\ listed' = listed /\ fresh' = fresh
              /\ main' = "exit" /\ ended' = "crash"
           \/ /\ listed' = listed /\ fresh' = fresh
              /\ main' = "blocked" /\ ended' = "no"
    BY <1>11, <1>a, <1>c DEF AddToList, At, Exit, StartInv, FreshInv, TypeOK
  <2>2. TypeOK' /\ StartInv' /\ FreshInv'
    BY <1>1, <1>a, <1>c, <2>1 DEF TypeOK, StartInv, FreshInv, sockets, handler
  <2>3. OwnersInv'
    BY <1>a, <1>c, <2>1 DEF OwnersInv, Distinct, sockets, handler
  <2>4. SignalInv'
    BY <1>a, <1>b, <2>1 DEF SignalInv, sockets, handler
  <2> QED
    BY <1>1, <2>1, <2>2, <2>3, <2>4 DEF IInv
<1>12. CASE Return
  <2>1. /\ UNCHANGED <<sockets, socketFd, fresh, listed, ready, handler, strayed>>
        /\ main = "return" /\ ready = Parts /\ main' = "exit" /\ ended' = "success"
    BY <1>12, <1>a DEF Return, At, Exit, StartInv
  <2>2. TypeOK' /\ StartInv' /\ FreshInv'
    BY <1>1, <1>a, <2>1 DEF TypeOK, StartInv, FreshInv, sockets, handler
  <2>3. OwnersInv' /\ SignalInv'
    BY <1>a, <2>1 DEF OwnersInv, SignalInv, sockets, handler
  <2> QED
    BY <1>1, <2>1, <2>2, <2>3 DEF IInv
<1>13. ASSUME NEW c \in Clients, Leave(c) PROVE IInv'
  <2>1. /\ UNCHANGED <<main, held, socketFd, fresh, ready, handler, strayed, ended>>
        /\ ended = "no" /\ c \in listed /\ listed' = listed \ {c} /\ ready = Parts
        /\ files' = Closed(Range(held[c])) /\ fresh \notin listed
    BY <1>13, <1>a DEF Leave, Numbers, StartInv, FreshInv
  <2>2. \A f \in Fds : files'[f] = IF f \in Range(held[c]) THEN NULL ELSE files[f]
    BY <2>1 DEF Closed
  <2>3. files' \in [Fds -> Clients \cup {Listener, NULL}]
    BY <1>a, <2>1 DEF Closed, TypeOK
  <2>4. TypeOK' /\ StartInv' /\ FreshInv'
    BY <1>1, <1>a, <2>1, <2>3 DEF TypeOK, StartInv, FreshInv, handler
  <2>5. OwnersInv'
    BY <1>a, <1>c, <2>1, <2>2 DEF OwnersInv, TypeOK, Distinct, handler
  <2>6. SignalInv'
    BY <1>a, <1>b, <2>1 DEF SignalInv, StartInv, handler
  <2> QED
    BY <1>1, <2>1, <2>4, <2>5, <2>6 DEF IInv
<1>14. CASE ListenOn
  <2>1. /\ UNCHANGED <<sockets, socketFd, fresh, listed, ready, handler, strayed>>
        /\ main' = "exit" /\ ended' = "crash"
    BY <1>14 DEF ListenOn, Exit
  <2>2. TypeOK' /\ StartInv' /\ FreshInv'
    BY <1>1, <1>a, <2>1 DEF TypeOK, StartInv, FreshInv, sockets, handler
  <2>3. OwnersInv' /\ SignalInv'
    BY <1>a, <2>1 DEF OwnersInv, SignalInv, sockets, handler
  <2> QED
    BY <1>1, <2>1, <2>2, <2>3 DEF IInv
<1>15. CASE Kill
  <2>1. /\ UNCHANGED <<sockets, socketFd, fresh, listed, ready, handler, strayed>>
        /\ main' = "exit" /\ ended' = "killed"
    BY <1>15 DEF Kill, Exit
  <2>2. TypeOK' /\ StartInv' /\ FreshInv'
    BY <1>1, <1>a, <2>1 DEF TypeOK, StartInv, FreshInv, sockets, handler
  <2>3. OwnersInv' /\ SignalInv'
    BY <1>a, <2>1 DEF OwnersInv, SignalInv, sockets, handler
  <2> QED
    BY <1>1, <2>1, <2>2, <2>3 DEF IInv
<1>16. ASSUME NEW thread \in {"main", "other"}, Interrupt(thread) PROVE IInv'
  <2>1. /\ UNCHANGED <<held, socketFd, fresh, listed, ready, gone>>
        /\ ended = "no" /\ ready = Parts /\ signals' = signals + 1 /\ signals' \in 0 .. MaxSignals
        /\ signals \in Nat
    BY <1>16, <1>a, <1>b, ProcessAssumption DEF ProcessAssumption, Interrupt, TypeOK
  <2>2. socketFd \in Fds
    BY <1>16, <1>a, <1>b, <2>1, PartsFacts DEF StartInv, TypeOK
  <2>3. CASE files[socketFd] = NULL
    <3>1. /\ UNCHANGED <<files, closer, closing, strayed>>
          /\ main' = "exit" /\ ended' = "failure"
      BY <1>16, <2>3 DEF Interrupt, Exit
    <3>2. TypeOK' /\ StartInv' /\ FreshInv'
      BY <1>1, <1>a, <2>1, <3>1 DEF TypeOK, StartInv, FreshInv
    <3>3. OwnersInv' /\ SignalInv'
      BY <1>a, <1>b, <2>1, <3>1 DEF OwnersInv, SignalInv
    <3> QED
      BY <1>1, <2>1, <3>2, <3>3 DEF IInv
  <2>4. CASE files[socketFd] # NULL
    <3>1. /\ files' = Closed({socketFd})
          /\ strayed' = (strayed \/ files[socketFd] # Listener)
          /\ closer' \in {"main", thread} /\ closing' = "join"
          /\ main' = IF thread = "main" /\ main = "accept" THEN "return" ELSE main
          /\ UNCHANGED ended
      BY <1>16, <2>4 DEF Interrupt
    <3>2. \A f \in Fds : files'[f] = IF f = socketFd THEN NULL ELSE files[f]
      BY <3>1 DEF Closed
    <3>3. files' \in [Fds -> Clients \cup {Listener, NULL}]
      BY <1>a, <3>1 DEF Closed, TypeOK
    <3>4. TypeOK' /\ StartInv' /\ FreshInv'
      BY <1>1, <1>a, <2>1, <2>2, <3>1, <3>3 DEF TypeOK, StartInv, FreshInv
    <3>5. signals' <= 1 => files[socketFd] = Listener /\ closing = "no" /\ ~strayed
      BY <1>a, <2>1, <2>2 DEF OwnersInv, SignalInv
    <3>6. OwnersInv'
      <4>1. SUFFICES ASSUME ended' = "no", ~gone', signals' <= 1 PROVE OwnersInv'
        BY DEF OwnersInv
      <4>2. /\ files[socketFd] = Listener /\ closing = "no" /\ signals <= 1
            /\ ended = "no" /\ ~gone
        BY <2>1, <3>5, <4>1
      <4>3. ASSUME NEW f \in Fds, NEW c \in Clients
            PROVE  files'[f] = c <=> c \in listed' \cup {fresh'} /\ f \in Range(held'[c])
        BY <1>a, <1>c, <2>1, <3>2, <4>2 DEF OwnersInv
      <4>4. \A c \in listed' \cup ({fresh'} \ {NULL}) : Distinct(held'[c])
        BY <1>a, <2>1, <4>2 DEF OwnersInv
      <4>5. \A f \in Fds : files'[f] = Listener <=> f = socketFd' /\ closing' = "no"
        BY <1>a, <1>c, <2>1, <3>1, <3>2, <4>2 DEF OwnersInv
      <4> QED
        BY <4>3, <4>4, <4>5 DEF OwnersInv
    <3>7. SignalInv'
      <4>1. main' \notin {"start", "socket", "resolve", "bind", "listen"}
        BY <1>a, <1>b, <2>1, <3>1 DEF StartInv
      <4>2. signals' <= 1 => ~strayed'
        BY <3>1, <3>5
      <4> QED
        BY <1>b, <2>1, <3>1, <4>1, <4>2 DEF SignalInv
    <3> QED
      BY <1>1, <2>1, <3>4, <3>6, <3>7 DEF IInv
  <2> QED
    BY <2>3, <2>4
<1>17. CASE JoinPool \/ DestroyQueue
  <2>1. /\ UNCHANGED <<sockets, socketFd, fresh, listed, ready, closer, gone, signals, strayed>>
        /\ closing # "no" /\ closing' \in {"sweep", "done"} /\ ready = Parts /\ ended = "no"
        /\ UNCHANGED <<main, ended>> \/ (main' = "exit" /\ ended' = "crash")
    BY <1>17, <1>a DEF JoinPool, DestroyQueue, Risk, Survive, Exit, StartInv
  <2>2. TypeOK' /\ StartInv' /\ FreshInv'
    BY <1>1, <1>a, <2>1 DEF TypeOK, StartInv, FreshInv, sockets
  <2>3. OwnersInv' /\ SignalInv'
    BY <1>a, <1>b, <2>1 DEF OwnersInv, SignalInv, StartInv, Distinct, sockets
  <2> QED
    BY <1>1, <2>1, <2>2, <2>3 DEF IInv
<1>18. CASE DestroyList
  <2>1. /\ UNCHANGED <<held, socketFd, fresh, listed, ready, closer, signals, strayed>>
        /\ closing = "sweep" /\ closing' = "free" /\ gone' = TRUE /\ ready = Parts /\ ended = "no"
        /\ UNCHANGED <<main, ended>> \/ (main' = "exit" /\ ended' = "crash")
    BY <1>18, <1>a DEF DestroyList, Risk, Survive, Exit, StartInv
  <2>2. files' \in [Fds -> Clients \cup {Listener, NULL}]
    BY <1>18, <1>a DEF DestroyList, Closed, TypeOK
  <2>3. TypeOK' /\ StartInv' /\ FreshInv'
    BY <1>1, <1>a, <2>1, <2>2 DEF TypeOK, StartInv, FreshInv
  <2>4. OwnersInv' /\ SignalInv'
    BY <1>a, <1>b, <2>1 DEF OwnersInv, SignalInv, StartInv
  <2> QED
    BY <1>1, <2>1, <2>3, <2>4 DEF IInv
<1>20. CASE GetStuck
  <2>1. /\ UNCHANGED <<sockets, socketFd, fresh, listed, ready, closer, gone, signals, strayed, ended>>
        /\ closing # "no" /\ closing' = "stuck" /\ ready = Parts /\ ended = "no"
        /\ main' \in {main, "blocked"}
    BY <1>20, <1>a DEF GetStuck, StartInv
  <2>2. TypeOK' /\ StartInv' /\ FreshInv'
    BY <1>1, <1>a, <2>1 DEF TypeOK, StartInv, FreshInv, sockets
  <2>3. OwnersInv' /\ SignalInv'
    BY <1>a, <1>b, <2>1 DEF OwnersInv, SignalInv, StartInv, Distinct, sockets, Free
  <2> QED
    BY <1>1, <2>1, <2>2, <2>3 DEF IInv
<1>19. CASE UNCHANGED vars
  <2>1. TypeOK' /\ ReadyInv' /\ StartInv' /\ FreshInv'
    BY <1>a, <1>19 DEF TypeOK, ReadyInv, StartInv, FreshInv, vars, sockets, handler
  <2>2. OwnersInv' /\ SignalInv'
    BY <1>a, <1>19 DEF OwnersInv, SignalInv, Distinct, Free, vars, sockets, handler
  <2> QED
    BY <2>1, <2>2 DEF IInv
<1> QED
  BY <1>2, <1>3, <1>4, <1>5, <1>6, <1>7, <1>8, <1>9, <1>10, <1>11, <1>12, <1>13, <1>14, <1>15,
     <1>16, <1>17, <1>18, <1>19, <1>20 DEF Next, MainStep, CloseStep

\* The inductive invariant holds in every reachable state.
THEOREM Invariance == Spec => []IInv
  BY InitInv, StepInv, PTL DEF Spec

\* Every variable keeps its type; a client never keeps a fourth descriptor.
THEOREM TypeCorrect == Spec => []TypeOK
<1>1. IInv => TypeOK
  BY DEF IInv
<1> QED
  BY <1>1, Invariance, PTL

\* For any number of descriptors and connections, whichever call fails: every
\* descriptor belongs to whom it was opened for until the list is destroyed or a
\* second signal comes, the handler of the first signal closes the listening
\* socket and no other, and a start that fails leaves no descriptor open.
THEOREM NoDescriptorIsLost == Spec => []DescriptorsAccounted
<1>1. IInv => DescriptorsAccounted
  <2> SUFFICES ASSUME IInv PROVE DescriptorsAccounted
    OBVIOUS
  <2>1. ASSUME ended = "no", ~gone, signals <= 1, NEW c \in listed
        PROVE  Cardinality(Range(held[c])) = 3
    <3>1. c \in Clients /\ Len(held[c]) = 3 /\ Distinct(held[c])
      BY <2>1 DEF IInv, FreshInv, OwnersInv, TypeOK
    <3>2. held[c] \in Seq(Fds)
      BY <3>1, NumbersType DEF IInv, TypeOK
    <3> QED
      BY <3>1, <3>2, ThreeNumbers
  <2> QED
    BY <2>1 DEF IInv, OwnersInv, SignalInv, DescriptorsAccounted
<1> QED
  BY <1>1, Invariance, PTL
=============================================================================
