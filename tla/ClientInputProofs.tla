------------------------- MODULE ClientInputProofs --------------------------
(* Proofs about ClientInput for any lines and any number of them.          *)
EXTENDS ClientInput, SequencesExt, SequenceTheorems, TLAPS

-----------------------------------------------------------------------------
(* What passing something on does to the sequence of what was passed on.   *)

\* Something is appended at the end.
LEMMA AppendFacts ==
  ASSUME NEW S, NEW s \in Seq(S), NEW e \in S
  PROVE  /\ Append(s, e) \in Seq(S)
         /\ Len(s) \in Nat /\ Len(Append(s, e)) = Len(s) + 1
         /\ DOMAIN s = 1 .. Len(s) /\ DOMAIN Append(s, e) = 1 .. Len(s) + 1
         /\ \A i \in 1 .. Len(s) : Append(s, e)[i] = s[i]
         /\ Append(s, e)[Len(s) + 1] = e
         /\ Range(Append(s, e)) = Range(s) \cup {e}
<1>1. /\ Append(s, e) \in Seq(S) /\ Len(Append(s, e)) = Len(s) + 1
      /\ \A i \in 1 .. Len(s) : Append(s, e)[i] = s[i]
      /\ Append(s, e)[Len(s) + 1] = e
  BY AppendProperties
<1>2. Len(s) \in Nat /\ DOMAIN s = 1 .. Len(s) /\ DOMAIN Append(s, e) = 1 .. Len(s) + 1
  BY <1>1, LenProperties
<1>3. Range(Append(s, e)) = Range(s) \cup {e}
  <2>1. 1 .. Len(s) + 1 = (1 .. Len(s)) \cup {Len(s) + 1}
    BY <1>2
  <2> HIDE <1>2
  <2>2. Range(Append(s, e)) = {Append(s, e)[i] : i \in 1 .. Len(s)} \cup {Append(s, e)[Len(s) + 1]}
    BY <1>2, <2>1 DEF Range
  <2> QED
    BY <1>1, <1>2, <2>2 DEF Range
<1> QED
  BY <1>1, <1>2, <1>3

\* The first is taken from the front.
LEMMA TailFacts ==
  ASSUME NEW S, NEW s \in Seq(S), s # <<>>
  PROVE  /\ Head(s) \in S /\ 1 \in DOMAIN s /\ Head(s) = s[1]
         /\ Tail(s) \in Seq(S) /\ Len(Tail(s)) = Len(s) - 1 /\ Len(s) \in Nat
         /\ DOMAIN s = 1 .. Len(s) /\ DOMAIN Tail(s) = 1 .. Len(s) - 1
         /\ \A i \in 1 .. Len(s) - 1 : i + 1 \in 1 .. Len(s) /\ Tail(s)[i] = s[i + 1]
<1>1. Len(s) \in Nat /\ Len(s) # 0 /\ DOMAIN s = 1 .. Len(s)
  BY LenProperties, EmptySeq
<1>2. Head(s) = s[1]
  OBVIOUS
<1>3. Head(s) \in S /\ Tail(s) \in Seq(S) /\ Len(Tail(s)) = Len(s) - 1
      /\ \A i \in 1 .. Len(Tail(s)) : Tail(s)[i] = s[i + 1]
  BY HeadTailProperties
<1>4. DOMAIN Tail(s) = 1 .. Len(Tail(s))
  BY <1>3, LenProperties
<1> QED
  BY <1>1, <1>2, <1>3, <1>4

-----------------------------------------------------------------------------

(* The inductive invariant.                                                *)

\* The lines on their way are the last that were entered, in order: the queue, and
\* before it the line the write thread holds, which is not for the client itself
\* once it is to be written.
OrderInv ==
  /\ Waiting <= Len(submitted)
  /\ \A i \in 1 .. Len(queue) : queue[i] = submitted[Len(submitted) - Len(queue) + i]
  /\ writer \in {"parse", "write"} => line = submitted[Len(submitted) - Len(queue)]
  /\ writer = "write" => line \notin Local

\* The socket is closed when the window is, after the goodbye.
WindowInv == open <=> event \notin {"exit", "exited"}

IInv == TypeOK /\ IndexInRange /\ OrderInv /\ WindowInv

-----------------------------------------------------------------------------
LEMMA Lengths ==
  ASSUME TypeOK
  PROVE  /\ Len(queue) \in Nat /\ Len(submitted) \in Nat /\ Len(history) \in Nat
         /\ \A i \in 1 .. Len(history) : history[i] \in Lines \cup {Empty, NULL}
         /\ queue = <<>> <=> Len(queue) = 0
         /\ history = <<>> <=> Len(history) = 0
  BY LenProperties, ElementOfSeq, EmptySeq DEF TypeOK

\* What Enter does to the queue and to the lines entered.
LEMMA EnterFacts ==
  ASSUME TypeOK, Enter
  PROVE  /\ queue' \in Seq(Lines \cup {Empty}) /\ Len(queue') = Len(queue) + 1
         /\ \A i \in 1 .. Len(queue) : queue'[i] = queue[i]
         /\ queue'[Len(queue) + 1] = field
         /\ submitted' \in Seq(Lines \cup {Empty}) /\ Len(submitted') = Len(submitted) + 1
         /\ \A i \in 1 .. Len(submitted) : submitted'[i] = submitted[i]
         /\ submitted'[Len(submitted) + 1] = field
<1>1. /\ queue \in Seq(Lines \cup {Empty}) /\ submitted \in Seq(Lines \cup {Empty})
      /\ field \in Lines \cup {Empty}
  BY DEF TypeOK
<1>2. queue' = Append(queue, field) /\ submitted' = Append(submitted, field)
  BY DEF Enter, Offered
<1>3. /\ Append(queue, field) \in Seq(Lines \cup {Empty}) /\ Len(Append(queue, field)) = Len(queue) + 1
      /\ \A i \in 1 .. Len(queue) : Append(queue, field)[i] = queue[i]
      /\ Append(queue, field)[Len(queue) + 1] = field
  BY <1>1, AppendFacts
<1>4. /\ Append(submitted, field) \in Seq(Lines \cup {Empty})
      /\ Len(Append(submitted, field)) = Len(submitted) + 1
      /\ \A i \in 1 .. Len(submitted) : Append(submitted, field)[i] = submitted[i]
      /\ Append(submitted, field)[Len(submitted) + 1] = field
  BY <1>1, AppendFacts
<1> QED
  BY <1>2, <1>3, <1>4, Zenon

\* What the write thread takes off the queue.
LEMMA TakeFacts ==
  ASSUME TypeOK, TakeLine
  PROVE  /\ queue' \in Seq(Lines \cup {Empty}) /\ Len(queue') = Len(queue) - 1 /\ Len(queue) # 0
         /\ \A i \in 1 .. Len(queue) - 1 : queue'[i] = queue[i + 1]
         /\ line' = queue[1] /\ line' \in Lines \cup {Empty}
<1>1. queue \in Seq(Lines \cup {Empty}) /\ queue # <<>>
  BY DEF TypeOK, TakeLine
<1>2. queue' = Tail(queue) /\ line' = Head(queue)
  BY DEF TakeLine
<1>3. /\ Head(queue) \in Lines \cup {Empty} /\ Head(queue) = queue[1]
      /\ Tail(queue) \in Seq(Lines \cup {Empty}) /\ Len(Tail(queue)) = Len(queue) - 1
      /\ \A i \in 1 .. Len(queue) - 1 : Tail(queue)[i] = queue[i + 1]
  BY <1>1, TailFacts
<1>4. Len(queue) # 0
  BY <1>1, EmptySeq
<1> QED
  BY <1>2, <1>3, <1>4, Zenon

\* What Record adds to the history.
LEMMA RecordFacts ==
  ASSUME TypeOK, Record
  PROVE  /\ history' \in Seq(Lines \cup {Empty, NULL}) /\ Len(history') = Len(history) + 1
         /\ index' = Len(history)
<1> DEFINE e == IF queue = <<>> THEN NULL ELSE Head(queue)
<1>1. history \in Seq(Lines \cup {Empty, NULL}) /\ Len(history) \in Nat
  BY Lengths DEF TypeOK
<1>2. e \in Lines \cup {Empty, NULL}
  <2>1. CASE queue = <<>>
    BY <2>1
  <2>2. CASE queue # <<>>
    <3>1. Head(queue) \in Lines \cup {Empty}
      BY <2>2, TailFacts DEF TypeOK
    <3> QED
      BY <2>2, <3>1
  <2> QED
    BY <2>1, <2>2
<1>3. history' = Append(history, e) /\ index' = Len(history') - 1
  BY DEF Record, LastIndex
<1> HIDE DEF e
<1>4. Append(history, e) \in Seq(Lines \cup {Empty, NULL})
      /\ Len(Append(history, e)) = Len(history) + 1
  BY <1>1, <1>2, AppendFacts
<1>5. history' \in Seq(Lines \cup {Empty, NULL}) /\ Len(history') = Len(history) + 1
  BY <1>3, <1>4, Zenon
<1> QED
  BY <1>1, <1>3, <1>5

\* What is written stays a sequence of lines.
LEMMA WireFacts ==
  ASSUME TypeOK
  PROVE  /\ Append(wire, line) \in Seq(Lines \cup {Empty, Goodbye})
         /\ wire \o <<Goodbye, Goodbye>> \in Seq(Lines \cup {Empty, Goodbye})
<1>1. wire \in Seq(Lines \cup {Empty, Goodbye}) /\ line \in Lines \cup {Empty, Goodbye}
  BY DEF TypeOK
<1>2. <<Goodbye, Goodbye>> \in Seq(Lines \cup {Empty, Goodbye})
  OBVIOUS
<1>3. Append(wire, line) \in Seq(Lines \cup {Empty, Goodbye})
  BY <1>1, AppendFacts
<1>4. wire \o <<Goodbye, Goodbye>> \in Seq(Lines \cup {Empty, Goodbye})
  BY <1>1, <1>2, ConcatProperties
<1> QED
  BY <1>3, <1>4

LEMMA InitInv == Init => IInv
<1> SUFFICES ASSUME Init PROVE IInv
  OBVIOUS
<1>1. TypeOK
  BY DEF Init, TypeOK
<1>2. IndexInRange /\ OrderInv /\ WindowInv
  BY DEF Init, IndexInRange, OrderInv, WindowInv, Waiting
<1> QED
  BY <1>1, <1>2 DEF IInv

\* A key that scrolls shows an entry that is there.
LEMMA ScrollFacts ==
  ASSUME TypeOK, IndexInRange, ScrollUp \/ ScrollDown
  PROVE  /\ field' \in Lines \cup {Empty} /\ index' \in Int
         /\ 0 <= index' /\ index' < Len(history) /\ history # <<>>
<1>1. /\ Len(history) \in Nat /\ index \in Int
      /\ \A i \in 1 .. Len(history) : history[i] \in Lines \cup {Empty, NULL}
      /\ history = <<>> <=> Len(history) = 0
  BY Lengths DEF TypeOK
<1>2. /\ index' \in Int /\ 0 <= index' /\ index' < Len(history) /\ history # <<>>
      /\ \E i \in 1 .. Len(history) : field' = Text(history[i])
  <2>1. CASE ScrollUp
    <3>1. index + 1 \in 1 .. Len(history) /\ history # <<>>
      BY <1>1, <2>1 DEF ScrollUp, CanScrollUp, IndexInRange
    <3> QED
      BY <1>1, <2>1, <3>1 DEF ScrollUp, CanScrollUp
  <2>2. CASE ScrollDown
    <3>1. 0 <= index + 1 /\ index' = index + 1 /\ index' + 1 \in 1 .. Len(history) /\ history # <<>>
      BY <1>1, <2>2 DEF ScrollDown, IndexInRange
    <3> QED
      BY <1>1, <2>2, <3>1 DEF ScrollDown
  <2> QED
    BY <2>1, <2>2
<1>3. PICK i \in 1 .. Len(history) : field' = Text(history[i])
  BY <1>2
<1>4. Text(history[i]) \in Lines \cup {Empty}
  BY <1>1 DEF Text
<1> QED
  BY <1>2, <1>3, <1>4

LEMMA StepType == IInv /\ [Next]_vars => TypeOK'
<1> SUFFICES ASSUME IInv, [Next]_vars PROVE TypeOK'
  OBVIOUS
<1> USE DEF IInv, inputField, writeThread
<1>1. ASSUME Type PROVE TypeOK'
  BY <1>1 DEF Type, TypeOK
<1>2. ASSUME Enter PROVE TypeOK'
  BY <1>2, EnterFacts DEF Enter, TypeOK
<1>3. ASSUME Peek PROVE TypeOK'
  BY <1>3 DEF Peek, TypeOK
<1>4. ASSUME Record PROVE TypeOK'
  <2>1. index' \in Int
    BY <1>4, RecordFacts, Lengths
  <2> QED
    BY <1>4, <2>1, RecordFacts DEF Record, TypeOK
<1>5. ASSUME ScrollUp \/ ScrollDown PROVE TypeOK'
  BY <1>5, ScrollFacts DEF ScrollUp, ScrollDown, TypeOK
<1>6. ASSUME Close PROVE TypeOK'
  BY <1>6, WireFacts, Zenon DEF Close, TypeOK
<1>7. ASSUME CloseSocket \/ Exit PROVE TypeOK'
  BY <1>7 DEF CloseSocket, Exit, TypeOK
<1>8. ASSUME Test \/ Parse PROVE TypeOK'
  BY <1>8 DEF Test, Parse, TypeOK
<1>9. ASSUME TakeLine PROVE TypeOK'
  BY <1>9, TakeFacts DEF TakeLine, TypeOK
<1>10. ASSUME Write PROVE TypeOK'
  <2>1. wire' \in Seq(Lines \cup {Empty, Goodbye})
    <3>1. wire' = Append(wire, line) \/ wire' = wire
      BY <1>10 DEF Write
    <3> QED
      BY <3>1, WireFacts, Zenon DEF TypeOK
  <2> QED
    BY <1>10, <2>1 DEF Write, TypeOK
<1>11. CASE UNCHANGED vars
  BY <1>11 DEF vars, TypeOK
<1> QED
  BY <1>1, <1>2, <1>3, <1>4, <1>5, <1>6, <1>7, <1>8, <1>9, <1>10, <1>11
     DEF Next, EventStep, UserStep, WriterStep

LEMMA StepIndex == IInv /\ [Next]_vars => IndexInRange'
<1> SUFFICES ASSUME IInv, [Next]_vars PROVE IndexInRange'
  OBVIOUS
<1> USE DEF IInv
<1>1. ASSUME UNCHANGED <<history, index>> PROVE IndexInRange'
  BY <1>1 DEF IndexInRange
<1>2. CASE Record
  <2>1. /\ Len(history') = Len(history) + 1 /\ index' = Len(history) /\ Len(history) \in Nat
        /\ history' \in Seq(Lines \cup {Empty, NULL})
    BY <1>2, RecordFacts, Lengths
  <2>2. history' # <<>>
    BY <2>1, EmptySeq
  <2> QED
    BY <2>1, <2>2 DEF IndexInRange
<1>3. CASE ScrollUp \/ ScrollDown
  <2>1. history' = history
    BY <1>3 DEF ScrollUp, ScrollDown
  <2> QED
    BY <1>3, <2>1, ScrollFacts DEF IndexInRange
<1>4. CASE ~(Record \/ ScrollUp \/ ScrollDown)
  <2>1. UNCHANGED <<history, index>>
    BY <1>4 DEF Next, EventStep, UserStep, WriterStep, Type, Enter, Peek, Close, CloseSocket, Exit,
                Test, TakeLine, Parse, Write, vars, inputField
  <2> QED
    BY <1>1, <2>1
<1> QED
  BY <1>2, <1>3, <1>4

\* The steps that touch neither the queue nor what was entered.
LEMMA OrderStays ==
  ASSUME OrderInv, UNCHANGED <<queue, submitted, line>>,
         writer' \in {"parse", "write"} => writer = "parse" \/ writer' = writer,
         writer' = "write" => line \notin Local, TypeOK
  PROVE  OrderInv'
<1>1. Len(queue) \in Nat /\ Len(submitted) \in Nat
  BY Lengths
<1>2. Waiting' <= Waiting /\ Waiting' \in Nat /\ Waiting \in Nat
  BY <1>1 DEF Waiting
<1>3. Waiting' <= Len(submitted)
  BY <1>1, <1>2 DEF OrderInv
<1> QED
  BY <1>3 DEF OrderInv

LEMMA StepOrder == IInv /\ [Next]_vars => OrderInv'
<1> SUFFICES ASSUME IInv, [Next]_vars PROVE OrderInv'
  OBVIOUS
<1> USE DEF IInv
<1>1. Len(queue) \in Nat /\ Len(submitted) \in Nat
  BY Lengths
<1>2. CASE Enter
  <2>1. /\ Len(queue') = Len(queue) + 1
        /\ \A i \in 1 .. Len(queue) : queue'[i] = queue[i]
        /\ queue'[Len(queue) + 1] = field
        /\ Len(submitted') = Len(submitted) + 1
        /\ \A i \in 1 .. Len(submitted) : submitted'[i] = submitted[i]
        /\ submitted'[Len(submitted) + 1] = field
    BY <1>2, EnterFacts
  <2>2. UNCHANGED <<writer, line>>
    BY <1>2 DEF Enter, writeThread
  <2>3. Waiting' = Waiting + 1 /\ Len(queue) <= Waiting /\ Waiting \in Nat
    BY <1>1, <2>1, <2>2 DEF Waiting
  <2>4. Waiting <= Len(submitted)
    BY DEF OrderInv
  <2>5. Waiting' <= Len(submitted')
    BY <1>1, <2>1, <2>3, <2>4
  <2>6. \A i \in 1 .. Len(queue') : queue'[i] = submitted'[Len(submitted') - Len(queue') + i]
    <3>0. Len(submitted') - Len(queue') = Len(submitted) - Len(queue)
      BY <1>1, <2>1
    <3> SUFFICES ASSUME NEW i \in 1 .. Len(queue) + 1
                 PROVE  queue'[i] = submitted'[Len(submitted) - Len(queue) + i]
      BY <2>1, <3>0
    <3>1. CASE i = Len(queue) + 1
      BY <1>1, <2>1, <3>1
    <3>2. CASE i # Len(queue) + 1
      <4>1. i \in 1 .. Len(queue) /\ Len(submitted) - Len(queue) + i \in 1 .. Len(submitted)
        BY <1>1, <2>3, <2>4, <3>2
      <4> QED
        BY <2>1, <4>1 DEF OrderInv
    <3> QED
      BY <3>1, <3>2
  <2>7. writer \in {"parse", "write"} => line = submitted'[Len(submitted') - Len(queue')]
    <3> SUFFICES ASSUME writer \in {"parse", "write"}
                 PROVE  line = submitted'[Len(submitted) - Len(queue)]
      BY <1>1, <2>1
    <3>1. Waiting = Len(queue) + 1
      BY DEF Waiting
    <3>2. Len(submitted) - Len(queue) \in 1 .. Len(submitted)
      BY <1>1, <2>4, <3>1
    <3> QED
      BY <2>1, <3>2 DEF OrderInv
  <2> QED
    BY <2>2, <2>5, <2>6, <2>7 DEF OrderInv
<1>3. CASE TakeLine
  <2>1. /\ Len(queue') = Len(queue) - 1 /\ Len(queue) # 0
        /\ \A i \in 1 .. Len(queue) - 1 : queue'[i] = queue[i + 1]
        /\ line' = queue[1]
    BY <1>3, TakeFacts
  <2>2. writer = "take" /\ writer' = "parse" /\ submitted' = submitted
    BY <1>3 DEF TakeLine
  <2>3. Waiting' = Waiting /\ Waiting = Len(queue)
    BY <1>1, <2>1, <2>2 DEF Waiting
  <2>4. \A i \in 1 .. Len(queue) : queue[i] = submitted[Len(submitted) - Len(queue) + i]
    BY DEF OrderInv
  <2>5. \A i \in 1 .. Len(queue') : queue'[i] = submitted'[Len(submitted') - Len(queue') + i]
    <3> SUFFICES ASSUME NEW i \in 1 .. Len(queue) - 1
                 PROVE  queue'[i] = submitted[Len(submitted) - Len(queue') + i]
      BY <2>1, <2>2
    <3>1. i + 1 \in 1 .. Len(queue)
          /\ Len(submitted) - Len(queue) + (i + 1) = Len(submitted) - Len(queue') + i
      BY <1>1, <2>1
    <3> QED
      BY <2>1, <2>4, <3>1
  <2>6. line' = submitted'[Len(submitted') - Len(queue')]
    <3>1. 1 \in 1 .. Len(queue) /\ Len(submitted) - Len(queue) + 1 = Len(submitted) - Len(queue')
      BY <1>1, <2>1
    <3> QED
      BY <2>1, <2>2, <2>4, <3>1
  <2> QED
    BY <2>2, <2>3, <2>5, <2>6 DEF OrderInv
<1>4. CASE Test
  BY <1>4, OrderStays DEF Test
<1>5. CASE Parse
  BY <1>5, OrderStays DEF Parse
<1>6. CASE Write
  BY <1>6, OrderStays DEF Write
<1>7. CASE Type \/ Peek \/ Record \/ ScrollUp \/ ScrollDown \/ Close \/ CloseSocket \/ Exit
           \/ UNCHANGED vars
  <2>1. UNCHANGED <<queue, submitted, line, writer>>
    BY <1>7 DEF Type, Peek, Record, ScrollUp, ScrollDown, Close, CloseSocket, Exit, vars, writeThread
  <2> QED
    BY <2>1, OrderStays DEF OrderInv
<1> QED
  BY <1>2, <1>3, <1>4, <1>5, <1>6, <1>7 DEF Next, EventStep, UserStep, WriterStep

LEMMA StepWindow == IInv /\ [Next]_vars => WindowInv'
  BY DEF IInv, WindowInv, Next, EventStep, UserStep, WriterStep, Type, Enter, Peek, Record, ScrollUp,
         ScrollDown, Close, CloseSocket, Exit, Test, TakeLine, Parse, Write, vars

LEMMA StepInv == IInv /\ [Next]_vars => IInv'
  BY StepType, StepIndex, StepOrder, StepWindow DEF IInv

\* Every reachable state of the input side is one of those the invariant describes,
\* for any lines and any number of them.
THEOREM Invariance == Spec => []IInv
  BY InitInv, StepInv, PTL DEF Spec

\* Every variable keeps its type: getText() is always a line although history may
\* hold the null that peek returned.
THEOREM TypeCorrect == Spec => []TypeOK
<1>1. IInv => TypeOK
  BY DEF IInv
<1> QED
  BY <1>1, Invariance, PTL

\* HISTORY.get is called with an index of the vector only, whatever keys are pressed
\* and whatever the write thread takes in between.
THEOREM HistoryIndexIsValid == Spec => []IndexInRange
<1>1. IInv => IndexInRange
  BY DEF IInv
<1> QED
  BY <1>1, Invariance, PTL

-----------------------------------------------------------------------------
(* The refinement: the two threads and their queue are a pipe.             *)

Handled == Len(submitted) - Waiting
Window == IF open THEN IF event = "close" THEN "closing" ELSE "open" ELSE "closed"

LEMMA PipeInit == Init => Pipe!Init
<1> SUFFICES ASSUME Init PROVE Pipe!Init
  OBVIOUS
<1>1. Len(submitted) = 0 /\ Waiting = 0
  BY DEF Init, Waiting
<1>2. submitted = <<>> /\ wire = <<>> /\ open = TRUE /\ event = "ready"
  BY DEF Init
<1> QED
  BY <1>1, <1>2 DEF Pipe!Init

LEMMA PipeNext == IInv /\ [Next]_vars => [Pipe!Next]_(Pipe!vars)
<1> SUFFICES ASSUME IInv, [Next]_vars
             PROVE  Pipe!Next \/ UNCHANGED <<submitted, Handled, wire, Window>>
  BY DEF Pipe!vars, Handled, Window
<1> USE DEF IInv
<1>1. Len(queue) \in Nat /\ Len(submitted) \in Nat
  BY Lengths
<1>2. CASE Enter
  <2>1. /\ Len(queue') = Len(queue) + 1 /\ Len(submitted') = Len(submitted) + 1
        /\ writer' = writer /\ UNCHANGED <<wire, open>> /\ event = "ready" /\ event' = "peek"
        /\ Len(submitted) < MaxSubmits
    BY <1>2, EnterFacts DEF Enter, writeThread
  <2>2. Handled' = Handled
    BY <1>1, <2>1 DEF Handled, Waiting
  <2>3. Window = "open" /\ Window' = "open"
    BY <2>1 DEF Window, WindowInv
  <2>4. field \in Lines \cup {Empty} /\ submitted' = Append(submitted, field)
    BY <1>2 DEF Enter, TypeOK
  <2>5. \E l \in Lines \cup {Empty} : submitted' = Append(submitted, l)
    BY <2>4, Zenon
  <2>6. Pipe!Submit
    BY <2>1, <2>2, <2>3, <2>5 DEF Pipe!Submit, Handled, Window
  <2> QED
    BY <2>6 DEF Pipe!Next
<1>3. CASE TakeLine
  <2>1. /\ Len(queue') = Len(queue) - 1 /\ writer = "take" /\ writer' = "parse"
        /\ UNCHANGED <<wire, open, event, submitted>>
    BY <1>3, TakeFacts DEF TakeLine
  <2> QED
    BY <1>1, <2>1 DEF Handled, Waiting, Window
<1>4. CASE Test
  BY <1>4 DEF Test, Handled, Waiting, Window
\* A line leaves the write thread.
<1>5. ASSUME writer \in {"parse", "write"}, writer' = "test", UNCHANGED <<queue, open, event, submitted>>,
             wire' = IF line \in Local \/ ~open THEN wire ELSE Append(wire, line)
      PROVE  Pipe!Next
  <2>1. Handled = Len(submitted) - Len(queue) - 1 /\ Handled' = Len(submitted) - Len(queue)
    BY <1>5 DEF Handled, Waiting
  <2>2. Handled < Len(submitted) /\ Handled' = Handled + 1
    BY <1>1, <2>1
  <2>3. line = submitted[Handled']
    BY <1>5, <2>1 DEF OrderInv
  <2>4. Window' = Window /\ (~open <=> Window = "closed")
    BY <1>5 DEF Window
  <2>5. Pipe!Handle
    BY <1>5, <2>2, <2>3, <2>4 DEF Pipe!Handle, Handled, Window
  <2> QED
    BY <2>5 DEF Pipe!Next
<1>6. CASE Parse
  <2>1. CASE line \in Local
    BY <1>5, <1>6, <2>1 DEF Parse
  <2>2. CASE line \notin Local
    BY <1>6, <2>2 DEF Parse, Handled, Waiting, Window
  <2> QED
    BY <2>1, <2>2
<1>7. CASE Write
  <2>1. line \notin Local
    BY <1>7 DEF Write, OrderInv
  <2>2. wire' = IF line \in Local \/ ~open THEN wire ELSE Append(wire, line)
    BY <1>7, <2>1 DEF Write
  <2> QED
    BY <1>5, <1>7, <2>2 DEF Write
<1>8. CASE Close
  <2>1. /\ Window = "open" /\ Window' = "closing" /\ Handled' = Handled /\ submitted' = submitted
        /\ wire' = wire \o <<Goodbye, Goodbye>>
    BY <1>8 DEF Close, Window, WindowInv, Handled, Waiting, writeThread
  <2>2. Pipe!SayGoodbye
    BY <2>1 DEF Pipe!SayGoodbye, Handled, Window
  <2> QED
    BY <2>2 DEF Pipe!Next
<1>9. CASE CloseSocket
  <2>1. /\ Window = "closing" /\ Window' = "closed" /\ Handled' = Handled
        /\ UNCHANGED <<submitted, wire>>
    BY <1>9 DEF CloseSocket, Window, WindowInv, Handled, Waiting, writeThread
  <2>2. Pipe!Shut
    BY <2>1 DEF Pipe!Shut, Handled, Window
  <2> QED
    BY <2>2 DEF Pipe!Next
<1>10. CASE Type \/ Peek \/ Record \/ ScrollUp \/ ScrollDown \/ Exit \/ UNCHANGED vars
  <2>1. UNCHANGED <<queue, submitted, writer, wire, open>>
    BY <1>10 DEF Type, Peek, Record, ScrollUp, ScrollDown, Exit, vars, writeThread
  <2>2. Window' = Window
    BY <1>10, <2>1 DEF Type, Peek, Record, ScrollUp, ScrollDown, Exit, vars, Window, WindowInv
  <2> QED
    BY <2>1, <2>2 DEF Handled, Waiting
<1> QED
  BY <1>2, <1>3, <1>4, <1>6, <1>7, <1>8, <1>9, <1>10 DEF Next, EventStep, UserStep, WriterStep

\* The two threads, the queue between them and the closing of the window are the
\* pipe of InputPipe: each line that was entered goes out once and in order, a
\* local command does not, and the goodbye comes when the window closes.
THEOREM ImplementsPipe == Spec => Pipe!Spec
<1>1. Spec => Pipe!Init /\ [][Pipe!Next]_(Pipe!vars)
  BY PipeInit, PipeNext, Invariance, PTL DEF Spec
<1> QED
  BY <1>1 DEF Pipe!Spec
=============================================================================
