---------------------------- MODULE ChatProofs -----------------------------
(* Proofs about Chat for any lines, any number of them and any others.     *)
EXTENDS Chat, SequencesExt, SequenceTheorems, TLAPS

-----------------------------------------------------------------------------
(* What passing something on does to the sequence of what was passed on.   *)

\* Something is appended at the end.
LEMMA AppendFacts ==
  ASSUME NEW S, NEW s \in Seq(S), NEW e \in S
  PROVE  /\ Append(s, e) \in Seq(S)
         /\ Len(s) \in Nat /\ Len(Append(s, e)) = Len(s) + 1
         /\ DOMAIN s = 1 .. Len(s) /\ DOMAIN Append(s, e) = 1 .. Len(s) + 1
         /\ \A i \in 1 .. Len(s) : Append(s, e)[i] = s[i]
         /\ Append(s, e)[Len(s) + 1] = e
         /\ Range(Append(s, e)) = Range(s) \cup {e}
<1>1. /\ Append(s, e) \in Seq(S) /\ Len(Append(s, e)) = Len(s) + 1
      /\ \A i \in 1 .. Len(s) : Append(s, e)[i] = s[i]
      /\ Append(s, e)[Len(s) + 1] = e
  BY AppendProperties
<1>2. Len(s) \in Nat /\ DOMAIN s = 1 .. Len(s) /\ DOMAIN Append(s, e) = 1 .. Len(s) + 1
  BY <1>1, LenProperties
<1>3. Range(Append(s, e)) = Range(s) \cup {e}
  <2>1. 1 .. Len(s) + 1 = (1 .. Len(s)) \cup {Len(s) + 1}
    BY <1>2
  <2> HIDE <1>2
  <2>2. Range(Append(s, e)) = {Append(s, e)[i] : i \in 1 .. Len(s)} \cup {Append(s, e)[Len(s) + 1]}
    BY <1>2, <2>1 DEF Range
  <2> QED
    BY <1>1, <1>2, <2>2 DEF Range
<1> QED
  BY <1>1, <1>2, <1>3

-----------------------------------------------------------------------------

(* The inductive invariant.                                                *)

\* Where the lines of the wire come from: src is the number of the line entered.
\* They keep the order they were entered in, and none that is not for the client
\* itself is left out before one that was written.
Comes(src) ==
  /\ \A p \in 1 .. Len(wire) : wire[p] # Goodbye =>
       /\ src[p] \in 1 .. handled
       /\ submitted[src[p]] = wire[p]
       /\ \A i \in 1 .. src[p] : submitted[i] \notin Local =>
            \E r \in 1 .. p : wire[r] = submitted[i]
  /\ \A p, q \in 1 .. Len(wire) :
       p < q /\ wire[p] # Goodbye /\ wire[q] # Goodbye => src[p] < src[q]
  /\ window # "closed" => \A i \in 1 .. handled : submitted[i] \notin Local =>
       \E r \in 1 .. Len(wire) : wire[r] = submitted[i]

WireInv == \E src \in [Nat -> Nat] : Comes(src)

\* What the listener has read of the wire before the session is what it is.
SessionInv ==
  /\ session = "anonymous" => \A p \in 1 .. served : wire[p] # LoginLine
  /\ session = "named" => \E p \in 1 .. served : wire[p] = LoginLine

ChatInv == ChatTypeOK /\ WireInv /\ SessionInv /\ HowSessionsEnd /\ OnlineIsShown

-----------------------------------------------------------------------------
(* What the steps do to the sequences.                                     *)

LEMMA LineFacts ==
  /\ LoginLine \in Lines \ Local /\ LeaveLine \in Lines \ Local
  /\ BlankLine \in Lines \ Local /\ LoginLine # BlankLine
  /\ Empty \notin Lines \cup Local /\ Goodbye \notin Lines /\ Empty # Goodbye
  BY InputAssumption, ChatClientAssumption DEF InputAssumption, ChatClientAssumption

LEMMA Lengths ==
  ASSUME ChatTypeOK
  PROVE  /\ Len(wire) \in Nat /\ Len(submitted) \in Nat /\ handled \in Nat /\ served \in Nat
         /\ DOMAIN submitted = 1 .. Len(submitted)
         /\ \A p \in 1 .. Len(wire) : wire[p] \in Lines \cup {Empty, Goodbye}
         /\ \A i \in 1 .. Len(submitted) : submitted[i] \in Lines \cup {Empty}
  BY LenProperties, ElementOfSeq DEF ChatTypeOK

\* What the user enters goes behind what was entered.
LEMMA SubmitFacts ==
  ASSUME ChatTypeOK, Submit
  PROVE  /\ submitted' \in Seq(Lines \cup {Empty}) /\ Len(submitted') = Len(submitted) + 1
         /\ DOMAIN submitted' = 1 .. Len(submitted) + 1
         /\ \A i \in 1 .. Len(submitted) : submitted'[i] = submitted[i]
<1>1. PICK l \in Lines \cup {Empty} : submitted' = Append(submitted, l)
  BY DEF Submit
<1>2. submitted \in Seq(Lines \cup {Empty})
  BY DEF ChatTypeOK
<1>3. /\ Append(submitted, l) \in Seq(Lines \cup {Empty})
      /\ Len(Append(submitted, l)) = Len(submitted) + 1
      /\ DOMAIN Append(submitted, l) = 1 .. Len(submitted) + 1
      /\ \A i \in 1 .. Len(submitted) : Append(submitted, l)[i] = submitted[i]
  BY <1>2, AppendFacts
<1> QED
  BY <1>1, <1>3, Zenon

\* A line that is handled goes behind what was written, or nowhere.
LEMMA HandleFacts ==
  ASSUME ChatTypeOK, Handle
  PROVE  LET l == submitted[handled + 1]
         IN  /\ handled' = handled + 1 /\ handled' \in 1 .. Len(submitted)
             /\ l \in Lines \cup {Empty}
             /\ \/ wire' = wire /\ (l \in Local \/ window = "closed")
                \/ /\ wire' \in Seq(Lines \cup {Empty, Goodbye}) /\ Len(wire') = Len(wire) + 1
                   /\ \A p \in 1 .. Len(wire) : wire'[p] = wire[p]
                   /\ wire'[Len(wire) + 1] = l
<1> DEFINE l == submitted[handled + 1]
<1>1. handled' = handled + 1 /\ handled' \in 1 .. Len(submitted)
  BY Lengths DEF Handle
<1>2. l \in Lines \cup {Empty}
  BY <1>1, Lengths
<1>3. (wire' = wire /\ (l \in Local \/ window = "closed")) \/ wire' = Append(wire, l)
  BY <1>1 DEF Handle
<1>4. wire \in Seq(Lines \cup {Empty, Goodbye})
  BY DEF ChatTypeOK
<1> HIDE DEF l
<1>5. /\ Append(wire, l) \in Seq(Lines \cup {Empty, Goodbye}) /\ Len(Append(wire, l)) = Len(wire) + 1
      /\ \A p \in 1 .. Len(wire) : Append(wire, l)[p] = wire[p]
      /\ Append(wire, l)[Len(wire) + 1] = l
  BY <1>2, <1>4, AppendFacts
<1>6. CASE wire' = Append(wire, l)
  <2>1. /\ wire' \in Seq(Lines \cup {Empty, Goodbye}) /\ Len(wire') = Len(wire) + 1
        /\ \A p \in 1 .. Len(wire) : wire'[p] = wire[p]
        /\ wire'[Len(wire) + 1] = l
    BY <1>5, <1>6, Zenon
  <2> QED
    BY <1>1, <1>2, <2>1 DEF l
<1>7. CASE wire' = wire /\ (l \in Local \/ window = "closed")
  BY <1>1, <1>2, <1>7 DEF l
<1> QED
  BY <1>3, <1>6, <1>7

\* The goodbye goes behind what was written, twice.
LEMMA GoodbyeFacts ==
  ASSUME ChatTypeOK, SayGoodbye
  PROVE  /\ wire' \in Seq(Lines \cup {Empty, Goodbye}) /\ Len(wire') = Len(wire) + 2
         /\ \A p \in 1 .. Len(wire) : wire'[p] = wire[p]
         /\ \A p \in Len(wire) + 1 .. Len(wire) + 2 : wire'[p] = Goodbye
<1> DEFINE g == <<Goodbye, Goodbye>>
           T == Lines \cup {Empty, Goodbye}
<1>1. wire \in Seq(T) /\ g \in Seq(T) /\ Len(g) = 2 /\ g[1] = Goodbye /\ g[2] = Goodbye
  BY DEF ChatTypeOK
<1>2. wire' = wire \o g
  BY DEF SayGoodbye
<1>0. Len(wire) \in Nat
  BY Lengths
<1> HIDE DEF g, T
<1>3. /\ wire \o g \in Seq(T) /\ Len(wire \o g) = Len(wire) + 2 /\ Len(wire) \in Nat
      /\ \A p \in 1 .. Len(wire) + 2 :
           (wire \o g)[p] = IF p <= Len(wire) THEN wire[p] ELSE g[p - Len(wire)]
  <2>1. /\ wire \o g \in Seq(T) /\ Len(wire \o g) = Len(wire) + Len(g)
        /\ \A p \in 1 .. Len(wire) + Len(g) :
             (wire \o g)[p] = IF p <= Len(wire) THEN wire[p] ELSE g[p - Len(wire)]
    BY <1>1, ConcatProperties
  <2> QED
    BY <1>0, <1>1, <2>1
<1>4. /\ \A p \in 1 .. Len(wire) : (wire \o g)[p] = wire[p]
      /\ \A p \in Len(wire) + 1 .. Len(wire) + 2 : (wire \o g)[p] = Goodbye
  <2>1. ASSUME NEW p \in 1 .. Len(wire) PROVE (wire \o g)[p] = wire[p]
    BY <1>3
  <2>2. ASSUME NEW p \in Len(wire) + 1 .. Len(wire) + 2 PROVE (wire \o g)[p] = Goodbye
    <3>1. p - Len(wire) = 1 \/ p - Len(wire) = 2
      BY <1>3
    <3>2. p \in 1 .. Len(wire) + 2 /\ ~(p <= Len(wire))
      BY <1>3
    <3> QED
      BY <1>1, <1>3, <3>1, <3>2
  <2> QED
    BY <2>1, <2>2
<1>5. /\ wire' \in Seq(T) /\ Len(wire') = Len(wire) + 2
      /\ \A p \in 1 .. Len(wire) : wire'[p] = wire[p]
      /\ \A p \in Len(wire) + 1 .. Len(wire) + 2 : wire'[p] = Goodbye
  BY <1>2, <1>3, <1>4, Zenon
<1> QED
  BY <1>5 DEF T

-----------------------------------------------------------------------------
LEMMA InitInv == ChatInit => ChatInv
<1> SUFFICES ASSUME ChatInit PROVE ChatInv
  OBVIOUS
<1>1. /\ submitted = <<>> /\ wire = <<>> /\ handled = 0 /\ window = "open"
      /\ joined = FALSE /\ session = "anonymous" /\ served = 0 /\ greeted = FALSE
      /\ online = {} /\ logins = 0 /\ missed = {} /\ coming = {} /\ reader = "test" /\ users = {}
  BY DEF ChatInit, Init
<1>2. Len(submitted) = 0 /\ Len(wire) = 0
  BY <1>1
<1>3. ChatTypeOK
  <2>1. submitted \in Seq(Lines \cup {Empty}) /\ wire \in Seq(Lines \cup {Empty, Goodbye})
    BY <1>1
  <2>2. handled \in 0 .. Len(submitted) /\ served \in 0 .. Len(wire)
    BY <1>1, <1>2
  <2>3. logins \in 0 .. MaxLogins
    BY <1>1, ChatClientAssumption DEF ChatClientAssumption
  <2>4. /\ window \in {"open", "closing", "closed"} /\ joined \in BOOLEAN /\ greeted \in BOOLEAN
        /\ session \in {"anonymous", "named", "over", "crashed", "killed"}
        /\ reader \in {"test", "read", "dead", "done"}
    BY <1>1
  <2>5. /\ online \subseteq Others /\ missed \subseteq Others
        /\ users \subseteq Everyone \cup {Fragment}
        /\ coming \subseteq [type : 0 .. 2, about : SUBSET Everyone]
    BY <1>1
  <2> QED
    BY <2>1, <2>2, <2>3, <2>4, <2>5 DEF ChatTypeOK
<1>4. WireInv
  <2> DEFINE src == [p \in Nat |-> 0]
  <2>1. src \in [Nat -> Nat]
    OBVIOUS
  <2> HIDE DEF src
  <2>2. Comes(src)
    BY <1>1, <1>2 DEF Comes
  <2> QED
    BY <2>1, <2>2 DEF WireInv
<1>5. SessionInv /\ HowSessionsEnd /\ OnlineIsShown
  BY <1>1 DEF SessionInv, HowSessionsEnd, OnlineIsShown
<1> QED
  BY <1>3, <1>4, <1>5 DEF ChatInv

LEMMA StepType == ChatInv /\ [ChatNext]_chatVars => ChatTypeOK'
<1> SUFFICES ASSUME ChatInv, [ChatNext]_chatVars PROVE ChatTypeOK'
  OBVIOUS
<1> USE DEF ChatInv
<1>0. /\ Len(wire) \in Nat /\ Len(submitted) \in Nat /\ handled \in Nat /\ served \in Nat
      /\ handled <= Len(submitted) /\ served <= Len(wire)
  BY Lengths DEF ChatTypeOK
<1>1. ASSUME Next, UNCHANGED <<server, coming, output>> PROVE ChatTypeOK'
  <2>1. CASE Submit
    <3>1. /\ submitted' \in Seq(Lines \cup {Empty}) /\ Len(submitted') = Len(submitted) + 1
      BY <2>1, SubmitFacts
    <3> QED
      BY <1>0, <1>1, <2>1, <3>1 DEF Submit, ChatTypeOK, server, output
  <2>2. CASE Handle
    <3>1. /\ handled' = handled + 1 /\ handled' \in 1 .. Len(submitted)
      BY <2>2, HandleFacts
    <3>2. wire' \in Seq(Lines \cup {Empty, Goodbye}) /\ Len(wire) <= Len(wire') /\ Len(wire') \in Nat
      <4>1. \/ wire' = wire
            \/ wire' \in Seq(Lines \cup {Empty, Goodbye}) /\ Len(wire') = Len(wire) + 1
        BY <2>2, HandleFacts
      <4> QED
        BY <1>0, <4>1 DEF ChatTypeOK
    <3>3. served \in 0 .. Len(wire') /\ handled' \in 0 .. Len(submitted)
      BY <1>0, <3>1, <3>2
    <3> QED
      BY <1>1, <2>2, <3>2, <3>3 DEF Handle, ChatTypeOK, server, output
  <2>3. CASE SayGoodbye
    <3>1. wire' \in Seq(Lines \cup {Empty, Goodbye}) /\ Len(wire') = Len(wire) + 2
      BY <2>3, GoodbyeFacts
    <3>2. served \in 0 .. Len(wire')
      BY <1>0, <3>1
    <3> QED
      BY <1>1, <2>3, <3>1, <3>2 DEF SayGoodbye, ChatTypeOK, server, output
  <2>4. CASE Shut
    BY <1>1, <2>4 DEF Shut, ChatTypeOK, server, output
  <2> QED
    BY <1>1, <2>1, <2>2, <2>3, <2>4 DEF Next
<1>2. ASSUME Greet PROVE ChatTypeOK'
  <2>1. Message(0, online) \in [type : 0 .. 2, about : SUBSET Everyone]
    BY DEF Message, Everyone, ChatTypeOK
  <2>2. coming' \subseteq [type : 0 .. 2, about : SUBSET Everyone]
    BY <1>2, <2>1 DEF Greet, Send, ChatTypeOK
  <2> QED
    BY <1>2, <2>2 DEF Greet, ChatTypeOK, vars, output
<1>9. ASSUME GreetNobody \/ HangUp PROVE ChatTypeOK'
  BY <1>9 DEF GreetNobody, HangUp, Lose, ChatTypeOK, vars, output
<1>3. ASSUME Join PROVE ChatTypeOK'
  BY <1>3 DEF Join, ChatTypeOK, vars, output
<1>4. ASSUME Serve PROVE ChatTypeOK'
  <2>1. session' \in {"anonymous", "named", "over", "crashed", "killed"}
    <3>1. session' = CASE session = "anonymous" /\ wire[served + 1] = LoginLine -> "named"
                       [] session = "anonymous" /\ wire[served + 1] \in {Empty, BlankLine} -> "crashed"
                       [] session = "named" /\ IsLeave(wire[served + 1]) -> "over"
                       [] OTHER -> session
      BY <1>4 DEF Serve
    <3> QED
      BY <3>1 DEF ChatTypeOK
  <2>2. served' \in 0 .. Len(wire)
    BY <1>0, <1>4 DEF Serve
  <2>3. coming' \subseteq coming \cup {Message(1, {Self})}
    BY <1>4 DEF Serve, Send, Lose
  <2>4. Message(1, {Self}) \in [type : 0 .. 2, about : SUBSET Everyone]
    BY DEF Message, Everyone
  <2>5. coming' \subseteq [type : 0 .. 2, about : SUBSET Everyone]
    BY <2>3, <2>4 DEF ChatTypeOK
  <2> QED
    BY <1>4, <2>1, <2>2, <2>5 DEF Serve, ChatTypeOK, vars, output
<1>5. ASSUME NEW u \in Others, OtherLogsIn(u) PROVE ChatTypeOK'
  <2>0. Message(1, {u}) \in [type : 0 .. 2, about : SUBSET Everyone]
    BY DEF Message, Everyone
  <2>1. coming' \subseteq [type : 0 .. 2, about : SUBSET Everyone]
    BY <1>5, <2>0 DEF OtherLogsIn, Announced, Send, ChatTypeOK
  <2>2. logins' \in 0 .. MaxLogins
    BY <1>5, ChatClientAssumption DEF OtherLogsIn, ChatTypeOK, ChatClientAssumption
  <2> QED
    BY <1>5, <2>1, <2>2 DEF OtherLogsIn, ChatTypeOK, vars, output
<1>6. ASSUME NEW u \in Others, OtherLeaves(u) PROVE ChatTypeOK'
  <2>0. Message(2, {u}) \in [type : 0 .. 2, about : SUBSET Everyone]
    BY DEF Message, Everyone
  <2>1. coming' \subseteq [type : 0 .. 2, about : SUBSET Everyone]
    BY <1>6, <2>0 DEF OtherLeaves, Announced, Send, ChatTypeOK
  <2> QED
    BY <1>6, <2>1 DEF OtherLeaves, ChatTypeOK, vars, output
<1>7. ASSUME ReaderStep PROVE ChatTypeOK'
  <2>1. CASE TestReader \/ EndOfStream
    BY <2>1 DEF TestReader, EndOfStream, ChatTypeOK, vars, server
  <2>2. CASE ReadMessage
    <3>1. PICK m \in coming :
            /\ coming' = coming \ {m} /\ users' \in {users, Listed(m)}
            /\ reader' \in {"dead", "read"}
      BY <2>2 DEF ReadMessage, AfterLine
    <3>2. Listed(m) \subseteq Everyone \cup {Fragment}
      <4>1. m.about \subseteq Everyone
        BY DEF ChatTypeOK
      <4> QED
        BY <4>1 DEF Listed, Whole, ChatTypeOK
    <3> QED
      BY <2>2, <3>1, <3>2 DEF ReadMessage, ChatTypeOK, vars, server
  <2> QED
    BY <1>7, <2>1, <2>2 DEF ReaderStep
<1>8. CASE UNCHANGED chatVars
  BY <1>8 DEF chatVars, vars, server, output, ChatTypeOK
<1> QED
  BY <1>1, <1>2, <1>3, <1>4, <1>5, <1>6, <1>7, <1>8, <1>9 DEF ChatNext, ServerStep

\* What the server and the read thread do leaves the pipe alone.
LEMMA PipeFrame ==
  ASSUME ServerStep \/ ReaderStep \/ UNCHANGED chatVars
  PROVE  UNCHANGED <<submitted, handled, wire, window>>
  BY DEF ServerStep, ReaderStep, Greet, GreetNobody, Join, Serve, HangUp, OtherLogsIn, OtherLeaves, TestReader,
         ReadMessage, EndOfStream, chatVars, vars

\* What was entered and what was written stays.
LEMMA Grow ==
  ASSUME ChatTypeOK, [ChatNext]_chatVars
  PROVE  /\ Len(wire) \in Nat /\ Len(wire') \in Nat /\ Len(wire) <= Len(wire')
         /\ \A p \in 1 .. Len(wire) : wire'[p] = wire[p]
         /\ Len(submitted) \in Nat /\ Len(submitted') \in Nat /\ Len(submitted) <= Len(submitted')
         /\ \A i \in 1 .. Len(submitted) : submitted'[i] = submitted[i]
         /\ DOMAIN submitted = 1 .. Len(submitted) /\ DOMAIN submitted' = 1 .. Len(submitted')
<1>1. Len(wire) \in Nat /\ Len(submitted) \in Nat /\ DOMAIN submitted = 1 .. Len(submitted)
  BY Lengths
<1>2. CASE Submit
  <2>1. wire' = wire
    BY <1>2 DEF Submit
  <2> QED
    BY <1>1, <1>2, <2>1, SubmitFacts
<1>3. CASE Handle
  <2>1. submitted' = submitted
    BY <1>3 DEF Handle
  <2>2. wire' = wire \/ (/\ Len(wire') = Len(wire) + 1
                         /\ \A p \in 1 .. Len(wire) : wire'[p] = wire[p])
    BY <1>3, HandleFacts
  <2> QED
    BY <1>1, <2>1, <2>2
<1>4. CASE SayGoodbye
  <2>1. submitted' = submitted
    BY <1>4 DEF SayGoodbye
  <2> QED
    BY <1>1, <1>4, <2>1, GoodbyeFacts
<1>5. CASE Shut \/ ServerStep \/ ReaderStep \/ UNCHANGED chatVars
  <2>1. submitted' = submitted /\ wire' = wire
    BY <1>5, PipeFrame DEF Shut
  <2> QED
    BY <1>1, <2>1
<1> QED
  BY <1>2, <1>3, <1>4, <1>5 DEF ChatNext, Next

-----------------------------------------------------------------------------
\* The places up to a place of a sequence are places of it.
LEMMA Before ==
  ASSUME NEW n \in Nat, NEW p \in 1 .. n
  PROVE  p \in 1 .. p /\ \A r \in 1 .. p : r \in 1 .. n
  OBVIOUS

LEMMA StepWire == ChatInv /\ [ChatNext]_chatVars => WireInv'
<1> SUFFICES ASSUME ChatInv, [ChatNext]_chatVars PROVE WireInv'
  OBVIOUS
<1> USE DEF ChatInv
<1>1. PICK src \in [Nat -> Nat] : Comes(src)
  BY DEF WireInv
<1>2. /\ Len(wire) \in Nat /\ Len(submitted) \in Nat /\ handled \in Nat /\ handled <= Len(submitted)
      /\ \A p \in 1 .. Len(wire) : wire'[p] = wire[p]
      /\ \A i \in 1 .. Len(submitted) : submitted'[i] = submitted[i]
  <2>1. Len(wire) \in Nat /\ Len(submitted) \in Nat /\ handled \in Nat
    BY Lengths
  <2>2. handled <= Len(submitted)
    BY <2>1 DEF ChatTypeOK
  <2>3. /\ \A p \in 1 .. Len(wire) : wire'[p] = wire[p]
        /\ \A i \in 1 .. Len(submitted) : submitted'[i] = submitted[i]
    BY Grow
  <2> QED
    BY <2>1, <2>2, <2>3
<1>9. Len(wire) \in Nat /\ handled \in Nat
  BY <1>2
<1>3. CASE Submit \/ Shut \/ ServerStep \/ ReaderStep \/ UNCHANGED chatVars
  <2>1. /\ handled' = handled /\ wire' = wire /\ (window' # "closed" => window # "closed")
    BY <1>3, PipeFrame DEF Submit, Shut
  <2>2. Comes(src)'
    <3>1. ASSUME NEW p \in 1 .. Len(wire'), wire'[p] # Goodbye
          PROVE  /\ src[p] \in 1 .. handled' /\ submitted'[src[p]] = wire'[p]
                 /\ \A i \in 1 .. src[p] : submitted'[i] \notin Local =>
                      \E r \in 1 .. p : wire'[r] = submitted'[i]
      <4>1. /\ src[p] \in 1 .. handled /\ submitted[src[p]] = wire[p]
            /\ \A i \in 1 .. src[p] : submitted[i] \notin Local =>
                 \E r \in 1 .. p : wire[r] = submitted[i]
        BY <1>1, <2>1, <3>1 DEF Comes
      <4>2. src[p] \in 1 .. src[p] /\ \A i \in 1 .. src[p] : submitted'[i] = submitted[i]
        <5>1. src[p] \in 1 .. Len(submitted)
          BY <1>2, <4>1
        <5> QED
          BY <1>2, <5>1, Before
      <4> QED
        BY <2>1, <4>1, <4>2, Zenon
    <3>2. \A p, q \in 1 .. Len(wire') :
            p < q /\ wire'[p] # Goodbye /\ wire'[q] # Goodbye => src[p] < src[q]
      BY <1>1, <2>1 DEF Comes
    <3>3. ASSUME window' # "closed", NEW i \in 1 .. handled', submitted'[i] \notin Local
          PROVE  \E r \in 1 .. Len(wire') : wire'[r] = submitted'[i]
      <4>1. submitted'[i] = submitted[i]
        BY <1>2, <2>1
      <4> QED
        BY <1>1, <2>1, <3>3, <4>1 DEF Comes
    <3> QED
      BY <3>1, <3>2, <3>3 DEF Comes
  <2> QED
    BY <2>2 DEF WireInv
<1>4. CASE Handle
  <2> DEFINE n == handled + 1
             l == submitted[n]
  <2>1. submitted' = submitted /\ window' = window /\ handled' = n /\ n \in 1 .. Len(submitted)
    BY <1>4, HandleFacts DEF Handle
  <2>2. CASE wire' = wire /\ (l \in Local \/ window = "closed")
    <3>1. Comes(src)'
      <4>0. \A i \in 1 .. handled : i \in 1 .. handled'
        BY <1>2, <2>1
      <4>1. ASSUME NEW p \in 1 .. Len(wire'), wire'[p] # Goodbye
            PROVE  /\ src[p] \in 1 .. handled' /\ submitted'[src[p]] = wire'[p]
                   /\ \A i \in 1 .. src[p] : submitted'[i] \notin Local =>
                        \E r \in 1 .. p : wire'[r] = submitted'[i]
        BY <1>1, <2>1, <2>2, <4>0, <4>1, Zenon DEF Comes
      <4>3. \A p, q \in 1 .. Len(wire') :
              p < q /\ wire'[p] # Goodbye /\ wire'[q] # Goodbye => src[p] < src[q]
        BY <1>1, <2>2, Zenon DEF Comes
      <4>2. ASSUME window' # "closed", NEW i \in 1 .. handled', submitted'[i] \notin Local
            PROVE  \E r \in 1 .. Len(wire') : wire'[r] = submitted'[i]
        <5>1. i \in 1 .. handled \/ i = n
          BY <1>2, <2>1
        <5> QED
          BY <1>1, <2>1, <2>2, <4>2, <5>1 DEF Comes
      <4> QED
        BY <4>1, <4>2, <4>3 DEF Comes
    <3> QED
      BY <3>1 DEF WireInv
  <2>3. CASE /\ Len(wire') = Len(wire) + 1 /\ wire'[Len(wire) + 1] = l
             /\ window # "closed"
    <3> DEFINE e == Len(wire) + 1
    <3>0. /\ e \in Nat /\ n \in Nat /\ e \in 1 .. e /\ n = handled + 1
          /\ \A p \in 1 .. Len(wire) : p \in 1 .. e /\ p \in Nat /\ p # e /\ ~(e < p)
          /\ \A p \in 1 .. e : p \in 1 .. Len(wire) \/ p = e
          /\ \A i \in 1 .. handled : i < n
          /\ \A i \in 1 .. n : i \in 1 .. handled \/ i = n
      <4>1. e \in Nat /\ n \in Nat /\ e \in 1 .. e /\ n = handled + 1
        BY <1>9
      <4>2. \A p \in 1 .. Len(wire) : p \in 1 .. e /\ p \in Nat /\ p # e /\ ~(e < p)
        BY <1>9
      <4>3. \A p \in 1 .. e : p \in 1 .. Len(wire) \/ p = e
        <5>1. \A k \in Nat : \A p \in 1 .. k + 1 : p \in 1 .. k \/ p = k + 1
          OBVIOUS
        <5> QED
          BY <1>9, <5>1
      <4>4. \A i \in 1 .. handled : i < n
        BY <1>9
      <4>5. \A i \in 1 .. n : i \in 1 .. handled \/ i = n
        BY <1>9
      <4> QED
        BY <4>1, <4>2, <4>3, <4>4, <4>5, Zenon
    <3>9. Len(wire') = e /\ wire'[e] = l
      BY <2>3
    <3> HIDE DEF e, n, l
    <3>1. PICK to \in [Nat -> Nat] : to[e] = n /\ \A p \in 1 .. Len(wire) : to[p] = src[p]
      <4> DEFINE t == [src EXCEPT ![e] = n]
      <4>1. t \in [Nat -> Nat] /\ t[e] = n /\ \A p \in 1 .. Len(wire) : t[p] = src[p]
        BY <3>0
      <4> QED
        BY <4>1
    <3>2. ASSUME NEW p \in 1 .. Len(wire) PROVE p \in 1 .. e /\ wire'[p] = wire[p] /\ to[p] = src[p]
      BY <1>2, <3>0, <3>1
    <3>3. \A p \in 1 .. Len(wire') : p \in 1 .. Len(wire) \/ p = e
      BY <3>0, <3>9, Zenon
    <3>4. ASSUME NEW i \in 1 .. n, submitted[i] \notin Local
          PROVE  \E r \in 1 .. e : wire'[r] = submitted[i]
      <4>1. CASE i = n
        BY <3>0, <3>9, <4>1 DEF l
      <4>2. CASE i \in 1 .. handled
        <5>1. PICK r \in 1 .. Len(wire) : wire[r] = submitted[i]
          BY <1>1, <2>3, <3>4, <4>2 DEF Comes
        <5> QED
          BY <3>2, <5>1
      <4> QED
        BY <3>0, <4>1, <4>2
    <3>5. ASSUME NEW p \in 1 .. Len(wire'), wire'[p] # Goodbye
          PROVE  /\ to[p] \in 1 .. handled' /\ submitted'[to[p]] = wire'[p]
                 /\ \A i \in 1 .. to[p] : submitted'[i] \notin Local =>
                      \E r \in 1 .. p : wire'[r] = submitted'[i]
      <4>1. CASE p = e
        <5>1. to[p] = n /\ n \in 1 .. n
          BY <2>1, <3>1, <4>1
        <5>2. submitted'[to[p]] = wire'[p]
          BY <2>1, <3>9, <4>1, <5>1 DEF l
        <5> QED
          BY <2>1, <3>4, <4>1, <5>1, <5>2
      <4>2. CASE p \in 1 .. Len(wire)
        <5>1. /\ src[p] \in 1 .. handled /\ submitted[src[p]] = wire[p]
              /\ \A i \in 1 .. src[p] : submitted[i] \notin Local =>
                   \E r \in 1 .. p : wire[r] = submitted[i]
          BY <1>1, <3>2, <3>5, <4>2 DEF Comes
        <5>2. src[p] \in 1 .. n
          BY <1>2, <5>1 DEF n
        <5>3. \A r \in 1 .. p : wire'[r] = wire[r]
          BY <1>2, <4>2
        <5> QED
          BY <2>1, <3>2, <4>2, <5>1, <5>2, <5>3
      <4> QED
        BY <3>3, <4>1, <4>2
    <3>6. ASSUME NEW p \in 1 .. Len(wire'), NEW q \in 1 .. Len(wire'), p < q,
                 wire'[p] # Goodbye, wire'[q] # Goodbye
          PROVE  to[p] < to[q]
      <4>1. p \in 1 .. Len(wire) /\ to[p] = src[p] /\ src[p] \in 1 .. handled
        <5>1. p \in 1 .. Len(wire)
          BY <3>0, <3>3, <3>6
        <5> QED
          BY <1>1, <3>2, <3>6, <5>1 DEF Comes
      <4>2. CASE q = e
        BY <3>0, <3>1, <4>1, <4>2
      <4>3. CASE q \in 1 .. Len(wire)
        BY <1>1, <3>2, <3>6, <4>1, <4>3 DEF Comes
      <4> QED
        BY <3>3, <4>2, <4>3
    <3>7. Comes(to)'
      <4>1. \A i \in 1 .. handled' : submitted'[i] \notin Local =>
              \E r \in 1 .. Len(wire') : wire'[r] = submitted'[i]
        BY <2>1, <3>4, <3>9
      <4>2. \A p \in 1 .. Len(wire') : wire'[p] # Goodbye =>
              /\ to[p] \in 1 .. handled' /\ submitted'[to[p]] = wire'[p]
              /\ \A i \in 1 .. to[p] : submitted'[i] \notin Local =>
                   \E r \in 1 .. p : wire'[r] = submitted'[i]
        BY <3>5
      <4>3. \A p, q \in 1 .. Len(wire') :
              p < q /\ wire'[p] # Goodbye /\ wire'[q] # Goodbye => to[p] < to[q]
        BY <3>6
      <4> QED
        BY <4>1, <4>2, <4>3, Zenon DEF Comes
    <3> QED
      BY <3>1, <3>7, Zenon DEF WireInv
  <2>4. window # "closed" \/ wire' = wire
    BY <1>4 DEF Handle
  <2> QED
    BY <1>4, <2>2, <2>3, <2>4, HandleFacts
<1>5. CASE SayGoodbye
  <2>1. submitted' = submitted /\ handled' = handled /\ window # "closed"
    BY <1>5 DEF SayGoodbye
  <2>2. \A p \in 1 .. Len(wire') : wire'[p] # Goodbye => p \in 1 .. Len(wire)
    <3>1. Len(wire') = Len(wire) + 2 /\ \A p \in Len(wire) + 1 .. Len(wire) + 2 : wire'[p] = Goodbye
      BY <1>5, GoodbyeFacts
    <3> QED
      BY <1>2, <3>1
  <2>3. Len(wire') = Len(wire) + 2
    BY <1>5, GoodbyeFacts
  <2>4. Comes(src)'
    <3>1. ASSUME NEW p \in 1 .. Len(wire'), wire'[p] # Goodbye
          PROVE  /\ src[p] \in 1 .. handled' /\ submitted'[src[p]] = wire'[p]
                 /\ \A i \in 1 .. src[p] : submitted'[i] \notin Local =>
                      \E r \in 1 .. p : wire'[r] = submitted'[i]
      <4>1. p \in 1 .. Len(wire)
        BY <2>2, <3>1
      <4>2. p \in 1 .. p /\ \A r \in 1 .. p : r \in 1 .. Len(wire)
        BY <1>2, <4>1, Before
      <4>3. \A r \in 1 .. p : wire'[r] = wire[r]
        BY <1>2, <4>2
      <4>4. wire[p] # Goodbye
        BY <3>1, <4>2, <4>3
      <4>5. /\ src[p] \in 1 .. handled /\ submitted[src[p]] = wire[p]
            /\ \A i \in 1 .. src[p] : submitted[i] \notin Local =>
                 \E r \in 1 .. p : wire[r] = submitted[i]
        BY <1>1, <4>1, <4>4 DEF Comes
      <4> QED
        BY <2>1, <4>2, <4>3, <4>5, Zenon
    <3>2. \A p, q \in 1 .. Len(wire') :
            p < q /\ wire'[p] # Goodbye /\ wire'[q] # Goodbye => src[p] < src[q]
      BY <1>1, <1>2, <2>2 DEF Comes
    <3>3. ASSUME NEW i \in 1 .. handled', submitted'[i] \notin Local
          PROVE  \E r \in 1 .. Len(wire') : wire'[r] = submitted'[i]
      <4>1. PICK r \in 1 .. Len(wire) : wire[r] = submitted[i]
        BY <1>1, <2>1, <3>3 DEF Comes
      <4>2. r \in 1 .. Len(wire') /\ wire'[r] = wire[r]
        BY <1>2, <2>3, <4>1
      <4> QED
        BY <2>1, <4>1, <4>2
    <3> QED
      BY <3>1, <3>2, <3>3 DEF Comes
  <2> QED
    BY <2>4 DEF WireInv
<1> QED
  BY <1>3, <1>4, <1>5 DEF ChatNext, Next

\* No line of the wire that was read changes.
LEMMA StepSession == ChatInv /\ [ChatNext]_chatVars => SessionInv'
<1> SUFFICES ASSUME ChatInv, [ChatNext]_chatVars PROVE SessionInv'
  OBVIOUS
<1> USE DEF ChatInv
<1>1. /\ Len(wire) \in Nat /\ served \in Nat /\ served <= Len(wire)
      /\ \A p \in 1 .. Len(wire) : wire'[p] = wire[p]
  BY Lengths, Grow DEF ChatTypeOK
<1>2. \A p \in 1 .. served : wire'[p] = wire[p]
  BY <1>1
<1>3. CASE Serve
  <2>1. wire' = wire /\ served' = served + 1 /\ served + 1 \in 1 .. Len(wire)
    BY <1>1, <1>3 DEF Serve, vars
  <2>2. session' = CASE session = "anonymous" /\ wire[served + 1] = LoginLine -> "named"
                     [] session = "anonymous" /\ wire[served + 1] \in {Empty, BlankLine} -> "crashed"
                     [] session = "named" /\ IsLeave(wire[served + 1]) -> "over"
                     [] OTHER -> session
    BY <1>3 DEF Serve
  <2>3. \A p \in 1 .. served + 1 : p \in 1 .. served \/ p = served + 1
    BY <1>1
  <2>4. ASSUME session' = "anonymous" PROVE \A p \in 1 .. served' : wire'[p] # LoginLine
    <3>1. session = "anonymous" /\ wire[served + 1] # LoginLine
      BY <2>2, <2>4 DEF ChatTypeOK
    <3> QED
      BY <2>1, <2>3, <3>1 DEF SessionInv
  <2>5. ASSUME session' = "named" PROVE \E p \in 1 .. served' : wire'[p] = LoginLine
    <3>1. session = "named" \/ wire[served + 1] = LoginLine
      BY <2>2, <2>5 DEF ChatTypeOK
    <3>2. served + 1 \in 1 .. served + 1 /\ \A p \in 1 .. served : p \in 1 .. served + 1
      BY <1>1
    <3> QED
      BY <2>1, <3>1, <3>2 DEF SessionInv
  <2> QED
    BY <2>4, <2>5 DEF SessionInv
<1>5. CASE GreetNobody \/ HangUp
  BY <1>5 DEF GreetNobody, HangUp, SessionInv
<1>4. CASE ~Serve /\ ~GreetNobody /\ ~HangUp
  <2>1. served' = served /\ session' = session
    BY <1>4 DEF ChatNext, ServerStep, ReaderStep, Greet, Join, OtherLogsIn, OtherLeaves,
       TestReader, ReadMessage, EndOfStream, chatVars, vars, server
  <2> QED
    BY <1>2, <2>1 DEF SessionInv
<1> QED
  BY <1>3, <1>4, <1>5
-----------------------------------------------------------------------------
\* The order of the lines decides how a session ends.
LEMMA StepEnds == ChatInv /\ [ChatNext]_chatVars => HowSessionsEnd'
<1> SUFFICES ASSUME ChatInv, [ChatNext]_chatVars PROVE HowSessionsEnd'
  OBVIOUS
<1> USE DEF ChatInv
<1>1. /\ Len(submitted) \in Nat /\ Len(submitted') \in Nat /\ Len(submitted) <= Len(submitted')
      /\ \A i \in 1 .. Len(submitted) : submitted'[i] = submitted[i]
      /\ DOMAIN submitted = 1 .. Len(submitted) /\ DOMAIN submitted' = 1 .. Len(submitted')
  BY Grow
<1>2. /\ \A i, j \in DOMAIN submitted :
           i < j /\ submitted[i] = LoginLine /\ submitted[j] = LeaveLine =>
             /\ i \in DOMAIN submitted' /\ submitted'[i] = LoginLine
             /\ j \in DOMAIN submitted' /\ submitted'[j] = LeaveLine
      /\ \A j \in DOMAIN submitted :
           /\ j \in DOMAIN submitted' /\ submitted'[j] = submitted[j]
           /\ \A i \in 1 .. j - 1 : submitted'[i] = submitted[i]
  <2>1. \A j \in DOMAIN submitted : \A i \in 1 .. j - 1 : i \in DOMAIN submitted
    BY <1>1
  <2> QED
    BY <1>1, <2>1
<1>5. CASE ~Serve /\ ~GreetNobody /\ ~HangUp
  <2>1. session' = session
    BY <1>5 DEF ChatNext, ServerStep, ReaderStep, Greet, Join, OtherLogsIn, OtherLeaves,
       TestReader, ReadMessage, EndOfStream, chatVars, vars, server
  <2>2. ASSUME session' = "over"
        PROVE  \E i, j \in DOMAIN submitted' :
                 i < j /\ submitted'[i] = LoginLine /\ submitted'[j] = LeaveLine
    BY <1>2, <2>1, <2>2 DEF HowSessionsEnd
  <2>3. ASSUME session' = "crashed"
        PROVE  \/ ~joined' /\ ~greeted' /\ online' = {}
               \/ joined' /\ \E j \in DOMAIN submitted' :
                    /\ submitted'[j] \in {Empty, BlankLine}
                    /\ \A i \in 1 .. j - 1 : submitted'[i] # LoginLine
    <3>1. session = "crashed"
      BY <2>1, <2>3
    <3>2. UNCHANGED <<joined, greeted, online>>
      BY <1>5, <3>1 DEF ChatNext, ServerStep, ReaderStep, Greet, Join, OtherLogsIn,
         OtherLeaves, TestReader, ReadMessage, EndOfStream, chatVars, vars, server, Connected
    <3>3. CASE ~joined /\ ~greeted /\ online = {}
      BY <3>2, <3>3
    <3>4. CASE joined
      <4>1. PICK j \in DOMAIN submitted :
              /\ submitted[j] \in {Empty, BlankLine}
              /\ \A i \in 1 .. j - 1 : submitted[i] # LoginLine
        BY <3>1, <3>4 DEF HowSessionsEnd
      <4> QED
        BY <1>2, <3>2, <3>4, <4>1
    <3> QED
      BY <3>1, <3>3, <3>4 DEF HowSessionsEnd
  <2>4. session' = "killed" => window' = "closed"
    <3>1. window = "closed" => window' = "closed"
      BY <1>5 DEF ChatNext, Next, Submit, Handle, SayGoodbye, Shut, ServerStep, ReaderStep,
         Greet, Join, OtherLogsIn, OtherLeaves, TestReader, ReadMessage, EndOfStream,
         chatVars, vars
    <3> QED
      BY <2>1, <3>1 DEF HowSessionsEnd
  <2> QED
    BY <2>2, <2>3, <2>4 DEF HowSessionsEnd
<1>6. CASE GreetNobody
  BY <1>6 DEF GreetNobody, HowSessionsEnd
<1>7. CASE HangUp
  BY <1>7 DEF HangUp, HowSessionsEnd, vars
<1>3. CASE Serve
  <2> DEFINE n == served + 1
  <2>1. submitted' = submitted /\ wire' = wire
    BY <1>3 DEF Serve, vars
  <2>2. session' = CASE session = "anonymous" /\ wire[n] = LoginLine -> "named"
                     [] session = "anonymous" /\ wire[n] \in {Empty, BlankLine} -> "crashed"
                     [] session = "named" /\ IsLeave(wire[n]) -> "over"
                     [] OTHER -> session
    BY <1>3 DEF Serve
  <2>3. served \in Nat /\ Len(wire) \in Nat /\ handled \in Nat
    BY Lengths
  <2>4. n \in 1 .. Len(wire) /\ \A p \in 1 .. served : p \in 1 .. Len(wire) /\ p < n
    BY <1>3, <2>3 DEF Serve
  <2>5. PICK src \in [Nat -> Nat] : Comes(src)
    BY DEF WireInv
  <2>6. \A i \in 1 .. handled : i \in DOMAIN submitted
    <3>1. handled <= Len(submitted)
      BY <1>1, <2>3 DEF ChatTypeOK
    <3> QED
      BY <1>1, <2>3, <3>1
  <2>7. \A p \in 1 .. Len(wire) : wire[p] # Goodbye =>
          src[p] \in 1 .. handled /\ submitted[src[p]] = wire[p]
    BY <2>5 DEF Comes
  <2>8. ASSUME session = "named", wire[n] = LeaveLine
        PROVE  \E i, j \in DOMAIN submitted :
                 i < j /\ submitted[i] = LoginLine /\ submitted[j] = LeaveLine
    <3>1. PICK p \in 1 .. served : wire[p] = LoginLine
      BY <2>8 DEF SessionInv
    <3>2. wire[p] # Goodbye /\ wire[n] # Goodbye /\ p \in 1 .. Len(wire) /\ p < n
      BY <2>4, <2>8, <3>1, LineFacts
    <3>3. src[p] < src[n]
      BY <2>4, <2>5, <3>2 DEF Comes
    <3>4. /\ src[p] \in DOMAIN submitted /\ submitted[src[p]] = LoginLine
          /\ src[n] \in DOMAIN submitted /\ submitted[src[n]] = LeaveLine
      BY <2>4, <2>6, <2>7, <2>8, <3>1, <3>2
    <3> QED
      BY <3>3, <3>4
  <2>9. ASSUME session = "anonymous", wire[n] \in {Empty, BlankLine}
        PROVE  \E j \in DOMAIN submitted :
                 submitted[j] \in {Empty, BlankLine} /\ \A i \in 1 .. j - 1 : submitted[i] # LoginLine
    <3>1. wire[n] # Goodbye
      BY <2>9, LineFacts
    <3>2. src[n] \in 1 .. handled /\ src[n] \in DOMAIN submitted /\ submitted[src[n]] \in {Empty, BlankLine}
      BY <2>4, <2>6, <2>7, <2>9, <3>1
    <3>3. ASSUME NEW i \in 1 .. src[n] - 1, submitted[i] = LoginLine PROVE FALSE
      <4>1. i \in 1 .. src[n]
        BY <2>3, <3>2
      <4>2. PICK r \in 1 .. n : wire[r] = LoginLine
        BY <2>4, <2>5, <3>1, <3>3, <4>1, LineFacts DEF Comes
      <4>3. r # n
        BY <2>9, <4>2, LineFacts
      <4>4. r \in 1 .. served
        BY <2>3, <4>3
      <4> QED
        BY <2>9, <4>2, <4>4 DEF SessionInv
    <3> QED
      BY <3>2, <3>3
  <2>10. \/ session' = session /\ session \in {"anonymous", "named"}
         \/ session' = "named"
         \/ session' = "crashed" /\ session = "anonymous" /\ wire[n] \in {Empty, BlankLine}
         \/ session' = "over" /\ session = "named" /\ wire[n] = LeaveLine
    BY <1>3, <2>2 DEF IsLeave, Serve, Connected
  <2>11. joined' /\ joined
    BY <1>3 DEF Serve
  <2>12. session' = "over" =>
           \E i, j \in DOMAIN submitted' :
             i < j /\ submitted'[i] = LoginLine /\ submitted'[j] = LeaveLine
    BY <2>1, <2>8, <2>10
  <2>13. session' = "crashed" =>
           \E j \in DOMAIN submitted' :
             submitted'[j] \in {Empty, BlankLine} /\ \A i \in 1 .. j - 1 : submitted'[i] # LoginLine
    BY <2>1, <2>9, <2>10
  <2>14. session' # "killed"
    BY <2>10
  <2> QED
    BY <2>11, <2>12, <2>13, <2>14 DEF HowSessionsEnd
<1> QED
  BY <1>3, <1>5, <1>6, <1>7

\* The message that names a user is on its way until the user is in the list.
Shown(o) ==
  \/ o \in users \cup missed
  \/ \E m \in coming : m.type < 2 /\ o \in m.about

\* The names a message may not show in full.
Odd == WithComma \cup WithConnected

LEMMA ShownIs ==
  OnlineIsShown <=> (greeted /\ Connected /\ reader # "dead" => \A o \in online \ Odd : Shown(o))
<1>1. \A o : o \in users \cup missed \cup UNION {m.about : m \in {n \in coming : n.type < 2}}
             <=> Shown(o)
  BY DEF Shown
<1> QED
  BY <1>1 DEF OnlineIsShown, Odd

LEMMA StepOnline == ChatInv /\ [ChatNext]_chatVars => OnlineIsShown'
<1> SUFFICES ASSUME ChatInv, [ChatNext]_chatVars, greeted', Connected', reader' # "dead",
                    NEW o \in online' \ Odd
             PROVE  Shown(o)'
  <2>1. OnlineIsShown' <=> (greeted' /\ Connected' /\ reader' # "dead" =>
                             \A x \in online' \ Odd : Shown(x)')
    <3>1. \A o : o \in users' \cup missed' \cup UNION {m.about : m \in {n \in coming' : n.type < 2}}
                 <=> Shown(o)'
      BY DEF Shown
    <3> QED
      BY <3>1 DEF OnlineIsShown, Odd
  <2> QED
    BY <2>1
<1>0. greeted /\ Connected /\ reader # "dead" => \A x \in online \ Odd : Shown(x)
  BY ShownIs DEF ChatInv
<1>1. ASSUME Next, UNCHANGED <<server, coming, output>> PROVE Shown(o)'
  BY <1>0, <1>1 DEF server, output, Connected, Shown
<1>2. CASE Greet
  <2>1. o \in online /\ Message(0, online) \in coming'
    BY <1>2 DEF Greet, Send
  <2>2. Message(0, online).type < 2 /\ o \in Message(0, online).about
    BY <2>1 DEF Message
  <2> QED
    BY <2>1, <2>2 DEF Shown
<1>10. CASE GreetNobody \/ HangUp
  BY <1>10 DEF GreetNobody, HangUp, Connected
<1>3. CASE Join
  BY <1>0, <1>3 DEF Join, Connected, Shown, output
<1>4. CASE Serve
  <2>1. coming \subseteq coming' /\ UNCHANGED <<greeted, online, missed, users, reader>> /\ Connected
    BY <1>4 DEF Serve, Connected, Send, output
  <2>2. greeted /\ reader # "dead" /\ o \in online \ Odd
    BY <2>1
  <2>3. Shown(o)
    BY <1>0, <2>1, <2>2
  <2> QED
    BY <2>1, <2>3 DEF Shown
<1>5. ASSUME NEW u \in Others, OtherLogsIn(u) PROVE Shown(o)'
  <2>1. /\ Connected /\ greeted /\ reader # "dead"
        /\ users' = users /\ missed \subseteq missed' /\ coming \subseteq coming'
        /\ (o \in online \/ o = u) /\ o \notin Odd
    BY <1>5 DEF OtherLogsIn, Announced, Send, output
  <2>2. CASE o \in online
    BY <1>0, <2>1, <2>2 DEF Shown
  <2>3. CASE o = u /\ ~joined
    <3>1. o \in missed'
      BY <1>5, <2>1, <2>3 DEF OtherLogsIn
    <3> QED
      BY <3>1 DEF Shown
  <2>4. CASE o = u /\ joined
    <3>1. Message(1, {u}) \in coming'
      BY <1>5, <2>4 DEF OtherLogsIn, Announced, Send
    <3>2. Message(1, {u}).type < 2 /\ o \in Message(1, {u}).about
      BY <2>4 DEF Message
    <3> QED
      BY <3>1, <3>2 DEF Shown
  <2> QED
    BY <2>1, <2>2, <2>3, <2>4
<1>6. ASSUME NEW u \in Others, OtherLeaves(u) PROVE Shown(o)'
  <2>1. /\ Connected /\ greeted /\ reader # "dead" /\ users' = users /\ missed' = missed
        /\ coming \subseteq coming' /\ o \in online \ Odd
    BY <1>6 DEF OtherLeaves, Announced, Send, output
  <2> QED
    BY <1>0, <2>1 DEF Shown
<1>7. CASE TestReader \/ EndOfStream
  BY <1>0, <1>7 DEF TestReader, EndOfStream, Connected, Shown, server
<1>8. CASE ReadMessage
  <2>1. PICK m \in coming : coming' = coming \ {m} /\ users' = Listed(m)
    BY <1>8 DEF ReadMessage
  <2>2. greeted /\ Connected /\ o \in online \ Odd /\ missed' = missed /\ reader # "dead"
    BY <1>8 DEF ReadMessage, server, Connected
  <2>3. Shown(o) /\ users \subseteq users'
    BY <1>0, <2>1, <2>2 DEF Listed, Whole
  <2>4. CASE o \in users \cup missed
    BY <2>2, <2>3, <2>4 DEF Shown
  <2>5. ASSUME NEW x \in coming, x.type < 2, o \in x.about PROVE Shown(o)'
    <3>1. CASE x = m
      <4>1. o \in Whole(m) /\ x.type # 2
        BY <2>2, <2>5, <3>1 DEF Whole, Odd
      <4>2. m.type # 2
        BY <3>1, <4>1
      <4>3. o \in Listed(m)
        BY <4>1, <4>2 DEF Listed, Whole
      <4> QED
        BY <2>1, <4>3 DEF Shown
    <3>2. CASE x # m
      BY <2>1, <2>5, <3>2 DEF Shown
    <3> QED
      BY <3>1, <3>2
  <2> QED
    BY <2>3, <2>4, <2>5 DEF Shown
<1>9. CASE UNCHANGED chatVars
  BY <1>0, <1>9 DEF chatVars, server, output, Connected, Shown
<1> QED
  BY <1>1, <1>2, <1>3, <1>4, <1>5, <1>6, <1>7, <1>8, <1>9, <1>10 DEF ChatNext, ServerStep, ReaderStep

-----------------------------------------------------------------------------
(* The theorems.                                                           *)

\* ChatInv holds in every state: what is on the wire is what was entered, in its
\* order, and the listener's session and the messages of the server agree with it.
THEOREM Invariance == ChatSpec => []ChatInv
<1>1. ChatInv /\ [ChatNext]_chatVars => ChatInv'
  BY StepType, StepWire, StepSession, StepEnds, StepOnline DEF ChatInv
<1> QED
  BY InitInv, <1>1, PTL DEF ChatSpec

\* Every variable keeps its type, so the listener never reads past the wire and
\* only users of the server get into the list.
THEOREM TypeCorrect == ChatSpec => []ChatTypeOK
<1>1. ChatInv => ChatTypeOK
  BY DEF ChatInv
<1> QED
  BY Invariance, <1>1, PTL

\* However lines, the closing of the window and the listener interleave, a session
\* ends only after /login and then /leave were typed; and as far as it depends on
\* one client the server crashes only by a listing of the empty list, before the
\* client has joined, or by an empty or a blank line that no /login came before.
THEOREM SessionsEndAsTyped == ChatSpec => []HowSessionsEnd
<1>1. ChatInv => HowSessionsEnd
  BY DEF ChatInv
<1> QED
  BY Invariance, <1>1, PTL

\* Whoever is logged in under a name without a comma or "connected" in it is in the
\* list of users of the client or named by a message on its way to it, in whatever
\* order the workers' messages are read, unless the login came between the copy of
\* the listing and the client's own joining, or parseLine has ended the thread.
THEOREM EveryoneOnlineIsShown == ChatSpec => []OnlineIsShown
<1>1. ChatInv => OnlineIsShown
  BY DEF ChatInv
<1> QED
  BY Invariance, <1>1, PTL

=============================================================================
