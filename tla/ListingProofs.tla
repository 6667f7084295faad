---------------------------- MODULE ListingProofs ---------------------------
(* Proofs about Listing for an array of any size, a list of any length and *)
(* names of any letters.                                                   *)
EXTENDS Listing, SequenceTheorems, FiniteSetTheorems, WellFoundedInduction, TLAPS

\* A name ends before the last character of its array.
FitsArray(s) == s \in Seq(Characters) /\ Len(s) < NameSize

\* The names never change and fit into their arrays; a login is under way or not.
NamesInv ==
  \E n \in Nat :
    /\ old \in [1 .. n -> Seq(Characters)] /\ new \in [1 .. n -> Seq(Characters)]
    /\ login \in [1 .. n -> {"old", "copying", "new"}]
    /\ \A i \in 1 .. n : FitsArray(old[i]) /\ FitsArray(new[i])

TypeInv ==
  /\ pc \in {"name", "comma", "grow", "sent", "crashed"}
  /\ turn \in Nat \ {0} /\ from \in Nat
  /\ buffer \in Seq(Characters)
  /\ pc \in {"comma", "grow"} => turn <= Len(old)

\* What is in the buffer against what is allocated: NameSize for each client that
\* was appended, less than NameSize for the name under way, and twice NameSize
\* allocated for each client that was counted.
SizeInv ==
  /\ capacity = IF turn = 1 THEN AllocSize ELSE (turn - 1) * AllocSize
  /\ pc \in {"name", "comma", "grow"} =>
       from <= Len(buffer) /\ from <= (turn - 1) * NameSize
  /\ pc \in {"name", "comma"} => Len(buffer) - from < NameSize
  /\ pc = "grow" => Len(buffer) - from <= NameSize
  /\ pc = "name" /\ turn > Len(old) => from = Len(buffer)
  /\ pc \in {"sent", "crashed"} => Len(buffer) + 1 <= capacity

\* There is a comma as soon as a client was appended.
CommaInv ==
  /\ pc = "grow" \/ (pc \in {"name", "comma"} /\ turn > 1) => Contains(buffer, Comma)
  /\ pc = "crashed" => turn = 1 /\ old = <<>>
  /\ old = <<>> => buffer = <<>> /\ pc \in {"name", "crashed"}

IInv == NamesInv /\ TypeInv /\ SizeInv /\ CommaInv

-----------------------------------------------------------------------------
(* Lemmas about sizes.                                                     *)

LEMMA MinOfTwo ==
  ASSUME NEW a \in Int, NEW b \in Int
  PROVE  Min({a, b}) = IF a <= b THEN a ELSE b
<1> DEFINE m == IF a <= b THEN a ELSE b
<1>1. m \in {a, b} /\ \A y \in {a, b} : m <= y
  OBVIOUS
<1>2. \A x \in {a, b} : (\A y \in {a, b} : x <= y) => x = m
  OBVIOUS
<1> QED
  BY <1>1, <1>2 DEF Min

\* A prefix of a sequence.
LEMMA PrefixFacts ==
  ASSUME NEW S, NEW s, NEW k \in Nat, \A i \in 1 .. k : s[i] \in S
  PROVE  SubSeq(s, 1, k) \in Seq(S) /\ Len(SubSeq(s, 1, k)) = k
<1>1. 1 \in Int /\ k \in Int
  OBVIOUS
<1>2. /\ SubSeq(s, 1, k) \in Seq(S)
      /\ Len(SubSeq(s, 1, k)) = IF 1 <= k THEN k - 1 + 1 ELSE 0
  BY <1>1, SubSeqProperties
<1> QED
  BY <1>2

\* strcpy_n leaves room for the terminator.
LEMMA StrCpyNFits ==
  ASSUME NEW s \in Seq(Characters)
  PROVE  FitsArray(StrCpyN(s))
<1>1. Len(s) \in Nat /\ NameSize \in Nat /\ NameSize - 1 \in Nat
  BY LenProperties, ListingAssumption DEF ListingAssumption
<1> DEFINE m == Min({Len(s), NameSize - 1})
<1>2. m \in Nat /\ m <= Len(s) /\ m <= NameSize - 1
  BY <1>1, MinOfTwo
<1> HIDE DEF m
<1>3. \A i \in 1 .. m : s[i] \in Characters
  BY <1>1, <1>2, ElementOfSeq
<1>4. SubSeq(s, 1, m) \in Seq(Characters) /\ Len(SubSeq(s, 1, m)) = m
  BY <1>2, <1>3, PrefixFacts
<1>5. StrCpyN(s) = SubSeq(s, 1, m)
  BY DEF StrCpyN, m
<1> QED
  BY <1>1, <1>2, <1>4, <1>5 DEF FitsArray

\* Memory for all clients up to turn t, which is not the first two, leaves room
\* for a terminator; the memory of client t - 1 is what client t finds.
LEMMA Sizes ==
  ASSUME NEW t \in Nat \ {0}
  PROVE  /\ t * NameSize \in Nat /\ (t - 1) * NameSize \in Nat
         /\ t * NameSize = (t - 1) * NameSize + NameSize
         /\ t * AllocSize = 2 * (t * NameSize)
         /\ (t - 1) * AllocSize = 2 * ((t - 1) * NameSize)
         /\ t > 1 => (t - 1) * NameSize >= NameSize
         /\ t > 2 => (t - 1) * NameSize >= 2 * NameSize
<1>1. NameSize \in Nat /\ NameSize > 1
  BY ListingAssumption DEF ListingAssumption
<1>2. \A a \in Nat : a * NameSize \in Nat
  BY <1>1
<1>3. t * NameSize = (t - 1) * NameSize + NameSize
  BY <1>1
<1>4. t * (NameSize * 2) = 2 * (t * NameSize)
  BY <1>1
<1>5. (t - 1) * (NameSize * 2) = 2 * ((t - 1) * NameSize)
  BY <1>1
<1>6. \A a \in Nat, b \in Nat : a >= b => a * NameSize >= b * NameSize
  BY <1>1
<1>7. t > 1 => (t - 1) * NameSize >= 1 * NameSize
  BY <1>6
<1>8. t > 2 => (t - 1) * NameSize >= 2 * NameSize
  BY <1>6
<1> QED
  BY <1>1, <1>2, <1>3, <1>4, <1>5, <1>7, <1>8 DEF AllocSize

-----------------------------------------------------------------------------
(* The invariant.                                                          *)

LEMMA InitInv == Init => IInv
<1> SUFFICES ASSUME Init PROVE IInv
  OBVIOUS
<1>a. /\ NameSize \in Nat /\ NameSize > 1
      /\ Addresses \cup Users \subseteq Seq(Characters)
      /\ \A s \in Addresses : Len(s) < NameSize
  BY ListingAssumption DEF ListingAssumption
<1>1. PICK n \in 0 .. MaxClients :
        /\ old \in [1 .. n -> Addresses]
        /\ \E typed \in [1 .. n -> Users] : new = [i \in 1 .. n |-> StrCpyN(typed[i])]
        /\ login = [i \in 1 .. n |-> "old"]
  BY DEF Init
<1>2. PICK typed \in [1 .. n -> Users] : new = [i \in 1 .. n |-> StrCpyN(typed[i])]
  BY <1>1
<1>3. n \in Nat
  BY ListingAssumption DEF ListingAssumption
<1>4. \A i \in 1 .. n : FitsArray(old[i])
  BY <1>a, <1>1 DEF FitsArray
<1>5. \A i \in 1 .. n : FitsArray(new[i])
  BY <1>a, <1>2, StrCpyNFits
<1>6. NamesInv
  <2>1. old \in [1 .. n -> Seq(Characters)]
    BY <1>a, <1>1
  <2>2. new \in [1 .. n -> Seq(Characters)]
    BY <1>2, <1>5 DEF FitsArray
  <2> QED
    BY <1>1, <1>3, <1>4, <1>5, <2>1, <2>2 DEF NamesInv
<1>7. TypeInv /\ SizeInv /\ CommaInv
  <2>1. buffer = <<>> /\ Len(buffer) = 0 /\ buffer \in Seq(Characters)
    BY EmptySeq DEF Init
  <2>2. pc = "name" /\ turn = 1 /\ from = 0 /\ capacity = AllocSize
    BY DEF Init
  <2> QED
    BY <1>a, <2>1, <2>2 DEF TypeInv, SizeInv, CommaInv
<1> QED
  BY <1>6, <1>7 DEF IInv

\* Where the arrays hold zeros a reader finds a terminator, whatever the writer
\* has done: a name ends before the last character of its array.
LEMMA TerminatorStays ==
  ASSUME NamesInv, NEW i \in DOMAIN old, NEW j \in Nat, j >= NameSize
  PROVE  Letters(i, j) = {Nul}
<1>1. FitsArray(old[i]) /\ FitsArray(new[i])
  BY DEF NamesInv
<1>2. Len(old[i]) \in Nat /\ Len(new[i]) \in Nat /\ NameSize \in Nat
  BY <1>1, LenProperties, ListingAssumption DEF ListingAssumption, FitsArray
<1>3. LetterOf(old[i], j) = Nul /\ LetterOf(new[i], j) = Nul
  BY <1>1, <1>2 DEF LetterOf, FitsArray
<1>4. After(i, j) = Nul
  BY <1>3 DEF After
<1>5. j # 1
  BY ListingAssumption DEF ListingAssumption
<1> QED
  BY <1>3, <1>4, <1>5 DEF Letters

\* What a reader finds is a character.
LEMMA LettersType ==
  ASSUME NamesInv, NEW i \in DOMAIN old, NEW j \in Nat \ {0}
  PROVE  Letters(i, j) \subseteq Characters
<1>1. old[i] \in Seq(Characters) /\ new[i] \in Seq(Characters)
  BY DEF NamesInv
<1>2. Nul \in Characters
  BY ListingAssumption DEF ListingAssumption
<1>3. \A s \in Seq(Characters) : LetterOf(s, j) \in Characters
  BY <1>2, ElementOfSeq, LenProperties DEF LetterOf
<1>4. LetterOf(old[i], j) \in Characters /\ After(i, j) \in Characters
  BY <1>1, <1>3 DEF After
<1> QED
  BY <1>2, <1>4 DEF Letters

\* A letter appended at the end: the rest of the buffer stays.
LEMMA AppendToBuffer ==
  ASSUME NEW b \in Seq(Characters), NEW x \in Characters
  PROVE  /\ Append(b, x) \in Seq(Characters) /\ Len(Append(b, x)) = Len(b) + 1
         /\ Contains(b, Comma) \/ x = Comma => Contains(Append(b, x), Comma)
<1>1. /\ Append(b, x) \in Seq(Characters) /\ Len(Append(b, x)) = Len(b) + 1
      /\ \A i \in 1 .. Len(b) : Append(b, x)[i] = b[i]
      /\ Append(b, x)[Len(b) + 1] = x
  BY AppendProperties
<1>2. Len(b) \in Nat
  BY LenProperties
<1> QED
  BY <1>1, <1>2 DEF Contains

LEMMA StepInv == IInv /\ [Next]_vars => IInv'
<1> SUFFICES ASSUME IInv, [Next]_vars PROVE IInv'
  OBVIOUS
<1> USE DEF IInv
<1>a. /\ NameSize \in Nat /\ NameSize > 1
      /\ Comma \in Characters
      /\ Len(buffer) \in Nat /\ Len(old) \in Nat
      /\ DOMAIN old = 1 .. Len(old)
  <2>1. /\ NameSize \in Nat /\ NameSize > 1 /\ Comma \in Characters
    BY ListingAssumption DEF ListingAssumption
  <2>2. Len(buffer) \in Nat
    BY LenProperties DEF TypeInv
  <2>3. PICK n \in Nat : old \in [1 .. n -> Seq(Characters)]
    BY DEF NamesInv
  <2>4. old \in Seq(Seq(Characters))
    BY <2>3, SeqDef
  <2> QED
    BY <2>1, <2>2, <2>4, LenProperties
<1>b. /\ turn * NameSize \in Nat /\ (turn - 1) * NameSize \in Nat
      /\ turn * NameSize = (turn - 1) * NameSize + NameSize
      /\ turn * AllocSize = 2 * (turn * NameSize)
      /\ (turn - 1) * AllocSize = 2 * ((turn - 1) * NameSize)
      /\ turn > 1 => (turn - 1) * NameSize >= NameSize
  BY Sizes DEF TypeInv
<1>1. ASSUME NEW i \in DOMAIN old, StartCopy(i) \/ EndCopy(i) PROVE IInv'
  <2>1. NamesInv'
    BY <1>1 DEF StartCopy, EndCopy, names, NamesInv, FitsArray
  <2>2. TypeInv' /\ SizeInv' /\ CommaInv'
    BY <1>1 DEF StartCopy, EndCopy, names, TypeInv, SizeInv, CommaInv
  <2> QED
    BY <2>1, <2>2
<1>2. ASSUME UNCHANGED <<names, login>> PROVE NamesInv'
  BY <1>2 DEF names, NamesInv, FitsArray
<1>3. CASE AppendLetter
  <2>1. /\ pc = "name" /\ turn <= Len(old) /\ turn \in DOMAIN old
        /\ UNCHANGED <<names, login, pc, turn, from, capacity>>
        /\ old # <<>> /\ old' = old
    BY <1>3, <1>a, EmptySeq DEF AppendLetter, TypeInv, names
  <2>2. PICK x \in Letters(turn, Position) \ {Nul} : buffer' = Append(buffer, x)
    BY <1>3 DEF AppendLetter
  <2>3. Position \in Nat \ {0}
    BY <1>a, <2>1 DEF Position, TypeInv, SizeInv
  <2>4. Position < NameSize
    BY <1>a, <2>1, <2>2, <2>3, TerminatorStays
  <2>5. x \in Characters
    BY <2>1, <2>2, <2>3, LettersType
  <2>6. /\ buffer' \in Seq(Characters) /\ Len(buffer') = Len(buffer) + 1
        /\ Contains(buffer, Comma) => Contains(buffer', Comma)
    BY <2>2, <2>5, AppendToBuffer DEF TypeInv
  <2>7. TypeInv' /\ CommaInv'
    BY <2>1, <2>6 DEF TypeInv, CommaInv, names
  <2>8. SizeInv'
    BY <1>a, <1>b, <2>1, <2>4, <2>6 DEF TypeInv, SizeInv, Position, names
  <2> QED
    BY <1>2, <2>1, <2>7, <2>8
<1>4. CASE EndName
  BY <1>2, <1>4, <1>a DEF EndName, TypeInv, SizeInv, CommaInv, names
<1>5. CASE AppendComma
  <2>1. /\ pc = "comma" /\ pc' = "grow" /\ buffer' = Append(buffer, Comma)
        /\ UNCHANGED <<names, login, turn, from, capacity>>
    BY <1>5 DEF AppendComma
  <2>2. /\ buffer' \in Seq(Characters) /\ Len(buffer') = Len(buffer) + 1
        /\ Contains(buffer', Comma)
    BY <1>a, <2>1, AppendToBuffer DEF TypeInv
  <2>3. old # <<>> /\ old' = old
    BY <2>1 DEF CommaInv, names
  <2> QED
    BY <1>2, <1>a, <1>b, <2>1, <2>2, <2>3 DEF TypeInv, SizeInv, CommaInv, names
<1>6. CASE Grow
  <2>1. /\ pc = "grow" /\ pc' = "name" /\ turn' = turn + 1 /\ from' = Len(buffer)
        /\ capacity' = turn * AllocSize
        /\ UNCHANGED <<names, login, buffer>>
    BY <1>6 DEF Grow, Grown
  <2>2. (turn' - 1) * NameSize = turn * NameSize /\ (turn' - 1) * AllocSize = turn * AllocSize
    BY <2>1 DEF TypeInv
  <2>3. Len(buffer) <= turn * NameSize
    BY <1>a, <1>b, <2>1 DEF TypeInv, SizeInv
  <2>4. TypeInv' /\ CommaInv'
    BY <1>a, <2>1 DEF TypeInv, CommaInv, names
  <2>5. SizeInv'
    BY <1>a, <1>b, <2>1, <2>2, <2>3 DEF TypeInv, SizeInv, names
  <2> QED
    BY <1>2, <2>1, <2>4, <2>5
<1>7. CASE Finish
  <2>1. /\ pc = "name" /\ turn > Len(old)
        /\ UNCHANGED <<names, login, turn, from, capacity>>
    BY <1>7 DEF Finish
  <2>2. Len(buffer) + 1 <= capacity
    BY <1>a, <1>b, <2>1 DEF TypeInv, SizeInv, AllocSize
  <2>3. CASE Contains(buffer, Comma)
    <3>1. buffer' = SubSeq(buffer, 1, Len(buffer) - 1) /\ pc' = "sent"
      BY <1>7, <2>3 DEF Finish, Undelimited, Front
    <3>2. Len(buffer) >= 1
      BY <1>a, <2>3 DEF Contains
    <3>3. \A i \in 1 .. Len(buffer) - 1 : buffer[i] \in Characters
      BY <1>a, ElementOfSeq DEF TypeInv
    <3>4. Len(buffer) - 1 \in Nat
      BY <1>a, <3>2
    <3>5. buffer' \in Seq(Characters) /\ Len(buffer') = Len(buffer) - 1
      <4>1. /\ SubSeq(buffer, 1, Len(buffer) - 1) \in Seq(Characters)
            /\ Len(SubSeq(buffer, 1, Len(buffer) - 1)) = Len(buffer) - 1
        BY <3>3, <3>4, PrefixFacts
      <4> QED
        BY <3>1, <4>1, Zenon
    <3>6. TypeInv' /\ CommaInv'
      BY <2>1, <2>3, <3>1, <3>2, <3>5, EmptySeq DEF TypeInv, CommaInv, names
    <3>7. capacity' = capacity /\ Len(buffer') + 1 <= capacity'
      BY <2>1, <2>2, <3>4, <3>5, <1>a, <1>b DEF SizeInv, TypeInv, AllocSize
    <3>8. SizeInv'
      BY <2>1, <3>1, <3>7 DEF SizeInv
    <3> QED
      BY <1>2, <2>1, <3>6, <3>8
  <2>4. CASE ~Contains(buffer, Comma)
    <3>1. buffer' = buffer /\ pc' = "crashed"
      BY <1>7, <2>4 DEF Finish
    <3>2. turn = 1
      BY <2>1, <2>4 DEF TypeInv, CommaInv
    <3>3. Len(old) = 0
      BY <1>a, <2>1, <3>2
    <3>4. old = <<>>
      BY <1>a, <3>3, EmptySeq DEF NamesInv
    <3> QED
      BY <1>2, <2>1, <2>2, <3>1, <3>2, <3>4 DEF TypeInv, SizeInv, CommaInv, names
  <2> QED
    BY <2>3, <2>4
<1>8. CASE UNCHANGED vars
  BY <1>2, <1>8 DEF vars, names, TypeInv, SizeInv, CommaInv
<1> QED
  BY <1>1, <1>3, <1>4, <1>5, <1>6, <1>7, <1>8 DEF Next

LEMMA Invariance == Spec => []IInv
  BY InitInv, StepInv, PTL DEF Spec

\* The name under way is what was appended behind its beginning.
LEMMA PieceLength ==
  ASSUME IInv, from <= Len(buffer)
  PROVE  Len(Piece) = Len(buffer) - from
<1>1. from \in Nat /\ Len(buffer) \in Nat
  BY LenProperties DEF IInv, TypeInv
<1>2. from + 1 \in Int /\ Len(buffer) \in Int
  BY <1>1
<1>3. \A i \in (from + 1) .. Len(buffer) : buffer[i] \in Characters
  BY <1>1, ElementOfSeq DEF IInv, TypeInv
<1>4. Len(SubSeq(buffer, from + 1, Len(buffer)))
        = IF from + 1 <= Len(buffer) THEN Len(buffer) - (from + 1) + 1 ELSE 0
  BY <1>2, <1>3, SubSeqProperties
<1> QED
  BY <1>1, <1>4 DEF Piece

LEMMA InvImpliesStaysInside == IInv => StaysInside
<1> SUFFICES ASSUME IInv PROVE StaysInside
  OBVIOUS
<1>1. /\ NameSize \in Nat /\ NameSize > 1
      /\ turn \in Nat \ {0} /\ from \in Nat /\ Len(buffer) \in Nat
      /\ SizeInv
      /\ pc \in {"name", "comma", "grow", "sent", "crashed"}
  BY LenProperties, ListingAssumption DEF ListingAssumption, IInv, TypeInv
<1>2. /\ (turn - 1) * NameSize \in Nat
      /\ (turn - 1) * AllocSize = 2 * ((turn - 1) * NameSize)
      /\ turn > 1 => (turn - 1) * NameSize >= NameSize
      /\ turn > 2 => (turn - 1) * NameSize >= 2 * NameSize
  BY <1>1, Sizes
<1>3. pc \in {"name", "comma", "grow"} => Len(Piece) = Len(buffer) - from
  BY <1>1, PieceLength DEF SizeInv
<1>4. pc \in {"name", "comma"} => Len(Piece) < NameSize
  BY <1>1, <1>3 DEF SizeInv
<1>5. CASE pc \in {"name", "comma", "sent", "crashed"}
  <2>1. Len(buffer) + 1 <= capacity
    BY <1>1, <1>2, <1>5 DEF SizeInv, AllocSize
  <2> QED
    BY <1>4, <2>1 DEF StaysInside
<1>6. CASE pc = "grow"
  <2>1. CASE turn # 2
    <3>1. Len(buffer) + 1 <= capacity
      BY <1>1, <1>2, <1>6, <2>1 DEF SizeInv, AllocSize
    <3> QED
      BY <1>4, <3>1 DEF StaysInside
  <2>2. CASE turn = 2
    <3>1. capacity = 2 * NameSize /\ from <= NameSize /\ Len(buffer) - from <= NameSize
      BY <1>1, <1>6, <2>2 DEF SizeInv, AllocSize
    <3>2. \/ Len(buffer) + 1 <= capacity
          \/ /\ from = NameSize /\ Len(buffer) - from = NameSize
             /\ Len(buffer) + 1 = capacity + 1
      BY <1>1, <3>1
    <3> QED
      BY <1>3, <1>4, <1>6, <2>2, <3>2 DEF StaysInside
  <2> QED
    BY <2>1, <2>2
<1> QED
  BY <1>1, <1>5, <1>6

\* For every CLIENT_NAME_SIZE, any list and any names, however listeners write the
\* names while the worker reads them: a name ends inside its array and the buffer
\* stays inside its memory, but for the comma of the second client when the first
\* two names have full length, which makes it one byte too long.
THEOREM BufferStaysInside == Spec => []StaysInside
  BY Invariance, InvImpliesStaysInside, PTL

\* Without a comma in the buffer the last one is cut off through a null pointer.
FailsForEmptyList ==
  /\ pc = "crashed" => old = <<>>
  /\ pc = "sent" => old # <<>>

\* The listing of the empty list fails, and of no other.
THEOREM FailsExactlyWhenEmpty == Spec => []FailsForEmptyList
<1>1. IInv => FailsForEmptyList
  BY DEF IInv, CommaInv, FailsForEmptyList
<1> QED
  BY <1>1, Invariance, PTL

-----------------------------------------------------------------------------
(* What the Java client makes of the listing.                              *)

\* ends[k] is the place of the comma of client k, and there are no other commas.
Marks(ends, text, done) ==
  /\ ends \in [0 .. done -> 0 .. Len(text)]
  /\ ends[0] = 0
  /\ \A i, j \in 0 .. done : i < j => ends[i] < ends[j]
  /\ {j \in 1 .. Len(text) : text[j] = Comma} = {ends[k] : k \in 1 .. done}

\* The name s is what is between the places a and b.
IsName(text, a, b, s) == b = a + Len(s) + 1 /\ \A j \in 1 .. Len(s) : text[a + j] = s[j]

\* A letter at the end moves no comma.
LEMMA LetterKeepsMarks ==
  ASSUME NEW text \in Seq(Characters), NEW x \in Characters, x # Comma,
         NEW done \in Nat, NEW ends, Marks(ends, text, done),
         NEW t, t = Append(text, x)
  PROVE  Marks(ends, t, done)
<1>1. /\ Len(text) \in Nat /\ Len(t) = Len(text) + 1
      /\ \A i \in 1 .. Len(text) : t[i] = text[i]
      /\ t[Len(text) + 1] = x
  <2>1. /\ Len(Append(text, x)) = Len(text) + 1
        /\ \A i \in 1 .. Len(text) : Append(text, x)[i] = text[i]
        /\ Append(text, x)[Len(text) + 1] = x
    BY AppendProperties
  <2> QED
    BY <2>1, LenProperties, Zenon
<1>2. {j \in 1 .. Len(t) : t[j] = Comma} = {j \in 1 .. Len(text) : text[j] = Comma}
  <2>1. 1 .. Len(t) = (1 .. Len(text)) \cup {Len(text) + 1}
    BY <1>1
  <2> QED
    BY <1>1, <2>1
<1>3. ends \in [0 .. done -> 0 .. Len(t)]
  <2>1. 0 .. Len(text) \subseteq 0 .. Len(t)
    BY <1>1
  <2> QED
    BY <2>1 DEF Marks
<1> QED
  BY <1>2, <1>3 DEF Marks

\* A comma behind another name is the next one.
LEMMA CommaIsMarked ==
  ASSUME NEW text \in Seq(Characters), NEW done \in Nat, NEW ends, Marks(ends, text, done),
         ends[done] <= Len(text),
         NEW t, t = Append(text, Comma),
         NEW more \in [0 .. done + 1 -> Nat],
         \A k \in 0 .. done : more[k] = ends[k],
         more[done + 1] = Len(text) + 1
  PROVE  Marks(more, t, done + 1)
<1>1. /\ Len(text) \in Nat /\ Len(t) = Len(text) + 1
      /\ \A i \in 1 .. Len(text) : t[i] = text[i]
      /\ t[Len(text) + 1] = Comma
  <2>1. Comma \in Characters
    BY ListingAssumption DEF ListingAssumption
  <2>2. /\ Len(Append(text, Comma)) = Len(text) + 1
        /\ \A i \in 1 .. Len(text) : Append(text, Comma)[i] = text[i]
        /\ Append(text, Comma)[Len(text) + 1] = Comma
    BY <2>1, AppendProperties
  <2> QED
    BY <2>2, LenProperties, Zenon
<1>2. /\ \A k \in 0 .. done : more[k] = ends[k] /\ ends[k] \in 0 .. Len(text)
      /\ more[done + 1] = Len(text) + 1
  BY DEF Marks
<1>3. 0 .. done + 1 = (0 .. done) \cup {done + 1} /\ 1 .. done + 1 = (1 .. done) \cup {done + 1}
  OBVIOUS
<1>4. more \in [0 .. done + 1 -> 0 .. Len(t)]
  <2>1. \A k \in 0 .. done + 1 : more[k] \in 0 .. Len(t)
    <3>1. 0 .. Len(text) \subseteq 0 .. Len(t) /\ Len(text) + 1 \in 0 .. Len(t)
      BY <1>1
    <3>2. \A k \in 0 .. done : more[k] \in 0 .. Len(t)
      BY <1>2, <3>1
    <3>3. more[done + 1] \in 0 .. Len(t)
      BY <1>2, <3>1
    <3> QED
      BY <1>3, <3>2, <3>3
  <2> QED
    BY <2>1
<1>5. more[0] = 0
  BY <1>2 DEF Marks
<1>6. \A i, j \in 0 .. done + 1 : i < j => more[i] < more[j]
  <2> SUFFICES ASSUME NEW i \in 0 .. done + 1, NEW j \in 0 .. done + 1, i < j
               PROVE  more[i] < more[j]
    OBVIOUS
  <2>1. i \in 0 .. done
    OBVIOUS
  <2>2. CASE j = done + 1
    <3>1. more[i] \in 0 .. Len(text) /\ more[j] = Len(text) + 1
      BY <1>2, <2>1, <2>2
    <3> QED
      BY <1>1, <3>1
  <2>3. CASE j # done + 1
    BY <1>2, <2>1, <2>3 DEF Marks
  <2> QED
    BY <2>2, <2>3
<1>8. {j \in 1 .. Len(t) : t[j] = Comma} = {more[k] : k \in 1 .. done + 1}
  <2>1. 1 .. Len(t) = (1 .. Len(text)) \cup {Len(text) + 1}
    BY <1>1
  <2>2. {j \in 1 .. Len(t) : t[j] = Comma} = {j \in 1 .. Len(text) : text[j] = Comma} \cup {Len(text) + 1}
    BY <1>1, <2>1
  <2>3. {more[k] : k \in 1 .. done + 1} = {ends[k] : k \in 1 .. done} \cup {Len(text) + 1}
    <3>1. \A k \in 1 .. done : more[k] = ends[k]
      BY <1>2
    <3> QED
      BY <1>2, <1>3, <3>1
  <2> QED
    BY <2>2, <2>3 DEF Marks
<1> QED
  BY <1>4, <1>5, <1>6, <1>8 DEF Marks

\* k different places are k places.
LEMMA PlacesUpTo ==
  ASSUME NEW n \in Nat, NEW ends \in [0 .. n -> Nat],
         \A i, j \in 0 .. n : i < j => ends[i] < ends[j],
         NEW k \in 0 .. n + 1
  PROVE  Cardinality({ends[i] : i \in 0 .. k - 1}) = k
<1> DEFINE I == 0 .. k - 1
           T == {ends[i] : i \in I}
           f == [i \in I |-> ends[i]]
<1>1. \A i \in I : i \in 0 .. n
  OBVIOUS
<1>2. IsFiniteSet(I) /\ Cardinality(I) = k
  <2>1. 0 \in Int /\ k - 1 \in Int
    OBVIOUS
  <2>2. IsFiniteSet(0 .. k - 1) /\ Cardinality(0 .. k - 1) = IF 0 > k - 1 THEN 0 ELSE k - 1 - 0 + 1
    BY <2>1, FS_Interval
  <2> QED
    BY <2>2
<1>3. \A i, j \in I : ends[i] = ends[j] => i = j
  <2> SUFFICES ASSUME NEW i \in I, NEW j \in I, i # j PROVE ends[i] # ends[j]
    OBVIOUS
  <2>1. i \in 0 .. n /\ j \in 0 .. n /\ (i < j \/ j < i)
    BY <1>1
  <2> QED
    BY <2>1
<1>4. f \in Bijection(I, T)
  <2>1. f \in [I -> T] /\ \A i, j \in I : f[i] = f[j] => i = j
    BY <1>3
  <2>2. \A t \in T : \E i \in I : f[i] = t
    OBVIOUS
  <2> QED
    <3> HIDE DEF f, T, I
    <3> QED
      BY <2>1, <2>2 DEF Bijection, Injection, Surjection, IsInjective
<1>5. ExistsBijection(I, T)
  BY <1>4 DEF ExistsBijection
<1> QED
  BY <1>2, <1>5, FS_Bijection

\* The commas between the names and the two ends of the listing are the cuts.
LEMMA CutsAreMarks ==
  ASSUME NEW text \in Seq(Characters), NEW n \in Nat \ {0}, NEW ends,
         Marks(ends, Append(text, Comma), n), ends[n] = Len(text) + 1
  PROVE  /\ Cardinality(Commas(text)) = n + 1
         /\ \A k \in 0 .. n : Cut(text, k) = ends[k]
<1> DEFINE C == Commas(text)
<1>1. /\ ends \in [0 .. n -> Nat] /\ ends[0] = 0 /\ Len(text) \in Nat
      /\ \A i, j \in 0 .. n : i < j => ends[i] < ends[j]
  <2>1. Len(text) \in Nat /\ Comma \in Characters
    BY LenProperties, ListingAssumption DEF ListingAssumption
  <2>2. Len(Append(text, Comma)) = Len(text) + 1
    BY <2>1, AppendProperties
  <2>3. 0 .. Len(Append(text, Comma)) \subseteq Nat
    BY <2>1, <2>2
  <2> QED
    BY <2>1, <2>3 DEF Marks
<1>2. C = {ends[k] : k \in 0 .. n}
  <2>1. PICK t : t = Append(text, Comma)
    OBVIOUS
  <2>2. Len(t) = Len(text) + 1 /\ t[Len(text) + 1] = Comma /\ \A i \in 1 .. Len(text) : t[i] = text[i]
    <3>1. Comma \in Characters
      BY ListingAssumption DEF ListingAssumption
    <3>2. /\ Len(Append(text, Comma)) = Len(text) + 1
          /\ Append(text, Comma)[Len(text) + 1] = Comma
          /\ \A i \in 1 .. Len(text) : Append(text, Comma)[i] = text[i]
      BY <3>1, AppendProperties
    <3> QED
      BY <2>1, <3>2, Zenon
  <2>3. {j \in 1 .. Len(t) : t[j] = Comma} = {ends[k] : k \in 1 .. n}
    BY <2>1 DEF Marks
  <2>4. {j \in 1 .. Len(t) : t[j] = Comma} = {j \in 1 .. Len(text) : text[j] = Comma} \cup {Len(text) + 1}
    <3>1. 1 .. Len(t) = (1 .. Len(text)) \cup {Len(text) + 1}
      BY <1>1, <2>2
    <3> QED
      BY <2>2, <3>1
  <2>5. DOMAIN text = 1 .. Len(text)
    BY LenProperties
  <2>6. C = {0} \cup {j \in 1 .. Len(t) : t[j] = Comma}
    BY <2>4, <2>5 DEF Commas
  <2>7. 0 .. n = {0} \cup (1 .. n)
    OBVIOUS
  <2>8. {ends[k] : k \in 0 .. n} = {0} \cup {ends[k] : k \in 1 .. n}
    BY <1>1, <2>7
  <2> QED
    BY <2>3, <2>6, <2>8
<1> HIDE DEF C
<1>3. Cardinality(C) = n + 1
  <2>1. PICK m \in 0 .. n + 1 : m = n + 1
    OBVIOUS
  <2>2. Cardinality({ends[i] : i \in 0 .. m - 1}) = m
    BY <1>1, PlacesUpTo
  <2>3. m - 1 = n
    BY <2>1
  <2> QED
    BY <1>2, <2>1, <2>2, <2>3
<1>4. ASSUME NEW k \in 0 .. n PROVE Cardinality({d \in C : d < ends[k]}) = k
  <2>1. {d \in C : d < ends[k]} = {ends[i] : i \in 0 .. k - 1}
    <3>1. ASSUME NEW i \in 0 .. n PROVE ends[i] < ends[k] <=> i \in 0 .. k - 1
      <4>1. CASE i < k
        BY <1>1, <4>1
      <4>2. CASE i = k
        BY <1>1, <4>2
      <4>3. CASE k < i
        BY <1>1, <4>3
      <4> QED
        BY <4>1, <4>2, <4>3
    <3>2. \A i \in 0 .. k - 1 : i \in 0 .. n
      OBVIOUS
    <3> QED
      BY <1>2, <3>1, <3>2
  <2>2. k \in 0 .. n + 1
    OBVIOUS
  <2>3. Cardinality({ends[i] : i \in 0 .. k - 1}) = k
    BY <1>1, <2>2, PlacesUpTo
  <2> QED
    BY <2>1, <2>3
<1>5. ASSUME NEW k \in 0 .. n PROVE Cut(text, k) = ends[k]
  <2>1. ends[k] \in C /\ Cardinality({d \in C : d < ends[k]}) = k
    BY <1>2, <1>4
  <2>2. ASSUME NEW c \in C, Cardinality({d \in C : d < c}) = k PROVE c = ends[k]
    <3>1. PICK i \in 0 .. n : c = ends[i]
      BY <1>2
    <3>2. i = k
      BY <1>4, <2>2, <3>1
    <3> QED
      BY <3>1, <3>2
  <2>3. Cut(text, k) = CHOOSE c \in C : Cardinality({d \in C : d < c}) = k
    BY DEF Cut, C
  <2> QED
    BY <2>1, <2>2, <2>3
<1> QED
  BY <1>3, <1>5 DEF C

LEMMA LessIsWellFounded == IsWellFoundedOn({p \in Nat \X Nat : p[1] < p[2]}, Nat)
<1>1. OpToRel(<, Nat) = {p \in Nat \X Nat : p[1] < p[2]}
  BY DEF OpToRel
<1> QED
  BY <1>1, NatLessThanWellFounded

\* The largest of some numbers up to n.
LEMMA MaxOfSome ==
  ASSUME NEW n \in Nat, NEW I \in SUBSET (1 .. n)
  PROVE  /\ Max({0} \cup I) \in 0 .. n
         /\ \A i \in I : i <= Max({0} \cup I)
<1> DEFINE S == {0} \cup I
           D == {n - i : i \in S}
           R == {p \in Nat \X Nat : p[1] < p[2]}
<1>1. S \subseteq 0 .. n /\ D \subseteq Nat /\ n \in D
  OBVIOUS
<1>2. \E d \in D : \A e \in D : ~(<<e, d>> \in R)
  <2> HIDE DEF D, R
  <2>1. D \in SUBSET Nat /\ D # {}
    BY <1>1
  <2> QED
    BY <2>1, LessIsWellFounded, WFMin DEF R
<1>3. PICK d \in D : \A e \in D : ~(<<e, d>> \in R)
  BY <1>2
<1>4. \A e \in D : d <= e
  <2> SUFFICES ASSUME NEW e \in D PROVE d <= e
    OBVIOUS
  <2>1. d \in Nat /\ e \in Nat /\ ~(<<e, d>> \in R)
    BY <1>1, <1>3
  <2>2. ~(e < d)
    BY <2>1
  <2> QED
    BY <2>1, <2>2
<1>5. PICK m \in S : d = n - m
  BY <1>3
<1>6. \A i \in S : m >= i
  BY <1>1, <1>4, <1>5
<1>7. \A x \in S : (\A i \in S : x >= i) => x = m
  BY <1>1, <1>5, <1>6
<1>8. Max(S) = m
  BY <1>5, <1>6, <1>7 DEF Max
<1> QED
  BY <1>1, <1>5, <1>6, <1>8

\* Between one comma and the next is at most one part of the listing, and exactly
\* one if something is there.
LEMMA SplitFacts ==
  ASSUME NEW text \in Seq(Characters), NEW n \in Nat \ {0}, NEW ends,
         Marks(ends, Append(text, Comma), n), ends[n] = Len(text) + 1
  PROVE  /\ Len(Split(text)) \in Nat /\ Len(Split(text)) <= n
         /\ DOMAIN Split(text) = 1 .. Len(Split(text))
         /\ \A k \in 1 .. n :
              SubSeq(text, ends[k - 1] + 1, ends[k] - 1) # <<>> =>
                /\ k <= Len(Split(text))
                /\ Split(text)[k] = SubSeq(text, ends[k - 1] + 1, ends[k] - 1)
<1>1. Cardinality(Commas(text)) = n + 1 /\ \A k \in 0 .. n : Cut(text, k) = ends[k]
  BY CutsAreMarks
<1>2. /\ \A k \in 0 .. n : ends[k] \in Nat /\ ends[k] <= Len(text) + 1
      /\ \A k \in 1 .. n : ends[k - 1] < ends[k]
      /\ ends[0] = 0
      /\ Len(text) \in Nat /\ DOMAIN text = 1 .. Len(text)
  <2>1. Len(text) \in Nat /\ DOMAIN text = 1 .. Len(text) /\ Comma \in Characters
    BY LenProperties, ListingAssumption DEF ListingAssumption
  <2>2. Len(Append(text, Comma)) = Len(text) + 1
    BY <2>1, AppendProperties
  <2>3. \A k \in 0 .. n : ends[k] \in 0 .. Len(text) + 1
    BY <2>2 DEF Marks
  <2> QED
    BY <2>1, <2>3 DEF Marks
<1>3. \A k \in 1 .. n : k \in 0 .. n /\ k - 1 \in 0 .. n
  OBVIOUS
<1> DEFINE part(k) == SubSeq(text, ends[k - 1] + 1, ends[k] - 1)
           parts == [k \in 1 .. n |-> part(k)]
<1>4. ASSUME NEW k \in 1 .. n PROVE part(k) \in Seq(Characters)
  <2>1. PICK a \in Int, b \in Int : a = ends[k - 1] + 1 /\ b = ends[k] - 1
    <3>1. ends[k - 1] + 1 \in Int /\ ends[k] - 1 \in Int
      BY <1>2, <1>3
    <3> QED
      BY <3>1
  <2>2. a >= 1 /\ b <= Len(text)
    BY <1>2, <1>3, <2>1
  <2>3. \A i \in a .. b : text[i] \in Characters
    BY <1>2, <2>2, ElementOfSeq
  <2>4. SubSeq(text, a, b) \in Seq(Characters)
    BY <2>3, SubSeqProperties
  <2> QED
    BY <2>1, <2>4, Zenon
<1>5. Pieces(text) = parts
  <2>1. Cardinality(Commas(text)) - 1 = n
    BY <1>1
  <2>2. Pieces(text) = [k \in 1 .. n |-> SubSeq(text, Cut(text, k - 1) + 1, Cut(text, k) - 1)]
    BY <2>1, Zenon DEF Pieces
  <2>3. \A k \in 1 .. n : Cut(text, k) = ends[k] /\ Cut(text, k - 1) = ends[k - 1]
    BY <1>1, <1>3
  <2> QED
    BY <2>2, <2>3, Zenon
<1> HIDE DEF part
<1>6. DOMAIN parts = 1 .. n /\ \A k \in 1 .. n : parts[k] = part(k)
  OBVIOUS
<1>7. parts \in Seq(Seq(Characters)) /\ Len(parts) = n
  <2>1. parts \in [1 .. n -> Seq(Characters)]
    BY <1>4
  <2>2. parts \in Seq(Seq(Characters))
    BY <2>1, SeqDef
  <2>3. Len(parts) \in Nat /\ DOMAIN parts = 1 .. Len(parts)
    BY <2>2, LenProperties
  <2> HIDE DEF parts
  <2>4. Len(parts) = n
    BY <1>6, <2>3
  <2> QED
    BY <2>2, <2>4
<1> HIDE DEF parts
<1>8. CASE Contains(text, Comma)
  <2> DEFINE I == {k \in 1 .. n : parts[k] # <<>>}
  <2>1. PICK m : m = Max({0} \cup I)
    OBVIOUS
  <2>2. m \in 0 .. n /\ \A k \in I : k <= m
    <3>1. I \in SUBSET (1 .. n)
      OBVIOUS
    <3> HIDE DEF I
    <3> QED
      BY <2>1, <3>1, MaxOfSome
  <2>3. Split(text) = SubSeq(parts, 1, m)
    <3>1. Split(text) =
            SubSeq(Pieces(text), 1, Max({0} \cup {k \in DOMAIN Pieces(text) : Pieces(text)[k] # <<>>}))
      BY <1>8, Zenon DEF Split
    <3>2. {k \in DOMAIN Pieces(text) : Pieces(text)[k] # <<>>} = I
      BY <1>5, <1>6, Zenon
    <3> QED
      BY <1>5, <2>1, <3>1, <3>2, Zenon
  <2>4. /\ Len(SubSeq(parts, 1, m)) = m /\ SubSeq(parts, 1, m) \in Seq(Seq(Characters))
        /\ \A k \in 1 .. m : SubSeq(parts, 1, m)[k] = parts[k]
    <3>1. \A k \in 1 .. m : parts[k] \in Seq(Characters)
      BY <1>7, <2>2, ElementOfSeq
    <3>2. m \in Nat /\ m \in Int /\ 1 \in Int
      BY <2>2
    <3>3. Len(SubSeq(parts, 1, m)) = m /\ SubSeq(parts, 1, m) \in Seq(Seq(Characters))
      BY <3>1, <3>2, PrefixFacts
    <3>4. \A k \in 1 .. m - 1 + 1 : SubSeq(parts, 1, m)[k] = parts[1 + k - 1]
      BY <3>1, <3>2, SubSeqProperties
    <3>5. \A k \in 1 .. m : k \in 1 .. m - 1 + 1 /\ 1 + k - 1 = k
      BY <3>2
    <3> QED
      BY <3>3, <3>4, <3>5
  <2>5. PICK q : q = SubSeq(parts, 1, m)
    OBVIOUS
  <2>6. Len(q) = m /\ DOMAIN q = 1 .. m /\ \A k \in 1 .. m : q[k] = parts[k]
    <3>1. Len(q) = m /\ q \in Seq(Seq(Characters)) /\ \A k \in 1 .. m : q[k] = parts[k]
      BY <2>4, <2>5, Zenon
    <3> QED
      BY <3>1, LenProperties
  <2>7. Split(text) = q
    BY <2>3, <2>5, Zenon
  <2>8. ASSUME NEW k \in 1 .. n, part(k) # <<>> PROVE k <= Len(q) /\ q[k] = part(k)
    <3>1. k \in I
      BY <1>6, <2>8, Zenon
    <3>2. k <= m /\ k \in 1 .. m
      BY <2>2, <3>1
    <3> QED
      BY <1>6, <2>6, <3>2
  <2>9. Len(q) \in Nat /\ Len(q) <= n /\ DOMAIN q = 1 .. Len(q)
    BY <2>2, <2>6
  <2> QED
    BY <2>7, <2>8, <2>9, Zenon DEF part
<1>9. CASE ~Contains(text, Comma)
  <2>1. Commas(text) = {0, Len(text) + 1}
    BY <1>2, <1>9 DEF Commas, Contains
  <2>2. n = 1
    <3>1. 0 # Len(text) + 1
      BY <1>2
    <3>2. PICK b : b = Len(text) + 1
      OBVIOUS
    <3>3. PICK S : S = {0}
      OBVIOUS
    <3>4. IsFiniteSet(S) /\ Cardinality(S) = 1 /\ b \notin S
      BY <3>1, <3>2, <3>3, FS_Singleton, Zenon
    <3>5. Cardinality(S \cup {b}) = Cardinality(S) + 1
      BY <3>4, FS_AddElement
    <3>6. Commas(text) = S \cup {b}
      BY <2>1, <3>2, <3>3
    <3>7. Cardinality(S \cup {b}) = n + 1
      BY <1>1, <3>6, Zenon
    <3> QED
      BY <3>4, <3>5, <3>7
  <2>3. Split(text) = <<text>>
    BY <1>9, Zenon DEF Split
  <2>4. part(1) = text
    <3>1. ends[1 - 1] + 1 = 1 /\ ends[1] - 1 = Len(text)
      BY <1>2, <2>2
    <3>2. SubSeq(text, 1, Len(text)) = text
      BY SubSeqFull
    <3> QED
      BY <3>1, <3>2, Zenon DEF part
  <2>5. PICK q : q = <<text>>
    OBVIOUS
  <2>6. Len(q) = 1 /\ DOMAIN q = 1 .. 1 /\ q[1] = text
    BY <2>5
  <2>7. Split(text) = q
    BY <2>3, <2>5, Zenon
  <2>8. \A k \in 1 .. n : k = 1
    BY <2>2
  <2>9. /\ Len(q) \in Nat /\ Len(q) <= n /\ DOMAIN q = 1 .. Len(q)
        /\ \A k \in 1 .. n : k <= Len(q)
    BY <2>2, <2>6, <2>8
  <2>10. \A k \in 1 .. n : q[k] = part(k)
    BY <2>4, <2>6, <2>8, Zenon
  <2> QED
    BY <2>7, <2>9, <2>10, Zenon DEF part
<1> QED
  BY <1>8, <1>9

-----------------------------------------------------------------------------
(* The names in the buffer.                                                *)

\* No name is empty, and none has a terminator in it; an address has no comma.
CleanInv ==
  \A i \in DOMAIN old :
    /\ old[i] # <<>> /\ ~Contains(old[i], Nul) /\ ~Contains(old[i], Comma)
    /\ new[i] # <<>> /\ ~Contains(new[i], Nul)

NoCommas == \A i \in DOMAIN new : ~Contains(new[i], Comma)

\* How many clients are in the buffer with their comma, and the buffer before the
\* last comma became the terminator.
Done == IF pc = "grow" THEN turn ELSE turn - 1
Text == IF pc = "sent" THEN Append(buffer, Comma) ELSE buffer

\* The commas in the buffer are those of its clients; between them is one of the
\* names of the client, unless it logged in meanwhile.
IsOneOf(text, a, b, k) == \E s \in {old[k], new[k]} : IsName(text, a, b, s)
PlacesInv ==
  \E ends :
    /\ Marks(ends, Text, Done)
    /\ ends[Done] = IF pc \in {"name", "comma"} THEN from ELSE Len(Text)
    /\ \A k \in (1 .. Done) \ torn : IsOneOf(Text, ends[k - 1], ends[k], k)

\* What was appended of the name under way is the beginning of the name that is
\* in the array; at its comma it is the name.  Nothing is known of a torn name.
Progress == Len(buffer) - from
IsBeginning(s) ==
  /\ Progress <= Len(s) /\ (pc = "comma" => Progress = Len(s))
  /\ \A j \in 1 .. Progress : buffer[from + j] = s[j]
UnderWayInv ==
  /\ pc \in {"name", "comma"} /\ turn <= Len(old) /\ turn \notin torn =>
         /\ login[turn] = "copying" => Progress = 0 /\ pc = "name"
         /\ login[turn] = "old" => IsBeginning(old[turn])
         /\ login[turn] = "new" => IsBeginning(new[turn])
  /\ pc = "name" => turn <= Len(old) + 1
  /\ pc = "sent" => turn = Len(old) + 1 /\ old # <<>>

ShowInv == CleanInv /\ UnderWayInv /\ (NoCommas => PlacesInv)

\* strcpy_n neither empties a name nor puts a terminator into it.
LEMMA StrCpyNIsClean ==
  ASSUME NEW s \in Seq(Characters), s # <<>>, ~Contains(s, Nul)
  PROVE  StrCpyN(s) # <<>> /\ ~Contains(StrCpyN(s), Nul)
<1>1. Len(s) \in Nat /\ Len(s) # 0 /\ NameSize \in Nat /\ NameSize - 1 \in Nat /\ NameSize - 1 # 0
  BY LenProperties, EmptySeq, ListingAssumption DEF ListingAssumption
<1> DEFINE m == Min({Len(s), NameSize - 1})
<1>2. m \in Nat /\ m <= Len(s) /\ m # 0
  BY <1>1, MinOfTwo
<1> HIDE DEF m
<1>3. StrCpyN(s) = SubSeq(s, 1, m)
  BY DEF StrCpyN, m
<1>4. \A i \in 1 .. m : s[i] \in Characters /\ s[i] # Nul
  BY <1>1, <1>2, ElementOfSeq DEF Contains
<1>5. /\ SubSeq(s, 1, m) \in Seq(Characters)
      /\ Len(SubSeq(s, 1, m)) = m
      /\ \A i \in 1 .. m : SubSeq(s, 1, m)[i] = s[i]
  <2>1. /\ Len(SubSeq(s, 1, m)) = m /\ SubSeq(s, 1, m) \in Seq(Characters)
    BY <1>2, <1>4, PrefixFacts
  <2>2. 1 \in Int /\ m \in Int
    BY <1>2
  <2>3. \A i \in 1 .. m - 1 + 1 : SubSeq(s, 1, m)[i] = s[1 + i - 1]
    BY <1>4, <2>2, SubSeqProperties
  <2>4. \A i \in 1 .. m : i \in 1 .. m - 1 + 1 /\ 1 + i - 1 = i
    BY <1>2
  <2> QED
    BY <2>1, <2>3, <2>4
<1> DEFINE p == SubSeq(s, 1, m)
<1> HIDE DEF p
<1>6. /\ p \in Seq(Characters) /\ Len(p) = m /\ \A i \in 1 .. m : p[i] = s[i]
      /\ StrCpyN(s) = p
  BY <1>3, <1>5 DEF p
<1>7. p # <<>> /\ ~Contains(p, Nul)
  BY <1>2, <1>4, <1>6, EmptySeq DEF Contains
<1> QED
  BY <1>6, <1>7, Zenon

\* A letter that is not the terminator is one of the name, and has its place in it.
LEMMA LetterFacts ==
  ASSUME NEW s \in Seq(Characters), ~Contains(s, Nul), NEW j \in Nat \ {0}
  PROVE  /\ LetterOf(s, j) = Nul <=> j > Len(s)
         /\ ~Contains(s, Comma) => LetterOf(s, j) # Comma
<1>1. Len(s) \in Nat /\ Comma # Nul
  BY LenProperties, ListingAssumption DEF ListingAssumption
<1>2. j \in 1 .. Len(s) <=> j <= Len(s)
  BY <1>1
<1> QED
  BY <1>1, <1>2 DEF LetterOf, Contains

\* What stands behind a name does not change it.
LEMMA NameStays ==
  ASSUME NEW text, NEW t, Len(text) \in Nat, \A i \in 1 .. Len(text) : t[i] = text[i],
         NEW s \in Seq(Characters), NEW a \in Nat, NEW b \in Nat, b <= Len(text) + 1,
         IsName(text, a, b, s)
  PROVE  IsName(t, a, b, s)
<1>1. Len(s) \in Nat
  BY LenProperties
<1>2. \A j \in 1 .. Len(s) : a + j \in 1 .. Len(text)
  BY <1>1 DEF IsName
<1> QED
  BY <1>2 DEF IsName

LEMMA InitShow == Init => ShowInv
<1> SUFFICES ASSUME Init PROVE ShowInv
  OBVIOUS
<1>1. IInv
  BY InitInv
<1>2. PICK n \in 0 .. MaxClients :
        /\ old \in [1 .. n -> Addresses]
        /\ \E typed \in [1 .. n -> Users] : new = [i \in 1 .. n |-> StrCpyN(typed[i])]
        /\ login = [i \in 1 .. n |-> "old"]
  BY DEF Init
<1>3. PICK typed \in [1 .. n -> Users] : new = [i \in 1 .. n |-> StrCpyN(typed[i])]
  BY <1>2
<1>4. CleanInv
  <2>1. ASSUME NEW i \in 1 .. n PROVE new[i] # <<>> /\ ~Contains(new[i], Nul)
    <3>1. typed[i] \in Seq(Characters) /\ typed[i] # <<>> /\ ~Contains(typed[i], Nul)
      BY ListingAssumption DEF ListingAssumption
    <3>2. new[i] = StrCpyN(typed[i])
      BY <1>3
    <3> QED
      BY <3>1, <3>2, StrCpyNIsClean, Zenon
  <2>2. ASSUME NEW i \in 1 .. n
        PROVE  old[i] # <<>> /\ ~Contains(old[i], Nul) /\ ~Contains(old[i], Comma)
    BY <1>2, ListingAssumption DEF ListingAssumption
  <2> QED
    BY <1>2, <2>1, <2>2 DEF CleanInv
<1>5. buffer = <<>> /\ pc = "name" /\ turn = 1 /\ from = 0 /\ torn = {} /\ Len(buffer) = 0
  BY DEF Init
<1>6. PlacesInv
  <2>1. PICK ends : ends = [k \in {0} |-> 0]
    OBVIOUS
  <2>2. 0 .. 0 = {0} /\ 1 .. 0 = {}
    OBVIOUS
  <2>3. Marks(ends, buffer, 0) /\ ends[0] = 0
    BY <1>5, <2>1, <2>2 DEF Marks
  <2>4. Text = buffer /\ Done = 0
    BY <1>5 DEF Text, Done
  <2> QED
    BY <1>5, <2>2, <2>3, <2>4 DEF PlacesInv
<1>7. UnderWayInv
  <2>1. Progress = 0 /\ Len(old) \in Nat
    <3>1. PICK m \in Nat : old \in [1 .. m -> Seq(Characters)]
      BY <1>1 DEF IInv, NamesInv
    <3>2. old \in Seq(Seq(Characters))
      BY <3>1, SeqDef
    <3> QED
      BY <1>5, <3>2, LenProperties DEF Progress
  <2>2. turn <= Len(old) => /\ Len(old[turn]) \in Nat /\ login[turn] = "old"
    <3>1. PICK m \in Nat : old \in [1 .. m -> Seq(Characters)]
      BY <1>1 DEF IInv, NamesInv
    <3>2. old \in Seq(Seq(Characters))
      BY <3>1, SeqDef
    <3>3. DOMAIN old = 1 .. Len(old) /\ DOMAIN old = 1 .. n
      BY <1>2, <3>2, LenProperties
    <3> QED
      BY <1>2, <1>5, <2>1, <3>1, <3>3, LenProperties
  <2> QED
    BY <1>5, <2>1, <2>2 DEF UnderWayInv, IsBeginning
<1> QED
  BY <1>4, <1>6, <1>7 DEF ShowInv

\* Where the worker is in a name.
LEMMA WhereItIs ==
  ASSUME IInv
  PROVE  /\ Len(buffer) \in Nat /\ Len(old) \in Nat /\ DOMAIN old = 1 .. Len(old)
         /\ DOMAIN new = DOMAIN old /\ DOMAIN login = DOMAIN old
         /\ turn \in Nat \ {0} /\ from \in Nat
         /\ pc \in {"name", "comma"} => Progress \in Nat /\ Position = Progress + 1
         /\ \A i \in DOMAIN old : old[i] \in Seq(Characters) /\ new[i] \in Seq(Characters)
         /\ \A i \in DOMAIN old : login[i] \in {"old", "copying", "new"}
<1>1. PICK n \in Nat :
        /\ old \in [1 .. n -> Seq(Characters)] /\ new \in [1 .. n -> Seq(Characters)]
        /\ login \in [1 .. n -> {"old", "copying", "new"}]
  BY DEF IInv, NamesInv
<1>2. old \in Seq(Seq(Characters))
  BY <1>1, SeqDef
<1>3. Len(old) \in Nat /\ DOMAIN old = 1 .. Len(old)
  BY <1>2, LenProperties
<1>4. Len(buffer) \in Nat /\ turn \in Nat \ {0} /\ from \in Nat
  BY LenProperties DEF IInv, TypeInv
<1>5. pc \in {"name", "comma"} => from <= Len(buffer)
  BY DEF IInv, SizeInv
<1>6. pc \in {"name", "comma"} => Progress \in Nat /\ Position = Progress + 1
  BY <1>4, <1>5 DEF Progress, Position
<1> QED
  BY <1>1, <1>3, <1>4, <1>6

\* Logins change neither the buffer nor how far it has come; a login of the client
\* under way is noted.
LEMMA ShowLogin ==
  ASSUME IInv, ShowInv, NEW i \in DOMAIN old, StartCopy(i) \/ EndCopy(i)
  PROVE  ShowInv'
<1>1. /\ UNCHANGED <<old, new, pc, turn, from, buffer>>
      /\ torn \subseteq torn' /\ (turn = i /\ login[i] = "old" => turn \in torn')
      /\ \/ login[i] = "old" /\ login' = [login EXCEPT ![i] = "copying"]
         \/ login[i] = "copying" /\ login' = [login EXCEPT ![i] = "new"]
  BY DEF StartCopy, EndCopy, names
<1>2. CleanInv'
  BY <1>1 DEF ShowInv, CleanInv
<1>3. UnderWayInv'
  <2>1. Progress' = Progress /\ Len(old') = Len(old)
    BY <1>1 DEF Progress
  <2>2. \A s : IsBeginning(s)' <=> IsBeginning(s)
    BY <1>1, <2>1 DEF IsBeginning
  <2>3. ASSUME pc \in {"name", "comma"}, turn <= Len(old), turn \notin torn'
        PROVE  /\ login'[turn] = "copying" => Progress = 0 /\ pc = "name"
               /\ login'[turn] = "old" => IsBeginning(old[turn])
               /\ login'[turn] = "new" => IsBeginning(new[turn])
    <3>1. /\ turn \in DOMAIN old /\ turn \notin torn
          /\ login[turn] = "copying" => Progress = 0 /\ pc = "name"
          /\ login[turn] = "old" => IsBeginning(old[turn])
          /\ login[turn] = "new" => IsBeginning(new[turn])
      BY <1>1, <2>3, WhereItIs DEF ShowInv, UnderWayInv
    <3>2. CASE turn # i
      BY <1>1, <3>1, <3>2, WhereItIs
    <3>3. CASE turn = i
      <4>1. login[turn] = "copying" /\ login'[turn] = "new" /\ Progress = 0 /\ pc # "comma"
        BY <1>1, <2>3, <3>1, <3>3, WhereItIs
      <4>2. Len(new[turn]) \in Nat
        BY <3>1, WhereItIs, LenProperties
      <4> QED
        BY <4>1, <4>2 DEF IsBeginning
    <3> QED
      BY <3>2, <3>3
  <2> QED
    BY <1>1, <2>1, <2>2, <2>3 DEF ShowInv, UnderWayInv
<1>4. NoCommas' => PlacesInv'
  BY <1>1 DEF ShowInv, NoCommas, PlacesInv, IsOneOf, Text, Done
<1> QED
  BY <1>2, <1>3, <1>4 DEF ShowInv

\* What strncat finds next in a name that is not torn is its next letter, and its
\* terminator behind it.
LEMMA NextLetter ==
  ASSUME IInv, ShowInv, pc = "name", turn <= Len(old),
         login[turn] # "copying", turn \notin torn
  PROVE  \E s \in {old[turn], new[turn]} :
           /\ s = IF login[turn] = "old" THEN old[turn] ELSE new[turn]
           /\ IsBeginning(s) /\ Letters(turn, Position) = {LetterOf(s, Position)}
<1>1. /\ turn \in DOMAIN old /\ Progress \in Nat /\ Position = Progress + 1
      /\ login[turn] \in {"old", "new"}
  BY WhereItIs
<1>2. CASE login[turn] = "old"
  BY <1>2 DEF ShowInv, UnderWayInv, Letters
<1>3. CASE login[turn] = "new"
  <2>1. IsBeginning(new[turn])
    BY <1>1, <1>3 DEF ShowInv, UnderWayInv
  <2>2. Len(new[turn]) \in Nat
    BY <1>1, WhereItIs, LenProperties
  <2>3. Position <= Len(new[turn]) + 1
    BY <1>1, <2>1, <2>2 DEF IsBeginning
  <2> QED
    BY <1>3, <2>1, <2>3 DEF Letters, After
<1> QED
  BY <1>1, <1>2, <1>3

\* No letter of a name is a comma if no user has one in the name.
LEMMA NoLetterIsComma ==
  ASSUME IInv, ShowInv, NoCommas, NEW i \in DOMAIN old, NEW j \in Nat \ {0}
  PROVE  Comma \notin Letters(i, j)
<1>1. /\ old[i] \in Seq(Characters) /\ ~Contains(old[i], Nul) /\ ~Contains(old[i], Comma)
      /\ new[i] \in Seq(Characters) /\ ~Contains(new[i], Nul) /\ ~Contains(new[i], Comma)
  BY WhereItIs DEF ShowInv, CleanInv, NoCommas
<1>2. LetterOf(old[i], j) # Comma /\ LetterOf(new[i], j) # Comma
  BY <1>1, LetterFacts
<1>3. After(i, j) # Comma
  BY <1>2 DEF After
<1>4. Nul # Comma
  BY ListingAssumption DEF ListingAssumption
<1> QED
  BY <1>2, <1>3, <1>4 DEF Letters

\* A letter of the name under way.
LEMMA ShowLetter ==
  ASSUME IInv, ShowInv, AppendLetter
  PROVE  ShowInv'
<1>1. /\ pc = "name" /\ turn <= Len(old) /\ turn \in DOMAIN old
      /\ UNCHANGED <<old, new, login, pc, turn, from>>
      /\ torn' = IF login[turn] = "copying" THEN torn \cup {turn} ELSE torn
  BY WhereItIs DEF AppendLetter, names
<1>2. PICK x \in Letters(turn, Position) \ {Nul} : buffer' = Append(buffer, x)
  BY DEF AppendLetter
<1>3. Progress \in Nat /\ Position = Progress + 1 /\ Position \in Nat \ {0} /\ Len(buffer) \in Nat /\ from \in Nat
  BY <1>1, WhereItIs
<1>4. x \in Characters /\ x # Nul /\ buffer \in Seq(Characters)
  BY <1>1, <1>2, <1>3, LettersType DEF IInv, TypeInv
<1>5. PICK t : t = Append(buffer, x)
  OBVIOUS
<1>6. buffer' = t
  BY <1>2, <1>5
<1>7. /\ Len(t) = Len(buffer) + 1
      /\ \A i \in 1 .. Len(buffer) : t[i] = buffer[i]
      /\ t[Len(buffer) + 1] = x
  <2>1. /\ Len(Append(buffer, x)) = Len(buffer) + 1
        /\ \A i \in 1 .. Len(buffer) : Append(buffer, x)[i] = buffer[i]
        /\ Append(buffer, x)[Len(buffer) + 1] = x
    BY <1>4, AppendProperties
  <2> QED
    BY <1>5, <2>1, Zenon
<1>8. Progress' = Progress + 1
  BY <1>1, <1>3, <1>6, <1>7 DEF Progress
<1>9. CleanInv' /\ (NoCommas' <=> NoCommas)
  BY <1>1 DEF ShowInv, CleanInv, NoCommas
<1>10. UnderWayInv'
  <2>1. ASSUME turn \notin torn'
        PROVE  /\ login[turn] # "copying"
               /\ login[turn] = "old" => IsBeginning(old[turn])'
               /\ login[turn] = "new" => IsBeginning(new[turn])'
    <3>1. login[turn] # "copying" /\ turn \notin torn
      BY <1>1, <2>1
    <3>2. PICK s \in {old[turn], new[turn]} :
            /\ s = IF login[turn] = "old" THEN old[turn] ELSE new[turn]
            /\ IsBeginning(s) /\ Letters(turn, Position) = {LetterOf(s, Position)}
      BY <1>1, <3>1, NextLetter
    <3>3. x = LetterOf(s, Position) /\ x # Nul
      BY <1>2, <3>2
    <3>4. s \in Seq(Characters) /\ Len(s) \in Nat
      BY <1>1, <3>2, WhereItIs, LenProperties
    <3>5. Position <= Len(s) /\ x = s[Position]
      BY <1>3, <3>3, <3>4 DEF LetterOf
    <3>6. from + Progress = Len(buffer)
      BY <1>3 DEF Progress
    <3>7. \A j \in 1 .. Progress + 1 : t[from + j] = s[j]
      <4> SUFFICES ASSUME NEW j \in 1 .. Progress + 1 PROVE t[from + j] = s[j]
        OBVIOUS
      <4>1. CASE j = Progress + 1
        <5>1. from + j = Len(buffer) + 1 /\ j = Position
          BY <1>3, <3>6, <4>1
        <5> QED
          BY <1>7, <3>5, <5>1
      <4>2. CASE j # Progress + 1
        <5>1. j \in 1 .. Progress /\ from + j \in 1 .. Len(buffer)
          BY <1>3, <3>6, <4>2
        <5> QED
          BY <1>7, <3>2, <5>1 DEF IsBeginning
      <4> QED
        BY <4>1, <4>2
    <3>8. IsBeginning(s)'
      BY <1>1, <1>3, <1>6, <1>8, <3>5, <3>7 DEF IsBeginning
    <3> QED
      BY <1>1, <3>1, <3>2, <3>8
  <2> QED
    BY <1>1, <1>3, <1>8, <2>1 DEF ShowInv, UnderWayInv
<1>11. ASSUME NoCommas PROVE PlacesInv'
  <2>1. x # Comma
    BY <1>1, <1>2, <1>3, <1>11, NoLetterIsComma
  <2>2. PICK done \in Nat : done = turn - 1
    BY <1>1, WhereItIs
  <2>3. Text = buffer /\ Text' = t /\ Done = done /\ Done' = done
    BY <1>1, <1>6, <2>2 DEF Text, Done
  <2>4. PICK ends :
          /\ Marks(ends, buffer, done) /\ ends[done] = from
          /\ \A k \in (1 .. done) \ torn : IsOneOf(buffer, ends[k - 1], ends[k], k)
    BY <1>1, <1>11, <2>3 DEF ShowInv, PlacesInv
  <2>5. Marks(ends, t, done)
    BY <1>4, <1>5, <2>1, <2>4, LetterKeepsMarks
  <2>6. ASSUME NEW k \in (1 .. done) \ torn PROVE IsOneOf(t, ends[k - 1], ends[k], k)
    <3>1. k \in DOMAIN old /\ k - 1 \in 0 .. done /\ k \in 0 .. done
      BY <1>1, <2>2, WhereItIs
    <3>2. PICK s \in {old[k], new[k]} : IsName(buffer, ends[k - 1], ends[k], s)
      BY <2>4, <2>6 DEF IsOneOf
    <3>3. /\ s \in Seq(Characters) /\ ends[k - 1] \in Nat /\ ends[k] \in Nat
          /\ ends[k] <= Len(buffer) + 1
      BY <1>3, <2>4, <3>1, <3>2, WhereItIs DEF Marks
    <3>4. IsName(t, ends[k - 1], ends[k], s)
      BY <1>3, <1>7, <3>2, <3>3, NameStays
    <3> QED
      BY <3>2, <3>4 DEF IsOneOf
  <2>7. torn \subseteq torn'
    BY <1>1
  <2> QED
    BY <1>1, <2>3, <2>4, <2>5, <2>6, <2>7 DEF PlacesInv, IsOneOf
<1> QED
  BY <1>9, <1>10, <1>11 DEF ShowInv

\* The end of a name: it is as long as the name in the array.
LEMMA ShowEnd ==
  ASSUME IInv, ShowInv, EndName
  PROVE  ShowInv'
<1>1. /\ pc = "name" /\ pc' = "comma" /\ turn <= Len(old) /\ turn \in DOMAIN old
      /\ UNCHANGED <<old, new, login, turn, from, buffer>>
      /\ torn' = IF login[turn] = "copying" THEN torn \cup {turn} ELSE torn
      /\ Position > NameSize \/ Nul \in Letters(turn, Position)
  BY WhereItIs DEF EndName, names
<1>2. Progress \in Nat /\ Position = Progress + 1 /\ Progress' = Progress
  BY <1>1, WhereItIs DEF Progress
<1>3. Nul \in Letters(turn, Position)
  <2>1. Progress < NameSize /\ NameSize \in Nat
    BY <1>1, ListingAssumption DEF ListingAssumption, IInv, SizeInv, Progress
  <2> QED
    BY <1>1, <1>2, <2>1
<1>4. /\ old[turn] \in Seq(Characters) /\ ~Contains(old[turn], Nul) /\ old[turn] # <<>>
      /\ new[turn] \in Seq(Characters) /\ ~Contains(new[turn], Nul) /\ new[turn] # <<>>
  BY <1>1, WhereItIs DEF ShowInv, CleanInv
<1>6. CleanInv' /\ (NoCommas' <=> NoCommas)
  BY <1>1 DEF ShowInv, CleanInv, NoCommas
<1>7. UnderWayInv'
  <2>1. ASSUME turn \notin torn'
        PROVE  /\ login[turn] # "copying"
               /\ login[turn] = "old" => IsBeginning(old[turn])'
               /\ login[turn] = "new" => IsBeginning(new[turn])'
    <3>1. login[turn] # "copying" /\ turn \notin torn
      BY <1>1, <2>1
    <3>2. PICK s \in {old[turn], new[turn]} :
            /\ s = IF login[turn] = "old" THEN old[turn] ELSE new[turn]
            /\ IsBeginning(s) /\ Letters(turn, Position) = {LetterOf(s, Position)}
      BY <1>1, <3>1, NextLetter
    <3>3. Len(s) \in Nat /\ Position \in Nat \ {0} /\ Position > Len(s)
      <4>1. s \in Seq(Characters) /\ ~Contains(s, Nul)
        BY <1>4, <3>2
      <4>2. Position \in Nat \ {0} /\ LetterOf(s, Position) = Nul
        BY <1>2, <1>3, <3>2
      <4> QED
        BY <4>1, <4>2, LetterFacts, LenProperties
    <3>4. Progress = Len(s)
      BY <1>2, <3>2, <3>3 DEF IsBeginning
    <3>5. IsBeginning(s)'
      BY <1>1, <1>2, <3>2, <3>4 DEF IsBeginning
    <3> QED
      BY <1>1, <3>1, <3>2, <3>5
  <2> QED
    BY <1>1, <1>2, <2>1 DEF ShowInv, UnderWayInv
<1>8. ASSUME NoCommas PROVE PlacesInv'
  <2>1. Text' = Text /\ Done' = Done /\ torn \subseteq torn'
    BY <1>1 DEF Text, Done
  <2> QED
    BY <1>1, <1>8, <2>1 DEF ShowInv, PlacesInv, IsOneOf
<1> QED
  BY <1>6, <1>7, <1>8 DEF ShowInv

\* The comma behind a name.
LEMMA ShowComma ==
  ASSUME IInv, ShowInv, AppendComma
  PROVE  ShowInv'
<1>1. /\ pc = "comma" /\ pc' = "grow" /\ buffer' = Append(buffer, Comma)
      /\ UNCHANGED <<old, new, login, turn, from, torn>>
      /\ turn <= Len(old) /\ turn \in DOMAIN old /\ turn \in Nat \ {0}
      /\ Len(buffer) \in Nat /\ from \in Nat /\ Progress \in Nat
  BY WhereItIs DEF AppendComma, names, IInv, TypeInv
<1>2. CleanInv' /\ (NoCommas' <=> NoCommas)
  BY <1>1 DEF ShowInv, CleanInv, NoCommas
<1>3. UnderWayInv'
  BY <1>1 DEF UnderWayInv
<1>4. ASSUME NoCommas PROVE PlacesInv'
  <2>1. PICK t : t = Append(buffer, Comma)
    OBVIOUS
  <2>2. PICK done \in Nat : done = turn - 1
    BY <1>1
  <2>3. Text = buffer /\ Text' = t /\ Done = done /\ Done' = done + 1 /\ done + 1 = turn
    BY <1>1, <2>1, <2>2 DEF Text, Done
  <2>4. PICK ends :
          /\ Marks(ends, buffer, done) /\ ends[done] = from
          /\ \A k \in (1 .. done) \ torn : IsOneOf(buffer, ends[k - 1], ends[k], k)
    BY <1>1, <1>4, <2>3 DEF ShowInv, PlacesInv
  <2>5. /\ buffer \in Seq(Characters) /\ Len(t) = Len(buffer) + 1
        /\ \A i \in 1 .. Len(buffer) : t[i] = buffer[i]
    <3>1. buffer \in Seq(Characters) /\ Comma \in Characters
      BY ListingAssumption DEF ListingAssumption, IInv, TypeInv
    <3>2. /\ Len(Append(buffer, Comma)) = Len(buffer) + 1
          /\ \A i \in 1 .. Len(buffer) : Append(buffer, Comma)[i] = buffer[i]
      BY <3>1, AppendProperties
    <3> QED
      BY <2>1, <3>1, <3>2, Zenon
  <2>6. from + Progress = Len(buffer) /\ from <= Len(buffer)
    BY <1>1 DEF Progress
  <2>7. PICK more : more = [k \in 0 .. done + 1 |-> IF k = done + 1 THEN Len(buffer) + 1 ELSE ends[k]]
    OBVIOUS
  <2>8. /\ more \in [0 .. done + 1 -> Nat]
        /\ \A k \in 0 .. done : more[k] = ends[k]
        /\ more[done + 1] = Len(buffer) + 1
    <3>1. \A k \in 0 .. done : ends[k] \in Nat
      BY <1>1, <2>4 DEF Marks
    <3> QED
      BY <1>1, <2>7, <3>1
  <2>9. Marks(more, t, done + 1)
    BY <2>1, <2>4, <2>5, <2>6, <2>8, CommaIsMarked
  <2>10. ASSUME NEW k \in (1 .. done + 1) \ torn PROVE IsOneOf(t, more[k - 1], more[k], k)
    <3>1. k \in DOMAIN old /\ k - 1 \in 0 .. done
      BY <1>1, <2>3, WhereItIs
    <3>2. CASE k = turn
      <4>1. PICK s \in {old[turn], new[turn]} : IsBeginning(s)
        BY <1>1, <2>6, <2>10, <3>2, WhereItIs DEF ShowInv, UnderWayInv
      <4>2. Progress = Len(s) /\ \A j \in 1 .. Len(s) : buffer[from + j] = s[j]
        BY <1>1, <4>1 DEF IsBeginning
      <4>3. more[k - 1] = from /\ more[k] = from + Len(s) + 1
        <5>1. k - 1 = done /\ k = done + 1 /\ done \in 0 .. done
          BY <2>2, <3>2
        <5>2. more[k - 1] = from /\ more[k] = Len(buffer) + 1
          BY <2>4, <2>8, <5>1
        <5>3. from + Len(s) = Len(buffer)
          BY <2>6, <4>2
        <5> QED
          BY <5>2, <5>3
      <4>4. \A j \in 1 .. Len(s) : from + j \in 1 .. Len(buffer)
        BY <1>1, <2>6, <4>2
      <4>5. IsName(t, more[k - 1], more[k], s)
        BY <2>5, <4>2, <4>3, <4>4 DEF IsName
      <4> QED
        BY <3>2, <4>1, <4>5 DEF IsOneOf
    <3>3. CASE k # turn
      <4>1. k \in (1 .. done) \ torn /\ k \in 0 .. done
        BY <2>3, <2>10, <3>3
      <4>2. PICK s \in {old[k], new[k]} : IsName(buffer, ends[k - 1], ends[k], s)
        BY <2>4, <4>1 DEF IsOneOf
      <4>3. /\ s \in Seq(Characters) /\ ends[k - 1] \in Nat /\ ends[k] \in Nat
            /\ ends[k] <= Len(buffer) + 1
        <5>1. s \in Seq(Characters)
          BY <3>1, <4>2, WhereItIs
        <5>2. ends[k - 1] \in 0 .. Len(buffer) /\ ends[k] \in 0 .. Len(buffer)
          BY <2>4, <3>1, <4>1 DEF Marks
        <5> QED
          BY <1>1, <5>1, <5>2
      <4>4. IsName(t, ends[k - 1], ends[k], s)
        BY <1>1, <2>5, <4>2, <4>3, NameStays
      <4>5. more[k - 1] = ends[k - 1] /\ more[k] = ends[k]
        BY <2>8, <3>1, <4>1
      <4> QED
        BY <4>2, <4>4, <4>5 DEF IsOneOf
    <3> QED
      BY <3>2, <3>3
  <2>11. more[done + 1] = Len(t)
    BY <2>5, <2>8
  <2> QED
    BY <1>1, <2>3, <2>9, <2>10, <2>11 DEF PlacesInv, IsOneOf
<1> QED
  BY <1>2, <1>3, <1>4 DEF ShowInv

\* The next client.
LEMMA ShowGrow ==
  ASSUME IInv, ShowInv, Grow
  PROVE  ShowInv'
<1>1. /\ pc = "grow" /\ pc' = "name" /\ turn' = turn + 1 /\ from' = Len(buffer)
      /\ UNCHANGED <<old, new, login, torn, buffer>>
      /\ turn <= Len(old) /\ turn \in Nat \ {0} /\ Len(old) \in Nat
      /\ Len(buffer) \in Nat
  BY WhereItIs DEF Grow, names, IInv, TypeInv
<1>2. CleanInv' /\ (NoCommas' <=> NoCommas)
  BY <1>1 DEF ShowInv, CleanInv, NoCommas
<1>3. UnderWayInv'
  <2>1. Progress' = 0
    BY <1>1 DEF Progress
  <2>2. turn' <= Len(old) => Len(old[turn']) \in Nat /\ Len(new[turn']) \in Nat
    BY <1>1, WhereItIs, LenProperties
  <2> QED
    BY <1>1, <2>1, <2>2 DEF UnderWayInv, IsBeginning
<1>4. ASSUME NoCommas PROVE PlacesInv'
  <2>1. Text' = Text /\ Done' = Done /\ Text = buffer
    BY <1>1 DEF Text, Done
  <2> QED
    BY <1>1, <1>4, <2>1 DEF ShowInv, PlacesInv, IsOneOf
<1> QED
  BY <1>2, <1>3, <1>4 DEF ShowInv

\* The last comma becomes the terminator: it is the comma of the last client.
LEMMA ShowFinish ==
  ASSUME IInv, ShowInv, Finish
  PROVE  ShowInv'
<1>1. /\ pc = "name" /\ UNCHANGED <<old, new, login, turn, from, torn>>
      /\ turn = Len(old) + 1 /\ turn \in Nat \ {0}
      /\ Len(buffer) \in Nat /\ Len(old) \in Nat /\ from = Len(buffer)
  BY WhereItIs DEF Finish, names, ShowInv, UnderWayInv, IInv, SizeInv
<1>2. CleanInv' /\ (NoCommas' <=> NoCommas)
  BY <1>1 DEF ShowInv, CleanInv, NoCommas
<1>3. CASE Contains(buffer, Comma)
  <2>1. buffer' = SubSeq(buffer, 1, Len(buffer) - 1) /\ pc' = "sent"
    BY <1>3 DEF Finish, Undelimited, Front
  <2>2. old # <<>> /\ Len(old) # 0
    <3>1. buffer # <<>>
      BY <1>3, EmptySeq DEF Contains
    <3>2. old # <<>>
      BY <3>1 DEF IInv, CommaInv
    <3>3. turn # 1 \/ Len(old) = 0
      BY <1>1
    <3>4. old \in Seq(Seq(Characters))
      BY SeqDef DEF IInv, NamesInv
    <3> QED
      BY <3>2, <3>4, EmptySeq
  <2>3. UnderWayInv'
    BY <1>1, <2>1, <2>2 DEF UnderWayInv
  <2>4. ASSUME NoCommas PROVE PlacesInv'
    <3>1. PICK done \in Nat : done = Len(old)
      BY <1>1
    <3>2. Text = buffer /\ Done = done /\ Done' = done /\ Text' = Append(buffer', Comma) /\ done # 0
      BY <1>1, <2>1, <2>2, <3>1 DEF Text, Done
    <3>3. PICK ends :
            /\ Marks(ends, buffer, done) /\ ends[done] = Len(buffer)
            /\ \A k \in (1 .. done) \ torn : IsOneOf(buffer, ends[k - 1], ends[k], k)
      BY <1>1, <2>4, <3>2 DEF ShowInv, PlacesInv
    <3>4. buffer[Len(buffer)] = Comma /\ Len(buffer) >= 1
      <4>1. done \in 1 .. done
        BY <3>2
      <4>2. ends[done] \in {j \in 1 .. Len(buffer) : buffer[j] = Comma}
        BY <3>3, <4>1 DEF Marks
      <4> QED
        BY <3>3, <4>2
    <3>5. Append(buffer', Comma) = buffer
      <4>1. buffer \in Seq(Characters) /\ Comma \in Characters
        BY ListingAssumption DEF ListingAssumption, IInv, TypeInv
      <4>2. PICK m \in Nat : m = Len(buffer) - 1
        BY <1>1, <3>4
      <4>3. \A i \in 1 .. m : buffer[i] \in Characters
        BY <1>1, <4>1, <4>2, ElementOfSeq
      <4> DEFINE p == SubSeq(buffer, 1, m)
      <4>4. /\ p \in Seq(Characters) /\ Len(p) = m
            /\ \A i \in 1 .. m : p[i] = buffer[i]
        <5>1. SubSeq(buffer, 1, m) \in Seq(Characters) /\ Len(SubSeq(buffer, 1, m)) = m
          BY <4>3, PrefixFacts
        <5>2. \A i \in 1 .. m - 1 + 1 : SubSeq(buffer, 1, m)[i] = buffer[1 + i - 1]
          BY <4>3, SubSeqProperties
        <5>3. \A i \in 1 .. m : i \in 1 .. m - 1 + 1 /\ 1 + i - 1 = i
          OBVIOUS
        <5> QED
          BY <5>1, <5>2, <5>3
      <4> HIDE DEF p
      <4>5. /\ Append(p, Comma) \in Seq(Characters) /\ Len(Append(p, Comma)) = m + 1
            /\ \A i \in 1 .. m : Append(p, Comma)[i] = p[i]
            /\ Append(p, Comma)[m + 1] = Comma
        BY <4>1, <4>4, AppendProperties
      <4> DEFINE q == Append(p, Comma)
      <4> HIDE DEF q
      <4>6. /\ q \in Seq(Characters) /\ Len(q) = m + 1 /\ q[m + 1] = Comma
            /\ \A i \in 1 .. m : q[i] = p[i]
        BY <4>5 DEF q
      <4>7. Len(q) = Len(buffer) /\ \A i \in 1 .. Len(buffer) : q[i] = buffer[i]
        BY <1>1, <3>4, <4>2, <4>4, <4>6
      <4>8. q = buffer
        BY <4>1, <4>6, <4>7, SeqEqual
      <4>9. buffer' = p
        BY <2>1, <4>2, Zenon DEF p
      <4> QED
        BY <4>8, <4>9, Zenon DEF q
    <3>6. Text' = buffer
      BY <3>2, <3>5, Zenon
    <3>7. Marks(ends, Text', Done') /\ ends[Done'] = Len(Text')
      BY <3>2, <3>3, <3>6, Zenon
    <3>8. \A k \in (1 .. Done') \ torn' :
            \E s \in {old'[k], new'[k]} : IsName(Text', ends[k - 1], ends[k], s)
      <4>1. \A k \in (1 .. done) \ torn : IsOneOf(buffer, ends[k - 1], ends[k], k)
        BY <3>3
      <4>2. torn' = torn /\ old' = old /\ new' = new
        BY <1>1
      <4>3. \A k \in (1 .. done) \ torn :
              \E s \in {old[k], new[k]} : IsName(buffer, ends[k - 1], ends[k], s)
        BY <4>1 DEF IsOneOf
      <4> QED
        BY <3>2, <3>6, <4>2, <4>3, Zenon
    <3>9. pc' \notin {"name", "comma"}
      BY <2>1
    <3> QED
      BY <3>7, <3>8, <3>9, Zenon DEF PlacesInv, IsOneOf
  <2> QED
    BY <1>2, <2>3, <2>4 DEF ShowInv
<1>4. CASE ~Contains(buffer, Comma)
  <2>1. buffer' = buffer /\ pc' = "crashed"
    BY <1>4 DEF Finish
  <2>2. UnderWayInv'
    BY <2>1 DEF UnderWayInv
  <2>3. ASSUME NoCommas PROVE PlacesInv'
    <3>1. Text' = Text /\ Done' = Done /\ Text = buffer
      BY <1>1, <2>1 DEF Text, Done
    <3> QED
      BY <1>1, <2>1, <2>3, <3>1 DEF ShowInv, PlacesInv, IsOneOf
  <2> QED
    BY <1>2, <2>2, <2>3 DEF ShowInv
<1> QED
  BY <1>3, <1>4

LEMMA StepShow == IInv /\ ShowInv /\ [Next]_vars => ShowInv'
<1> SUFFICES ASSUME IInv, ShowInv, [Next]_vars PROVE ShowInv'
  OBVIOUS
<1>1. ASSUME NEW i \in DOMAIN old, StartCopy(i) \/ EndCopy(i) PROVE ShowInv'
  BY <1>1, ShowLogin
<1>2. CASE UNCHANGED vars
  BY <1>2 DEF vars, names, ShowInv, CleanInv, UnderWayInv, IsBeginning, Progress,
              NoCommas, PlacesInv, IsOneOf, Text, Done
<1> QED
  BY <1>1, <1>2, ShowLetter, ShowEnd, ShowComma, ShowGrow, ShowFinish DEF Next

LEMMA ShowInvariance == Spec => [](IInv /\ ShowInv)
<1>1. Init => IInv /\ ShowInv
  BY InitInv, InitShow
<1>2. IInv /\ ShowInv /\ [Next]_vars => (IInv /\ ShowInv)'
  BY StepInv, StepShow
<1> QED
  BY <1>1, <1>2, PTL DEF Spec

\* What is cut out between two commas is the name that is there.
LEMMA CutOutIsName ==
  ASSUME NEW text \in Seq(Characters), NEW s \in Seq(Characters),
         NEW a \in Nat, NEW b \in Nat, b <= Len(text) + 1,
         IsName(Append(text, Comma), a, b, s)
  PROVE  SubSeq(text, a + 1, b - 1) = s
<1>1. PICK m \in Nat : m = Len(s)
  BY LenProperties
<1>2. PICK e \in Int : e = b - 1
  OBVIOUS
<1>3. PICK l \in Nat : l = Len(text)
  BY LenProperties
<1>4. b = a + m + 1 /\ e = a + m /\ a + m <= l
  BY <1>1, <1>2, <1>3 DEF IsName
<1>5. \A j \in 1 .. m : text[a + j] = s[j] /\ text[a + j] \in Characters
  <2> SUFFICES ASSUME NEW j \in 1 .. m PROVE text[a + j] = s[j] /\ text[a + j] \in Characters
    OBVIOUS
  <2>1. a + j \in 1 .. Len(text)
    BY <1>3, <1>4
  <2>2. Append(text, Comma)[a + j] = text[a + j]
    <3>1. Comma \in Characters
      BY ListingAssumption DEF ListingAssumption
    <3> QED
      BY <2>1, <3>1, AppendProperties
  <2>3. Append(text, Comma)[a + j] = s[j]
    BY <1>1 DEF IsName
  <2> QED
    BY <2>1, <2>2, <2>3, ElementOfSeq
<1> DEFINE p == SubSeq(text, a + 1, e)
<1>6. p \in Seq(Characters) /\ Len(p) = m /\ \A j \in 1 .. m : p[j] = text[a + j]
  <2>1. PICK f \in Int : f = a + 1
    OBVIOUS
  <2>2. \A i \in f .. e : text[i] \in Characters
    <3> SUFFICES ASSUME NEW i \in f .. e PROVE text[i] \in Characters
      OBVIOUS
    <3>1. i - a \in 1 .. m /\ a + (i - a) = i
      BY <1>4, <2>1
    <3> QED
      BY <1>5, <3>1
  <2>3. /\ SubSeq(text, f, e) \in Seq(Characters)
        /\ Len(SubSeq(text, f, e)) = IF f <= e THEN e - f + 1 ELSE 0
        /\ \A i \in 1 .. e - f + 1 : SubSeq(text, f, e)[i] = text[f + i - 1]
    BY <2>2, SubSeqProperties
  <2>4. \A i \in 1 .. m : i \in 1 .. e - f + 1 /\ f + i - 1 = a + i
    BY <1>4, <2>1
  <2>5. (IF f <= e THEN e - f + 1 ELSE 0) = m
    BY <1>4, <2>1
  <2>6. p = SubSeq(text, f, e)
    BY <2>1, Zenon
  <2>7. /\ SubSeq(text, f, e) \in Seq(Characters) /\ Len(SubSeq(text, f, e)) = m
        /\ \A j \in 1 .. m : SubSeq(text, f, e)[j] = text[a + j]
    BY <2>3, <2>4, <2>5
  <2> QED
    BY <2>6, <2>7, Zenon
<1> HIDE DEF p
<1>7. p = s
  BY <1>1, <1>5, <1>6, SeqEqual
<1> QED
  BY <1>2, <1>7, Zenon DEF p

LEMMA ShowsWhatItHas == IInv /\ ShowInv => ShowsTheList
<1> SUFFICES ASSUME IInv, ShowInv PROVE ShowsTheList
  OBVIOUS
<1>1. pc = "crashed" => old = <<>>
  BY DEF IInv, CommaInv
<1>2. ASSUME pc = "sent", NoCommas
      PROVE  /\ Len(Split(buffer)) <= Len(old)
             /\ \A i \in DOMAIN old \ torn :
                  i \in DOMAIN Split(buffer) /\ Split(buffer)[i] \in {old[i], new[i]}
  <2>1. PICK n \in Nat \ {0} : n = Len(old) /\ turn - 1 = n
    <3>1. Len(old) \in Nat /\ Len(old) # 0 /\ turn = Len(old) + 1
      <4>1. old \in Seq(Seq(Characters))
        BY SeqDef DEF IInv, NamesInv
      <4> QED
        BY <1>2, <4>1, EmptySeq, LenProperties DEF ShowInv, UnderWayInv
    <3> QED
      BY <3>1
  <2>2. buffer \in Seq(Characters) /\ Len(buffer) \in Nat /\ Len(Append(buffer, Comma)) = Len(buffer) + 1
    <3>1. buffer \in Seq(Characters) /\ Comma \in Characters
      BY ListingAssumption DEF ListingAssumption, IInv, TypeInv
    <3> QED
      BY <3>1, LenProperties, AppendProperties
  <2>3. Done = n /\ Text = Append(buffer, Comma)
    BY <1>2, <2>1 DEF Done, Text
  <2>4. PICK ends :
          /\ Marks(ends, Append(buffer, Comma), n) /\ ends[n] = Len(buffer) + 1
          /\ \A k \in (1 .. n) \ torn : IsOneOf(Append(buffer, Comma), ends[k - 1], ends[k], k)
    <3>1. PICK ends :
            /\ Marks(ends, Text, n) /\ ends[n] = Len(Text)
            /\ \A k \in (1 .. n) \ torn : IsOneOf(Text, ends[k - 1], ends[k], k)
      BY <1>2, <2>3 DEF ShowInv, PlacesInv
    <3>2. Marks(ends, Append(buffer, Comma), n)
      BY <2>3, <3>1, Zenon
    <3>3. ends[n] = Len(buffer) + 1
      BY <2>2, <2>3, <3>1
    <3>4. \A k \in (1 .. n) \ torn : IsOneOf(Append(buffer, Comma), ends[k - 1], ends[k], k)
      BY <2>3, <3>1, Zenon
    <3> QED
      BY <3>2, <3>3, <3>4, Zenon
  <2>5. /\ Len(Split(buffer)) \in Nat /\ Len(Split(buffer)) <= n
        /\ DOMAIN Split(buffer) = 1 .. Len(Split(buffer))
        /\ \A k \in 1 .. n :
             SubSeq(buffer, ends[k - 1] + 1, ends[k] - 1) # <<>> =>
               /\ k <= Len(Split(buffer))
               /\ Split(buffer)[k] = SubSeq(buffer, ends[k - 1] + 1, ends[k] - 1)
    BY <2>2, <2>4, SplitFacts
  <2>6. ASSUME NEW k \in DOMAIN old \ torn
        PROVE  k \in DOMAIN Split(buffer) /\ Split(buffer)[k] \in {old[k], new[k]}
    <3>1. k \in 1 .. n /\ k \in 0 .. n /\ k - 1 \in 0 .. n /\ k \in DOMAIN old
      BY <2>1, WhereItIs
    <3>2. PICK s \in {old[k], new[k]} : IsName(Append(buffer, Comma), ends[k - 1], ends[k], s)
      BY <2>4, <2>6, <3>1 DEF IsOneOf
    <3>3. s \in Seq(Characters) /\ s # <<>>
      BY <3>1, <3>2, WhereItIs DEF ShowInv, CleanInv
    <3>4. ends[k - 1] \in Nat /\ ends[k] \in Nat /\ ends[k] <= Len(buffer) + 1
      <4>1. \A i \in 0 .. n : ends[i] \in 0 .. Len(buffer) + 1
        BY <2>2, <2>4 DEF Marks
      <4> QED
        BY <2>2, <3>1, <4>1
    <3>5. SubSeq(buffer, ends[k - 1] + 1, ends[k] - 1) = s
      BY <2>2, <3>2, <3>3, <3>4, CutOutIsName
    <3>6. /\ k <= Len(Split(buffer))
          /\ Split(buffer)[k] = SubSeq(buffer, ends[k - 1] + 1, ends[k] - 1)
      BY <2>5, <3>1, <3>3, <3>5, Zenon
    <3>7. k \in DOMAIN Split(buffer)
      <4>1. PICK l \in Nat : l = Len(Split(buffer))
        BY <2>5
      <4>2. DOMAIN Split(buffer) = 1 .. l /\ k <= l
        BY <2>5, <3>6, <4>1, Zenon
      <4> QED
        BY <3>1, <4>2
    <3>8. Split(buffer)[k] = s
      BY <3>5, <3>6, Zenon
    <3> QED
      BY <3>2, <3>7, <3>8, Zenon
  <2> QED
    BY <2>1, <2>5, <2>6
<1> QED
  BY <1>1, <1>2 DEF ShowsTheList, NoCommas

\* For every list and any names, however listeners write the names while the
\* worker reads them: if no user has a comma in the name, ReadThread.parseLine
\* makes no more users of the listing than the list has clients, and each client
\* whose name was not copied while it was read is shown at its own place, under its
\* address or the name it logs in with; and the listing fails only when the list
\* is empty.
THEOREM ListingIsWhatIsShown == Spec => []ShowsTheList
  BY ShowInvariance, ShowsWhatItHas, PTL
=============================================================================
