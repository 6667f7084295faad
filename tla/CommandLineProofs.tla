-------------------------- MODULE CommandLineProofs --------------------------
(* Proofs about CommandLine for any words, commands, lines and buffer.     *)
EXTENDS CommandLine, SequenceTheorems, FiniteSetTheorems, WellFoundedInduction, TLAPS

Letters == Words \cup {Space}

\* What is on a line, and which line is entered when, does not matter here.
LEMMA Constants ==
  /\ Slashed \subseteq Words
  /\ \A w \in Words : Opens[w] # {} => w \in Slashed
  /\ Space \notin Words /\ Newline \notin Words /\ NULL \notin Words /\ Space # Newline
  /\ \A l \in Lines : IsLine(l)
  /\ BuffSize \in Nat /\ Room \in Nat /\ Room >= 1 /\ Room = BuffSize - 1
<1>1. BuffSize \in Nat \ {0, 1}
  BY CommandAssumption DEF CommandAssumption
<1>2. Room \in Nat /\ Room >= 1
  BY <1>1 DEF Room
<1> QED
  BY <1>1, <1>2, CommandAssumption DEF CommandAssumption, Room

-----------------------------------------------------------------------------
(* The first place of a sequence: what strtok_r and strcspn look for.      *)

LEMMA LessIsWellFounded == IsWellFoundedOn({p \in Nat \X Nat : p[1] < p[2]}, Nat)
<1>1. OpToRel(<, Nat) = {p \in Nat \X Nat : p[1] < p[2]}
  BY DEF OpToRel
<1> QED
  BY <1>1, NatLessThanWellFounded

LEMMA Smallest ==
  ASSUME NEW I \in SUBSET Nat, I # {}
  PROVE  Min(I) \in I /\ \A j \in I : Min(I) <= j
<1> DEFINE R == {p \in Nat \X Nat : p[1] < p[2]}
<1>1. \E x \in I : \A y \in I : ~(<<y, x>> \in R)
  <2> HIDE DEF R
  <2> QED
    BY LessIsWellFounded, WFMin DEF R
<1>2. PICK x \in I : \A y \in I : ~(<<y, x>> \in R)
  BY <1>1
<1>3. \A y \in I : x \in Nat /\ y \in Nat /\ ~(y < x)
  BY <1>2
<1>4. \A y \in I : x <= y
  BY <1>3
<1> QED
  BY <1>2, <1>4 DEF Min

\* strtok_r skips the spaces in front of a word.
LEMMA FirstFacts ==
  ASSUME NEW S, NEW s \in Seq(S)
  PROVE  /\ FirstWord(s) = 0 => \A i \in 1 .. Len(s) : s[i] = Space
         /\ FirstWord(s) # 0 =>
              /\ FirstWord(s) \in 1 .. Len(s) /\ s[FirstWord(s)] # Space
              /\ \A i \in 1 .. FirstWord(s) - 1 : s[i] = Space
<1> DEFINE I == {i \in 1 .. Len(s) : s[i] # Space}
<1>1. FirstWord(s) = IF I # {} THEN Min(I) ELSE 0
  BY DEF FirstWord, SelectInSeq
<1>2. Len(s) \in Nat
  BY LenProperties
<1>3. I # {} => Min(I) \in I /\ \A j \in I : Min(I) <= j
  <2>1. I \in SUBSET Nat
    BY <1>2
  <2> QED
    BY <2>1, Smallest
<1>4. CASE I = {}
  <2>1. FirstWord(s) = 0
    BY <1>1, <1>4
  <2> QED
    BY <1>4, <2>1
<1>5. CASE I # {}
  <2>1. PICK f \in I : f = Min(I)
    BY <1>3, <1>5
  <2>2. FirstWord(s) = f
    BY <1>1, <1>5, <2>1
  <2>3. \A i \in 1 .. f - 1 : i \notin I /\ i \in 1 .. Len(s)
    BY <1>2, <1>3, <1>5, <2>1
  <2> QED
    BY <1>2, <2>1, <2>2, <2>3
<1> QED
  BY <1>4, <1>5

\* There is one first word.
LEMMA FirstIs ==
  ASSUME NEW S, NEW s \in Seq(S), NEW k \in 1 .. Len(s), s[k] # Space,
         \A i \in 1 .. k - 1 : s[i] = Space
  PROVE  FirstWord(s) = k
<1>1. Len(s) \in Nat
  BY LenProperties
<1>2. FirstWord(s) # 0
  BY FirstFacts
<1>3. PICK f \in 1 .. Len(s) : f = FirstWord(s)
  BY <1>2, FirstFacts
<1>4. s[f] # Space /\ \A i \in 1 .. f - 1 : s[i] = Space
  BY <1>2, <1>3, FirstFacts
<1>5. ~(f < k)
  BY <1>1, <1>4
<1>6. ~(k < f)
  BY <1>1, <1>4
<1> QED
  BY <1>1, <1>3, <1>5, <1>6

\* The client's newline is the last thing of what fgets returns, or not in it.
LEMMA SpanFacts ==
  ASSUME NEW S, NEW s \in Seq(S), \A i \in 1 .. Len(s) - 1 : s[i] # Newline
  PROVE  StrCSpn(s) = IF Len(s) # 0 /\ s[Len(s)] = Newline THEN Len(s) - 1 ELSE Len(s)
<1> DEFINE I == {i \in 1 .. Len(s) : s[i] = Newline}
<1>1. StrCSpn(s) = IF (IF I # {} THEN Min(I) ELSE 0) = 0 THEN Len(s)
                   ELSE (IF I # {} THEN Min(I) ELSE 0) - 1
  BY DEF StrCSpn, SelectInSeq
<1>2. Len(s) \in Nat
  BY LenProperties
<1>3. I # {} => Min(I) \in I
  <2>1. I \in SUBSET Nat
    BY <1>2
  <2> QED
    BY <2>1, Smallest
<1>4. \A i \in I : i = Len(s)
  BY <1>2
<1>5. CASE I = {}
  BY <1>1, <1>2, <1>5
<1>6. CASE I # {}
  <2>1. Min(I) = Len(s) /\ Len(s) \in I
    BY <1>3, <1>4, <1>6
  <2>2. Len(s) # 0 /\ s[Len(s)] = Newline
    <3>1. Len(s) \in 1 .. Len(s) /\ s[Len(s)] = Newline
      BY <2>1, Zenon
    <3> QED
      BY <1>2, <3>1
  <2>3. (IF I # {} THEN Min(I) ELSE 0) = Len(s)
    BY <1>6, <2>1, Zenon
  <2> HIDE DEF I
  <2>4. StrCSpn(s) = Len(s) - 1
    BY <1>1, <2>2, <2>3
  <2> QED
    BY <2>2, <2>4
<1> QED
  BY <1>5, <1>6

-----------------------------------------------------------------------------
(* Parts of lines.                                                         *)

LEMMA LineFacts ==
  ASSUME NEW s, IsLine(s)
  PROVE  /\ s \in Seq(Letters) /\ Len(s) \in Nat /\ DOMAIN s = 1 .. Len(s)
         /\ \A i \in 1 .. Len(s) : s[i] \in Letters
         /\ \A i \in 1 .. Len(s) - 1 : s[i] = Space \/ s[i + 1] = Space
         /\ s = <<>> <=> Len(s) = 0
<1>1. s \in Seq(Letters)
  BY DEF IsLine, Letters
<1> QED
  BY <1>1, LenProperties, ElementOfSeq, EmptySeq DEF IsLine

LEMMA PartFacts ==
  ASSUME NEW S, NEW s, NEW m \in Int, NEW n \in Int, \A i \in m .. n : s[i] \in S,
         NEW t, t = SubSeq(s, m, n)
  PROVE  /\ t \in Seq(S)
         /\ Len(t) = IF m <= n THEN n - m + 1 ELSE 0
         /\ \A i \in 1 .. n - m + 1 : t[i] = s[m + i - 1]
<1>1. /\ SubSeq(s, m, n) \in Seq(S)
      /\ Len(SubSeq(s, m, n)) = IF m <= n THEN n - m + 1 ELSE 0
      /\ \A i \in 1 .. n - m + 1 : SubSeq(s, m, n)[i] = s[m + i - 1]
  BY SubSeqProperties
<1> QED
  BY <1>1, Zenon

\* A part of a line is a line.
LEMMA PartOfLine ==
  ASSUME NEW s, IsLine(s), NEW m \in Nat \ {0}, NEW n \in Nat, n <= Len(s)
  PROVE  /\ IsLine(SubSeq(s, m, n))
         /\ Len(SubSeq(s, m, n)) = IF m <= n THEN n - m + 1 ELSE 0
         /\ \A i \in 1 .. Len(SubSeq(s, m, n)) : SubSeq(s, m, n)[i] = s[m + i - 1]
<1>1. Len(s) \in Nat
  BY LineFacts
<1>2. \A i \in m .. n : s[i] \in Letters
  BY <1>1, LineFacts
<1>3. /\ SubSeq(s, m, n) \in Seq(Letters)
      /\ Len(SubSeq(s, m, n)) = IF m <= n THEN n - m + 1 ELSE 0
      /\ \A i \in 1 .. n - m + 1 : SubSeq(s, m, n)[i] = s[m + i - 1]
  BY <1>2, SubSeqProperties
<1> DEFINE t == SubSeq(s, m, n)
<1>4. \A i \in 1 .. Len(t) : t[i] = s[m + i - 1]
  BY <1>3
<1>5. \A i \in 1 .. Len(t) - 1 : t[i] = Space \/ t[i + 1] = Space
  <2> SUFFICES ASSUME NEW i \in 1 .. Len(t) - 1 PROVE t[i] = Space \/ t[i + 1] = Space
    OBVIOUS
  <2>1. i \in 1 .. Len(t) /\ i + 1 \in 1 .. Len(t) /\ m + i - 1 \in 1 .. Len(s) - 1
        /\ m + (i + 1) - 1 = (m + i - 1) + 1
    BY <1>1, <1>3
  <2> QED
    BY <1>4, <2>1, LineFacts
<1> QED
  BY <1>3, <1>4, <1>5 DEF IsLine, Letters

\* The first word and what strtok_r leaves behind it.
LEMMA TokenFacts ==
  ASSUME NEW s, IsLine(s)
  PROVE  /\ FirstWord(s) = 0 <=> IsBlank(s)
         /\ FirstWord(s) = 0 => Token(s) = NULL /\ Rest(s) = <<>>
         /\ FirstWord(s) # 0 =>
              /\ FirstWord(s) \in 1 .. Len(s) /\ s[FirstWord(s)] \in Words
              /\ Token(s) = s[FirstWord(s)] /\ Token(s) # NULL
              /\ FirstWord(s) < Len(s) => s[FirstWord(s) + 1] = Space
              /\ \A i \in 1 .. FirstWord(s) - 1 : s[i] = Space
<1>1. /\ s \in Seq(Letters) /\ Len(s) \in Nat /\ DOMAIN s = 1 .. Len(s)
      /\ \A i \in 1 .. Len(s) : s[i] \in Letters
      /\ \A i \in 1 .. Len(s) - 1 : s[i] = Space \/ s[i + 1] = Space
  BY LineFacts
<1>2. /\ FirstWord(s) = 0 => \A i \in 1 .. Len(s) : s[i] = Space
      /\ FirstWord(s) # 0 =>
           /\ FirstWord(s) \in 1 .. Len(s) /\ s[FirstWord(s)] # Space
           /\ \A i \in 1 .. FirstWord(s) - 1 : s[i] = Space
  BY <1>1, FirstFacts
<1>3. CASE FirstWord(s) = 0
  BY <1>1, <1>2, <1>3 DEF IsBlank, Token, Rest
<1>4. CASE FirstWord(s) # 0
  <2>1. PICK f \in 1 .. Len(s) : f = FirstWord(s)
    BY <1>2, <1>4
  <2>2. s[f] # Space /\ s[f] \in Words /\ s[f] # NULL /\ ~IsBlank(s)
    BY <1>1, <1>2, <1>4, <2>1, Constants DEF Letters, IsBlank
  <2>3. Token(s) = s[f]
    BY <1>4, <2>1 DEF Token
  <2>4. f < Len(s) => s[f + 1] = Space
    <3>1. f < Len(s) => f \in 1 .. Len(s) - 1
      BY <1>1
    <3> QED
      BY <1>1, <2>2, <3>1
  <2> QED
    BY <1>2, <1>4, <2>1, <2>2, <2>3, <2>4
<1> QED
  BY <1>3, <1>4

LEMMA RestFacts ==
  ASSUME NEW s, IsLine(s)
  PROVE  /\ IsLine(Rest(s))
         /\ FirstWord(s) # 0 =>
              /\ Len(Rest(s)) = IF FirstWord(s) + 2 <= Len(s) THEN Len(s) - FirstWord(s) - 1 ELSE 0
              /\ \A i \in 1 .. Len(Rest(s)) : Rest(s)[i] = s[FirstWord(s) + 1 + i]
<1>1. CASE FirstWord(s) = 0
  <2>1. Rest(s) = <<>>
    BY <1>1 DEF Rest
  <2>2. IsLine(<<>>)
    BY EmptySeq DEF IsLine
  <2> QED
    BY <1>1, <2>1, <2>2, Zenon
<1>2. CASE FirstWord(s) # 0
  <2>1. PICK f \in 1 .. Len(s) : f = FirstWord(s)
    BY <1>2, TokenFacts
  <2>2. Len(s) \in Nat /\ f + 2 \in Nat \ {0} /\ f \in Nat
    BY LineFacts
  <2>3. /\ IsLine(SubSeq(s, f + 2, Len(s)))
        /\ Len(SubSeq(s, f + 2, Len(s))) = IF f + 2 <= Len(s) THEN Len(s) - (f + 2) + 1 ELSE 0
        /\ \A i \in 1 .. Len(SubSeq(s, f + 2, Len(s))) :
             SubSeq(s, f + 2, Len(s))[i] = s[f + 2 + i - 1]
    BY <2>2, PartOfLine
  <2> DEFINE r == SubSeq(s, f + 2, Len(s))
  <2>4. Rest(s) = r
    BY <1>2, <2>1 DEF Rest
  <2> HIDE DEF r
  <2>5. Len(r) = IF f + 2 <= Len(s) THEN Len(s) - f - 1 ELSE 0
    BY <2>2, <2>3 DEF r
  <2>6. Len(r) \in Nat /\ \A i \in 1 .. Len(r) : f + 2 + i - 1 = f + 1 + i
    BY <2>2, <2>5
  <2>7. \A i \in 1 .. Len(r) : r[i] = s[f + 1 + i]
    BY <2>3, <2>6 DEF r
  <2>8. IsLine(r)
    BY <2>3 DEF r
  <2> QED
    BY <1>2, <2>1, <2>4, <2>5, <2>7, <2>8, Zenon
<1> QED
  BY <1>1, <1>2

-----------------------------------------------------------------------------
(* The grammar of the commands.                                            *)

LEMMA BlanksWordRest ==
  ASSUME NEW p \in Seq(Letters), NEW r \in Seq(Letters), NEW w \in Letters
  PROVE  /\ p \o <<w, Space>> \o r \in Seq(Letters)
         /\ Len(p) \in Nat /\ Len(r) \in Nat
         /\ Len(p \o <<w, Space>> \o r) = Len(p) + 2 + Len(r)
         /\ \A i \in 1 .. Len(p) : (p \o <<w, Space>> \o r)[i] = p[i]
         /\ (p \o <<w, Space>> \o r)[Len(p) + 1] = w
         /\ (p \o <<w, Space>> \o r)[Len(p) + 2] = Space
         /\ \A i \in 1 .. Len(r) : (p \o <<w, Space>> \o r)[Len(p) + 2 + i] = r[i]
<1> DEFINE q == <<w, Space>>
<1>1. q \in Seq(Letters) /\ Len(q) = 2 /\ q[1] = w /\ q[2] = Space
  BY DEF Letters
<1>2. Len(p) \in Nat /\ Len(r) \in Nat
  BY LenProperties
<1> HIDE DEF q
<1> DEFINE a == p \o q
<1>3. /\ a \in Seq(Letters) /\ Len(a) = Len(p) + 2
      /\ \A i \in 1 .. Len(p) + 2 : a[i] = IF i <= Len(p) THEN p[i] ELSE q[i - Len(p)]
  <2>1. /\ a \in Seq(Letters) /\ Len(a) = Len(p) + Len(q)
        /\ \A i \in 1 .. Len(p) + Len(q) : a[i] = IF i <= Len(p) THEN p[i] ELSE q[i - Len(p)]
    BY <1>1, ConcatProperties, Zenon
  <2> HIDE DEF a
  <2> QED
    BY <1>1, <2>1
<1> HIDE DEF a
<1> DEFINE b == a \o r
<1>4. /\ b \in Seq(Letters) /\ Len(b) = Len(p) + 2 + Len(r)
      /\ \A i \in 1 .. Len(p) + 2 + Len(r) :
           b[i] = IF i <= Len(p) + 2 THEN a[i] ELSE r[i - (Len(p) + 2)]
  <2>1. /\ b \in Seq(Letters) /\ Len(b) = Len(a) + Len(r)
        /\ \A i \in 1 .. Len(a) + Len(r) : b[i] = IF i <= Len(a) THEN a[i] ELSE r[i - Len(a)]
    <3>1. a \in Seq(Letters)
      BY <1>3
    <3> QED
      BY <3>1, ConcatProperties
  <2> HIDE DEF b
  <2> QED
    BY <1>3, <2>1
<1> HIDE DEF b
<1>5. \A i \in 1 .. Len(p) : b[i] = p[i]
  BY <1>2, <1>3, <1>4
<1>6. b[Len(p) + 1] = w /\ b[Len(p) + 2] = Space
  <2>1. a[Len(p) + 1] = q[Len(p) + 1 - Len(p)] /\ a[Len(p) + 2] = q[Len(p) + 2 - Len(p)]
    BY <1>2, <1>3
  <2>2. Len(p) + 1 - Len(p) = 1 /\ Len(p) + 2 - Len(p) = 2
    BY <1>2
  <2>3. b[Len(p) + 1] = a[Len(p) + 1] /\ b[Len(p) + 2] = a[Len(p) + 2]
    BY <1>2, <1>4
  <2> QED
    BY <1>1, <2>1, <2>2, <2>3
<1>7. \A i \in 1 .. Len(r) : b[Len(p) + 2 + i] = r[i]
  <2> SUFFICES ASSUME NEW i \in 1 .. Len(r) PROVE b[Len(p) + 2 + i] = r[i]
    OBVIOUS
  <2>1. Len(p) + 2 + i \in 1 .. Len(p) + 2 + Len(r) /\ ~(Len(p) + 2 + i <= Len(p) + 2)
        /\ Len(p) + 2 + i - (Len(p) + 2) = i
    BY <1>2
  <2> QED
    BY <1>4, <2>1
<1> QED
  BY <1>2, <1>4, <1>5, <1>6, <1>7 DEF a, b, q

\* A line is blank, a word, a space and something exactly when that is how
\* strtok_r takes it apart.
LEMMA AfterFacts ==
  ASSUME NEW s, IsLine(s), NEW w \in Words, NEW r \in Seq(Letters)
  PROVE  IsAfter(s, w, r) <=>
           /\ FirstWord(s) # 0 /\ FirstWord(s) < Len(s)
           /\ w = s[FirstWord(s)] /\ r = Rest(s)
<1>1. /\ s \in Seq(Letters) /\ Len(s) \in Nat /\ w \in Letters /\ w # Space /\ Len(r) \in Nat
      /\ DOMAIN s = 1 .. Len(s)
  BY LineFacts, LenProperties, Constants DEF Letters
<1>2. ASSUME IsAfter(s, w, r)
      PROVE  /\ FirstWord(s) # 0 /\ FirstWord(s) < Len(s)
             /\ w = s[FirstWord(s)] /\ r = Rest(s)
  <2>1. PICK n \in 0 .. Len(s) :
          IsBlank(SubSeq(s, 1, n)) /\ s = SubSeq(s, 1, n) \o <<w, Space>> \o r
    BY <1>2 DEF IsAfter
  <2>2. n \in Nat /\ n <= Len(s) /\ 1 \in Nat \ {0}
    BY <1>1
  <2>3. PICK p : p = SubSeq(s, 1, n)
    OBVIOUS
  <2>4. /\ IsLine(SubSeq(s, 1, n)) /\ Len(SubSeq(s, 1, n)) = IF 1 <= n THEN n - 1 + 1 ELSE 0
        /\ \A i \in 1 .. Len(SubSeq(s, 1, n)) : SubSeq(s, 1, n)[i] = s[1 + i - 1]
    BY <2>2, PartOfLine
  <2>5. /\ IsLine(p) /\ Len(p) = IF 1 <= n THEN n - 1 + 1 ELSE 0
        /\ \A i \in 1 .. Len(p) : p[i] = s[1 + i - 1]
    BY <2>3, <2>4, Zenon
  <2>6. Len(p) = n
    BY <2>2, <2>5
  <2>7. \A i \in 1 .. n : p[i] = Space
    BY <2>1, <2>3, <2>5, <2>6, LineFacts DEF IsBlank
  <2>8. p \in Seq(Letters)
    BY <2>5, LineFacts
  <2>9. PICK t : t = p \o <<w, Space>> \o r
    OBVIOUS
  <2>10. /\ Len(t) = n + 2 + Len(r)
         /\ \A i \in 1 .. n : t[i] = Space
         /\ t[n + 1] = w
         /\ \A i \in 1 .. Len(r) : t[n + 2 + i] = r[i]
    <3>1. /\ Len(p \o <<w, Space>> \o r) = Len(p) + 2 + Len(r)
          /\ \A i \in 1 .. Len(p) : (p \o <<w, Space>> \o r)[i] = p[i]
          /\ (p \o <<w, Space>> \o r)[Len(p) + 1] = w
          /\ \A i \in 1 .. Len(r) : (p \o <<w, Space>> \o r)[Len(p) + 2 + i] = r[i]
      <4>1. p \in Seq(Letters) /\ w \in Letters
        BY <1>1, <2>8
      <4> QED
        BY <4>1, BlanksWordRest
    <3>2. /\ Len(t) = Len(p) + 2 + Len(r)
          /\ \A i \in 1 .. Len(p) : t[i] = p[i]
          /\ t[Len(p) + 1] = w
          /\ \A i \in 1 .. Len(r) : t[Len(p) + 2 + i] = r[i]
      BY <2>9, <3>1, Zenon
    <3> QED
      BY <2>6, <2>7, <3>2
  <2>11. s = t
    BY <2>1, <2>3, <2>9, Zenon
  <2>12. FirstWord(s) = n + 1
    <3>1. n + 1 \in 1 .. Len(s) /\ s[n + 1] # Space
      BY <1>1, <2>2, <2>10, <2>11
    <3>2. \A i \in 1 .. n + 1 - 1 : s[i] = Space
      BY <2>2, <2>10, <2>11
    <3> QED
      BY <1>1, <3>1, <3>2, FirstIs
  <2>13. FirstWord(s) # 0 /\ FirstWord(s) < Len(s) /\ w = s[FirstWord(s)]
    BY <1>1, <2>2, <2>10, <2>11, <2>12
  <2>14. r = Rest(s)
    <3>1. /\ IsLine(Rest(s))
          /\ Len(Rest(s)) = IF n + 1 + 2 <= Len(s) THEN Len(s) - (n + 1) - 1 ELSE 0
          /\ \A i \in 1 .. Len(Rest(s)) : Rest(s)[i] = s[n + 1 + 1 + i]
      BY <2>12, <2>13, RestFacts
    <3>2. Rest(s) \in Seq(Letters)
      BY <3>1, LineFacts
    <3>3. Len(Rest(s)) = Len(r)
      <4>1. Len(s) = n + 2 + Len(r)
        BY <2>10, <2>11
      <4> QED
        BY <1>1, <2>2, <3>1, <4>1
    <3>4. \A i \in 1 .. Len(r) : Rest(s)[i] = r[i]
      <4>1. \A i \in 1 .. Len(r) : n + 1 + 1 + i = n + 2 + i
        BY <1>1, <2>2
      <4> QED
        BY <2>10, <2>11, <3>1, <3>3, <4>1
    <3> QED
      BY <3>2, <3>3, <3>4, SeqEqual
  <2> QED
    BY <2>13, <2>14
<1>3. ASSUME FirstWord(s) # 0, FirstWord(s) < Len(s), w = s[FirstWord(s)], r = Rest(s)
      PROVE  IsAfter(s, w, r)
  <2>1. PICK n \in 0 .. Len(s) : FirstWord(s) = n + 1
    <3>1. PICK f \in 1 .. Len(s) : f = FirstWord(s)
      BY <1>3, TokenFacts
    <3>2. f - 1 \in 0 .. Len(s) /\ f = f - 1 + 1
      BY <1>1
    <3> QED
      BY <3>1, <3>2
  <2>2. n \in Nat /\ n + 1 < Len(s) /\ s[n + 1] = w /\ s[n + 2] = Space
        /\ \A i \in 1 .. n : s[i] = Space
    <3>1. n \in Nat /\ n + 1 < Len(s) /\ s[n + 1] = w
      BY <1>1, <1>3, <2>1
    <3>2. s[n + 1 + 1] = Space /\ \A i \in 1 .. n + 1 - 1 : s[i] = Space
      BY <1>3, <2>1, TokenFacts
    <3> QED
      BY <3>1, <3>2
  <2>3. Len(r) = Len(s) - n - 2 /\ \A i \in 1 .. Len(r) : r[i] = s[n + 2 + i]
    <3>1. /\ Len(r) = IF n + 1 + 2 <= Len(s) THEN Len(s) - (n + 1) - 1 ELSE 0
          /\ \A i \in 1 .. Len(r) : r[i] = s[n + 1 + 1 + i]
      BY <1>3, <2>1, RestFacts
    <3>2. \A i \in 1 .. Len(r) : n + 1 + 1 + i = n + 2 + i
      BY <1>1, <2>2
    <3>3. Len(r) = Len(s) - n - 2
      <4>1. n \in Nat /\ Len(s) \in Nat /\ n + 1 < Len(s)
        BY <1>1, <2>2
      <4>2. Len(r) = IF n + 1 + 2 <= Len(s) THEN Len(s) - (n + 1) - 1 ELSE 0
        BY <3>1
      <4> QED
        BY <4>1, <4>2
    <3> QED
      BY <3>1, <3>2, <3>3
  <2>4. PICK p : p = SubSeq(s, 1, n)
    OBVIOUS
  <2>5. IsLine(p) /\ Len(p) = n /\ p \in Seq(Letters) /\ \A i \in 1 .. n : p[i] = s[i]
    <3>1. /\ IsLine(SubSeq(s, 1, n)) /\ Len(SubSeq(s, 1, n)) = IF 1 <= n THEN n - 1 + 1 ELSE 0
          /\ \A i \in 1 .. Len(SubSeq(s, 1, n)) : SubSeq(s, 1, n)[i] = s[1 + i - 1]
      BY <1>1, <2>2, PartOfLine
    <3>2. /\ IsLine(p) /\ Len(p) = IF 1 <= n THEN n - 1 + 1 ELSE 0
          /\ \A i \in 1 .. Len(p) : p[i] = s[1 + i - 1]
      BY <2>4, <3>1, Zenon
    <3>3. Len(p) = n /\ \A i \in 1 .. n : 1 + i - 1 = i
      BY <2>2, <3>2
    <3> QED
      BY <3>2, <3>3, LineFacts
  <2>6. IsBlank(p)
    BY <2>2, <2>5, LineFacts DEF IsBlank
  <2>7. PICK t : t = p \o <<w, Space>> \o r
    OBVIOUS
  <2>8. s = t
    <3>1. /\ p \o <<w, Space>> \o r \in Seq(Letters)
          /\ Len(p \o <<w, Space>> \o r) = Len(p) + 2 + Len(r)
          /\ \A i \in 1 .. Len(p) : (p \o <<w, Space>> \o r)[i] = p[i]
          /\ (p \o <<w, Space>> \o r)[Len(p) + 1] = w
          /\ (p \o <<w, Space>> \o r)[Len(p) + 2] = Space
          /\ \A i \in 1 .. Len(r) : (p \o <<w, Space>> \o r)[Len(p) + 2 + i] = r[i]
      <4>1. p \in Seq(Letters) /\ w \in Letters
        BY <1>1, <2>5
      <4> QED
        BY <4>1, BlanksWordRest
    <3>2. /\ t \in Seq(Letters)
          /\ Len(t) = Len(p) + 2 + Len(r)
          /\ \A i \in 1 .. Len(p) : t[i] = p[i]
          /\ t[Len(p) + 1] = w
          /\ t[Len(p) + 2] = Space
          /\ \A i \in 1 .. Len(r) : t[Len(p) + 2 + i] = r[i]
      BY <2>7, <3>1, Zenon
    <3>3. Len(t) = Len(s)
      BY <1>1, <2>2, <2>3, <2>5, <3>2
    <3>4. ASSUME NEW i \in 1 .. Len(s) PROVE s[i] = t[i]
      <4>1. CASE i <= n
        BY <2>2, <2>5, <3>2, <4>1
      <4>2. CASE i = n + 1 \/ i = n + 2
        BY <2>2, <2>5, <3>2, <4>2
      <4>3. CASE i > n + 2
        <5>1. i - n - 2 \in 1 .. Len(r) /\ n + 2 + (i - n - 2) = i
          BY <1>1, <2>2, <2>3, <4>3
        <5>2. t[n + 2 + (i - n - 2)] = r[i - n - 2] /\ r[i - n - 2] = s[n + 2 + (i - n - 2)]
          BY <2>3, <2>5, <3>2, <5>1
        <5> QED
          BY <5>1, <5>2
      <4> QED
        BY <1>1, <2>2, <4>1, <4>2, <4>3
    <3> QED
      BY <1>1, <3>2, <3>3, <3>4, SeqEqual
  <2>9. IsBlank(SubSeq(s, 1, n)) /\ s = SubSeq(s, 1, n) \o <<w, Space>> \o r
    BY <2>4, <2>6, <2>7, <2>8, Zenon
  <2> QED
    BY <2>9 DEF IsAfter
<1> QED
  BY <1>2, <1>3

LEMMA CredentialCases ==
  ASSUME NEW r
  PROVE  r \in Credentials <=>
           \/ r = <<Space>>
           \/ \E u \in Words : r = <<u, Space>> \/ r = <<Space, u>>
           \/ \E u \in Words, p \in Words : r = <<u, Space, p>>
<1> DEFINE A == UNION {{<<u, Space>>, <<Space, u>>} : u \in Words}
           B == {<<u, Space, p>> : u, p \in Words}
<1>1. r \in A <=> \E u \in Words : r = <<u, Space>> \/ r = <<Space, u>>
  BY Zenon
<1>2. r \in B <=> \E u \in Words, p \in Words : r = <<u, Space, p>>
  BY SMT
<1>4. Credentials = {<<Space>>} \cup A \cup B
  BY DEF Credentials
<1> HIDE DEF A, B
<1>3. r \in {<<Space>>} \cup A \cup B <=> r = <<Space>> \/ r \in A \/ r \in B
  BY Zenon
<1> QED
  BY <1>1, <1>2, <1>3, <1>4, Zenon

\* A name and a password are the lines with one space.
LEMMA CredentialFacts ==
  ASSUME NEW r, IsLine(r)
  PROVE  r \in Credentials <=> StrCount(r) = 1
<1> DEFINE C == {i \in DOMAIN r : r[i] = Space}
<1>1. /\ r \in Seq(Letters) /\ Len(r) \in Nat /\ DOMAIN r = 1 .. Len(r)
      /\ \A i \in 1 .. Len(r) : r[i] \in Letters
      /\ \A i \in 1 .. Len(r) - 1 : r[i] = Space \/ r[i + 1] = Space
  BY LineFacts
<1>2. StrCount(r) = 1 <=> \E x : C = {x}
  <2>1. IsFiniteSet(1 .. Len(r)) /\ C \in SUBSET (1 .. Len(r))
    BY <1>1, FS_Interval
  <2>2. IsFiniteSet(C)
    BY <2>1, FS_Subset
  <2>3. StrCount(r) = Cardinality(C)
    BY DEF StrCount
  <2> HIDE DEF C
  <2> QED
    BY <2>2, <2>3, FS_Singleton
<1>3. ASSUME r \in Credentials PROVE \E x : C = {x}
  <2>1. \/ r = <<Space>>
        \/ \E u \in Words : r = <<u, Space>> \/ r = <<Space, u>>
        \/ \E u \in Words, p \in Words : r = <<u, Space, p>>
    BY <1>3, CredentialCases, Zenon
  <2>2. CASE r = <<Space>>
    <3>1. C = {1}
      BY <2>2
    <3> QED
      BY <3>1
  <2>3. CASE \E u \in Words : r = <<u, Space>> \/ r = <<Space, u>>
    <3>1. PICK u \in Words : r = <<u, Space>> \/ r = <<Space, u>>
      BY <2>3
    <3>2. u # Space
      BY Constants
    <3>3. CASE r = <<u, Space>>
      <4>1. C = {2}
        BY <3>2, <3>3
      <4> QED
        BY <4>1
    <3>4. CASE r = <<Space, u>>
      <4>1. C = {1}
        BY <3>2, <3>4
      <4> QED
        BY <4>1
    <3> QED
      BY <3>1, <3>3, <3>4
  <2>4. CASE \E u \in Words, p \in Words : r = <<u, Space, p>>
    <3>1. PICK u \in Words, p \in Words : r = <<u, Space, p>>
      BY <2>4, Zenon
    <3>2. u # Space /\ p # Space
      BY Constants
    <3>3. C = {2}
      BY <3>1, <3>2
    <3> QED
      BY <3>3
  <2> QED
    BY <2>1, <2>2, <2>3, <2>4
<1>4. ASSUME NEW x, C = {x} PROVE r \in Credentials
  <2>1. x \in 1 .. Len(r) /\ r[x] = Space
    BY <1>1, <1>4
  <2>2. \A i \in 1 .. Len(r) : i # x => r[i] \in Words
    BY <1>1, <1>4 DEF Letters
  <2>3. \A i \in 1 .. Len(r) - 1 : i = x \/ i + 1 = x
    BY <1>1, <1>4
  <2>4. Len(r) < 4
    <3> SUFFICES ASSUME Len(r) >= 4 PROVE FALSE
      BY <1>1
    <3>1. 1 \in 1 .. Len(r) - 1 /\ 3 \in 1 .. Len(r) - 1
      BY <1>1
    <3> QED
      BY <1>1, <2>1, <2>3, <3>1
  <2>5. Len(r) = 1 \/ Len(r) = 2 \/ Len(r) = 3
    BY <1>1, <2>1, <2>4
  <2>6. CASE Len(r) = 1
    <3>1. r = <<Space>>
      <4>1. r[1] = Space
        BY <2>1, <2>6
      <4>2. <<Space>> \in Seq(Letters) /\ Len(<<Space>>) = 1 /\ \A i \in 1 .. 1 : <<Space>>[i] = r[i]
        BY <4>1 DEF Letters
      <4> QED
        BY <1>1, <2>6, <4>2, SeqEqual
    <3> QED
      BY <3>1 DEF Credentials
  <2>7. CASE Len(r) = 2
    <3>1. r = <<r[1], r[2]>>
      <4>1. r[1] \in Letters /\ r[2] \in Letters
        BY <1>1, <2>7
      <4>2. /\ <<r[1], r[2]>> \in Seq(Letters) /\ Len(<<r[1], r[2]>>) = 2
            /\ \A i \in 1 .. 2 : <<r[1], r[2]>>[i] = r[i]
        BY <4>1
      <4> QED
        BY <1>1, <2>7, <4>2, SeqEqual
    <3>2. (r[1] = Space /\ r[2] \in Words) \/ (r[2] = Space /\ r[1] \in Words)
      BY <2>1, <2>2, <2>7
    <3>3. \E u \in Words : r = <<u, Space>> \/ r = <<Space, u>>
      BY <3>1, <3>2, Zenon
    <3> QED
      BY <3>3, CredentialCases, Zenon
  <2>8. CASE Len(r) = 3
    <3>1. r = <<r[1], r[2], r[3]>>
      <4>1. r[1] \in Letters /\ r[2] \in Letters /\ r[3] \in Letters
        BY <1>1, <2>8
      <4>2. /\ <<r[1], r[2], r[3]>> \in Seq(Letters) /\ Len(<<r[1], r[2], r[3]>>) = 3
            /\ \A i \in 1 .. 3 : <<r[1], r[2], r[3]>>[i] = r[i]
        BY <4>1
      <4> QED
        BY <1>1, <2>8, <4>2, SeqEqual
    <3>2. x = 2
      <4>1. 1 \in 1 .. Len(r) - 1 /\ 2 \in 1 .. Len(r) - 1
        BY <2>8
      <4>2. (1 = x \/ 1 + 1 = x) /\ (2 = x \/ 2 + 1 = x)
        BY <2>3, <4>1, Zenon
      <4> QED
        BY <4>2
    <3>3. r[2] = Space /\ r[1] \in Words /\ r[3] \in Words
      BY <2>1, <2>2, <2>8, <3>2
    <3>4. \E u \in Words, p \in Words : r = <<u, Space, p>>
      BY <3>1, <3>3, Zenon
    <3> QED
      BY <3>4, CredentialCases, Zenon
  <2> QED
    BY <2>5, <2>6, <2>7, <2>8
<1> QED
  BY <1>2, <1>3, <1>4

LEMMA LoginFacts ==
  ASSUME NEW s, IsLine(s)
  PROVE  IsLogin(s) <=>
           /\ FirstWord(s) # 0 /\ "/login" \in Opens[Token(s)]
           /\ Rest(s) # <<>> /\ StrCount(Rest(s)) = 1
<1>1. IsLine(Rest(s)) /\ Rest(s) \in Seq(Letters) /\ Len(s) \in Nat
  BY RestFacts, LineFacts
<1>2. ASSUME IsLogin(s)
      PROVE  /\ FirstWord(s) # 0 /\ "/login" \in Opens[Token(s)]
             /\ Rest(s) # <<>> /\ StrCount(Rest(s)) = 1
  <2>1. PICK w \in Beginnings("/login"), r \in Credentials : IsAfter(s, w, r)
    BY <1>2 DEF IsLogin
  <2>2. w \in Words /\ "/login" \in Opens[w]
    BY <2>1 DEF Beginnings
  <2>3. r \in Seq(Letters) /\ r # <<>>
    <3>1. \/ r = <<Space>>
          \/ \E u \in Words : r = <<u, Space>> \/ r = <<Space, u>>
          \/ \E u \in Words, p \in Words : r = <<u, Space, p>>
      BY <2>1, CredentialCases, Zenon
    <3>2. <<Space>> \in Seq(Letters) /\ <<Space>> # <<>>
      BY DEF Letters
    <3>3. \A u \in Words : <<u, Space>> \in Seq(Letters) /\ <<u, Space>> # <<>>
      BY DEF Letters
    <3>4. \A u \in Words : <<Space, u>> \in Seq(Letters) /\ <<Space, u>> # <<>>
      BY DEF Letters
    <3>5. \A u \in Words, p \in Words : <<u, Space, p>> \in Seq(Letters) /\ <<u, Space, p>> # <<>>
      BY DEF Letters
    <3> QED
      BY <3>1, <3>2, <3>3, <3>4, <3>5, Zenon
  <2>4. /\ FirstWord(s) # 0 /\ FirstWord(s) < Len(s)
        /\ w = s[FirstWord(s)] /\ r = Rest(s)
    BY <2>1, <2>2, <2>3, AfterFacts
  <2>5. Token(s) = w
    BY <2>4, TokenFacts
  <2>6. StrCount(Rest(s)) = 1
    BY <1>1, <2>1, <2>4, CredentialFacts
  <2> QED
    BY <2>2, <2>3, <2>4, <2>5, <2>6
<1>3. ASSUME FirstWord(s) # 0, "/login" \in Opens[Token(s)], Rest(s) # <<>>, StrCount(Rest(s)) = 1
      PROVE  IsLogin(s)
  <2>1. PICK w \in Words : w = s[FirstWord(s)] /\ w = Token(s)
    BY <1>3, TokenFacts
  <2>2. w \in Beginnings("/login")
    BY <1>3, <2>1 DEF Beginnings
  <2>3. Rest(s) \in Credentials
    BY <1>1, <1>3, CredentialFacts
  <2>4. FirstWord(s) < Len(s)
    <3>1. PICK f \in 1 .. Len(s) : f = FirstWord(s)
      BY <1>3, TokenFacts
    <3>2. Len(Rest(s)) # 0
      BY <1>1, <1>3, LineFacts
    <3>3. f + 2 <= Len(s)
      BY <1>3, <3>1, <3>2, RestFacts
    <3> QED
      BY <1>1, <3>1, <3>3
  <2>5. IsAfter(s, w, Rest(s))
    BY <1>1, <1>3, <2>1, <2>4, AfterFacts
  <2> QED
    BY <2>2, <2>3, <2>5 DEF IsLogin
<1> QED
  BY <1>2, <1>3

\* A command is the first word of its line.
LEMMA CommandFacts ==
  ASSUME NEW s, IsLine(s), IsCommand(s)
  PROVE  /\ FirstWord(s) = 1 /\ Token(s) = s[1] /\ s[1] \in Words /\ Token(s) # NULL
         /\ Len(s) >= 1
         /\ Len(s) > 1 => s[2] = Space
         /\ IsLine(Rest(s)) /\ Len(Rest(s)) = IF Len(s) > 2 THEN Len(s) - 2 ELSE 0
         /\ \A i \in 1 .. Len(Rest(s)) : Rest(s)[i] = s[i + 2]
<1>1. s \in Seq(Letters) /\ Len(s) \in Nat /\ Len(s) # 0 /\ s[1] \in Words /\ s[1] # Space
  BY LineFacts, Constants DEF IsCommand
<1>2. FirstWord(s) = 1
  <2>1. 1 \in 1 .. Len(s) /\ \A i \in 1 .. 1 - 1 : s[i] = Space
    BY <1>1
  <2> QED
    BY <1>1, <2>1, FirstIs
<1>3. /\ Token(s) = s[1] /\ Token(s) # NULL
      /\ 1 < Len(s) => s[1 + 1] = Space
  BY <1>2, TokenFacts
<1>4. /\ IsLine(Rest(s))
      /\ Len(Rest(s)) = IF 1 + 2 <= Len(s) THEN Len(s) - 1 - 1 ELSE 0
      /\ \A i \in 1 .. Len(Rest(s)) : Rest(s)[i] = s[1 + 1 + i]
  BY <1>2, RestFacts
<1>5. Len(Rest(s)) = IF Len(s) > 2 THEN Len(s) - 2 ELSE 0
  BY <1>1, <1>4
<1>6. \A i \in 1 .. Len(Rest(s)) : 1 + 1 + i = i + 2
  BY <1>1, <1>5
<1> QED
  BY <1>1, <1>2, <1>3, <1>4, <1>5, <1>6

LEMMA LeaveFacts ==
  ASSUME NEW s, IsLine(s)
  PROVE  IsLeave(s) <=> IsCommand(s) /\ "/leave" \in Opens[Token(s)] /\ Rest(s) = <<>>
<1>1. ASSUME IsLeave(s)
      PROVE  IsCommand(s) /\ "/leave" \in Opens[Token(s)] /\ Rest(s) = <<>>
  <2>1. PICK w \in Beginnings("/leave") : s \in {<<w>>, <<w, Space>>}
    BY <1>1 DEF IsLeave
  <2>2. w \in Words /\ "/leave" \in Opens[w] /\ w \in Slashed
    BY <2>1, Constants DEF Beginnings
  <2>3. s # <<>> /\ s[1] = w /\ Len(s) <= 2
    <3>1. CASE s = <<w>>
      BY <3>1
    <3>2. CASE s = <<w, Space>>
      BY <3>2
    <3> QED
      BY <2>1, <3>1, <3>2
  <2>4. IsCommand(s)
    BY <2>2, <2>3 DEF IsCommand
  <2>5. Token(s) = w /\ Len(Rest(s)) = 0 /\ IsLine(Rest(s))
    <3>1. Len(s) \in Nat
      BY LineFacts
    <3> QED
      BY <2>3, <2>4, <3>1, CommandFacts
  <2> QED
    BY <2>2, <2>4, <2>5, LineFacts
<1>2. ASSUME IsCommand(s), "/leave" \in Opens[Token(s)], Rest(s) = <<>>
      PROVE  IsLeave(s)
  <2>1. /\ Token(s) = s[1] /\ s[1] \in Words /\ Len(s) >= 1
        /\ Len(s) > 1 => s[2] = Space
        /\ IsLine(Rest(s)) /\ Len(Rest(s)) = IF Len(s) > 2 THEN Len(s) - 2 ELSE 0
    BY <1>2, CommandFacts
  <2>2. s \in Seq(Letters) /\ Len(s) \in Nat
    BY LineFacts
  <2>3. Len(Rest(s)) = 0
    BY <1>2, <2>1, LineFacts
  <2>4. Len(s) = 1 \/ Len(s) = 2
    <3>1. Len(s) \in Nat /\ Len(s) >= 1
      BY <2>1, <2>2
    <3>2. PICK k \in Nat : k = Len(s)
      BY <3>1
    <3>3. 0 = IF k > 2 THEN k - 2 ELSE 0
      BY <2>1, <2>3, <3>2, Zenon
    <3>4. k >= 1
      BY <3>1, <3>2
    <3>5. k = 1 \/ k = 2
      BY <3>3, <3>4
    <3> QED
      BY <3>2, <3>5
  <2>5. PICK w \in Words : w = s[1]
    BY <2>1
  <2>6. w \in Beginnings("/leave")
    BY <1>2, <2>1, <2>5 DEF Beginnings
  <2>7. s = <<w>> \/ s = <<w, Space>>
    <3>1. CASE Len(s) = 1
      <4>1. <<w>> \in Seq(Letters) /\ Len(<<w>>) = 1 /\ \A i \in 1 .. 1 : <<w>>[i] = s[i]
        BY <2>5 DEF Letters
      <4> QED
        BY <2>2, <3>1, <4>1, SeqEqual
    <3>2. CASE Len(s) = 2
      <4>1. s[2] = Space
        BY <2>1, <3>2
      <4>2. /\ <<w, Space>> \in Seq(Letters) /\ Len(<<w, Space>>) = 2
            /\ \A i \in 1 .. 2 : <<w, Space>>[i] = s[i]
        BY <2>5, <4>1 DEF Letters
      <4> QED
        BY <2>2, <3>2, <4>2, SeqEqual
    <3> QED
      BY <2>4, <3>1, <3>2
  <2> QED
    BY <2>6, <2>7 DEF IsLeave
<1> QED
  BY <1>1, <1>2

\* A message has a receiver, a space and something behind it, spaces included.
LEMMA MsgFacts ==
  ASSUME NEW s, IsLine(s)
  PROVE  IsMsg(s) <=>
           /\ IsCommand(s) /\ "/leave" \notin Opens[Token(s)] /\ "/msg" \in Opens[Token(s)]
           /\ Token(Rest(s)) # NULL /\ Rest(Rest(s)) # <<>>
<1>1. s \in Seq(Letters) /\ Len(s) \in Nat
  BY LineFacts
<1>2. (\E w \in Beginnings("/msg") \ Beginnings("/leave") : s # <<>> /\ s[1] = w) <=>
        IsCommand(s) /\ "/leave" \notin Opens[Token(s)] /\ "/msg" \in Opens[Token(s)]
  <2>1. ASSUME NEW w \in Beginnings("/msg") \ Beginnings("/leave"), s # <<>>, s[1] = w
        PROVE  IsCommand(s) /\ "/leave" \notin Opens[Token(s)] /\ "/msg" \in Opens[Token(s)]
    <3>1. w \in Words /\ "/leave" \notin Opens[w] /\ "/msg" \in Opens[w] /\ w \in Slashed
      BY <2>1, Constants DEF Beginnings
    <3>2. IsCommand(s)
      BY <2>1, <3>1 DEF IsCommand
    <3>3. Token(s) = w
      BY <2>1, <3>2, CommandFacts
    <3> QED
      BY <3>1, <3>2, <3>3
  <2>2. ASSUME IsCommand(s), "/leave" \notin Opens[Token(s)], "/msg" \in Opens[Token(s)]
        PROVE  \E w \in Beginnings("/msg") \ Beginnings("/leave") : s # <<>> /\ s[1] = w
    <3>1. s[1] \in Words /\ Token(s) = s[1] /\ s # <<>>
      BY <2>2, CommandFacts DEF IsCommand
    <3> QED
      BY <2>2, <3>1 DEF Beginnings
  <2> QED
    BY <2>1, <2>2
\* What follows the command begins with a space, which strtok_r takes.
<1>3. ASSUME IsCommand(s)
      PROVE  (\E r \in Words, n \in 2 .. Len(s) - 1 :
                IsAfter(SubSeq(s, 2, n + 1), r, <<>>) /\ n + 1 < Len(s))
               <=> Token(Rest(s)) # NULL /\ Rest(Rest(s)) # <<>>
  <2>1. PICK t : t = Rest(s)
    OBVIOUS
  <2>2. /\ IsLine(t) /\ Len(t) = IF Len(s) > 2 THEN Len(s) - 2 ELSE 0
        /\ \A i \in 1 .. Len(t) : t[i] = s[i + 2]
        /\ s[1] \in Words /\ s[1] # Space
        /\ Len(s) > 1 => s[2] = Space
    BY <1>3, <2>1, CommandFacts, Constants
  <2>3. t \in Seq(Letters) /\ Len(t) \in Nat
    BY <2>2, LineFacts
  <2>4. <<>> \in Seq(Letters) /\ Len(<<>>) = 0 /\ IsLine(Rest(t))
    BY <2>2, EmptySeq, RestFacts
  <2>5. ASSUME NEW n \in 2 .. Len(s) - 1
        PROVE  /\ IsLine(SubSeq(s, 2, n + 1)) /\ Len(SubSeq(s, 2, n + 1)) = n
               /\ \A i \in 1 .. n : SubSeq(s, 2, n + 1)[i] = s[i + 1]
    <3>1. 2 \in Nat \ {0} /\ n + 1 \in Nat /\ n + 1 <= Len(s) /\ 2 <= n + 1 /\ n + 1 - 2 + 1 = n
      BY <1>1
    <3>2. /\ IsLine(SubSeq(s, 2, n + 1)) /\ Len(SubSeq(s, 2, n + 1)) = n
          /\ \A i \in 1 .. n : SubSeq(s, 2, n + 1)[i] = s[2 + i - 1]
      BY <3>1, PartOfLine
    <3>3. \A i \in 1 .. n : 2 + i - 1 = i + 1
      BY <3>1
    <3> QED
      BY <3>2, <3>3
  <2>6. ASSUME NEW r \in Words, NEW n \in 2 .. Len(s) - 1,
               IsAfter(SubSeq(s, 2, n + 1), r, <<>>), n + 1 < Len(s)
        PROVE  Token(t) # NULL /\ Rest(t) # <<>>
    <3>1. PICK q : q = SubSeq(s, 2, n + 1)
      OBVIOUS
    <3>2. IsLine(q) /\ Len(q) = n /\ \A i \in 1 .. n : q[i] = s[i + 1]
      BY <2>5, <3>1, Zenon
    <3>3. IsAfter(q, r, <<>>)
      BY <2>6, <3>1, Zenon
    <3>4. FirstWord(q) # 0 /\ FirstWord(q) < n /\ Rest(q) = <<>>
      BY <2>4, <3>2, <3>3, AfterFacts
    <3>5. PICK f \in 1 .. n : f = FirstWord(q)
      BY <3>2, <3>4, TokenFacts
    <3>6. q[f] # Space /\ \A i \in 1 .. f - 1 : q[i] = Space
      BY <3>2, <3>4, <3>5, TokenFacts, Constants
    <3>7. n \in Nat /\ f \in Nat
      BY <1>1
    <3>8. f = n - 1
      <4>1. Len(Rest(q)) = IF f + 2 <= n THEN n - f - 1 ELSE 0
        BY <3>2, <3>4, <3>5, RestFacts
      <4>2. Len(Rest(q)) = 0
        BY <2>4, <3>4
      <4> QED
        BY <3>4, <3>5, <3>7, <4>1, <4>2
    <3>9. s[2] = Space
      BY <1>1, <2>2, <2>6
    <3>10. f # 1
      BY <3>2, <3>6, <3>7, <3>9
    <3>11. n - 2 \in 1 .. Len(t) /\ t[n - 2] # Space /\ n - 2 + 2 <= Len(t)
      <4>1. n - 2 \in 1 .. Len(t) /\ n - 2 + 2 = n /\ n - 2 + 2 <= Len(t)
        BY <1>1, <2>2, <2>6, <3>5, <3>7, <3>8, <3>10
      <4>2. t[n - 2] = s[n] /\ q[f] = s[n]
        <5>1. f + 1 = n
          BY <3>7, <3>8
        <5> QED
          BY <2>2, <3>2, <3>5, <4>1, <5>1
      <4> QED
        BY <3>6, <4>1, <4>2
    <3>12. \A i \in 1 .. n - 2 - 1 : t[i] = Space
      <4> SUFFICES ASSUME NEW i \in 1 .. n - 2 - 1 PROVE t[i] = Space
        OBVIOUS
      <4>1. i \in 1 .. Len(t) /\ i + 1 \in 1 .. f - 1 /\ i + 1 \in 1 .. n /\ i + 1 + 1 = i + 2
        BY <2>3, <3>7, <3>8, <3>11
      <4>2. t[i] = s[i + 2] /\ q[i + 1] = s[i + 2]
        BY <2>2, <3>2, <4>1
      <4> QED
        BY <3>6, <4>1, <4>2
    <3>13. FirstWord(t) = n - 2
      BY <2>3, <3>11, <3>12, FirstIs
    <3>14. FirstWord(t) # 0
      BY <3>7, <3>11, <3>13
    <3>15. Token(t) # NULL
      BY <2>2, <3>14, TokenFacts
    <3>16. Len(Rest(t)) # 0
      <4>1. Len(Rest(t)) = IF n - 2 + 2 <= Len(t) THEN Len(t) - (n - 2) - 1 ELSE 0
        BY <2>2, <3>13, <3>14, RestFacts
      <4> QED
        BY <2>3, <3>7, <3>11, <4>1
    <3> QED
      BY <2>4, <3>15, <3>16
  <2>7. ASSUME Token(t) # NULL, Rest(t) # <<>>
        PROVE  \E r \in Words, n \in 2 .. Len(s) - 1 :
                 IsAfter(SubSeq(s, 2, n + 1), r, <<>>) /\ n + 1 < Len(s)
    <3>1. FirstWord(t) # 0
      BY <2>2, <2>7, TokenFacts
    <3>2. PICK g \in 1 .. Len(t) : g = FirstWord(t)
      BY <2>2, <3>1, TokenFacts
    <3>3. t[g] \in Words /\ t[g] # Space /\ \A i \in 1 .. g - 1 : t[i] = Space
      BY <2>2, <3>1, <3>2, TokenFacts, Constants
    <3>4. g + 2 <= Len(t)
      <4>1. Len(Rest(t)) = IF g + 2 <= Len(t) THEN Len(t) - g - 1 ELSE 0
        BY <2>2, <3>1, <3>2, RestFacts
      <4>2. Len(Rest(t)) # 0
        BY <2>4, <2>7, LineFacts
      <4> QED
        BY <4>1, <4>2
    <3>5. PICK n \in 2 .. Len(s) - 1 : n = g + 2
      <4>1. g + 2 \in 2 .. Len(s) - 1
        BY <1>1, <2>2, <2>3, <3>4
      <4> QED
        BY <4>1
    <3>6. n \in Nat /\ g \in Nat /\ n + 1 < Len(s) /\ g = n - 2
      BY <1>1, <2>2, <2>3, <3>4, <3>5
    <3>7. PICK q : q = SubSeq(s, 2, n + 1)
      OBVIOUS
    <3>8. IsLine(q) /\ Len(q) = n /\ \A i \in 1 .. n : q[i] = s[i + 1]
      BY <2>5, <3>7, Zenon
    <3>9. q \in Seq(Letters)
      BY <3>8, LineFacts
    <3>10. n - 1 \in 1 .. n /\ q[n - 1] = t[g]
      <4>1. n - 1 \in 1 .. n /\ n - 1 + 1 = g + 2
        BY <3>6
      <4> QED
        BY <2>2, <3>2, <3>8, <4>1
    <3>11. \A i \in 1 .. n - 1 - 1 : q[i] = Space
      <4> SUFFICES ASSUME NEW i \in 1 .. n - 1 - 1 PROVE q[i] = Space
        OBVIOUS
      <4>1. i \in 1 .. n /\ q[i] = s[i + 1]
        BY <3>6, <3>8
      <4>2. CASE i = 1
        BY <2>2, <3>6, <4>1, <4>2
      <4>3. CASE i # 1
        <5>1. i - 1 \in 1 .. g - 1 /\ i - 1 \in 1 .. Len(t) /\ i - 1 + 2 = i + 1
          BY <2>3, <3>2, <3>6, <4>3
        <5> QED
          BY <2>2, <3>3, <4>1, <5>1
      <4> QED
        BY <4>2, <4>3
    <3>12. FirstWord(q) = n - 1
      BY <3>3, <3>8, <3>9, <3>10, <3>11, FirstIs
    <3>13. FirstWord(q) # 0 /\ FirstWord(q) < Len(q) /\ q[FirstWord(q)] = t[g]
      BY <3>6, <3>8, <3>10, <3>12
    <3>14. Rest(q) = <<>>
      <4>1. Len(Rest(q)) = IF n - 1 + 2 <= n THEN n - (n - 1) - 1 ELSE 0
        BY <3>8, <3>12, <3>13, RestFacts
      <4>2. Len(Rest(q)) = 0
        BY <3>6, <4>1
      <4> QED
        BY <3>8, <4>2, RestFacts, LineFacts
    <3>15. IsAfter(q, t[g], <<>>)
      BY <2>4, <3>3, <3>8, <3>13, <3>14, AfterFacts
    <3>16. IsAfter(SubSeq(s, 2, n + 1), t[g], <<>>)
      BY <3>7, <3>15, Zenon
    <3> QED
      BY <3>3, <3>6, <3>16
  <2> QED
    BY <2>1, <2>6, <2>7
<1> QED
  BY <1>2, <1>3 DEF IsMsg

\* What is done with a line is what the grammar says.
LEMMA ParseFacts ==
  ASSUME NEW s, IsLine(s), NEW loggedIn \in BOOLEAN
  PROVE  /\ ParseCommand(loggedIn, s).do = "login" <=> ~loggedIn /\ IsLogin(s)
         /\ ParseCommand(loggedIn, s).do = "leave" <=> loggedIn /\ IsLeave(s)
         /\ ParseCommand(loggedIn, s).do = "say" <=> loggedIn /\ (IsMsg(s) \/ ~IsCommand(s))
         /\ ParseCommand(loggedIn, s).do = "crash" <=> ~loggedIn /\ IsBlank(s)
         /\ ParseCommand(loggedIn, s).do = "login" =>
              ParseCommand(loggedIn, s).user \in Words \cup {NULL}
<1>1. CASE loggedIn /\ ~IsCommand(s)
  <2>1. ParseCommand(loggedIn, s).do = "say"
    BY <1>1 DEF ParseCommand
  <2>2. ~IsLeave(s)
    BY <1>1, LeaveFacts
  <2> QED
    BY <1>1, <2>1, <2>2
<1>2. CASE loggedIn /\ IsCommand(s)
  <2>1. Token(s) # NULL
    BY <1>2, CommandFacts
  <2> DEFINE does == ParseCommand(loggedIn, s).do
  <2>2. CASE "/leave" \in Opens[Token(s)]
    <3>1. does = IF Rest(s) = <<>> THEN "leave" ELSE "error"
      <4>1. ParseCommand(loggedIn, s) = ParseLeave(Rest(s))
        BY <1>2, <2>1, <2>2 DEF ParseCommand, StrEq
      <4> QED
        BY <4>1 DEF ParseLeave, StrIsEmpty, Error
    <3>2. IsLeave(s) <=> Rest(s) = <<>>
      BY <1>2, <2>2, LeaveFacts
    <3>3. ~IsMsg(s)
      BY <2>2, MsgFacts
    <3> QED
      BY <1>2, <3>1, <3>2, <3>3
  <2>3. CASE "/leave" \notin Opens[Token(s)] /\ "/msg" \in Opens[Token(s)]
    <3>1. does = IF Token(Rest(s)) = NULL \/ Rest(Rest(s)) = <<>> THEN "error" ELSE "say"
      <4>1. ParseCommand(loggedIn, s) = ParseMsg(Rest(s))
        BY <1>2, <2>1, <2>3 DEF ParseCommand, StrEq
      <4> QED
        BY <4>1 DEF ParseMsg, StrIsEmpty, Error
    <3>2. IsMsg(s) <=> Token(Rest(s)) # NULL /\ Rest(Rest(s)) # <<>>
      BY <1>2, <2>3, MsgFacts
    <3>3. ~IsLeave(s)
      BY <2>3, LeaveFacts
    <3> QED
      BY <1>2, <3>1, <3>2, <3>3
  <2>4. CASE "/leave" \notin Opens[Token(s)] /\ "/msg" \notin Opens[Token(s)]
    <3>1. does \in {"error", "ignore"}
      <4>1. ParseCommand(loggedIn, s) = IF "/login" \in Opens[Token(s)]
                                        THEN ParseLogin(loggedIn, Rest(s)) ELSE [do |-> "ignore"]
        BY <1>2, <2>1, <2>4 DEF ParseCommand, StrEq
      <4>2. ParseLogin(loggedIn, Rest(s)) = Error
        BY <1>2 DEF ParseLogin, LoginIsAllowed
      <4> QED
        BY <4>1, <4>2 DEF Error
    <3>2. ~IsLeave(s) /\ ~IsMsg(s)
      BY <2>4, LeaveFacts, MsgFacts
    <3> QED
      BY <1>2, <3>1, <3>2
  <2> QED
    BY <2>2, <2>3, <2>4
<1>3. CASE ~loggedIn
  <2> DEFINE does == ParseCommand(loggedIn, s).do
  <2>1. CASE Token(s) = NULL
    <3>1. FirstWord(s) = 0 /\ IsBlank(s)
      BY <2>1, TokenFacts
    <3>2. ~IsLogin(s)
      BY <3>1, LoginFacts
    <3>3. does = "crash"
      BY <1>3, <2>1 DEF ParseCommand
    <3> QED
      BY <1>3, <3>1, <3>2, <3>3
  <2>2. CASE Token(s) # NULL
    <3>1. FirstWord(s) # 0 /\ ~IsBlank(s)
      BY <2>2, TokenFacts
    <3> DEFINE login == /\ "/login" \in Opens[Token(s)]
                        /\ Rest(s) # <<>> /\ StrCount(Rest(s)) = 1
    <3>2. IsLogin(s) <=> login
      BY <3>1, LoginFacts
    <3>3. ParseCommand(loggedIn, s) = IF login THEN [do |-> "login", user |-> Token(Rest(s))] ELSE Error
      <4>1. ParseCommand(loggedIn, s) = IF "/login" \in Opens[Token(s)]
                                        THEN ParseLogin(loggedIn, Rest(s)) ELSE Error
        BY <1>3, <2>2 DEF ParseCommand, StrEq
      <4> QED
        BY <1>3, <4>1 DEF ParseLogin, LoginIsAllowed, StrIsEmpty
    <3> HIDE DEF login
    <3>4. does = IF login THEN "login" ELSE "error"
      BY <3>3 DEF Error
    <3>5. login => ParseCommand(loggedIn, s).user = Token(Rest(s))
      BY <3>3
    <3>6. Token(Rest(s)) \in Words \cup {NULL}
      BY RestFacts, TokenFacts
    <3> QED
      BY <1>3, <3>1, <3>2, <3>4, <3>5, <3>6
  <2> QED
    BY <2>1, <2>2
<1> QED
  BY <1>1, <1>2, <1>3

-----------------------------------------------------------------------------
(* The pieces of a line.                                                   *)

\* What of a line and its newline is behind the first b letters.
Unread(line, b) == SubSeq(Append(line, Newline), b + 1, Len(line) + 1)

\* The piece of a line behind the first b letters.
PieceAt(line, b) ==
  SubSeq(line, b + 1, IF b + Room <= Len(line) THEN b + Room ELSE Len(line))

LEMMA UnreadFacts ==
  ASSUME NEW line, IsLine(line), NEW b \in Nat
  PROVE  /\ Unread(line, b) \in Seq(Letters \cup {Newline})
         /\ Len(Unread(line, b)) = IF b <= Len(line) THEN Len(line) + 1 - b ELSE 0
         /\ \A i \in 1 .. Len(line) - b : Unread(line, b)[i] = line[b + i]
         /\ b <= Len(line) => Unread(line, b)[Len(line) + 1 - b] = Newline
         /\ Unread(line, b) = <<>> <=> b > Len(line)
<1> DEFINE S == Letters \cup {Newline}
<1>1. line \in Seq(Letters) /\ Len(line) \in Nat /\ \A i \in 1 .. Len(line) : line[i] \in S
  BY LineFacts
<1>2. line \in Seq(S)
  BY <1>1, SeqMonotonic
<1>3. PICK full : full = Append(line, Newline)
  OBVIOUS
<1>4. /\ Len(full) = Len(line) + 1 /\ full[Len(line) + 1] = Newline
      /\ \A i \in 1 .. Len(line) : full[i] = line[i]
  <2>1. Newline \in S
    OBVIOUS
  <2> HIDE DEF S
  <2>2. /\ Len(Append(line, Newline)) = Len(line) + 1
        /\ Append(line, Newline)[Len(line) + 1] = Newline
        /\ \A i \in 1 .. Len(line) : Append(line, Newline)[i] = line[i]
    BY <1>2, <2>1, AppendProperties
  <2> QED
    BY <1>3, <2>2, Zenon
<1> DEFINE t == SubSeq(full, b + 1, Len(line) + 1)
<1>5. /\ t \in Seq(S)
      /\ Len(t) = IF b + 1 <= Len(line) + 1 THEN Len(line) + 1 - (b + 1) + 1 ELSE 0
      /\ \A i \in 1 .. Len(line) + 1 - (b + 1) + 1 : t[i] = full[b + 1 + i - 1]
  <2>1. \A i \in b + 1 .. Len(line) + 1 : full[i] \in S
    BY <1>1, <1>4
  <2>2. b + 1 \in Int /\ Len(line) + 1 \in Int
    BY <1>1
  <2> HIDE DEF S
  <2> QED
    BY <2>1, <2>2, SubSeqProperties
<1> HIDE DEF t, S
<1>6. Len(t) = IF b <= Len(line) THEN Len(line) + 1 - b ELSE 0
  BY <1>1, <1>5
<1>7. \A i \in 1 .. Len(line) + 1 - b : t[i] = full[b + i]
  <2>1. Len(line) + 1 - (b + 1) + 1 = Len(line) + 1 - b
        /\ \A i \in 1 .. Len(line) + 1 - b : b + 1 + i - 1 = b + i
    BY <1>1
  <2> QED
    BY <1>5, <2>1
<1>8. \A i \in 1 .. Len(line) - b : t[i] = line[b + i]
  <2> SUFFICES ASSUME NEW i \in 1 .. Len(line) - b PROVE t[i] = line[b + i]
    OBVIOUS
  <2>1. i \in 1 .. Len(line) + 1 - b /\ b + i \in 1 .. Len(line)
    BY <1>1
  <2> QED
    BY <1>4, <1>7, <2>1
<1>9. b <= Len(line) => t[Len(line) + 1 - b] = Newline
  <2> SUFFICES ASSUME b <= Len(line) PROVE t[Len(line) + 1 - b] = Newline
    OBVIOUS
  <2>1. Len(line) + 1 - b \in 1 .. Len(line) + 1 - b /\ b + (Len(line) + 1 - b) = Len(line) + 1
    BY <1>1
  <2>2. t[Len(line) + 1 - b] = full[b + (Len(line) + 1 - b)]
    BY <1>7, <2>1
  <2> QED
    BY <1>4, <2>1, <2>2
<1>10. t = <<>> <=> b > Len(line)
  <2>1. t = <<>> <=> Len(t) = 0
    BY <1>5, EmptySeq
  <2> QED
    BY <1>1, <1>6, <2>1
<1>11. t = Unread(line, b)
  BY <1>3 DEF t, Unread
<1> QED
  BY <1>5, <1>6, <1>8, <1>9, <1>10, <1>11, Zenon DEF S

LEMMA PieceFacts ==
  ASSUME NEW line, IsLine(line), NEW b \in Nat, b <= Len(line)
  PROVE  /\ IsLine(PieceAt(line, b))
         /\ Len(PieceAt(line, b)) = IF b + Room <= Len(line) THEN Room ELSE Len(line) - b
         /\ \A i \in 1 .. Len(PieceAt(line, b)) : PieceAt(line, b)[i] = line[b + i]
<1>1. Len(line) \in Nat /\ Room \in Nat
  BY LineFacts, Constants
<1>2. PICK e \in Nat : e = IF b + Room <= Len(line) THEN b + Room ELSE Len(line)
  BY <1>1
<1>3. e <= Len(line) /\ b + 1 \in Nat \ {0} /\ b <= e
  BY <1>1, <1>2
<1> DEFINE p == SubSeq(line, b + 1, e)
<1>4. /\ IsLine(p) /\ Len(p) = IF b + 1 <= e THEN e - (b + 1) + 1 ELSE 0
      /\ \A i \in 1 .. Len(p) : p[i] = line[b + 1 + i - 1]
  BY <1>3, PartOfLine
<1>5. PieceAt(line, b) = p
  BY <1>2 DEF PieceAt
<1> HIDE DEF p
<1>6. Len(p) = IF b + Room <= Len(line) THEN Room ELSE Len(line) - b
  BY <1>1, <1>2, <1>3, <1>4
<1>7. Len(p) \in Nat /\ \A i \in 1 .. Len(p) : b + 1 + i - 1 = b + i
  BY <1>1, <1>6
<1>8. \A i \in 1 .. Len(p) : p[i] = line[b + i]
  BY <1>4, <1>7
<1> QED
  BY <1>4, <1>5, <1>6, <1>8, Zenon

LEMMA PieceIsRead ==
  ASSUME NEW line, IsLine(line), NEW b \in Nat, b <= Len(line),
         NEW n \in Nat, n = IF b + Room <= Len(line) THEN Room ELSE Len(line) - b,
         NEW read, \A i \in 1 .. n : read[i] = line[b + i]
  PROVE  SubSeq(read, 1, n) = PieceAt(line, b)
<1>1. IsLine(PieceAt(line, b)) /\ Len(PieceAt(line, b)) = n
      /\ \A i \in 1 .. n : PieceAt(line, b)[i] = line[b + i]
  BY PieceFacts
<1>2. PieceAt(line, b) \in Seq(Letters)
  BY <1>1, LineFacts
<1>3. \A i \in 1 .. n : PieceAt(line, b)[i] \in Letters
  BY <1>1, LineFacts
<1>4. 1 \in Int /\ n \in Int
  OBVIOUS
<1>5. PICK t : t = SubSeq(read, 1, n)
  OBVIOUS
<1>6. \A i \in 1 .. n : read[i] \in Letters
  BY <1>1, <1>3
<1>7. /\ t \in Seq(Letters)
      /\ Len(t) = IF 1 <= n THEN n - 1 + 1 ELSE 0
      /\ \A i \in 1 .. n - 1 + 1 : t[i] = read[1 + i - 1]
  BY <1>4, <1>5, <1>6, PartFacts
<1>8. Len(t) = n /\ n - 1 + 1 = n /\ \A i \in 1 .. n : 1 + i - 1 = i
  BY <1>7
<1>9. \A i \in 1 .. n : t[i] = PieceAt(line, b)[i]
  BY <1>1, <1>7, <1>8
<1>10. t = PieceAt(line, b)
  BY <1>1, <1>2, <1>7, <1>8, <1>9, SeqEqual
<1> QED
  BY <1>5, <1>10

LEMMA RestIsLeft ==
  ASSUME NEW line, IsLine(line), NEW b \in Nat, b <= Len(line),
         NEW rest \in Seq(Letters \cup {Newline}), Len(rest) = Len(line) + 1 - b,
         \A i \in 1 .. Len(line) - b : rest[i] = line[b + i],
         rest[Len(line) + 1 - b] = Newline
  PROVE  SubSeq(rest, Room + 1, Len(line) + 1 - b) = Unread(line, b + Room)
<1> DEFINE S == Letters \cup {Newline}
           L == Len(line)
<1>a. L \in Nat /\ Room \in Nat /\ Room >= 1 /\ b <= L
  BY LineFacts, Constants
<1>b. /\ \A i \in 1 .. L - b : rest[i] = line[b + i]
      /\ rest[L + 1 - b] = Newline
      /\ \A i \in 1 .. L + 1 - b : rest[i] \in S
  BY ElementOfSeq
<1> HIDE DEF S, L
<1>1. b + Room \in Nat
  BY <1>a
<1>2. PICK u : u = Unread(line, b + Room)
  OBVIOUS
<1>3. /\ u \in Seq(S)
      /\ Len(u) = IF b + Room <= L THEN L + 1 - (b + Room) ELSE 0
      /\ \A i \in 1 .. L - (b + Room) : u[i] = line[b + Room + i]
      /\ b + Room <= L => u[L + 1 - (b + Room)] = Newline
  BY <1>1, <1>2, UnreadFacts DEF S, L
<1>4. \A i \in Room + 1 .. L + 1 - b : rest[i] \in S
  BY <1>a, <1>b
<1>5. Room + 1 \in Int /\ L + 1 - b \in Int
  BY <1>a
<1>6. PICK t : t = SubSeq(rest, Room + 1, L + 1 - b)
  OBVIOUS
<1>8. /\ t \in Seq(S)
      /\ Len(t) = IF Room + 1 <= L + 1 - b THEN (L + 1 - b) - (Room + 1) + 1 ELSE 0
      /\ \A i \in 1 .. (L + 1 - b) - (Room + 1) + 1 : t[i] = rest[Room + 1 + i - 1]
  BY <1>4, <1>5, <1>6, PartFacts
<1>9. Len(t) = Len(u)
  BY <1>a, <1>3, <1>8
<1>10. ASSUME NEW i \in 1 .. Len(u) PROVE t[i] = u[i]
  <2>1. b + Room <= L /\ Len(u) = L + 1 - (b + Room)
    BY <1>a, <1>3
  <2>2. i \in 1 .. (L + 1 - b) - (Room + 1) + 1 /\ Room + 1 + i - 1 = Room + i
        /\ Room + i \in 1 .. L + 1 - b
    BY <1>a, <2>1
  <2>3. t[i] = rest[Room + i]
    BY <1>8, <2>2
  <2>4. CASE i = L + 1 - (b + Room)
    <3>1. Room + i = L + 1 - b
      BY <1>a, <2>4
    <3> QED
      BY <1>b, <1>3, <2>1, <2>3, <2>4, <3>1
  <2>5. CASE i # L + 1 - (b + Room)
    <3>1. i \in 1 .. L - (b + Room) /\ Room + i \in 1 .. L - b /\ b + (Room + i) = b + Room + i
      BY <1>a, <2>1, <2>5
    <3> QED
      BY <1>b, <1>3, <2>3, <3>1
  <2> QED
    BY <2>4, <2>5
<1>11. t = u
  BY <1>3, <1>8, <1>9, <1>10, SeqEqual
<1> QED
  BY <1>2, <1>6, <1>11 DEF L

\* One call of fgets takes the next piece of the line and leaves the rest of it.
LEMMA FgetsFacts ==
  ASSUME NEW line, IsLine(line), NEW b \in Nat, b <= Len(line),
         NEW rest, rest = Unread(line, b),
         NEW read, read = SubSeq(rest, 1, Min({Room, Len(rest)}))
  PROVE  /\ SubSeq(read, 1, StrCSpn(read)) = PieceAt(line, b)
         /\ SubSeq(rest, Room + 1, Len(rest)) = Unread(line, b + Room)
<1> DEFINE S == Letters \cup {Newline}
           L == Len(line)
<1>1. L \in Nat /\ Room \in Nat /\ Room >= 1 /\ \A i \in 1 .. L : line[i] # Newline
  BY LineFacts, Constants DEF Letters
<1>2. /\ rest \in Seq(S) /\ Len(rest) = L + 1 - b
      /\ \A i \in 1 .. L - b : rest[i] = line[b + i]
      /\ rest[L + 1 - b] = Newline
  <2>1. rest \in Seq(S) /\ Len(rest) = IF b <= L THEN L + 1 - b ELSE 0
    BY UnreadFacts
  <2> QED
    BY <2>1, UnreadFacts
<1>3. \A i \in 1 .. L + 1 - b : rest[i] \in S
  BY <1>2, ElementOfSeq
<1> HIDE DEF S, L
<1>4. PICK m \in Nat : m = IF Room <= L + 1 - b THEN Room ELSE L + 1 - b
  BY <1>1, <1>2 DEF L
<1>5. m >= 1 /\ m <= L + 1 - b /\ m <= Room
  BY <1>1, <1>4 DEF L
<1>6. Min({Room, Len(rest)}) = m
  <2>1. L + 1 - b \in Nat
    BY <1>1 DEF L
  <2>2. m \in {Room, L + 1 - b} /\ \A y \in {Room, L + 1 - b} : m <= y
    BY <1>1, <1>4, <2>1
  <2>3. \A x \in {Room, L + 1 - b} : (\A y \in {Room, L + 1 - b} : x <= y) => x = m
    BY <1>1, <2>1, <2>2
  <2>4. Min({Room, L + 1 - b}) = m
    BY <2>2, <2>3 DEF Min
  <2> QED
    BY <1>2, <2>4
<1>7. read \in Seq(S) /\ Len(read) = m /\ \A i \in 1 .. m : read[i] = rest[i]
  <2>1. \A i \in 1 .. m : rest[i] \in S
    BY <1>1, <1>3, <1>5 DEF L
  <2>2. 1 \in Int /\ m \in Int
    OBVIOUS
  <2>3. /\ SubSeq(rest, 1, m) \in Seq(S)
        /\ Len(SubSeq(rest, 1, m)) = IF 1 <= m THEN m - 1 + 1 ELSE 0
        /\ \A i \in 1 .. m - 1 + 1 : SubSeq(rest, 1, m)[i] = rest[1 + i - 1]
    BY <2>1, <2>2, SubSeqProperties
  <2>4. read = SubSeq(rest, 1, m)
    BY <1>6
  <2>5. /\ read \in Seq(S)
        /\ Len(read) = IF 1 <= m THEN m - 1 + 1 ELSE 0
        /\ \A i \in 1 .. m - 1 + 1 : read[i] = rest[1 + i - 1]
    BY <2>3, <2>4, Zenon
  <2>6. m - 1 + 1 = m /\ \A i \in 1 .. m : 1 + i - 1 = i
    BY <1>5
  <2> QED
    BY <1>5, <2>5, <2>6
<1>8. PICK n \in Nat : n = IF b + Room <= L THEN Room ELSE L - b
  <2>1. L - b \in Nat
    BY <1>1 DEF L
  <2> QED
    BY <1>1, <2>1
<1>9. n <= m /\ n <= L - b
  BY <1>1, <1>4, <1>8 DEF L
<1>10. StrCSpn(read) = n
  <2>1. \A i \in 1 .. Len(read) - 1 : read[i] # Newline
    <3> SUFFICES ASSUME NEW i \in 1 .. Len(read) - 1 PROVE read[i] # Newline
      OBVIOUS
    <3>1. i \in 1 .. m /\ i \in 1 .. L - b /\ b + i \in 1 .. L
      BY <1>1, <1>5, <1>7 DEF L
    <3> QED
      BY <1>1, <1>2, <1>7, <3>1 DEF L
  <2>2. StrCSpn(read) = IF Len(read) # 0 /\ read[Len(read)] = Newline
                        THEN Len(read) - 1 ELSE Len(read)
    BY <1>7, <2>1, SpanFacts
  <2>3. CASE b + Room <= L
    <3>1. m = Room /\ m \in 1 .. L - b /\ b + m \in 1 .. L /\ m \in 1 .. m
      BY <1>1, <1>4, <1>5, <2>3 DEF L
    <3>2. read[m] # Newline
      BY <1>1, <1>2, <1>7, <3>1 DEF L
    <3> QED
      BY <1>7, <1>8, <2>2, <2>3, <3>1, <3>2
  <2>4. CASE ~(b + Room <= L)
    <3>1. m = L + 1 - b /\ m \in 1 .. m
      BY <1>1, <1>4, <1>5, <2>4 DEF L
    <3>2. read[m] = Newline
      BY <1>2, <1>7, <3>1
    <3> QED
      BY <1>1, <1>5, <1>7, <1>8, <2>2, <2>4, <3>1, <3>2 DEF L
  <2> QED
    BY <2>3, <2>4
<1>11. SubSeq(read, 1, n) = PieceAt(line, b)
  <2>1. \A i \in 1 .. n : i \in 1 .. m /\ i \in 1 .. L - b
    BY <1>1, <1>9 DEF L
  <2>2. \A i \in 1 .. n : read[i] = line[b + i]
    BY <1>2, <1>7, <2>1
  <2> QED
    BY <1>8, <2>2, PieceIsRead DEF L
<1>12. SubSeq(rest, Room + 1, L + 1 - b) = Unread(line, b + Room)
  BY <1>2, RestIsLeft DEF S, L
<1> QED
  BY <1>2, <1>10, <1>11, <1>12

-----------------------------------------------------------------------------
(* The invariant.                                                          *)

TypeInv ==
  /\ IsLine(entered)
  /\ flags \in SUBSET {"connected", "loggedIn"}
  /\ name \in Words \cup {Address, NullName}
  /\ pswd \in Words \cup {NullName, NULL}
  /\ last \in {"list", "conn", "text", "disconn"}
  /\ crashed \in BOOLEAN

\* A client speaks after its login and not before.
SessionInv ==
  "connected" \in flags => IF LoggedIn THEN last \in {"conn", "text"} ELSE last = "list"

\* The line is read in pieces of Room letters.  What is in the buffer is one of
\* them, and what is to be read is all that is behind it.
LineInv ==
  /\ buff = NULL /\ input # <<>> =>
       \E k \in Nat : k * Room <= Len(entered) /\ input = Unread(entered, k * Room)
  /\ buff # NULL =>
       \E k \in Nat : /\ k * Room <= Len(entered)
                      /\ input = Unread(entered, (k + 1) * Room)
                      /\ buff = PieceAt(entered, k * Room)

IInv == TypeInv /\ SessionInv /\ LineInv

LEMMA Products ==
  ASSUME NEW k \in Nat
  PROVE  /\ k * Room \in Nat /\ (k + 1) * Room = k * Room + Room
         /\ k # 0 => k * Room >= Room
         /\ 0 * Room = 0
<1>1. Room \in Nat
  BY Constants
<1>2. k * Room \in Nat /\ (k + 1) * Room = k * Room + Room /\ 0 * Room = 0
  BY <1>1
<1>3. k # 0 => k * Room >= Room
  <2> SUFFICES ASSUME k # 0 PROVE k * Room >= Room
    OBVIOUS
  <2>1. PICK j \in Nat : k = j + 1
    <3>1. k - 1 \in Nat /\ k = k - 1 + 1
      OBVIOUS
    <3> QED
      BY <3>1
  <2>2. (j + 1) * Room = j * Room + Room /\ j * Room \in Nat
    BY <1>1
  <2> QED
    BY <1>1, <2>1, <2>2
<1> QED
  BY <1>2, <1>3

LEMMA WholeLine ==
  ASSUME NEW line, IsLine(line)
  PROVE  Append(line, Newline) = Unread(line, 0) /\ Append(line, Newline) # <<>>
<1>1. PICK full : full = Append(line, Newline)
  OBVIOUS
<1>2. full \in Seq(Letters \cup {Newline}) /\ Len(full) = Len(line) + 1 /\ Len(line) \in Nat
  <2>1. line \in Seq(Letters \cup {Newline}) /\ Newline \in Letters \cup {Newline}
    BY LineFacts, SeqMonotonic
  <2>2. /\ Append(line, Newline) \in Seq(Letters \cup {Newline})
        /\ Len(Append(line, Newline)) = Len(line) + 1
    BY <2>1, AppendProperties
  <2> QED
    BY <1>1, <2>2, LineFacts, Zenon
<1>3. SubSeq(full, 1, Len(full)) = full
  BY <1>2, SubSeqFull
<1>4. Unread(line, 0) = SubSeq(full, 1, Len(full))
  <2>1. 0 + 1 = 1
    OBVIOUS
  <2> QED
    BY <1>1, <1>2, <2>1, Zenon DEF Unread
<1>5. Len(full) # 0
  BY <1>2
<1>6. full # <<>>
  BY <1>5, EmptySeq
<1> QED
  BY <1>1, <1>3, <1>4, <1>6, Zenon

LEMMA BuffIsLine ==
  ASSUME IInv, buff # NULL
  PROVE  IsLine(buff)
<1>1. PICK k \in Nat : k * Room <= Len(entered) /\ buff = PieceAt(entered, k * Room)
  BY DEF IInv, LineInv
<1>2. k * Room \in Nat /\ IsLine(entered)
  BY Products DEF IInv, TypeInv
<1>3. IsLine(PieceAt(entered, k * Room))
  BY <1>1, <1>2, PieceFacts
<1> QED
  BY <1>1, <1>3, Zenon

LEMMA InitInv == Init => IInv
<1>1. IsLine(<<>>)
  BY EmptySeq DEF IsLine
<1> QED
  BY <1>1, Zenon DEF Init, IInv, TypeInv, SessionInv, LineInv, LoggedIn

\* When the listener has parsed a piece it goes on with the next of the line.
LEMMA ParsedInv ==
  ASSUME IInv, NEW action, Parsed(action)
  PROVE  LineInv' /\ IsLine(entered)'
<1>1. buff # NULL /\ buff' = NULL /\ input' = input
      /\ entered' = IF input = <<>> THEN <<>> ELSE entered
  BY DEF Parsed
<1>2. CASE input = <<>>
  <2>1. IsLine(<<>>)
    BY EmptySeq DEF IsLine
  <2> QED
    BY <1>1, <1>2, <2>1 DEF LineInv
<1>3. CASE input # <<>>
  <2>1. PICK k \in Nat : input = Unread(entered, (k + 1) * Room)
    BY <1>1 DEF IInv, LineInv
  <2>2. k + 1 \in Nat
    OBVIOUS
  <2>3. (k + 1) * Room \in Nat
    BY <2>2, Products
  <2>4. IsLine(entered) /\ Len(entered) \in Nat
    BY LineFacts DEF IInv, TypeInv
  <2>5. ~((k + 1) * Room > Len(entered))
    BY <1>3, <2>1, <2>3, <2>4, UnreadFacts
  <2>6. (k + 1) * Room <= Len(entered)
    BY <2>3, <2>4, <2>5
  <2>7. entered' = entered
    BY <1>1, <1>3
  <2> QED
    BY <1>1, <2>1, <2>2, <2>4, <2>6, <2>7 DEF LineInv
<1> QED
  BY <1>2, <1>3

LEMMA StepInv == IInv /\ [Next]_vars => IInv'
<1> SUFFICES ASSUME IInv, [Next]_vars PROVE IInv'
  OBVIOUS
<1>a. IsLine(entered) /\ LoggedIn \in BOOLEAN
  BY DEF IInv, TypeInv, LoggedIn
<1>1. CASE Send
  <2>1. buff' = buff /\ buff = NULL /\ UNCHANGED client /\ crashed' = crashed
    BY <1>1 DEF Send
  <2>2. PICK line \in Lines : line = entered'
    BY <1>1 DEF Send
  <2>3. IsLine(line)
    BY Constants
  <2>4. input' = Append(line, Newline)
    BY <1>1, <2>2, Zenon DEF Send
  <2>5. input' = Unread(line, 0 * Room) /\ 0 * Room <= Len(line) /\ 0 \in Nat
    <3>1. 0 * Room = 0 /\ 0 \in Nat
      BY Products
    <3>2. 0 <= Len(line)
      BY <2>3, LineFacts
    <3>3. Append(line, Newline) = Unread(line, 0)
      BY <2>3, WholeLine
    <3> QED
      BY <2>4, <3>1, <3>2, <3>3, Zenon
  <2>6. LineInv'
    BY <2>1, <2>2, <2>5, Zenon DEF LineInv
  <2>7. TypeInv' /\ SessionInv'
    BY <2>1, <2>2, <2>3 DEF IInv, TypeInv, SessionInv, LoggedIn, client
  <2> QED
    BY <2>6, <2>7 DEF IInv
<1>2. CASE Fgets
  <2>1. buff = NULL /\ input # <<>> /\ entered' = entered /\ UNCHANGED client /\ crashed' = crashed
    BY <1>2 DEF Fgets
  <2>2. PICK k \in Nat : k * Room <= Len(entered) /\ input = Unread(entered, k * Room)
    BY <2>1 DEF IInv, LineInv
  <2>3. k * Room \in Nat /\ (k + 1) * Room = k * Room + Room
    BY Products
  <2>4. PICK read : read = SubSeq(input, 1, Min({Room, Len(input)}))
    OBVIOUS
  <2>5. /\ SubSeq(read, 1, StrCSpn(read)) = PieceAt(entered, k * Room)
        /\ SubSeq(input, Room + 1, Len(input)) = Unread(entered, k * Room + Room)
    BY <1>a, <2>2, <2>3, <2>4, FgetsFacts
  <2>6. buff' = SubSeq(read, 1, StrCSpn(read)) /\ input' = SubSeq(input, Room + 1, Len(input))
    BY <1>2, <2>4, Zenon DEF Fgets
  <2>7. buff' = PieceAt(entered, k * Room) /\ input' = Unread(entered, (k + 1) * Room)
    BY <2>3, <2>5, <2>6, Zenon
  <2>8. LineInv'
    <3>1. ASSUME buff' = NULL, input' # <<>>
          PROVE  \E j \in Nat : j * Room <= Len(entered) /\ input' = Unread(entered, j * Room)
      <4>1. k + 1 \in Nat
        OBVIOUS
      <4>2. PICK b \in Nat : b = (k + 1) * Room
        BY <4>1, Products
      <4>3. ~(b > Len(entered)) /\ Len(entered) \in Nat
        BY <1>a, <2>7, <3>1, <4>2, UnreadFacts, LineFacts
      <4>4. b <= Len(entered)
        BY <4>3
      <4> QED
        BY <2>7, <4>1, <4>2, <4>4, Zenon
    <3>2. \E j \in Nat : /\ j * Room <= Len(entered)
                         /\ input' = Unread(entered, (j + 1) * Room)
                         /\ buff' = PieceAt(entered, j * Room)
      BY <2>2, <2>7, Zenon
    <3> QED
      BY <2>1, <3>1, <3>2, Zenon DEF LineInv
  <2>9. TypeInv' /\ SessionInv'
    BY <2>1 DEF IInv, TypeInv, SessionInv, LoggedIn, client
  <2> QED
    BY <2>8, <2>9 DEF IInv
<1>b. ASSUME Listening, buff # NULL
      PROVE  /\ ParseCommand(LoggedIn, buff).do = "login" =>
                  ~LoggedIn /\ ParseCommand(LoggedIn, buff).user \in Words \cup {NULL}
             /\ ParseCommand(LoggedIn, buff).do \in {"leave", "say"} => LoggedIn
  <2>1. IsLine(buff)
    BY <1>b, BuffIsLine
  <2> QED
    BY <1>a, <2>1, ParseFacts
<1>3. CASE Login
  <2>1. Parsed("login") /\ Listening /\ buff # NULL /\ ParseCommand(LoggedIn, buff).do = "login"
    BY <1>3 DEF Login, Parsed
  <2>2. LineInv' /\ IsLine(entered)'
    BY <2>1, ParsedInv
  <2>3. PICK user \in Words \cup {NULL} : user = ParseCommand(LoggedIn, buff).user
    BY <1>b, <2>1
  <2>4. name' = Copied(user) /\ pswd' = name' /\ flags' = flags \cup {"loggedIn"}
        /\ last' = "conn" /\ crashed' = crashed
    BY <1>3, <2>3, Zenon DEF Login
  <2>5. name' \in Words \cup {NullName}
    BY <2>3, <2>4 DEF Copied
  <2>6. TypeInv' /\ SessionInv'
    BY <2>2, <2>4, <2>5 DEF IInv, TypeInv, SessionInv, LoggedIn
  <2> QED
    BY <2>2, <2>6 DEF IInv
<1>4. CASE Say
  <2>1. Parsed("say") /\ Listening /\ buff # NULL /\ ParseCommand(LoggedIn, buff).do = "say"
    BY <1>4 DEF Say, Parsed
  <2>2. LineInv' /\ IsLine(entered)'
    BY <2>1, ParsedInv
  <2>3. LoggedIn /\ last' = "text" /\ UNCHANGED <<flags, name, pswd, crashed>>
    BY <1>4, <1>b, <2>1 DEF Say
  <2>4. TypeInv' /\ SessionInv'
    BY <2>2, <2>3 DEF IInv, TypeInv, SessionInv, LoggedIn
  <2> QED
    BY <2>2, <2>4 DEF IInv
<1>5. CASE Leave
  <2>1. LineInv' /\ IsLine(entered)'
    BY <1>5, ParsedInv DEF Leave
  <2>2. TypeInv' /\ SessionInv'
    BY <1>5, <2>1 DEF Leave, IInv, TypeInv, SessionInv, LoggedIn
  <2> QED
    BY <2>1, <2>2 DEF IInv
<1>6. CASE Refuse \/ Crash
  <2>1. (Parsed("error") \/ Parsed("ignore") \/ Parsed("crash")) /\ UNCHANGED client
        /\ crashed' \in BOOLEAN
    BY <1>6 DEF Refuse, Crash, IInv, TypeInv
  <2>2. LineInv' /\ IsLine(entered)'
    BY <2>1, ParsedInv
  <2>3. TypeInv' /\ SessionInv'
    BY <2>1, <2>2 DEF IInv, TypeInv, SessionInv, LoggedIn, client
  <2> QED
    BY <2>2, <2>3 DEF IInv
<1>7. CASE UNCHANGED vars
  BY <1>7 DEF vars, client, IInv, TypeInv, SessionInv, LineInv, LoggedIn
<1> QED
  BY <1>1, <1>2, <1>3, <1>4, <1>5, <1>6, <1>7 DEF Next

LEMMA Invariance == Spec => []IInv
  BY InitInv, StepInv, PTL DEF Spec

-----------------------------------------------------------------------------
(* What follows from the invariant.                                        *)

\* For any words, lines and buffer, what the listener knows of its client keeps
\* its type, and a piece of a line is a line: no newline is left in it.
THEOREM TypeCorrect == Spec => []TypeOK
<1>1. IInv => TypeOK
  <2> SUFFICES ASSUME IInv PROVE TypeOK
    OBVIOUS
  <2>1. buff = NULL \/ IsLine(buff)
    BY BuffIsLine
  <2>2. input \in Seq(Words \cup {Space, Newline})
    <3>1. Letters \cup {Newline} = Words \cup {Space, Newline}
      BY DEF Letters
    <3>2. CASE input = <<>>
      BY <3>2, EmptySeq
    <3>3. CASE input # <<>>
      <4>1. \E k \in Nat : input = Unread(entered, k * Room)
        <5>1. CASE buff = NULL
          BY <3>3, <5>1 DEF IInv, LineInv
        <5>2. CASE buff # NULL
          <6>1. PICK k \in Nat : input = Unread(entered, (k + 1) * Room)
            BY <5>2 DEF IInv, LineInv
          <6>2. k + 1 \in Nat
            OBVIOUS
          <6> QED
            BY <6>1, <6>2, Zenon
        <5> QED
          BY <5>1, <5>2
      <4>2. PICK k \in Nat : input = Unread(entered, k * Room)
        BY <4>1
      <4>3. k * Room \in Nat /\ IsLine(entered)
        BY Products DEF IInv, TypeInv
      <4>4. Unread(entered, k * Room) \in Seq(Letters \cup {Newline})
        BY <4>3, UnreadFacts
      <4> QED
        BY <3>1, <4>2, <4>4, Zenon
    <3> QED
      BY <3>2, <3>3
  <2> QED
    BY <2>1, <2>2 DEF IInv, TypeInv, TypeOK
<1> QED
  BY <1>1, Invariance, PTL

\* Whatever words there are and whichever commands they begin, strtok_r, the
\* space count and the branches of client_parse_command together accept exactly the
\* lines of the grammar, and the only line that reads from NULL is a blank one
\* before the login.
THEOREM LinesAreUnderstood == Spec => []Understood
<1>1. IInv => Understood
  <2> SUFFICES ASSUME IInv, buff # NULL
               PROVE  LET does == ParseCommand(LoggedIn, buff).do
                      IN  /\ does = "login" <=> ~LoggedIn /\ IsLogin(buff)
                          /\ does = "leave" <=> LoggedIn /\ IsLeave(buff)
                          /\ does = "say" <=> LoggedIn /\ (IsMsg(buff) \/ ~IsCommand(buff))
                          /\ does = "crash" <=> ~LoggedIn /\ IsBlank(buff)
    BY DEF Understood
  <2>1. IsLine(buff) /\ LoggedIn \in BOOLEAN
    BY BuffIsLine DEF LoggedIn
  <2> QED
    BY <2>1, ParseFacts
<1> QED
  BY <1>1, Invariance, PTL

LEMMA Remainder ==
  ASSUME NEW R \in Nat \ {0}, NEW k \in Nat, NEW j \in 0 .. R - 1
  PROVE  (k * R + j) % R = j
  OBVIOUS

\* For every size of the buffer a line that leaves room for its newline is parsed
\* whole, and client_listen is given an empty line exactly when the letters of a
\* line are a multiple of what fgets reads at once.
THEOREM LinesComeInPieces == Spec => []PiecesOfLine
<1>1. IInv => PiecesOfLine
  <2> SUFFICES ASSUME IInv, buff # NULL
               PROVE  /\ Len(entered) < BuffSize - 1 => buff = entered /\ input = <<>>
                      /\ buff = <<>> <=> Len(entered) % (BuffSize - 1) = 0 /\ input = <<>>
    BY DEF PiecesOfLine
  <2>1. /\ IsLine(entered) /\ Len(entered) \in Nat /\ entered \in Seq(Letters)
        /\ Room \in Nat /\ Room >= 1 /\ BuffSize - 1 = Room
    BY LineFacts, Constants DEF IInv, TypeInv
  <2>2. PICK k \in Nat : /\ k * Room <= Len(entered)
                         /\ input = Unread(entered, (k + 1) * Room)
                         /\ buff = PieceAt(entered, k * Room)
    BY DEF IInv, LineInv
  <2>3. PICK b \in Nat : b = k * Room
    BY Products
  <2>4. /\ b <= Len(entered) /\ (k + 1) * Room = b + Room
        /\ k # 0 => b >= Room
        /\ k = 0 => b = 0
    BY <2>2, <2>3, Products
  <2>5. input = Unread(entered, b + Room) /\ buff = PieceAt(entered, b)
    BY <2>2, <2>3, <2>4, Zenon
  <2>6. input = <<>> <=> b + Room > Len(entered)
    <3>1. b + Room \in Nat
      BY <2>1
    <3>2. Unread(entered, b + Room) = <<>> <=> b + Room > Len(entered)
      BY <2>1, <3>1, UnreadFacts
    <3> QED
      BY <2>5, <3>2, Zenon
  <2>7. /\ IsLine(buff) /\ Len(buff) = IF b + Room <= Len(entered) THEN Room ELSE Len(entered) - b
        /\ \A i \in 1 .. Len(buff) : buff[i] = entered[b + i]
    <3>1. /\ IsLine(PieceAt(entered, b))
          /\ Len(PieceAt(entered, b)) = IF b + Room <= Len(entered) THEN Room ELSE Len(entered) - b
          /\ \A i \in 1 .. Len(PieceAt(entered, b)) : PieceAt(entered, b)[i] = entered[b + i]
      BY <2>1, <2>4, PieceFacts
    <3> QED
      BY <2>5, <3>1, Zenon
  <2>8. ASSUME Len(entered) < BuffSize - 1 PROVE buff = entered /\ input = <<>>
    <3>1. k = 0 /\ b = 0
      BY <2>1, <2>4, <2>8
    <3>2. b + Room > Len(entered)
      BY <2>1, <2>8, <3>1
    <3>3. Len(buff) = Len(entered) /\ buff \in Seq(Letters)
      BY <2>1, <2>7, <3>1, <3>2, LineFacts
    <3>4. \A i \in 1 .. Len(entered) : buff[i] = entered[i]
      <4>1. \A i \in 1 .. Len(entered) : b + i = i
        BY <3>1
      <4> QED
        BY <2>7, <3>3, <4>1
    <3>5. buff = entered
      BY <2>1, <3>3, <3>4, SeqEqual
    <3> QED
      BY <2>6, <3>2, <3>5
  <2>9. buff = <<>> <=> Len(buff) = 0
    BY <2>7, LineFacts
  <2>10. CASE b + Room <= Len(entered)
    BY <2>1, <2>6, <2>7, <2>9, <2>8, <2>10
  <2>11. CASE b + Room > Len(entered)
    <3>1. PICK j \in 0 .. Room - 1 : Len(entered) = k * Room + j
      <4>1. Len(entered) - b \in 0 .. Room - 1 /\ Len(entered) = b + (Len(entered) - b)
        BY <2>1, <2>4, <2>11
      <4> QED
        BY <2>3, <4>1
    <3>2. Len(entered) % Room = j
      <4>1. Room \in Nat \ {0}
        BY <2>1
      <4>2. (k * Room + j) % Room = j
        BY <4>1, Remainder
      <4> QED
        BY <3>1, <4>2
    <3>3. Len(buff) = j
      BY <2>1, <2>3, <2>4, <2>7, <2>11, <3>1
    <3> QED
      BY <2>1, <2>6, <2>8, <2>9, <2>11, <3>2, <3>3
  <2> QED
    BY <2>1, <2>4, <2>10, <2>11
<1> QED
  BY <1>1, Invariance, PTL

-----------------------------------------------------------------------------
(* ChatSession.                                                            *)

LEMMA SessionStep == IInv /\ [Next]_vars => [Session!Next]_(Session!vars)
<1> SUFFICES ASSUME IInv, [Next]_vars PROVE [Session!Next]_(Session!vars)
  OBVIOUS
<1> DEFINE lasts == [c \in {Client} |-> last]
           called == [c \in {Client} |-> name]
<1>1. CASE UNCHANGED <<last, name>>
  <2>1. lasts' = lasts /\ called' = called
    BY <1>1
  <2> QED
    BY <2>1 DEF Session!vars
<1>2. CASE Login
  <2>1. Listening /\ buff # NULL /\ ParseCommand(LoggedIn, buff).do = "login" /\ last' = "conn"
    BY <1>2 DEF Login, Parsed
  <2>2. IsLine(buff) /\ LoggedIn \in BOOLEAN
    BY <2>1, BuffIsLine DEF LoggedIn
  <2>3. ~LoggedIn /\ ParseCommand(LoggedIn, buff).user \in Words \cup {NULL}
    BY <2>1, <2>2, ParseFacts
  <2>4. last = "list"
    BY <2>1, <2>3 DEF IInv, SessionInv, Listening
  <2>5. PICK n \in Words \cup {NullName} : name' = n
    BY <1>2, <2>3 DEF Login, Copied
  <2>6. lasts[Client] \in {"list"} /\ lasts' = [lasts EXCEPT ![Client] = "conn"]
    BY <2>1, <2>4
  <2>7. called' = [called EXCEPT ![Client] = n]
    BY <2>5
  <2> QED
    BY <2>6, <2>7 DEF Session!Next, Session!LogIn, Session!Advance
<1>3. CASE Say
  <2>1. /\ Listening /\ buff # NULL /\ ParseCommand(LoggedIn, buff).do = "say"
        /\ last' = "text" /\ name' = name
    BY <1>3 DEF Say, Parsed
  <2>2. IsLine(buff) /\ LoggedIn \in BOOLEAN
    BY <2>1, BuffIsLine DEF LoggedIn
  <2>3. LoggedIn
    BY <2>1, <2>2, ParseFacts
  <2>4. last \in {"conn", "text"}
    BY <2>1, <2>3 DEF IInv, SessionInv, Listening
  <2>5. CASE last = "text"
    BY <1>1, <2>1, <2>5
  <2>6. CASE last = "conn"
    <3>1. lasts[Client] \in {"conn"} /\ lasts' = [lasts EXCEPT ![Client] = "text"]
      BY <2>1, <2>6
    <3>2. called' = called
      BY <2>1
    <3> QED
      BY <3>1, <3>2 DEF Session!Next, Session!Say, Session!Advance
  <2> QED
    BY <2>4, <2>5, <2>6
<1>4. CASE Leave
  <2>1. /\ Listening /\ buff # NULL /\ ParseCommand(LoggedIn, buff).do = "leave"
        /\ last' = "disconn" /\ name' = name
    BY <1>4 DEF Leave, Parsed
  <2>2. IsLine(buff) /\ LoggedIn \in BOOLEAN
    BY <2>1, BuffIsLine DEF LoggedIn
  <2>3. LoggedIn
    BY <2>1, <2>2, ParseFacts
  <2>4. last \in {"conn", "text"}
    BY <2>1, <2>3 DEF IInv, SessionInv, Listening
  <2>5. lasts[Client] \in {"conn", "text"} /\ lasts' = [lasts EXCEPT ![Client] = "disconn"]
    BY <2>1, <2>4
  <2>6. called' = called
    BY <2>1
  <2> QED
    BY <2>5, <2>6 DEF Session!Next, Session!Leave, Session!Advance
<1>5. CASE Send \/ Fgets \/ Refuse \/ Crash \/ UNCHANGED vars
  <2>1. UNCHANGED <<last, name>>
    BY <1>5 DEF Send, Fgets, Refuse, Crash, vars, client
  <2> QED
    BY <1>1, <2>1
<1> QED
  BY <1>2, <1>3, <1>4, <1>5 DEF Next

\* Whatever lines come in whatever pieces, each step of the listener is one of the
\* session ChatSession promises or leaves it as it is.
THEOREM ImplementsSession == Spec => KeepsSession
<1>1. IInv /\ [Next]_vars => [Session!Next]_(Session!vars)
  BY SessionStep
<1> QED
  BY <1>1, Invariance, PTL DEF Spec, KeepsSession
=============================================================================
