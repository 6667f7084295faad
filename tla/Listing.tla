------------------------------- MODULE Listing ------------------------------
(***************************************************************************)
(* The listing of client_send_clients, letter by letter: a worker appends  *)
(* the names of the list to a buffer that grows behind it, while listeners *)
(* write names without a lock, and the Java client cuts what it gets into  *)
(* users.                                                                  *)
(*                                                                         *)
(* The worker holds the mutex of the list, so the list does not change. A  *)
(* name may: a letter read while the name is copied is the old one or the  *)
(* new one, and the first may be the terminator that snprintf of the usual *)
(* C libraries puts there before it writes.                                *)
(*                                                                         *)
(* A definition marked FAULT is not part of the specification.  It is the  *)
(* definition below it with a programming error; README.md names the       *)
(* property that TLC finds violated with it.                               *)
(***************************************************************************)
EXTENDS SequencesExt, FiniteSets

CONSTANTS
  NameSize,   \* CLIENT_NAME_SIZE
  Addresses,  \* the addresses clients connect from
  Users,      \* the names they may log in with
  MaxClients, \* bound: the length of the list
  Characters, \* the values of a char
  Comma, Nul  \* two of them

AllocSize == NameSize * 2

ASSUME ListingAssumption ==
  /\ NameSize \in Nat \ {0, 1} /\ MaxClients \in Nat
  /\ {Comma, Nul} \subseteq Characters /\ Comma # Nul
  /\ Addresses \cup Users \subseteq Seq(Characters)
  /\ \A s \in Addresses \cup Users : s # <<>> /\ ~Contains(s, Nul)
  /\ \A s \in Addresses : Len(s) < NameSize /\ ~Contains(s, Comma)

VARIABLES
  old, new,  \* the name of each client in the list, before and after its login
  login,     \* which name is there: "old", "copying" or "new"
  pc,        \* where the worker is
  turn,      \* the client whose name is being appended
  from,      \* where that name begins in the buffer
  torn,      \* history: the clients that logged in while their name was read
  buffer,    \* what was appended to the buffer
  capacity   \* what was allocated for it

names == <<old, new>>
vars == <<names, login, pc, turn, from, torn, buffer, capacity>>

\* strcpy_n: what does not fit is cut off, and a terminator is always there.
StrCpyN(s) == SubSeq(s, 1, Min({Len(s), NameSize - 1}))

\* s_calloc(1, ALLOC_SIZE).
Init ==
  /\ \E n \in 0 .. MaxClients :
       /\ old \in [1 .. n -> Addresses]
       /\ \E typed \in [1 .. n -> Users] : new = [i \in 1 .. n |-> StrCpyN(typed[i])]
       /\ login = [i \in 1 .. n |-> "old"]
  /\ pc = "name" /\ turn = 1 /\ from = 0
  /\ torn = {}
  /\ buffer = <<>> /\ capacity = AllocSize

-----------------------------------------------------------------------------
(* The listeners: strcpy_n in client_login.                                *)

StartCopy(i) ==
  /\ login[i] = "old"
  /\ login' = [login EXCEPT ![i] = "copying"]
  /\ torn' = IF turn = i THEN torn \cup {i} ELSE torn
  /\ UNCHANGED <<names, pc, turn, from, buffer, capacity>>

EndCopy(i) ==
  /\ login[i] = "copying"
  /\ login' = [login EXCEPT ![i] = "new"]
  /\ UNCHANGED <<names, pc, turn, from, torn, buffer, capacity>>

\* The array holds the letters of a name and zeros; a new name is written over
\* the old one, after a terminator at its beginning.
LetterOf(s, j) == IF j <= Len(s) THEN s[j] ELSE Nul
After(i, j) == IF j <= Len(new[i]) + 1 THEN LetterOf(new[i], j) ELSE LetterOf(old[i], j)
Letters(i, j) ==
  CASE login[i] = "old" -> {LetterOf(old[i], j)}
    [] login[i] = "new" -> {After(i, j)}
    [] OTHER -> {LetterOf(old[i], j), After(i, j)} \cup (IF j = 1 THEN {Nul} ELSE {})

-----------------------------------------------------------------------------
(* The worker: client_send_clients.                                        *)

\* The letter strncat reads next.
Position == Len(buffer) - from + 1

\* strncat of the name, a letter at a time.
AppendLetter ==
  /\ pc = "name" /\ turn <= Len(old)
  /\ \E x \in Letters(turn, Position) \ {Nul} : buffer' = Append(buffer, x)
  /\ torn' = IF login[turn] = "copying" THEN torn \cup {turn} ELSE torn
  /\ UNCHANGED <<names, login, pc, turn, from, capacity>>

\* It ends at a terminator, or after CLIENT_NAME_SIZE letters.
EndName ==
  /\ pc = "name" /\ turn <= Len(old)
  /\ Position > NameSize \/ Nul \in Letters(turn, Position)
  /\ torn' = IF login[turn] = "copying" THEN torn \cup {turn} ELSE torn
  /\ pc' = "comma"
  /\ UNCHANGED <<names, login, turn, from, buffer, capacity>>

\* strncat of the comma.
AppendComma ==
  /\ pc = "comma"
  /\ buffer' = Append(buffer, Comma)
  /\ pc' = "grow"
  /\ UNCHANGED <<names, login, turn, from, torn, capacity>>

GrownOnce == AllocSize \* FAULT: does not count the clients
Grown == turn * AllocSize

\* s_realloc; turn is num_clients.
Grow ==
  /\ pc = "grow"
  /\ capacity' = Grown
  /\ turn' = turn + 1 /\ from' = Len(buffer)
  /\ pc' = "name"
  /\ UNCHANGED <<names, login, torn, buffer>>

\* The last comma becomes the terminator; without one the write goes to NULL.
CutAtFirst == SubSeq(buffer, 1, SelectInSeq(buffer, LAMBDA x : x = Comma) - 1) \* FAULT: strchr
Undelimited == Front(buffer)
Finish ==
  /\ pc = "name" /\ turn > Len(old)
  /\ IF Contains(buffer, Comma)
     THEN buffer' = Undelimited /\ pc' = "sent"
     ELSE pc' = "crashed" /\ UNCHANGED buffer
  /\ UNCHANGED <<names, login, turn, from, torn, capacity>>

Next ==
  \/ \E i \in DOMAIN old : StartCopy(i) \/ EndCopy(i)
  \/ AppendLetter \/ EndName \/ AppendComma \/ Grow \/ Finish

Spec == Init /\ [][Next]_vars

-----------------------------------------------------------------------------
(* Properties.                                                             *)

\* The letters of the name that is being appended.
Piece == SubSeq(buffer, from + 1, Len(buffer))

\* A name ends inside its array, however reader and writer meet, and the buffer
\* with its terminator stays inside its memory, with one exception, by one byte:
\* the comma of the second client, when both names have full length.
StaysInside ==
  /\ pc \in {"name", "comma"} => Len(Piece) < NameSize
  /\ Len(buffer) + 1 <= capacity
       \/ /\ pc = "grow" /\ turn = 2
          /\ from = NameSize /\ Len(Piece) = NameSize
          /\ Len(buffer) + 1 = capacity + 1

\* ReadThread.parseLine splits at the commas: a string without one stays as it is,
\* even if it is empty, and of another the empty pieces at the end are dropped.
Commas(s) == {0, Len(s) + 1} \cup {i \in DOMAIN s : s[i] = Comma}
\* The place with k of them in front of it.
Cut(s, k) == CHOOSE c \in Commas(s) : Cardinality({d \in Commas(s) : d < c}) = k
Pieces(s) ==
  [k \in 1 .. Cardinality(Commas(s)) - 1 |-> SubSeq(s, Cut(s, k - 1) + 1, Cut(s, k) - 1)]
Split(s) ==
  IF Contains(s, Comma)
  THEN SubSeq(Pieces(s), 1, Max({0} \cup {k \in DOMAIN Pieces(s) : Pieces(s)[k] # <<>>}))
  ELSE <<s>>

\* If no user has a comma in the name, the client shows no more users than the
\* list has clients, and each client whose name was not copied while it was read
\* at its own place, under its address or the name it logs in with.  (One that
\* logged in meanwhile may be shown under an empty or a mixed name, or be missing
\* at the end.)  The listing fails exactly when the list is empty.
ShowsTheList ==
  /\ pc = "crashed" => old = <<>>
  /\ pc = "sent" /\ (\A i \in DOMAIN new : ~Contains(new[i], Comma)) =>
       /\ Len(Split(buffer)) <= Len(old)
       /\ \A i \in DOMAIN old \ torn :
            i \in DOMAIN Split(buffer) /\ Split(buffer)[i] \in {old[i], new[i]}
=============================================================================
