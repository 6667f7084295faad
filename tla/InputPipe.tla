----------------------------- MODULE InputPipe -------------------------------
(***************************************************************************)
(* What the input side of the Java client promises: the lines that are     *)
(* entered go out once and in the order they were entered, without those   *)
(* the client handles itself, until the window is closed, which adds the   *)
(* goodbye.  ClientInput shows that its two threads do this; Chat puts a   *)
(* server at the other end.                                                *)
(***************************************************************************)
EXTENDS Naturals, Sequences

CONSTANTS
  Lines,      \* the lines a user types
  Local,      \* the lines CommandParser handles itself: "/" with "clear" in it
  Empty,      \* the empty text
  Goodbye,    \* the line "leave" that is written when the window closes
  MaxSubmits  \* bound: how often the user presses Enter

ASSUME InputAssumption ==
  /\ Local \subseteq Lines
  /\ {Empty, Goodbye} \cap Lines = {} /\ Empty # Goodbye
  /\ MaxSubmits \in Nat

VARIABLES
  submitted, \* the lines entered, in order
  handled,   \* how many of them the write thread has dealt with
  wire,      \* the lines written to the socket
  window     \* "open", "closing" once the goodbye is written, or "closed"

vars == <<submitted, handled, wire, window>>

Init == submitted = <<>> /\ handled = 0 /\ wire = <<>> /\ window = "open"

Submit ==
  /\ window = "open"
  /\ Len(submitted) < MaxSubmits
  /\ \E l \in Lines \cup {Empty} : submitted' = Append(submitted, l)
  /\ UNCHANGED <<handled, wire, window>>

\* A line is written, or handled here, or dropped as the socket is closed.
Handle ==
  /\ handled < Len(submitted)
  /\ handled' = handled + 1
  /\ LET l == submitted[handled']
     IN wire' = IF l \in Local \/ window = "closed" THEN wire ELSE Append(wire, l)
  /\ UNCHANGED <<submitted, window>>

SayGoodbye ==
  /\ window = "open" /\ window' = "closing"
  /\ wire' = wire \o <<Goodbye, Goodbye>>
  /\ UNCHANGED <<submitted, handled>>

Shut ==
  /\ window = "closing" /\ window' = "closed"
  /\ UNCHANGED <<submitted, handled, wire>>

Next == Submit \/ Handle \/ SayGoodbye \/ Shut

Spec == Init /\ [][Next]_vars

\* Every line is dealt with while the window is open, and a window that is closing
\* closes.
FairSpec == Spec /\ WF_vars(Handle /\ window = "open") /\ WF_vars(Shut)
=============================================================================
