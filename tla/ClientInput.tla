---------------------------- MODULE ClientInput -----------------------------
(***************************************************************************)
(* The input side of the Java client: the text field with its history      *)
(* (ClientInputField), the thread that writes the lines to the server      *)
(* (WriteThread with CommandParser) and the closing of the window          *)
(* (ClientFrame).                                                          *)
(*                                                                         *)
(* Two threads share the LinkedBlockingQueue: the event thread of Swing,   *)
(* which handles one key or window event at a time, and the write thread.  *)
(* An event is split where it calls the queue or the socket.               *)
(*                                                                         *)
(* A definition marked FAULT is not part of the specification.  It is the  *)
(* definition below it with a programming error; README.md names the       *)
(* property that TLC finds violated with it.                               *)
(***************************************************************************)
EXTENDS Integers, SequencesExt

CONSTANTS
  Lines,      \* the lines a user types
  Local,      \* the lines CommandParser handles itself: "/" with "clear" in it
  Empty,      \* the empty text
  Goodbye,    \* the line "leave" that is written when the window closes
  MaxSubmits, \* bound: how often the user presses Enter
  NULL        \* what peek returns of an empty queue

ASSUME InputAssumption ==
  /\ Local \subseteq Lines
  /\ {Empty, Goodbye, NULL} \cap Lines = {}
  /\ MaxSubmits \in Nat

VARIABLES
  queue,     \* INPUT_QUEUE
  field,     \* getText()
  history,   \* HISTORY
  index,     \* historyIndex, counted from 0 as in the code
  event,     \* where the event thread is
  writer,    \* where the write thread is
  line,      \* the local line of WriteThread.run
  wire,      \* the lines written to the socket
  open,      \* the socket is not closed
  submitted  \* history variable: the lines entered, in order

inputField == <<field, history, index>>
writeThread == <<writer, line>>
vars == <<queue, inputField, event, writeThread, wire, open, submitted>>

Init ==
  /\ queue = <<>>
  /\ field = Empty
  /\ history = <<>> /\ index = -1
  /\ event = "ready"
  /\ writer = "test" /\ line = Empty
  /\ wire = <<>>
  /\ open = TRUE
  /\ submitted = <<>>

Running == event # "exited"

-----------------------------------------------------------------------------
(* The event thread.                                                       *)

\* setText(null) shows the empty text.
TextRaw(entry) == entry \* FAULT: a field that keeps null
Text(entry) == IF entry = NULL THEN Empty ELSE entry

Type ==
  /\ event = "ready"
  /\ field' \in Lines
  /\ UNCHANGED <<queue, history, index, event, writeThread, wire, open, submitted>>

OfferedFirst(l) == <<l>> \o queue \* FAULT: a stack
Offered(l) == Append(queue, l)

\* Enter: offer, then a test of peek, then a second peek that is recorded.
Enter ==
  /\ event = "ready"
  /\ Len(submitted) < MaxSubmits
  /\ queue' = Offered(field)
  /\ submitted' = Append(submitted, field)
  /\ event' = "peek"
  /\ UNCHANGED <<inputField, writeThread, wire, open>>

Peek ==
  /\ event = "peek"
  /\ IF queue = <<>> THEN event' = "ready" /\ field' = Empty
     ELSE event' = "record" /\ UNCHANGED field
  /\ UNCHANGED <<queue, history, index, writeThread, wire, open, submitted>>

LastIndexOneBased(entries) == Len(entries) \* FAULT: historyIndex = HISTORY.size()
LastIndex(entries) == Len(entries) - 1

Record ==
  /\ event = "record"
  /\ history' = Append(history, IF queue = <<>> THEN NULL ELSE Head(queue))
  /\ index' = LastIndex(history')
  /\ event' = "ready" /\ field' = Empty
  /\ UNCHANGED <<queue, writeThread, wire, open, submitted>>

CanScrollUp == index - 1 >= 0

ScrollUp ==
  /\ event = "ready"
  /\ CanScrollUp
  /\ field' = Text(history[index + 1])
  /\ index' = index - 1
  /\ UNCHANGED <<queue, history, event, writeThread, wire, open, submitted>>

ScrollDown ==
  /\ event = "ready"
  /\ index + 1 < Len(history)
  /\ index' = index + 1
  /\ field' = Text(history[index' + 1])
  /\ UNCHANGED <<queue, history, event, writeThread, wire, open, submitted>>

\* The window is closed: WriteThread.close on the event thread, then exit.
Close ==
  /\ event = "ready"
  /\ wire' = wire \o <<Goodbye, Goodbye>>
  /\ event' = "close"
  /\ UNCHANGED <<queue, inputField, writeThread, open, submitted>>

CloseSocket ==
  /\ event = "close"
  /\ open' = FALSE
  /\ event' = "exit"
  /\ UNCHANGED <<queue, inputField, writeThread, wire, submitted>>

Exit ==
  /\ event = "exit"
  /\ event' = "exited"
  /\ UNCHANGED <<queue, inputField, writeThread, wire, open, submitted>>

-----------------------------------------------------------------------------
(* The write thread.                                                       *)

Test ==
  /\ Running /\ writer = "test"
  /\ writer' = IF open THEN "take" ELSE "done"
  /\ UNCHANGED <<queue, inputField, event, line, wire, open, submitted>>

TakeLine ==
  /\ Running /\ writer = "take"
  /\ queue # <<>>
  /\ line' = Head(queue) /\ queue' = Tail(queue)
  /\ writer' = "parse"
  /\ UNCHANGED <<inputField, event, wire, open, submitted>>

\* A local command goes no further.
Parse ==
  /\ Running /\ writer = "parse"
  /\ writer' = IF line \in Local THEN "test" ELSE "write"
  /\ UNCHANGED <<queue, inputField, event, line, wire, open, submitted>>

\* A PrintWriter whose socket is closed drops what it is given.
Write ==
  /\ Running /\ writer = "write"
  /\ wire' = IF open THEN Append(wire, line) ELSE wire
  /\ writer' = "test"
  /\ UNCHANGED <<queue, inputField, event, line, open, submitted>>

-----------------------------------------------------------------------------
EventStep == Peek \/ Record \/ CloseSocket \/ Exit
UserStep == Type \/ Enter \/ ScrollUp \/ ScrollDown \/ Close
WriterStep == Test \/ TakeLine \/ Parse \/ Write

Next == EventStep \/ UserStep \/ WriterStep

Spec == Init /\ [][Next]_vars

\* Both threads run; the user has to do nothing.
FairSpec == Spec /\ WF_vars(EventStep) /\ WF_vars(WriterStep)

-----------------------------------------------------------------------------
(* Properties.                                                             *)

\* Every variable keeps its type.
TypeOK ==
  /\ queue \in Seq(Lines \cup {Empty})
  /\ field \in Lines \cup {Empty}
  /\ history \in Seq(Lines \cup {Empty, NULL})
  /\ index \in Int
  /\ event \in {"ready", "peek", "record", "close", "exit", "exited"}
  /\ writer \in {"test", "take", "parse", "write", "done"}
  /\ line \in Lines \cup {Empty}
  /\ wire \in Seq(Lines \cup {Empty, Goodbye})
  /\ open \in BOOLEAN
  /\ submitted \in Seq(Lines \cup {Empty})

\* HISTORY.get is only called with an index of the vector, whatever keys are
\* pressed in whatever order.
IndexInRange ==
  IF history = <<>> THEN index = -1 ELSE 0 <= index /\ index < Len(history)

\* The lines between the text field and the wire.
Waiting == Len(queue) + (IF writer \in {"parse", "write"} THEN 1 ELSE 0)

Pipe == INSTANCE InputPipe WITH
  handled <- Len(submitted) - Waiting,
  window <- IF open THEN IF event = "close" THEN "closing" ELSE "open" ELSE "closed"

\* The two threads, the queue between them and the closing of the window are the
\* pipe of InputPipe: each line goes out once and in order, and none is left
\* behind while the window is open.
PipeSpec == Pipe!FairSpec
=============================================================================
