-------------------------------- MODULE Chat ---------------------------------
(***************************************************************************)
(* One Java client and what the server does with its connection: the input *)
(* side (InputPipe), the read thread with the list of users (ReadThread,   *)
(* ConnectedUsersPane), and the session at the server, with other users    *)
(* who come and go.                                                        *)
(*                                                                         *)
(* The server is ChatServer seen from this client.  Its workers write to a *)
(* client in any order, so what is on its way to the client is a set.  Text*)
(* that is only shown is left out, and so are this client in the listing,  *)
(* what other clients do to the server, and freed memory (ClientList), with*)
(* which nothing is certain.  A line longer than the listener's buffer     *)
(* counts as the lines it reads of it (CommandLine).                       *)
(*                                                                         *)
(* A definition marked FAULT is not part of the specification.  It is the  *)
(* definition below it with a programming error; README.md names the       *)
(* property that TLC finds violated with it.                               *)
(***************************************************************************)
EXTENDS InputPipe, FiniteSets

CONSTANTS
  LoginLine, LeaveLine, \* the lines of Lines that are commands
  BlankLine,            \* the one that is made of spaces
  Self,                 \* the name this client logs in with
  Others,               \* the other users
  WithComma,            \* the names with a comma
  WithConnected,        \* the names with "connected" in them
  Vanishing,            \* those of which parseLine leaves nothing, as "connected"
  Fragment,             \* a part of a name, which is nobody's name
  MaxLogins             \* bound: how often others log in

Everyone == Others \cup {Self}

ASSUME ChatClientAssumption ==
  /\ {LoginLine, LeaveLine, BlankLine} \subseteq Lines \ Local
  /\ LoginLine \notin {LeaveLine, BlankLine} /\ LeaveLine # BlankLine
  /\ Self \notin Others /\ Fragment \notin Everyone
  /\ WithComma \cup WithConnected \subseteq Everyone /\ Vanishing \subseteq WithConnected
  /\ MaxLogins \in Nat

VARIABLES
  joined,  \* this client is in the list of the server
  session, \* its session: "anonymous", "named" or "over"; "crashed" or "killed" if
           \* the server is
  served,  \* how many lines of the wire the listener has read
  greeted, \* the listing was sent
  online,  \* the other users who are logged in
  logins,  \* how often one of them has logged in
  missed,  \* history: who logged in after the listing and before this client joined
  coming,  \* the messages sent to this client and not yet read by it
  reader,  \* where the read thread is
  users    \* the labels in the list of users

server == <<joined, session, served, greeted, online, logins, missed>>
output == <<reader, users>>
chatVars == <<vars, server, coming, output>>

ChatInit ==
  /\ Init
  /\ joined = FALSE /\ session = "anonymous" /\ served = 0 /\ greeted = FALSE
  /\ online = {} /\ logins = 0 /\ missed = {}
  /\ coming = {}
  /\ reader = "test" /\ users = {}

-----------------------------------------------------------------------------
(* The server.  A message has the number of MSG_TYPE and the users it names.*)

MessageOneBased(type, about) == [type |-> type + 1, about |-> about] \* FAULT: from one
Message(type, about) == [type |-> type, about |-> about]
Send(message) == coming' = coming \cup {message}

Connected == session \in {"anonymous", "named"}

\* With the server, or the session, goes what no worker has written yet.
Lose == coming' \in SUBSET coming

\* The worker's listing, which may be copied before or after the client joins.
Greet ==
  /\ Connected /\ ~greeted /\ greeted' = TRUE
  /\ Send(Message(0, online))
  /\ UNCHANGED <<vars, joined, session, served, online, logins, missed, output>>

\* If the list is empty there is no comma to cut off, and client_send_clients
\* writes through NULL.  It is not if others are connected, logged in or not.
GreetNobody ==
  /\ Connected /\ ~greeted /\ ~joined /\ online = {}
  /\ session' = "crashed" /\ Lose
  /\ UNCHANGED <<vars, joined, served, greeted, online, logins, missed, output>>

Join ==
  /\ Connected /\ ~joined /\ joined' = TRUE
  /\ UNCHANGED <<vars, session, served, greeted, online, logins, missed, coming, output>>

\* The command in a line, which ends the session only with its slash.
IsLeaveOrGoodbye(line_) == line_ \in {LeaveLine, Goodbye} \* FAULT: no slash needed
IsLeave(line_) == line_ = LeaveLine

\* The listener reads a line and carries it out.  A client that is not logged in
\* gets an error, except for a login, which is announced to it too, and for a line
\* without a word: strtok_r returns NULL, and the server ends.  What one that is
\* logged in says is text.
Serve ==
  /\ joined /\ Connected /\ served < Len(wire)
  /\ served' = served + 1
  /\ LET said == wire[served + 1]
     IN session' = CASE session = "anonymous" /\ said = LoginLine -> "named"
                     [] session = "anonymous" /\ said \in {Empty, BlankLine} -> "crashed"
                     [] session = "named" /\ IsLeave(said) -> "over"
                     [] OTHER -> session
  /\ CASE session' = session -> UNCHANGED coming
       [] session' = "named" /\ session # "named" -> Send(Message(1, {Self}))
       [] OTHER -> Lose
  /\ UNCHANGED <<vars, joined, greeted, online, logins, missed, output>>

\* Nobody ignores SIGPIPE: a write to the client may end the server once the
\* window has closed its end.
HangUp ==
  /\ Connected /\ window = "closed"
  /\ session' = "killed" /\ Lose
  /\ UNCHANGED <<vars, joined, served, greeted, online, logins, missed, output>>

\* An announcement goes to the clients in the list when it is made, and to those
\* who join before a worker has walked to the end.  What the others do after this
\* session does not concern it.
Announced(message) == Send(message) \/ (~joined /\ UNCHANGED coming)

OtherLogsIn(u) ==
  /\ Connected /\ u \notin online
  /\ logins < MaxLogins /\ logins' = logins + 1
  /\ online' = online \cup {u}
  /\ missed' = IF greeted /\ ~joined THEN missed \cup {u} ELSE missed
  /\ Announced(Message(1, {u}))
  /\ UNCHANGED <<vars, joined, session, served, greeted, output>>

OtherLeaves(u) ==
  /\ Connected /\ u \in online
  /\ online' = online \ {u}
  /\ Announced(Message(2, {u}))
  /\ UNCHANGED <<vars, joined, session, served, greeted, logins, missed, output>>

-----------------------------------------------------------------------------
(* The read thread.                                                        *)

TestReader ==
  /\ reader = "test"
  /\ reader' = IF window # "closed" THEN "read" ELSE "done"
  /\ UNCHANGED <<vars, server, coming, users>>

\* parseLine cuts a listing at the commas, and an announcement at "connected." as
\* a regular expression, of which it keeps what is in front of the first match:
\* the users that are named in full (up to a space at the end, which is left out
\* here), and whether that throws as nothing is left.
Whole(m) == m.about \ (IF m.type = 0 THEN WithComma ELSE WithConnected)
Throws(m) == m.type = 1 /\ m.about \cap Vanishing # {}

\* They are added to the list; a farewell is only printed.
ListedRemoving(m) == \* FAULT: a farewell removes the user
  IF m.type < 2 THEN users \cup Whole(m) ELSE users \ m.about
Listed(m) ==
  CASE m.type = 2 -> users
    [] Whole(m) = m.about -> users \cup m.about
    [] OTHER -> users \cup Whole(m) \cup {Fragment}

AfterLineDone == "done" \* FAULT: the thread ends after a line
AfterLine == "read"

\* Nobody catches what parseLine throws: the thread dies and the window stays.
ReadMessage ==
  /\ reader = "read" /\ window # "closed"
  /\ \E m \in coming :
       /\ coming' = coming \ {m}
       /\ IF Throws(m) THEN reader' = "dead" /\ UNCHANGED users
                       ELSE reader' = AfterLine /\ users' = Listed(m)
  /\ UNCHANGED <<vars, server>>

\* readLine returns null when the server has closed the connection, and throws when
\* the window has.  The first is repeated until the second happens.
EndOfStream ==
  /\ reader = "read"
  /\ window = "closed" \/ (~Connected /\ coming = {})
  /\ reader' = "test"
  /\ UNCHANGED <<vars, server, coming, users>>

-----------------------------------------------------------------------------
ReaderStep == TestReader \/ ReadMessage \/ EndOfStream

ServerStep ==
  Greet \/ GreetNobody \/ Join \/ Serve \/ HangUp
  \/ \E u \in Others : OtherLogsIn(u) \/ OtherLeaves(u)

ChatNext == (Next /\ UNCHANGED <<server, coming, output>>) \/ ServerStep \/ ReaderStep

\* The threads of the client run; nobody has to type and the server may be slow.
ChatSpec ==
  /\ ChatInit /\ [][ChatNext]_chatVars
  /\ WF_chatVars(Handle /\ window = "open" /\ UNCHANGED <<server, coming, output>>)
  /\ WF_chatVars(Shut /\ UNCHANGED <<server, coming, output>>)
  /\ WF_chatVars(ReaderStep)

-----------------------------------------------------------------------------
(* Properties.                                                             *)

\* Every variable keeps its type.
ChatTypeOK ==
  /\ submitted \in Seq(Lines \cup {Empty}) /\ handled \in 0 .. Len(submitted)
  /\ wire \in Seq(Lines \cup {Empty, Goodbye}) /\ window \in {"open", "closing", "closed"}
  /\ joined \in BOOLEAN /\ greeted \in BOOLEAN
  /\ session \in {"anonymous", "named", "over", "crashed", "killed"}
  /\ served \in 0 .. Len(wire)
  /\ online \subseteq Others /\ missed \subseteq Others
  /\ logins \in 0 .. MaxLogins
  /\ coming \subseteq [type : 0 .. 2, about : SUBSET Everyone]
  /\ reader \in {"test", "read", "dead", "done"}
  /\ users \subseteq Everyone \cup {Fragment}

\* The session ends only if the user typed /leave after /login, whatever else was
\* sent and however the window was closed: WriteThread.close says leave and not
\* /leave, so a client whose window closes stays in the list.  And as far as it
\* depends on this client the server crashes in two cases only: a worker makes its
\* listing while the list is still empty, or it has sent an empty or a blank line
\* before it has logged in.
HowSessionsEnd ==
  /\ session = "over" => \E i, j \in DOMAIN submitted :
       i < j /\ submitted[i] = LoginLine /\ submitted[j] = LeaveLine
  /\ session = "crashed" =>
       \/ ~joined /\ ~greeted /\ online = {}
       \/ joined /\ \E j \in DOMAIN submitted :
            /\ submitted[j] \in {Empty, BlankLine}
            /\ \A i \in 1 .. j - 1 : submitted[i] # LoginLine
  /\ session = "killed" => window = "closed"

\* Everyone who is logged in under a name without a comma or "connected" in it is
\* in the list of users, or about to be, unless they logged in after the listing
\* was copied and before this client joined, or a message has ended the read
\* thread.  Since announcements and farewells overtake each other this rests on
\* farewells removing nobody.
OnlineIsShown ==
  greeted /\ Connected /\ reader # "dead" =>
    online \ (WithComma \cup WithConnected) \subseteq
      users \cup missed \cup UNION {m.about : m \in {n \in coming : n.type < 2}}

\* What the server has sent is read, or the window is closed, or a user called
\* "connected" was announced, which parseLine does not survive: the read thread
\* does not end before.
MessagesAreRead ==
  coming # {} ~> (coming = {} \/ window = "closed" \/ reader = "dead")
=============================================================================
