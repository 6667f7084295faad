----------------------------- MODULE CommandLine ----------------------------
(***************************************************************************)
(* How a listener reads a line and what it makes of it: client_listen and  *)
(* the client_parse functions of client.c with the string helpers of       *)
(* utils.c.                                                                *)
(*                                                                         *)
(* A line is a sequence of words and single spaces in which no word follows*)
(* a word.  Of the letters of a word the code sees two things: whether the *)
(* first is a slash, and which commands the word is a beginning of.        *)
(*                                                                         *)
(* A definition marked FAULT is not part of the specification.  It is the  *)
(* definition below it with a programming error; README.md names the       *)
(* property that TLC finds violated with it.                               *)
(***************************************************************************)
EXTENDS SequencesExt, FiniteSets

CONSTANTS
  Client,    \* the client of the listener
  Words,     \* the words a line is made of
  Slashed,   \* the words that begin with a slash
  Opens,     \* Opens[w]: the commands that begin with w
  Space, Newline,
  Lines,     \* bound: the lines the peer may send
  BuffSize,  \* sizeof buff
  Everybody, \* the receiver "BROADCAST"
  Address,   \* the name of a client before it logs in
  NullName,  \* "(null)", which printf makes of NULL
  NULL

IsLine(s) ==
  /\ s \in Seq(Words \cup {Space})
  /\ \A i \in 1 .. Len(s) - 1 : s[i] = Space \/ s[i + 1] = Space

ASSUME CommandAssumption ==
  /\ Slashed \subseteq Words
  /\ Opens \in [Words -> SUBSET {"/leave", "/msg", "/login"}]
  /\ \A w \in Words : Opens[w] # {} => w \in Slashed
  /\ {Space, Newline, NULL} \cap Words = {} /\ Space # Newline
  /\ \A l \in Lines : IsLine(l)
  /\ BuffSize \in Nat \ {0, 1}

VARIABLES
  entered, \* history: the line that is being read
  input,   \* what of it the listener has not read yet
  buff,    \* the piece fgets returned, or NULL
  flags, name, pswd, \* of the client_s
  last,    \* history: the kind of the last task of the client
  crashed  \* the process is gone

client == <<flags, name, pswd, last>>
vars == <<entered, input, buff, client, crashed>>

Init ==
  /\ entered = <<>> /\ input = <<>> /\ buff = NULL
  /\ flags = {"connected"} /\ name = Address /\ pswd = NULL
  /\ last = "list"
  /\ crashed = FALSE

-----------------------------------------------------------------------------
(* utils.c and strtok_r.                                                   *)

\* str_eq(word, command, strlen(word)): a beginning of the command will do.
StrEq(word, command) == command \in Opens[word]

StrIsEmpty(s) == s = <<>>
StrCount(s) == Cardinality({i \in DOMAIN s : s[i] = Space})

\* strtok_r(s, " ", &rest): the first word, or NULL, and what follows the space
\* behind it.
FirstWordAtOnce(s) == IF s # <<>> /\ s[1] # Space THEN 1 ELSE 0 \* FAULT: strsep
FirstWord(s) == SelectInSeq(s, LAMBDA x : x # Space)
Token(s) == IF FirstWord(s) = 0 THEN NULL ELSE s[FirstWord(s)]
Rest(s) == IF FirstWord(s) = 0 THEN <<>> ELSE SubSeq(s, FirstWord(s) + 2, Len(s))

-----------------------------------------------------------------------------
(* client_parse_command and what it calls: what is to be done with a line. *)

Error == [do |-> "error"]

ParseLeave(rest) == IF StrIsEmpty(rest) THEN [do |-> "leave"] ELSE Error

ParseMsg(rest) ==
  IF Token(rest) = NULL \/ StrIsEmpty(Rest(rest)) THEN Error
  ELSE [do |-> "say", to |-> Token(rest), text |-> Rest(rest)]

LoginIsFormed(loggedIn, rest) == ~StrIsEmpty(rest) /\ StrCount(rest) = 1 \* FAULT: again and again
LoginIsAllowed(loggedIn, rest) == ~loggedIn /\ ~StrIsEmpty(rest) /\ StrCount(rest) = 1

ParseLogin(loggedIn, rest) ==
  IF ~LoginIsAllowed(loggedIn, rest) THEN Error
  ELSE [do |-> "login", user |-> Token(rest)]

IsCommand(line) == line # <<>> /\ line[1] \in Slashed

\* Without a word before the login, strlen reads from NULL.
ParseCommand(loggedIn, line) ==
  IF loggedIn /\ ~IsCommand(line) THEN [do |-> "say", to |-> Everybody, text |-> line]
  ELSE LET command == Token(line)
           Is(name_) == StrEq(command, name_)
       IN IF command = NULL THEN [do |-> "crash"]
          ELSE IF loggedIn /\ Is("/leave") THEN ParseLeave(Rest(line))
          ELSE IF loggedIn /\ Is("/msg") THEN ParseMsg(Rest(line))
          ELSE IF Is("/login") THEN ParseLogin(loggedIn, Rest(line))
          ELSE IF loggedIn THEN [do |-> "ignore"] ELSE Error

-----------------------------------------------------------------------------
LoggedIn == "loggedIn" \in flags
Listening == "connected" \in flags /\ ~crashed

\* The peer sends a line; more would only wait.
Send ==
  /\ input = <<>> /\ buff = NULL
  /\ entered' \in Lines
  /\ input' = Append(entered', Newline)
  /\ UNCHANGED <<buff, client, crashed>>

\* strcspn(s, "\n"): how much of s is before a newline.
StrCSpn(s) ==
  LET i == SelectInSeq(s, LAMBDA x : x = Newline) IN IF i = 0 THEN Len(s) ELSE i - 1

\* fgets leaves room for the terminator; what is behind the newline is cut off.
RoomForAll == BuffSize \* FAULT: no terminator
Room == BuffSize - 1
Fgets ==
  /\ Listening /\ buff = NULL /\ input # <<>>
  /\ LET read == SubSeq(input, 1, Min({Room, Len(input)}))
     IN buff' = SubSeq(read, 1, StrCSpn(read))
  /\ input' = SubSeq(input, Room + 1, Len(input))
  /\ UNCHANGED <<entered, client, crashed>>

\* client_parse_command returns and the listener goes round its loop.
Parsed(action) ==
  /\ Listening /\ buff # NULL
  /\ ParseCommand(LoggedIn, buff).do = action
  /\ buff' = NULL
  /\ entered' = IF input = <<>> THEN <<>> ELSE entered
  /\ UNCHANGED input

\* strcpy_n prints NULL as a word.
CopiedRaw(user) == user \* FAULT: strcpy_n copies NULL
Copied(user) == IF user = NULL THEN NullName ELSE user

\* client_login; the place of the password is given the name.
Login ==
  /\ Parsed("login")
  /\ name' = Copied(ParseCommand(LoggedIn, buff).user)
  /\ pswd' = name'
  /\ flags' = flags \cup {"loggedIn"}
  /\ last' = "conn"
  /\ UNCHANGED crashed

\* task_queue_createtask with what the client says.
Say == Parsed("say") /\ last' = "text" /\ UNCHANGED <<flags, name, pswd, crashed>>

\* client_leave of a client that is in no room.
Leave ==
  /\ Parsed("leave")
  /\ flags' = flags \ {"connected"}
  /\ last' = "disconn"
  /\ UNCHANGED <<name, pswd, crashed>>

\* An error is reported to the client, or the command is ignored.
Refuse == (Parsed("error") \/ Parsed("ignore")) /\ UNCHANGED <<client, crashed>>

Crash == Parsed("crash") /\ crashed' = TRUE /\ UNCHANGED client

Next == Send \/ Fgets \/ Login \/ Say \/ Leave \/ Refuse \/ Crash

Spec == Init /\ [][Next]_vars

-----------------------------------------------------------------------------
(* Properties.                                                             *)

\* Every variable keeps its type.
TypeOK ==
  /\ IsLine(entered)
  /\ input \in Seq(Words \cup {Space, Newline})
  /\ buff = NULL \/ IsLine(buff)
  /\ flags \in SUBSET {"connected", "loggedIn"}
  /\ name \in Words \cup {Address, NullName}
  /\ pswd \in Words \cup {NullName, NULL}
  /\ last \in {"list", "conn", "text", "disconn"}
  /\ crashed \in BOOLEAN

\* The grammar the parser accepts, by what a line is put together from.  It is
\* wider than the usage messages of client.c: any beginning of a command will do
\* for the command, and the name or the password of a login may be missing.
Beginnings(command) == {w \in Words : command \in Opens[w]}
IsBlank(s) == \A i \in DOMAIN s : s[i] = Space
\* s is blank, w, a space, and then r.
IsAfter(s, w, r) == \E n \in 0 .. Len(s) :
  IsBlank(SubSeq(s, 1, n)) /\ s = SubSeq(s, 1, n) \o <<w, Space>> \o r
Credentials ==
  {<<Space>>} \cup (UNION {{<<u, Space>>, <<Space, u>>} : u \in Words})
    \cup {<<u, Space, p>> : u, p \in Words}

IsLogin(s) == \E w \in Beginnings("/login"), r \in Credentials : IsAfter(s, w, r)
IsLeave(s) == \E w \in Beginnings("/leave") : s \in {<<w>>, <<w, Space>>}
IsMsg(s) ==
  /\ \E w \in Beginnings("/msg") \ Beginnings("/leave") : s # <<>> /\ s[1] = w
  /\ \E r \in Words, n \in 2 .. Len(s) - 1 :
       IsAfter(SubSeq(s, 2, n + 1), r, <<>>) /\ n + 1 < Len(s)

\* What client_parse_command does with a piece is what this grammar says.  It is
\* what the code accepts and not what its messages ask for: client.c:250 says
\* "usage: /login <name> <password>", but the name, the password or both may be
\* missing, and utils.c:8 calls str_eq the same as strcmp, but any beginning of a
\* command is that command.  It lets go exactly for a beginning of /leave alone; all
\* else that is said is text of someone logged in; and strlen(NULL) is reached
\* exactly by a line without a word before the login.
Understood ==
  buff # NULL =>
    LET does == ParseCommand(LoggedIn, buff).do
    IN  /\ does = "login" <=> ~LoggedIn /\ IsLogin(buff)
        /\ does = "leave" <=> LoggedIn /\ IsLeave(buff)
        /\ does = "say" <=> LoggedIn /\ (IsMsg(buff) \/ ~IsCommand(buff))
        /\ does = "crash" <=> ~LoggedIn /\ IsBlank(buff)

\* A line that leaves room for its newline is parsed once and as it was sent.
\* A longer one is parsed in pieces as if each were a line, and one that fills the
\* buffer, or a multiple of it, is followed by an empty line nobody sent.
PiecesOfLine ==
  buff # NULL =>
    /\ Len(entered) < BuffSize - 1 => buff = entered /\ input = <<>>
    /\ buff = <<>> <=> Len(entered) % (BuffSize - 1) = 0 /\ input = <<>>

Session == INSTANCE ChatSession WITH
  Clients <- {Client}, Names <- Words \cup {NullName},
  last <- [c \in {Client} |-> last], name <- [c \in {Client} |-> name]

\* From the listing on, whatever lines come in whatever pieces, the listener
\* keeps to ChatSession: one login, a name that stays, no word before and none
\* after.
KeepsSession == [][Session!Next]_(Session!vars)
=============================================================================
