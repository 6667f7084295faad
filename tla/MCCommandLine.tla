---------------------------- MODULE MCCommandLine ---------------------------
(* CommandLine with a word for every way to open a command: /l opens two,  *)
(* /le is a part of one, /login and /msg are whole, /x opens none and bob  *)
(* is no command.                                                          *)
EXTENDS CommandLine

CONSTANTS MaxLen

SomeWords == {"/l", "/le", "/login", "/msg", "/x", "bob"}
WithSlash == SomeWords \ {"bob"}
Commands ==
  [w \in SomeWords |->
     CASE w = "/l" -> {"/leave", "/login"} [] w = "/le" -> {"/leave"}
       [] w = "/login" -> {"/login"} [] w = "/msg" -> {"/msg"} [] OTHER -> {}]

\* No word follows a word.
ShortLines ==
  {s \in BoundedSeq(SomeWords \cup {Space}, MaxLen) :
     \A i \in 1 .. Len(s) - 1 : s[i] = Space \/ s[i + 1] = Space}
=============================================================================
