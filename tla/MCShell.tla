------------------------------- MODULE MCShell -------------------------------
(***************************************************************************)
(* Shell with a table of two scripts and a pool of two jobs: the jobs of   *)
(* the boot script fill the pool, and the user's scripts "a" and "b"       *)
(* compete for the slot of the table that "boot" leaves, so that the one   *)
(* that comes second finds the table full.                                 *)
(***************************************************************************)
EXTENDS Shell

Line(word, arg) == [word |-> word, arg |-> arg]

MCBootText == <<Line("&", "lora"), Line("&", "wifi")>>

MCTyped ==
  {Line("sleep", 1), Line("watch", "cat"), Line("kill", 1),
   Line("script", "a"), Line("script", "b"), End, Line("run", "a"), Line("loop", "a")}
=============================================================================
