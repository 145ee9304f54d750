------------------------------ MODULE LogQueue ------------------------------
(***************************************************************************)
(* What kernel/klog.h promises: lines logged from anywhere come out whole, *)
(* in the order of the calls and once each; a call that finds Capacity     *)
(* lines waiting is dropped, and each drop is reported once.  Klog is the  *)
(* ring buffer that implements it.                                         *)
(***************************************************************************)
EXTENDS Integers, Sequences

CONSTANTS Lines, Capacity

VARIABLES
  pending,  \* lines that take up room: logged and not yet done with
  printed,  \* the first of them has been printed and is still to be removed
  lost,     \* calls dropped and not yet reported
  line,     \* the line printed last
  reported  \* the number of drops reported last

vars == <<pending, printed, lost, line, reported>>

Log(m) ==
  /\ IF Len(pending) < Capacity
     THEN pending' = Append(pending, m) /\ UNCHANGED lost
     ELSE lost' = lost + 1 /\ UNCHANGED pending
  /\ UNCHANGED <<printed, line, reported>>

PrintLine ==
  /\ pending # <<>> /\ ~printed
  /\ line' = Head(pending)
  /\ printed' = TRUE
  /\ UNCHANGED <<pending, lost, reported>>

RemoveLine ==
  /\ printed
  /\ pending' = Tail(pending)
  /\ printed' = FALSE
  /\ UNCHANGED <<lost, line, reported>>

Report ==
  /\ lost > 0
  /\ reported' = lost /\ lost' = 0
  /\ UNCHANGED <<pending, printed, line>>

Init == pending = <<>> /\ ~printed /\ lost = 0 /\ reported = 0 /\ line \in Lines

Next ==
  \/ \E m \in Lines : Log(m)
  \/ PrintLine
  \/ RemoveLine
  \/ Report

Safety == Init /\ [][Next]_vars
=============================================================================
