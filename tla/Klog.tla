-------------------------------- MODULE Klog --------------------------------
(***************************************************************************)
(* kernel/klog.cpp: the ring buffer between klog() and klog_flush().       *)
(*                                                                         *)
(* klog.h argues that it needs no lock because only cooperative tasks call *)
(* it.  The lwIP callbacks of thingspeak.cpp call it too, in interrupt     *)
(* context, between any two instructions of the task that runs.  So a task *)
(* goes through klog() and klog_flush() step by step (`pc', with the value *)
(* it has loaded in `reg'), and a callback's klog() is one step, at any    *)
(* point of the task.  Two accesses make one step only where a callback    *)
(* between them does what it does before both.                             *)
(*                                                                         *)
(* `raced' is a history variable: a callback has logged where that can do  *)
(* harm.                                                                   *)
(***************************************************************************)
EXTENDS Integers, Sequences

CONSTANTS
  Msgs,           \* what can be logged
  QueueLen,       \* KLOG_QUEUE_LEN
  MaxDropped      \* bound on the count of dropped messages

Points == {"idle", "drop_store", "slot", "tag", "body", "head", "head_store", "count", "count_store",
           "flush", "tail", "dec", "dec_store", "report", "reset"}

ASSUME QueueLenAssumption == QueueLen \in Nat \ {0}
ASSUME MaxDroppedAssumption == MaxDropped \in Nat
ASSUME MsgsAssumption == Msgs # {}

VARIABLES
  queue, head, tail, count, dropped,
  line, reported,      \* what klog_flush() printed last: a line, a number of dropped messages
  pc, msg, slot, reg,  \* the task: where it is, its argument, local and register
  raced

ringVars == <<queue, head, tail, count, dropped, line, reported>>
vars == <<ringVars, pc, msg, slot, reg, raced>>

Indices == 0..(QueueLen - 1)

\* A line is the tag one snprintf() writes and the body the other one does.
Line == [tag : Msgs, body : Msgs]
Whole(m) == [tag |-> m, body |-> m]
Wholes == {Whole(m) : m \in Msgs}

TypeOK ==
  /\ queue \in [Indices -> Line]
  /\ head \in Indices /\ tail \in Indices /\ slot \in Indices
  /\ count \in Nat
  /\ dropped \in 0..MaxDropped /\ reported \in 0..MaxDropped
  /\ line \in Line
  /\ pc \in Points
  /\ msg \in Msgs
  /\ reg \in Nat
  /\ raced \in BOOLEAN

Init ==
  /\ \E m \in Msgs :
       /\ queue = [i \in Indices |-> Whole(m)]
       /\ line = Whole(m) /\ msg = m
  /\ head = 0 /\ tail = 0 /\ count = 0 /\ dropped = 0 /\ reported = 0
  /\ pc = "idle" /\ slot = 0 /\ reg = 0 /\ raced = FALSE

\* Mutant: one index short of the ring.
NextIndex_Short(i) == IF i >= QueueLen - 2 THEN 0 ELSE i + 1

NextIndex(i) == (i + 1) % QueueLen

-----------------------------------------------------------------------------
(* klog(), called by a task.                                               *)

\* Mutant: a ring with more in it than it holds is not full.
Full_Exactly == count = QueueLen

Full == count >= QueueLen

Klog(m) ==
  /\ pc = "idle"
  /\ \/ /\ Full /\ dropped < MaxDropped
        /\ pc' = "drop_store" /\ reg' = dropped
        /\ UNCHANGED msg
     \/ /\ ~Full
        /\ pc' = "slot" /\ msg' = m
        /\ UNCHANGED reg
  /\ UNCHANGED <<ringVars, slot, raced>>

StoreDropped ==
  /\ pc = "drop_store" /\ pc' = "idle"
  /\ dropped' = reg + 1
  /\ UNCHANGED <<queue, head, tail, count, line, reported, msg, slot, reg, raced>>

TakeSlot ==
  /\ pc = "slot" /\ pc' = "tag"
  /\ slot' = head
  /\ UNCHANGED <<ringVars, msg, reg, raced>>

WriteTag ==
  /\ pc = "tag" /\ pc' = "body"
  /\ queue' = [queue EXCEPT ![slot].tag = msg]
  /\ UNCHANGED <<head, tail, count, dropped, line, reported, msg, slot, reg, raced>>

WriteBody ==
  /\ pc = "body" /\ pc' = "head"
  /\ queue' = [queue EXCEPT ![slot].body = msg]
  /\ UNCHANGED <<head, tail, count, dropped, line, reported, msg, slot, reg, raced>>

LoadHead ==
  /\ pc = "head" /\ pc' = "head_store"
  /\ reg' = head
  /\ UNCHANGED <<ringVars, msg, slot, raced>>

StoreHead ==
  /\ pc = "head_store" /\ pc' = "count"
  /\ head' = NextIndex(reg)
  /\ UNCHANGED <<queue, tail, count, dropped, line, reported, msg, slot, reg, raced>>

LoadCount ==
  /\ pc = "count" /\ pc' = "count_store"
  /\ reg' = count
  /\ UNCHANGED <<ringVars, msg, slot, raced>>

StoreCount ==
  /\ pc = "count_store" /\ pc' = "idle"
  /\ count' = reg + 1
  /\ UNCHANGED <<queue, head, tail, dropped, line, reported, msg, slot, reg, raced>>

-----------------------------------------------------------------------------
(* klog_flush(), called by task_console.                                   *)

Flush ==
  /\ pc = "idle" /\ pc' = "flush"
  /\ UNCHANGED <<ringVars, msg, slot, reg, raced>>

\* Mutant: the last line waits for the next one.
NonEmpty_KeepsOne == count > 1

NonEmpty == count > 0

FlushLine ==
  /\ pc = "flush" /\ NonEmpty
  /\ pc' = "tail"
  /\ line' = queue[tail]
  /\ UNCHANGED <<queue, head, tail, count, dropped, reported, msg, slot, reg, raced>>

AdvanceTail ==
  /\ pc = "tail" /\ pc' = "dec"
  /\ tail' = NextIndex(tail)
  /\ UNCHANGED <<queue, head, count, dropped, line, reported, msg, slot, reg, raced>>

LoadCountDec ==
  /\ pc = "dec" /\ pc' = "dec_store"
  /\ reg' = count
  /\ UNCHANGED <<ringVars, msg, slot, raced>>

StoreCountDec ==
  /\ pc = "dec_store" /\ pc' = "flush"
  /\ count' = reg - 1
  /\ UNCHANGED <<queue, head, tail, dropped, line, reported, msg, slot, reg, raced>>

FlushDrained ==
  /\ pc = "flush" /\ ~NonEmpty
  /\ pc' = "report"
  /\ UNCHANGED <<ringVars, msg, slot, reg, raced>>

ReportDropped ==
  /\ pc = "report"
  /\ \/ dropped > 0 /\ reported' = dropped /\ pc' = "reset"
     \/ dropped = 0 /\ pc' = "idle" /\ UNCHANGED reported
  /\ UNCHANGED <<queue, head, tail, count, dropped, line, msg, slot, reg, raced>>

ResetDropped ==
  /\ pc = "reset" /\ pc' = "idle"
  /\ dropped' = 0
  /\ UNCHANGED <<queue, head, tail, count, line, reported, msg, slot, reg, raced>>

-----------------------------------------------------------------------------
(* klog(), called by an lwIP callback between two steps of the task.       *)

\* The task is writing to head's place, or has loaded what the callback changes; or the
\* callback takes the place the task has seen free; or its drop goes unreported.
Races ==
  \/ pc \in {"tag", "body", "head", "head_store", "count_store", "drop_store", "dec_store"}
  \/ pc \in {"slot", "count"} /\ count = QueueLen - 1
  \/ pc = "reset" /\ Full

KlogFromCallback(m) ==
  /\ \/ /\ Full /\ dropped < MaxDropped
        /\ dropped' = dropped + 1
        /\ UNCHANGED <<queue, head, count>>
     \/ /\ ~Full
        /\ queue' = [queue EXCEPT ![head] = Whole(m)]
        /\ head' = NextIndex(head)
        /\ count' = count + 1
        /\ UNCHANGED dropped
  /\ raced' = (raced \/ Races)
  /\ UNCHANGED <<tail, line, reported, pc, msg, slot, reg>>

TaskStep ==
  \/ StoreDropped
  \/ TakeSlot \/ WriteTag \/ WriteBody \/ LoadHead \/ StoreHead \/ LoadCount \/ StoreCount
  \/ FlushLine \/ AdvanceTail \/ LoadCountDec \/ StoreCountDec
  \/ FlushDrained \/ ReportDropped \/ ResetDropped

Next ==
  \/ \E m \in Msgs : Klog(m) \/ KlogFromCallback(m)
  \/ Flush
  \/ TaskStep

Safety == Init /\ [][Next]_vars

\* A task runs on to the end of a call, and the scheduler gets round to task_console.
Spec == Safety /\ WF_vars(TaskStep) /\ SF_vars(Flush)

-----------------------------------------------------------------------------
(* Properties.                                                             *)

\* The queue as the promise sees it.  From printing a line to count-- that line has
\* still its place in the ring, and once tail has moved on it is the one before tail.
Printed == pc \in {"tail", "dec", "dec_store"}
First == IF pc \in {"dec", "dec_store"} THEN (tail + QueueLen - 1) % QueueLen ELSE tail
Pending == [i \in 1..count |-> queue[(First + i - 1) % QueueLen]]

\* What has been reported is lost no more, though dropped is still to be reset.
Lost == IF pc = "reset" THEN 0 ELSE dropped

Log == INSTANCE LogQueue WITH
         Lines <- Wholes, Capacity <- QueueLen,
         pending <- Pending, printed <- Printed, lost <- Lost

\* The ring keeps the promise of klog.h, every line whole, in order and once, a drop only when
\* the ring is full and every drop reported, for as long as no callback has logged at one of
\* the points that Races names: wherever else lwIP interrupts a task, and however often.
KeepsPromiseUntilRaced == Log!Init /\ [][raced' \/ [Log!Next]_Log!vars]_vars

\* Even callbacks that race leave a count the ring survives: one more than it holds at the
\* most (kernel/klog.cpp:17 tests it, and a callback fills the ring, before line 33 counts the
\* task's own line), and never less than none, so that klog_flush() comes to an end.
CountInBounds == count \in 0..(QueueLen + 1)

\* Every line gets printed: as long as a line is queued that has not been printed, one is
\* printed some day, whatever the callbacks add and wherever they do (and lines leave in
\* order, KeepsPromiseUntilRaced).
LinesArePrinted == (Pending # <<>> /\ ~Printed) ~> Printed

\* "output from independent tasks is always whole lines, never interleaved mid-line"
\* (kernel/klog.h:8-9).
WholeLines == line.tag = line.body
=============================================================================
