---------------------------- MODULE TaskScheduler ----------------------------
(***************************************************************************)
(* kernel/task.cpp: the table of periodic tasks that main()'s loop scans.  *)
(*                                                                         *)
(* Run or Pass is one turn of the loop in task_run().  Only a task's own   *)
(* run and main()'s sleep take time; Run and Sleep let it pass.  next_run  *)
(* is kept as the time left until then, negative once the task is late.    *)
(* What a task does is modelled by Gateway and the other modules: here a   *)
(* run is the time it takes, as a cooperative task delays all the others.  *)
(***************************************************************************)
EXTENDS Integers

CONSTANTS
  TaskCount,   \* task_count: tasks are numbered in the order of task_register()
  Period,      \* period_ms of each
  MaxCost,     \* bound: time one run of a task can take
  Nap          \* main()'s sleep_ms(1)

Tasks == 1..TaskCount

ASSUME TaskCountAssumption == TaskCount \in Nat \ {0}
ASSUME PeriodAssumption == Period \in [Tasks -> Nat]
ASSUME MaxCostAssumption == MaxCost \in Nat
ASSUME NapAssumption == Nap \in Nat \ {0}

VARIABLES
  left,     \* next_run of each task, minus the time
  i,        \* the loop variable of task_run(); past the table when it has returned
  ran       \* the task run last, 0 at first

vars == <<left, i, ran>>

TypeOK ==
  /\ left \in [Tasks -> Int]
  /\ i \in 1..(TaskCount + 1)
  /\ ran \in 0..TaskCount

\* The table as the calls of task_register() leave it, all within a moment.
Init ==
  /\ left = Period
  /\ i = 1
  /\ ran = 0

Due(t) == left[t] < 0

\* Mutant: the next run is a period after the last was due, to keep the beat.
Rearm_KeepsBeat(t, cost) ==
  [u \in Tasks |-> left[u] - cost + (IF u = t THEN Period[t] ELSE 0)]

\* next_run is counted from the start of the run.
Rearm(t, cost) ==
  [u \in Tasks |-> (IF u = t THEN Period[t] ELSE left[u]) - cost]

\* Mutant: a run that comes later than the next one is left out.
Run_LeavesOutLate ==
  /\ i \in Tasks /\ Due(i)
  /\ \E cost \in 0..MaxCost : left' = Rearm(i, cost)
  /\ ran' = IF left[i] < -Period[i] THEN ran ELSE i
  /\ i' = i + 1

Run ==
  /\ i \in Tasks /\ Due(i)
  /\ \E cost \in 0..MaxCost : left' = Rearm(i, cost)
  /\ ran' = i
  /\ i' = i + 1

Pass ==
  /\ i \in Tasks /\ ~Due(i)
  /\ i' = i + 1
  /\ UNCHANGED <<left, ran>>

Sleep ==
  /\ i = TaskCount + 1
  /\ i' = 1
  /\ left' = [t \in Tasks |-> left[t] - Nap]
  /\ UNCHANGED ran

Next == Run \/ Pass \/ Sleep

Safety == Init /\ [][Next]_vars

\* One core, one loop that never ends.
Spec == Safety /\ WF_vars(Next)

-----------------------------------------------------------------------------
(* Properties.                                                             *)

\* How many tasks the loop has passed since it looked at t.
Passed(t) == IF i > t THEN i - t - 1 ELSE TaskCount - t + i - 1

\* How late a task can already be when its own run ends.
Overrun(t) == IF MaxCost > Period[t] THEN MaxCost - Period[t] ELSE 0

\* The inductive invariant behind BoundedLateness: time has passed only in the runs of the
\* tasks passed since, and in the nap if the loop has come round.
LateBy(t) == Overrun(t) + Passed(t) * MaxCost + (IF i > t THEN 0 ELSE Nap)
LatenessByPosition == \A t \in Tasks : left[t] >= -LateBy(t)

IInv == TypeOK /\ LatenessByPosition

\* "Best-effort, no guarantee of exact timing" (kernel/task.h:21-22) is still a guarantee: a
\* task is never later than one run of every other task, one nap and its own overrun,
\* whatever the periods, and lateness never accumulates.
BoundedLateness ==
  \A t \in Tasks : left[t] >= -(Overrun(t) + (TaskCount - 1) * MaxCost + Nap)

\* Every task runs again and again, also when the tasks before it in the table are always due.
EveryTaskRuns == \A t \in Tasks : []<>(ran = t)
=============================================================================
