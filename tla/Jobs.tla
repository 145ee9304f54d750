-------------------------------- MODULE Jobs --------------------------------
(***************************************************************************)
(* jobs.cpp: the fixed pool of background jobs.  A job is a pipeline in a  *)
(* slot; the slot's task, registered once and for all, runs it every       *)
(* JOB_POLL_MS for as long as it is there (TaskScheduler).  A job's id is  *)
(* the number of its slot, from 1.                                         *)
(***************************************************************************)
EXTENDS Integers

CONSTANTS
  MaxJobs,  \* MAX_JOBS
  FREE      \* a slot that is not active; not a pipeline

ASSUME MaxJobsAssumption == MaxJobs \in Nat \ {0}

VARIABLE slots

JobIds == 1..MaxJobs

JobsInit == slots = [id \in JobIds |-> FREE]

FirstFree(id) == slots[id] = FREE /\ \A lower \in 1..(id - 1) : slots[lower] # FREE

\* The first free slot, or "no free job slots".
JobStart(p) ==
  slots' = [id \in JobIds |-> IF FirstFree(id) THEN p ELSE slots[id]]

\* "no such job" for a slot that is not active, or an id out of range.
JobKill(id) ==
  slots' = [other \in JobIds |-> IF other = id THEN FREE ELSE slots[other]]
=============================================================================
