---------------------------- MODULE Wifi_proofs -----------------------------
(***************************************************************************)
(* The retry limit of wifi.cpp, for every clock range and every backoff.   *)
(***************************************************************************)
EXTENDS Wifi, TLAPS

USE WifiTimes

\* The wrapping difference between two clock readings is a reading, and grows by one with
\* each tick until it wraps itself.
LEMMA SinceType ==
  ASSUME NEW s \in 0..(ClockRange - 1), NEW t \in 0..(ClockRange - 1)
  PROVE  (s - t) % ClockRange = IF t <= s THEN s - t ELSE s - t + ClockRange
  OBVIOUS

LEMMA InitIInv == Init => IInv
<1> SUFFICES ASSUME Init PROVE IInv
  OBVIOUS
<1>1. StateTypeOK
  BY DEF Init, StateTypeOK
<1>2. TimeTypeOK /\ GapIsExact
  BY DEF Init, TimeTypeOK, GapIsExact
<1>3. QED
  BY <1>1, <1>2 DEF IInv, TypeOK

LEMMA TickGap == ASSUME IInv, Tick PROVE GapIsExact'
<1> USE DEF IInv, TypeOK, TimeTypeOK, Tick, GapIsExact, Since, userVars, staticVars
<1>1. now' = IF now = ClockRange - 1 THEN 0 ELSE now + 1
  OBVIOUS
<1>2. /\ now' \in 0..(ClockRange - 1)
      /\ last_attempt_ms' = last_attempt_ms
      /\ last_attempt_ms \in 0..(ClockRange - 1)
  BY <1>1
<1>3. (now - last_attempt_ms) % ClockRange
        = IF last_attempt_ms <= now THEN now - last_attempt_ms
          ELSE now - last_attempt_ms + ClockRange
  BY SinceType
<1>4. (now' - last_attempt_ms) % ClockRange
        = IF last_attempt_ms <= now' THEN now' - last_attempt_ms
          ELSE now' - last_attempt_ms + ClockRange
  BY <1>2, SinceType
<1>5. QED
  BY <1>1, <1>2, <1>3, <1>4

LEMMA NextIInv == IInv /\ [Next]_vars => IInv'
<1> SUFFICES ASSUME IInv, [Next]_vars PROVE IInv'
  OBVIOUS
<1> USE DEF IInv, TypeOK, StateTypeOK, TimeTypeOK, GapIsExact, Since
<1>1. CASE LinkIsUp \/ StillJoining \/ NoAttempt
  <2>1. StateTypeOK'
    BY <1>1 DEF LinkIsUp, StillJoining, NoAttempt, userVars, driverVars
  <2>2. TimeTypeOK'
    BY <1>1 DEF LinkIsUp, StillJoining, NoAttempt, userVars, driverVars
  <2>3. GapIsExact'
    BY <1>1 DEF LinkIsUp, StillJoining, NoAttempt, userVars, driverVars
  <2>4. QED
    BY <2>1, <2>2, <2>3
<1>2. CASE Attempt
  <2>1. StateTypeOK'
    BY <1>2 DEF Attempt, userVars
  <2>2. TimeTypeOK'
    <3>1. /\ now' = now /\ last_attempt_ms' = now /\ gap' = 0
          /\ connecting_since_ms' \in {now, connecting_since_ms}
          /\ joining' \in {0, joining}
      BY <1>2 DEF Attempt, userVars
    <3>2. QED
      BY <3>1
  <2>3. GapIsExact'
    BY <1>2 DEF Attempt, userVars
  <2>4. QED
    BY <2>1, <2>2, <2>3
<1>3. CASE Tick
  <2>1. StateTypeOK'
    BY <1>3 DEF Tick, userVars, staticVars
  <2>2. TimeTypeOK'
    BY <1>3 DEF Tick, userVars, staticVars
  <2>3. GapIsExact'
    BY <1>3, TickGap
  <2>4. QED
    BY <2>1, <2>2, <2>3
<1>4. CASE Associated
  <2>1. StateTypeOK'
    BY <1>4 DEF Associated, userVars, staticVars
  <2>2. TimeTypeOK'
    BY <1>4 DEF Associated, userVars, staticVars
  <2>3. GapIsExact'
    BY <1>4 DEF Associated, userVars, staticVars
  <2>4. QED
    BY <2>1, <2>2, <2>3
<1>5. CASE LinkLost
  <2>1. StateTypeOK'
    BY <1>5 DEF LinkLost, userVars, staticVars
  <2>2. TimeTypeOK'
    BY <1>5 DEF LinkLost, userVars, staticVars
  <2>3. GapIsExact'
    BY <1>5 DEF LinkLost, userVars, staticVars
  <2>4. QED
    BY <2>1, <2>2, <2>3
<1>6. CASE ApChanges \/ SsidWritten \/ JobStartedOrKilled
  <2>1. StateTypeOK'
    BY <1>6 DEF ApChanges, SsidWritten, JobStartedOrKilled, staticVars, userVars, driverVars
  <2>2. TimeTypeOK'
    BY <1>6 DEF ApChanges, SsidWritten, JobStartedOrKilled, staticVars, userVars, driverVars
  <2>3. GapIsExact'
    BY <1>6 DEF ApChanges, SsidWritten, JobStartedOrKilled, staticVars, userVars, driverVars
  <2>4. QED
    BY <2>1, <2>2, <2>3
<1>7. CASE ArchFails \/ UNCHANGED vars
  <2>1. StateTypeOK'
    BY <1>7 DEF ArchFails, vars, staticVars, userVars, driverVars
  <2>2. TimeTypeOK'
    BY <1>7 DEF ArchFails, vars, staticVars, userVars, driverVars
  <2>3. GapIsExact'
    BY <1>7 DEF ArchFails, vars, staticVars, userVars, driverVars
  <2>4. QED
    BY <2>1, <2>2, <2>3
<1>8. QED
  BY <1>1, <1>2, <1>3, <1>4, <1>5, <1>6, <1>7 DEF Next, WifiTryConnect

\* Types, and the exact gap, in every reachable state.
THEOREM Invariance == Spec => []IInv
BY InitIInv, NextIInv, PTL DEF Spec

\* Attempts are RetryTime apart, whatever the clock does between them.
THEOREM RetryLimit == Spec => AttemptsSpaced
<1>1. ASSUME IInv, [Next]_vars PROVE Attempt => gap = RetryTime \/ last_attempt_ms = 0
  BY <1>1 DEF IInv, TypeOK, TimeTypeOK, GapIsExact, Attempt, BackingOff
<1>2. QED
  BY <1>1, Invariance, PTL DEF Spec, AttemptsSpaced
=============================================================================
