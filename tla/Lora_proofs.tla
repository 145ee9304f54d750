----------------------------- MODULE Lora_proofs -----------------------------
(***************************************************************************)
(* The restart limit, the ages and the cache of lora.cpp, for every set of *)
(* probes, every range of the clock and whatever packets arrive.           *)
(***************************************************************************)
EXTENDS Lora, TLAPS

USE LoraTimes

\* The wrapping difference of two clock readings, without the modulus.
LEMMA SinceType ==
  ASSUME NEW s \in 0..(ClockRange - 1), NEW t \in 0..(ClockRange - 1)
  PROVE  (s - t) % ClockRange = IF t <= s THEN s - t ELSE s - t + ClockRange
  OBVIOUS

\* A difference that is exact, and still in range a tick later, stays exact.
LEMMA StaysExact ==
  ASSUME NEW s \in 0..(ClockRange - 1), NEW t \in 0..(ClockRange - 1), NEW d \in Nat,
         d + 1 < ClockRange, (s - t) % ClockRange = d
  PROVE  (((s + 1) % ClockRange) - t) % ClockRange = d + 1
<1> DEFINE next == (s + 1) % ClockRange
<1>1. next = IF s = ClockRange - 1 THEN 0 ELSE s + 1
  OBVIOUS
<1>2. next \in 0..(ClockRange - 1)
  BY <1>1
<1>3. (next - t) % ClockRange = IF t <= next THEN next - t ELSE next - t + ClockRange
  BY <1>2, SinceType
<1>4. (s - t) % ClockRange = IF t <= s THEN s - t ELSE s - t + ClockRange
  BY SinceType
<1>5. QED
  BY <1>1, <1>3, <1>4

\* The ages follow from the exact differences.
LEMMA AgeFromSilence == SilenceIsExact => AgeIsExact
  BY DEF SilenceIsExact, AgeIsExact, Age

LEMMA InitIInv == Init => IInv
<1> SUFFICES ASSUME Init PROVE IInv
  OBVIOUS
<1>1. RadioTypeOK /\ CacheTypeOK
  BY DEF Init, RadioTypeOK, CacheTypeOK
<1>2. TimeTypeOK /\ GapIsExact /\ SilenceIsExact
  BY DEF Init, TimeTypeOK, GapIsExact, SilenceIsExact
<1>3. QED
  BY <1>1, <1>2, AgeFromSilence DEF IInv, TypeOK

LEMMA TickKeeps == ASSUME IInv, Tick PROVE IInv'
<1>1. RadioTypeOK' /\ CacheTypeOK'
  BY DEF IInv, TypeOK, Tick, RadioTypeOK, CacheTypeOK, cacheVars
<1>2. TimeTypeOK'
  BY DEF IInv, TypeOK, TimeTypeOK, CacheTypeOK, Tick, cacheVars
<1>3. GapIsExact'
  <2> SUFFICES ASSUME gap' < RetryTime PROVE Since(last_attempt_ms)' = gap'
    BY DEF GapIsExact
  <2>1. gap \in Nat /\ gap' = gap + 1 /\ gap + 1 < ClockRange
    BY DEF IInv, TypeOK, TimeTypeOK, Tick
  <2>2. (now - last_attempt_ms) % ClockRange = gap
    BY <2>1 DEF IInv, GapIsExact, Since, Tick
  <2>3. QED
    BY <2>1, <2>2, StaysExact DEF IInv, TypeOK, TimeTypeOK, Tick, Since
<1>4. SilenceIsExact'
  <2> SUFFICES ASSUME NEW p \in ProbeIds, probe_seen'[p], silence'[p] < ClockRange
               PROVE  Since(probe_last_seen_ms[p])' = silence'[p]
    BY DEF SilenceIsExact
  <2>1. /\ probe_seen[p] /\ probe_last_seen_ms'[p] = probe_last_seen_ms[p]
        /\ silence[p] \in Nat /\ silence'[p] = silence[p] + 1 /\ silence[p] + 1 < ClockRange
    BY DEF IInv, TypeOK, TimeTypeOK, Tick, cacheVars
  <2>2. (now - probe_last_seen_ms[p]) % ClockRange = silence[p]
    BY <2>1 DEF IInv, SilenceIsExact, Since
  <2>3. now \in 0..(ClockRange - 1) /\ probe_last_seen_ms[p] \in 0..(ClockRange - 1)
    BY DEF IInv, TypeOK, TimeTypeOK
  <2>4. (((now + 1) % ClockRange) - probe_last_seen_ms[p]) % ClockRange = silence[p] + 1
    BY <2>1, <2>2, <2>3, StaysExact
  <2>5. QED
    BY <2>1, <2>4 DEF Tick, Since
<1>5. QED
  BY <1>1, <1>2, <1>3, <1>4, AgeFromSilence DEF IInv, TypeOK, AgeIsExact, SilenceIsExact, Age, Since

LEMMA ReadingKeeps ==
  ASSUME IInv, NEW packet \in Packets, Reading(packet) PROVE IInv'
<1> DEFINE id == packet.id
<1>1. id \in ProbeIds /\ packet.fields \in Readings
  BY DEF Reading, Packets
<1>2. RadioTypeOK' /\ CacheTypeOK'
  BY <1>1 DEF IInv, TypeOK, RadioTypeOK, CacheTypeOK, Reading
<1>3. TimeTypeOK' /\ GapIsExact'
  BY <1>1 DEF IInv, TypeOK, TimeTypeOK, GapIsExact, Since, Reading
<1>4. SilenceIsExact'
  <2> SUFFICES ASSUME NEW p \in ProbeIds, probe_seen'[p], silence'[p] < ClockRange
               PROVE  (now - probe_last_seen_ms'[p]) % ClockRange = silence'[p]
    BY DEF SilenceIsExact, Since, Reading
  <2>1. CASE p = id
    <3>1. probe_last_seen_ms'[p] = now /\ silence'[p] = 0 /\ now \in 0..(ClockRange - 1)
      BY <2>1 DEF IInv, TypeOK, TimeTypeOK, Reading
    <3>2. QED
      BY <3>1, SinceType
  <2>2. CASE p # id
    <3>1. /\ probe_seen[p] /\ silence'[p] = silence[p]
          /\ probe_last_seen_ms'[p] = probe_last_seen_ms[p]
      BY <2>2 DEF IInv, TypeOK, TimeTypeOK, CacheTypeOK, Reading
    <3>2. QED
      BY <3>1 DEF IInv, SilenceIsExact, Since
  <2>3. QED
    BY <2>1, <2>2
<1>5. QED
  BY <1>2, <1>3, <1>4, AgeFromSilence DEF IInv, TypeOK, AgeIsExact, SilenceIsExact, Age, Since

LEMMA NextIInv == IInv /\ [Next]_vars => IInv'
<1> SUFFICES ASSUME IInv, [Next]_vars PROVE IInv'
  OBVIOUS
<1>1. CASE LoraAttempt
  <2>1. RadioTypeOK' /\ CacheTypeOK' /\ TimeTypeOK'
    BY <1>1 DEF IInv, TypeOK, RadioTypeOK, CacheTypeOK, TimeTypeOK, LoraAttempt, cacheVars
  <2>2. GapIsExact'
    <3>1. gap' = 0 /\ now' = now /\ last_attempt_ms' = now /\ now \in 0..(ClockRange - 1)
      BY <1>1 DEF IInv, TypeOK, TimeTypeOK, LoraAttempt
    <3>2. QED
      BY <3>1, SinceType DEF GapIsExact, Since
  <2>3. SilenceIsExact' /\ AgeIsExact'
    BY <1>1 DEF IInv, SilenceIsExact, AgeIsExact, Age, Since, LoraAttempt, cacheVars
  <2>4. QED
    BY <2>1, <2>2, <2>3 DEF IInv, TypeOK
<1>2. CASE ImplausiblePacket
  BY <1>2 DEF IInv, TypeOK, RadioTypeOK, CacheTypeOK, TimeTypeOK, GapIsExact, SilenceIsExact,
              AgeIsExact, Age, Since, ImplausiblePacket, cacheVars
<1>3. CASE RadioChanges
  BY <1>3 DEF IInv, TypeOK, RadioTypeOK, CacheTypeOK, TimeTypeOK, GapIsExact, SilenceIsExact,
              AgeIsExact, Age, Since, RadioChanges, cacheVars
<1>4. CASE UNCHANGED vars
  BY <1>4 DEF IInv, TypeOK, RadioTypeOK, CacheTypeOK, TimeTypeOK, GapIsExact, SilenceIsExact,
              AgeIsExact, Age, Since, vars, cacheVars
<1>5. QED
  BY <1>1, <1>2, <1>3, <1>4, TickKeeps, ReadingKeeps
  DEF Next, LoraTryStart, LoraIsUp, LoraBacksOff, TaskPollLora, NoPacket, Junk

\* Types, and exact differences of times, in every reachable state.
THEOREM Invariance == Spec => []IInv
BY InitIInv, NextIInv, PTL DEF Spec

\* The radio is not restarted faster than its limit, whatever the clock does.
THEOREM RestartLimit == Spec => AttemptsSpaced
<1>1. ASSUME IInv, [Next]_vars PROVE LoraAttempt => gap = RetryTime \/ last_attempt_ms = 0
  BY <1>1 DEF IInv, TypeOK, TimeTypeOK, GapIsExact, LoraAttempt, BackingOff
<1>2. QED
  BY <1>1, Invariance, PTL DEF Spec, AttemptsSpaced

LEMMA NextReading == IInv /\ ReadingIsOnePacket /\ [Next]_vars => ReadingIsOnePacket'
<1> SUFFICES ASSUME IInv, ReadingIsOnePacket, [Next]_vars PROVE ReadingIsOnePacket'
  OBVIOUS
<1>1. CASE UNCHANGED cacheVars
  BY <1>1 DEF ReadingIsOnePacket, cacheVars
<1>2. ASSUME NEW packet \in Packets, Reading(packet) PROVE ReadingIsOnePacket'
  BY <1>2 DEF IInv, TypeOK, CacheTypeOK, ReadingIsOnePacket, Reading, Packets
<1>3. QED
  BY <1>1, <1>2
  DEF Next, LoraTryStart, LoraIsUp, LoraBacksOff, LoraAttempt, TaskPollLora, NoPacket,
      ImplausiblePacket, Junk, Tick, RadioChanges, vars

\* What the files show of a probe comes from one packet, whatever was received in between.
THEOREM WholeReadings == Spec => []ReadingIsOnePacket
<1>1. Init => ReadingIsOnePacket
  BY DEF Init, ReadingIsOnePacket
<1>2. QED
  BY <1>1, NextReading, Invariance, PTL DEF Spec
=============================================================================
