--------------------------------- MODULE Lora ---------------------------------
(***************************************************************************)
(* lora.cpp, prog/lora.cpp and dev/lora.cpp: the radio, which bin/lora     *)
(* starts and restarts, and the cache of what each probe reported last,    *)
(* which task_poll_lora() fills and the /dev/lora files read.              *)
(*                                                                         *)
(* Times are uint32 milliseconds since boot that wrap, as in Wifi; `gap'   *)
(* and `silence' are the times that have really passed.  The radio is      *)
(* external: `radio_good' says whether LoRa.begin() can succeed, and what  *)
(* LoRa.parsePacket() finds is an input of the task that calls it.         *)
(***************************************************************************)
EXTENDS Integers

CONSTANTS
  ProbeIds,    \* 1..LORA_PROBE_COUNT
  Readings,    \* what a packet can say of each field: [temp, soil, ph]
  Unreadable,  \* a field that is missing from the packet or is not a number
  Zero,        \* the cache before a probe is heard from
  ClockRange,  \* 2^32 in the code
  RetryTime,   \* LORA_RETRY_MS
  Second       \* milliseconds in the unit of /dev/lora/probe<n>/age

ASSUME LoraTimes ==
  /\ ClockRange \in Nat /\ ClockRange > 1
  /\ RetryTime \in 1..(ClockRange - 1)
  /\ Second \in Nat \ {0}

FieldNames == {"temp", "soil", "ph"}

\* The packets of plausible length, by what handle_packet() looks at: the id, 0 if it is none
\* of the probes', and the fields.
Packets == [id : ProbeIds \union {0}, fields : Readings]

VARIABLES
  radio_ready, last_attempt_ms,
  probe_seen, probe_last_seen_ms,
  probe,         \* probe_temp, probe_soil and probe_ph of each probe
  now,           \* to_ms_since_boot(get_absolute_time())
  radio_good,
  gap,           \* time since the latest attempt, at most RetryTime
  silence        \* time since the latest packet of each probe, at most ClockRange

cacheVars == <<probe_seen, probe_last_seen_ms, probe>>
vars == <<radio_ready, last_attempt_ms, cacheVars, now, radio_good, gap, silence>>

RadioTypeOK == radio_ready \in BOOLEAN /\ radio_good \in BOOLEAN

CacheTypeOK ==
  /\ probe_seen \in [ProbeIds -> BOOLEAN]
  /\ probe \in [ProbeIds -> Readings \union {Zero}]

TimeTypeOK ==
  /\ now \in 0..(ClockRange - 1)
  /\ last_attempt_ms \in 0..(ClockRange - 1)
  /\ probe_last_seen_ms \in [ProbeIds -> 0..(ClockRange - 1)]
  /\ gap \in 0..RetryTime
  /\ silence \in [ProbeIds -> 0..ClockRange]

TypeOK == RadioTypeOK /\ CacheTypeOK /\ TimeTypeOK

Init ==
  /\ radio_ready = FALSE /\ last_attempt_ms = 0
  /\ probe_seen = [p \in ProbeIds |-> FALSE]
  /\ probe_last_seen_ms = [p \in ProbeIds |-> 0]
  /\ probe = [p \in ProbeIds |-> Zero]
  /\ now = 1  \* main() takes its time before the first job runs
  /\ radio_good \in BOOLEAN
  /\ gap = RetryTime /\ silence = [p \in ProbeIds |-> 0]

\* uint32 subtraction.
Since(t) == (now - t) % ClockRange

-----------------------------------------------------------------------------
(* lora_try_start(), called by every run of bin/lora.                      *)

BackingOff == last_attempt_ms # 0 /\ Since(last_attempt_ms) < RetryTime

\* Ready already: "an idle bool check".
LoraIsUp == radio_ready /\ UNCHANGED vars

\* Mutant: the time of the call is noted before it is known whether it is an attempt.
LoraBacksOff_Notes ==
  /\ ~radio_ready /\ BackingOff
  /\ last_attempt_ms' = now
  /\ UNCHANGED <<radio_ready, cacheVars, now, radio_good, gap, silence>>

LoraBacksOff == ~radio_ready /\ BackingOff /\ UNCHANGED vars

\* Mutant: only an attempt that succeeds is noted.
LoraAttempt_Unrecorded ==
  /\ ~radio_ready /\ ~BackingOff
  /\ gap' = 0
  /\ radio_ready' = radio_good
  /\ last_attempt_ms' = IF radio_good THEN now ELSE last_attempt_ms
  /\ UNCHANGED <<cacheVars, now, radio_good, silence>>

\* try_once(): LoRa.begin().
LoraAttempt ==
  /\ ~radio_ready /\ ~BackingOff
  /\ last_attempt_ms' = now
  /\ gap' = 0
  /\ radio_ready' = radio_good
  /\ UNCHANGED <<cacheVars, now, radio_good, silence>>

LoraTryStart == LoraIsUp \/ LoraBacksOff \/ LoraAttempt

-----------------------------------------------------------------------------
(* task_poll_lora().                                                       *)

NoPacket == UNCHANGED vars

\* parsePacket() reports more than LORA_MAX_PACKET bytes: "marking radio down for restart".
ImplausiblePacket ==
  /\ radio_ready
  /\ radio_ready' = FALSE
  /\ UNCHANGED <<last_attempt_ms, cacheVars, now, radio_good, gap, silence>>

Complete(fields) == \A f \in FieldNames : fields[f] # Unreadable

Junk(packet) ==
  /\ radio_ready
  /\ packet.id \notin ProbeIds \/ ~Complete(packet.fields)
  /\ UNCHANGED vars

\* Mutant: each field is cached as soon as it has been parsed.
Cached_FieldByField(p, fields) ==
  [probe EXCEPT ![p] =
     [f \in FieldNames |-> IF fields[f] # Unreadable THEN fields[f]
                           ELSE IF probe[p] = Zero THEN Unreadable ELSE probe[p][f]]]
Reading_FieldByField(packet) ==
  /\ radio_ready
  /\ packet.id \in ProbeIds
  /\ probe' = Cached_FieldByField(packet.id, packet.fields)
  /\ probe_last_seen_ms' = [probe_last_seen_ms EXCEPT ![packet.id] = now]
  /\ probe_seen' = [probe_seen EXCEPT ![packet.id] = TRUE]
  /\ silence' = [silence EXCEPT ![packet.id] = 0]
  /\ UNCHANGED <<radio_ready, last_attempt_ms, now, radio_good, gap>>

Reading(packet) ==
  /\ radio_ready
  /\ packet.id \in ProbeIds /\ Complete(packet.fields)
  /\ probe' = [probe EXCEPT ![packet.id] = packet.fields]
  /\ probe_last_seen_ms' = [probe_last_seen_ms EXCEPT ![packet.id] = now]
  /\ probe_seen' = [probe_seen EXCEPT ![packet.id] = TRUE]
  /\ silence' = [silence EXCEPT ![packet.id] = 0]
  /\ UNCHANGED <<radio_ready, last_attempt_ms, now, radio_good, gap>>

TaskPollLora ==
  \/ NoPacket
  \/ ImplausiblePacket
  \/ \E packet \in Packets : Junk(packet) \/ Reading(packet)

-----------------------------------------------------------------------------
Tick ==
  /\ now' = (now + 1) % ClockRange
  /\ gap' = IF gap < RetryTime THEN gap + 1 ELSE gap
  /\ silence' = [p \in ProbeIds |->
                   IF probe_seen[p] /\ silence[p] < ClockRange THEN silence[p] + 1 ELSE silence[p]]
  /\ UNCHANGED <<radio_ready, last_attempt_ms, cacheVars, radio_good>>

RadioChanges ==
  /\ radio_good' = ~radio_good
  /\ UNCHANGED <<radio_ready, last_attempt_ms, cacheVars, now, gap, silence>>

Next == LoraTryStart \/ TaskPollLora \/ Tick \/ RadioChanges

\* The lora job of the boot script is not killed and runs every 150 ms, much more often than
\* RetryTime passes, so it also gets to see what holds only until the clock has wrapped.
Spec == Init /\ [][Next]_vars /\ SF_vars(LoraAttempt \/ LoraBacksOff) /\ WF_vars(Tick)

-----------------------------------------------------------------------------
(* Properties.                                                             *)

\* /dev/lora/probe<n>/age: -1 before the first packet, then whole seconds.
Age(p) == IF ~probe_seen[p] THEN -1 ELSE Since(probe_last_seen_ms[p]) \div Second

\* The inductive invariant behind AttemptsSpaced, and the same of the packets: within
\* RetryTime of an attempt, and within the clock's range of a packet (49.7 days), the wrapping
\* subtraction yields the time that has really passed since.
GapIsExact == gap < RetryTime => Since(last_attempt_ms) = gap
SilenceIsExact ==
  \A p \in ProbeIds :
    probe_seen[p] /\ silence[p] < ClockRange => Since(probe_last_seen_ms[p]) = silence[p]

\* Hence the age that /dev/lora/probe<n>/age gives (dev/lora.cpp:47-52) is the true one.
AgeIsExact ==
  \A p \in ProbeIds :
    probe_seen[p] /\ silence[p] < ClockRange => Age(p) = silence[p] \div Second

IInv == TypeOK /\ GapIsExact /\ SilenceIsExact /\ AgeIsExact

\* "At most one real LoRa.begin() attempt every few seconds" (prog/lora.cpp:16-17), however
\* often bin/lora runs and the radio is marked down.  The exception is the code's own: an
\* attempt made as the clock wraps to 0 is taken for none at all (lora.cpp:83).
AttemptsSpaced == [][LoraAttempt => gap = RetryTime \/ last_attempt_ms = 0]_vars

\* A probe's reading is all of one packet: a packet that is incomplete or does not parse
\* does not "partially overwrite a probe's last-known-good reading" (lora.cpp:16-19), and
\* is not taken for a probe's first.
ReadingIsOnePacket ==
  \A p \in ProbeIds :
    IF probe_seen[p] THEN probe[p] \in Readings /\ Complete(probe[p]) ELSE probe[p] = Zero

\* A radio that has been marked down and can be started is started again, however often
\* implausible packets mark it down, with no one to restart the job (prog/lora.cpp:19-22).
Restarts == <>[]radio_good => []<>radio_ready
===============================================================================
