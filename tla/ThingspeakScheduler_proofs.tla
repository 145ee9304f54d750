---------------------- MODULE ThingspeakScheduler_proofs ----------------------
(***************************************************************************)
(* The scheduler of the uploads for any number of probes, any offset and   *)
(* any interval that a request fits in.                                    *)
(***************************************************************************)
EXTENDS ThingspeakScheduler, TLAPS

USE TimingAssumption, NullAssumption DEF Channels, Probes, Room

IInv == TypeOK /\ TimersCountFromStart

\* What a call of start_request() leaves: the client free, or busy with that channel.
LEMMA Started ==
  ASSUME TypeOK, NEW c \in Channels, inflight = NULL, StartRequest(c)
  PROVE  /\ status' \in {"IDLE", "SENDING", "OK", "ERROR"}
         /\ inflight' \in {c, NULL} /\ attempted' = c
  BY DEF TypeOK, StartRequest, Client!Start, Client!FailAtStart

LEMMA Skipped ==
  ASSUME TypeOK, Skip
  PROVE  status' = status /\ inflight' = inflight /\ attempted' = NULL
  BY DEF Skip, clientVars

LEMMA ElapsedType ==
  ASSUME NEW t \in 0..UploadInterval
  PROVE  Elapsed(t) \in 0..UploadInterval /\ Elapsed(t) >= t - 1
  BY DEF Elapsed

\* The round-robin position, and what it says of the probes.
LEMMA ProbeType ==
  ASSUME TypeOK, NEW tries \in 0..(ProbeCount - 1)
  PROVE  Probe(tries) \in Probes /\ PositionAfter(Probe(tries)) \in 0..(ProbeCount - 1)
  BY DEF TypeOK, Probe, PositionAfter

LEMMA InitIInv == Init => IInv
  <1> SUFFICES ASSUME Init PROVE IInv
    OBVIOUS
  <1>1. status = "IDLE" /\ inflight = NULL
    BY DEF Init, Client!Init
  <1>2. TypeOK
    <2>1. age \in 0..MaxUpload /\ next_room_upload \in 0..UploadInterval
          /\ next_lora_upload \in 0..UploadInterval /\ lora_probe_rr \in 0..(ProbeCount - 1)
      BY DEF Init
    <2>2. keys \subseteq Channels /\ seen \subseteq Probes
      BY DEF Init
    <2>3. timers_seeded \in BOOLEAN /\ wifi_up \in BOOLEAN /\ url_set \in BOOLEAN
      BY DEF Init
    <2> QED
      BY <1>1, <2>1, <2>2, <2>3 DEF Init, TypeOK
  <1> QED
    BY <1>1, <1>2 DEF IInv, TimersCountFromStart

\* One run of the task: what it may do to the client, and that a timer is armed with it.
LEMMA RunIInv == ASSUME IInv, TaskThingspeak PROVE IInv'
  <1>0. /\ Elapsed(next_room_upload) \in 0..UploadInterval
        /\ Elapsed(next_room_upload) >= next_room_upload - 1
        /\ Elapsed(next_lora_upload) \in 0..UploadInterval
        /\ Elapsed(next_lora_upload) >= next_lora_upload - 1
    BY ElapsedType DEF IInv, TypeOK
  <1>1. CASE NotReady
    BY <1>0, <1>1, Skipped DEF NotReady, TaskThingspeak, deviceVars, IInv, TypeOK, TimersCountFromStart
  <1>2. CASE SeedTimers
    BY <1>2, Skipped DEF SeedTimers, Ready, TaskThingspeak, deviceVars, IInv, TypeOK, TimersCountFromStart
  <1>3. CASE RoomUpload
    <2>1. /\ status' \in {"IDLE", "SENDING", "OK", "ERROR"} /\ inflight' \in {Room, NULL}
          /\ attempted' \in {Room, NULL}
      BY <1>3, Started, Skipped DEF RoomUpload, Ready, IInv, TypeOK
    <2> QED
      BY <1>0, <1>3, <2>1 DEF RoomUpload, Ready, TaskThingspeak, deviceVars, IInv, TypeOK, TimersCountFromStart
  <1>4. CASE LoraUpload
    <2>1. /\ status' \in {"IDLE", "SENDING", "OK", "ERROR"} /\ inflight' \in Probes \union {NULL}
          /\ attempted' \in Probes \union {NULL} /\ lora_probe_rr' \in 0..(ProbeCount - 1)
      BY <1>4, Started, Skipped, ProbeType DEF LoraUpload, SendNextLoraUpload, Ready, IInv, TypeOK
    <2> QED
      BY <1>0, <1>4, <2>1 DEF LoraUpload, Ready, TaskThingspeak, deviceVars, IInv, TypeOK, TimersCountFromStart
  <1>5. CASE NothingDue
    BY <1>0, <1>5, Skipped DEF NothingDue, Ready, TaskThingspeak, deviceVars, IInv, TypeOK, TimersCountFromStart
  <1> QED
    BY <1>1, <1>2, <1>3, <1>4, <1>5 DEF TaskThingspeak

LEMMA NextIInv == IInv /\ [Next]_vars => IInv'
  <1> SUFFICES ASSUME IInv, [Next]_vars PROVE IInv'
    OBVIOUS
  <1>1. CASE RequestEnds
    <2>1. inflight' = NULL /\ status' \in {"OK", "ERROR"}
      BY <1>1 DEF RequestEnds, Client!Finish
    <2> QED
      BY <1>1, <2>1 DEF RequestEnds, timerVars, deviceVars, IInv, TypeOK, TimersCountFromStart
  <1>2. CASE WifiChanges
    BY <1>2 DEF WifiChanges, clientVars, timerVars, IInv, TypeOK, TimersCountFromStart
  <1>3. ASSUME NEW p \in Probes, ProbeHeard(p) PROVE IInv'
    BY <1>3 DEF ProbeHeard, clientVars, timerVars, IInv, TypeOK, TimersCountFromStart
  <1>4. CASE ConfigWritten
    BY <1>4 DEF ConfigWritten, clientVars, timerVars, IInv, TypeOK, TimersCountFromStart
  <1>5. CASE UNCHANGED vars
    BY <1>5 DEF vars, clientVars, timerVars, deviceVars, IInv, TypeOK, TimersCountFromStart
  <1> QED
    BY <1>1, <1>2, <1>3, <1>4, <1>5, RunIInv DEF Next

\* Types, and that each timer counts from the start of its own upload, whatever the wifi, the
\* probes, the settings and the client do.
THEOREM Invariance == Spec => []IInv
  BY InitIInv, NextIInv, PTL DEF Spec, Safety

\* A room upload that is due never waits for the room upload before it, nor a LoRa upload for
\* a LoRa upload, for any interval that a request fits in.
THEOREM NoQueue == Spec => []OwnUploadIsOver
  <1>1. IInv => OwnUploadIsOver
    BY DEF IInv, TypeOK, TimersCountFromStart, OwnUploadIsOver, Elapsed
  <1> QED
    BY <1>1, Invariance, PTL

-----------------------------------------------------------------------------
(* The client.                                                             *)

\* The task uses its client as Upload allows, starting one request at a time and never touching
\* one that is in flight.
THEOREM RefinesUpload == Spec => Client!Safety
  <1>1. Init => Client!Init
    BY DEF Init
  <1>2. ASSUME IInv, [Next]_vars PROVE [Client!Next]_Client!vars
    <2> USE DEF Client!vars, Client!Next
    <2>1. ASSUME NEW c \in Channels, StartRequest(c) PROVE [Client!Next]_Client!vars
      BY <2>1 DEF StartRequest, clientVars
    <2>2. ASSUME Skip PROVE [Client!Next]_Client!vars
      BY <2>2 DEF Skip, clientVars
    <2>3. CASE TaskThingspeak
      <3>1. CASE RoomUpload
        BY <2>1, <2>2, <3>1 DEF RoomUpload
      <3>2. CASE LoraUpload
        <4>1. Skip \/ \E tries \in 0..(ProbeCount - 1) : StartRequest(Probe(tries))
          BY <3>2 DEF LoraUpload, SendNextLoraUpload
        <4>2. ASSUME NEW tries \in 0..(ProbeCount - 1), StartRequest(Probe(tries))
              PROVE  [Client!Next]_Client!vars
          <5>1. Probe(tries) \in Channels
            BY <1>2, ProbeType DEF IInv
          <5> QED
            BY <2>1, <4>2, <5>1
        <4> QED
          BY <2>2, <4>1, <4>2
      <3> QED
        BY <2>2, <2>3, <3>1, <3>2 DEF TaskThingspeak, NotReady, SeedTimers, NothingDue
    <2>4. CASE RequestEnds
      BY <2>4 DEF RequestEnds
    <2> QED
      BY <1>2, <2>3, <2>4 DEF Next, WifiChanges, ProbeHeard, ConfigWritten, clientVars, vars
  <1> QED
    BY <1>1, <1>2, Invariance, PTL DEF Spec, Safety, Client!Safety

-----------------------------------------------------------------------------
(* The turns of the probes.                                                *)

\* The remainder of a sum of two positions.
LEMMA Wraps ==
  ASSUME NEW a \in 0..(2 * ProbeCount - 1)
  PROVE  a % ProbeCount = IF a < ProbeCount THEN a ELSE a - ProbeCount
  OBVIOUS

\* A probe is found after as many others as its distance says.
LEMMA FoundAtDistance ==
  ASSUME TypeOK, NEW p \in Probes
  PROVE  Distance(p) \in 0..(ProbeCount - 1) /\ Probe(Distance(p)) = p
  <1>1. /\ p \in Nat /\ 1 <= p /\ p <= ProbeCount /\ ProbeCount \in Nat
        /\ lora_probe_rr \in Nat /\ lora_probe_rr < ProbeCount
    BY DEF TypeOK
  <1>2. p + ProbeCount - 1 - lora_probe_rr \in 0..(2 * ProbeCount - 1)
    BY <1>1
  <1>3. Distance(p) = IF p - 1 < lora_probe_rr THEN p + ProbeCount - 1 - lora_probe_rr
                      ELSE p - 1 - lora_probe_rr
    BY <1>1, <1>2, Wraps DEF Distance
  <1>4. lora_probe_rr + Distance(p) = IF p - 1 < lora_probe_rr THEN p - 1 + ProbeCount ELSE p - 1
    BY <1>1, <1>3
  <1>5. (lora_probe_rr + Distance(p)) % ProbeCount = p - 1
    <2>1. p - 1 + ProbeCount \in 0..(2 * ProbeCount - 1) /\ p - 1 \in 0..(2 * ProbeCount - 1)
      BY <1>1
    <2>2. (p - 1 + ProbeCount) % ProbeCount = p - 1 /\ (p - 1) % ProbeCount = p - 1
      BY <1>1, <2>1, Wraps
    <2> QED
      BY <1>4, <2>2
  <1> QED
    BY <1>1, <1>3, <1>5 DEF Probe

\* Serving the probe after `tries' others brings those behind it nearer by as many and one.
LEMMA ServedMoves ==
  ASSUME TypeOK, NEW p \in Probes, NEW tries \in 0..(ProbeCount - 1), tries < Distance(p),
         lora_probe_rr' = PositionAfter(Probe(tries))
  PROVE  Distance(p)' < Distance(p)
  <1>1. /\ p \in Nat /\ 1 <= p /\ p <= ProbeCount /\ ProbeCount \in Nat
        /\ lora_probe_rr \in Nat /\ lora_probe_rr < ProbeCount /\ tries \in Nat
    BY DEF TypeOK
  <1>2. p + ProbeCount - 1 - lora_probe_rr \in 0..(2 * ProbeCount - 1)
    BY <1>1
  <1>3. Distance(p) = IF p - 1 < lora_probe_rr THEN p + ProbeCount - 1 - lora_probe_rr
                      ELSE p - 1 - lora_probe_rr
    BY <1>1, <1>2, Wraps DEF Distance
  <1>4. lora_probe_rr + tries + 1 < ProbeCount \/ lora_probe_rr + tries + 1 = ProbeCount
        \/ lora_probe_rr + tries + 1 > ProbeCount
    BY <1>1
  <1>5. lora_probe_rr' = IF lora_probe_rr + tries + 1 < ProbeCount THEN lora_probe_rr + tries + 1
                         ELSE lora_probe_rr + tries + 1 - ProbeCount
    <2>1. (lora_probe_rr + tries) % ProbeCount
            = IF lora_probe_rr + tries < ProbeCount THEN lora_probe_rr + tries
              ELSE lora_probe_rr + tries - ProbeCount
      BY <1>1, Wraps
    <2>2. Probe(tries) \in 0..(2 * ProbeCount - 1) /\ Probe(tries) <= ProbeCount
      BY <1>1, <2>1 DEF Probe
    <2>3. lora_probe_rr' = IF Probe(tries) < ProbeCount THEN Probe(tries) ELSE Probe(tries) - ProbeCount
      BY <2>2, Wraps DEF PositionAfter
    <2> QED
      BY <1>1, <2>1, <2>3 DEF Probe
  <1>6. p + ProbeCount - 1 - lora_probe_rr' \in 0..(2 * ProbeCount - 1)
    BY <1>1, <1>5
  <1>7. Distance(p)' = IF p - 1 < lora_probe_rr' THEN p + ProbeCount - 1 - lora_probe_rr'
                       ELSE p - 1 - lora_probe_rr'
    BY <1>1, <1>5, <1>6, Wraps DEF Distance
  <1> QED
    BY <1>1, <1>3, <1>5, <1>7

\* Each upload of another probe brings a probe that could be uploaded nearer to its turn, and
\* nothing else moves it: for any number of probes, at most all the others come before it.
THEOREM RoundRobin == Spec => NoOvertaking
  <1>1. ASSUME IInv, Next, NEW p \in Probes, url_set, Eligible(p)
        PROVE  IF TaskThingspeak /\ attempted' \in Probes
               THEN attempted' = p \/ Distance(p)' < Distance(p)
               ELSE Distance(p)' = Distance(p)
    <2>1. CASE TaskThingspeak /\ LoraUpload
      <3>1. PICK tries \in 0..(ProbeCount - 1) :
              /\ \A t \in 0..(tries - 1) : ~Eligible(Probe(t))
              /\ StartRequest(Probe(tries))
              /\ lora_probe_rr' = PositionAfter(Probe(tries))
        BY <1>1, <2>1 DEF LoraUpload, SendNextLoraUpload
      <3>2. attempted' = Probe(tries) /\ Probe(tries) \in Probes
        BY <1>1, <3>1, ProbeType DEF StartRequest, IInv
      <3>3. Distance(p) \in 0..(ProbeCount - 1) /\ Probe(Distance(p)) = p
        BY <1>1, FoundAtDistance DEF IInv
      <3>4. tries = Distance(p) \/ tries < Distance(p)
        BY <1>1, <3>1, <3>3 DEF IInv, TypeOK
      <3>5. tries < Distance(p) => Distance(p)' < Distance(p)
        BY <1>1, <3>1, ServedMoves DEF IInv
      <3>6. tries = Distance(p) => attempted' = p
        BY <3>2, <3>3
      <3> QED
        BY <2>1, <3>2, <3>4, <3>5, <3>6
    <2>2. CASE ~(TaskThingspeak /\ LoraUpload)
      <3>1. lora_probe_rr' = lora_probe_rr
        BY <1>1, <2>2 DEF Next, TaskThingspeak, NotReady, SeedTimers, RoomUpload, NothingDue,
                          RequestEnds, WifiChanges, ProbeHeard, ConfigWritten
      <3>2. TaskThingspeak => attempted' \notin Probes
        BY <2>2 DEF TaskThingspeak, NotReady, SeedTimers, RoomUpload, NothingDue, Skip, StartRequest
      <3>3. Distance(p)' = Distance(p)
        BY <3>1 DEF Distance
      <3> QED
        BY <3>2, <3>3
    <2> QED
      BY <2>1, <2>2
  <1>2. IInv /\ [Next]_vars =>
          [\A p \in Probes :
             url_set /\ Eligible(p) =>
               IF TaskThingspeak /\ attempted' \in Probes
               THEN attempted' = p \/ Distance(p)' < Distance(p)
               ELSE Distance(p)' = Distance(p)]_vars
    BY <1>1
  <1> QED
    BY <1>2, Invariance, PTL DEF Spec, Safety, NoOvertaking
===============================================================================
