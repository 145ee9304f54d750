------------------------ MODULE ThingspeakScheduler -------------------------
(***************************************************************************)
(* task_thingspeak(): when an upload is started, and which.  The client    *)
(* that carries it out is the abstract Upload, which ThingspeakClient      *)
(* implements.                                                             *)
(*                                                                         *)
(* One step of TaskThingspeak is one run of the task with the period (1 s) *)
(* that has passed since the run before, so time is counted in periods.    *)
(* next_room_upload and next_lora_upload are kept as the time left until   *)
(* they are due, which stops at 0: the code only asks whether it is over.  *)
(***************************************************************************)
EXTENDS Integers

CONSTANTS
  ProbeCount,      \* LORA_PROBE_COUNT
  UploadInterval,  \* ROOM_UPLOAD_INTERVAL_MS = LORA_UPLOAD_INTERVAL_MS
  LoraOffset,      \* LORA_UPLOAD_OFFSET_MS
  MaxUpload,       \* bound: periods lwIP's resolver and poll timer let a request take
  NULL

\* The longest request is over before the next room upload is due.
ASSUME TimingAssumption ==
  /\ ProbeCount \in Nat \ {0}
  /\ UploadInterval \in Nat /\ LoraOffset \in 1..UploadInterval
  /\ MaxUpload \in 0..(UploadInterval - 2)

Probes == 1..ProbeCount
Room == 0  \* /dev/config/api0 is the room's channel, api1.. the probes'
Channels == {Room} \union Probes

ASSUME NullAssumption == NULL \notin Channels

VARIABLES
  status, inflight,      \* the client (Upload); a request is known by its channel
  age,                   \* periods the request in flight has taken
  timers_seeded, next_room_upload, next_lora_upload, lora_probe_rr,
  attempted,             \* channel the latest run of the task tried to upload to, or NULL
  wifi_up,               \* /dev/wifi/status reads "up"
  url_set,               \* /dev/config/url is not empty
  keys,                  \* channels whose /dev/config/api<n> is not empty
  seen                   \* probes whose /dev/lora/probe<n>/seen is 1

clientVars == <<status, inflight>>
timerVars == <<timers_seeded, next_room_upload, next_lora_upload>>
deviceVars == <<wifi_up, url_set, keys, seen>>
vars == <<clientVars, age, timerVars, lora_probe_rr, attempted, deviceVars>>

Client == INSTANCE Upload WITH Requests <- Channels

TypeOK ==
  /\ status \in {"IDLE", "SENDING", "OK", "ERROR"} /\ inflight \in Channels \union {NULL}
  /\ age \in 0..MaxUpload
  /\ timers_seeded \in BOOLEAN
  /\ next_room_upload \in 0..UploadInterval /\ next_lora_upload \in 0..UploadInterval
  /\ lora_probe_rr \in 0..(ProbeCount - 1)
  /\ attempted \in Channels \union {NULL}
  /\ wifi_up \in BOOLEAN /\ url_set \in BOOLEAN
  /\ keys \subseteq Channels /\ seen \subseteq Probes

Init ==
  /\ Client!Init /\ age = 0
  /\ timers_seeded = FALSE /\ next_room_upload = 0 /\ next_lora_upload = 0
  /\ lora_probe_rr = 0 /\ attempted = NULL
  /\ wifi_up = FALSE
  /\ url_set \in BOOLEAN /\ keys \in SUBSET Channels  \* the EEPROM
  /\ seen = {}

\* One period later.
Elapsed(t) == IF t = 0 THEN 0 ELSE t - 1

\* start_request(): dropped without a word if the client is busy; otherwise the request
\* is in flight, or has already failed, when the call returns.
StartRequest(c) ==
  /\ attempted' = c
  /\ IF inflight = NULL THEN Client!Start(c) \/ Client!FailAtStart
     ELSE UNCHANGED clientVars

Skip == UNCHANGED clientVars /\ attempted' = NULL

-----------------------------------------------------------------------------
Ready == wifi_up /\ inflight = NULL

NotReady ==
  /\ ~Ready
  /\ Skip
  /\ next_room_upload' = Elapsed(next_room_upload)
  /\ next_lora_upload' = Elapsed(next_lora_upload)
  /\ UNCHANGED <<timers_seeded, lora_probe_rr>>

\* Mutant: timers_seeded is never set.
SeedTimers_Again ==
  /\ Ready /\ ~timers_seeded
  /\ Skip
  /\ next_room_upload' = UploadInterval
  /\ next_lora_upload' = LoraOffset
  /\ UNCHANGED <<timers_seeded, lora_probe_rr>>

SeedTimers ==
  /\ Ready /\ ~timers_seeded
  /\ Skip
  /\ timers_seeded' = TRUE
  /\ next_room_upload' = UploadInterval
  /\ next_lora_upload' = LoraOffset
  /\ UNCHANGED lora_probe_rr

RoomUpload ==
  /\ Ready /\ timers_seeded /\ Elapsed(next_room_upload) = 0
  /\ IF url_set /\ Room \in keys THEN StartRequest(Room) ELSE Skip
  /\ next_room_upload' = UploadInterval
  /\ next_lora_upload' = Elapsed(next_lora_upload)
  /\ UNCHANGED <<timers_seeded, lora_probe_rr>>

Eligible(p) == p \in seen /\ p \in keys

\* The probe visited after `tries' others, counted from the round-robin position.
Probe(tries) == 1 + ((lora_probe_rr + tries) % ProbeCount)

\* Mutant: the round-robin position stays on the probe just served.
PositionAfter_Stays(p) == p - 1

PositionAfter(p) == p % ProbeCount

\* The first eligible probe from the round-robin position on.  When there is none the
\* position has gone round once and is where it was.
SendNextLoraUpload ==
  IF url_set /\ \E p \in Probes : Eligible(p)
  THEN \E tries \in 0..(ProbeCount - 1) :
         /\ Eligible(Probe(tries))
         /\ \A t \in 0..(tries - 1) : ~Eligible(Probe(t))
         /\ StartRequest(Probe(tries))
         /\ lora_probe_rr' = PositionAfter(Probe(tries))
  ELSE Skip /\ UNCHANGED lora_probe_rr

\* Mutant: it returns, like the room's branch, but before the timer is armed again.
LoraUpload_ReturnsEarly ==
  /\ Ready /\ timers_seeded
  /\ Elapsed(next_room_upload) # 0 /\ Elapsed(next_lora_upload) = 0
  /\ SendNextLoraUpload
  /\ next_lora_upload' = Elapsed(next_lora_upload)
  /\ next_room_upload' = Elapsed(next_room_upload)
  /\ UNCHANGED timers_seeded

LoraUpload ==
  /\ Ready /\ timers_seeded
  /\ Elapsed(next_room_upload) # 0 /\ Elapsed(next_lora_upload) = 0
  /\ SendNextLoraUpload
  /\ next_lora_upload' = UploadInterval
  /\ next_room_upload' = Elapsed(next_room_upload)
  /\ UNCHANGED timers_seeded

NothingDue ==
  /\ Ready /\ timers_seeded
  /\ Elapsed(next_room_upload) # 0 /\ Elapsed(next_lora_upload) # 0
  /\ Skip
  /\ next_room_upload' = Elapsed(next_room_upload)
  /\ next_lora_upload' = Elapsed(next_lora_upload)
  /\ UNCHANGED <<timers_seeded, lora_probe_rr>>

TaskThingspeak ==
  /\ age < MaxUpload \/ inflight = NULL
  /\ NotReady \/ SeedTimers \/ RoomUpload \/ LoraUpload \/ NothingDue
  /\ age' = IF inflight = NULL \/ inflight' = NULL THEN 0 ELSE age + 1
  /\ UNCHANGED deviceVars

-----------------------------------------------------------------------------
(* What the task runs against.                                             *)

RequestEnds ==
  /\ \E outcome \in {"OK", "ERROR"} : Client!Finish(outcome)
  /\ UNCHANGED <<age, timerVars, lora_probe_rr, attempted, deviceVars>>

WifiChanges ==
  /\ wifi_up' = ~wifi_up
  /\ UNCHANGED <<clientVars, age, timerVars, lora_probe_rr, attempted, url_set, keys, seen>>

ProbeHeard(p) ==
  /\ p \notin seen
  /\ seen' = seen \union {p}
  /\ UNCHANGED <<clientVars, age, timerVars, lora_probe_rr, attempted, wifi_up, url_set, keys>>

\* A line written to one of the /dev/config files.
ConfigWritten ==
  /\ \/ url_set' = ~url_set /\ UNCHANGED keys
     \/ \E c \in Channels :
          /\ keys' = IF c \in keys THEN keys \ {c} ELSE keys \union {c}
          /\ UNCHANGED url_set
  /\ UNCHANGED <<clientVars, age, timerVars, lora_probe_rr, attempted, wifi_up, seen>>

Next ==
  \/ TaskThingspeak
  \/ RequestEnds
  \/ WifiChanges
  \/ \E p \in Probes : ProbeHeard(p)
  \/ ConfigWritten

Safety == Init /\ [][Next]_vars

Spec == Safety /\ WF_vars(TaskThingspeak) /\ WF_vars(RequestEnds)

-----------------------------------------------------------------------------
(* Properties.                                                             *)

\* The inductive invariant behind OwnUploadIsOver: a timer is armed with its own upload, and
\* both count the same periods.
TimersCountFromStart ==
  /\ inflight = Room => next_room_upload >= UploadInterval - age
  /\ inflight \in Probes => next_lora_upload >= UploadInterval - age

\* An upload that is due finds at most the other kind in flight, never its own predecessor,
\* although its timer is armed before the request has ended and counts on while the wifi is
\* away and the other kind has the client: what it may have to wait for is one request, not
\* a queue, and a channel is never asked twice within one request's time ("per-channel rate
\* limit", thingspeak.h:19-20).
OwnUploadIsOver ==
  /\ Elapsed(next_room_upload) = 0 => inflight # Room
  /\ Elapsed(next_lora_upload) = 0 => inflight \notin Probes

\* How many probes are asked before p.
Distance(p) == (p + ProbeCount - 1 - lora_probe_rr) % ProbeCount

\* Each upload of another probe brings a probe that could be uploaded nearer to its turn, and
\* nothing else moves it, failures and outages included: so at most ProbeCount - 1 others
\* come before it.  This is what "round-robin" (thingspeak.h:24) is good for.
NoOvertaking ==
  [][\A p \in Probes :
       url_set /\ Eligible(p) =>
         IF TaskThingspeak /\ attempted' \in Probes
         THEN attempted' = p \/ Distance(p)' < Distance(p)
         ELSE Distance(p)' = Distance(p)]_vars

\* With the wifi up and a key configured the room is uploaded again and again; the LoRa
\* uploads that share the client cannot keep it out.
RoomIsUploaded ==
  <>[](wifi_up /\ url_set /\ Room \in keys) => []<>(attempted = Room)

\* Every probe that has reported and has a key gets its turn, however many others do
\* ("round-robin over whichever of probe 1/2/3 have ever actually reported",
\* thingspeak.h:24-25), and the room upload, tried first, cannot keep it out.
EveryProbeIsUploaded ==
  \A p \in Probes :
    <>[](wifi_up /\ url_set /\ p \in seen /\ p \in keys) => []<>(attempted = p)

\* A LoRa upload starts "somewhere in between" the room uploads, "offset 30s from the room
\* upload" (thingspeak.h:26), give or take the periods a request can delay it.
OffsetKept ==
  [][attempted' \in Probes /\ attempted # attempted'
       => UploadInterval - next_room_upload' >= LoraOffset - MaxUpload - 1]_vars
=============================================================================
