-------------------------------- MODULE Wifi --------------------------------
(***************************************************************************)
(* wifi.cpp: the connection state machine that every run of bin/wifi -- a  *)
(* background job, or a command typed in the shell -- advances by one call *)
(* of wifi_try_connect().                                                  *)
(*                                                                         *)
(* Times are uint32 milliseconds since boot that wrap, and are subtracted  *)
(* modulo the clock's range as the code does; `gap' is the time that has   *)
(* really passed since the latest attempt.  The cyw43 driver is external:  *)
(* `link' is what cyw43_tcpip_link_status() answers.                       *)
(***************************************************************************)
EXTENDS Integers

CONSTANTS
  ClockRange,         \* 2^32 in the code
  RetryTime,          \* WIFI_RETRY_MS
  ConnectTimeout,     \* WIFI_CONNECT_TIMEOUT_MS
  AssociationTime     \* bound: what a good access point needs to associate and give an address

ASSUME WifiTimes ==
  /\ ClockRange \in Nat /\ ClockRange > 1
  /\ RetryTime \in 1..(ClockRange - 1)
  /\ ConnectTimeout \in 1..(ClockRange - 2)
  /\ AssociationTime \in 0..(ConnectTimeout - 1)

VARIABLES
  arch_ready, state, last_attempt_ms, connecting_since_ms,
  now,        \* to_ms_since_boot(get_absolute_time())
  ssid_set,   \* /dev/config/wifi_ssid is not empty
  job,        \* a background job runs bin/wifi
  link,       \* "JOIN" also stands for NOIP; "OVER" for DOWN, FAIL, NONET and BADAUTH
  wedged,     \* this association will never come to an end
  joining,    \* time this association has taken
  ap_good,    \* the access point is in reach and accepts the credentials
  gap         \* time since the latest attempt, at most RetryTime

staticVars == <<arch_ready, state, last_attempt_ms, connecting_since_ms>>
userVars == <<ssid_set, job>>
driverVars == <<link, wedged, joining, ap_good>>
vars == <<staticVars, now, userVars, driverVars, gap>>

StateTypeOK ==
  /\ arch_ready \in BOOLEAN
  /\ state \in {"DOWN", "CONNECTING", "UP"}
  /\ ssid_set \in BOOLEAN /\ job \in BOOLEAN
  /\ link \in {"JOIN", "UP", "OVER"}
  /\ wedged \in BOOLEAN
  /\ ap_good \in BOOLEAN

TimeTypeOK ==
  /\ now \in 0..(ClockRange - 1)
  /\ last_attempt_ms \in 0..(ClockRange - 1)
  /\ connecting_since_ms \in 0..(ClockRange - 1)
  /\ joining \in 0..AssociationTime
  /\ gap \in 0..RetryTime

TypeOK == StateTypeOK /\ TimeTypeOK

Init ==
  /\ arch_ready = FALSE /\ state = "DOWN"
  /\ last_attempt_ms = 0 /\ connecting_since_ms = 0
  /\ now = 1  \* main() takes its time before the first job runs
  /\ ssid_set \in BOOLEAN /\ job = FALSE
  /\ link = "OVER" /\ wedged = FALSE /\ joining = 0 /\ ap_good \in BOOLEAN
  /\ gap = RetryTime

\* uint32 subtraction.
Since(t) == (now - t) % ClockRange

-----------------------------------------------------------------------------
(* wifi_try_connect(), one disjunct for each way through it.               *)

\* Mutant: an attempt is never given up.
TimedOut_Never == FALSE

TimedOut == state = "CONNECTING" /\ Since(connecting_since_ms) > ConnectTimeout

\* cyw43_arch_init() fails, or station mode is enabled and the call goes on.
ArchFails ==
  /\ ~arch_ready
  /\ UNCHANGED vars

LinkIsUp ==
  /\ state # "DOWN" /\ link = "UP"
  /\ arch_ready' = TRUE /\ state' = "UP"
  /\ UNCHANGED <<last_attempt_ms, connecting_since_ms, now, userVars, driverVars, gap>>

\* Mutant: a link that is only joining counts as up.
StillJoining_Up ==
  /\ state # "DOWN" /\ link = "JOIN" /\ ~TimedOut
  /\ arch_ready' = TRUE /\ state' = "UP"
  /\ UNCHANGED <<last_attempt_ms, connecting_since_ms, now, userVars, driverVars, gap>>

StillJoining ==
  /\ state # "DOWN" /\ link = "JOIN" /\ ~TimedOut
  /\ arch_ready' = TRUE /\ state' = "CONNECTING"
  /\ UNCHANGED <<last_attempt_ms, connecting_since_ms, now, userVars, driverVars, gap>>

\* The rest of the function is reached with state == WIFI_DOWN, or having just set it.
FallsThrough == state = "DOWN" \/ link = "OVER" \/ (link = "JOIN" /\ TimedOut)

\* Mutant: every run of the job tries again.
BackingOff_Never == FALSE

BackingOff == last_attempt_ms # 0 /\ Since(last_attempt_ms) < RetryTime

NoAttempt ==
  /\ FallsThrough
  /\ ~ssid_set \/ BackingOff
  /\ arch_ready' = TRUE /\ state' = "DOWN"
  /\ UNCHANGED <<last_attempt_ms, connecting_since_ms, now, userVars, driverVars, gap>>

\* Mutant: only an association that has started counts as an attempt.
Attempt_Unrecorded ==
  /\ FallsThrough
  /\ ssid_set /\ ~BackingOff
  /\ arch_ready' = TRUE
  /\ gap' = 0
  /\ \/ /\ state' = "CONNECTING"
        /\ last_attempt_ms' = now /\ connecting_since_ms' = now
        /\ link' = "JOIN" /\ joining' = 0
        /\ wedged' \in IF ap_good THEN {FALSE} ELSE BOOLEAN
     \/ /\ ~ap_good
        /\ state' = "DOWN"
        /\ UNCHANGED <<last_attempt_ms, connecting_since_ms, link, wedged, joining>>
  /\ UNCHANGED <<now, userVars, ap_good>>

\* cyw43_arch_wifi_connect_async() starts an association, or cannot even start.
Attempt ==
  /\ FallsThrough
  /\ ssid_set /\ ~BackingOff
  /\ arch_ready' = TRUE
  /\ last_attempt_ms' = now
  /\ gap' = 0
  /\ \/ /\ state' = "CONNECTING"
        /\ connecting_since_ms' = now
        /\ link' = "JOIN" /\ joining' = 0
        /\ wedged' \in IF ap_good THEN {FALSE} ELSE BOOLEAN
     \/ /\ ~ap_good
        /\ state' = "DOWN"
        /\ UNCHANGED <<connecting_since_ms, link, wedged, joining>>
  /\ UNCHANGED <<now, userVars, ap_good>>

WifiTryConnect == LinkIsUp \/ StillJoining \/ NoAttempt \/ Attempt

-----------------------------------------------------------------------------
(* Time and the cyw43 driver.                                              *)

CanAssociate == link = "JOIN" /\ ap_good /\ ~wedged

Tick ==
  /\ CanAssociate => joining < AssociationTime
  /\ now' = (now + 1) % ClockRange
  /\ gap' = IF gap < RetryTime THEN gap + 1 ELSE gap
  /\ joining' = IF CanAssociate THEN joining + 1 ELSE joining
  /\ UNCHANGED <<staticVars, userVars, link, wedged, ap_good>>

Associated ==
  /\ CanAssociate
  /\ link' = "UP"
  /\ UNCHANGED <<staticVars, now, userVars, wedged, joining, ap_good, gap>>

\* The driver loses an access point, or starts to associate with it again by itself.
LinkLost ==
  /\ ~ap_good
  /\ \/ link \in {"UP", "JOIN"} /\ link' = "OVER"
     \/ link = "UP" /\ link' = "JOIN"
  /\ joining' = 0 /\ wedged' = FALSE
  /\ UNCHANGED <<staticVars, now, userVars, ap_good, gap>>

ApChanges ==
  /\ ap_good' = ~ap_good
  /\ joining' = 0
  /\ UNCHANGED <<staticVars, now, userVars, link, wedged, gap>>

SsidWritten ==
  /\ ssid_set' = ~ssid_set
  /\ UNCHANGED <<staticVars, now, job, driverVars, gap>>

\* "wifi &" is typed, or comes from the boot script, or the job is killed.
JobStartedOrKilled ==
  /\ job' = ~job
  /\ UNCHANGED <<staticVars, now, ssid_set, driverVars, gap>>

Next ==
  \/ ArchFails
  \/ WifiTryConnect
  \/ Tick
  \/ Associated
  \/ LinkLost
  \/ ApChanges
  \/ SsidWritten
  \/ JobStartedOrKilled

\* The chip starts at last.  Anyone may run bin/wifi once; a job that is not killed does so
\* every 150 ms, much more often than ConnectTimeout and RetryTime pass, so it also gets to
\* see what holds only until the clock has wrapped.
Spec ==
  /\ Init /\ [][Next]_vars
  /\ SF_vars(job /\ WifiTryConnect) /\ WF_vars(Tick) /\ WF_vars(Associated)

-----------------------------------------------------------------------------
(* Properties.                                                             *)

\* However often bin/wifi runs, two attempts are RetryTime apart ("many routers
\* temporarily throttle/blacklist a MAC address after repeated failed association
\* attempts in a short window", wifi.cpp:70-75).  The exception is the code's own: an
\* attempt made as the clock wraps to 0 is taken for none at all (line 150).
AttemptsSpaced == [][Attempt => gap = RetryTime \/ last_attempt_ms = 0]_vars

\* The inductive invariant behind AttemptsSpaced: within RetryTime of an attempt the wrapping
\* subtraction yields the time that has really passed since.
GapIsExact == gap < RetryTime => Since(last_attempt_ms) = gap

IInv == TypeOK /\ GapIsExact

\* A link that is gone for good does not stay "up" under a job that is there for good,
\* although it may have been killed and started again meanwhile, when nobody looks at the link
\* (wifi.cpp:111): unlike the code it replaces, which "never rechecked the link afterwards"
\* (wifi.cpp:7), every run does.
LossIsNoticed == <>[](job /\ link # "UP") => []<>(state # "UP")

\* Whatever happened before -- wedged associations, failures, a lost link, no ssid, the job
\* killed in the middle of an attempt -- once the job, the access point and the ssid are good
\* for long enough the gateway is up, and stays up ("self-heal either way", wifi.cpp:48).
Recovers == <>[](job /\ ap_good /\ ssid_set) => <>[](state = "UP")

=============================================================================
