-------------------------- MODULE ThingspeakClient --------------------------
(***************************************************************************)
(* The asynchronous HTTP client of thingspeak.cpp: the module statics, the *)
(* task that starts a request, and the lwIP callbacks that carry it on.    *)
(*                                                                         *)
(* The client runs in two contexts.  task_thingspeak() runs in the         *)
(* cooperative loop; every lwIP callback runs in interrupt context         *)
(* (pico_cyw43_arch_lwip_threadsafe_background) and preempts the loop at   *)
(* any point, whole, because lwIP holds its lock around it.  A task step   *)
(* is therefore split where an interrupt can do something the task has     *)
(* asked for: after dns_gethostbyname() and after tcp_connect() have       *)
(* returned and before the task has looked at what they returned.  `task'  *)
(* holds that pending return value.  Elsewhere in start_request() no lookup *)
(* is pending and no connection made, so no callback can run: the rest is  *)
(* atomic.                                                                 *)
(*                                                                         *)
(* lwIP is external: `pcbs', `armed', `unacked' and `dns' are its side of  *)
(* the conversation, modelled from how the client uses it.                 *)
(***************************************************************************)
EXTENDS Integers, FiniteSets

CONSTANTS
  Hosts,       \* hosts /dev/config/url can name
  PCBS,        \* lwIP's pool of TCP control blocks
  RequestLen,  \* request_len: bytes in one request
  NULL

ASSUME NullAssumption == NULL \notin Hosts /\ NULL \notin PCBS
ASSUME RequestLenAssumption == RequestLen \in Nat \ {0}

VARIABLES
  \* Statics of thingspeak.cpp
  client_state, status, pcb, cached_host, cached_addr, have_ip, sent_len,
  host,        \* destination of the latest request (the Host: line of `request')
  task,        \* "ready", or the value a call has returned to start_request()
  \* lwIP
  pcbs,        \* state of each control block
  armed,       \* control blocks on which this client's callbacks are registered
  unacked,     \* bytes of the request handed to tcp_write and not yet acknowledged
  dns          \* hosts being looked up, with dns_found_cb to be called

clientVars == <<client_state, status, pcb, cached_host, cached_addr, have_ip,
                sent_len, host>>
lwipVars == <<pcbs, armed, unacked, dns>>
vars == <<clientVars, task, lwipVars>>

StateTypeOK ==
  /\ client_state \in {"IDLE", "RESOLVING", "CONNECTING", "SENDING"}
  /\ status \in {"IDLE", "SENDING", "OK", "ERROR"}
  /\ pcb \in PCBS \union {NULL}
  /\ cached_host \in Hosts \union {NULL}
  /\ cached_addr \in Hosts \union {NULL}  \* named by the host it was resolved for
  /\ have_ip \in BOOLEAN
  /\ host \in Hosts \union {NULL}
  /\ task \in {"ready", "dns_ok", "dns_inprogress", "dns_failed",
               "connect_ok", "connect_failed"}
  /\ pcbs \in [PCBS -> {"free", "new", "connecting", "open", "closing"}]
  /\ armed \in SUBSET PCBS
  /\ dns \in SUBSET Hosts

LengthTypeOK == sent_len \in 0..RequestLen /\ unacked \in 0..RequestLen

TypeOK == StateTypeOK /\ LengthTypeOK

Init ==
  /\ client_state = "IDLE" /\ status = "IDLE" /\ pcb = NULL
  /\ cached_host = NULL /\ cached_addr = NULL /\ have_ip = FALSE
  /\ sent_len = 0 /\ host = NULL
  /\ task = "ready"
  /\ pcbs = [p \in PCBS |-> "free"]
  /\ armed = {} /\ unacked = 0 /\ dns = {}

-----------------------------------------------------------------------------
(* Ending a request.                                                       *)

\* What a control block may be after tcp_close(), or tcp_abort() where that fails:
\* lwIP keeps an open connection until the peer has answered the FIN.
AfterClose(s) == IF s = "open" THEN {"closing", "free"} ELSE {"free"}

\* Mutant: the callbacks are left registered on the connection being closed.
ClosePcb_StaysArmed ==
  IF pcb = NULL THEN UNCHANGED <<pcb, pcbs, armed>>
  ELSE /\ pcb' = NULL
       /\ \E s \in AfterClose(pcbs[pcb]) : pcbs' = [pcbs EXCEPT ![pcb] = s]
       /\ UNCHANGED armed

\* Mutant: pcb is forgotten without closing the connection.
ClosePcb_Leaks ==
  /\ pcb' = NULL
  /\ armed' = armed \ {pcb}
  /\ UNCHANGED pcbs

ClosePcb ==
  IF pcb = NULL THEN UNCHANGED <<pcb, pcbs, armed>>
  ELSE /\ pcb' = NULL
       /\ armed' = armed \ {pcb}
       /\ \E s \in AfterClose(pcbs[pcb]) : pcbs' = [pcbs EXCEPT ![pcb] = s]

SucceedRequest ==
  /\ ClosePcb
  /\ status' = "OK"
  /\ client_state' = "IDLE"
  /\ UNCHANGED have_ip

\* The bookkeeping of fail_request() around close_pcb().
Failed ==
  /\ have_ip' = FALSE
  /\ status' = "ERROR"
  /\ client_state' = "IDLE"

FailRequest == ClosePcb /\ Failed

-----------------------------------------------------------------------------
(* begin_connect().  Each of its callers has just set status = SENDING and  *)
(* have_ip = true, and holds pcb = NULL.                                   *)

\* Mutant: the count of acknowledged bytes is kept from the previous request.
Connect_KeepsCount(p, s) ==
  /\ pcbs[p] = "free"
  /\ pcb' = p
  /\ pcbs' = [pcbs EXCEPT ![p] = s]
  /\ armed' = armed \union {p}
  /\ unacked' = 0
  /\ client_state' = "CONNECTING"
  /\ status' = "SENDING" /\ have_ip' = TRUE
  /\ UNCHANGED sent_len

\* tcp_new_ip_type() has returned p, the callbacks are registered on it, and
\* tcp_connect() has left it in state s.
Connect(p, s) ==
  /\ pcbs[p] = "free"
  /\ pcb' = p
  /\ pcbs' = [pcbs EXCEPT ![p] = s]
  /\ armed' = armed \union {p}
  /\ sent_len' = 0 /\ unacked' = 0
  /\ client_state' = "CONNECTING"
  /\ status' = "SENDING" /\ have_ip' = TRUE

\* tcp_new_ip_type() has returned NULL.  Also the net effect, inside a callback, of a
\* failing tcp_connect(): nothing comes between it and the fail_request() that closes.
ConnectFails ==
  /\ Failed
  /\ sent_len' = 0
  /\ UNCHANGED <<pcb, pcbs, armed, unacked>>

BeginConnectFromTask ==
  \/ \E p \in PCBS : Connect(p, "connecting") /\ task' = "connect_ok"
  \/ \E p \in PCBS : Connect(p, "new") /\ task' = "connect_failed"
  \/ ConnectFails /\ task' = "ready"

BeginConnectFromCallback ==
  \/ \E p \in PCBS : Connect(p, "connecting")
  \/ ConnectFails

-----------------------------------------------------------------------------
(* task_thingspeak() -> start_request(), in the cooperative loop.          *)

\* Mutant: a request is started while another is in flight.
NewRequest_NoGuard(h) ==
  /\ task = "ready"
  /\ host' = h

\* Two guards in the code: task_thingspeak()'s and start_request()'s own.
NewRequest(h) ==
  /\ task = "ready"
  /\ client_state = "IDLE"
  /\ host' = h

\* Mutant: the cached address is used for any host.
CacheHit_AnyHost(h) == have_ip

CacheHit(h) == have_ip /\ cached_host = h

\* The address resolved for an earlier request is still trusted: connect at once.
StartCached(h) ==
  /\ NewRequest(h)
  /\ CacheHit(h)
  /\ BeginConnectFromTask
  /\ UNCHANGED <<cached_host, cached_addr, dns>>

\* dns_gethostbyname() answers from lwIP's own cache, starts a lookup whose answer
\* dns_found_cb will get, or fails to start one.
StartLookup(h) ==
  /\ NewRequest(h)
  /\ ~CacheHit(h)
  /\ status' = "SENDING" /\ sent_len' = 0
  /\ have_ip' = FALSE
  /\ cached_host' = h
  /\ client_state' = "RESOLVING"
  /\ \/ task' = "dns_ok" /\ cached_addr' = h /\ UNCHANGED dns
     \/ task' = "dns_inprogress" /\ dns' = dns \union {h} /\ UNCHANGED cached_addr
     \/ task' = "dns_failed" /\ UNCHANGED <<cached_addr, dns>>
  /\ UNCHANGED <<pcb, pcbs, armed, unacked>>

\* Mutant: client_state is set after dns_gethostbyname() has returned.
AfterLookup_SetsState ==
  /\ \/ task = "dns_ok" /\ BeginConnectFromTask
     \/ task = "dns_failed" /\ FailRequest /\ task' = "ready" /\ UNCHANGED <<sent_len, unacked>>
     \/ /\ task = "dns_inprogress" /\ task' = "ready"
        /\ client_state' = "RESOLVING"
        /\ UNCHANGED <<status, have_ip, pcb, sent_len, pcbs, armed, unacked>>
  /\ UNCHANGED <<cached_host, cached_addr, host, dns>>

\* start_request() looks at what dns_gethostbyname() returned.
AfterLookup ==
  /\ \/ task = "dns_ok" /\ BeginConnectFromTask
     \/ task = "dns_failed" /\ FailRequest /\ task' = "ready" /\ UNCHANGED <<sent_len, unacked>>
     \/ /\ task = "dns_inprogress" /\ task' = "ready"
        /\ UNCHANGED <<client_state, status, have_ip, pcb, sent_len, pcbs, armed, unacked>>
  /\ UNCHANGED <<cached_host, cached_addr, host, dns>>

\* begin_connect() looks at what tcp_connect() returned.
AfterConnect ==
  /\ task' = "ready"
  /\ \/ task = "connect_failed" /\ FailRequest
     \/ task = "connect_ok" /\ UNCHANGED <<client_state, status, have_ip, pcb, pcbs, armed>>
  /\ UNCHANGED <<cached_host, cached_addr, sent_len, host, unacked, dns>>

-----------------------------------------------------------------------------
(* lwIP's callbacks, in interrupt context.                                 *)

DnsFoundCb(h, found) ==
  /\ h \in dns
  /\ dns' = dns \ {h}
  /\ IF found
     THEN cached_addr' = h /\ BeginConnectFromCallback
     ELSE FailRequest /\ UNCHANGED <<cached_addr, sent_len, unacked>>
  /\ UNCHANGED <<cached_host, host, task>>

\* lwIP reports err, or the request is handed to tcp_write(), which can fail.
TcpConnectedCb(p, err) ==
  /\ pcbs[p] = "connecting" /\ p \in armed
  /\ \/ err = "refused" /\ FailRequest /\ UNCHANGED unacked
     \/ err = "write_failed" /\ FailRequest /\ UNCHANGED unacked
     \/ /\ err = "OK"
        /\ pcbs' = [pcbs EXCEPT ![p] = "open"]
        /\ unacked' = RequestLen
        /\ client_state' = "SENDING"
        /\ UNCHANGED <<status, pcb, have_ip, armed>>
  /\ UNCHANGED <<cached_host, cached_addr, sent_len, host, task, dns>>

\* Data, acknowledgements and timers reach a connection until lwIP has forgotten it.
Established(p) == pcbs[p] \in {"open", "closing"}

\* The peer has acknowledged len more bytes.
TcpSentCb(p, len) ==
  /\ Established(p) /\ p \in armed
  /\ len <= unacked
  /\ unacked' = unacked - len
  /\ sent_len' = sent_len + len
  /\ IF sent_len' >= RequestLen THEN SucceedRequest
     ELSE UNCHANGED <<client_state, status, have_ip, pcb, pcbs, armed>>
  /\ UNCHANGED <<cached_host, cached_addr, host, task, dns>>

\* Mutant: a peer that closes the connection counts as having taken the request.
PeerClosed_Succeeds ==
  IF pcb # NULL THEN SucceedRequest
  ELSE UNCHANGED <<client_state, status, have_ip, pcb, pcbs, armed>>

\* tcp_recv_cb with p = NULL.  With data it only logs the first line of the response.
PeerClosed ==
  IF pcb # NULL
  THEN IF sent_len >= RequestLen THEN SucceedRequest ELSE FailRequest
  ELSE UNCHANGED <<client_state, status, have_ip, pcb, pcbs, armed>>

TcpRecvCb(p) ==
  /\ Established(p) /\ p \in armed
  /\ PeerClosed
  /\ UNCHANGED <<cached_host, cached_addr, sent_len, host, task, unacked, dns>>

\* Mutant: the backstop spares a connection that is not established yet.
TcpPollCb_OnlyOpen(p) ==
  /\ Established(p) /\ p \in armed
  /\ FailRequest
  /\ UNCHANGED <<cached_host, cached_addr, sent_len, host, task, unacked, dns>>

\* The ~5s backstop registered with tcp_poll().
TcpPollCb(p) ==
  /\ pcbs[p] = "connecting" \/ Established(p)
  /\ p \in armed
  /\ FailRequest
  /\ UNCHANGED <<cached_host, cached_addr, sent_len, host, task,
                 unacked, dns>>

\* Mutant: on a reset `pcb' keeps pointing to the control block lwIP has freed.
TcpErrCb_KeepsPcb(p, err) ==
  /\ pcbs[p] = "connecting" \/ Established(p)
  /\ p \in armed
  /\ pcbs' = [pcbs EXCEPT ![p] = "free"]
  /\ armed' = armed \ {p}
  /\ IF err = "ERR_ABRT" THEN UNCHANGED <<client_state, status, have_ip>> ELSE Failed
  /\ UNCHANGED <<pcb, cached_host, cached_addr, sent_len, host, task, unacked, dns>>

\* lwIP frees the control block first and then calls tcp_err_cb with the reason: a reset
\* by the peer, or ERR_ABRT when lwIP itself gave the connection up.  close_pcb() clears
\* the callback before it calls tcp_abort(), so the client's own aborts never get here.
TcpErrCb(p, err) ==
  /\ pcbs[p] = "connecting" \/ Established(p)
  /\ p \in armed
  /\ pcbs' = [pcbs EXCEPT ![p] = "free"]
  /\ armed' = armed \ {p}
  /\ IF err = "ERR_ABRT" THEN UNCHANGED <<client_state, status, have_ip, pcb>>
     ELSE pcb' = NULL /\ Failed
  /\ UNCHANGED <<cached_host, cached_addr, sent_len, host, task,
                 unacked, dns>>

\* The peer has answered the FIN, or TIME-WAIT is over.
PcbReclaimed(p) ==
  /\ pcbs[p] = "closing"
  /\ pcbs' = [pcbs EXCEPT ![p] = "free"]
  /\ armed' = armed \ {p}
  /\ UNCHANGED <<clientVars, task, unacked, dns>>

-----------------------------------------------------------------------------
Task ==
  \/ \E h \in Hosts : StartCached(h) \/ StartLookup(h)
  \/ AfterLookup
  \/ AfterConnect

Lwip ==
  \/ \E h \in Hosts, found \in BOOLEAN : DnsFoundCb(h, found)
  \/ \E p \in PCBS :
       \/ \E err \in {"OK", "refused", "write_failed"} : TcpConnectedCb(p, err)
       \/ \E len \in 1..RequestLen : TcpSentCb(p, len)
       \/ TcpRecvCb(p)
       \/ TcpPollCb(p)
       \/ \E err \in {"ERR_RST", "ERR_ABRT"} : TcpErrCb(p, err)
       \/ PcbReclaimed(p)

Next == Task \/ Lwip

\* The loop keeps running; lwIP's resolver answers every lookup, if only to give it up,
\* and its slow timer polls every connection.
Fairness ==
  /\ WF_vars(AfterLookup)
  /\ WF_vars(AfterConnect)
  /\ WF_vars(\E h \in Hosts, found \in BOOLEAN : DnsFoundCb(h, found))
  /\ WF_vars(\E p \in PCBS : TcpPollCb(p))

Safety == Init /\ [][Next]_vars

Spec == Safety /\ Fairness
-----------------------------------------------------------------------------
(* Properties.                                                             *)

\* lwIP has freed the control block that `pcb' still points to.
Dangling == pcb # NULL /\ pcbs[pcb] = "free"

\* A control block the client opened and has not closed is the one in `pcb', which is
\* set exactly from begin_connect() to the end of the request; no other connection can
\* call back into the client.  (close_pcb() on every path, and clearing the callbacks
\* before it gives the connection away, thingspeak.cpp:109-119.)
OneConnection ==
  /\ \A p \in PCBS : pcbs[p] \in {"new", "connecting", "open"} => p = pcb
  /\ armed \subseteq {pcb}
  /\ pcb # NULL <=> client_state \in {"CONNECTING", "SENDING"}

\* As long as a request is in flight exactly one thing will carry it on: a value
\* start_request() has yet to look at, the one pending lookup, or a connection with its
\* callbacks; unless lwIP has aborted the connection.  Nothing is left over from it
\* once the client is idle.  (client_state is set before each call into lwIP, so an
\* early callback is not overwritten, thingspeak.cpp:227-231, 283-284.)
OneContinuation ==
  LET resolving  == client_state = "RESOLVING"
      connecting == client_state \in {"CONNECTING", "SENDING"}
  IN  /\ dns # {} => resolving /\ dns = {cached_host} /\ task \in {"ready", "dns_inprogress"}
      /\ task \in {"dns_ok", "dns_failed"} => resolving
      /\ resolving => dns # {} \/ task \in {"dns_ok", "dns_failed"}
      /\ connecting => armed # {} \/ Dangling
      /\ task = "connect_failed" => connecting /\ pcbs[pcb] = "new"

\* "ok" is reported only for a request every byte of which the peer has acknowledged on
\* its own connection ("Success here means the request was fully sent and acknowledged",
\* thingspeak.cpp:22-23).
OkMeansAcked == status = "OK" => sent_len = RequestLen /\ unacked = 0

\* A connection goes to the address resolved for the host of this very request, also
\* when /dev/config/url has changed since the cached address was resolved
\* (thingspeak.cpp:273-281).
AddressIsForHost == pcb # NULL => cached_addr = host

\* After an abort by lwIP `pcb' dangles, and is never used: no callback, no pending
\* lookup and no task step that could touch it is left, and no request can start.
DanglingIsInert ==
  Dangling => /\ client_state # "IDLE" /\ armed = {} /\ dns = {}
              /\ task \in {"ready", "dns_inprogress", "connect_ok"}

\* What the statics say together, between the steps of either context.
Bookkeeping ==
  /\ client_state # "IDLE" <=> status = "SENDING"
  /\ have_ip => cached_addr = cached_host /\ cached_addr # NULL
  /\ client_state # "IDLE" => cached_host = host /\ host # NULL
  /\ task = "dns_ok" => cached_addr = host
  /\ pcb # NULL => have_ip
  /\ armed = {p \in PCBS : pcbs[p] \in {"new", "connecting", "open"}}
  /\ task = "connect_ok" => client_state # "RESOLVING"
  /\ pcb # NULL => pcbs[pcb] # "closing"
  /\ pcb # NULL /\ pcbs[pcb] = "new" => task = "connect_failed"
  /\ client_state = "CONNECTING" => pcbs[pcb] # "open" /\ sent_len = 0
  /\ client_state = "SENDING" => pcbs[pcb] \in {"open", "free"} /\ sent_len + unacked = RequestLen

\* The inductive invariant.
IInv ==
  /\ TypeOK
  /\ OneConnection
  /\ OneContinuation
  /\ OkMeansAcked
  /\ AddressIsForHost
  /\ DanglingIsInert
  /\ Bookkeeping

\* Each request ends, with poll callback and resolver as the backstops, unless lwIP
\* aborts its connection.
Ends == client_state # "IDLE" ~> client_state = "IDLE" \/ Dangling

\* The backstop as thingspeak.h:38-39 has it: "a per-connection tcp_poll() backstop
\* fails it out after a few seconds of silence either way".
AlwaysEnds == client_state # "IDLE" ~> client_state = "IDLE"

\* The client implements Upload: one outcome for each request, and a destination that
\* does not change while the request is in flight.
U == INSTANCE Upload WITH
       Requests <- Hosts,
       inflight <- IF client_state = "IDLE" THEN NULL ELSE host
ImplementsUpload == U!Safety
=============================================================================
