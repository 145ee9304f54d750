---------------------- MODULE ThingspeakClient_proofs -----------------------
(***************************************************************************)
(* Theorems about the upload client of ThingspeakClient, for every set of  *)
(* hosts, every pool of control blocks and every request length.  IInv is  *)
(* the inductive invariant; everything else follows from it.               *)
(***************************************************************************)
EXTENDS ThingspeakClient, TLAPS

USE DEF Dangling

\* Nothing is in flight when the program starts.
LEMMA InitIInv == Init => IInv
<1> SUFFICES ASSUME Init PROVE IInv
  OBVIOUS
<1> USE NullAssumption, RequestLenAssumption DEF Init
<1>1. StateTypeOK /\ OneConnection /\ OneContinuation /\ DanglingIsInert /\ Bookkeeping
  BY DEF StateTypeOK, OneConnection, OneContinuation, DanglingIsInert, Bookkeeping
<1>2. LengthTypeOK /\ OkMeansAcked /\ AddressIsForHost
  BY DEF LengthTypeOK, OkMeansAcked, AddressIsForHost
<1>3. QED
  BY <1>1, <1>2 DEF IInv, TypeOK

\* No step of the task and no callback breaks the invariant.
LEMMA NextIInv == IInv /\ [Next]_vars => IInv'
<1> SUFFICES ASSUME IInv, [Next]_vars PROVE IInv'
  OBVIOUS
<1> USE NullAssumption, RequestLenAssumption
    DEF IInv, TypeOK, StateTypeOK, LengthTypeOK, OneConnection, OneContinuation, DanglingIsInert, Bookkeeping
<1>1. ASSUME NEW h \in Hosts, StartCached(h) PROVE IInv'
  <2>1. StateTypeOK'
    BY <1>1 DEF StartCached, NewRequest, CacheHit, BeginConnectFromTask, Connect, ConnectFails, Failed, StateTypeOK
  <2>2. LengthTypeOK'
    BY <1>1 DEF StartCached, NewRequest, CacheHit, BeginConnectFromTask, Connect, ConnectFails, Failed, LengthTypeOK
  <2>3. OneConnection'
    BY <1>1 DEF StartCached, NewRequest, CacheHit, BeginConnectFromTask, Connect, ConnectFails, Failed, OneConnection
  <2>4. OneContinuation'
    BY <1>1 DEF StartCached, NewRequest, CacheHit, BeginConnectFromTask, Connect, ConnectFails, Failed, OneContinuation
  <2>5. OkMeansAcked'
    BY <1>1 DEF StartCached, NewRequest, CacheHit, BeginConnectFromTask, Connect, ConnectFails, Failed, OkMeansAcked
  <2>6. AddressIsForHost'
    BY <1>1 DEF StartCached, NewRequest, CacheHit, BeginConnectFromTask, Connect, ConnectFails, Failed, AddressIsForHost
  <2>7. DanglingIsInert'
    BY <1>1 DEF StartCached, NewRequest, CacheHit, BeginConnectFromTask, Connect, ConnectFails, Failed, DanglingIsInert
  <2>8. Bookkeeping'
    BY <1>1 DEF StartCached, NewRequest, CacheHit, BeginConnectFromTask, Connect, ConnectFails, Failed, Bookkeeping
  <2>9. QED
    BY <2>1, <2>2, <2>3, <2>4, <2>5, <2>6, <2>7, <2>8 DEF IInv
<1>2. ASSUME NEW h \in Hosts, StartLookup(h) PROVE IInv'
  <2>1. StateTypeOK'
    BY <1>2 DEF StartLookup, NewRequest, CacheHit, StateTypeOK
  <2>2. LengthTypeOK'
    BY <1>2 DEF StartLookup, NewRequest, CacheHit, LengthTypeOK
  <2>3. OneConnection'
    BY <1>2 DEF StartLookup, NewRequest, CacheHit, OneConnection
  <2>4. OneContinuation'
    BY <1>2 DEF StartLookup, NewRequest, CacheHit, OneContinuation
  <2>5. OkMeansAcked'
    BY <1>2 DEF StartLookup, NewRequest, CacheHit, OkMeansAcked
  <2>6. AddressIsForHost'
    BY <1>2 DEF StartLookup, NewRequest, CacheHit, AddressIsForHost
  <2>7. DanglingIsInert'
    BY <1>2 DEF StartLookup, NewRequest, CacheHit, DanglingIsInert
  <2>8. Bookkeeping'
    BY <1>2 DEF StartLookup, NewRequest, CacheHit, Bookkeeping
  <2>9. QED
    BY <2>1, <2>2, <2>3, <2>4, <2>5, <2>6, <2>7, <2>8 DEF IInv
<1>3. CASE AfterLookup
  <2>1. StateTypeOK'
    BY <1>3 DEF AfterLookup, BeginConnectFromTask, Connect, ConnectFails, FailRequest, ClosePcb, AfterClose, Failed, StateTypeOK
  <2>2. LengthTypeOK'
    BY <1>3 DEF AfterLookup, BeginConnectFromTask, Connect, ConnectFails, FailRequest, ClosePcb, AfterClose, Failed, LengthTypeOK
  <2>3. OneConnection'
    BY <1>3 DEF AfterLookup, BeginConnectFromTask, Connect, ConnectFails, FailRequest, ClosePcb, AfterClose, Failed, OneConnection
  <2>4. OneContinuation'
    BY <1>3 DEF AfterLookup, BeginConnectFromTask, Connect, ConnectFails, FailRequest, ClosePcb, AfterClose, Failed, OneContinuation
  <2>5. OkMeansAcked'
    BY <1>3 DEF AfterLookup, BeginConnectFromTask, Connect, ConnectFails, FailRequest, ClosePcb, AfterClose, Failed, OkMeansAcked
  <2>6. AddressIsForHost'
    BY <1>3 DEF AfterLookup, BeginConnectFromTask, Connect, ConnectFails, FailRequest, ClosePcb, AfterClose, Failed, AddressIsForHost
  <2>7. DanglingIsInert'
    BY <1>3 DEF AfterLookup, BeginConnectFromTask, Connect, ConnectFails, FailRequest, ClosePcb, AfterClose, Failed, DanglingIsInert
  <2>8. Bookkeeping'
    BY <1>3 DEF AfterLookup, BeginConnectFromTask, Connect, ConnectFails, FailRequest, ClosePcb, AfterClose, Failed, Bookkeeping
  <2>9. QED
    BY <2>1, <2>2, <2>3, <2>4, <2>5, <2>6, <2>7, <2>8 DEF IInv
<1>4. CASE AfterConnect
  <2>1. StateTypeOK'
    BY <1>4 DEF AfterConnect, FailRequest, ClosePcb, AfterClose, Failed, StateTypeOK
  <2>2. LengthTypeOK'
    BY <1>4 DEF AfterConnect, FailRequest, ClosePcb, AfterClose, Failed, LengthTypeOK
  <2>3. OneConnection'
    BY <1>4 DEF AfterConnect, FailRequest, ClosePcb, AfterClose, Failed, OneConnection
  <2>4. OneContinuation'
    BY <1>4 DEF AfterConnect, FailRequest, ClosePcb, AfterClose, Failed, OneContinuation
  <2>5. OkMeansAcked'
    BY <1>4 DEF AfterConnect, FailRequest, ClosePcb, AfterClose, Failed, OkMeansAcked
  <2>6. AddressIsForHost'
    BY <1>4 DEF AfterConnect, FailRequest, ClosePcb, AfterClose, Failed, AddressIsForHost
  <2>7. DanglingIsInert'
    BY <1>4 DEF AfterConnect, FailRequest, ClosePcb, AfterClose, Failed, DanglingIsInert
  <2>8. Bookkeeping'
    BY <1>4 DEF AfterConnect, FailRequest, ClosePcb, AfterClose, Failed, Bookkeeping
  <2>9. QED
    BY <2>1, <2>2, <2>3, <2>4, <2>5, <2>6, <2>7, <2>8 DEF IInv
<1>5. ASSUME NEW h \in Hosts, NEW found \in BOOLEAN, DnsFoundCb(h, found) PROVE IInv'
  <2>1. StateTypeOK'
    BY <1>5 DEF DnsFoundCb, BeginConnectFromCallback, Connect, ConnectFails, FailRequest, ClosePcb, AfterClose, Failed, StateTypeOK
  <2>2. LengthTypeOK'
    BY <1>5 DEF DnsFoundCb, BeginConnectFromCallback, Connect, ConnectFails, FailRequest, ClosePcb, AfterClose, Failed, LengthTypeOK
  <2>3. OneConnection'
    BY <1>5 DEF DnsFoundCb, BeginConnectFromCallback, Connect, ConnectFails, FailRequest, ClosePcb, AfterClose, Failed, OneConnection
  <2>4. OneContinuation'
    BY <1>5 DEF DnsFoundCb, BeginConnectFromCallback, Connect, ConnectFails, FailRequest, ClosePcb, AfterClose, Failed, OneContinuation
  <2>5. OkMeansAcked'
    BY <1>5 DEF DnsFoundCb, BeginConnectFromCallback, Connect, ConnectFails, FailRequest, ClosePcb, AfterClose, Failed, OkMeansAcked
  <2>6. AddressIsForHost'
    BY <1>5 DEF DnsFoundCb, BeginConnectFromCallback, Connect, ConnectFails, FailRequest, ClosePcb, AfterClose, Failed, AddressIsForHost
  <2>7. DanglingIsInert'
    BY <1>5 DEF DnsFoundCb, BeginConnectFromCallback, Connect, ConnectFails, FailRequest, ClosePcb, AfterClose, Failed, DanglingIsInert
  <2>8. Bookkeeping'
    BY <1>5 DEF DnsFoundCb, BeginConnectFromCallback, Connect, ConnectFails, FailRequest, ClosePcb, AfterClose, Failed, Bookkeeping
  <2>9. QED
    BY <2>1, <2>2, <2>3, <2>4, <2>5, <2>6, <2>7, <2>8 DEF IInv
<1>6. ASSUME NEW p \in PCBS, NEW err, TcpConnectedCb(p, err) PROVE IInv'
  <2>1. StateTypeOK'
    BY <1>6 DEF TcpConnectedCb, FailRequest, ClosePcb, AfterClose, Failed, StateTypeOK
  <2>2. LengthTypeOK'
    BY <1>6 DEF TcpConnectedCb, FailRequest, ClosePcb, AfterClose, Failed, LengthTypeOK
  <2>3. OneConnection'
    BY <1>6 DEF TcpConnectedCb, FailRequest, ClosePcb, AfterClose, Failed, OneConnection
  <2>4. OneContinuation'
    BY <1>6 DEF TcpConnectedCb, FailRequest, ClosePcb, AfterClose, Failed, OneContinuation
  <2>5. OkMeansAcked'
    BY <1>6 DEF TcpConnectedCb, FailRequest, ClosePcb, AfterClose, Failed, OkMeansAcked
  <2>6. AddressIsForHost'
    BY <1>6 DEF TcpConnectedCb, FailRequest, ClosePcb, AfterClose, Failed, AddressIsForHost
  <2>7. DanglingIsInert'
    BY <1>6 DEF TcpConnectedCb, FailRequest, ClosePcb, AfterClose, Failed, DanglingIsInert
  <2>8. Bookkeeping'
    BY <1>6 DEF TcpConnectedCb, FailRequest, ClosePcb, AfterClose, Failed, Bookkeeping
  <2>9. QED
    BY <2>1, <2>2, <2>3, <2>4, <2>5, <2>6, <2>7, <2>8 DEF IInv
<1>7. ASSUME NEW p \in PCBS, NEW len \in 1..RequestLen, TcpSentCb(p, len) PROVE IInv'
  <2>1. StateTypeOK'
    BY <1>7 DEF TcpSentCb, Established, SucceedRequest, ClosePcb, AfterClose, StateTypeOK
  <2>2. LengthTypeOK'
    BY <1>7 DEF TcpSentCb, Established, SucceedRequest, ClosePcb, AfterClose, LengthTypeOK
  <2>3. OneConnection'
    BY <1>7 DEF TcpSentCb, Established, SucceedRequest, ClosePcb, AfterClose, OneConnection
  <2>4. OneContinuation'
    BY <1>7 DEF TcpSentCb, Established, SucceedRequest, ClosePcb, AfterClose, OneContinuation
  <2>5. OkMeansAcked'
    BY <1>7 DEF TcpSentCb, Established, SucceedRequest, ClosePcb, AfterClose, OkMeansAcked
  <2>6. AddressIsForHost'
    BY <1>7 DEF TcpSentCb, Established, SucceedRequest, ClosePcb, AfterClose, AddressIsForHost
  <2>7. DanglingIsInert'
    BY <1>7 DEF TcpSentCb, Established, SucceedRequest, ClosePcb, AfterClose, DanglingIsInert
  <2>8. Bookkeeping'
    BY <1>7 DEF TcpSentCb, Established, SucceedRequest, ClosePcb, AfterClose, Bookkeeping
  <2>9. QED
    BY <2>1, <2>2, <2>3, <2>4, <2>5, <2>6, <2>7, <2>8 DEF IInv
<1>8. ASSUME NEW p \in PCBS, TcpRecvCb(p) PROVE IInv'
  <2>1. StateTypeOK'
    BY <1>8 DEF TcpRecvCb, PeerClosed, Established, SucceedRequest, FailRequest, ClosePcb, AfterClose, Failed, StateTypeOK
  <2>2. LengthTypeOK'
    BY <1>8 DEF TcpRecvCb, PeerClosed, Established, SucceedRequest, FailRequest, ClosePcb, AfterClose, Failed, LengthTypeOK
  <2>3. OneConnection'
    BY <1>8 DEF TcpRecvCb, PeerClosed, Established, SucceedRequest, FailRequest, ClosePcb, AfterClose, Failed, OneConnection
  <2>4. OneContinuation'
    BY <1>8 DEF TcpRecvCb, PeerClosed, Established, SucceedRequest, FailRequest, ClosePcb, AfterClose, Failed, OneContinuation
  <2>5. OkMeansAcked'
    BY <1>8 DEF TcpRecvCb, PeerClosed, Established, SucceedRequest, FailRequest, ClosePcb, AfterClose, Failed, OkMeansAcked
  <2>6. AddressIsForHost'
    BY <1>8 DEF TcpRecvCb, PeerClosed, Established, SucceedRequest, FailRequest, ClosePcb, AfterClose, Failed, AddressIsForHost
  <2>7. DanglingIsInert'
    BY <1>8 DEF TcpRecvCb, PeerClosed, Established, SucceedRequest, FailRequest, ClosePcb, AfterClose, Failed, DanglingIsInert
  <2>8. Bookkeeping'
    BY <1>8 DEF TcpRecvCb, PeerClosed, Established, SucceedRequest, FailRequest, ClosePcb, AfterClose, Failed, Bookkeeping
  <2>9. QED
    BY <2>1, <2>2, <2>3, <2>4, <2>5, <2>6, <2>7, <2>8 DEF IInv
<1>9. ASSUME NEW p \in PCBS, TcpPollCb(p) PROVE IInv'
  <2>1. StateTypeOK'
    BY <1>9 DEF TcpPollCb, Established, FailRequest, ClosePcb, AfterClose, Failed, StateTypeOK
  <2>2. LengthTypeOK'
    BY <1>9 DEF TcpPollCb, Established, FailRequest, ClosePcb, AfterClose, Failed, LengthTypeOK
  <2>3. OneConnection'
    BY <1>9 DEF TcpPollCb, Established, FailRequest, ClosePcb, AfterClose, Failed, OneConnection
  <2>4. OneContinuation'
    BY <1>9 DEF TcpPollCb, Established, FailRequest, ClosePcb, AfterClose, Failed, OneContinuation
  <2>5. OkMeansAcked'
    BY <1>9 DEF TcpPollCb, Established, FailRequest, ClosePcb, AfterClose, Failed, OkMeansAcked
  <2>6. AddressIsForHost'
    BY <1>9 DEF TcpPollCb, Established, FailRequest, ClosePcb, AfterClose, Failed, AddressIsForHost
  <2>7. DanglingIsInert'
    BY <1>9 DEF TcpPollCb, Established, FailRequest, ClosePcb, AfterClose, Failed, DanglingIsInert
  <2>8. Bookkeeping'
    BY <1>9 DEF TcpPollCb, Established, FailRequest, ClosePcb, AfterClose, Failed, Bookkeeping
  <2>9. QED
    BY <2>1, <2>2, <2>3, <2>4, <2>5, <2>6, <2>7, <2>8 DEF IInv
<1>10. ASSUME NEW p \in PCBS, NEW err, TcpErrCb(p, err) PROVE IInv'
  <2>1. StateTypeOK'
    BY <1>10 DEF TcpErrCb, Established, Failed, StateTypeOK
  <2>2. LengthTypeOK'
    BY <1>10 DEF TcpErrCb, Established, Failed, LengthTypeOK
  <2>3. OneConnection'
    BY <1>10 DEF TcpErrCb, Established, Failed, OneConnection
  <2>4. OneContinuation'
    BY <1>10 DEF TcpErrCb, Established, Failed, OneContinuation
  <2>5. OkMeansAcked'
    BY <1>10 DEF TcpErrCb, Established, Failed, OkMeansAcked
  <2>6. AddressIsForHost'
    BY <1>10 DEF TcpErrCb, Established, Failed, AddressIsForHost
  <2>7. DanglingIsInert'
    BY <1>10 DEF TcpErrCb, Established, Failed, DanglingIsInert
  <2>8. Bookkeeping'
    BY <1>10 DEF TcpErrCb, Established, Failed, Bookkeeping
  <2>9. QED
    BY <2>1, <2>2, <2>3, <2>4, <2>5, <2>6, <2>7, <2>8 DEF IInv
<1>11. ASSUME NEW p \in PCBS, PcbReclaimed(p) PROVE IInv'
  <2>1. StateTypeOK'
    BY <1>11 DEF PcbReclaimed, clientVars, StateTypeOK
  <2>2. LengthTypeOK'
    BY <1>11 DEF PcbReclaimed, clientVars, LengthTypeOK
  <2>3. OneConnection'
    BY <1>11 DEF PcbReclaimed, clientVars, OneConnection
  <2>4. OneContinuation'
    BY <1>11 DEF PcbReclaimed, clientVars, OneContinuation
  <2>5. OkMeansAcked'
    BY <1>11 DEF PcbReclaimed, clientVars, OkMeansAcked
  <2>6. AddressIsForHost'
    BY <1>11 DEF PcbReclaimed, clientVars, AddressIsForHost
  <2>7. DanglingIsInert'
    BY <1>11 DEF PcbReclaimed, clientVars, DanglingIsInert
  <2>8. Bookkeeping'
    BY <1>11 DEF PcbReclaimed, clientVars, Bookkeeping
  <2>9. QED
    BY <2>1, <2>2, <2>3, <2>4, <2>5, <2>6, <2>7, <2>8 DEF IInv
<1>12. CASE UNCHANGED vars
  <2>1. StateTypeOK'
    BY <1>12 DEF vars, clientVars, lwipVars, StateTypeOK
  <2>2. LengthTypeOK'
    BY <1>12 DEF vars, clientVars, lwipVars, LengthTypeOK
  <2>3. OneConnection'
    BY <1>12 DEF vars, clientVars, lwipVars, OneConnection
  <2>4. OneContinuation'
    BY <1>12 DEF vars, clientVars, lwipVars, OneContinuation
  <2>5. OkMeansAcked'
    BY <1>12 DEF vars, clientVars, lwipVars, OkMeansAcked
  <2>6. AddressIsForHost'
    BY <1>12 DEF vars, clientVars, lwipVars, AddressIsForHost
  <2>7. DanglingIsInert'
    BY <1>12 DEF vars, clientVars, lwipVars, DanglingIsInert
  <2>8. Bookkeeping'
    BY <1>12 DEF vars, clientVars, lwipVars, Bookkeeping
  <2>9. QED
    BY <2>1, <2>2, <2>3, <2>4, <2>5, <2>6, <2>7, <2>8 DEF IInv
<1>13. QED
  BY <1>1, <1>2, <1>3, <1>4, <1>5, <1>6, <1>7, <1>8, <1>9, <1>10, <1>11, <1>12
  DEF Next, Task, Lwip

\* The inductive invariant holds in every reachable state of the client.
THEOREM Invariance == Safety => []IInv
BY InitIInv, NextIInv, PTL DEF Safety

-----------------------------------------------------------------------------
\* Every static keeps its type; in particular sent_len never passes request_len.
THEOREM TypeCorrect == Safety => []TypeOK
<1>1. IInv => TypeOK
  BY DEF IInv
<1>2. QED
  BY <1>1, Invariance, PTL

\* close_pcb() is reached on every path: no control block is leaked, and no connection
\* but the current one can call back.
THEOREM NoLeakedConnection == Safety => []OneConnection
<1>1. IInv => OneConnection
  BY DEF IInv
<1>2. QED
  BY <1>1, Invariance, PTL

\* An interrupt between a call into lwIP and the look at its result never leaves a
\* request that nothing will carry on.
THEOREM NoLostContinuation == Safety => []OneContinuation
<1>1. IInv => OneContinuation
  BY DEF IInv
<1>2. QED
  BY <1>1, Invariance, PTL

\* "ok" is never reported for a request the peer has not acknowledged in full.
THEOREM OkIsTrue == Safety => []OkMeansAcked
<1>1. IInv => OkMeansAcked
  BY DEF IInv
<1>2. QED
  BY <1>1, Invariance, PTL

\* A request never goes to the cached address of another host.
THEOREM AddressIsCurrent == Safety => []AddressIsForHost
<1>1. IInv => AddressIsForHost
  BY DEF IInv
<1>2. QED
  BY <1>1, Invariance, PTL

\* The control block that lwIP has freed is never touched again.
THEOREM NoUseAfterFree == Safety => []DanglingIsInert
<1>1. IInv => DanglingIsInert
  BY DEF IInv
<1>2. QED
  BY <1>1, Invariance, PTL

-----------------------------------------------------------------------------
\* Once lwIP has aborted a connection of its own accord the client never leaves that
\* state: tcp_err_cb returns at once on ERR_ABRT, and no other step is left.
THEOREM AbortIsForever == Safety => [][Dangling => Dangling']_vars
<1>1. ASSUME IInv, [Next]_vars, Dangling PROVE Dangling'
  <2> USE <1>1 DEF IInv, TypeOK, StateTypeOK, OneContinuation, DanglingIsInert
  <2>1. CASE Task
    BY <2>1 DEF Task, StartCached, StartLookup, NewRequest, AfterLookup, AfterConnect
  <2>2. CASE Lwip
    BY <2>2 DEF Lwip, DnsFoundCb, TcpConnectedCb, TcpSentCb, TcpRecvCb, TcpPollCb, TcpErrCb,
                PcbReclaimed, clientVars
  <2>3. CASE UNCHANGED vars
    BY <2>3 DEF vars, clientVars, lwipVars
  <2>4. QED
    BY <2>1, <2>2, <2>3 DEF Next
<1>2. QED
  BY <1>1, Invariance, PTL DEF Safety

-----------------------------------------------------------------------------
(* The refinement: a step of the client is a step of Upload or leaves the  *)
(* request and its outcome alone.                                          *)

LEMMA InitUpload == Init => U!Init
BY DEF Init, U!Init

LEMMA NextUpload == IInv /\ [Next]_vars => [U!Next]_(U!vars)
<1> SUFFICES ASSUME IInv, [Next]_vars PROVE [U!Next]_(U!vars)
  OBVIOUS
<1> USE NullAssumption
    DEF IInv, TypeOK, StateTypeOK, OneConnection, OneContinuation, Bookkeeping,
        U!Next, U!vars, U!Start, U!Finish, U!FailAtStart
<1>1. ASSUME NEW h \in Hosts, StartCached(h) PROVE [U!Next]_(U!vars)
  BY <1>1 DEF StartCached, NewRequest, BeginConnectFromTask, Connect, ConnectFails, Failed
<1>2. ASSUME NEW h \in Hosts, StartLookup(h) PROVE [U!Next]_(U!vars)
  BY <1>2 DEF StartLookup, NewRequest
<1>3. CASE AfterLookup
  BY <1>3 DEF AfterLookup, BeginConnectFromTask, Connect, ConnectFails, FailRequest, Failed
<1>4. CASE AfterConnect
  BY <1>4 DEF AfterConnect, FailRequest, Failed
<1>5. ASSUME NEW h \in Hosts, NEW found \in BOOLEAN, DnsFoundCb(h, found)
      PROVE [U!Next]_(U!vars)
  BY <1>5 DEF DnsFoundCb, BeginConnectFromCallback, Connect, ConnectFails, FailRequest, Failed
<1>6. ASSUME NEW p \in PCBS, NEW err, TcpConnectedCb(p, err) PROVE [U!Next]_(U!vars)
  BY <1>6 DEF TcpConnectedCb, FailRequest, Failed
<1>7. ASSUME NEW p \in PCBS, NEW len \in 1..RequestLen, TcpSentCb(p, len)
      PROVE [U!Next]_(U!vars)
  BY <1>7 DEF TcpSentCb, SucceedRequest
<1>8. ASSUME NEW p \in PCBS, TcpRecvCb(p) PROVE [U!Next]_(U!vars)
  BY <1>8 DEF TcpRecvCb, PeerClosed, SucceedRequest, FailRequest, Failed
<1>9. ASSUME NEW p \in PCBS, TcpPollCb(p) PROVE [U!Next]_(U!vars)
  BY <1>9 DEF TcpPollCb, FailRequest, Failed
<1>10. ASSUME NEW p \in PCBS, NEW err, TcpErrCb(p, err) PROVE [U!Next]_(U!vars)
  BY <1>10 DEF TcpErrCb, Failed
<1>11. ASSUME NEW p \in PCBS, PcbReclaimed(p) PROVE [U!Next]_(U!vars)
  BY <1>11 DEF PcbReclaimed, clientVars
<1>12. CASE UNCHANGED vars
  BY <1>12 DEF vars, clientVars
<1>13. QED
  BY <1>1, <1>2, <1>3, <1>4, <1>5, <1>6, <1>7, <1>8, <1>9, <1>10, <1>11, <1>12
  DEF Next, Task, Lwip

\* The callback-driven client keeps the promise of thingspeak.h: one request at a time,
\* one outcome for each.
THEOREM Refinement == Safety => ImplementsUpload
BY InitUpload, NextUpload, Invariance, PTL DEF Safety, ImplementsUpload, U!Safety
=============================================================================
