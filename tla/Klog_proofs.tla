------------------------------ MODULE Klog_proofs ------------------------------
(***************************************************************************)
(* For a ring of any length and any messages: wherever callbacks log, the  *)
(* count stays within its bounds, and until one of them has raced, the     *)
(* ring of kernel/klog.cpp is the queue that klog.h promises.              *)
(***************************************************************************)
EXTENDS Klog, TLAPS

USE QueueLenAssumption, MaxDroppedAssumption

\* The remainder of a sum of two indices, and one around the ring.
LEMMA Wraps ==
  ASSUME NEW a \in 0..(2 * QueueLen - 1)
  PROVE  a % QueueLen = IF a < QueueLen THEN a ELSE a - QueueLen
  OBVIOUS

\* The index of the line that comes n places after the first.
Place(n) == (First + n) % QueueLen

\* Inside klog(), with a place to write to; the points from which slot is head's place, and
\* those at which head has left it already.
Inside == {"slot", "tag", "body", "head", "head_store", "count", "count_store"}
Writing == {"tag", "body", "head", "head_store"}
HeadMoved == {"count", "count_store"}

\* What holds wherever callbacks log.
Bounds ==
  /\ CountInBounds
  /\ pc \in Inside => count <= QueueLen
  /\ Printed => count > 0
  /\ pc = "count_store" => reg <= QueueLen
  /\ pc = "dec_store" => reg \in 1..(QueueLen + 1)
  /\ pc = "drop_store" => reg < MaxDropped

\* The ring is consistent at each point of the task.
RingOK ==
  /\ count <= QueueLen
  /\ head = Place(IF pc \in HeadMoved THEN count + 1 ELSE count)
  /\ pc \in Inside => count < QueueLen
  /\ pc \in Writing => slot = Place(count)
  /\ pc = "body" => queue[slot].tag = msg
  /\ pc \in {"head", "head_store"} => queue[slot] = Whole(msg)
  /\ pc \in HeadMoved => queue[Place(count)] \in Wholes
  /\ pc = "head_store" => reg = head
  /\ pc \in {"count_store", "dec_store"} => reg = count
  /\ pc = "drop_store" => reg = dropped /\ Full

KInv == TypeOK /\ Bounds /\ (~raced => RingOK)

LEMMA FirstType == ASSUME TypeOK PROVE First \in Indices
<1>1. (tail + QueueLen - 1) % QueueLen \in Indices
  BY DEF TypeOK, Indices
<1>2. QED
  BY <1>1 DEF First, TypeOK

\* Places less than a ring's length apart are different.
LEMMA PlacesDiffer ==
  ASSUME TypeOK, NEW m \in Indices, NEW n \in Indices, Place(m) = Place(n)
  PROVE  m = n
<1>1. First + m \in 0..(2 * QueueLen - 1) /\ First + n \in 0..(2 * QueueLen - 1)
  BY FirstType DEF Indices
<1>2. QED
  BY <1>1, Wraps, FirstType DEF Place, Indices

LEMMA PlaceType == ASSUME TypeOK, NEW n \in 0..QueueLen PROVE Place(n) \in Indices
  BY FirstType DEF Place, Indices

\* The place after a place.
LEMMA NextPlace == ASSUME TypeOK, NEW n \in 0..(QueueLen - 1) PROVE NextIndex(Place(n)) = Place(n + 1)
<1>1. /\ First + n \in 0..(2 * QueueLen - 1) /\ First + n + 1 \in 0..(2 * QueueLen - 1)
      /\ Place(n) + 1 \in 0..(2 * QueueLen - 1)
  BY FirstType, PlaceType DEF Indices
<1>2. QED
  BY <1>1, Wraps, FirstType DEF Place, NextIndex, Indices

\* The first line when tail has moved on, and once it has been removed.
LEMMA TailMoves == ASSUME TypeOK PROVE (NextIndex(tail) + QueueLen - 1) % QueueLen = tail
<1>1. tail \in Nat /\ tail < QueueLen /\ QueueLen \in Nat
  BY DEF TypeOK, Indices
<1>2. NextIndex(tail) = IF tail + 1 < QueueLen THEN tail + 1 ELSE 0
  BY <1>1, Wraps DEF NextIndex
<1>3. CASE tail + 1 < QueueLen
  <2>1. NextIndex(tail) + QueueLen - 1 = tail + QueueLen /\ tail + QueueLen \in 0..(2 * QueueLen - 1)
    BY <1>1, <1>2, <1>3
  <2>2. (tail + QueueLen) % QueueLen = tail
    BY <1>1, <2>1, Wraps
  <2> QED
    BY <2>1, <2>2
<1>4. CASE ~(tail + 1 < QueueLen)
  <2>1. NextIndex(tail) + QueueLen - 1 = tail /\ tail \in 0..(2 * QueueLen - 1)
    BY <1>1, <1>2, <1>4
  <2>2. tail % QueueLen = tail
    BY <1>1, <2>1, Wraps
  <2> QED
    BY <2>1, <2>2
<1> QED
  BY <1>3, <1>4

LEMMA FirstRemoved ==
  ASSUME TypeOK, pc = "dec_store", NEW n \in 0..(QueueLen - 1)
  PROVE  (tail + n) % QueueLen = Place(n + 1)
<1>1. tail \in Nat /\ tail < QueueLen /\ QueueLen \in Nat /\ n \in Nat /\ n < QueueLen
  BY DEF TypeOK, Indices
<1>2. First = IF tail = 0 THEN QueueLen - 1 ELSE tail - 1
  <2>1. tail + QueueLen - 1 \in 0..(2 * QueueLen - 1)
    BY <1>1
  <2> QED
    BY <1>1, <2>1, Wraps DEF First
<1>3. CASE tail = 0
  <2>1. First + (n + 1) = QueueLen + n /\ QueueLen + n \in 0..(2 * QueueLen - 1) /\ n \in 0..(2 * QueueLen - 1)
    BY <1>1, <1>2, <1>3
  <2>2. (QueueLen + n) % QueueLen = n /\ n % QueueLen = n
    BY <1>1, <2>1, Wraps
  <2> QED
    BY <1>1, <1>3, <2>1, <2>2 DEF Place
<1>4. CASE tail # 0
  BY <1>1, <1>2, <1>4 DEF Place
<1> QED
  BY <1>3, <1>4

-----------------------------------------------------------------------------
(* What holds wherever callbacks log.                                      *)

LEMMA InitRing == Init => KInv
<1> SUFFICES ASSUME Init PROVE KInv
  OBVIOUS
<1>1. 0 \in Indices /\ 0 % QueueLen = 0 /\ 0 \in 0..QueueLen
  BY Wraps DEF Indices
<1>2. TypeOK
  <2>1. PICK m \in Msgs : queue = [i \in Indices |-> Whole(m)] /\ line = Whole(m) /\ msg = m
    BY DEF Init
  <2>2. Whole(m) \in Line
    BY DEF Whole, Line
  <2>3. pc \in Points /\ raced \in BOOLEAN
    BY DEF Init, Points
  <2>4. count \in Nat /\ reg \in Nat /\ dropped \in 0..MaxDropped /\ reported \in 0..MaxDropped
    BY DEF Init
  <2>5. head \in Indices /\ tail \in Indices /\ slot \in Indices
    BY <1>1 DEF Init
  <2> QED
    BY <2>1, <2>2, <2>3, <2>4, <2>5 DEF TypeOK
<1>3. Bounds
  <2>1. pc = "idle" /\ count = 0 /\ 0 \in 0..(QueueLen + 1)
    BY DEF Init
  <2> QED
    BY <2>1 DEF Bounds, CountInBounds, Inside, Printed
<1>4. RingOK
  BY <1>1 DEF Init, RingOK, Place, First, Inside, Writing, HeadMoved
<1> QED
  BY <1>2, <1>3, <1>4 DEF KInv

LEMMA NextIndexType == ASSUME NEW i \in Nat PROVE NextIndex(i) \in Indices
  BY DEF NextIndex, Indices

LEMMA TaskTypes == ASSUME TypeOK, Bounds, TaskStep PROVE TypeOK'
<1> USE DEF TypeOK, Points
<1>1. CASE StoreDropped
  BY <1>1 DEF StoreDropped, Bounds
<1>2. CASE TakeSlot
  BY <1>2 DEF TakeSlot, ringVars
<1>3. CASE WriteTag \/ WriteBody
  BY <1>3 DEF WriteTag, WriteBody, Line
<1>4. CASE LoadHead
  BY <1>4 DEF LoadHead, ringVars, Indices
<1>5. CASE StoreHead
  BY <1>5, NextIndexType DEF StoreHead
<1>6. CASE LoadCount \/ LoadCountDec
  BY <1>6 DEF LoadCount, LoadCountDec, ringVars
<1>7. CASE StoreCount
  BY <1>7 DEF StoreCount
<1>8. CASE FlushLine
  BY <1>8 DEF FlushLine
<1>9. CASE AdvanceTail
  <2>1. NextIndex(tail) \in Indices
    BY NextIndexType DEF Indices
  <2> QED
    BY <1>9, <2>1 DEF AdvanceTail
<1>10. CASE StoreCountDec
  BY <1>10 DEF StoreCountDec, Bounds
<1>11. CASE FlushDrained
  BY <1>11 DEF FlushDrained, ringVars
<1>12. CASE ReportDropped
  BY <1>12 DEF ReportDropped
<1>13. CASE ResetDropped
  BY <1>13 DEF ResetDropped
<1> HIDE DEF TypeOK, Points
<1> QED
  BY <1>1, <1>2, <1>3, <1>4, <1>5, <1>6, <1>7, <1>8, <1>9, <1>10, <1>11, <1>12, <1>13 DEF TaskStep

LEMMA TaskBounds == ASSUME TypeOK, Bounds, TaskStep PROVE Bounds'
<1> USE DEF TypeOK, Bounds, CountInBounds, Inside, Printed
<1>1. CASE StoreDropped \/ TakeSlot \/ WriteTag \/ WriteBody
  BY <1>1 DEF StoreDropped, TakeSlot, WriteTag, WriteBody, ringVars
<1>2. CASE LoadHead \/ StoreHead \/ LoadCount \/ StoreCount
  BY <1>2 DEF LoadHead, StoreHead, LoadCount, StoreCount, ringVars
<1>3. CASE FlushLine \/ AdvanceTail \/ LoadCountDec \/ StoreCountDec
  BY <1>3 DEF FlushLine, NonEmpty, AdvanceTail, LoadCountDec, StoreCountDec, ringVars
<1>4. CASE FlushDrained \/ ReportDropped \/ ResetDropped
  BY <1>4 DEF FlushDrained, ReportDropped, ResetDropped, ringVars
<1> QED
  BY <1>1, <1>2, <1>3, <1>4 DEF TaskStep

LEMMA CallBounds == ASSUME TypeOK, Bounds, Flush \/ \E m \in Msgs : Klog(m) PROVE TypeOK' /\ Bounds'
<1>1. CASE Flush
  BY <1>1 DEF Flush, ringVars, TypeOK, Points, Bounds, CountInBounds, Inside, Printed
<1>2. ASSUME NEW m \in Msgs, Klog(m) PROVE TypeOK' /\ Bounds'
  <2>1. TypeOK'
    BY <1>2 DEF Klog, ringVars, TypeOK, Points
  <2>2. Bounds'
    BY <1>2 DEF Klog, Full, ringVars, TypeOK, Bounds, CountInBounds, Inside, Printed
  <2> QED
    BY <2>1, <2>2
<1> QED
  BY <1>1, <1>2

LEMMA CallbackBounds == ASSUME TypeOK, Bounds, NEW m \in Msgs, KlogFromCallback(m) PROVE TypeOK' /\ Bounds'
<1>1. head \in Nat /\ NextIndex(head) \in Indices
  BY NextIndexType DEF TypeOK, Indices
<1>2. TypeOK'
  BY <1>1 DEF KlogFromCallback, TypeOK, Line, Whole
<1>3. Bounds'
  BY DEF KlogFromCallback, Full, TypeOK, Bounds, CountInBounds, Inside, Printed
<1> QED
  BY <1>2, <1>3

LEMMA NextBounds == ASSUME TypeOK, Bounds, [Next]_vars PROVE TypeOK' /\ Bounds'
<1>1. CASE UNCHANGED vars
  BY <1>1 DEF vars, ringVars, TypeOK, Bounds, CountInBounds, Inside, Printed
<1> QED
  BY <1>1, TaskTypes, TaskBounds, CallBounds, CallbackBounds DEF Next

-----------------------------------------------------------------------------
(* The ring stays consistent as long as no callback races.                 *)

\* The lines that are queued do not have the place that is filled next.
LEMMA FreePlace ==
  ASSUME TypeOK, count < QueueLen, NEW n \in 0..(count - 1)
  PROVE  Place(n) # Place(count)
<1>1. count \in Nat /\ QueueLen \in Nat
  BY DEF TypeOK
<1>2. count \in Indices /\ n \in Indices /\ n # count
  BY <1>1 DEF Indices
<1> QED
  BY <1>2, PlacesDiffer

LEMMA AddingKeeps ==
  ASSUME TypeOK, RingOK,
         StoreDropped \/ TakeSlot \/ WriteTag \/ WriteBody \/ LoadHead \/ StoreHead \/ LoadCount \/ StoreCount
  PROVE  RingOK'
<1> USE DEF HeadMoved, Inside, Writing
<1>0. /\ count \in Nat /\ QueueLen \in Nat /\ tail' = tail /\ First' = First
  BY DEF TypeOK, StoreDropped, TakeSlot, WriteTag, WriteBody, LoadHead, StoreHead, LoadCount, StoreCount,
         ringVars, First
<1>1. CASE StoreDropped
  BY <1>0, <1>1 DEF StoreDropped, RingOK, Place
<1>2. CASE TakeSlot
  BY <1>0, <1>2 DEF TakeSlot, RingOK, Place, ringVars
<1>3. CASE WriteTag
  BY <1>0, <1>3 DEF WriteTag, RingOK, TypeOK, Line, Place
<1>4. CASE WriteBody
  <2>1. queue'[slot] = Whole(msg)
    BY <1>4 DEF WriteBody, RingOK, TypeOK, Line, Whole
  <2> QED
    BY <1>0, <1>4, <2>1 DEF WriteBody, RingOK, Place, Whole
<1>5. CASE LoadHead
  BY <1>0, <1>5 DEF LoadHead, RingOK, ringVars, Place, Whole
<1>6. CASE StoreHead
  <2>1. head' = Place(count + 1) /\ count < QueueLen /\ count' = count
    BY <1>0, <1>6, NextPlace DEF StoreHead, RingOK
  <2>2. queue'[Place(count)] \in Wholes
    BY <1>6 DEF StoreHead, RingOK, TypeOK, Wholes
  <2> QED
    BY <1>0, <1>6, <2>1, <2>2 DEF StoreHead, RingOK, Place
<1>7. CASE LoadCount
  BY <1>0, <1>7 DEF LoadCount, RingOK, ringVars, Place
<1>8. CASE StoreCount
  <2>1. count' = count + 1 /\ count < QueueLen
    BY <1>0, <1>8 DEF StoreCount, RingOK
  <2> QED
    BY <1>0, <1>8, <2>1 DEF StoreCount, RingOK, Place
<1> QED
  BY <1>1, <1>2, <1>3, <1>4, <1>5, <1>6, <1>7, <1>8

LEMMA FlushingKeeps ==
  ASSUME TypeOK, Bounds, RingOK,
         \/ FlushLine \/ AdvanceTail \/ LoadCountDec \/ StoreCountDec
         \/ FlushDrained \/ ReportDropped \/ ResetDropped
  PROVE  RingOK'
<1> USE DEF HeadMoved, Inside, Writing
<1>0. count \in Nat /\ QueueLen \in Nat /\ tail \in Indices /\ head = Place(count)
  BY DEF TypeOK, RingOK, FlushLine, AdvanceTail, LoadCountDec, StoreCountDec, FlushDrained,
         ReportDropped, ResetDropped
<1>1. CASE FlushLine
  BY <1>0, <1>1 DEF FlushLine, RingOK, Place, First
<1>2. CASE AdvanceTail
  <2>1. First' = First
    BY <1>2, TailMoves DEF AdvanceTail, First
  <2> QED
    BY <1>0, <1>2, <2>1 DEF AdvanceTail, RingOK, Place
<1>3. CASE LoadCountDec
  BY <1>0, <1>3 DEF LoadCountDec, RingOK, ringVars, Place, First
<1>4. CASE StoreCountDec
  <2>1. count' = count - 1 /\ count' \in 0..(QueueLen - 1)
    BY <1>0, <1>4 DEF StoreCountDec, RingOK, Bounds, Printed
  <2>2. (tail + count') % QueueLen = Place(count)
    BY <1>0, <1>4, <2>1, FirstRemoved DEF StoreCountDec
  <2> QED
    BY <1>0, <1>4, <2>1, <2>2 DEF StoreCountDec, RingOK, Place, First
<1>5. CASE FlushDrained
  BY <1>0, <1>5 DEF FlushDrained, RingOK, ringVars, Place, First
<1>6. CASE ReportDropped
  BY <1>0, <1>6 DEF ReportDropped, RingOK, Place, First
<1>7. CASE ResetDropped
  BY <1>0, <1>7 DEF ResetDropped, RingOK, Place, First
<1> QED
  BY <1>1, <1>2, <1>3, <1>4, <1>5, <1>6, <1>7

LEMMA CallKeeps ==
  ASSUME TypeOK, RingOK, Flush \/ \E m \in Msgs : Klog(m)
  PROVE  RingOK'
<1> USE DEF HeadMoved, Inside, Writing
<1>0. pc = "idle" /\ count \in Nat /\ QueueLen \in Nat /\ head = Place(count)
  BY DEF TypeOK, RingOK, Flush, Klog
<1>1. CASE Flush
  BY <1>0, <1>1 DEF Flush, RingOK, Place, First, ringVars
<1>2. ASSUME NEW m \in Msgs, Klog(m) PROVE RingOK'
  BY <1>0, <1>2 DEF Klog, Full, RingOK, Place, First, ringVars
<1> QED
  BY <1>1, <1>2

LEMMA CallbackKeeps ==
  ASSUME TypeOK, RingOK, NEW m \in Msgs, KlogFromCallback(m), ~Races
  PROVE  RingOK'
<1> USE DEF HeadMoved, Inside, Writing
<1>0. /\ pc' = pc /\ First' = First /\ slot' = slot /\ reg' = reg /\ msg' = msg
      /\ count \in Nat /\ QueueLen \in Nat /\ head \in Indices
      /\ pc \notin Writing \union {"count_store", "drop_store", "dec_store"}
  BY DEF TypeOK, KlogFromCallback, Races, First
<1>1. CASE Full
  BY <1>0, <1>1 DEF KlogFromCallback, RingOK, Place
<1>2. CASE ~Full
  <2>0. count' = count + 1 /\ count < QueueLen /\ (pc \in {"slot", "count"} => count + 1 < QueueLen)
    BY <1>0, <1>2 DEF KlogFromCallback, Full, Races
  <2>1. head' = NextIndex(head) /\ queue' = [queue EXCEPT ![head] = Whole(m)]
    BY <1>2 DEF KlogFromCallback
  <2>2. CASE pc = "count"
    <3>1. head = Place(count + 1) /\ head' = Place(count + 2)
      <4>1. head = Place(count + 1) /\ count + 1 \in 0..(QueueLen - 1) /\ (count + 1) + 1 = count + 2
        BY <1>0, <2>0, <2>2 DEF RingOK
      <4> QED
        BY <2>1, <4>1, NextPlace
    <3>2. queue'[Place(count + 1)] = Whole(m)
      BY <1>0, <2>1, <3>1 DEF TypeOK
    <3> QED
      BY <1>0, <2>0, <2>2, <3>1, <3>2 DEF RingOK, Place, Wholes
  <2>3. CASE pc # "count"
    <3>1. head' = Place(count + 1)
      BY <1>0, <2>0, <2>1, <2>3, NextPlace DEF RingOK
    <3> QED
      BY <1>0, <2>0, <2>3, <3>1 DEF RingOK, Place
  <2> QED
    BY <2>2, <2>3
<1> QED
  BY <1>1, <1>2

LEMMA NextKeeps == ASSUME KInv, [Next]_vars PROVE KInv'
<1>1. TypeOK' /\ Bounds'
  BY NextBounds DEF KInv
<1>2. ASSUME ~raced' PROVE RingOK'
  <2>1. CASE TaskStep
    <3>1. ~raced
      BY <1>2, <2>1 DEF TaskStep, StoreDropped, TakeSlot, WriteTag, WriteBody, LoadHead, StoreHead, LoadCount,
                        StoreCount, FlushLine, AdvanceTail, LoadCountDec, StoreCountDec, FlushDrained,
                        ReportDropped, ResetDropped
    <3> QED
      BY <2>1, <3>1, AddingKeeps, FlushingKeeps DEF TaskStep, KInv
  <2>2. CASE Flush \/ \E m \in Msgs : Klog(m)
    BY <1>2, <2>2, CallKeeps DEF KInv, Flush, Klog
  <2>3. ASSUME NEW m \in Msgs, KlogFromCallback(m) PROVE RingOK'
    <3>1. ~raced /\ ~Races
      BY <1>2, <2>3 DEF KlogFromCallback
    <3> QED
      BY <2>3, <3>1, CallbackKeeps DEF KInv
  <2>4. CASE UNCHANGED vars
    BY <1>2, <2>4 DEF vars, ringVars, KInv, RingOK, Place, First, Whole, Wholes, Full
  <2> QED
    BY <2>1, <2>2, <2>3, <2>4 DEF Next
<1> QED
  BY <1>1, <1>2 DEF KInv

LEMMA RingStays == Safety => []KInv
  BY InitRing, NextKeeps, PTL DEF Safety

\* Wherever callbacks log, and however often, the ring never has more than one line too many
\* nor less than none, so that klog_flush() comes to an end.
THEOREM CountStays == Spec => []CountInBounds
<1>1. KInv => CountInBounds
  BY DEF KInv, Bounds
<1> QED
  BY <1>1, RingStays, PTL DEF Spec

-----------------------------------------------------------------------------
(* The ring read as a queue.                                               *)

PendingOK ==
  /\ Pending \in Seq(Line) /\ Len(Pending) = count
  /\ \A n \in 0..(count - 1) : Pending[n + 1] = queue[Place(n)]

LEMMA PendingIs == TypeOK /\ RingOK => PendingOK
<1> SUFFICES ASSUME TypeOK, RingOK PROVE PendingOK
  OBVIOUS
<1>1. count \in Nat /\ count <= QueueLen /\ QueueLen \in Nat /\ First \in Nat
  BY FirstType DEF TypeOK, RingOK, Indices
<1>2. ASSUME NEW i \in 1..count PROVE queue[(First + i - 1) % QueueLen] \in Line
  <2>1. First + i - 1 = First + (i - 1) /\ i - 1 \in 0..QueueLen
    BY <1>1
  <2>2. Place(i - 1) \in Indices
    BY <2>1, PlaceType
  <2> QED
    BY <2>1, <2>2 DEF Place, TypeOK
<1>3. Pending \in [1..count -> Line]
  BY <1>2 DEF Pending
<1>4. ASSUME NEW n \in 0..(count - 1) PROVE Pending[n + 1] = queue[Place(n)]
  <2>1. First + (n + 1) - 1 = First + n /\ n + 1 \in 1..count
    BY <1>1
  <2> QED
    BY <2>1 DEF Pending, Place
<1> QED
  BY <1>1, <1>3, <1>4 DEF PendingOK

\* What is queued stays as it is if its places do.
LEMMA SamePending ==
  ASSUME TypeOK, TypeOK', First' = First, count' = count,
         \A n \in 0..(count - 1) : queue'[Place(n)] = queue[Place(n)]
  PROVE  Pending' = Pending
<1>1. \A i \in 1..count : queue'[(First + i - 1) % QueueLen] = queue[(First + i - 1) % QueueLen]
  <2> SUFFICES ASSUME NEW i \in 1..count
               PROVE  queue'[(First + i - 1) % QueueLen] = queue[(First + i - 1) % QueueLen]
    OBVIOUS
  <2>1. First + i - 1 = First + (i - 1) /\ i - 1 \in 0..(count - 1)
    BY FirstType DEF TypeOK, Indices
  <2> QED
    BY <2>1 DEF Place
<1> QED
  BY <1>1 DEF Pending

\* It grows at its end when head's place, filled, comes to be counted.
LEMMA PendingGrows ==
  ASSUME TypeOK, TypeOK', RingOK, RingOK', First' = First, count' = count + 1, NEW l \in Line,
         queue'[Place(count)] = l,
         \A n \in 0..(count - 1) : queue'[Place(n)] = queue[Place(n)]
  PROVE  Pending' = Append(Pending, l)
<1>0. PendingOK /\ PendingOK'
  <2>1. (TypeOK /\ RingOK) /\ (TypeOK /\ RingOK)'
    OBVIOUS
  <2> QED
    BY <2>1, PendingIs, PTL
<1>1. Pending \in Seq(Line) /\ Len(Pending) = count /\ count \in Nat
  BY <1>0 DEF PendingOK, TypeOK
<1>2. Pending' \in Seq(Line) /\ Len(Pending') = count + 1
  BY <1>0 DEF PendingOK
<1>3. \A n \in 0..count : Pending'[n + 1] = queue'[Place(n)]
  <2>1. \A n \in 0..(count' - 1) : Pending'[n + 1] = queue'[(First' + n) % QueueLen]
    BY <1>0 DEF PendingOK, Place
  <2> QED
    BY <1>1, <2>1 DEF Place
<1>4. ASSUME NEW i \in 1..(count + 1) PROVE Pending'[i] = Append(Pending, l)[i]
  <2>1. i = (i - 1) + 1 /\ i - 1 \in 0..count
    BY <1>1
  <2>2. Pending'[i] = queue'[Place(i - 1)]
    BY <1>3, <2>1
  <2>3. CASE i = count + 1
    BY <1>1, <2>2, <2>3
  <2>4. CASE i # count + 1
    <3>1. i - 1 \in 0..(count - 1)
      BY <1>1, <2>4
    <3>2. Pending[i] = queue[Place(i - 1)]
      BY <1>0, <2>1, <3>1 DEF PendingOK
    <3> QED
      BY <1>1, <2>2, <2>4, <3>1, <3>2
  <2> QED
    BY <2>3, <2>4
<1> QED
  BY <1>1, <1>2, <1>4

\* It loses its first line with the second half of count--.
LEMMA PendingShrinks ==
  ASSUME TypeOK, TypeOK', Bounds, RingOK, RingOK', StoreCountDec
  PROVE  Pending # <<>> /\ Pending' = Tail(Pending)
<1>0. PendingOK /\ PendingOK'
  <2>1. (TypeOK /\ RingOK) /\ (TypeOK /\ RingOK)'
    OBVIOUS
  <2> QED
    BY <2>1, PendingIs, PTL
<1>1. count \in Nat \ {0} /\ count' = count - 1 /\ queue' = queue /\ First' = tail
  BY DEF TypeOK, Bounds, RingOK, StoreCountDec, Printed, First
<1>2. /\ Pending \in Seq(Line) /\ Len(Pending) = count
      /\ Pending' \in Seq(Line) /\ Len(Pending') = count - 1
  BY <1>0, <1>1 DEF PendingOK
<1>3. \A n \in 0..(count - 2) : Pending'[n + 1] = queue[(tail + n) % QueueLen]
  <2>1. \A n \in 0..(count' - 1) : Pending'[n + 1] = queue'[(First' + n) % QueueLen]
    BY <1>0 DEF PendingOK, Place
  <2> QED
    BY <1>1, <2>1
<1>4. ASSUME NEW i \in 1..(count - 1) PROVE Pending'[i] = Tail(Pending)[i]
  <2>1. i = (i - 1) + 1 /\ i - 1 \in 0..(count - 2) /\ i \in 0..(count - 1) /\ i - 1 \in 0..(QueueLen - 1)
    BY <1>1 DEF TypeOK, RingOK
  <2>2. Pending'[i] = queue[(tail + (i - 1)) % QueueLen]
    BY <1>3, <2>1
  <2>3. (tail + (i - 1)) % QueueLen = Place((i - 1) + 1)
    BY <2>1, FirstRemoved DEF StoreCountDec
  <2>4. Pending[i + 1] = queue[Place(i)]
    BY <1>0, <2>1 DEF PendingOK
  <2>5. Tail(Pending)[i] = Pending[i + 1]
    BY <1>1, <1>2
  <2> QED
    BY <2>1, <2>2, <2>3, <2>4, <2>5
<1> QED
  BY <1>1, <1>2, <1>4

-----------------------------------------------------------------------------
(* Each step of the ring is one of the queue, or none.                     *)

Consistent == TypeOK /\ Bounds /\ RingOK

\* What the queue is made of stays.
Silent == UNCHANGED <<Pending, Printed, Lost, line, reported>>

LEMMA AddingRefines ==
  ASSUME Consistent, Consistent', TakeSlot \/ WriteTag \/ WriteBody \/ LoadHead \/ StoreHead \/ LoadCount
  PROVE  Silent
<1>1. /\ pc \in Inside /\ pc' \in Inside /\ First' = First /\ count' = count
      /\ Printed' = Printed /\ Lost' = Lost /\ line' = line /\ reported' = reported
  BY DEF TakeSlot, WriteTag, WriteBody, LoadHead, StoreHead, LoadCount, ringVars, Inside, First, Printed, Lost
<1>2. ASSUME NEW n \in 0..(count - 1) PROVE queue'[Place(n)] = queue[Place(n)]
  <2>1. Place(n) # Place(count) /\ n \in 0..QueueLen
    BY <1>1, FreePlace DEF Consistent, RingOK, TypeOK
  <2>2. queue \in [Indices -> Line] /\ Place(n) \in Indices
    BY <2>1, PlaceType DEF Consistent, TypeOK
  <2>3. CASE WriteTag \/ WriteBody
    <3>1. slot = Place(count)
      BY <2>3 DEF Consistent, RingOK, Writing, WriteTag, WriteBody
    <3> QED
      BY <2>1, <2>2, <2>3, <3>1 DEF WriteTag, WriteBody
  <2>4. CASE TakeSlot \/ LoadHead \/ StoreHead \/ LoadCount
    BY <2>4 DEF TakeSlot, LoadHead, StoreHead, LoadCount, ringVars
  <2> QED
    BY <2>3, <2>4
<1>3. Pending' = Pending
  BY <1>1, <1>2, SamePending DEF Consistent
<1> QED
  BY <1>1, <1>3 DEF Silent

\* A line joins the queue when it comes to be counted: by the task, or, if the task has moved
\* head and not counted its line yet, by a callback that adds another one behind it.
LEMMA AddedRefines ==
  ASSUME Consistent, Consistent', StoreCount
  PROVE  \E l \in Wholes : Log!Log(l)
<1>1. /\ count' = count + 1 /\ count < QueueLen /\ First' = First /\ queue' = queue
      /\ queue[Place(count)] \in Wholes
      /\ Printed' = Printed /\ Lost' = Lost /\ line' = line /\ reported' = reported
  BY DEF Consistent, TypeOK, RingOK, StoreCount, Inside, HeadMoved, First, Printed, Lost
<1>2. queue[Place(count)] \in Line
  BY <1>1 DEF Wholes, Whole, Line
<1>3. Pending' = Append(Pending, queue[Place(count)])
  BY <1>1, <1>2, PendingGrows DEF Consistent
<1>4. Len(Pending) = count
  BY PendingIs DEF PendingOK, Consistent
<1>5. Log!Log(queue[Place(count)])
  BY <1>1, <1>3, <1>4 DEF Log!Log
<1> QED
  BY <1>1, <1>5

LEMMA DroppedRefines ==
  ASSUME Consistent, Consistent', StoreDropped
  PROVE  \E l \in Wholes : Log!Log(l)
<1>1. /\ count' = count /\ First' = First /\ queue' = queue /\ Full
      /\ Lost' = Lost + 1 /\ Printed' = Printed /\ line' = line /\ reported' = reported
  BY DEF Consistent, RingOK, StoreDropped, First, Printed, Lost
<1>2. Pending' = Pending
  BY <1>1, SamePending DEF Consistent
<1>3. Len(Pending) = count /\ count \in Nat
  BY PendingIs DEF PendingOK, Consistent, TypeOK
<1>4. Log!Log(Whole(msg)) /\ Whole(msg) \in Wholes
  BY <1>1, <1>2, <1>3 DEF Full, Log!Log, Wholes, Consistent, TypeOK
<1> QED
  BY <1>4

LEMMA FlushingRefines ==
  ASSUME Consistent, Consistent', FlushLine \/ AdvanceTail \/ LoadCountDec \/ StoreCountDec
  PROVE  Log!PrintLine \/ Log!RemoveLine \/ Silent
<1>0. PendingOK /\ count \in Nat
  BY PendingIs DEF Consistent, TypeOK
<1>1. ASSUME queue' = queue, count' = count, First' = First PROVE Pending' = Pending
  BY <1>1, SamePending DEF Consistent
<1>2. CASE FlushLine
  <2>1. /\ count > 0 /\ ~Printed /\ Printed' /\ Pending' = Pending /\ Lost' = Lost
        /\ reported' = reported
    BY <1>1, <1>2 DEF FlushLine, NonEmpty, Printed, First, Lost
  <2>2. Place(0) = tail
    <3>1. tail \in Nat /\ tail < QueueLen /\ QueueLen \in Nat /\ tail \in 0..(2 * QueueLen - 1)
      BY DEF Consistent, TypeOK, Indices
    <3> QED
      BY <1>2, <3>1, Wraps DEF Place, First, FlushLine
  <2>3. Pending # <<>> /\ Head(Pending) = Pending[0 + 1] /\ 0 \in 0..(count - 1)
    BY <1>0, <2>1 DEF PendingOK
  <2>4. line' = Head(Pending)
    BY <1>0, <1>2, <2>2, <2>3 DEF PendingOK, FlushLine
  <2> QED
    BY <2>1, <2>3, <2>4 DEF Log!PrintLine
<1>3. CASE AdvanceTail
  <2>1. First' = First
    BY <1>3, TailMoves DEF AdvanceTail, First, Consistent
  <2>2. Printed' = Printed /\ Pending' = Pending /\ Lost' = Lost /\ line' = line /\ reported' = reported
    BY <1>1, <1>3, <2>1 DEF AdvanceTail, Printed, Lost
  <2> QED
    BY <2>2 DEF Silent
<1>4. CASE LoadCountDec
  <2>1. Printed' = Printed /\ Pending' = Pending /\ Lost' = Lost /\ line' = line /\ reported' = reported
    BY <1>1, <1>4 DEF LoadCountDec, ringVars, Printed, First, Lost
  <2> QED
    BY <2>1 DEF Silent
<1>5. CASE StoreCountDec
  <2>1. Printed /\ ~Printed' /\ Lost' = Lost /\ line' = line /\ reported' = reported
    BY <1>5 DEF StoreCountDec, Printed, Lost
  <2> QED
    BY <1>5, <2>1, PendingShrinks DEF Log!RemoveLine, Consistent
<1> QED
  BY <1>2, <1>3, <1>4, <1>5

LEMMA ReportRefines ==
  ASSUME Consistent, Consistent', FlushDrained \/ ReportDropped \/ ResetDropped
  PROVE  Log!Report \/ Silent
<1>1. queue' = queue /\ count' = count /\ First' = First /\ Printed' = Printed /\ line' = line
  BY DEF FlushDrained, ReportDropped, ResetDropped, ringVars, First, Printed
<1>2. Pending' = Pending
  BY <1>1, SamePending DEF Consistent
<1>3. CASE FlushDrained
  BY <1>1, <1>2, <1>3 DEF FlushDrained, ringVars, Lost, Silent
<1>4. CASE ReportDropped
  BY <1>1, <1>2, <1>4 DEF ReportDropped, Lost, Silent, Log!Report
<1>5. CASE ResetDropped
  BY <1>1, <1>2, <1>5 DEF ResetDropped, Lost, Silent
<1> QED
  BY <1>3, <1>4, <1>5

LEMMA CallRefines ==
  ASSUME Consistent, Consistent', Flush \/ \E m \in Msgs : Klog(m)
  PROVE  Silent
<1>1. /\ queue' = queue /\ count' = count /\ First' = First /\ Printed' = Printed
      /\ line' = line /\ reported' = reported /\ Lost' = Lost
  BY DEF Flush, Klog, ringVars, First, Printed, Lost
<1>2. Pending' = Pending
  BY <1>1, SamePending DEF Consistent
<1> QED
  BY <1>1, <1>2 DEF Silent

LEMMA CallbackRefines ==
  ASSUME Consistent, Consistent', NEW m \in Msgs, KlogFromCallback(m), ~Races
  PROVE  \E l \in Wholes : Log!Log(l)
<1>1. /\ First' = First /\ Printed' = Printed /\ line' = line /\ reported' = reported
      /\ count \in Nat /\ Whole(m) \in Wholes /\ queue \in [Indices -> Line] /\ QueueLen \in Nat
  BY DEF Consistent, TypeOK, KlogFromCallback, First, Printed, Wholes
<1>2. Len(Pending) = count
  BY PendingIs DEF PendingOK, Consistent
<1>3. CASE Full
  <2>1. Pending' = Pending
    BY <1>1, <1>3, SamePending DEF KlogFromCallback, Consistent
  <2>2. Lost' = Lost + 1
    BY <1>3 DEF KlogFromCallback, Races, Lost
  <2>3. Log!Log(Whole(m))
    BY <1>1, <1>2, <1>3, <2>1, <2>2 DEF Full, Log!Log
  <2> QED
    BY <1>1, <2>3
<1>4. CASE ~Full
  <2>0. /\ count < QueueLen /\ count' = count + 1 /\ Lost' = Lost /\ queue' = [queue EXCEPT ![head] = Whole(m)]
        /\ Place(count) \in Indices
    BY <1>1, <1>4, PlaceType DEF KlogFromCallback, Full, Lost, Consistent
  <2>1. ASSUME NEW n \in 0..(count - 1), Place(n) # head PROVE queue'[Place(n)] = queue[Place(n)]
    <3>1. Place(n) \in Indices
      BY <1>1, <2>0, PlaceType DEF Consistent
    <3> QED
      BY <1>1, <2>0, <2>1, <3>1
  <2>2. ASSUME NEW l \in Wholes, queue'[Place(count)] = l,
               \A n \in 0..(count - 1) : Place(n) # head
        PROVE  Log!Log(l)
    <3>1. l \in Line
      BY DEF Wholes, Whole, Line
    <3>2. Pending' = Append(Pending, l)
      BY <1>1, <2>0, <2>1, <2>2, <3>1, PendingGrows DEF Consistent
    <3> QED
      BY <1>1, <1>2, <2>0, <3>2 DEF Log!Log
  <2>3. CASE pc = "count"
    <3>1. /\ head = Place(count + 1) /\ count + 1 < QueueLen /\ queue[Place(count)] \in Wholes
      BY <2>0, <1>1, <2>3 DEF Consistent, RingOK, HeadMoved, Races
    <3>2. ASSUME NEW n \in 0..count PROVE Place(n) # head
      <4>1. n \in Indices /\ count + 1 \in Indices /\ n # count + 1
        BY <1>1, <3>1 DEF Indices
      <4> QED
        BY <3>1, <4>1, PlacesDiffer DEF Consistent
    <3>3. queue'[Place(count)] = queue[Place(count)] /\ \A n \in 0..(count - 1) : Place(n) # head
      BY <1>1, <2>0, <3>2
    <3> QED
      BY <2>2, <3>1, <3>3
  <2>4. CASE pc # "count"
    <3>1. head = Place(count)
      <4>1. pc # "count_store"
        BY DEF Races
      <4> QED
        BY <2>4, <4>1 DEF Consistent, RingOK, HeadMoved
    <3>2. \A n \in 0..(count - 1) : Place(n) # head
      BY <2>0, <3>1, FreePlace DEF Consistent
    <3>3. queue'[Place(count)] = Whole(m)
      BY <1>1, <2>0, <3>1
    <3> QED
      BY <1>1, <2>2, <3>2, <3>3
  <2> QED
    BY <2>3, <2>4
<1> QED
  BY <1>3, <1>4

LEMMA StepRefines ==
  ASSUME KInv, KInv', [Next]_vars, ~raced'
  PROVE  [Log!Next]_Log!vars
<1>0. Silent => UNCHANGED Log!vars
  BY DEF Silent, Log!vars
<1>1. Consistent'
  BY DEF KInv, Consistent
<1>2. CASE TaskStep
  <2>1. Consistent
    BY <1>2 DEF KInv, Consistent, TaskStep, StoreDropped, TakeSlot, WriteTag, WriteBody, LoadHead, StoreHead,
                LoadCount, StoreCount, FlushLine, AdvanceTail, LoadCountDec, StoreCountDec, FlushDrained,
                ReportDropped, ResetDropped
  <2>2. CASE StoreCount \/ StoreDropped
    BY <1>1, <2>1, <2>2, AddedRefines, DroppedRefines DEF Log!Next
  <2>3. CASE TakeSlot \/ WriteTag \/ WriteBody \/ LoadHead \/ StoreHead \/ LoadCount
    BY <1>0, <1>1, <2>1, <2>3, AddingRefines
  <2>4. CASE FlushLine \/ AdvanceTail \/ LoadCountDec \/ StoreCountDec
    BY <1>0, <1>1, <2>1, <2>4, FlushingRefines DEF Log!Next
  <2>5. CASE FlushDrained \/ ReportDropped \/ ResetDropped
    BY <1>0, <1>1, <2>1, <2>5, ReportRefines DEF Log!Next
  <2> QED
    BY <1>2, <2>2, <2>3, <2>4, <2>5 DEF TaskStep
<1>3. CASE Flush \/ \E m \in Msgs : Klog(m)
  <2>1. Consistent
    BY <1>3 DEF KInv, Consistent, Flush, Klog
  <2> QED
    BY <1>0, <1>1, <1>3, <2>1, CallRefines
<1>4. ASSUME NEW m \in Msgs, KlogFromCallback(m) PROVE Log!Next
  <2>1. ~raced /\ ~Races
    BY <1>4 DEF KlogFromCallback
  <2>2. Consistent
    BY <2>1 DEF KInv, Consistent
  <2> QED
    BY <1>1, <1>4, <2>1, <2>2, CallbackRefines DEF Log!Next
<1>5. CASE UNCHANGED vars
  BY <1>5 DEF vars, ringVars, Log!vars, Pending, Printed, First, Lost
<1> QED
  BY <1>2, <1>3, <1>4, <1>5 DEF Next

LEMMA InitRefines == Init => Log!Init
<1> SUFFICES ASSUME Init PROVE Log!Init
  OBVIOUS
<1>1. TypeOK /\ RingOK
  BY InitRing DEF KInv, Init
<1>2. PendingOK /\ count = 0 /\ line \in Wholes /\ Lost = 0 /\ reported = 0 /\ ~Printed
  BY <1>1, PendingIs DEF Init, Printed, Lost, Wholes
<1>3. Pending = <<>>
  BY <1>2 DEF PendingOK
<1> QED
  BY <1>2, <1>3 DEF Log!Init

\* With callbacks that log at any point of a task, klog() and klog_flush() keep the promise of
\* klog.h, for a ring of any length and any messages, until one of them logs at a point that
\* Races names: lines come out whole, in order and once, only a call that finds the ring full
\* is dropped, and each drop is reported.
THEOREM PromiseKeptUntilRaced == Spec => KeepsPromiseUntilRaced
<1>1. Safety => []KInv
  BY RingStays
<1>2. KInv /\ KInv' /\ [Next]_vars => [raced' \/ [Log!Next]_Log!vars]_vars
  BY StepRefines
<1> QED
  BY <1>1, <1>2, InitRefines, PTL DEF Spec, Safety, KeepsPromiseUntilRaced
================================================================================
