----------------------------- MODULE HandoffProofs -----------------------------
(***************************************************************************)
(* What the emulation thread gives away without waiting for whoever takes  *)
(* it: the sound, through SampleRing, and the picture, through FrameSwap.  *)
(* For a ring of any size, slices of any length and any number of frames.  *)
(***************************************************************************)
EXTENDS SampleRing, FrameSwap, FiniteSetTheorems, TLAPS

-----------------------------------------------------------------------------
(* The sound: the producer stays out of the slots being read, every sample  *)
(* is counted, and the ring is a bounded first-in first-out queue.          *)

(* Each side believes less of the other than is so, and acts within it.     *)
Within ==
    /\ tx.other <= tail /\ tail <= rx.other /\ rx.other <= head
    /\ head + tx.n <= tx.other + Capacity
    /\ tail + rx.n <= rx.other
    /\ tx.at # "store" => tx.n = 0
    /\ rx.at # "load" => rx.n = 0
    /\ tx.at = "idle" => tx.short = 0
    /\ rx.at = "idle" => rx.short = 0

(* What the device has been given is the stream, without a gap. *)
InOrder ==
    /\ tail <= Len(out) /\ Len(out) <= tail + rx.n
    /\ \A p \in 1 .. Len(out) : out[p] = p

IInv == TypeOK /\ Within /\ InOrder /\ EverySampleCounted

-----------------------------------------------------------------------------
(* Two positions that share a slot are at least a lap apart. *)
LEMMA LapsApart ==
    ASSUME NEW c \in Nat \ {0}, NEW k \in Nat \ {0}
    PROVE  k * c >= c
  OBVIOUS

(* A run of no samples ends where it began. *)
LEMMA NoMore == ASSUME NEW n \in Nat PROVE n <= n /\ n <= n + 0
  OBVIOUS

LEMMA AtMostBound ==
    ASSUME NEW a \in Nat, NEW b \in Nat
    PROVE  /\ AtMost(a, b) \in Nat
           /\ AtMost(a, b) <= a /\ AtMost(a, b) <= b
  BY DEF AtMost

(* The numbers the invariant relates. *)
LEMMA Numbers ==
    ASSUME TypeOK
    PROVE  /\ head \in Nat /\ tail \in Nat /\ dropped \in Nat /\ starved \in Nat
           /\ offered \in Nat /\ asked \in Nat
           /\ tx.n \in Nat /\ tx.other \in Nat /\ tx.short \in Nat
           /\ rx.n \in Nat /\ rx.other \in Nat /\ rx.short \in Nat
           /\ Capacity \in Nat \ {0}
  BY SampleRingAssumption DEF TypeOK, Local

(* While a position is being read, its slot answers with its own sample.    *)
LEMMA OwnSample ==
    ASSUME TypeOK, Within, NEW p \in tail + 1 .. tail + rx.n
    PROVE  Readable(p) = {p}
  <1>1. p \in Nat /\ p > tail /\ p <= head /\ Stored \in Nat /\ Stored <= tail + Capacity
    BY Numbers DEF Stored, Within
  <1>2. ASSUME NEW k \in 0 .. Stored, p + k * Capacity <= Stored
        PROVE  k = 0
    <2>1. SUFFICES ASSUME k # 0 PROVE FALSE
      OBVIOUS
    <2>2. k * Capacity >= Capacity
      BY <1>1, <2>1, Numbers, LapsApart
    <2>3. k * Capacity \in Int
      BY <1>1, Numbers
    <2>. QED BY <1>1, <1>2, <2>2, <2>3, Numbers
  <1>3. p + 0 * Capacity = p /\ 0 \in 0 .. Stored /\ p <= Stored
    BY <1>1, Numbers DEF Stored
  <1>4. {q \in {p - Capacity} : p > head} = {}
    BY <1>1, Numbers
  <1>5. {q \in {p + k * Capacity : k \in 0 .. Stored} : q <= Stored} = {p}
    <2>1. ASSUME NEW k \in 0 .. Stored, p + k * Capacity <= Stored
          PROVE  p + k * Capacity = p
      BY <1>2, <1>3, <2>1
    <2>. QED BY <2>1, <1>3
  <1>. QED BY <1>4, <1>5 DEF Readable

-----------------------------------------------------------------------------
LEMMA InitHolds == Init => IInv
  <1>1. SUFFICES ASSUME Init PROVE IInv
    OBVIOUS
  <1>2. TypeOK
    BY <1>1 DEF Init, TypeOK, Local, Idle
  <1>3. Within
    BY <1>1, SampleRingAssumption DEF Init, Idle, Within
  <1>4. InOrder
    BY <1>1 DEF Init, Idle, InOrder
  <1>5. EverySampleCounted
    BY <1>1 DEF Init, Idle, EverySampleCounted
  <1>. QED BY <1>2, <1>3, <1>4, <1>5 DEF IInv

LEMMA PushBeginHolds ==
    ASSUME IInv, NEW len \in Slices, PushBegin(len)
    PROVE  IInv'
  <1>1. PICK far \in {tx.other, tail} :
          tx' = [at |-> "store", other |-> far, n |-> AtMost(len, Free(far)),
                 short |-> len - AtMost(len, Free(far))]
    BY DEF PushBegin
  <1>2. len \in Nat /\ far \in Nat /\ tx.other <= far /\ far <= tail
    BY Numbers, SampleRingAssumption DEF IInv, Within
  <1>3. Free(far) \in Nat /\ head + Free(far) = far + Capacity
    BY <1>2, Numbers DEF IInv, Within, Free
  <1>4. /\ AtMost(len, Free(far)) \in Nat
        /\ AtMost(len, Free(far)) <= len /\ AtMost(len, Free(far)) <= Free(far)
    BY <1>2, <1>3, AtMostBound
  <1>5. len - AtMost(len, Free(far)) \in Nat
    BY <1>2, <1>4
  <1>6. /\ tx'.at = "store" /\ tx'.other = far /\ tx'.n = AtMost(len, Free(far))
        /\ tx'.n + tx'.short = len
        /\ tx' \in Local
    BY <1>1, <1>2, <1>4, <1>5 DEF Local
  <1>7. /\ tx.at = "idle" /\ offered' = offered + len
        /\ UNCHANGED <<head, tail, dropped, starved, rx, out, asked>>
    BY DEF PushBegin
  <1>8. TypeOK'
    BY <1>2, <1>6, <1>7 DEF IInv, TypeOK
  <1>9. Within'
    BY <1>2, <1>3, <1>4, <1>6, <1>7, Numbers DEF IInv, Within
  <1>10. InOrder'
    BY <1>7 DEF IInv, InOrder
  <1>11. tx.n = 0 /\ tx.short = 0 /\ tx'.n \in Nat /\ tx'.short \in Nat
    BY <1>4, <1>5, <1>6, <1>1, <1>7 DEF IInv, Within
  <1>12. EverySampleCounted'
    BY <1>2, <1>6, <1>7, <1>11, Numbers DEF IInv, EverySampleCounted
  <1>. QED BY <1>8, <1>9, <1>10, <1>12 DEF IInv

LEMMA PushPublishHolds == ASSUME IInv, PushPublish PROVE IInv'
  <1>1. /\ tx' = [tx EXCEPT !.at = "count", !.n = 0]
        /\ tx.at = "store" /\ head' = head + tx.n
        /\ UNCHANGED <<tail, dropped, starved, rx, out, offered, asked>>
    BY DEF PushPublish
  <1>2. /\ tx' \in Local
        /\ tx'.at = "count" /\ tx'.other = tx.other /\ tx'.n = 0 /\ tx'.short = tx.short
    BY <1>1 DEF IInv, TypeOK, Local
  <1>3. TypeOK'
    <2>1. head' \in Nat
      BY <1>1, Numbers DEF IInv
    <2>. QED BY <1>1, <1>2, <2>1 DEF IInv, TypeOK
  <1>4. Within'
    <2>1. head \in Nat /\ tx.n \in Nat /\ head <= head + tx.n
      BY Numbers DEF IInv
    <2>2. rx.other <= head /\ rx.other \in Nat /\ head + tx.n <= tx.other + Capacity
      BY Numbers DEF IInv, Within
    <2>3. rx'.other <= head' /\ head' + tx'.n <= tx'.other + Capacity
      BY <1>1, <1>2, <2>1, <2>2
    <2>. QED BY <1>1, <1>2, <2>3 DEF IInv, Within
  <1>5. InOrder'
    BY <1>1 DEF IInv, InOrder
  <1>6. EverySampleCounted'
    BY <1>1, <1>2, Numbers DEF IInv, EverySampleCounted
  <1>. QED BY <1>3, <1>4, <1>5, <1>6 DEF IInv

LEMMA PushCountHolds == ASSUME IInv, PushCount PROVE IInv'
  <1>1. /\ tx' = [tx EXCEPT !.at = "idle", !.short = 0]
        /\ tx.at = "count" /\ dropped' = dropped + tx.short
        /\ UNCHANGED <<head, tail, starved, rx, out, offered, asked>>
    BY DEF PushCount
  <1>2. /\ tx' \in Local
        /\ tx'.at = "idle" /\ tx'.other = tx.other /\ tx'.n = tx.n /\ tx'.short = 0
    BY <1>1 DEF IInv, TypeOK, Local
  <1>3. TypeOK'
    <2>1. dropped' \in Nat
      BY <1>1, Numbers DEF IInv
    <2>. QED BY <1>1, <1>2, <2>1 DEF IInv, TypeOK
  <1>4. Within'
    <2>1. tx.n = 0 /\ head + tx'.n <= tx'.other + Capacity
      BY <1>1, <1>2 DEF IInv, Within
    <2>. QED BY <1>1, <1>2, <2>1 DEF IInv, Within
  <1>5. InOrder'
    BY <1>1 DEF IInv, InOrder
  <1>6. EverySampleCounted'
    BY <1>1, <1>2, Numbers DEF IInv, EverySampleCounted
  <1>. QED BY <1>3, <1>4, <1>5, <1>6 DEF IInv

LEMMA PopBeginHolds ==
    ASSUME IInv, NEW len \in Slices, PopBegin(len)
    PROVE  IInv'
  <1>1. PICK far \in {rx.other, head} :
          rx' = [at |-> "load", other |-> far, n |-> AtMost(len, far - tail),
                 short |-> len - AtMost(len, far - tail)]
    BY DEF PopBegin
  <1>2. /\ len \in Nat /\ far \in Nat /\ rx.other <= far /\ far <= head
        /\ far - tail \in Nat
    BY Numbers, SampleRingAssumption DEF IInv, Within
  <1>3. /\ AtMost(len, far - tail) \in Nat
        /\ AtMost(len, far - tail) <= len /\ AtMost(len, far - tail) <= far - tail
    BY <1>2, AtMostBound
  <1>4. len - AtMost(len, far - tail) \in Nat
    BY <1>2, <1>3
  <1>5. /\ rx'.at = "load" /\ rx'.other = far /\ rx'.n = AtMost(len, far - tail)
        /\ rx'.n + rx'.short = len
        /\ rx' \in Local
    BY <1>1, <1>2, <1>3, <1>4 DEF Local
  <1>6. /\ rx.at = "idle" /\ asked' = asked + len
        /\ UNCHANGED <<head, tail, dropped, starved, tx, out, offered>>
    BY DEF PopBegin
  <1>7. TypeOK'
    BY <1>2, <1>5, <1>6 DEF IInv, TypeOK
  <1>8. Within'
    BY <1>2, <1>3, <1>5, <1>6, Numbers DEF IInv, Within
  <1>9. rx.n = 0 /\ rx.short = 0 /\ rx'.n \in Nat /\ rx'.short \in Nat
    BY <1>1, <1>3, <1>4, <1>5, <1>6 DEF IInv, Within
  <1>10. InOrder'
    BY <1>3, <1>5, <1>6, <1>9, Numbers DEF IInv, InOrder, TypeOK
  <1>11. EverySampleCounted'
    BY <1>2, <1>5, <1>6, <1>9, Numbers DEF IInv, EverySampleCounted
  <1>. QED BY <1>7, <1>8, <1>10, <1>11 DEF IInv

LEMMA PopLoadHolds == ASSUME IInv, PopLoad PROVE IInv'
  <1>1. /\ rx.at = "load" /\ Len(out) < tail + rx.n
        /\ UNCHANGED <<head, tail, dropped, starved, tx, rx, offered, asked>>
    BY DEF PopLoad
  <1>2. out \in Seq(Int) /\ Len(out) \in Nat /\ tail <= Len(out)
    BY DEF IInv, TypeOK, InOrder
  <1>3. Len(out) + 1 \in tail + 1 .. tail + rx.n
    <2>1. tail \in Nat /\ rx.n \in Nat
      BY Numbers DEF IInv
    <2>. QED BY <1>1, <1>2, <2>1
  <1>4. out' = Append(out, Len(out) + 1)
    BY <1>3, OwnSample DEF IInv, PopLoad
  <1>5. TypeOK'
    BY <1>1, <1>2, <1>4 DEF IInv, TypeOK
  <1>6. Within'
    BY <1>1 DEF IInv, Within
  <1>7. InOrder'
    <2>1. Len(out') = Len(out) + 1
      BY <1>2, <1>4
    <2>2. ASSUME NEW p \in 1 .. Len(out) + 1
          PROVE  out'[p] = p
      <3>1. CASE p = Len(out) + 1
        BY <1>2, <1>4, <3>1
      <3>2. CASE p \in 1 .. Len(out)
        BY <1>2, <1>4, <3>2 DEF IInv, InOrder
      <3>. QED BY <1>2, <3>1, <3>2
    <2>3. tail' = tail /\ rx' = rx
      BY <1>1
    <2>4. tail' <= Len(out') /\ Len(out') <= tail' + rx'.n
      <3>1. tail \in Nat /\ rx.n \in Nat
        BY Numbers DEF IInv
      <3>. QED BY <1>1, <1>2, <2>1, <2>3, <3>1
    <2>. QED BY <2>1, <2>2, <2>4 DEF InOrder
  <1>8. EverySampleCounted'
    BY <1>1 DEF IInv, EverySampleCounted
  <1>. QED BY <1>5, <1>6, <1>7, <1>8 DEF IInv

LEMMA PopReleaseHolds == ASSUME IInv, PopRelease PROVE IInv'
  <1>1. /\ rx' = [rx EXCEPT !.at = "count", !.n = 0]
        /\ rx.at = "load" /\ Len(out) = tail + rx.n /\ tail' = tail + rx.n
        /\ UNCHANGED <<head, dropped, starved, tx, out, offered, asked>>
    BY DEF PopRelease
  <1>2. /\ rx' \in Local
        /\ rx'.at = "count" /\ rx'.other = rx.other /\ rx'.n = 0 /\ rx'.short = rx.short
    BY <1>1 DEF IInv, TypeOK, Local
  <1>3. TypeOK'
    <2>1. tail' \in Nat
      BY <1>1, Numbers DEF IInv
    <2>. QED BY <1>1, <1>2, <2>1 DEF IInv, TypeOK
  <1>4. Within'
    <2>1. tail \in Nat /\ rx.n \in Nat /\ tx.other \in Nat /\ tail <= tail + rx.n
      BY Numbers DEF IInv
    <2>2. tx.other <= tail /\ tail + rx.n <= rx.other
      BY DEF IInv, Within
    <2>3. tx.other <= tail + rx.n /\ tail + rx.n + 0 <= rx.other
      BY <2>1, <2>2
    <2>4. tx'.other <= tail' /\ tail' <= rx'.other /\ tail' + rx'.n <= rx'.other
      <3>1. tx'.other = tx.other /\ tail' = tail + rx.n /\ rx'.other = rx.other /\ rx'.n = 0
        BY <1>1, <1>2
      <3>. QED BY <2>2, <2>3, <3>1
    <2>. QED BY <1>1, <1>2, <2>4 DEF IInv, Within
  <1>5. InOrder'
    <2>1. Len(out') = tail' /\ rx'.n = 0 /\ out' = out
      BY <1>1, <1>2
    <2>2. tail' \in Nat
      BY <1>3 DEF TypeOK
    <2>3. tail' <= tail' /\ tail' <= tail' + 0
      BY <2>2, NoMore, Zenon
    <2>4. tail' <= Len(out') /\ Len(out') <= tail' + rx'.n
      BY <2>1, <2>3, Zenon
    <2>. QED BY <2>1, <2>4 DEF IInv, InOrder
  <1>6. EverySampleCounted'
    BY <1>1, <1>2, Numbers DEF IInv, EverySampleCounted
  <1>. QED BY <1>3, <1>4, <1>5, <1>6 DEF IInv

LEMMA PopCountHolds == ASSUME IInv, PopCount PROVE IInv'
  <1>1. /\ rx' = [rx EXCEPT !.at = "idle", !.short = 0]
        /\ rx.at = "count" /\ starved' = starved + rx.short
        /\ UNCHANGED <<head, tail, dropped, tx, out, offered, asked>>
    BY DEF PopCount
  <1>2. /\ rx' \in Local
        /\ rx'.at = "idle" /\ rx'.other = rx.other /\ rx'.n = rx.n /\ rx'.short = 0
    BY <1>1 DEF IInv, TypeOK, Local
  <1>3. TypeOK'
    <2>1. starved' \in Nat
      BY <1>1, Numbers DEF IInv
    <2>. QED BY <1>1, <1>2, <2>1 DEF IInv, TypeOK
  <1>4. Within'
    <2>1. rx.n = 0 /\ tail + rx'.n <= rx'.other
      BY <1>1, <1>2 DEF IInv, Within
    <2>. QED BY <1>1, <1>2, <2>1 DEF IInv, Within
  <1>5. InOrder'
    BY <1>1, <1>2 DEF IInv, InOrder
  <1>6. EverySampleCounted'
    BY <1>1, <1>2, Numbers DEF IInv, EverySampleCounted
  <1>. QED BY <1>3, <1>4, <1>5, <1>6 DEF IInv

LEMMA StepHolds == IInv /\ [Next]_vars => IInv'
  <1>1. SUFFICES ASSUME IInv, [Next]_vars PROVE IInv'
    OBVIOUS
  <1>2. ASSUME NEW len \in Slices, PushBegin(len) PROVE IInv'
    BY <1>1, <1>2, PushBeginHolds
  <1>3. ASSUME NEW len \in Slices, PopBegin(len) PROVE IInv'
    BY <1>1, <1>3, PopBeginHolds
  <1>4. CASE PushPublish
    BY <1>1, <1>4, PushPublishHolds
  <1>5. CASE PushCount
    BY <1>1, <1>5, PushCountHolds
  <1>6. CASE PopLoad
    BY <1>1, <1>6, PopLoadHolds
  <1>7. CASE PopRelease
    BY <1>1, <1>7, PopReleaseHolds
  <1>8. CASE PopCount
    BY <1>1, <1>8, PopCountHolds
  <1>9. CASE UNCHANGED vars
    BY <1>1, <1>9 DEF vars, IInv, TypeOK, Within, InOrder, EverySampleCounted
  <1>. QED
    BY <1>1, <1>2, <1>3, <1>4, <1>5, <1>6, <1>7, <1>8, <1>9 DEF Next, Producer, Consumer

(* The strengthening behind everything below is an invariant. *)
THEOREM Inductive == Spec => []IInv
  BY InitHolds, StepHolds, PTL DEF Spec

(* The two threads' state is always of its type: push and pop never         *)
(* subtract an index from a smaller one, whatever stale index they read.    *)
THEOREM TypeCorrect == Spec => []TypeOK
  <1>1. IInv => TypeOK
    BY DEF IInv
  <1>. QED BY <1>1, Inductive, PTL

(* The producer stays out of every slot the consumer is still to read.      *)
THEOREM NoSlotShared == Spec => []SlotsNotShared
  <1>1. IInv => SlotsNotShared
    BY OwnSample DEF IInv, SlotsNotShared
  <1>. QED BY <1>1, Inductive, PTL

(* Samples offered are written or counted as dropped, samples asked for are *)
(* read or counted as starved.                                              *)
THEOREM SamplesCounted == Spec => []EverySampleCounted
  <1>1. IInv => EverySampleCounted
    BY DEF IInv
  <1>. QED BY <1>1, Inductive, PTL

-----------------------------------------------------------------------------
(* The refinement: publishing the head accepts a run, releasing the tail    *)
(* hands one on, and every other step is one the queue does not see.        *)

Given == [p \in 1 .. tail |-> out[p]]

LEMMA GivenIsFirst ==
    ASSUME TypeOK, InOrder
    PROVE  Given = Fifo!First(tail) /\ Len(Given) = tail
  <1>1. \A p \in 1 .. tail : p \in 1 .. Len(out)
    BY Numbers DEF InOrder, TypeOK
  <1>2. Given = [p \in 1 .. tail |-> p]
    BY <1>1 DEF Given, InOrder
  <1>3. Len([p \in 1 .. tail |-> p]) = tail
    BY Numbers
  <1>. QED BY <1>2, <1>3 DEF Fifo!First

LEMMA InitMaps == Init => Fifo!FInit
  BY DEF Init, Fifo!FInit, Fifo!First

LEMMA StepMaps == IInv /\ IInv' /\ [Next]_vars => [Fifo!FNext]_Fifo!fvars
  <1>1. SUFFICES ASSUME IInv, IInv', [Next]_vars PROVE [Fifo!FNext]_Fifo!fvars
    OBVIOUS
  <1>2. /\ Given = Fifo!First(tail) /\ Len(Given) = tail
        /\ Given' = Fifo!First(tail')
    <2>1. Given = Fifo!First(tail) /\ Len(Given) = tail
      BY <1>1, GivenIsFirst DEF IInv
    <2>2. \A p \in 1 .. tail' : out'[p] = p
      <3>1. tail' \in Nat /\ Len(out') \in Nat /\ tail' <= Len(out')
        BY <1>1 DEF IInv, TypeOK, InOrder
      <3>. QED BY <1>1, <3>1 DEF IInv, InOrder
    <2>3. Given' = Fifo!First(tail')
      BY <2>2 DEF Given, Fifo!First
    <2>. QED BY <2>1, <2>3
  <1>3. ASSUME head' = head, tail' = tail PROVE UNCHANGED Fifo!fvars
    BY <1>2, <1>3 DEF Fifo!fvars, Given
  <1>4. CASE PushPublish
    <2>1. head' = head + tx.n /\ tail' = tail
      BY <1>4 DEF PushPublish
    <2>2. CASE tx.n = 0
      BY <1>1, <1>3, <2>1, <2>2, Numbers DEF IInv
    <2>3. CASE tx.n # 0
      <3>1. tx.n \in 1 .. Capacity /\ head + tx.n - tail <= Capacity
        BY <1>1, <2>3, Numbers DEF IInv, Within
      <3>2. PICK n \in 1 .. Capacity : n = tx.n
        BY <3>1
      <3>3. Fifo!Accept(n)
        BY <1>2, <2>1, <3>1, <3>2 DEF Fifo!Accept, Given
      <3>4. Fifo!FNext
        BY <3>2, <3>3 DEF Fifo!FNext
      <3>. QED BY <3>4
    <2>. QED BY <2>2, <2>3
  <1>5. CASE PopRelease
    <2>1. head' = head /\ tail' = tail + rx.n
      BY <1>5 DEF PopRelease
    <2>2. CASE rx.n = 0
      BY <1>1, <1>3, <2>1, <2>2, Numbers DEF IInv
    <2>3. CASE rx.n # 0
      <3>1. rx.n \in 1 .. Capacity /\ tail + rx.n <= head
        BY <1>1, <2>3, Numbers DEF IInv, Within
      <3>2. PICK n \in 1 .. Capacity : n = rx.n
        BY <3>1
      <3>3. Fifo!Take(n)
        BY <1>2, <2>1, <3>1, <3>2 DEF Fifo!Take, Given
      <3>4. Fifo!FNext
        BY <3>2, <3>3 DEF Fifo!FNext
      <3>. QED BY <3>4
    <2>. QED BY <2>2, <2>3
  <1>6. CASE \E len \in Slices : PushBegin(len) \/ PopBegin(len)
    BY <1>3, <1>6 DEF PushBegin, PopBegin
  <1>7. CASE PushCount \/ PopLoad \/ PopCount
    BY <1>3, <1>7 DEF PushCount, PopLoad, PopCount
  <1>8. CASE UNCHANGED vars
    BY <1>3, <1>8 DEF vars
  <1>. QED
    BY <1>1, <1>4, <1>5, <1>6, <1>7, <1>8 DEF Next, Producer, Consumer

(* The ring is a first-in first-out queue with room for Capacity samples:   *)
(* it refuses what there is no room for, and loses, repeats and reorders    *)
(* nothing it took.                                                         *)
THEOREM Refines == Spec => ImplementsFifo
  BY InitMaps, StepMaps, Inductive, PTL DEF Spec, ImplementsFifo, Fifo!FSpec

-----------------------------------------------------------------------------
(* The picture: no frame is lost uncounted between the two threads, and the *)
(* newest is the one taken.                                                 *)

(* A frame that has ended and is not published or dropped yet, and frames   *)
(* counted as missed by a take which has not said yet what it has seen.     *)
Underway == IF spc = "idle" THEN 0 ELSE 1
Ahead == IF fpc = "seen" THEN loaded - seen - 1 ELSE 0

Counted == frame + Ahead = taken + missed + (published - seen) + Underway

(* A take works from a count that was new to it and is no longer than the   *)
(* count now; what it has seen it has taken or missed; and a frame is put   *)
(* in the slot before it is counted.                                        *)
Ordered ==
    /\ seen <= published
    /\ fpc # "idle" => seen < loaded /\ loaded <= published
    /\ seen + Ahead <= taken + missed
    /\ swapped = published + (IF spc = "count" THEN 1 ELSE 0)
    /\ frame <= MaxFrames

SwapInv == SwapTypeOK /\ Counted /\ Ordered

(* The numbers the invariant relates. *)
LEMMA SwapNumbers ==
    ASSUME SwapTypeOK
    PROVE  /\ frame \in Nat /\ taken \in Nat /\ missed \in Nat /\ published \in Nat
           /\ seen \in Nat /\ loaded \in Nat /\ swapped \in Nat /\ MaxFrames \in Nat
  BY FrameSwapAssumption DEF SwapTypeOK

LEMMA SwapInitHolds == SwapInit => SwapInv
  <1> SUFFICES ASSUME SwapInit PROVE SwapInv
    OBVIOUS
  <1>1. 0 \in 0 .. MaxFrames
    BY FrameSwapAssumption
  <1>2. SwapTypeOK
    BY <1>1 DEF SwapInit, SwapTypeOK
  <1>3. Counted /\ Ordered
    BY FrameSwapAssumption DEF SwapInit, Counted, Underway, Ahead, Ordered
  <1> QED BY <1>2, <1>3 DEF SwapInv

(* No counter can outrun the frames there have been, because every frame is *)
(* in one of them once.                                                     *)
LEMMA WithinFrames ==
    ASSUME SwapInv
    PROVE  /\ published + Underway <= MaxFrames
           /\ taken + Underway <= MaxFrames
           /\ missed + Underway <= MaxFrames
           /\ fpc = "seen" => taken + 1 <= MaxFrames
           /\ fpc = "miss" => missed + (loaded - seen - 1) <= MaxFrames
  BY SwapNumbers DEF SwapInv, Counted, Ordered, Underway, Ahead

(* The emulation thread. *)
LEMMA SinkHolds ==
    ASSUME SwapInv, Sink
    PROVE  SwapInv'
  <1>1. CASE ServiceEvent
    <2>1. SwapTypeOK'
      BY <1>1, SwapNumbers DEF SwapInv, SwapTypeOK, ServiceEvent, counters, source, history
    <2>2. Counted' /\ Ordered'
      BY <1>1, SwapNumbers
      DEF SwapInv, Counted, Ordered, Underway, Ahead, ServiceEvent, counters, source, history
    <2> QED BY <2>1, <2>2 DEF SwapInv
  <1>2. CASE Light
    <2>1. SwapTypeOK'
      BY <1>2 DEF SwapInv, SwapTypeOK, Light, counters, source, history
    <2>2. Counted' /\ Ordered'
      BY <1>2, SwapNumbers
      DEF SwapInv, Counted, Ordered, Underway, Ahead, Light, counters, source, history
    <2> QED BY <2>1, <2>2 DEF SwapInv
  <1>3. CASE TryLock
    <2>1. missed' \in 0 .. MaxFrames
      BY <1>3, SwapNumbers, WithinFrames DEF SwapInv, SwapTypeOK, TryLock, Underway
    <2>2. SwapTypeOK'
      BY <1>3, <2>1 DEF SwapInv, SwapTypeOK, TryLock, source, history
    <2>3. Counted' /\ Ordered'
      BY <1>3, SwapNumbers DEF SwapInv, Counted, Ordered, Underway, Ahead, TryLock, source, history
    <2> QED BY <2>2, <2>3 DEF SwapInv
  <1>4. CASE SwapIn
    <2>1. swapped' \in 0 .. MaxFrames
      BY <1>4, SwapNumbers, WithinFrames DEF SwapInv, Ordered, SwapIn, Underway
    <2>2. SwapTypeOK'
      BY <1>4, <2>1 DEF SwapInv, SwapTypeOK, SwapIn, counters, source
    <2>3. Counted' /\ Ordered'
      BY <1>4, SwapNumbers DEF SwapInv, Counted, Ordered, Underway, Ahead, SwapIn, counters, source
    <2> QED BY <2>2, <2>3 DEF SwapInv
  <1>5. CASE Count
    <2>1. published' \in 0 .. MaxFrames
      BY <1>5, SwapNumbers, WithinFrames DEF SwapInv, Count, Underway
    <2>2. SwapTypeOK'
      BY <1>5, <2>1 DEF SwapInv, SwapTypeOK, Count, source, history
    <2>3. Counted' /\ Ordered'
      BY <1>5, SwapNumbers DEF SwapInv, Counted, Ordered, Underway, Ahead, Count, source, history
    <2> QED BY <2>2, <2>3 DEF SwapInv
  <1> QED BY <1>1, <1>2, <1>3, <1>4, <1>5 DEF Sink

(* The window's thread. *)
LEMMA TakeFrameHolds ==
    ASSUME SwapInv, TakeFrame
    PROVE  SwapInv'
  <1>1. CASE LoadCount
    <2>1. SwapTypeOK'
      BY <1>1 DEF SwapInv, SwapTypeOK, LoadCount, counters, machine, history
    <2>2. Counted' /\ Ordered'
      BY <1>1, SwapNumbers
      DEF SwapInv, Counted, Ordered, Underway, Ahead, LoadCount, counters, machine, history
    <2> QED BY <2>1, <2>2 DEF SwapInv
  <1>2. CASE Lock
    <2>1. SwapTypeOK'
      BY <1>2 DEF SwapInv, SwapTypeOK, Lock, counters, machine, history
    <2>2. Counted' /\ Ordered'
      BY <1>2, SwapNumbers
      DEF SwapInv, Counted, Ordered, Underway, Ahead, Lock, counters, machine, history
    <2> QED BY <2>1, <2>2 DEF SwapInv
  <1>3. CASE SwapOut
    <2>1. {slot} \ {0} \subseteq 1 .. MaxFrames
      BY SwapNumbers DEF SwapInv, SwapTypeOK
    <2>2. drawn' \subseteq 1 .. MaxFrames
      BY <1>3, <2>1 DEF SwapInv, SwapTypeOK, SwapOut
    <2>3. drawn' \subseteq 1 .. MaxFrames /\ stale' \in Nat
      BY <1>3, <2>2 DEF SwapInv, SwapTypeOK, SwapOut
    <2>4. SwapTypeOK'
      BY <1>3, <2>3 DEF SwapInv, SwapTypeOK, SwapOut, counters, machine
    <2>5. Counted' /\ Ordered'
      BY <1>3, SwapNumbers DEF SwapInv, Counted, Ordered, Underway, Ahead, SwapOut, counters, machine
    <2> QED BY <2>4, <2>5 DEF SwapInv
  <1>4. CASE CountMissed
    <2>1. missed' \in 0 .. MaxFrames
      BY <1>4, SwapNumbers, WithinFrames DEF SwapInv, Ordered, CountMissed
    <2>2. SwapTypeOK'
      BY <1>4, <2>1 DEF SwapInv, SwapTypeOK, CountMissed, machine, history
    <2>3. Counted' /\ Ordered'
      BY <1>4, SwapNumbers DEF SwapInv, Counted, Ordered, Underway, Ahead, CountMissed, machine, history
    <2> QED BY <2>2, <2>3 DEF SwapInv
  <1>5. CASE CountTaken
    <2>1. taken' \in 0 .. MaxFrames
      BY <1>5, SwapNumbers, WithinFrames DEF SwapInv, CountTaken
    <2>2. SwapTypeOK'
      BY <1>5, <2>1 DEF SwapInv, SwapTypeOK, CountTaken, machine, history
    <2>3. Counted' /\ Ordered'
      BY <1>5, SwapNumbers DEF SwapInv, Counted, Ordered, Underway, Ahead, CountTaken, machine, history
    <2> QED BY <2>2, <2>3 DEF SwapInv
  <1> QED BY <1>1, <1>2, <1>3, <1>4, <1>5 DEF TakeFrame

LEMMA SwapNextHolds == SwapInv /\ [SwapNext]_swap_vars => SwapInv'
  <1> SUFFICES ASSUME SwapInv, [SwapNext]_swap_vars PROVE SwapInv'
    OBVIOUS
  <1>1. CASE SetTape
    <2>1. SwapTypeOK'
      BY <1>1 DEF SwapInv, SwapTypeOK, SetTape, counters, source, history
    <2>2. Counted' /\ Ordered'
      BY <1>1, SwapNumbers
      DEF SwapInv, Counted, Ordered, Underway, Ahead, SetTape, counters, source, history
    <2> QED BY <2>1, <2>2 DEF SwapInv
  <1>2. CASE UNCHANGED swap_vars
    BY <1>2 DEF SwapInv, SwapTypeOK, Counted, Ordered, Underway, Ahead, swap_vars, counters, machine, source,
                history
  <1> QED BY <1>1, <1>2, SinkHolds, TakeFrameHolds DEF SwapNext

(* What the rest follows from: the types, the count and the order of both    *)
(* ends, together, hold in every state.                                     *)
THEOREM SwapInductive == SwapSpec => []SwapInv
  BY SwapInitHolds, SwapNextHolds, PTL DEF SwapSpec

(* The counters, the buffers and the two threads' places keep their types:  *)
(* no count, `missed` among them, ever goes past the frames there have been.*)
THEOREM SwapTypeCorrect == SwapSpec => []SwapTypeOK
  <1>1. SwapInv => SwapTypeOK
    BY DEF SwapInv
  <1> QED BY <1>1, SwapInductive, PTL

-----------------------------------------------------------------------------
(* The pictures.  A take swaps out what it was woken for unless it has been *)
(* overtaken, and then it swaps out what an earlier one has handed back.    *)

SwappedOutFor == IF fpc \in {"miss", "seen"} THEN loaded ELSE seen

(* A frame being painted has never been seen anywhere. *)
InPen ==
    spc \in {"light", "try", "swap"} =>
        scratch = frame /\ frame >= 1 /\ frame \notin drawn /\ frame # slot

(* What the source holds has been handed out; so has what the slot holds    *)
(* once a take was overtaken or has seen every frame put there; and until   *)
(* then the slot holds the last of them, which nobody has seen.             *)
Fresh ==
    /\ drawn \subseteq 1 .. frame /\ slot <= frame
    /\ current \in drawn \cup {0}
    /\ SwappedOutFor <= swapped
    /\ overtaken \/ swapped = SwappedOutFor => slot \in drawn \cup {0}
    /\ ~overtaken /\ swapped > SwappedOutFor => slot = last /\ last >= 1 /\ last \notin drawn

(* Each take handed out a picture nobody had seen or went ahead overtaken. *)
Handed == taken + (IF fpc \in {"miss", "seen"} THEN 1 ELSE 0) = Cardinality(drawn) + stale

Pictures == InPen /\ Fresh /\ Handed

LEMMA DrawnFinite ==
    ASSUME SwapTypeOK
    PROVE  IsFiniteSet(drawn) /\ Cardinality(drawn) \in Nat
  <1>1. IsFiniteSet(1 .. MaxFrames)
    BY FS_Interval, FrameSwapAssumption
  <1> QED BY <1>1, FS_Subset, FS_CardinalityType DEF SwapTypeOK

LEMMA PicturesInit == SwapInit => Pictures
  <1> SUFFICES ASSUME SwapInit PROVE Pictures
    OBVIOUS
  <1>1. Handed
    BY FS_EmptySet DEF SwapInit, Handed
  <1> QED BY <1>1 DEF SwapInit, Pictures, InPen, Fresh, SwappedOutFor

(* The swap a take is made for: one more picture, or one more stale take. *)
LEMMA SwapOutPictures ==
    ASSUME SwapInv, Pictures, SwapOut
    PROVE  Pictures'
  <1>1. seen < loaded /\ loaded <= published /\ published <= swapped
    BY SwapNumbers DEF SwapInv, Ordered, SwapOut
  <1>2. swapped > SwappedOutFor /\ SwappedOutFor' = loaded /\ fpc = "swap" /\ fpc' = "miss"
    BY <1>1, SwapNumbers DEF SwapInv, SwappedOutFor, SwapOut
  <1>3. slot \in 0 .. MaxFrames /\ last \in 0 .. MaxFrames /\ scratch \in 0 .. MaxFrames
    BY DEF SwapInv, SwapTypeOK
  <1>4. InPen'
    BY <1>3, SwapNumbers DEF SwapInv, Pictures, InPen, Fresh, SwapOut, machine
  <1>5. Fresh'
    <2>1. drawn' \subseteq 1 .. frame' /\ slot' <= frame'
      BY <1>3, SwapNumbers DEF SwapInv, Pictures, Fresh, SwapOut, machine
    <2>2. current' \in drawn' \cup {0} /\ slot' \in drawn' \cup {0}
      BY DEF Pictures, Fresh, SwapOut
    <2>3. SwappedOutFor' <= swapped'
      BY <1>1, <1>2, SwapNumbers DEF SwapInv, SwapOut
    <2>4. swapped > loaded => overtaken'
      BY DEF SwapOut
    <2>5. ~(~overtaken' /\ swapped' > SwappedOutFor')
      BY <1>2, <2>4 DEF SwapOut
    <2> QED BY <2>1, <2>2, <2>3, <2>5 DEF Fresh
  <1>6. Handed'
    <2>1. taken' = taken /\ taken \in Nat /\ stale \in Nat
      BY DEF SwapInv, SwapTypeOK, SwapOut, counters
    <2>2. IsFiniteSet(drawn) /\ Cardinality(drawn) \in Nat
      BY DrawnFinite DEF SwapInv
    <2>3. CASE overtaken
      <3>1. drawn' = drawn /\ stale' = stale + 1
        BY <2>3 DEF Pictures, Fresh, SwapOut
      <3> QED BY <1>2, <2>1, <2>2, <3>1 DEF Pictures, Handed
    <2>4. CASE ~overtaken
      <3>1. slot >= 1 /\ slot \notin drawn
        BY <1>2, <2>4 DEF Pictures, Fresh
      <3>2. drawn' = drawn \cup {slot} /\ stale' = stale
        BY <1>3, <2>4, <3>1 DEF SwapOut
      <3>3. Cardinality(drawn') = Cardinality(drawn) + 1
        BY <2>2, <3>1, <3>2, FS_AddElement
      <3> QED BY <1>2, <2>1, <2>2, <3>2, <3>3 DEF Pictures, Handed
    <2> QED BY <2>3, <2>4
  <1> QED BY <1>4, <1>5, <1>6 DEF Pictures

LEMMA PicturesHold == SwapInv /\ Pictures /\ [SwapNext]_swap_vars => Pictures'
  <1> SUFFICES ASSUME SwapInv, Pictures, [SwapNext]_swap_vars PROVE Pictures'
    OBVIOUS
  <1>0. slot \in 0 .. MaxFrames /\ scratch \in 0 .. MaxFrames
    BY DEF SwapInv, SwapTypeOK
  <1>1. CASE ServiceEvent
    <2>1. InPen'
      BY <1>0, <1>1, SwapNumbers DEF SwapInv, Pictures, InPen, Fresh, ServiceEvent, history
    <2>2. Fresh' /\ Handed'
      BY <1>0, <1>1, SwapNumbers
      DEF SwapInv, Pictures, Fresh, Handed, SwappedOutFor, ServiceEvent, counters, source, history
    <2> QED BY <2>1, <2>2 DEF Pictures
  <1>2. CASE Light \/ TryLock \/ Count \/ SetTape
    <2>1. UNCHANGED <<slot, scratch, frame, taken, source, history>>
          /\ (spc' \in {"light", "try", "swap"} => spc \in {"light", "try", "swap"})
      BY <1>2 DEF Light, TryLock, Count, SetTape, counters
    <2>2. InPen'
      BY <2>1 DEF Pictures, InPen, history
    <2>3. Fresh' /\ Handed'
      BY <2>1 DEF Pictures, Fresh, Handed, SwappedOutFor, source, history
    <2> QED BY <2>2, <2>3 DEF Pictures
  <1>3. CASE SwapIn
    <2>1. InPen' /\ Handed'
      BY <1>3 DEF Pictures, InPen, Handed, SwapIn, counters, source
    <2>2. SwappedOutFor' = SwappedOutFor /\ swapped' = swapped + 1 /\ SwappedOutFor \in Nat
      BY <1>3, SwapNumbers DEF SwapInv, SwappedOutFor, SwapIn, source
    <2>3. swapped' > SwappedOutFor'
      BY <2>2, SwapNumbers DEF SwapInv, Pictures, Fresh
    <2>4. slot' = frame /\ last' = frame /\ frame >= 1 /\ frame \notin drawn /\ ~overtaken'
      BY <1>3 DEF Pictures, InPen, SwapIn
    <2>5. UNCHANGED <<drawn, frame, current>>
      BY <1>3 DEF SwapIn, source
    <2> QED BY <2>1, <2>2, <2>3, <2>4, <2>5, SwapNumbers DEF SwapInv, Pictures, Fresh
  <1>4. CASE LoadCount \/ Lock
    <2>1. UNCHANGED <<slot, taken, current, seen, machine, history>>
          /\ fpc \notin {"miss", "seen"} /\ fpc' \notin {"miss", "seen"}
      BY <1>4 DEF LoadCount, Lock, counters
    <2>2. InPen' /\ Handed'
      BY <2>1 DEF Pictures, InPen, Handed, machine, history
    <2>3. SwappedOutFor' = SwappedOutFor
      BY <2>1 DEF SwappedOutFor
    <2>4. Fresh'
      BY <2>1, <2>3 DEF Pictures, Fresh, machine, history
    <2> QED BY <2>2, <2>4 DEF Pictures
  <1>5. CASE SwapOut
    BY <1>5, SwapOutPictures
  <1>6. CASE CountMissed \/ CountTaken
    <2>1. UNCHANGED <<slot, current, machine, history>>
      BY <1>6 DEF CountMissed, CountTaken
    <2>2. SwappedOutFor' = SwappedOutFor
      BY <1>6 DEF SwappedOutFor, CountMissed, CountTaken
    <2>3. Handed'
      BY <1>6, SwapNumbers DEF SwapInv, Pictures, Handed, CountMissed, CountTaken, history
    <2>4. InPen' /\ Fresh'
      BY <2>1, <2>2 DEF Pictures, InPen, Fresh, machine, history
    <2> QED BY <2>3, <2>4 DEF Pictures
  <1>7. CASE UNCHANGED swap_vars
    BY <1>7
    DEF Pictures, InPen, Fresh, Handed, SwappedOutFor, swap_vars, counters, machine, source, history
  <1> QED BY <1>1, <1>2, <1>3, <1>4, <1>5, <1>6, <1>7 DEF SwapNext, Sink, TakeFrame

LEMMA PicturesInvariant == SwapSpec => []Pictures
  BY PicturesInit, PicturesHold, SwapInductive, PTL DEF SwapSpec

(* Of the frames never handed out, `missed` has all but those not yet looked *)
(* at and one for each take that was given an old picture, whichever way    *)
(* publish and take interleave; and a frame is still to be drawn exactly    *)
(* when the count is new and no take was overtaken since the last was put   *)
(* there.  Handed says what the takes got and Counted how many there were.  *)
THEOREM FramesCounted == SwapSpec => []EveryFrameCounted
  <1>1. SwapInv /\ Pictures => EveryFrameCounted
    <2> SUFFICES ASSUME SwapInv, Pictures, AtRest
                 PROVE  /\ Cardinality(Undrawn) = missed + stale + (published - seen)
                        /\ slot \in Undrawn <=> published # seen /\ ~overtaken
      BY DEF EveryFrameCounted
    <2>1. IsFiniteSet(drawn) /\ Cardinality(drawn) \in Nat
      BY DrawnFinite DEF SwapInv
    <2>2. frame \in Nat /\ taken \in Nat /\ missed \in Nat /\ published \in Nat /\ seen \in Nat
          /\ stale \in Nat /\ slot \in Nat /\ swapped \in Nat
      BY SwapNumbers DEF SwapInv, SwapTypeOK
    <2>3. Cardinality(Undrawn) = frame - Cardinality(drawn)
      <3>1. IsFiniteSet(1 .. frame) /\ Cardinality(1 .. frame) = frame
        BY <2>2, FS_Interval
      <3>2. (1 .. frame) \cap drawn = drawn
        BY DEF Pictures, Fresh
      <3>3. Cardinality((1 .. frame) \ drawn)
              = Cardinality(1 .. frame) - Cardinality((1 .. frame) \cap drawn)
        BY <3>1, FS_Difference
      <3> QED BY <3>1, <3>2, <3>3 DEF Undrawn
    <2>4. taken = Cardinality(drawn) + stale
      BY <2>1, <2>2 DEF Pictures, Handed, AtRest
    <2>5. frame = taken + missed + (published - seen)
      BY <2>2 DEF SwapInv, AtRest, Counted, Underway, Ahead
    <2>6. SwappedOutFor = seen /\ swapped = published /\ seen <= published
      BY <2>2 DEF SwapInv, Ordered, AtRest, SwappedOutFor
    <2>7. slot \in Undrawn <=> published # seen /\ ~overtaken
      <3>1. CASE published # seen /\ ~overtaken
        BY <2>2, <2>6, <3>1 DEF Pictures, Fresh, Undrawn
      <3>2. CASE published = seen \/ overtaken
        BY <2>2, <2>6, <3>2 DEF Pictures, Fresh, Undrawn
      <3> QED BY <3>1, <3>2
    <2> QED BY <2>1, <2>2, <2>3, <2>4, <2>5, <2>7
  <1> QED BY <1>1, SwapInductive, PicturesInvariant, PTL

(* take hands back the last frame that was put in the slot, never handed    *)
(* back before, unless it has been overtaken since: a take goes ahead only  *)
(* on a count it has not seen, and every frame counted was put there first. *)
THEOREM NewestTaken == SwapSpec => NewestUnlessOvertaken
  <1>1. SwapInv /\ Pictures
        => [SwapOut /\ ~overtaken => current' = last /\ current' \notin drawn]_swap_vars
    <2> SUFFICES ASSUME SwapInv, Pictures, SwapOut, ~overtaken
                 PROVE  current' = last /\ current' \notin drawn
      OBVIOUS
    <2>1. seen < loaded /\ loaded <= published /\ published <= swapped
      BY SwapNumbers DEF SwapInv, Ordered, SwapOut
    <2>2. swapped > SwappedOutFor
      BY <2>1, SwapNumbers DEF SwapInv, SwappedOutFor, SwapOut
    <2> QED BY <2>2 DEF Pictures, Fresh, SwapOut
  <1> QED BY <1>1, SwapInductive, PicturesInvariant, PTL DEF NewestUnlessOvertaken
=============================================================================
