----------------------------- MODULE SampleRing -----------------------------
(***************************************************************************)
(* The single-producer single-consumer ring of samples between the         *)
(* emulation thread and the sound device: rkw-audio's ring.rs, one action  *)
(* per access to what the two threads share.                               *)
(*                                                                         *)
(* A sample is known by its position in the stream, from 1; a slot that    *)
(* was never written holds 0 or less.  The stores to the slots are relaxed *)
(* and may appear in any order, or not yet, until the head that covers     *)
(* them is published; a load of the other side's index may answer with the *)
(* value it answered with before.  Indices are naturals: u64 counters of   *)
(* samples do not wrap in the life of a machine.                           *)
(***************************************************************************)
EXTENDS Integers, Sequences

CONSTANTS
    Capacity,   \* slots: a power of two
    Slices,     \* lengths of the slices pushed and popped
    MaxOffered, \* bound: samples pushed
    MaxAsked    \* bound: samples asked for

ASSUME SampleRingAssumption ==
    /\ Capacity \in Nat \ {0, 1}
    /\ Slices \subseteq Nat
    /\ MaxOffered \in Nat /\ MaxAsked \in Nat

VARIABLES
    head, tail,         \* shared: samples ever written, samples ever read
    dropped, starved,   \* shared: samples refused, samples not there to read
    tx, rx,             \* the locals of push and of pop
    out,                \* history: what the device was given, end to end
    offered, asked      \* history: samples handed to push, samples asked of pop

vars == <<head, tail, dropped, starved, tx, rx, out, offered, asked>>

Idle == [at |-> "idle", other |-> 0, n |-> 0, short |-> 0]

Init ==
    /\ head = 0 /\ tail = 0 /\ dropped = 0 /\ starved = 0
    /\ tx = Idle /\ rx = Idle
    /\ out = <<>>
    /\ offered = 0 /\ asked = 0

AtMost(a, b) == IF a <= b THEN a ELSE b

-----------------------------------------------------------------------------
(* The emulation thread, in push. *)

FreeByOneMore(seen) == Capacity + 1 - (head - seen)

(* Room left, by the tail the load answered with. *)
Free(seen) == Capacity - (head - seen)

(* As much of the slice as there is room for; the tail of it is refused.    *)
PushBegin(len) ==
    /\ tx.at = "idle" /\ offered + len <= MaxOffered
    /\ \E seen \in {tx.other, tail} :
         LET n == AtMost(len, Free(seen))
         IN  tx' = [at |-> "store", other |-> seen, n |-> n, short |-> len - n]
    /\ offered' = offered + len
    /\ UNCHANGED <<head, tail, dropped, starved, rx, out, asked>>

PushPublishAll ==
    /\ tx.at = "store"
    /\ head' = head + tx.n + tx.short
    /\ tx' = [tx EXCEPT !.at = "count", !.n = 0]
    /\ UNCHANGED <<tail, dropped, starved, rx, out, offered, asked>>

(* Every sample is in place: publish the head. *)
PushPublish ==
    /\ tx.at = "store"
    /\ head' = head + tx.n
    /\ tx' = [tx EXCEPT !.at = "count", !.n = 0]
    /\ UNCHANGED <<tail, dropped, starved, rx, out, offered, asked>>

PushCountNothing ==
    /\ tx.at = "count"
    /\ tx' = [tx EXCEPT !.at = "idle", !.short = 0]
    /\ UNCHANGED <<head, tail, dropped, starved, rx, out, offered, asked>>

PushCount ==
    /\ tx.at = "count"
    /\ dropped' = dropped + tx.short
    /\ tx' = [tx EXCEPT !.at = "idle", !.short = 0]
    /\ UNCHANGED <<head, tail, starved, rx, out, offered, asked>>

-----------------------------------------------------------------------------
(* The device's thread, in pop. *)

(* What the slot of a position may answer with: its own sample, any later   *)
(* one the producer may have stored there by now, and, beyond the head, the *)
(* one of the lap before.                                                   *)
Stored == head + tx.n
Readable(p) ==
    {q \in {p + k * Capacity : k \in 0 .. Stored} : q <= Stored}
      \cup {q \in {p - Capacity} : p > head}

PopBegin(len) ==
    /\ rx.at = "idle" /\ asked + len <= MaxAsked
    /\ \E seen \in {rx.other, head} :
         LET n == AtMost(len, seen - tail)
         IN  rx' = [at |-> "load", other |-> seen, n |-> n, short |-> len - n]
    /\ asked' = asked + len
    /\ UNCHANGED <<head, tail, dropped, starved, tx, out, offered>>

PopLoad ==
    /\ rx.at = "load" /\ Len(out) < tail + rx.n
    /\ \E q \in Readable(Len(out) + 1) : out' = Append(out, q)
    /\ UNCHANGED <<head, tail, dropped, starved, tx, rx, offered, asked>>

(* Every sample is out: release the slots. *)
PopRelease ==
    /\ rx.at = "load" /\ Len(out) = tail + rx.n
    /\ tail' = tail + rx.n
    /\ rx' = [rx EXCEPT !.at = "count", !.n = 0]
    /\ UNCHANGED <<head, dropped, starved, tx, out, offered, asked>>

PopCount ==
    /\ rx.at = "count"
    /\ starved' = starved + rx.short
    /\ rx' = [rx EXCEPT !.at = "idle", !.short = 0]
    /\ UNCHANGED <<head, tail, dropped, tx, out, offered, asked>>

-----------------------------------------------------------------------------
Producer == (\E len \in Slices : PushBegin(len)) \/ PushPublish \/ PushCount
Consumer == (\E len \in Slices : PopBegin(len)) \/ PopLoad \/ PopRelease \/ PopCount

Next == Producer \/ Consumer

Spec == Init /\ [][Next]_vars

-----------------------------------------------------------------------------
Local == [at : {"idle", "store", "load", "count"}, other : Nat, n : Nat, short : Nat]

TypeOK ==
    /\ head \in Nat /\ tail \in Nat /\ dropped \in Nat /\ starved \in Nat
    /\ offered \in Nat /\ asked \in Nat
    /\ tx \in Local /\ rx \in Local
    /\ out \in Seq(Int)

(* The producer never touches a slot the consumer may be reading: the only  *)
(* thing a slot can answer with is the sample the consumer came for.        *)
SlotsNotShared ==
    \A p \in tail + 1 .. tail + rx.n : Readable(p) = {p}

(* The device is given every sample accepted, once, in order: the ring is a *)
(* queue of Capacity samples that refuses rather than overwrites.           *)
Fifo == INSTANCE BoundedFifo
          WITH Bound <- Capacity, accepted <- head,
               taken <- [p \in 1 .. tail |-> out[p]]
ImplementsFifo == Fifo!FSpec

(* Every sample offered is written or counted as dropped, and every sample  *)
(* asked for is read or counted as starved, whatever the other side does.   *)
EverySampleCounted ==
    /\ offered = head + tx.n + tx.short + dropped
    /\ asked = tail + rx.n + rx.short + starved
=============================================================================
