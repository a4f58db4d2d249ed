-------------------------------- MODULE Ring --------------------------------
(***************************************************************************)
(* The single-producer single-consumer ring of rkw-debug (src/ring.rs),    *)
(* one action per access to a shared atomic.                               *)
(*                                                                         *)
(* The producer's stores go through `pending`, the stores it has issued    *)
(* and other threads cannot see yet, and become visible one by one in an   *)
(* order that the memory allows:                                           *)
(*   "release"  what the source's orderings promise: a Release store       *)
(*              follows everything issued before it, a Relaxed store waits *)
(*              only for an earlier store to the same place;               *)
(*   "total"    every store in the order it was issued, as x86 keeps them. *)
(*                                                                         *)
(* Indices are naturals: the code's u64 counters do not wrap in the life   *)
(* of a machine.                                                           *)
(***************************************************************************)
EXTENDS Integers, Sequences, SequencesExt

CONSTANTS
    Capacity,    \* slots: a power of two
    Uses,        \* the uses made of a ring, and the memory it is on
    MaxPush,     \* bound: pushes in a behaviour
    MaxPending   \* bound: stores issued and not yet visible

ASSUME RingAssumption ==
    /\ Capacity \in Nat \ {0, 1}
    /\ \E k \in 1 .. Capacity : Capacity = 2 ^ k
    /\ Uses \subseteq [lossy : BOOLEAN, order : {"release", "total"}]
    /\ MaxPush \in Nat /\ MaxPending \in Nat

VARIABLES
    use,       \* the use made of this one: lossy if its producer calls push,
               \* refusing if it calls try_push
    lo, hi,    \* the two words of each slot
    head,      \* the published head, as another thread sees it
    tail,      \* records read
    dropped,   \* records overwritten before they were read
    put,       \* the head as the producer itself knows it
    pending,   \* the producer's stores nobody else sees yet
    pop,       \* the consumer's locals while inside pop
    got        \* history: what pop took, each record's two words

memory == <<lo, hi, head>>
vars == <<use, memory, tail, dropped, put, pending, pop, got>>

Slots == 0 .. Capacity - 1
SlotOf(position) == position % Capacity

(* The record pushed at a position carries its number in both words, as    *)
(* the two-threaded test's do; a fresh slot holds zeros.                   *)
Word(position) == position + 1

Idle == [at |-> "idle", head |-> 0, tail |-> 0, missed |-> 0, todo |-> {}, lo |-> 0, hi |-> 0]

Init ==
    /\ use \in Uses
    /\ lo = [s \in Slots |-> 0]
    /\ hi = [s \in Slots |-> 0]
    /\ head = 0 /\ tail = 0 /\ dropped = 0
    /\ put = 0 /\ pending = <<>>
    /\ pop = Idle
    /\ got = <<>>

-----------------------------------------------------------------------------
(* The producer. *)

(* The two slot words, then the head that covers them. *)
Stores(position) ==
    LET slot == SlotOf(position)
    IN  << [var |-> "lo", slot |-> slot, val |-> Word(position)],
           [var |-> "hi", slot |-> slot, val |-> Word(position)],
           [var |-> "head", slot |-> 0, val |-> position + 1] >>

Issue ==
    /\ put < MaxPush
    /\ Len(pending) + 3 <= MaxPending
    /\ pending' = pending \o Stores(put)
    /\ put' = put + 1
    /\ UNCHANGED <<use, memory, tail, dropped, pop, got>>

(* push: never looks at the tail. *)
Push == use.lossy /\ Issue

(* try_push: one short of the slot count is full. A refusal changes nothing. *)
HasRoom == put - tail < Capacity - 1
TryPush == ~use.lossy /\ HasRoom /\ Issue

(* May the i-th pending store become visible now? *)
MayAppear(i) ==
    /\ \A j \in 1 .. i - 1 :
         <<pending[j].var, pending[j].slot>> # <<pending[i].var, pending[i].slot>>
    /\ pending[i].var = "head" \/ use.order = "total" => i = 1

Appear(i) ==
    LET store == pending[i]
    IN  /\ MayAppear(i)
        /\ pending' = RemoveAt(pending, i)
        /\ lo' = IF store.var = "lo" THEN [lo EXCEPT ![store.slot] = store.val] ELSE lo
        /\ hi' = IF store.var = "hi" THEN [hi EXCEPT ![store.slot] = store.val] ELSE hi
        /\ head' = IF store.var = "head" THEN store.val ELSE head
        /\ UNCHANGED <<use, tail, dropped, put, pop, got>>

-----------------------------------------------------------------------------
(* The consumer, inside pop. *)

MissedNothing(lag) == 0

(* How many records a reader this far behind must give up. *)
Missed(lag) == IF lag >= Capacity THEN lag - Capacity + 1 ELSE 0

(* Load the head (Acquire) and choose a position. An empty ring is None. *)
LoadHead ==
    /\ pop.at = "idle"
    /\ head # tail
    /\ LET missed == Missed(head - tail)
       IN  pop' = [pop EXCEPT !.at = "copy", !.head = head, !.tail = tail + missed,
                              !.missed = missed, !.todo = {"lo", "hi"}]
    /\ UNCHANGED <<use, memory, tail, dropped, put, pending, got>>

(* The two relaxed word loads, in either order. *)
CopyWord ==
    /\ pop.at = "copy"
    /\ \E w \in pop.todo :
         pop' = [pop EXCEPT !.todo = @ \ {w},
                            !.lo = IF w = "lo" THEN lo[SlotOf(pop.tail)] ELSE @,
                            !.hi = IF w = "hi" THEN hi[SlotOf(pop.tail)] ELSE @]
    /\ UNCHANGED <<use, memory, tail, dropped, put, pending, got>>

OvertakenByMore == head - pop.tail > Capacity

(* After the fence: could the producer have been in the slot meanwhile? *)
Overtaken == head - pop.tail >= Capacity

Recheck ==
    /\ pop.at = "copy" /\ pop.todo = {}
    /\ pop' = IF Overtaken THEN Idle ELSE [pop EXCEPT !.at = "take"]
    /\ UNCHANGED <<use, memory, tail, dropped, put, pending, got>>

(* Count the loss, move the tail and hand the record over. Only this thread *)
(* reads `dropped`, and the tail is the one store another thread sees.      *)
(* The words are decoded last: those that decode are returned, and for      *)
(* those that do not pop goes round again, to what the next call would do.  *)
(* Either way they have been taken; nothing the crate pushes fails to       *)
(* decode.                                                                  *)
Take ==
    /\ pop.at = "take"
    /\ dropped' = dropped + pop.missed
    /\ tail' = pop.tail + 1
    /\ got' = Append(got, [lo |-> pop.lo, hi |-> pop.hi])
    /\ pop' = Idle
    /\ UNCHANGED <<use, memory, put, pending>>

-----------------------------------------------------------------------------
Consumer == LoadHead \/ CopyWord \/ Recheck \/ Take
Visibility == \E i \in 1 .. Len(pending) : Appear(i)

Next == Push \/ TryPush \/ Visibility \/ Consumer

Spec == Init /\ [][Next]_vars

(* Stores reach the other threads, and the consumer keeps polling, as the   *)
(* GUI does every frame and the emulation thread every slice.               *)
FairSpec == Spec /\ WF_vars(Visibility) /\ WF_vars(Consumer)

-----------------------------------------------------------------------------
TypeOK ==
    /\ use \in Uses
    /\ lo \in [Slots -> Nat] /\ hi \in [Slots -> Nat]
    /\ head \in Nat /\ tail \in Nat /\ dropped \in Nat /\ put \in Nat
    /\ pending \in Seq([var : {"lo", "hi", "head"}, slot : Slots, val : Nat])
    /\ pop \in [at : {"idle", "copy", "take"}, head : Nat, tail : Nat, missed : Nat,
                todo : SUBSET {"lo", "hi"}, lo : Nat, hi : Nat]
    /\ got \in Seq([lo : Nat, hi : Nat])

(* A record pop returns is one the producer wrote, not the halves of two:   *)
(* what the two-threaded test of the ring asserts of every record.          *)
RecordsWhole == \A i \in 1 .. Len(got) : got[i].lo = got[i].hi

(* The memory an overwriting ring needs: its stores seen in the order issued. *)
OrderEnough == \A u \in Uses : u.lossy => u.order = "total"

(* The ring is a RecordStream: whole records, in order; the overwriting one  *)
(* skips none that was not a lap behind, counts each skip once although pop *)
(* retries, and never skips the newest; the refusing one loses none, even   *)
(* when stores appear in any order Release allows.                          *)
Stream == INSTANCE RecordStream
            WITH lossy <- use.lossy, written <- head, next <- tail, lost <- dropped,
                 delivered <- got
ImplementsStream == Stream!SSpec

(* Once the producer pauses, a consumer that keeps polling reaches the      *)
(* newest record: pop never spins forever on a slot it can never read.      *)
ConsumerCatchesUp == (put = MaxPush) ~> (tail = MaxPush)
=============================================================================
