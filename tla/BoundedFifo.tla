---------------------------- MODULE BoundedFifo ----------------------------
(***************************************************************************)
(* A first-in first-out queue with room for Bound items, put in and taken  *)
(* out in runs, which refuses rather than loses: what the sample ring      *)
(* promises.  An item is known by the order it was accepted in.            *)
(***************************************************************************)
EXTENDS Naturals, Sequences

CONSTANT Bound

VARIABLES
    accepted,  \* items the queue ever took
    taken      \* the items it handed on, oldest first

fvars == <<accepted, taken>>

(* The first so many items accepted, in order. *)
First(n) == [i \in 1 .. n |-> i]

FInit == accepted = 0 /\ taken = First(0)

Accept(n) ==
    /\ accepted + n - Len(taken) <= Bound
    /\ accepted' = accepted + n
    /\ UNCHANGED taken

Take(n) ==
    /\ Len(taken) + n <= accepted
    /\ taken' = First(Len(taken) + n)
    /\ UNCHANGED accepted

FNext == \E n \in 1 .. Bound : Accept(n) \/ Take(n)

FSpec == FInit /\ [][FNext]_fvars
=============================================================================
