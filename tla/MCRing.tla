------------------------------- MODULE MCRing -------------------------------
(* Instances of Ring for TLC: the two uses the program makes of a ring, each *)
(* on the weakest memory it is right on, and the use that is not.            *)
EXTENDS Ring

MCUses == {[lossy |-> TRUE, order |-> "total"], [lossy |-> FALSE, order |-> "release"]}
MCUsesWeak == {[lossy |-> TRUE, order |-> "release"]}
=============================================================================
