----------------------------- MODULE MCStepping -----------------------------
(* A program for Stepping: a loop that calls a recursive routine, the shape  *)
(* of the stepping test's, with a repeat and a halt in its way.              *)
EXTENDS Stepping, TLC

I(op, to, maybe) == [op |-> op, to |-> to, maybe |-> maybe]

MCProg == 0 :> I("call", 4, FALSE) @@ 1 :> I("repeat", 1, TRUE)
       @@ 2 :> I("jump", 0, TRUE) @@ 3 :> I("halt", 3, FALSE)
       @@ 4 :> I("call", 4, TRUE) @@ 5 :> I("ret", 5, FALSE)

\* With the call in the loop made to the instruction after it: the step-over
\* of it takes it for one that was not taken, and ends inside.
MCCallsOn == [MCProg EXCEPT ![0].to = 1]
=============================================================================
