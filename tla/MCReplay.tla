------------------------------- MODULE MCReplay -------------------------------
(* A program for Replay: it loads the byte, repeats on it, branches on what  *)
(* an input or an interrupt made of it, and takes uneven times about it.     *)
EXTENDS Replay, TLC

I(op, to, time) == [op |-> op, to |-> to, time |-> time]

MCProg == 0 :> I("branch", 3, 4) @@ 1 :> I("load", 2, 7) @@ 2 :> I("repeat", 2, 5)
       @@ 3 :> I("load", 1, 6) @@ 4 :> I("jump", 0, 4)
=============================================================================
