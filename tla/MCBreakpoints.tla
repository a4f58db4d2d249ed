--------------------------- MODULE MCBreakpoints ---------------------------
(* Instances of Breakpoints for TLC. *)
EXTENDS Breakpoints

(* Two landing sites, guarded and not, are enough to overlap breakpoints.   *)
MCPortSets == {{}, {1}, {1, 2}}
=============================================================================
