---------------------------- MODULE Breakpoints ----------------------------
(***************************************************************************)
(* What is armed, and the tiers that make asking cheap: breakpoints.rs and *)
(* bitmap.rs of rkw-debug.  The same fact is kept three times, as an armed *)
(* flag, a bitmap and a table, and every operation has to leave the three  *)
(* agreeing.                                                               *)
(*                                                                         *)
(* A bitmap is the set of addresses whose bit is set.  A port watch's mask *)
(* and value are the set of ports they match.  The Vec of port watches is  *)
(* a table by id, whose order is that of the ids: pushes take rising ids   *)
(* and removal keeps the order.  `on_change_only` is left out: nothing in  *)
(* the program sets it.                                                    *)
(***************************************************************************)
EXTENDS Naturals

CONSTANTS
    Addr,       \* addresses
    SP,         \* values of the stack pointer
    Port,       \* ports
    PortSets,   \* the sets of ports a mask and a value can name
    MaxId,      \* bound: ids handed out
    MaxHits,    \* bound: hits counted per breakpoint or watch
    MaxIgnore   \* bound: ignore counts asked for

ASSUME BreakpointsAssumption ==
    /\ SP \subseteq Nat
    /\ PortSets \subseteq SUBSET Port
    /\ MaxId \in Nat /\ MaxHits \in Nat /\ MaxIgnore \in Nat

VARIABLES
    exec, exec_bits, exec_armed,                  \* execution breakpoints, by address
    temporaries,                                  \* the debugger's own landing sites
    watches, read_bits, write_bits, mem_armed,    \* memory watches, by address
    ports, port_bits, port_armed,                 \* port watches, by id
    next_id

execVars == <<exec, exec_bits, exec_armed>>
watchVars == <<watches, read_bits, write_bits, mem_armed>>
portVars == <<ports, port_bits, port_armed>>
vars == <<execVars, temporaries, watchVars, portVars, next_id>>

Id == 1 .. MaxId
Breakpoint == [id : Id, enabled : BOOLEAN, conditional : BOOLEAN,
               hits : Nat, ignore : Nat]
Temporary == [addr : Addr, floor : SP]   \* floor 0 is no guard: sp >= 0 always
Watchpoint == [id : Id, enabled : BOOLEAN, on_read : BOOLEAN, on_write : BOOLEAN,
               hits : Nat]
PortWatch == [match : PortSets, enabled : BOOLEAN, on_in : BOOLEAN, on_out : BOOLEAN,
              hits : Nat]

(* Tables as functions over what they hold. *)
With(table, key, entry) ==
    [k \in DOMAIN table \cup {key} |-> IF k = key THEN entry ELSE table[k]]
Without(table, key) == [k \in DOMAIN table \ {key} |-> table[k]]
Empty == [k \in {} |-> k]

SetBit(bits, a, on) == IF on THEN bits \cup {a} ELSE bits \ {a}

EnabledAt(table) == {k \in DOMAIN table : table[k].enabled}
TempAddrs(ts) == {t.addr : t \in ts}
ReadAt(table) == {k \in EnabledAt(table) : table[k].on_read}
WriteAt(table) == {k \in EnabledAt(table) : table[k].on_write}
Live(table) == {k \in EnabledAt(table) : table[k].on_in \/ table[k].on_out}

Init ==
    /\ exec = Empty /\ exec_bits = {} /\ exec_armed = FALSE
    /\ temporaries = {}
    /\ watches = Empty /\ read_bits = {} /\ write_bits = {} /\ mem_armed = FALSE
    /\ ports = Empty /\ port_bits = {} /\ port_armed = FALSE
    /\ next_id = 1

(* The definitions named after what they get wrong are the mistakes the     *)
(* properties below are shown to notice; nothing else uses them.            *)

TakeId == next_id \in Id /\ next_id' = next_id + 1

-----------------------------------------------------------------------------
(* Execution breakpoints. *)

RearmExec(a) ==
    /\ exec_bits' = SetBit(exec_bits, a, a \in EnabledAt(exec') \cup TempAddrs(temporaries'))
    /\ exec_armed' = (EnabledAt(exec') # {} \/ temporaries' # {})

InsertExec(a, c) ==
    /\ a \notin DOMAIN exec
    /\ TakeId
    /\ exec' = With(exec, a, [id |-> next_id, enabled |-> TRUE, conditional |-> c,
                              hits |-> 0, ignore |-> 0])
    /\ UNCHANGED <<temporaries, watchVars, portVars>>
    /\ RearmExec(a)

Edit(a, bp) ==
    /\ exec' = With(exec, a, bp)
    /\ UNCHANGED <<temporaries, watchVars, portVars, next_id>>
    /\ RearmExec(a)

(* One breakpoint per address: where there is one already, its id is the    *)
(* answer and nothing changes.                                              *)
AddExec(a) == InsertExec(a, FALSE)

(* The shell's break: add_exec, then set_condition on what it returned.     *)
ArmBreak(a, c) ==
    \/ InsertExec(a, c)
    \/ a \in DOMAIN exec /\ Edit(a, [exec[a] EXCEPT !.conditional = c])

SetEnabled(a, on) == a \in DOMAIN exec /\ Edit(a, [exec[a] EXCEPT !.enabled = on])
SetIgnore(a, n) == a \in DOMAIN exec /\ Edit(a, [exec[a] EXCEPT !.ignore = n])

RemoveExec(a) ==
    /\ a \in DOMAIN exec
    /\ exec' = Without(exec, a)
    /\ UNCHANGED <<temporaries, watchVars, portVars, next_id>>
    /\ RearmExec(a)

(* Tiers 1 and 2. *)
ExecMaybe(pc) == exec_armed /\ pc \in exec_bits

FiredTemporary(pc, sp) == \E t \in temporaries : t.addr = pc /\ sp >= t.floor

(* Tier 3: the hit that counts.  The condition is asked before the hit is   *)
(* counted, and an ignore count is spent before the breakpoint stops.       *)
Qualifies(pc, holds) ==
    /\ ExecMaybe(pc)
    /\ pc \in EnabledAt(exec)
    /\ exec[pc].conditional => holds

FiredExec(pc, holds) ==
    /\ Qualifies(pc, holds)
    /\ exec[pc].hits < MaxHits
    /\ exec' = [exec EXCEPT ![pc].hits = @ + 1,
                            ![pc].ignore = IF @ > 0 THEN @ - 1 ELSE @]
    /\ UNCHANGED <<exec_bits, exec_armed, temporaries, watchVars, portVars, next_id>>

-----------------------------------------------------------------------------
(* The debugger's own landing sites. *)

AddTemporary(t) ==
    /\ temporaries' = temporaries \cup {t}
    /\ exec_bits' = exec_bits \cup {t.addr}
    /\ exec_armed' = TRUE
    /\ UNCHANGED <<exec, watchVars, portVars, next_id>>

ClearTemporariesBlindly ==
    /\ temporaries' = {}
    /\ exec_bits' = exec_bits \ TempAddrs(temporaries)
    /\ exec_armed' = (exec_bits' # {})
    /\ UNCHANGED <<exec, watchVars, portVars, next_id>>

(* Pop and rearm, one at a time, to the end: each address loses its bit     *)
(* unless a user breakpoint keeps it.  With none armed nothing is touched.  *)
ClearTemporaries ==
    /\ temporaries' = {}
    /\ exec_bits' = (exec_bits \ TempAddrs(temporaries))
                       \cup (TempAddrs(temporaries) \cap EnabledAt(exec))
    /\ exec_armed' = IF temporaries = {} THEN exec_armed ELSE EnabledAt(exec) # {}
    /\ UNCHANGED <<exec, watchVars, portVars, next_id>>

-----------------------------------------------------------------------------
(* Memory watches. *)

RearmWatch(a) ==
    /\ read_bits' = SetBit(read_bits, a, a \in ReadAt(watches'))
    /\ write_bits' = SetBit(write_bits, a, a \in WriteAt(watches'))
    /\ mem_armed' = (ReadAt(watches') \cup WriteAt(watches') # {})

(* Watching a watched address changes it in place, and turns it on again. *)
WatchMem(a, r, w) ==
    /\ IF a \in DOMAIN watches
         THEN /\ watches' = [watches EXCEPT ![a].on_read = r, ![a].on_write = w,
                                            ![a].enabled = TRUE]
              /\ UNCHANGED next_id
         ELSE /\ TakeId
              /\ watches' = With(watches, a, [id |-> next_id, enabled |-> TRUE, on_read |-> r,
                                              on_write |-> w, hits |-> 0])
    /\ UNCHANGED <<execVars, temporaries, portVars>>
    /\ RearmWatch(a)

EditWatch(a, on) ==
    /\ a \in DOMAIN watches
    /\ watches' = [watches EXCEPT ![a].enabled = on]
    /\ UNCHANGED <<execVars, temporaries, portVars, next_id>>
    /\ RearmWatch(a)

RemoveWatch(a) ==
    /\ a \in DOMAIN watches
    /\ watches' = Without(watches, a)
    /\ UNCHANGED <<execVars, temporaries, portVars, next_id>>
    /\ RearmWatch(a)

(* read_maybe or write_maybe, then fired_watch. *)
FiredWatch(a, reading) ==
    /\ mem_armed /\ a \in IF reading THEN read_bits ELSE write_bits
    /\ a \in IF reading THEN ReadAt(watches) ELSE WriteAt(watches)
    /\ watches[a].hits < MaxHits
    /\ watches' = [watches EXCEPT ![a].hits = @ + 1]
    /\ UNCHANGED <<execVars, temporaries, read_bits, write_bits, mem_armed, portVars, next_id>>

-----------------------------------------------------------------------------
(* Port watches. *)

RearmPorts ==
    /\ port_bits' = UNION {ports'[i].match : i \in Live(ports')}
    /\ port_armed' = (Live(ports') # {})

WatchPort(match, i, o) ==
    /\ TakeId
    /\ ports' = With(ports, next_id, [match |-> match, enabled |-> TRUE, on_in |-> i,
                                      on_out |-> o, hits |-> 0])
    /\ UNCHANGED <<execVars, temporaries, watchVars>>
    /\ RearmPorts

EditPortWatch(id, on) ==
    /\ id \in DOMAIN ports
    /\ ports' = [ports EXCEPT ![id].enabled = on]
    /\ UNCHANGED <<execVars, temporaries, watchVars, next_id>>
    /\ RearmPorts

RemovePort(id) ==
    /\ id \in DOMAIN ports
    /\ ports' = Without(ports, id)
    /\ UNCHANGED <<execVars, temporaries, watchVars, next_id>>
    /\ RearmPorts

(* port_maybe, then fired_port: the first watch in the list that wants it. *)
Wanting(p, out) ==
    {i \in EnabledAt(ports) : p \in ports[i].match
                              /\ IF out THEN ports[i].on_out ELSE ports[i].on_in}
FiredPort(p, out) ==
    /\ port_armed /\ p \in port_bits
    /\ \E i \in Wanting(p, out) :
         /\ \A j \in Wanting(p, out) : i <= j
         /\ ports[i].hits < MaxHits
         /\ ports' = [ports EXCEPT ![i].hits = @ + 1]
    /\ UNCHANGED <<execVars, temporaries, watchVars, port_bits, port_armed, next_id>>

-----------------------------------------------------------------------------
(* delete with no ids, and ClearAll: all the user's, and nothing of a step  *)
(* in flight.                                                               *)
Clear ==
    /\ exec' = Empty /\ watches' = Empty /\ ports' = Empty
    /\ exec_bits' = TempAddrs(temporaries)
    /\ exec_armed' = (temporaries # {})
    /\ read_bits' = {} /\ write_bits' = {} /\ port_bits' = {}
    /\ mem_armed' = FALSE /\ port_armed' = FALSE
    /\ UNCHANGED <<temporaries, next_id>>

NextExec ==
    \E a \in Addr :
      \/ AddExec(a) \/ RemoveExec(a)
      \/ \E b \in BOOLEAN : ArmBreak(a, b) \/ SetEnabled(a, b) \/ FiredExec(a, b)
      \/ \E n \in 0 .. MaxIgnore : SetIgnore(a, n)

NextTemporary == ClearTemporaries \/ \E t \in Temporary : AddTemporary(t)

NextWatch ==
    \E a \in Addr :
      \/ RemoveWatch(a)
      \/ \E b \in BOOLEAN : EditWatch(a, b) \/ FiredWatch(a, b)
      \/ \E r, w \in BOOLEAN : WatchMem(a, r, w)

NextPort ==
    \/ \E m \in PortSets, i, o \in BOOLEAN : WatchPort(m, i, o)
    \/ \E id \in Id : RemovePort(id) \/ \E b \in BOOLEAN : EditPortWatch(id, b)
    \/ \E p \in Port, out \in BOOLEAN : FiredPort(p, out)

Next == NextExec \/ NextTemporary \/ NextWatch \/ NextPort \/ Clear

Spec == Init /\ [][Next]_vars

-----------------------------------------------------------------------------
IsTable(f, keys, entries) ==
    /\ DOMAIN f \subseteq keys
    /\ f = [k \in DOMAIN f |-> f[k]]
    /\ \A k \in DOMAIN f : f[k] \in entries

TypeOK ==
    /\ IsTable(exec, Addr, Breakpoint)
    /\ exec_bits \in SUBSET Addr /\ exec_armed \in BOOLEAN
    /\ temporaries \in SUBSET Temporary
    /\ IsTable(watches, Addr, Watchpoint)
    /\ read_bits \in SUBSET Addr /\ write_bits \in SUBSET Addr /\ mem_armed \in BOOLEAN
    /\ IsTable(ports, Id, PortWatch)
    /\ port_bits \in SUBSET Port /\ port_armed \in BOOLEAN
    /\ next_id \in 1 .. MaxId + 1

(* The flag, the bitmap and the table of execution breakpoints say the same *)
(* thing: an address is armed exactly when an enabled breakpoint of the     *)
(* user's or a landing site of the debugger's is on it, so no stop is       *)
(* missed and nothing unarmed is ever looked up.                            *)
ExecTiersAgree ==
    /\ exec_bits = EnabledAt(exec) \cup TempAddrs(temporaries)
    /\ exec_armed = (exec_bits # {})

(* The same of the two bitmaps and the one flag of the memory watches. *)
WatchTiersAgree ==
    /\ read_bits = ReadAt(watches) /\ write_bits = WriteAt(watches)
    /\ mem_armed = (read_bits \cup write_bits # {})

(* The same of the ports, where the flag may be set by a watch whose value  *)
(* has bits its mask does not and so matches no port.                       *)
PortTiersAgree ==
    /\ port_bits = UNION {ports[i].match : i \in Live(ports)}
    /\ port_armed = (Live(ports) # {})

(* No breakpoint, watchpoint or port watch that is armed is missed because  *)
(* a flag or a bitmap, asked on every instruction and every access, says    *)
(* there is nothing there, and none that was disarmed, spent or deleted is  *)
(* left behind in them.                                                     *)
TiersAgree == ExecTiersAgree /\ WatchTiersAgree /\ PortTiersAgree

(* An id names one thing in all three tables, for good: delete takes ids    *)
(* and does not say which table they are of.                                *)
IdsUnique ==
    /\ \A a, b \in DOMAIN exec : exec[a].id = exec[b].id => a = b
    /\ \A a, b \in DOMAIN watches : watches[a].id = watches[b].id => a = b
    /\ \A a \in DOMAIN exec, b \in DOMAIN watches : exec[a].id # watches[b].id
    /\ \A a \in DOMAIN exec : exec[a].id < next_id /\ exec[a].id \notin DOMAIN ports
    /\ \A a \in DOMAIN watches : watches[a].id < next_id /\ watches[a].id \notin DOMAIN ports
    /\ \A i \in DOMAIN ports : i < next_id
=============================================================================
