--------------------------- MODULE SteppingProofs ---------------------------
(***************************************************************************)
(* The tables and what moves by them.  For every set of addresses, ports   *)
(* and ids: the table types, the three tiers' agreement and the uniqueness *)
(* of ids hold in every state of Breakpoints; the agreement is inductive   *)
(* on its own, because every operation recomputes what it touches and      *)
(* leaves every other address as it was.  For every program, stack and set *)
(* of breakpoints: the tiers agree at every stop and in the middle of      *)
(* every movement, no run goes past a breakpoint it has asked about, no    *)
(* landing site outlives the movement it was armed for, and a step over or *)
(* out ends in the frame it should.                                        *)
(***************************************************************************)
EXTENDS Stepping, TLAPS

-----------------------------------------------------------------------------
(* The tiers. *)

(* Changing the table at one address and rearming that address is enough:  *)
(* what every edit of an execution breakpoint relies on.                   *)
LEMMA RearmExecAgrees ==
    ASSUME NEW a, ExecTiersAgree, RearmExec(a), temporaries' = temporaries,
           EnabledAt(exec') \ {a} = EnabledAt(exec) \ {a}
    PROVE  ExecTiersAgree'
  <1>1. exec_bits' = EnabledAt(exec') \cup TempAddrs(temporaries')
    BY DEF ExecTiersAgree, RearmExec, SetBit
  <1>2. exec_armed' = (exec_bits' # {})
    BY <1>1 DEF RearmExec, TempAddrs
  <1> QED BY <1>1, <1>2 DEF ExecTiersAgree

(* The same of the memory watches. *)
LEMMA RearmWatchAgrees ==
    ASSUME NEW a, WatchTiersAgree, RearmWatch(a),
           ReadAt(watches') \ {a} = ReadAt(watches) \ {a},
           WriteAt(watches') \ {a} = WriteAt(watches) \ {a}
    PROVE  WatchTiersAgree'
  BY DEF WatchTiersAgree, RearmWatch, SetBit

(* The ports' bitmap is rebuilt whole, so it agrees whatever changed. *)
LEMMA RearmPortsAgrees == RearmPorts => PortTiersAgree'
  BY DEF RearmPorts, PortTiersAgree

(* A table changed at one key selects the same other keys. *)
LEMMA WithElsewhere ==
    ASSUME NEW f, NEW k, NEW e
    PROVE  /\ EnabledAt(With(f, k, e)) \ {k} = EnabledAt(f) \ {k}
           /\ ReadAt(With(f, k, e)) \ {k} = ReadAt(f) \ {k}
           /\ WriteAt(With(f, k, e)) \ {k} = WriteAt(f) \ {k}
           /\ EnabledAt(Without(f, k)) \ {k} = EnabledAt(f) \ {k}
           /\ ReadAt(Without(f, k)) \ {k} = ReadAt(f) \ {k}
           /\ WriteAt(Without(f, k)) \ {k} = WriteAt(f) \ {k}
  BY DEF With, Without, EnabledAt, ReadAt, WriteAt

LEMMA InitTiers == Init => TiersAgree
  BY DEF Init, TiersAgree, ExecTiersAgree, WatchTiersAgree, PortTiersAgree,
         Empty, EnabledAt, ReadAt, WriteAt, Live, TempAddrs

LEMMA ExecUnchanged == ExecTiersAgree /\ UNCHANGED <<execVars, temporaries>> => ExecTiersAgree'
  BY DEF ExecTiersAgree, execVars, EnabledAt, TempAddrs

LEMMA WatchUnchanged == WatchTiersAgree /\ UNCHANGED watchVars => WatchTiersAgree'
  BY DEF WatchTiersAgree, watchVars, EnabledAt, ReadAt, WriteAt

LEMMA PortUnchanged == PortTiersAgree /\ UNCHANGED portVars => PortTiersAgree'
  BY DEF PortTiersAgree, portVars, EnabledAt, Live

LEMMA InsertExecTiers ==
    ASSUME TiersAgree, NEW a, NEW c, InsertExec(a, c)
    PROVE  TiersAgree'
  <1>1. EnabledAt(exec') \ {a} = EnabledAt(exec) \ {a}
    BY WithElsewhere DEF InsertExec
  <1>2. ExecTiersAgree'
    BY <1>1, RearmExecAgrees DEF InsertExec, TiersAgree
  <1> QED BY <1>2, WatchUnchanged, PortUnchanged DEF InsertExec, TiersAgree

LEMMA EditTiers ==
    ASSUME TiersAgree, NEW a, NEW bp, Edit(a, bp)
    PROVE  TiersAgree'
  <1>1. EnabledAt(exec') \ {a} = EnabledAt(exec) \ {a}
    BY WithElsewhere DEF Edit
  <1>2. ExecTiersAgree'
    BY <1>1, RearmExecAgrees DEF Edit, TiersAgree
  <1> QED BY <1>2, WatchUnchanged, PortUnchanged DEF Edit, TiersAgree

LEMMA RemoveExecTiers ==
    ASSUME TiersAgree, NEW a, RemoveExec(a)
    PROVE  TiersAgree'
  <1>1. EnabledAt(exec') \ {a} = EnabledAt(exec) \ {a}
    BY WithElsewhere DEF RemoveExec
  <1>2. ExecTiersAgree'
    BY <1>1, RearmExecAgrees DEF RemoveExec, TiersAgree
  <1> QED BY <1>2, WatchUnchanged, PortUnchanged DEF RemoveExec, TiersAgree

LEMMA FiredExecTiers ==
    ASSUME TiersAgree, NEW a, NEW c, FiredExec(a, c)
    PROVE  TiersAgree'
  <1>1. EnabledAt(exec') = EnabledAt(exec)
    BY DEF FiredExec, EnabledAt, Qualifies
  <1>2. ExecTiersAgree'
    BY <1>1 DEF FiredExec, TiersAgree, ExecTiersAgree
  <1> QED BY <1>2, WatchUnchanged, PortUnchanged DEF FiredExec, TiersAgree

LEMMA TemporaryTiers ==
    ASSUME TiersAgree, NextTemporary
    PROVE  TiersAgree'
  <1>1. CASE ClearTemporaries
    <2>1. exec_bits' = EnabledAt(exec') \cup TempAddrs(temporaries')
      BY <1>1 DEF ClearTemporaries, TiersAgree, ExecTiersAgree, TempAddrs
    <2>2. exec_armed' = (exec_bits' # {})
      BY <1>1, <2>1 DEF ClearTemporaries, TiersAgree, ExecTiersAgree, TempAddrs
    <2> QED BY <1>1, <2>1, <2>2, WatchUnchanged, PortUnchanged
            DEF ClearTemporaries, TiersAgree, ExecTiersAgree
  <1>2. ASSUME NEW t \in Temporary, AddTemporary(t) PROVE TiersAgree'
    <2>1. TempAddrs(temporaries') = TempAddrs(temporaries) \cup {t.addr}
      BY <1>2 DEF AddTemporary, TempAddrs
    <2>2. ExecTiersAgree'
      BY <1>2, <2>1 DEF AddTemporary, TiersAgree, ExecTiersAgree
    <2> QED BY <1>2, <2>2, WatchUnchanged, PortUnchanged DEF AddTemporary, TiersAgree
  <1> QED BY <1>1, <1>2 DEF NextTemporary

LEMMA WatchTiers ==
    ASSUME TiersAgree, NextWatch
    PROVE  TiersAgree'
  <1> PICK a \in Addr :
        \/ RemoveWatch(a)
        \/ \E b \in BOOLEAN : EditWatch(a, b) \/ FiredWatch(a, b)
        \/ \E r, w \in BOOLEAN : WatchMem(a, r, w)
    BY DEF NextWatch
  <1>1. CASE RemoveWatch(a)
    <2>1. WatchTiersAgree'
      BY <1>1, WithElsewhere, RearmWatchAgrees DEF RemoveWatch, TiersAgree
    <2> QED BY <1>1, <2>1, ExecUnchanged, PortUnchanged DEF RemoveWatch, TiersAgree
  <1>2. ASSUME NEW b \in BOOLEAN, EditWatch(a, b) PROVE TiersAgree'
    <2>1. /\ ReadAt(watches') \ {a} = ReadAt(watches) \ {a}
          /\ WriteAt(watches') \ {a} = WriteAt(watches) \ {a}
      BY <1>2 DEF EditWatch, ReadAt, WriteAt, EnabledAt
    <2>2. WatchTiersAgree'
      BY <1>2, <2>1, RearmWatchAgrees DEF EditWatch, TiersAgree
    <2> QED BY <1>2, <2>2, ExecUnchanged, PortUnchanged DEF EditWatch, TiersAgree
  <1>3. ASSUME NEW b \in BOOLEAN, FiredWatch(a, b) PROVE TiersAgree'
    <2>1. ReadAt(watches') = ReadAt(watches) /\ WriteAt(watches') = WriteAt(watches)
      BY <1>3 DEF FiredWatch, ReadAt, WriteAt, EnabledAt
    <2>2. WatchTiersAgree'
      BY <1>3, <2>1 DEF FiredWatch, TiersAgree, WatchTiersAgree
    <2> QED BY <1>3, <2>2, ExecUnchanged, PortUnchanged DEF FiredWatch, TiersAgree
  <1>4. ASSUME NEW r \in BOOLEAN, NEW w \in BOOLEAN, WatchMem(a, r, w) PROVE TiersAgree'
    <2>1. /\ ReadAt(watches') \ {a} = ReadAt(watches) \ {a}
          /\ WriteAt(watches') \ {a} = WriteAt(watches) \ {a}
      <3>1. CASE a \in DOMAIN watches
        BY <1>4, <3>1 DEF WatchMem, ReadAt, WriteAt, EnabledAt
      <3>2. CASE a \notin DOMAIN watches
        BY <1>4, <3>2, WithElsewhere DEF WatchMem
      <3> QED BY <3>1, <3>2
    <2>2. WatchTiersAgree'
      BY <1>4, <2>1, RearmWatchAgrees DEF WatchMem, TiersAgree
    <2> QED BY <1>4, <2>2, ExecUnchanged, PortUnchanged DEF WatchMem, TiersAgree
  <1> QED BY <1>1, <1>2, <1>3, <1>4

LEMMA PortTiers ==
    ASSUME TiersAgree, NextPort
    PROVE  TiersAgree'
  <1>1. ASSUME NEW m \in PortSets, NEW i \in BOOLEAN, NEW o \in BOOLEAN, WatchPort(m, i, o)
        PROVE  TiersAgree'
    BY <1>1, RearmPortsAgrees, ExecUnchanged, WatchUnchanged DEF WatchPort, TiersAgree
  <1>2. ASSUME NEW id \in Id, RemovePort(id) PROVE TiersAgree'
    BY <1>2, RearmPortsAgrees, ExecUnchanged, WatchUnchanged DEF RemovePort, TiersAgree
  <1>3. ASSUME NEW id \in Id, NEW b \in BOOLEAN, EditPortWatch(id, b) PROVE TiersAgree'
    BY <1>3, RearmPortsAgrees, ExecUnchanged, WatchUnchanged DEF EditPortWatch, TiersAgree
  <1>4. ASSUME NEW p \in Port, NEW out \in BOOLEAN, FiredPort(p, out) PROVE TiersAgree'
    <2>1. PICK i \in Wanting(p, out) : ports' = [ports EXCEPT ![i].hits = @ + 1]
      BY <1>4 DEF FiredPort
    <2>2. Live(ports') = Live(ports)
      BY <2>1 DEF Live, EnabledAt
    <2>3. \A j \in Live(ports) : ports'[j].match = ports[j].match
      BY <2>1 DEF Live, EnabledAt
    <2>4. {ports'[j].match : j \in Live(ports')} = {ports[j].match : j \in Live(ports)}
      BY <2>2, <2>3
    <2>5. PortTiersAgree'
      BY <1>4, <2>2, <2>4 DEF FiredPort, TiersAgree, PortTiersAgree
    <2> QED BY <1>4, <2>5, ExecUnchanged, WatchUnchanged DEF FiredPort, TiersAgree
  <1> QED BY <1>1, <1>2, <1>3, <1>4 DEF NextPort

LEMMA ClearTiers ==
    ASSUME TiersAgree, Clear
    PROVE  TiersAgree'
  BY DEF Clear, TiersAgree, ExecTiersAgree, WatchTiersAgree, PortTiersAgree,
         Empty, EnabledAt, ReadAt, WriteAt, Live, TempAddrs

(* Every operation leaves the three tiers agreeing. *)
LEMMA NextTiers == TiersAgree /\ [Next]_vars => TiersAgree'
  <1> SUFFICES ASSUME TiersAgree, [Next]_vars PROVE TiersAgree'
    OBVIOUS
  <1>1. CASE NextExec
    <2> PICK a \in Addr :
          \/ AddExec(a) \/ RemoveExec(a)
          \/ \E b \in BOOLEAN : ArmBreak(a, b) \/ SetEnabled(a, b) \/ FiredExec(a, b)
          \/ \E n \in 0 .. MaxIgnore : SetIgnore(a, n)
      BY <1>1 DEF NextExec
    <2>1. CASE AddExec(a) BY <2>1, InsertExecTiers DEF AddExec
    <2>2. CASE RemoveExec(a) BY <2>2, RemoveExecTiers
    <2>3. ASSUME NEW b \in BOOLEAN, ArmBreak(a, b) PROVE TiersAgree'
      BY <2>3, InsertExecTiers, EditTiers DEF ArmBreak
    <2>4. ASSUME NEW b \in BOOLEAN, SetEnabled(a, b) PROVE TiersAgree'
      BY <2>4, EditTiers DEF SetEnabled
    <2>5. ASSUME NEW b \in BOOLEAN, FiredExec(a, b) PROVE TiersAgree'
      BY <2>5, FiredExecTiers
    <2>6. ASSUME NEW n \in 0 .. MaxIgnore, SetIgnore(a, n) PROVE TiersAgree'
      BY <2>6, EditTiers DEF SetIgnore
    <2> QED BY <2>1, <2>2, <2>3, <2>4, <2>5, <2>6
  <1>2. CASE NextTemporary BY <1>2, TemporaryTiers
  <1>3. CASE NextWatch BY <1>3, WatchTiers
  <1>4. CASE NextPort BY <1>4, PortTiers
  <1>5. CASE Clear BY <1>5, ClearTiers
  <1>6. CASE UNCHANGED vars
    BY <1>6, ExecUnchanged, WatchUnchanged, PortUnchanged DEF vars, TiersAgree
  <1> QED BY <1>1, <1>2, <1>3, <1>4, <1>5, <1>6 DEF Next

(* The flag, the bitmap and the table of execution breakpoints, of memory   *)
(* watches and of port watches agree in every reachable state: no stop the  *)
(* user armed is missed because a cheap tier said there was nothing there.  *)
THEOREM TiersAlwaysAgree == Spec => []TiersAgree
  BY InitTiers, NextTiers, PTL DEF Spec

-----------------------------------------------------------------------------
(* The types. *)

LEMMA WithTable ==
    ASSUME NEW K, NEW E, NEW f, IsTable(f, K, E), NEW k \in K, NEW e \in E
    PROVE  IsTable(With(f, k, e), K, E)
  BY DEF IsTable, With

LEMMA WithoutTable ==
    ASSUME NEW K, NEW E, NEW f, IsTable(f, K, E), NEW k
    PROVE  IsTable(Without(f, k), K, E)
  BY DEF IsTable, Without

LEMMA ExceptTable ==
    ASSUME NEW K, NEW E, NEW f, IsTable(f, K, E), NEW k \in DOMAIN f, NEW e \in E
    PROVE  IsTable([f EXCEPT ![k] = e], K, E)
  BY DEF IsTable

LEMMA EmptyTable == ASSUME NEW K, NEW E PROVE IsTable(Empty, K, E)
  BY DEF IsTable, Empty

LEMMA TakeIdType ==
    ASSUME TypeOK, TakeId
    PROVE  next_id \in Id /\ next_id' \in 1 .. MaxId + 1
  BY BreakpointsAssumption DEF TypeOK, TakeId, Id

LEMMA InitType == Init => TypeOK
  <1>1. /\ IsTable(Empty, Addr, Breakpoint) /\ IsTable(Empty, Addr, Watchpoint)
        /\ IsTable(Empty, Id, PortWatch)
    BY EmptyTable
  <1>2. 1 \in 1 .. MaxId + 1
    BY BreakpointsAssumption
  <1> QED BY <1>1, <1>2 DEF Init, TypeOK

LEMMA RearmExecType ==
    ASSUME TypeOK, NEW a \in Addr, RearmExec(a)
    PROVE  exec_bits' \in SUBSET Addr /\ exec_armed' \in BOOLEAN
  BY DEF TypeOK, RearmExec, SetBit

LEMMA RearmWatchType ==
    ASSUME TypeOK, NEW a \in Addr, RearmWatch(a)
    PROVE  /\ read_bits' \in SUBSET Addr /\ write_bits' \in SUBSET Addr
           /\ mem_armed' \in BOOLEAN
  BY DEF TypeOK, RearmWatch, SetBit

LEMMA RearmPortsType ==
    ASSUME IsTable(ports', Id, PortWatch), RearmPorts
    PROVE  port_bits' \in SUBSET Port /\ port_armed' \in BOOLEAN
  <1>1. \A i \in Live(ports') : ports'[i].match \in PortSets
    BY DEF IsTable, Live, EnabledAt, PortWatch
  <1> QED BY <1>1, BreakpointsAssumption DEF RearmPorts

LEMMA NextExecType ==
    ASSUME TypeOK, NextExec
    PROVE  TypeOK'
  <1> PICK a \in Addr :
        \/ AddExec(a) \/ RemoveExec(a)
        \/ \E b \in BOOLEAN : ArmBreak(a, b) \/ SetEnabled(a, b) \/ FiredExec(a, b)
        \/ \E n \in 0 .. MaxIgnore : SetIgnore(a, n)
    BY DEF NextExec
  <1>1. ASSUME NEW c \in BOOLEAN, InsertExec(a, c) PROVE TypeOK'
    <2>1. [id |-> next_id, enabled |-> TRUE, conditional |-> c, hits |-> 0, ignore |-> 0]
            \in Breakpoint
      BY <1>1, TakeIdType DEF InsertExec, Breakpoint
    <2>2. IsTable(exec', Addr, Breakpoint)
      BY <1>1, <2>1, WithTable DEF InsertExec, TypeOK
    <2> QED BY <1>1, <2>2, TakeIdType, RearmExecType
            DEF InsertExec, TypeOK, watchVars, portVars
  <1>2. ASSUME NEW bp \in Breakpoint, Edit(a, bp) PROVE TypeOK'
    <2>1. IsTable(exec', Addr, Breakpoint)
      BY <1>2, WithTable DEF Edit, TypeOK
    <2> QED BY <1>2, <2>1, RearmExecType DEF Edit, TypeOK, watchVars, portVars
  <1>3. CASE RemoveExec(a)
    <2>1. IsTable(exec', Addr, Breakpoint)
      BY <1>3, WithoutTable DEF RemoveExec, TypeOK
    <2> QED BY <1>3, <2>1, RearmExecType DEF RemoveExec, TypeOK, watchVars, portVars
  <1>4. a \in DOMAIN exec => exec[a] \in Breakpoint
    BY DEF TypeOK, IsTable
  <1>5. ASSUME NEW b \in BOOLEAN, ArmBreak(a, b) PROVE TypeOK'
    <2>1. a \in DOMAIN exec => [exec[a] EXCEPT !.conditional = b] \in Breakpoint
      BY <1>4 DEF Breakpoint
    <2> QED BY <1>1, <1>2, <1>5, <2>1 DEF ArmBreak
  <1>6. ASSUME NEW b \in BOOLEAN, SetEnabled(a, b) PROVE TypeOK'
    <2>1. a \in DOMAIN exec => [exec[a] EXCEPT !.enabled = b] \in Breakpoint
      BY <1>4 DEF Breakpoint
    <2> QED BY <1>2, <1>6, <2>1 DEF SetEnabled
  <1>7. ASSUME NEW n \in 0 .. MaxIgnore, SetIgnore(a, n) PROVE TypeOK'
    <2>1. a \in DOMAIN exec => [exec[a] EXCEPT !.ignore = n] \in Breakpoint
      BY <1>4, BreakpointsAssumption DEF Breakpoint
    <2> QED BY <1>2, <1>7, <2>1 DEF SetIgnore
  <1>8. ASSUME NEW b \in BOOLEAN, FiredExec(a, b) PROVE TypeOK'
    <2>1. a \in DOMAIN exec
      BY <1>8 DEF FiredExec, Qualifies, EnabledAt
    <2> DEFINE bp == [exec[a] EXCEPT !.hits = @ + 1, !.ignore = IF @ > 0 THEN @ - 1 ELSE @]
    <2>2. bp \in Breakpoint
      <3>1. exec[a].hits + 1 \in Nat
        BY <1>4, <2>1 DEF Breakpoint
      <3>2. (IF exec[a].ignore > 0 THEN exec[a].ignore - 1 ELSE exec[a].ignore) \in Nat
        BY <1>4, <2>1 DEF Breakpoint
      <3> QED BY <1>4, <2>1, <3>1, <3>2 DEF Breakpoint
    <2>3. exec' = [exec EXCEPT ![a] = bp]
      BY <1>8, <1>4, <2>1 DEF FiredExec, Breakpoint
    <2>4. IsTable(exec', Addr, Breakpoint)
      BY <2>1, <2>2, <2>3, ExceptTable DEF TypeOK
    <2> QED BY <1>8, <2>4 DEF FiredExec, TypeOK, watchVars, portVars
  <1> QED BY <1>1, <1>3, <1>5, <1>6, <1>7, <1>8 DEF AddExec

LEMMA NextTemporaryType ==
    ASSUME TypeOK, NextTemporary
    PROVE  TypeOK'
  <1>1. CASE ClearTemporaries
    BY <1>1 DEF ClearTemporaries, TypeOK, TempAddrs, Temporary, watchVars, portVars
  <1>2. ASSUME NEW t \in Temporary, AddTemporary(t) PROVE TypeOK'
    BY <1>2 DEF AddTemporary, TypeOK, Temporary, watchVars, portVars
  <1> QED BY <1>1, <1>2 DEF NextTemporary

LEMMA NextWatchType ==
    ASSUME TypeOK, NextWatch
    PROVE  TypeOK'
  <1> PICK a \in Addr :
        \/ RemoveWatch(a)
        \/ \E b \in BOOLEAN : EditWatch(a, b) \/ FiredWatch(a, b)
        \/ \E r, w \in BOOLEAN : WatchMem(a, r, w)
    BY DEF NextWatch
  <1>0. a \in DOMAIN watches => watches[a] \in Watchpoint
    BY DEF TypeOK, IsTable
  <1>1. CASE RemoveWatch(a)
    <2>1. IsTable(watches', Addr, Watchpoint)
      BY <1>1, WithoutTable DEF RemoveWatch, TypeOK
    <2> QED BY <1>1, <2>1, RearmWatchType DEF RemoveWatch, TypeOK, execVars, portVars
  <1>2. ASSUME NEW b \in BOOLEAN, EditWatch(a, b) PROVE TypeOK'
    <2> DEFINE w == [watches[a] EXCEPT !.enabled = b]
    <2>1. a \in DOMAIN watches
      BY <1>2 DEF EditWatch
    <2>2. w \in Watchpoint /\ watches' = [watches EXCEPT ![a] = w]
      BY <1>0, <1>2 DEF EditWatch, Watchpoint
    <2>3. IsTable(watches', Addr, Watchpoint)
      BY <2>1, <2>2, ExceptTable DEF TypeOK
    <2> QED BY <1>2, <2>3, RearmWatchType DEF EditWatch, TypeOK, execVars, portVars
  <1>3. ASSUME NEW b \in BOOLEAN, FiredWatch(a, b) PROVE TypeOK'
    <2> DEFINE w == [watches[a] EXCEPT !.hits = @ + 1]
    <2>1. a \in DOMAIN watches
      BY <1>3 DEF FiredWatch, ReadAt, WriteAt, EnabledAt
    <2>2. w \in Watchpoint /\ watches' = [watches EXCEPT ![a] = w]
      BY <1>0, <1>3, <2>1 DEF FiredWatch, Watchpoint
    <2>3. IsTable(watches', Addr, Watchpoint)
      BY <2>1, <2>2, ExceptTable DEF TypeOK
    <2> QED BY <1>3, <2>3 DEF FiredWatch, TypeOK, execVars, portVars
  <1>4. ASSUME NEW r \in BOOLEAN, NEW w \in BOOLEAN, WatchMem(a, r, w) PROVE TypeOK'
    <2>1. IsTable(watches', Addr, Watchpoint) /\ next_id' \in 1 .. MaxId + 1
      <3>1. CASE a \in DOMAIN watches
        <4> DEFINE e == [watches[a] EXCEPT !.on_read = r, !.on_write = w, !.enabled = TRUE]
        <4>1. e \in Watchpoint /\ watches' = [watches EXCEPT ![a] = e]
          BY <1>0, <1>4, <3>1 DEF WatchMem, Watchpoint
        <4> QED BY <1>4, <3>1, <4>1, ExceptTable DEF WatchMem, TypeOK
      <3>2. CASE a \notin DOMAIN watches
        <4>1. [id |-> next_id, enabled |-> TRUE, on_read |-> r, on_write |-> w, hits |-> 0]
                \in Watchpoint
          BY <1>4, <3>2, TakeIdType DEF WatchMem, Watchpoint
        <4> QED BY <1>4, <3>2, <4>1, TakeIdType, WithTable DEF WatchMem, TypeOK
      <3> QED BY <3>1, <3>2
    <2> QED BY <1>4, <2>1, RearmWatchType DEF WatchMem, TypeOK, execVars, portVars
  <1> QED BY <1>1, <1>2, <1>3, <1>4

LEMMA NextPortType ==
    ASSUME TypeOK, NextPort
    PROVE  TypeOK'
  <1>0. \A i \in DOMAIN ports : ports[i] \in PortWatch
    BY DEF TypeOK, IsTable
  <1>1. ASSUME NEW m \in PortSets, NEW i \in BOOLEAN, NEW o \in BOOLEAN, WatchPort(m, i, o)
        PROVE  TypeOK'
    <2>1. [match |-> m, enabled |-> TRUE, on_in |-> i, on_out |-> o, hits |-> 0] \in PortWatch
      BY DEF PortWatch
    <2>2. IsTable(ports', Id, PortWatch)
      BY <1>1, <2>1, TakeIdType, WithTable DEF WatchPort, TypeOK
    <2> QED BY <1>1, <2>2, TakeIdType, RearmPortsType DEF WatchPort, TypeOK, execVars, watchVars
  <1>2. ASSUME NEW id \in Id, RemovePort(id) PROVE TypeOK'
    <2>1. IsTable(ports', Id, PortWatch)
      BY <1>2, WithoutTable DEF RemovePort, TypeOK
    <2> QED BY <1>2, <2>1, RearmPortsType DEF RemovePort, TypeOK, execVars, watchVars
  <1>3. ASSUME NEW id \in Id, NEW b \in BOOLEAN, EditPortWatch(id, b) PROVE TypeOK'
    <2> DEFINE e == [ports[id] EXCEPT !.enabled = b]
    <2>1. id \in DOMAIN ports
      BY <1>3 DEF EditPortWatch
    <2>2. e \in PortWatch /\ ports' = [ports EXCEPT ![id] = e]
      BY <1>0, <1>3 DEF EditPortWatch, PortWatch
    <2>3. IsTable(ports', Id, PortWatch)
      BY <2>1, <2>2, ExceptTable DEF TypeOK
    <2> QED BY <1>3, <2>3, RearmPortsType DEF EditPortWatch, TypeOK, execVars, watchVars
  <1>4. ASSUME NEW p \in Port, NEW out \in BOOLEAN, FiredPort(p, out) PROVE TypeOK'
    <2>1. PICK i \in Wanting(p, out) : ports' = [ports EXCEPT ![i].hits = @ + 1]
      BY <1>4 DEF FiredPort
    <2> DEFINE e == [ports[i] EXCEPT !.hits = @ + 1]
    <2>2. i \in DOMAIN ports
      BY DEF Wanting, EnabledAt
    <2>3. e \in PortWatch /\ ports' = [ports EXCEPT ![i] = e]
      BY <1>0, <2>1, <2>2 DEF PortWatch
    <2>4. IsTable(ports', Id, PortWatch)
      BY <2>2, <2>3, ExceptTable DEF TypeOK
    <2> QED BY <1>4, <2>4 DEF FiredPort, TypeOK, execVars, watchVars
  <1> QED BY <1>1, <1>2, <1>3, <1>4 DEF NextPort

LEMMA ClearType == TypeOK /\ Clear => TypeOK'
  <1> SUFFICES ASSUME TypeOK, Clear PROVE TypeOK'
    OBVIOUS
  <1>1. /\ IsTable(exec', Addr, Breakpoint) /\ IsTable(watches', Addr, Watchpoint)
        /\ IsTable(ports', Id, PortWatch)
    BY EmptyTable DEF Clear
  <1>2. exec_bits' \in SUBSET Addr
    BY DEF TypeOK, Clear, TempAddrs, Temporary
  <1>3. /\ read_bits' \in SUBSET Addr /\ write_bits' \in SUBSET Addr
        /\ port_bits' \in SUBSET Port
    BY DEF Clear
  <1>4. exec_armed' \in BOOLEAN /\ mem_armed' \in BOOLEAN /\ port_armed' \in BOOLEAN
    BY DEF Clear
  <1>5. temporaries' \in SUBSET Temporary /\ next_id' \in 1 .. MaxId + 1
    BY DEF TypeOK, Clear
  <1> QED BY <1>1, <1>2, <1>3, <1>4, <1>5 DEF TypeOK

LEMMA NextType == TypeOK /\ [Next]_vars => TypeOK'
  <1> SUFFICES ASSUME TypeOK, [Next]_vars PROVE TypeOK'
    OBVIOUS
  <1>1. CASE UNCHANGED vars
    BY <1>1 DEF vars, execVars, watchVars, portVars, TypeOK
  <1> QED BY <1>1, NextExecType, NextTemporaryType, NextWatchType, NextPortType, ClearType
          DEF Next

(* Every table, bitmap and flag keeps its type, whatever the user does. *)
THEOREM TypeCorrect == Spec => []TypeOK
  BY InitType, NextType, PTL DEF Spec

-----------------------------------------------------------------------------
(* Ids. *)

(* Every id in use, and the table it is used in, only shrinks unless an     *)
(* operation takes the next id: an edit moves no id.                        *)
LEMMA InitIds == Init => IdsUnique
  BY DEF Init, IdsUnique, Empty

(* A fresh id is greater than every one in use, so inserting keeps them     *)
(* apart.                                                                   *)
LEMMA InsertExecIds ==
    ASSUME TypeOK, IdsUnique, NEW a, NEW c, InsertExec(a, c)
    PROVE  IdsUnique'
  <1>1. next_id \in Nat /\ next_id' = next_id + 1
    BY TakeIdType DEF InsertExec, TakeId, Id
  <1>2. /\ \A x \in DOMAIN exec : exec[x].id \in Nat
        /\ \A x \in DOMAIN watches : watches[x].id \in Nat
        /\ \A x \in DOMAIN ports : x \in Nat
    BY DEF TypeOK, IsTable, Breakpoint, Watchpoint, Id
  <1>3. /\ DOMAIN exec' = DOMAIN exec \cup {a}
        /\ exec'[a].id = next_id
        /\ \A x \in DOMAIN exec : exec'[x].id = exec[x].id
    BY DEF InsertExec, With
  <1>4. watches' = watches /\ ports' = ports
    BY DEF InsertExec, watchVars, portVars
  <1> QED BY <1>1, <1>2, <1>3, <1>4 DEF IdsUnique

LEMMA InsertWatchIds ==
    ASSUME TypeOK, IdsUnique, NEW a, NEW r, NEW w, WatchMem(a, r, w), a \notin DOMAIN watches
    PROVE  IdsUnique'
  <1>1. next_id \in Nat /\ next_id' = next_id + 1
    BY TakeIdType DEF WatchMem, TakeId, Id
  <1>2. /\ \A x \in DOMAIN exec : exec[x].id \in Nat
        /\ \A x \in DOMAIN watches : watches[x].id \in Nat
        /\ \A x \in DOMAIN ports : x \in Nat
    BY DEF TypeOK, IsTable, Breakpoint, Watchpoint, Id
  <1>3. /\ DOMAIN watches' = DOMAIN watches \cup {a}
        /\ watches'[a].id = next_id
        /\ \A x \in DOMAIN watches : watches'[x].id = watches[x].id
    BY DEF WatchMem, With
  <1>4. exec' = exec /\ ports' = ports
    BY DEF WatchMem, execVars, portVars
  <1> QED BY <1>1, <1>2, <1>3, <1>4 DEF IdsUnique

LEMMA InsertPortIds ==
    ASSUME TypeOK, IdsUnique, NEW m, NEW i, NEW o, WatchPort(m, i, o)
    PROVE  IdsUnique'
  <1>1. next_id \in Nat /\ next_id' = next_id + 1
    BY TakeIdType DEF WatchPort, TakeId, Id
  <1>2. /\ \A x \in DOMAIN exec : exec[x].id \in Nat
        /\ \A x \in DOMAIN watches : watches[x].id \in Nat
        /\ \A x \in DOMAIN ports : x \in Nat
    BY DEF TypeOK, IsTable, Breakpoint, Watchpoint, Id
  <1>3. DOMAIN ports' = DOMAIN ports \cup {next_id}
    BY DEF WatchPort, With
  <1>4. exec' = exec /\ watches' = watches
    BY DEF WatchPort, execVars, watchVars
  <1> QED BY <1>1, <1>2, <1>3, <1>4 DEF IdsUnique

(* An operation that takes no id moves none: each table's ids are among     *)
(* those it had, at the same keys.                                          *)
LEMMA KeepIds ==
    ASSUME IdsUnique, next_id' = next_id,
           DOMAIN exec' \subseteq DOMAIN exec,
           \A x \in DOMAIN exec' : exec'[x].id = exec[x].id,
           DOMAIN watches' \subseteq DOMAIN watches,
           \A x \in DOMAIN watches' : watches'[x].id = watches[x].id,
           DOMAIN ports' \subseteq DOMAIN ports
    PROVE  IdsUnique'
  BY DEF IdsUnique

LEMMA EditIds ==
    ASSUME IdsUnique, NEW a \in DOMAIN exec, NEW bp, bp.id = exec[a].id, Edit(a, bp)
    PROVE  IdsUnique'
  <1>1. DOMAIN exec' = DOMAIN exec /\ \A x \in DOMAIN exec' : exec'[x].id = exec[x].id
    BY DEF Edit, With
  <1> QED BY <1>1, KeepIds DEF Edit, watchVars, portVars

LEMMA NextExecIds ==
    ASSUME TypeOK, IdsUnique, NextExec
    PROVE  IdsUnique'
  <1> PICK a \in Addr :
        \/ AddExec(a) \/ RemoveExec(a)
        \/ \E b \in BOOLEAN : ArmBreak(a, b) \/ SetEnabled(a, b) \/ FiredExec(a, b)
        \/ \E n \in 0 .. MaxIgnore : SetIgnore(a, n)
    BY DEF NextExec
  <1>0. a \in DOMAIN exec => exec[a] \in Breakpoint
    BY DEF TypeOK, IsTable
  <1>1. CASE AddExec(a)
    BY <1>1, InsertExecIds DEF AddExec
  <1>2. CASE RemoveExec(a)
    <2>1. DOMAIN exec' \subseteq DOMAIN exec /\ \A x \in DOMAIN exec' : exec'[x] = exec[x]
      BY <1>2 DEF RemoveExec, Without
    <2> QED BY <1>2, <2>1, KeepIds DEF RemoveExec, watchVars, portVars
  <1>3. ASSUME NEW b \in BOOLEAN, ArmBreak(a, b) PROVE IdsUnique'
    <2>1. a \in DOMAIN exec => [exec[a] EXCEPT !.conditional = b].id = exec[a].id
      BY <1>0 DEF Breakpoint
    <2> QED BY <1>3, <2>1, InsertExecIds, EditIds DEF ArmBreak
  <1>4. ASSUME NEW b \in BOOLEAN, SetEnabled(a, b) PROVE IdsUnique'
    <2>1. a \in DOMAIN exec => [exec[a] EXCEPT !.enabled = b].id = exec[a].id
      BY <1>0 DEF Breakpoint
    <2> QED BY <1>4, <2>1, EditIds DEF SetEnabled
  <1>5. ASSUME NEW n \in 0 .. MaxIgnore, SetIgnore(a, n) PROVE IdsUnique'
    <2>1. a \in DOMAIN exec => [exec[a] EXCEPT !.ignore = n].id = exec[a].id
      BY <1>0 DEF Breakpoint
    <2> QED BY <1>5, <2>1, EditIds DEF SetIgnore
  <1>6. ASSUME NEW b \in BOOLEAN, FiredExec(a, b) PROVE IdsUnique'
    <2>1. DOMAIN exec' = DOMAIN exec /\ \A x \in DOMAIN exec : exec'[x].id = exec[x].id
      BY <1>6, <1>0 DEF FiredExec, Breakpoint
    <2> QED BY <1>6, <2>1, KeepIds DEF FiredExec, watchVars, portVars
  <1> QED BY <1>1, <1>2, <1>3, <1>4, <1>5, <1>6

LEMMA NextWatchIds ==
    ASSUME TypeOK, IdsUnique, NextWatch
    PROVE  IdsUnique'
  <1> PICK a \in Addr :
        \/ RemoveWatch(a)
        \/ \E b \in BOOLEAN : EditWatch(a, b) \/ FiredWatch(a, b)
        \/ \E r, w \in BOOLEAN : WatchMem(a, r, w)
    BY DEF NextWatch
  <1>1. CASE RemoveWatch(a)
    <2>1. DOMAIN watches' \subseteq DOMAIN watches
          /\ \A x \in DOMAIN watches' : watches'[x] = watches[x]
      BY <1>1 DEF RemoveWatch, Without
    <2> QED BY <1>1, <2>1, KeepIds DEF RemoveWatch, execVars, portVars
  <1>2. ASSUME NEW b \in BOOLEAN, EditWatch(a, b) \/ FiredWatch(a, b) PROVE IdsUnique'
    <2>1. DOMAIN watches' = DOMAIN watches
          /\ \A x \in DOMAIN watches : watches'[x].id = watches[x].id
      BY <1>2 DEF EditWatch, FiredWatch, TypeOK, IsTable, Watchpoint
    <2> QED BY <1>2, <2>1, KeepIds DEF EditWatch, FiredWatch, execVars, portVars
  <1>3. ASSUME NEW r \in BOOLEAN, NEW w \in BOOLEAN, WatchMem(a, r, w) PROVE IdsUnique'
    <2>1. CASE a \in DOMAIN watches
      <3> DEFINE e == [watches[a] EXCEPT !.on_read = r, !.on_write = w, !.enabled = TRUE]
      <3>1. watches[a] \in Watchpoint
        BY <2>1 DEF TypeOK, IsTable
      <3>2. e.id = watches[a].id /\ watches' = [watches EXCEPT ![a] = e]
        BY <1>3, <2>1, <3>1 DEF WatchMem, Watchpoint
      <3>3. DOMAIN watches' = DOMAIN watches
            /\ \A x \in DOMAIN watches : watches'[x].id = watches[x].id
        BY <2>1, <3>2
      <3> QED BY <1>3, <2>1, <3>3, KeepIds DEF WatchMem, execVars, portVars
    <2>2. CASE a \notin DOMAIN watches
      BY <1>3, <2>2, InsertWatchIds
    <2> QED BY <2>1, <2>2
  <1> QED BY <1>1, <1>2, <1>3

LEMMA NextPortIds ==
    ASSUME TypeOK, IdsUnique, NextPort
    PROVE  IdsUnique'
  <1>1. ASSUME NEW m \in PortSets, NEW i \in BOOLEAN, NEW o \in BOOLEAN, WatchPort(m, i, o)
        PROVE  IdsUnique'
    BY <1>1, InsertPortIds
  <1>2. ASSUME NEW id \in Id, RemovePort(id) PROVE IdsUnique'
    <2>1. DOMAIN ports' \subseteq DOMAIN ports
      BY <1>2 DEF RemovePort, Without
    <2> QED BY <1>2, <2>1, KeepIds DEF RemovePort, execVars, watchVars
  <1>3. ASSUME NEW id \in Id, NEW b \in BOOLEAN, EditPortWatch(id, b) PROVE IdsUnique'
    BY <1>3, KeepIds DEF EditPortWatch, execVars, watchVars
  <1>4. ASSUME NEW p \in Port, NEW out \in BOOLEAN, FiredPort(p, out) PROVE IdsUnique'
    BY <1>4, KeepIds DEF FiredPort, execVars, watchVars
  <1> QED BY <1>1, <1>2, <1>3, <1>4 DEF NextPort

LEMMA NextIds == TypeOK /\ IdsUnique /\ [Next]_vars => IdsUnique'
  <1> SUFFICES ASSUME TypeOK, IdsUnique, [Next]_vars PROVE IdsUnique'
    OBVIOUS
  <1>1. CASE NextTemporary
    BY <1>1, KeepIds DEF NextTemporary, ClearTemporaries, AddTemporary, watchVars, portVars
  <1>2. CASE Clear
    BY <1>2, KeepIds DEF Clear, Empty
  <1>3. CASE UNCHANGED vars
    BY <1>3, KeepIds DEF vars, execVars, watchVars, portVars
  <1> QED BY <1>1, <1>2, <1>3, NextExecIds, NextWatchIds, NextPortIds DEF Next

(* No two breakpoints or watches share an id, and no id is handed out twice, *)
(* so a delete or an enable by id means one thing.                           *)
THEOREM IdsAlwaysUnique == Spec => []IdsUnique
  <1>1. Init => TypeOK /\ IdsUnique
    BY InitType, InitIds
  <1>2. (TypeOK /\ IdsUnique) /\ [Next]_vars => (TypeOK /\ IdsUnique)'
    BY NextType, NextIds
  <1> QED BY <1>1, <1>2, PTL DEF Spec

-----------------------------------------------------------------------------
(* The tiers, under the debugger's movements. *)

LEMMA KeepTiers == TiersAgree /\ UNCHANGED vars => TiersAgree'
  BY ExecUnchanged, WatchUnchanged, PortUnchanged DEF vars, TiersAgree

LEMMA ClearTemporariesTiers == TiersAgree /\ ClearTemporaries => TiersAgree'
  BY TemporaryTiers DEF NextTemporary

(* Clearing the landing sites and arming one in their place: the bits that  *)
(* go are those no enabled breakpoint wants, and the new site's comes.      *)
LEMMA ArmOnlyTiers ==
    ASSUME TiersAgree, NEW t, ArmOnly(t)
    PROVE  TiersAgree'
  <1>1. TempAddrs(temporaries') = {t.addr}
    BY DEF ArmOnly, TempAddrs
  <1>2. exec_bits' = EnabledAt(exec') \cup {t.addr}
    BY DEF ArmOnly, TiersAgree, ExecTiersAgree
  <1>3. ExecTiersAgree'
    BY <1>1, <1>2 DEF ArmOnly, ExecTiersAgree
  <1> QED BY <1>3, WatchUnchanged, PortUnchanged DEF ArmOnly, TiersAgree

(* Counting a hit enables and disables nothing. *)
LEMMA CountHitEnabled ==
    ASSUME NEW to, CountHit(to), to.pc \in EnabledAt(exec)
    PROVE  EnabledAt(exec') = EnabledAt(exec)
  BY DEF CountHit, EnabledAt

LEMMA ClearAfterStopTiers ==
    ASSUME TiersAgree, ClearAfterStop, EnabledAt(exec') = EnabledAt(exec),
           UNCHANGED <<watchVars, portVars>>
    PROVE  TiersAgree'
  <1>1. exec_bits' = EnabledAt(exec') \cup TempAddrs(temporaries')
    BY DEF ClearAfterStop, TiersAgree, ExecTiersAgree, TempAddrs
  <1>2. exec_armed' = (exec_bits' # {})
    BY <1>1 DEF ClearAfterStop, TiersAgree, ExecTiersAgree, TempAddrs
  <1> QED BY <1>1, <1>2, WatchUnchanged, PortUnchanged DEF TiersAgree, ExecTiersAgree

LEMMA KeepArmedTiers ==
    ASSUME TiersAgree, KeepArmed, EnabledAt(exec') = EnabledAt(exec),
           UNCHANGED <<watchVars, portVars>>
    PROVE  TiersAgree'
  <1>1. ExecTiersAgree'
    BY DEF KeepArmed, TiersAgree, ExecTiersAgree
  <1> QED BY <1>1, WatchUnchanged, PortUnchanged DEF TiersAgree

LEMMA RunInstructionTiers ==
    ASSUME TiersAgree, RunInstruction
    PROVE  TiersAgree'
  <1> USE DEF RunInstruction
  <1>1. PICK to \in Outcomes :
          \/ ClearAfterStop /\ UNCHANGED exec
          \/ HitsAt(to) /\ CountHit(to) /\ (KeepArmed \/ ClearAfterStop)
          \/ KeepArmed /\ UNCHANGED exec
    OBVIOUS
  <1>2. UNCHANGED <<watchVars, portVars>>
    OBVIOUS
  <1>3. EnabledAt(exec') = EnabledAt(exec)
    BY <1>1, CountHitEnabled DEF HitsAt, Qualifies, EnabledAt
  <1> QED BY <1>1, <1>2, <1>3, ClearAfterStopTiers, KeepArmedTiers

LEMMA ArmingTiers ==
    ASSUME TiersAgree, Arming
    PROVE  TiersAgree'
  <1>1. ASSUME NEW a \in Addr, AddExec(a) PROVE TiersAgree'
    BY <1>1, InsertExecTiers DEF AddExec
  <1>2. ASSUME NEW a \in Addr, RemoveExec(a) PROVE TiersAgree'
    BY <1>2, RemoveExecTiers
  <1>3. ASSUME NEW a \in Addr, NEW b \in BOOLEAN, SetEnabled(a, b) PROVE TiersAgree'
    BY <1>3, EditTiers DEF SetEnabled
  <1>4. ASSUME NEW a \in Addr, SetIgnore(a, MaxIgnore) PROVE TiersAgree'
    BY <1>4, EditTiers DEF SetIgnore
  <1>5. CASE Clear
    BY <1>5, ClearTiers
  <1> QED BY <1>1, <1>2, <1>3, <1>4, <1>5 DEF Arming

LEMMA MovementTiers == TiersAgree /\ [Next2]_allVars => TiersAgree'
  <1> SUFFICES ASSUME TiersAgree, [Next2]_allVars PROVE TiersAgree'
    OBVIOUS
  <1>1. CASE Step
    BY <1>1, ClearTemporariesTiers DEF Step, StepOne
  <1>2. CASE StepOver
    BY <1>2, ClearTemporariesTiers, ArmOnlyTiers DEF StepOver, StepOne
  <1>3. CASE StepOut
    BY <1>3, ArmOnlyTiers DEF StepOut
  <1>4. CASE Resume
    BY <1>4, ClearTemporariesTiers DEF Resume
  <1>5. CASE Pause
    BY <1>5, KeepTiers DEF Pause
  <1>6. ASSUME NEW a \in Addr, RunTo(a) PROVE TiersAgree'
    BY <1>6, ArmOnlyTiers DEF RunTo
  <1>7. CASE UNCHANGED allVars
    BY <1>7, KeepTiers DEF allVars
  <1> QED BY <1>1, <1>2, <1>3, <1>4, <1>5, <1>6, <1>7, RunInstructionTiers, ArmingTiers DEF Next2

(* What is armed and what the tiers say is armed are the same in every      *)
(* state of a machine being stepped, run, stopped and edited.               *)
THEOREM TiersAgreeWhileMoving == Spec2 => []TiersAgree
  <1>1. Init2 => TiersAgree
    BY InitTiers DEF Init2
  <1> QED BY <1>1, MovementTiers, PTL DEF Spec2

-----------------------------------------------------------------------------
(* What a run goes past. *)

(* Where no breakpoint qualified, none was enabled: the cheap tiers cannot  *)
(* have hidden one.                                                         *)
LEMMA NothingMissed ==
    ASSUME TiersAgree, NEW a, ~Qualifies(a, TRUE)
    PROVE  ~WouldStop(a)
  BY DEF TiersAgree, ExecTiersAgree, Qualifies, ExecMaybe, WouldStop

LEMMA MovementStops ==
    TiersAgree /\ BreakpointsStop /\ [Next2]_allVars => BreakpointsStop'
  <1> SUFFICES ASSUME TiersAgree, BreakpointsStop, [Next2]_allVars PROVE BreakpointsStop'
    OBVIOUS
  <1> USE DEF BreakpointsStop
  <1>1. CASE RunInstruction
    <2>1. PICK to \in Outcomes :
            /\ pc' = to.pc
            /\ \/ ~running'
               \/ unasked' = "ignored"
               \/ ~LandsAt(to) /\ ~HitsAt(to) /\ UNCHANGED exec
      BY <1>1 DEF RunInstruction, Becomes, StopFor, GoOn
    <2>2. CASE ~LandsAt(to) /\ ~HitsAt(to) /\ UNCHANGED exec
      <3>1. ~WouldStop(to.pc)
        BY <2>2, NothingMissed DEF HitsAt
      <3> QED BY <2>1, <2>2, <3>1 DEF WouldStop, EnabledAt
    <2> QED BY <2>1, <2>2
  <1>2. CASE Step \/ StepOver \/ StepOut \/ Resume \/ Pause \/ \E a \in Addr : RunTo(a)
    <2>1. ~running' \/ unasked' \in {"start", "call"}
      BY <1>2 DEF Step, StepOver, StepOne, StepOut, Resume, Pause, RunTo, StopFor, GoOn
    <2> QED BY <2>1
  <1>3. CASE Arming
    BY <1>3 DEF Arming
  <1>4. CASE UNCHANGED allVars
    BY <1>4 DEF allVars, vars, execVars, cpuVars, moveVars, WouldStop, EnabledAt
  <1> QED BY <1>1, <1>2, <1>3, <1>4 DEF Next2

(* A run never goes past an enabled, unconditional breakpoint that is not   *)
(* being ignored, once it has asked about where it is.                      *)
THEOREM RunsStopAtBreakpoints == Spec2 => []BreakpointsStop
  <1>1. Init2 => TiersAgree /\ BreakpointsStop
    BY InitTiers DEF Init2, BreakpointsStop
  <1>2. (TiersAgree /\ BreakpointsStop) /\ [Next2]_allVars => (TiersAgree /\ BreakpointsStop)'
    BY MovementTiers, MovementStops
  <1> QED BY <1>1, <1>2, PTL DEF Spec2

-----------------------------------------------------------------------------
(* The landing sites. *)

(* Which sites may be armed in each movement: a step and a resume have      *)
(* none, a run has only its own, and any stop but a pause leaves none.      *)
Sites ==
    /\ goal.kind \in {"none", "step", "resume"} => temporaries = {}
    /\ goal.kind = "to" => \A t \in temporaries : t.addr = goal.to
    /\ ~running /\ reason # "Paused" => temporaries = {}

Landings == Sites /\ NoStaleLanding

LEMMA InitLandings == Init2 => Landings
  BY DEF Init2, Init, Landings, Sites, NoStaleLanding, Stopped

LEMMA StepOneLandings ==
    ASSUME NEW kind \in {"step", "over"}, StepOne(kind)
    PROVE  Landings'
  <1>1. temporaries' = {} /\ goal'.kind = kind
    BY DEF StepOne, ClearTemporaries, Goal
  <1> QED BY <1>1 DEF Landings, Sites, NoStaleLanding, Stopped

LEMMA StepOverLandings == StepOver => Landings'
  <1> SUFFICES ASSUME StepOver PROVE Landings'
    OBVIOUS
  <1>1. CASE ~IsOver(Prog[pc].op) /\ StepOne("over")
    BY <1>1, StepOneLandings
  <1>2. CASE IsOver(Prog[pc].op) /\ ~StepOne("over")
    <2>1. goal'.kind = "over" /\ (temporaries' = {} \/ running')
      BY <1>2 DEF StepOver, Goal, ClearTemporaries, GoOn
    <2> QED BY <2>1 DEF Landings, Sites, NoStaleLanding, Stopped
  <1> QED BY <1>1, <1>2, StepOneLandings DEF StepOver

(* A run that lands, lands on its own site: there is no other.              *)
LEMMA RunInstructionLandings ==
    ASSUME Landings, RunInstruction
    PROVE  Landings'
  <1> USE DEF Landings, Sites, NoStaleLanding, Stopped
  <1>1. running /\ goal' = goal
    BY DEF RunInstruction
  <1>2. PICK to \in Outcomes :
          /\ pc' = to.pc
          /\ \/ ~running' /\ reason' \in {"Halted", "Breakpoint"} /\ temporaries' = {}
             \/ LandsAt(to) /\ ~running' /\ reason' = "Step" /\ temporaries' = {}
             \/ running' /\ temporaries' = temporaries
    BY DEF RunInstruction, Becomes, StopFor, GoOn, ClearAfterStop, KeepArmed
  <1>3. CASE LandsAt(to) /\ ~running' /\ reason' = "Step" /\ temporaries' = {}
    <2>1. PICK t \in temporaries : t.addr = to.pc
      BY <1>3 DEF LandsAt, FiredTemporary
    <2>2. goal.kind # "resume"
      BY <2>1
    <2>3. goal.kind = "to" => to.pc = goal.to
      BY <2>1
    <2> QED BY <1>1, <1>2, <1>3, <2>2, <2>3
  <1> QED BY <1>1, <1>2, <1>3

LEMMA MovementLandings == Landings /\ [Next2]_allVars => Landings'
  <1> SUFFICES ASSUME Landings, [Next2]_allVars PROVE Landings'
    OBVIOUS
  <1>1. CASE Step
    BY <1>1, StepOneLandings DEF Step
  <1>2. CASE StepOut
    <2>1. goal'.kind = "out" /\ running'
      BY <1>2 DEF StepOut, Goal, GoOn
    <2> QED BY <2>1 DEF Landings, Sites, NoStaleLanding, Stopped
  <1>3. CASE Resume
    <2>1. goal'.kind = "resume" /\ running' /\ temporaries' = {}
      BY <1>3 DEF Resume, Goal, GoOn, ClearTemporaries
    <2> QED BY <2>1 DEF Landings, Sites, NoStaleLanding, Stopped
  <1>4. CASE Pause
    BY <1>4 DEF Pause, StopFor, vars, cpuVars, Landings, Sites, NoStaleLanding, Stopped
  <1>5. ASSUME NEW a \in Addr, RunTo(a) PROVE Landings'
    <2>1. goal'.kind = "to" /\ goal'.to = a /\ running'
      BY <1>5 DEF RunTo, Goal, GoOn
    <2>2. temporaries' = {[addr |-> a, floor |-> 0]}
      BY <1>5 DEF RunTo, ArmOnly
    <2> QED BY <2>1, <2>2 DEF Landings, Sites, NoStaleLanding, Stopped
  <1>6. CASE Arming
    <2>1. temporaries' = temporaries
      BY <1>6 DEF Arming, AddExec, InsertExec, RemoveExec, SetEnabled, SetIgnore, Edit, Clear
    <2> QED BY <1>6, <2>1 DEF Arming, cpuVars, Landings, Sites, NoStaleLanding, Stopped
  <1>7. CASE UNCHANGED allVars
    BY <1>7 DEF allVars, vars, cpuVars, moveVars, Landings, Sites, NoStaleLanding, Stopped
  <1> QED BY <1>1, <1>2, <1>3, <1>4, <1>5, <1>6, <1>7, StepOverLandings,
             RunInstructionLandings DEF Next2

(* A run to an address that ends as one is there, a resume never ends as a  *)
(* step, and any stop but a pause leaves no landing site behind, whatever   *)
(* was armed, disarmed, paused and begun again in between.                  *)
THEOREM NoLandingOutlives == Spec2 => []NoStaleLanding
  <1>1. Landings => NoStaleLanding
    BY DEF Landings
  <1> QED BY <1>1, InitLandings, MovementLandings, PTL DEF Spec2

-----------------------------------------------------------------------------
(* The machine. *)

LEMMA WrapStays == \A x \in Int : x % StackSize \in SP
  BY SteppingAssumption

LEMMA WrapWithin == \A x \in SP : x % StackSize = x
  BY SteppingAssumption

CpuType ==
    /\ pc \in Addr /\ sp \in SP /\ stack \in [SP -> Addr]
    /\ depth \in Int /\ depth <= MaxDepth

LEMMA SpMoves ==
    ASSUME sp \in SP
    PROVE  sp \in Int /\ (sp - 1) % StackSize \in SP /\ (sp + 1) % StackSize \in SP /\ 0 \in SP
  <1>1. sp \in Int /\ sp - 1 \in Int /\ sp + 1 \in Int /\ 0 \in SP
    BY SteppingAssumption
  <1> QED BY <1>1, WrapStays

OutcomeType(to) ==
    /\ to.pc \in Addr /\ to.sp \in SP /\ to.stack \in [SP -> Addr]
    /\ to.depth \in Int

(* Wherever an instruction leads, there is an address, and one call more or *)
(* less moves SP by one; nothing else moves it.                             *)
LEMMA OutcomeCases ==
    ASSUME CpuType, NEW to \in Outcomes
    PROVE  /\ OutcomeType(to)
           /\ \/ /\ Prog[pc].op = "call" /\ to.pc = Prog[pc].to
                 /\ to.depth = depth + 1 /\ to.sp = (sp - 1) % StackSize
              \/ /\ Prog[pc].op = "ret"
                 /\ to.depth = depth - 1 /\ to.sp = (sp + 1) % StackSize
              \/ /\ to.depth = depth /\ to.sp = sp
                 /\ Prog[pc].op = "repeat" => to.pc \in {pc, pc + 1}
  <1> USE DEF CpuType, OutcomeType
  <1> DEFINE fallen == [Here EXCEPT !.pc = pc + 1]
  <1>0. /\ Here.pc = pc /\ Here.sp = sp /\ Here.stack = stack /\ Here.depth = depth
        /\ fallen.pc = pc + 1 /\ fallen.sp = sp /\ fallen.stack = stack /\ fallen.depth = depth
    BY DEF Here
  <1>1. CASE to = fallen /\ (Prog[pc].maybe \/ Prog[pc].op \notin Moves)
    <2>1. pc + 1 \in Addr
      BY <1>1, ProgAssumption
    <2> HIDE DEF fallen
    <2> QED BY <1>0, <1>1, <2>1
  <1>2. CASE to = Taken
    <2>1. CASE Prog[pc].op = "call"
      <3>1. /\ to.pc = Prog[pc].to /\ to.sp = (sp - 1) % StackSize /\ to.depth = depth + 1
            /\ to.stack = [stack EXCEPT ![(sp - 1) % StackSize] = pc + 1]
        BY <1>2, <2>1 DEF Taken, Push, Here
      <3>2. pc + 1 \in Addr /\ Prog[pc].to \in Addr
        BY <2>1, ProgAssumption DEF Moves
      <3>3. (sp - 1) % StackSize \in SP
        BY SpMoves
      <3>4. [stack EXCEPT ![(sp - 1) % StackSize] = pc + 1] \in [SP -> Addr]
        BY <3>2
      <3> QED BY <2>1, <3>1, <3>2, <3>3, <3>4
    <2>2. CASE Prog[pc].op = "ret"
      <3>1. /\ to.pc = stack[sp] /\ to.sp = (sp + 1) % StackSize /\ to.depth = depth - 1
            /\ to.stack = stack
        BY <1>2, <2>2 DEF Taken, Pull, Here
      <3>2. (sp + 1) % StackSize \in SP
        BY SpMoves
      <3> QED BY <2>2, <3>1, <3>2
    <2>3. CASE Prog[pc].op = "jump"
      <3>1. to.pc = Prog[pc].to /\ to.sp = sp /\ to.depth = depth /\ to.stack = stack
        BY <1>2, <2>3 DEF Taken, Here
      <3> QED BY <2>3, <3>1, ProgAssumption
    <2>4. CASE Prog[pc].op \in {"repeat", "halt"}
      <3>1. to.pc = pc /\ to.sp = sp /\ to.depth = depth /\ to.stack = stack
        BY <1>2, <2>4 DEF Taken, Here
      <3> QED BY <3>1
    <2>5. CASE Prog[pc].op \notin {"call", "ret", "jump", "repeat", "halt"}
      <3>1. to = fallen
        BY <1>2, <2>5 DEF Taken
      <3> QED BY <2>5, <3>1, <1>1 DEF Moves
    <2> QED BY <2>1, <2>2, <2>3, <2>4, <2>5
  <1> QED BY <1>1, <1>2 DEF Outcomes

LEMMA BecomesType ==
    ASSUME CpuType, NEW to \in Outcomes, Becomes(to)
    PROVE  CpuType'
  BY OutcomeCases DEF Becomes, CpuType, OutcomeType

-----------------------------------------------------------------------------
(* Types. *)

LEMMA ArmOnlyType ==
    ASSUME TypeOK, NEW t \in Temporary, ArmOnly(t)
    PROVE  TypeOK'
  <1>1. t.addr \in Addr
    BY DEF Temporary
  <1>2. exec_bits' \in SUBSET Addr
    <2>1. exec_bits' \subseteq exec_bits \cup TempAddrs(temporaries) \cup {t.addr}
      BY DEF ArmOnly
    <2>2. TempAddrs(temporaries) \in SUBSET Addr
      BY DEF TypeOK, TempAddrs, Temporary
    <2> QED BY <1>1, <2>1, <2>2 DEF TypeOK
  <1>3. temporaries' \in SUBSET Temporary
    BY DEF ArmOnly
  <1> QED BY <1>2, <1>3 DEF ArmOnly, TypeOK, watchVars, portVars

LEMMA ClearTemporariesType == TypeOK /\ ClearTemporaries => TypeOK'
  BY NextTemporaryType DEF NextTemporary

(* A stop and the hit before it are what ClearTemporaries and FiredExec are *)
(* in Breakpoints.                                                          *)
LEMMA CountHitType ==
    ASSUME TypeOK, NEW to, CountHit(to), HitsAt(to)
    PROVE  IsTable(exec', Addr, Breakpoint)
  <1> DEFINE a == to.pc
             bp == [exec[a] EXCEPT !.hits = @ + 1, !.ignore = IF @ > 0 THEN @ - 1 ELSE @]
  <1>1. a \in DOMAIN exec
    BY DEF HitsAt, Qualifies, EnabledAt
  <1>2. exec[a] \in Breakpoint
    BY <1>1 DEF TypeOK, IsTable
  <1>3. bp \in Breakpoint
    <2>1. exec[a].hits + 1 \in Nat
      BY <1>2 DEF Breakpoint
    <2>2. (IF exec[a].ignore > 0 THEN exec[a].ignore - 1 ELSE exec[a].ignore) \in Nat
      BY <1>2 DEF Breakpoint
    <2> QED BY <1>2, <2>1, <2>2 DEF Breakpoint
  <1>4. exec' = [exec EXCEPT ![a] = bp]
    BY <1>1, <1>2 DEF CountHit, Breakpoint
  <1> QED BY <1>1, <1>3, <1>4, ExceptTable DEF TypeOK

LEMMA StopType ==
    ASSUME TypeOK, IsTable(exec', Addr, Breakpoint), ClearAfterStop \/ KeepArmed,
           UNCHANGED <<watchVars, portVars, next_id>>
    PROVE  TypeOK'
  <1>1. CASE ClearAfterStop
    BY <1>1 DEF ClearAfterStop, TypeOK, TempAddrs, Temporary, watchVars, portVars
  <1>2. CASE KeepArmed
    BY <1>2 DEF KeepArmed, TypeOK, watchVars, portVars
  <1> QED BY <1>1, <1>2

LEMMA ArmingType == TypeOK /\ Arming => TypeOK'
  <1> SUFFICES ASSUME TypeOK, Arming PROVE TypeOK'
    OBVIOUS
  <1>1. MaxIgnore \in 0 .. MaxIgnore
    BY BreakpointsAssumption
  <1>2. NextExec \/ Clear
    BY <1>1 DEF Arming, NextExec
  <1> QED BY <1>2, NextExecType, ClearType

MoveType ==
    /\ running \in BOOLEAN
    /\ reason \in {"Paused", "Step", "Halted", "Breakpoint"}
    /\ unasked \in {"start", "call", "edit", "ignored", "no"}

LEMMA LandingTyped ==
    ASSUME CpuType
    PROVE  /\ [addr |-> stack[sp], floor |-> (sp + 1) % StackSize] \in Temporary
           /\ pc + 1 \in Addr => \A op : Landing(op) \in Temporary
           /\ \A a \in Addr : [addr |-> a, floor |-> 0] \in Temporary
           /\ Prog[pc].op = "call" => pc + 1 \in Addr
  <1>1. (sp + 1) % StackSize \in SP /\ 0 \in SP /\ stack[sp] \in Addr
    BY SpMoves DEF CpuType
  <1>2. Prog[pc].op = "call" => pc + 1 \in Addr
    BY ProgAssumption DEF CpuType, Moves
  <1> QED BY <1>1, <1>2 DEF CpuType, Temporary, Landing

LEMMA InitMoves == Init2 => TypeOK2
  <1>1. Init2 => TypeOK
    BY InitType DEF Init2
  <1>2. Init2 => CpuType /\ MoveType
    <2>1. Init2 => stack \in [SP -> Addr]
      BY ProgAssumption DEF Init2
    <2>2. StackTop \in SP /\ 0 \in Addr /\ 0 \in Int /\ 0 <= MaxDepth
      BY SteppingAssumption, ProgAssumption
    <2>3. Init2 => pc = 0 /\ sp = StackTop /\ depth = 0 /\ MoveType
      BY DEF Init2, MoveType
    <2> QED BY <2>1, <2>2, <2>3 DEF CpuType
  <1> QED BY <1>1, <1>2 DEF TypeOK2, CpuType, MoveType

LEMMA StepOneType ==
    ASSUME TypeOK, CpuType, MoveType, NEW kind, StepOne(kind)
    PROVE  TypeOK' /\ CpuType' /\ MoveType'
  <1>1. PICK to \in Outcomes : Becomes(to) /\ StopFor(IF to.halted THEN "Halted" ELSE "Step")
    BY DEF StepOne
  <1>2. CpuType'
    BY <1>1, BecomesType
  <1>3. MoveType'
    BY <1>1 DEF StopFor, MoveType
  <1> QED BY <1>2, <1>3, ClearTemporariesType DEF StepOne

LEMMA StepOverType ==
    ASSUME TypeOK, CpuType, MoveType, StepOver
    PROVE  TypeOK' /\ CpuType' /\ MoveType'
  <1>1. CASE StepOne("over")
    BY <1>1, StepOneType
  <1>2. CASE ~StepOne("over")
    <2>1. PICK to \in Outcomes :
            /\ Becomes(to)
            /\ IF to.pc = pc + 1
                 THEN ClearTemporaries /\ StopFor("Step")
                 ELSE ArmOnly(Landing(Prog[pc].op)) /\ GoOn("call")
      BY <1>2 DEF StepOver
    <2>2. CpuType'
      BY <2>1, BecomesType
    <2>3. MoveType'
      BY <2>1 DEF StopFor, GoOn, MoveType
    <2>4. TypeOK'
      <3>1. CASE to.pc = pc + 1
        BY <2>1, <3>1, ClearTemporariesType
      <3>2. CASE to.pc # pc + 1
        <4>1. pc + 1 \in Addr
          BY <1>2, ProgAssumption DEF StepOver, IsOver, Moves, CpuType
        <4> QED BY <2>1, <3>2, <4>1, LandingTyped, ArmOnlyType
      <3> QED BY <3>1, <3>2
    <2> QED BY <2>2, <2>3, <2>4
  <1> QED BY <1>1, <1>2

LEMMA RunInstructionType ==
    ASSUME TypeOK, CpuType, MoveType, RunInstruction
    PROVE  TypeOK' /\ CpuType' /\ MoveType'
  <1>1. PICK to \in Outcomes :
          /\ Becomes(to)
          /\ \/ StopFor("Halted") /\ ClearAfterStop /\ UNCHANGED exec
             \/ StopFor("Step") /\ ClearAfterStop /\ UNCHANGED exec
             \/ /\ HitsAt(to) /\ CountHit(to)
                /\ \/ GoOn("ignored") /\ KeepArmed
                   \/ StopFor("Breakpoint") /\ ClearAfterStop
             \/ GoOn("no") /\ KeepArmed /\ UNCHANGED exec
    BY DEF RunInstruction
  <1>2. CpuType'
    BY <1>1, BecomesType
  <1>3. MoveType'
    BY <1>1 DEF StopFor, GoOn, MoveType
  <1>4. IsTable(exec', Addr, Breakpoint)
    BY <1>1, CountHitType DEF TypeOK
  <1>5. TypeOK'
    BY <1>1, <1>4, StopType DEF RunInstruction
  <1> QED BY <1>2, <1>3, <1>5

LEMMA MovementTypes == TypeOK2 /\ [Next2]_allVars => TypeOK2'
  <1> SUFFICES ASSUME TypeOK, CpuType, MoveType, [Next2]_allVars
               PROVE  TypeOK' /\ CpuType' /\ MoveType'
    BY DEF TypeOK2, CpuType, MoveType
  <1>1. CASE Step
    BY <1>1, StepOneType DEF Step
  <1>2. CASE StepOut
    BY <1>2, LandingTyped, ArmOnlyType DEF StepOut, GoOn, CpuType, MoveType, cpuVars
  <1>3. CASE Resume
    BY <1>3, ClearTemporariesType DEF Resume, GoOn, CpuType, MoveType, cpuVars
  <1>4. CASE Pause \/ UNCHANGED allVars
    BY <1>4 DEF Pause, StopFor, allVars, cpuVars, moveVars, vars, execVars, watchVars, portVars,
                TypeOK, CpuType, MoveType
  <1>5. ASSUME NEW a \in Addr, RunTo(a) PROVE TypeOK' /\ CpuType' /\ MoveType'
    BY <1>5, LandingTyped, ArmOnlyType DEF RunTo, GoOn, CpuType, MoveType, cpuVars
  <1>6. CASE Arming
    BY <1>6, ArmingType DEF Arming, CpuType, MoveType, cpuVars
  <1> QED BY <1>1, <1>2, <1>3, <1>4, <1>5, <1>6, StepOverType, RunInstructionType DEF Next2

(* The program counter, SP and every return address stay what they should   *)
(* be, as do the tables, whatever the program and the user do.              *)
THEOREM MovesTypeCorrect == Spec2 => []TypeOK2
  BY InitMoves, MovementTypes, PTL DEF Spec2

-----------------------------------------------------------------------------
(* The frames. *)

(* What a landing site's guard says of depth: one left by a step-over is    *)
(* the depth it began at, and one left by a step-out is a call less.  A     *)
(* repeat's has no guard, but the machine is still at the repeat.           *)
Depths == sp = StackTop - depth
FloorOver ==
    goal.kind = "over" =>
        \A t \in temporaries :
            \/ t.floor = StackTop - goal.depth
            \/ /\ Prog[pc].op = "repeat" /\ depth = goal.depth
               /\ t = [addr |-> pc + 1, floor |-> 0]
FloorOut ==
    goal.kind = "out" /\ goal.depth > 0 =>
        \A t \in temporaries : t.floor = StackTop - goal.depth + 1
Frames ==
    /\ goal.depth \in Int
    /\ Depths /\ FloorOver /\ FloorOut
    /\ CallsLeadAway => StepOverStaysInFrame
    /\ StepOutLeavesFrame

LEMMA InitFrames == Init2 => Frames
  BY SteppingAssumption DEF Init2, Init, Frames, Depths, FloorOver, FloorOut,
     StepOverStaysInFrame, StepOutLeavesFrame, Stopped

(* One call or return moves SP one way or the other, as long as it stays    *)
(* within the stack.                                                        *)
LEMMA OutcomeDepths ==
    ASSUME CpuType, Depths, NEW to \in Outcomes, Becomes(to), Unwrapped'
    PROVE  Depths'
  <1>1. /\ sp' = to.sp /\ depth' = to.depth /\ depth' \in Int /\ sp = StackTop - depth
        /\ depth' >= StackTop - StackSize + 1 /\ depth' <= StackTop
    BY OutcomeCases, SteppingAssumption DEF Becomes, OutcomeType, Unwrapped, Depths
  <1>2. StackTop - depth' \in SP
    BY <1>1, SteppingAssumption
  <1>3. \/ to.depth = depth + 1 /\ to.sp = (StackTop - depth') % StackSize
        \/ to.depth = depth - 1 /\ to.sp = (StackTop - depth') % StackSize
        \/ to.depth = depth /\ to.sp = sp
    <2>1. /\ to.depth = depth + 1 => sp - 1 = StackTop - depth'
          /\ to.depth = depth - 1 => sp + 1 = StackTop - depth'
      BY <1>1, SteppingAssumption DEF CpuType
    <2> QED BY <2>1, OutcomeCases
  <1> QED BY <1>1, <1>2, <1>3, WrapWithin DEF Depths

(* A movement that is one instruction, and no call that was taken, ends no  *)
(* deeper than it began.                                                    *)
LEMMA StepOneFrames ==
    ASSUME CpuType, Frames, NEW kind \in {"step", "over"}, StepOne(kind),
           kind = "over" => ~IsOver(Prog[pc].op), Unwrapped'
    PROVE  Frames'
  <1>1. PICK to \in Outcomes : Becomes(to)
    BY DEF StepOne
  <1>2. temporaries' = {} /\ goal' = [kind |-> kind, to |-> pc, depth |-> depth]
    BY DEF StepOne, ClearTemporaries, Goal
  <1>3. Depths'
    BY <1>1, OutcomeDepths DEF Frames
  <1>4. kind = "over" => depth' <= depth
    BY <1>1, OutcomeCases DEF IsOver, Becomes, CpuType
  <1> QED BY <1>2, <1>3, <1>4 DEF CpuType, Frames, FloorOver, FloorOut, StepOverStaysInFrame,
             StepOutLeavesFrame, Stopped

LEMMA StepOverFrames ==
    ASSUME CpuType, Frames, StepOver, Unwrapped'
    PROVE  Frames'
  <1>1. CASE ~IsOver(Prog[pc].op)
    BY <1>1, StepOneFrames DEF StepOver
  <1>2. CASE IsOver(Prog[pc].op)
    <2>1. PICK to \in Outcomes :
            /\ Becomes(to)
            /\ IF to.pc = pc + 1
                 THEN ClearTemporaries /\ StopFor("Step")
                 ELSE ArmOnly(Landing(Prog[pc].op)) /\ GoOn("call")
      BY <1>2 DEF StepOver
    <2>2. goal' = [kind |-> "over", to |-> pc + 1, depth |-> depth] /\ Depths'
      BY <1>2, <2>1, OutcomeDepths DEF StepOver, Goal, Frames
    <2>3. CASE to.pc = pc + 1
      <3>1. CallsLeadAway => depth' <= depth
        BY <2>1, <2>3, OutcomeCases DEF CallsLeadAway, Becomes, CpuType
      <3>2. temporaries' = {}
        BY <2>1, <2>3 DEF ClearTemporaries
      <3> QED BY <2>2, <3>1, <3>2 DEF CpuType, Frames, FloorOver, FloorOut, StepOverStaysInFrame,
                 StepOutLeavesFrame, Stopped
    <2>4. CASE to.pc # pc + 1
      <3>1. temporaries' = {Landing(Prog[pc].op)} /\ running'
        BY <2>1, <2>4 DEF ArmOnly, GoOn
      <3>2. CASE Prog[pc].op = "call"
        <4>1. Landing(Prog[pc].op).floor = StackTop - depth
          BY <3>2 DEF Landing, Frames, Depths
        <4> QED BY <2>2, <3>1, <4>1 DEF CpuType, Frames, FloorOver, FloorOut,
                   StepOverStaysInFrame, StepOutLeavesFrame, Stopped
      <3>3. CASE Prog[pc].op = "repeat"
        <4>1. pc' = pc /\ depth' = depth
          BY <2>1, <2>4, <3>3, OutcomeCases DEF Becomes
        <4>2. Landing(Prog[pc].op) = [addr |-> pc' + 1, floor |-> 0]
          BY <3>3, <4>1 DEF Landing
        <4> QED BY <2>2, <3>1, <3>3, <4>1, <4>2 DEF CpuType, Frames, FloorOver, FloorOut,
                   StepOverStaysInFrame, StepOutLeavesFrame, Stopped
      <3> QED BY <1>2, <3>2, <3>3 DEF IsOver
    <2> QED BY <2>3, <2>4
  <1> QED BY <1>1, <1>2

(* A run that lands is no deeper than the landing site's guard allows; one  *)
(* that goes on leaves a repeat only by falling through to its landing site,*)
(* which the tiers do not miss.                                             *)
LEMMA RunInstructionFrames ==
    ASSUME TiersAgree, CpuType, Frames, RunInstruction, Unwrapped'
    PROVE  Frames'
  <1>1. PICK to \in Outcomes :
          /\ Becomes(to)
          /\ \/ ~running' /\ reason' # "Step" /\ temporaries' = {}
             \/ LandsAt(to) /\ temporaries' = {}
             \/ ~LandsAt(to) /\ running' /\ temporaries' = temporaries
             \/ ~LandsAt(to) /\ ~running' /\ reason' # "Step" /\ temporaries' = {}
    BY DEF RunInstruction, StopFor, GoOn, ClearAfterStop, KeepArmed, HitsAt
  <1>2. Depths' /\ goal' = goal
    BY <1>1, OutcomeDepths DEF RunInstruction, Frames
  <1>3. CASE ~running' /\ reason' # "Step" /\ temporaries' = {}
    BY <1>2, <1>3 DEF Frames, FloorOver, FloorOut, StepOverStaysInFrame, StepOutLeavesFrame, Stopped
  <1>4. CASE LandsAt(to) /\ temporaries' = {}
    <2>1. PICK t \in temporaries : t.addr = to.pc /\ to.sp >= t.floor
      BY <1>4 DEF LandsAt, FiredTemporary
    <2>2. pc' = to.pc /\ sp' = to.sp /\ depth' \in Int /\ sp' = StackTop - depth'
      BY <1>1, <1>2, BecomesType DEF Becomes, CpuType, Depths
    <2>3. goal.kind = "over" => depth' <= goal.depth
      <3>1. CASE t.floor = StackTop - goal.depth
        BY <2>1, <2>2, <3>1, SteppingAssumption DEF Frames
      <3>2. CASE Prog[pc].op = "repeat" /\ depth = goal.depth
        BY <1>1, <3>2, OutcomeCases DEF Becomes, CpuType
      <3> QED BY <3>1, <3>2 DEF Frames, FloorOver
    <2>4. goal.kind = "out" /\ goal.depth > 0 => depth' < goal.depth
      BY <2>1, <2>2, SteppingAssumption DEF Frames, FloorOut
    <2> QED BY <1>2, <1>4, <2>3, <2>4 DEF Frames, FloorOver, FloorOut, StepOverStaysInFrame,
               StepOutLeavesFrame, Stopped
  <1>5. CASE ~LandsAt(to) /\ running' /\ temporaries' = temporaries
    <2>1. ASSUME goal.kind = "over", NEW t \in temporaries, t.floor # StackTop - goal.depth
          PROVE  /\ Prog[pc'].op = "repeat" /\ depth' = goal.depth
                 /\ t = [addr |-> pc' + 1, floor |-> 0]
      <3>1. /\ Prog[pc].op = "repeat" /\ depth = goal.depth
            /\ t = [addr |-> pc + 1, floor |-> 0]
        BY <2>1 DEF Frames, FloorOver
      <3>2. to.depth = depth /\ to.sp = sp /\ to.pc \in {pc, pc + 1}
        BY <3>1, OutcomeCases
      <3>3. to.pc # pc + 1
        <4>1. ExecMaybe(pc + 1)
          <5>1. pc + 1 \in exec_bits
            BY <2>1, <3>1 DEF TiersAgree, ExecTiersAgree, TempAddrs
          <5> QED BY <5>1 DEF TiersAgree, ExecTiersAgree, ExecMaybe
        <4>2. sp >= t.floor
          BY <3>1, SteppingAssumption DEF CpuType
        <4> QED BY <1>5, <2>1, <3>1, <3>2, <4>1, <4>2 DEF LandsAt, FiredTemporary
      <3> QED BY <1>1, <3>1, <3>2, <3>3 DEF Becomes
    <2> QED BY <1>2, <1>5, <2>1 DEF Frames, FloorOver, FloorOut, StepOverStaysInFrame,
               StepOutLeavesFrame, Stopped
  <1> QED BY <1>1, <1>3, <1>4, <1>5

LEMMA MovementFrames ==
    ASSUME TiersAgree, TypeOK2, Frames, [Next2]_allVars, Unwrapped, Unwrapped'
    PROVE  Frames'
  <1>0. CpuType
    BY DEF TypeOK2, CpuType
  <1> USE DEF Frames, FloorOver, FloorOut, StepOverStaysInFrame, StepOutLeavesFrame, Stopped
  <1>1. CASE Step
    BY <1>0, <1>1, StepOneFrames DEF Step
  <1>2. CASE StepOut
    <2>1. /\ temporaries' = {[addr |-> stack[sp], floor |-> (sp + 1) % StackSize]}
          /\ goal' = [kind |-> "out", to |-> stack[sp], depth |-> depth] /\ running'
          /\ sp' = sp /\ depth' = depth
      BY <1>2 DEF StepOut, ArmOnly, GoOn, Goal, cpuVars
    <2>2. depth > 0 => (sp + 1) % StackSize = StackTop - depth + 1
      <3>1. depth > 0 => StackTop - depth + 1 \in SP
        BY <1>0, SteppingAssumption DEF CpuType, Unwrapped
      <3>2. sp + 1 = StackTop - depth + 1
        BY <1>0, SteppingAssumption DEF CpuType, Depths
      <3> QED BY <3>1, <3>2, WrapWithin
    <2> QED BY <1>0, <2>1, <2>2 DEF CpuType, Depths
  <1>3. ASSUME NEW kind \in {"resume", "to"}, NEW a, Goal(kind, a, depth), UNCHANGED cpuVars
        PROVE  Frames'
    <2>1. goal'.kind = kind /\ goal'.depth = depth /\ sp' = sp /\ depth' = depth
      BY <1>3 DEF Goal, cpuVars
    <2> QED BY <1>0, <2>1 DEF CpuType, Depths
  <1>4. CASE Pause
    BY <1>4 DEF Pause, StopFor, vars, cpuVars, Depths
  <1>5. CASE Arming
    <2>1. temporaries' = temporaries
      BY <1>5 DEF Arming, AddExec, InsertExec, RemoveExec, SetEnabled, SetIgnore, Edit, Clear
    <2> QED BY <1>5, <2>1 DEF Arming, cpuVars, Depths
  <1>6. CASE UNCHANGED allVars
    BY <1>6 DEF allVars, vars, cpuVars, moveVars, Depths
  <1>7. CASE StepOver
    BY <1>0, <1>7, StepOverFrames
  <1>8. CASE RunInstruction
    BY <1>0, <1>8, RunInstructionFrames
  <1>9. CASE Resume \/ \E a \in Addr : RunTo(a)
    BY <1>3, <1>9 DEF Resume, RunTo
  <1> QED BY <1>1, <1>2, <1>4, <1>5, <1>6, <1>7, <1>8, <1>9 DEF Next2

LEMMA FramesKept == Spec2 /\ []Unwrapped => []Frames
  <1> DEFINE IInv == TiersAgree /\ TypeOK2 /\ Frames
  <1>1. Init2 => IInv
    BY InitTiers, InitMoves, InitFrames DEF Init2
  <1>2. IInv /\ [Next2]_allVars /\ Unwrapped /\ Unwrapped' => IInv'
    BY MovementTiers, MovementTypes, MovementFrames
  <1>3. IInv => Frames
    OBVIOUS
  <1> QED BY <1>1, <1>2, <1>3, PTL DEF Spec2

(* As long as SP does not come round, and for every program with no call to *)
(* the instruction after it, a step-over that ends as a step is no deeper   *)
(* than where it began, however the program recursed and whatever the user  *)
(* armed, paused and began again meanwhile.                                 *)
THEOREM StepOverKeepsFrame ==
    ASSUME CallsLeadAway
    PROVE  Spec2 /\ []Unwrapped => []StepOverStaysInFrame
  <1>1. Frames => StepOverStaysInFrame
    BY DEF Frames
  <1> QED BY <1>1, FramesKept, PTL

(* As long as SP does not come round, and for every program, a step-out     *)
(* that ends as a step is out of the routine it began in.                   *)
THEOREM StepOutKeepsFrame == Spec2 /\ []Unwrapped => []StepOutLeavesFrame
  <1>1. Frames => StepOutLeavesFrame
    BY DEF Frames
  <1> QED BY <1>1, FramesKept, PTL
=============================================================================
