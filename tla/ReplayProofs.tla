---------------------------- MODULE ReplayProofs ----------------------------
(***************************************************************************)
(* For any program, control interval and log: a log of which nothing was   *)
(* left out replays to the machine it was recorded from.                   *)
(***************************************************************************)
EXTENDS Replay, Induction, SequenceTheorems, TLAPS

-----------------------------------------------------------------------------
(* One instruction, and what follows it. *)

(* An instruction takes time and leaves what is armed alone, and where it    *)
(* goes is the machine's to say.                                            *)
LEMMA Instructed ==
    ASSUME NEW e \in Emus
    PROVE  /\ CpuStep(e) \in Emus
           /\ CpuStep(e).t > e.t /\ CpuStep(e).next = e.next
           /\ CpuStep(e).breaks = e.breaks /\ CpuStep(e).landing = e.landing
           /\ CpuStep(e).state = e.state
  <1>1. CASE e.int
    <2>1. CpuStep(e) = [e EXCEPT !.int = FALSE, !.pc = Vector, !.t = @ + AckTime]
      BY <1>1 DEF CpuStep
    <2>2. Vector \in Addr /\ e.t \in Nat /\ e.t + AckTime \in Nat /\ e.t + AckTime > e.t
      BY ReplayAssumption DEF Emus
    <2> QED BY <2>1, <2>2 DEF Emus
  <1>2. CASE ~e.int
    <2> DEFINE i == Prog[e.pc]
               goes == CASE i.op = "jump" -> i.to
                         [] i.op = "branch" -> IF e.byte > 0 THEN i.to ELSE e.pc + 1
                         [] i.op = "repeat" -> IF e.byte > 0 THEN e.pc ELSE e.pc + 1
                         [] OTHER -> e.pc + 1
               holds == CASE i.op = "repeat" /\ e.byte > 0 -> e.byte - 1
                          [] i.op = "load" -> i.to
                          [] OTHER -> e.byte
    <2>1. CpuStep(e) = [e EXCEPT !.pc = goes, !.byte = holds, !.t = @ + i.time]
      BY <1>2 DEF CpuStep, Instruction
    <2>2. /\ i.time \in Nat \ {0}
          /\ i.op \in {"jump", "branch"} => i.to \in Addr
          /\ i.op # "jump" => e.pc + 1 \in Addr
          /\ i.op = "load" => i.to \in Nat
      BY ProgAssumption DEF Emus
    <2>3. e.pc \in Addr /\ e.byte \in Nat /\ e.t \in Nat
      BY DEF Emus
    <2> HIDE DEF i
    <2>4. goes \in Addr
      BY <2>2, <2>3
    <2>5. holds \in Nat
      BY <2>2, <2>3
    <2> HIDE DEF goes, holds
    <2>6. e.t + i.time \in Nat /\ e.t + i.time > e.t
      BY <2>2, <2>3
    <2> QED BY <2>1, <2>4, <2>5, <2>6 DEF Emus
  <1> QED BY <1>1, <1>2

LEMMA SameInstruction ==
    ASSUME NEW e \in Emus, NEW r \in Emus, Machine(e) = Machine(r)
    PROVE  Machine(CpuStep(e)) = Machine(CpuStep(r))
  <1>1. e.pc = r.pc /\ e.byte = r.byte /\ e.int = r.int /\ e.t = r.t /\ e.next = r.next
    BY DEF Machine
  <1>2. CASE e.int
    BY <1>1, <1>2 DEF CpuStep, Machine, Emus
  <1>3. CASE ~e.int
    BY <1>1, <1>3 DEF CpuStep, Instruction, Machine, Emus
  <1> QED BY <1>2, <1>3

LEMMA HaltedIs ==
    ASSUME NEW e \in Emus, NEW why \in {"Paused", "Running", "Exited"}
    PROVE  /\ Halted(e, why) \in Emus /\ Machine(Halted(e, why)) = Machine(e)
           /\ Halted(e, why).state = why /\ Halted(e, why).landing = {}
           /\ Halted(e, why).breaks = e.breaks
           /\ Halted(e, why).t = e.t /\ Halted(e, why).next = e.next /\ Halted(e, why).pc = e.pc
  BY DEF Halted, Emus, Machine

LEMMA ServiceIs ==
    ASSUME NEW e \in Emus
    PROVE  /\ ServiceDue(e) \in Emus
           /\ ServiceDue(e).t = e.t /\ ServiceDue(e).breaks = e.breaks
           /\ ServiceDue(e).landing = e.landing /\ ServiceDue(e).state = e.state
           /\ e.t >= e.next => ServiceDue(e).next = e.next + Frame
           /\ e.t < e.next => ServiceDue(e) = e
           /\ ServiceDue(e).next >= e.next
  <1>1. e.t \in Nat /\ e.next \in Nat /\ e.next + Frame \in Nat /\ e.next + Frame >= e.next
    BY ReplayAssumption DEF Emus
  <1>2. CASE e.t >= e.next
    <2>1. ServiceDue(e) = [e EXCEPT !.int = TRUE, !.next = e.next + Frame]
      BY <1>2 DEF ServiceDue
    <2>2. ~(e.t < e.next)
      BY <1>1, <1>2
    <2> QED BY <1>1, <2>1, <2>2 DEF Emus
  <1>3. CASE ~(e.t >= e.next)
    BY <1>1, <1>3 DEF ServiceDue
  <1> QED BY <1>2, <1>3

LEMMA SameService ==
    ASSUME NEW e \in Emus, NEW r \in Emus, Machine(e) = Machine(r)
    PROVE  Machine(ServiceDue(e)) = Machine(ServiceDue(r))
  BY DEF ServiceDue, Machine, Emus

-----------------------------------------------------------------------------
(* run_until. *)

(* Its recursion is a definition: every instruction brings the deadline      *)
(* nearer.                                                                  *)
LEMMA RunUntilIs ==
    ASSUME NEW d \in Nat
    PROVE  \A e \in Emus :
             RunUntil(e, d) = IF e.t >= d THEN e
                              ELSE IF Stops(e) THEN Halted(CpuStep(e), "Paused")
                              ELSE RunUntil(CpuStep(e), d)
  <1> DEFINE Done == {e \in Emus : e.t >= d \/ Stops(e)}
             m == [e \in Emus |-> IF e.t >= d THEN 0 ELSE d - e.t]
             out == [e \in Emus |-> IF e.t >= d THEN e ELSE Halted(CpuStep(e), "Paused")]
             step == [e \in Emus |-> CpuStep(e)]
             comb == [e \in Emus |-> [v \in Emus |-> v]]
             Runs(f) == f = [x \in Emus |-> IF x.t >= d THEN x
                                            ELSE IF Stops(x) THEN Halted(CpuStep(x), "Paused")
                                            ELSE f[CpuStep(x)]]
  <1>1. m \in [Emus -> Nat]
    <2>1. \A e \in Emus : e.t \in Nat
      BY DEF Emus
    <2> QED BY <2>1
  <1>2. \A s \in Emus : s \in Done => out[s] \in Emus
    BY Instructed, HaltedIs
  <1>3. \A s \in Emus : s \notin Done => step[s] \in Emus /\ m[step[s]] < m[s]
    <2> TAKE s \in Emus
    <2> HAVE s \notin Done
    <2>1. step[s] = CpuStep(s) /\ CpuStep(s) \in Emus /\ CpuStep(s).t > s.t
      BY Instructed
    <2>2. s.t < d /\ s.t \in Nat /\ CpuStep(s).t \in Nat
      BY <2>1 DEF Emus
    <2>3. m[s] = d - s.t
      BY <2>2
    <2>4. m[CpuStep(s)] = IF CpuStep(s).t >= d THEN 0 ELSE d - CpuStep(s).t
      BY <2>1
    <2> HIDE DEF m, step
    <2> QED BY <2>1, <2>2, <2>3, <2>4
  <1>4. \A s \in Emus : s \notin Done => \A v \in Emus : comb[s][v] \in Emus
    OBVIOUS
  <1>a. PICK f : Solves(f, Emus, Emus, Done, out, step, comb)
    <2> HIDE DEF m, Done, out, step, comb
    <2>1. Descends(Emus, Emus, m, Done, out, step, comb)
      BY <1>1, <1>2, <1>3, <1>4 DEF Descends
    <2> QED BY <2>1, Recursion
  <1>5. /\ f \in [Emus -> Emus]
        /\ \A s \in Emus : f[s] = IF s \in Done THEN out[s] ELSE comb[s][f[step[s]]]
    <2> HIDE DEF m, Done, out, step, comb
    <2> QED BY <1>a DEF Solves
  <1>6. Runs(f)
    <2>1. ASSUME NEW x \in Emus
          PROVE  f[x] = IF x.t >= d THEN x
                        ELSE IF Stops(x) THEN Halted(CpuStep(x), "Paused") ELSE f[CpuStep(x)]
      <3>1. CASE x.t >= d
        BY <1>5, <3>1
      <3>2. CASE ~(x.t >= d) /\ Stops(x)
        BY <1>5, <3>2
      <3>3. CASE ~(x.t >= d) /\ ~Stops(x)
        <4>1. step[x] = CpuStep(x) /\ CpuStep(x) \in Emus
          BY Instructed
        <4>2. f[CpuStep(x)] \in Emus
          BY <1>5, <4>1
        <4>3. comb[x][f[CpuStep(x)]] = f[CpuStep(x)]
          BY <4>2
        <4>4. x \notin Done
          BY <3>3
        <4> HIDE DEF comb, step, Done
        <4>5. f[x] = comb[x][f[step[x]]]
          BY <1>5, <4>4
        <4> QED BY <3>3, <4>1, <4>3, <4>5
      <3> QED BY <3>1, <3>2, <3>3
    <2> QED BY <1>5, <2>1
  <1>7. Runs(CHOOSE g : Runs(g))
    <2> HIDE DEF Runs
    <2> QED BY <1>6
  <1>8. \A e \in Emus : RunUntil(e, d) = (CHOOSE g : Runs(g))[e]
    BY DEF RunUntil
  <1>9. ASSUME NEW e \in Emus
        PROVE  RunUntil(e, d) = IF e.t >= d THEN e
                                ELSE IF Stops(e) THEN Halted(CpuStep(e), "Paused")
                                ELSE RunUntil(CpuStep(e), d)
    <2> DEFINE c == CHOOSE g : Runs(g)
    <2>1. c = [x \in Emus |-> IF x.t >= d THEN x
                              ELSE IF Stops(x) THEN Halted(CpuStep(x), "Paused")
                              ELSE c[CpuStep(x)]]
      BY <1>7
    <2>2. CpuStep(e) \in Emus
      BY Instructed
    <2>3. RunUntil(e, d) = c[e] /\ RunUntil(CpuStep(e), d) = c[CpuStep(e)]
      BY <1>8, <2>2
    <2> HIDE DEF c
    <2> QED BY <2>1, <2>3
  <1> QED BY <1>9

(* What a run until d comes to: nothing but the machine moves, and it moves  *)
(* unless the deadline has passed; only a stop pauses it.                   *)
RanFrom(e, d, q) ==
    /\ q \in Emus
    /\ q.t >= e.t /\ (e.t < d => q.t > e.t)
    /\ q.next = e.next /\ q.breaks = e.breaks
    /\ q = e \/ q.state \in {e.state, "Paused"}
    /\ q.state = e.state => q.t >= d \/ e.state = "Paused"

LEMMA RunUntilGets ==
    ASSUME NEW d \in Nat
    PROVE  \A e \in Emus : RanFrom(e, d, RunUntil(e, d))
  <1> DEFINE Good == {n \in Nat : \A e \in Emus : e.t >= d - n => RanFrom(e, d, RunUntil(e, d))}
  <1>1. 0 \in Good
    <2>1. ASSUME NEW e \in Emus, e.t >= d - 0 PROVE RanFrom(e, d, RunUntil(e, d))
      <3>1. e.t \in Nat /\ e.t >= d /\ ~(e.t < d)
        BY <2>1 DEF Emus
      <3>2. RunUntil(e, d) = e
        BY <3>1, RunUntilIs
      <3> QED BY <3>1, <3>2 DEF RanFrom
    <2> QED BY <2>1
  <1>2. ASSUME NEW n \in Nat, n \in Good PROVE n + 1 \in Good
    <2>1. ASSUME NEW e \in Emus, e.t >= d - (n + 1) PROVE RanFrom(e, d, RunUntil(e, d))
      <3> DEFINE a == CpuStep(e)
      <3>1. /\ a \in Emus /\ a.t > e.t /\ a.next = e.next /\ a.breaks = e.breaks /\ a.state = e.state
            /\ e.t \in Nat /\ a.t \in Nat
        <4>1. a \in Emus /\ a.t > e.t /\ a.next = e.next /\ a.breaks = e.breaks /\ a.state = e.state
          BY Instructed
        <4> HIDE DEF a
        <4> QED BY <4>1 DEF Emus
      <3>2. CASE e.t >= d
        <4>1. RunUntil(e, d) = e /\ ~(e.t < d)
          BY <3>1, <3>2, RunUntilIs
        <4> HIDE DEF a
        <4> QED BY <3>1, <3>2, <4>1 DEF RanFrom
      <3>3. CASE ~(e.t >= d) /\ Stops(e)
        <4>1. RunUntil(e, d) = Halted(a, "Paused")
          BY <3>3, RunUntilIs
        <4> HIDE DEF a
        <4>2. /\ Halted(a, "Paused") \in Emus /\ Halted(a, "Paused").t = a.t
              /\ Halted(a, "Paused").next = a.next /\ Halted(a, "Paused").breaks = a.breaks
              /\ Halted(a, "Paused").state = "Paused"
          BY <3>1, HaltedIs
        <4> QED BY <3>1, <4>1, <4>2 DEF RanFrom
      <3>4. CASE ~(e.t >= d) /\ ~Stops(e)
        <4>1. RunUntil(e, d) = RunUntil(a, d)
          BY <3>4, RunUntilIs
        <4> HIDE DEF a
        <4>2. a.t >= d - n
          BY <2>1, <3>1
        <4>3. RanFrom(a, d, RunUntil(a, d))
          BY <1>2, <3>1, <4>2
        <4>4. RunUntil(a, d).t \in Nat
          BY <4>3 DEF RanFrom, Emus
        <4> QED BY <3>1, <4>1, <4>3, <4>4 DEF RanFrom
      <3> QED BY <3>2, <3>3, <3>4
    <2> QED BY <2>1
  <1>3. ASSUME NEW e \in Emus PROVE RanFrom(e, d, RunUntil(e, d))
    <2>1. d \in Good
      <3> HIDE DEF Good
      <3> QED BY <1>1, <1>2, Induct
    <2>2. e.t >= d - d
      BY DEF Emus
    <2> QED BY <2>1, <2>2
  <1> QED BY <1>3

-----------------------------------------------------------------------------
(* run_to. *)

Over(e, T) == e.state # "Running" \/ e.t >= T

(* What is left of a run to T: T-states, and the events they are behind.     *)
Left(e, T) ==
    IF Over(e, T) THEN 0
    ELSE 1 + 2 * (T - e.t) + (IF e.t >= e.next THEN e.t + 1 - e.next ELSE 0)

LEMMA LeftIsNat ==
    ASSUME NEW T \in Nat, NEW e \in Emus
    PROVE  Left(e, T) \in Nat
  <1>1. e.t \in Nat /\ e.next \in Nat
    BY DEF Emus
  <1>2. CASE Over(e, T)
    BY <1>2 DEF Left
  <1>3. CASE ~Over(e, T)
    <2>1. ~(e.t >= T)
      BY <1>3 DEF Over
    <2>2. Left(e, T) = 1 + 2 * (T - e.t) + (IF e.t >= e.next THEN e.t + 1 - e.next ELSE 0)
      BY <1>3 DEF Left
    <2> QED BY <1>1, <2>1, <2>2
  <1> QED BY <1>2, <1>3

(* An event serviced, or time gone by, is less left.                        *)
LEMMA LessLeft ==
    ASSUME NEW T \in Nat, NEW e \in Emus, NEW q \in Emus, ~Over(e, T),
           \/ q.t = e.t /\ e.t >= e.next /\ q.next = e.next + Frame
           \/ e.t < e.next /\ q.t > e.t /\ q.next >= e.next
    PROVE  Left(q, T) < Left(e, T)
  <1>1. e.t \in Nat /\ e.next \in Nat /\ q.t \in Nat /\ q.next \in Nat /\ Frame \in Nat /\ Frame >= 1
    BY ReplayAssumption DEF Emus
  <1>2. e.t < T
    BY <1>1 DEF Over
  <1>3. Left(e, T) = 1 + 2 * (T - e.t) + (IF e.t >= e.next THEN e.t + 1 - e.next ELSE 0)
    BY DEF Left
  <1>4. CASE Over(q, T)
    <2>1. Left(q, T) = 0
      BY <1>4 DEF Left
    <2> QED BY <1>1, <1>2, <1>3, <2>1
  <1>5. CASE ~Over(q, T)
    <2>1. Left(q, T) = 1 + 2 * (T - q.t) + (IF q.t >= q.next THEN q.t + 1 - q.next ELSE 0)
      BY <1>5 DEF Left
    <2>2. q.t < T
      BY <1>1, <1>5 DEF Over
    <2> QED BY <1>1, <1>2, <1>3, <2>1, <2>2
  <1> QED BY <1>4, <1>5

LEMMA DeadlineIs ==
    ASSUME NEW T \in Nat, NEW e \in Emus
    PROVE  /\ Deadline(e, T) \in Nat /\ Deadline(e, T) <= e.next /\ Deadline(e, T) <= T
           /\ Deadline(e, T) \in {e.next, T}
  BY DEF Deadline, Emus

LEMMA OneRunGets ==
    ASSUME NEW T \in Nat, NEW e \in Emus, ~Over(e, T)
    PROVE  /\ OneRun(e, T) \in Emus
           /\ Left(OneRun(e, T), T) < Left(e, T)
  <1> DEFINE d == Deadline(e, T)
             ran == RunUntil(e, d)
  <1>1. d \in Nat /\ d <= e.next /\ d <= T /\ d \in {e.next, T}
    BY DeadlineIs
  <1>2. RanFrom(e, d, ran)
    BY <1>1, RunUntilGets
  <1>3. e.state = "Running" /\ e.t < T /\ e.t \in Nat /\ e.next \in Nat
    BY DEF Over, Emus
  <1>4. OneRun(e, T) = IF ran.state = "Running" THEN ServiceDue(ran) ELSE ran
    BY DEF OneRun
  <1>5. ran \in Emus /\ ran.next = e.next /\ ran.t >= e.t /\ (e.t < d => ran.t > e.t)
        /\ (ran = e \/ ran.state \in {"Running", "Paused"}) /\ ran.t \in Nat
    BY <1>2, <1>3 DEF RanFrom, Emus
  <1>6. e.t >= e.next => ran = e
    <2> HAVE e.t >= e.next
    <2>1. e.t >= d
      BY <1>1, <1>3
    <2> QED BY <1>1, <2>1, RunUntilIs
  <1> HIDE DEF d, ran
  <1>7. CASE ran.state = "Running"
    <2> DEFINE q == ServiceDue(ran)
    <2>1. /\ q \in Emus /\ q.t = ran.t /\ q.next >= ran.next
          /\ (ran.t >= ran.next => q.next = ran.next + Frame)
      BY <1>5, ServiceIs
    <2>2. OneRun(e, T) = q
      BY <1>4, <1>7
    <2> HIDE DEF q
    <2>3. CASE e.t >= e.next
      <3>1. q.t = e.t /\ q.next = e.next + Frame
        BY <1>6, <2>1, <2>3
      <3> QED BY <2>1, <2>2, <2>3, <3>1, LessLeft
    <2>4. CASE e.t < e.next
      <3>1. e.t < d
        BY <1>1, <1>3, <2>4
      <3>2. q.t > e.t /\ q.next >= e.next
        BY <1>5, <2>1, <3>1
      <3> QED BY <2>1, <2>2, <2>4, <3>2, LessLeft
    <2> QED BY <1>3, <2>3, <2>4
  <1>8. CASE ran.state # "Running"
    <2>1. OneRun(e, T) = ran
      BY <1>4, <1>8
    <2>2. Over(ran, T) /\ ran # e
      BY <1>3, <1>8 DEF Over
    <2>3. Left(ran, T) = 0
      BY <2>2 DEF Left
    <2>4. Left(e, T) = 1 + 2 * (T - e.t) + (IF e.t >= e.next THEN e.t + 1 - e.next ELSE 0)
      BY DEF Left
    <2>5. Left(e, T) > 0
      BY <1>3, <2>4
    <2> QED BY <1>5, <2>1, <2>3, <2>5
  <1> QED BY <1>7, <1>8

(* Its recursion is a definition too.                                       *)
LEMMA RunToIs ==
    ASSUME NEW T \in Nat
    PROVE  \A e \in Emus :
             /\ RunTo(e, T) \in Emus
             /\ RunTo(e, T) = IF Over(e, T) THEN e ELSE RunTo(OneRun(e, T), T)
  <1> DEFINE Done == {e \in Emus : Over(e, T)}
             m == [e \in Emus |-> Left(e, T)]
             out == [e \in Emus |-> e]
             step == [e \in Emus |-> OneRun(e, T)]
             comb == [e \in Emus |-> [v \in Emus |-> v]]
             Runs(f) == f = [x \in Emus |-> IF x.state # "Running" \/ x.t >= T THEN x
                                            ELSE f[OneRun(x, T)]]
  <1>1. m \in [Emus -> Nat]
    BY LeftIsNat
  <1>2. \A s \in Emus : s \in Done => out[s] \in Emus
    OBVIOUS
  <1>3. \A s \in Emus : s \notin Done => step[s] \in Emus /\ m[step[s]] < m[s]
    <2> TAKE s \in Emus
    <2> HAVE s \notin Done
    <2>1. step[s] \in Emus /\ step[s] = OneRun(s, T) /\ Left(OneRun(s, T), T) < Left(s, T)
      BY OneRunGets
    <2> HIDE DEF step
    <2> QED BY <2>1
  <1>4. \A s \in Emus : s \notin Done => \A v \in Emus : comb[s][v] \in Emus
    OBVIOUS
  <1>5. PICK f : Solves(f, Emus, Emus, Done, out, step, comb)
    <2> HIDE DEF m, Done, out, step, comb
    <2>1. Descends(Emus, Emus, m, Done, out, step, comb)
      BY <1>1, <1>2, <1>3, <1>4 DEF Descends
    <2> QED BY <2>1, Recursion
  <1>6. /\ f \in [Emus -> Emus]
        /\ \A s \in Emus : f[s] = IF s \in Done THEN out[s] ELSE comb[s][f[step[s]]]
    <2> HIDE DEF m, Done, out, step, comb
    <2> QED BY <1>5 DEF Solves
  <1>7. Runs(f)
    <2>1. ASSUME NEW x \in Emus
          PROVE  f[x] = IF x.state # "Running" \/ x.t >= T THEN x ELSE f[OneRun(x, T)]
      <3>1. CASE Over(x, T)
        BY <1>6, <3>1 DEF Over
      <3>2. CASE ~Over(x, T)
        <4>1. step[x] = OneRun(x, T) /\ OneRun(x, T) \in Emus
          BY <3>2, OneRunGets
        <4>2. f[OneRun(x, T)] \in Emus
          BY <1>6, <4>1
        <4>3. comb[x][f[OneRun(x, T)]] = f[OneRun(x, T)]
          BY <4>2
        <4>4. x \notin Done
          BY <3>2
        <4> HIDE DEF comb, step, Done
        <4>5. f[x] = comb[x][f[step[x]]]
          BY <1>6, <4>4
        <4> QED BY <3>2, <4>1, <4>3, <4>5 DEF Over
      <3> QED BY <3>1, <3>2
    <2> QED BY <1>6, <2>1
  <1>8. \A g, h : Runs(g) /\ Runs(h) => g = h
    <2> SUFFICES ASSUME NEW g, NEW h, Runs(g), Runs(h), g # h PROVE FALSE
      OBVIOUS
    <2>1. PICK x \in Emus : g[x] # h[x]
      OBVIOUS
    <2> DEFINE Bad == {n \in Nat : \E e \in Emus : Left(e, T) = n /\ g[e] # h[e]}
    <2>2. Bad # {} /\ Bad \in SUBSET Nat
      <3>1. Left(x, T) \in Bad
        BY <2>1, LeftIsNat
      <3> QED BY <3>1
    <2>3. PICK n \in Bad : \A y \in Bad : n <= y
      BY <2>2, Smallest
    <2>4. PICK e \in Emus : Left(e, T) = n /\ g[e] # h[e]
      BY <2>3
    <2>5. ~Over(e, T)
      BY <2>4 DEF Over
    <2>6. g[OneRun(e, T)] # h[OneRun(e, T)]
      BY <2>4, <2>5 DEF Over
    <2>7. OneRun(e, T) \in Emus /\ Left(OneRun(e, T), T) < Left(e, T)
      BY <2>5, OneRunGets
    <2>8. Left(OneRun(e, T), T) \in Bad
      BY <2>6, <2>7, LeftIsNat
    <2>9. Left(e, T) \in Nat /\ Left(OneRun(e, T), T) \in Nat
      BY <2>7, LeftIsNat
    <2> QED BY <2>3, <2>4, <2>7, <2>8, <2>9
  <1>9. ASSUME NEW e \in Emus
        PROVE  /\ RunTo(e, T) \in Emus
               /\ RunTo(e, T) = IF Over(e, T) THEN e ELSE RunTo(OneRun(e, T), T)
    <2>1. Runs(CHOOSE g : Runs(g))
      <3> HIDE DEF Runs
      <3> QED BY <1>7
    <2>2. f = CHOOSE g : Runs(g)
      <3> HIDE DEF Runs
      <3> QED BY <1>7, <1>8, <2>1
    <2>3. \A x \in Emus : RunTo(x, T) = f[x]
      BY <2>2 DEF RunTo
    <2>4. ~Over(e, T) => OneRun(e, T) \in Emus
      BY OneRunGets
    <2>5. f[e] = IF Over(e, T) THEN e ELSE f[OneRun(e, T)]
      BY <1>7 DEF Over
    <2> QED BY <1>6, <2>3, <2>4, <2>5
  <1> QED BY <1>9

-----------------------------------------------------------------------------
(* A run one instruction at a time, whatever its target. *)

Go(e) ==
    IF e.t >= e.next THEN ServiceDue(e)
    ELSE IF Stops(e) THEN Halted(CpuStep(e), "Paused")
    ELSE ServiceDue(CpuStep(e))

LEMMA GoGets ==
    ASSUME NEW e \in Emus, e.state = "Running"
    PROVE  /\ Go(e) \in Emus /\ Go(e).t >= e.t /\ Go(e).breaks = e.breaks
           /\ Go(e).state \in {"Running", "Paused"}
           /\ Go(e).state = "Paused" => Go(e).t > e.t
           /\ Go(e).state = "Running" => Go(e).landing = e.landing
           /\ \/ Go(e).t = e.t /\ e.t >= e.next /\ Go(e).next = e.next + Frame
              \/ e.t < e.next /\ Go(e).t > e.t /\ Go(e).next >= e.next
  <1> DEFINE a == CpuStep(e)
  <1>1. /\ a \in Emus /\ a.t > e.t /\ a.next = e.next
        /\ a.breaks = e.breaks /\ a.landing = e.landing /\ a.state = e.state
    BY Instructed
  <1> HIDE DEF a
  <1>2. e.t \in Nat /\ e.next \in Nat /\ a.t \in Nat
    BY <1>1 DEF Emus
  <1>3. CASE e.t >= e.next
    <2>1. Go(e) = ServiceDue(e)
      BY <1>3 DEF Go
    <2> QED BY <1>2, <1>3, <2>1, ServiceIs
  <1>4. CASE ~(e.t >= e.next) /\ Stops(e)
    <2>1. Go(e) = Halted(a, "Paused")
      BY <1>4 DEF Go, a
    <2>2. /\ Halted(a, "Paused") \in Emus /\ Halted(a, "Paused").t = a.t
          /\ Halted(a, "Paused").next = a.next /\ Halted(a, "Paused").breaks = a.breaks
          /\ Halted(a, "Paused").state = "Paused"
      BY <1>1, HaltedIs
    <2> QED BY <1>1, <1>2, <1>4, <2>1, <2>2
  <1>5. CASE ~(e.t >= e.next) /\ ~Stops(e)
    <2>1. Go(e) = ServiceDue(a)
      BY <1>5 DEF Go, a
    <2> DEFINE q == ServiceDue(a)
    <2>2. /\ q \in Emus /\ q.t = a.t /\ q.breaks = a.breaks /\ q.landing = a.landing
          /\ q.state = a.state /\ q.next >= a.next
      BY <1>1, ServiceIs
    <2> HIDE DEF q
    <2>3. Go(e) = q
      BY <2>1 DEF q
    <2> QED BY <1>1, <1>2, <1>5, <2>2, <2>3
  <1> QED BY <1>3, <1>4, <1>5

(* A run is its first instruction, or the event it finds due, and a run from *)
(* there to the same target.                                                *)
LEMMA GoUnfold ==
    ASSUME NEW T \in Nat, NEW e \in Emus, ~Over(e, T)
    PROVE  RunTo(e, T) = RunTo(Go(e), T)
  <1> DEFINE d == Deadline(e, T)
             a == CpuStep(e)
  <1>1. d \in Nat /\ d <= e.next /\ d <= T /\ d \in {e.next, T}
    BY DeadlineIs
  <1>2. /\ a \in Emus /\ a.t > e.t /\ a.next = e.next /\ a.state = e.state
    BY Instructed
  <1>3. e.state = "Running" /\ e.t < T /\ e.t \in Nat /\ e.next \in Nat /\ a.t \in Nat
    <2> HIDE DEF a
    <2> QED BY <1>2 DEF Over, Emus
  <1>4. RunTo(e, T) = RunTo(OneRun(e, T), T)
    BY RunToIs
  <1>5. OneRun(e, T) = IF RunUntil(e, d).state = "Running" THEN ServiceDue(RunUntil(e, d))
                       ELSE RunUntil(e, d)
    BY DEF OneRun
  <1>6. RunUntil(e, d) = IF e.t >= d THEN e
                         ELSE IF Stops(e) THEN Halted(a, "Paused") ELSE RunUntil(a, d)
    BY <1>1, RunUntilIs
  <1>7. Go(e) = IF e.t >= e.next THEN ServiceDue(e)
                ELSE IF Stops(e) THEN Halted(a, "Paused") ELSE ServiceDue(a)
    BY DEF Go
  <1>8. a.t >= d => RunUntil(a, d) = a
    BY <1>1, <1>2, RunUntilIs
  <1>9. Deadline(a, T) = d
    BY <1>2 DEF Deadline
  <1> HIDE DEF d, a
  <1>10. CASE e.t >= e.next
    <2>1. e.t >= d
      BY <1>1, <1>3, <1>10
    <2> QED BY <1>3, <1>4, <1>5, <1>6, <1>7, <1>10, <2>1
  <1>11. CASE ~(e.t >= e.next) /\ Stops(e)
    <2>1. ~(e.t >= d)
      BY <1>1, <1>3, <1>11
    <2>2. RunUntil(e, d) = Halted(a, "Paused") /\ Halted(a, "Paused").state = "Paused"
      BY <1>2, <1>6, <1>11, <2>1, HaltedIs
    <2> QED BY <1>4, <1>5, <1>7, <1>11, <2>2
  <1>12. CASE ~(e.t >= e.next) /\ ~Stops(e)
    <2>1. ~(e.t >= d)
      BY <1>1, <1>3, <1>12
    <2>2. RunUntil(e, d) = RunUntil(a, d) /\ Go(e) = ServiceDue(a)
      BY <1>6, <1>7, <1>12, <2>1
    <2>3. CASE a.t >= d
      <3>1. RunUntil(e, d) = a
        BY <1>8, <2>2, <2>3
      <3> QED BY <1>2, <1>3, <1>4, <1>5, <2>2, <3>1
    <2>4. CASE ~(a.t >= d)
      <3>1. OneRun(a, T) = OneRun(e, T)
        BY <1>5, <1>9, <2>2 DEF OneRun
      <3>2. a.t < T /\ a.t < a.next
        BY <1>1, <1>2, <1>3, <2>4
      <3>3. ~Over(a, T)
        BY <1>2, <1>3, <3>2 DEF Over
      <3>4. RunTo(a, T) = RunTo(OneRun(a, T), T)
        BY <1>2, <3>3, RunToIs
      <3>5. ServiceDue(a) = a
        BY <1>2, <3>2, ServiceIs
      <3> QED BY <1>4, <2>2, <3>1, <3>4, <3>5
    <2> QED BY <2>3, <2>4
  <1> QED BY <1>10, <1>11, <1>12

(* Induction along a run.                                                   *)
LEMMA GoInduct ==
    ASSUME NEW T \in Nat, NEW P,
           \A e \in Emus : Over(e, T) => e \in P,
           \A e \in Emus : ~Over(e, T) /\ Go(e) \in P => e \in P
    PROVE  Emus \subseteq P
  <1> SUFFICES ASSUME NEW x \in Emus, x \notin P PROVE FALSE
    OBVIOUS
  <1> DEFINE Bad == {n \in Nat : \E e \in Emus : Left(e, T) = n /\ e \notin P}
  <1>1. Bad # {} /\ Bad \in SUBSET Nat
    <2>1. Left(x, T) \in Bad
      BY LeftIsNat
    <2> QED BY <2>1
  <1>2. PICK n \in Bad : \A y \in Bad : n <= y
    BY <1>1, Smallest
  <1>3. PICK e \in Emus : Left(e, T) = n /\ e \notin P
    BY <1>2
  <1>4. ~Over(e, T) /\ Go(e) \notin P
    BY <1>3
  <1>5. Go(e) \in Emus /\ Left(Go(e), T) < Left(e, T)
    <2>1. e.state = "Running"
      BY <1>4 DEF Over
    <2> QED BY <1>4, <2>1, GoGets, LessLeft
  <1>6. Left(Go(e), T) \in Bad
    BY <1>4, <1>5, LeftIsNat
  <1>7. Left(Go(e), T) \in Nat /\ Left(e, T) \in Nat
    BY <1>5, LeftIsNat
  <1> QED BY <1>2, <1>3, <1>5, <1>6, <1>7

(* A run gets later, or was over.                                           *)
LEMMA Later ==
    ASSUME NEW T \in Nat
    PROVE  \A e \in Emus : /\ RunTo(e, T) \in Emus
                           /\ RunTo(e, T).t >= e.t
                           /\ ~Over(e, T) => RunTo(e, T).t > e.t
                           /\ RunTo(e, T).breaks = e.breaks
                           /\ Over(RunTo(e, T), T)
  <1> DEFINE P == {e \in Emus : /\ RunTo(e, T).t >= e.t
                                /\ ~Over(e, T) => RunTo(e, T).t > e.t
                                /\ RunTo(e, T).breaks = e.breaks
                                /\ Over(RunTo(e, T), T)}
  <1>1. ASSUME NEW e \in Emus, Over(e, T) PROVE e \in P
    <2>1. RunTo(e, T) = e /\ e.t \in Nat
      BY <1>1, RunToIs DEF Emus
    <2> QED BY <1>1, <2>1
  <1>2. ASSUME NEW e \in Emus, ~Over(e, T), Go(e) \in P PROVE e \in P
    <2>1. RunTo(e, T) = RunTo(Go(e), T)
      BY <1>2, GoUnfold
    <2>2. e.state = "Running" /\ ~(e.t >= T)
      BY <1>2 DEF Over
    <2>3. /\ Go(e) \in Emus /\ Go(e).t >= e.t /\ Go(e).breaks = e.breaks
          /\ Go(e).state \in {"Running", "Paused"}
          /\ Go(e).state = "Paused" => Go(e).t > e.t
      BY <2>2, GoGets
    <2>4. RunTo(Go(e), T) \in Emus
      BY <2>3, RunToIs
    <2>5. e.t \in Nat /\ Go(e).t \in Nat /\ RunTo(Go(e), T).t \in Nat
      BY <2>3, <2>4 DEF Emus
    <2>6. RunTo(Go(e), T).t > e.t
      <3>1. CASE Over(Go(e), T)
        BY <1>2, <2>2, <2>3, <2>5, <3>1 DEF Over
      <3>2. CASE ~Over(Go(e), T)
        BY <1>2, <2>3, <2>5, <3>2
      <3> QED BY <3>1, <3>2
    <2> QED BY <1>2, <2>1, <2>3, <2>5, <2>6
  <1>3. Emus \subseteq P
    <2> HIDE DEF P
    <2> QED BY <1>1, <1>2, GoInduct
  <1> QED BY <1>3, RunToIs

(* A run to a on the way to b changes nothing.                              *)
LEMMA Split ==
    ASSUME NEW a \in Nat, NEW b \in Nat, a <= b
    PROVE  \A e \in Emus : RunTo(RunTo(e, a), b) = RunTo(e, b)
  <1> DEFINE P == {e \in Emus : RunTo(RunTo(e, a), b) = RunTo(e, b)}
  <1>1. ASSUME NEW e \in Emus, Over(e, a) PROVE e \in P
    BY <1>1, RunToIs
  <1>2. ASSUME NEW e \in Emus, ~Over(e, a), Go(e) \in P PROVE e \in P
    <2>1. ~Over(e, b)
      BY <1>2 DEF Over, Emus
    <2> QED BY <1>2, <2>1, GoUnfold
  <1>3. Emus \subseteq P
    <2> HIDE DEF P
    <2> QED BY <1>1, <1>2, GoInduct
  <1> QED BY <1>3

(* A run aimed at the moment another one reached reaches what it reached.    *)
LEMMA Reach ==
    ASSUME NEW T \in Nat
    PROVE  \A e \in Emus : RunTo(e, RunTo(e, T).t) = RunTo(e, T)
  <1> DEFINE P == {e \in Emus : RunTo(e, RunTo(e, T).t) = RunTo(e, T)}
  <1>1. ASSUME NEW e \in Emus, Over(e, T) PROVE e \in P
    <2>1. RunTo(e, T) = e /\ e.t \in Nat /\ Over(e, e.t)
      BY <1>1, RunToIs DEF Emus, Over
    <2> QED BY <2>1, RunToIs
  <1>2. ASSUME NEW e \in Emus, ~Over(e, T), Go(e) \in P PROVE e \in P
    <2> DEFINE q == RunTo(e, T)
    <2>1. q = RunTo(Go(e), T) /\ q \in Emus /\ q.t > e.t
      BY <1>2, GoUnfold, Later
    <2>2. q.t \in Nat /\ RunTo(Go(e), q.t) = q
      BY <1>2, <2>1 DEF Emus
    <2> HIDE DEF q
    <2>3. ~Over(e, q.t)
      BY <1>2, <2>1, <2>2 DEF Over, Emus
    <2>4. RunTo(e, q.t) = RunTo(Go(e), q.t)
      BY <2>2, <2>3, GoUnfold
    <2>5. RunTo(e, RunTo(e, T).t) = RunTo(e, T)
      BY <2>2, <2>4 DEF q
    <2> QED BY <2>5
  <1>3. Emus \subseteq P
    <2> HIDE DEF P
    <2> QED BY <1>1, <1>2, GoInduct
  <1> QED BY <1>3

-----------------------------------------------------------------------------
(* Two machines in step, the second with no breakpoints. *)

Alike(e, r) ==
    /\ Machine(e) = Machine(r) /\ r.breaks = {}
    /\ e.state = "Running" => r.state = "Running" /\ r.landing = e.landing

(* A breakpoint stopped it with an event due.                               *)
StoppedDue(q, breaks) == q.state = "Paused" /\ q.t >= q.next /\ q.pc \in breaks

LEMMA SameMoments ==
    ASSUME NEW e \in Emus, NEW r \in Emus, Machine(e) = Machine(r)
    PROVE  e.t = r.t /\ e.next = r.next /\ e.pc = r.pc
  BY DEF Machine

LEMMA GoAlike ==
    ASSUME NEW e \in Emus, NEW r \in Emus, e.state = "Running", Alike(e, r)
    PROVE  Alike(Go(e), Go(r)) \/ StoppedDue(Go(e), e.breaks)
  <1> DEFINE a == CpuStep(e)
             b == CpuStep(r)
  <1>1. /\ Machine(e) = Machine(r) /\ r.breaks = {} /\ r.state = "Running"
        /\ r.landing = e.landing /\ e.t = r.t /\ e.next = r.next
    BY SameMoments DEF Alike
  <1>2. /\ a \in Emus /\ a.t > e.t /\ a.next = e.next
        /\ a.breaks = e.breaks /\ a.landing = e.landing /\ a.state = e.state
    BY Instructed
  <1>3. /\ b \in Emus /\ b.breaks = r.breaks /\ b.landing = r.landing /\ b.state = r.state
    BY Instructed
  <1>4. Machine(a) = Machine(b)
    BY <1>1, SameInstruction
  <1>5. Stops(e) <=> a.pc \in e.landing \cup e.breaks
    BY DEF Stops
  <1>6. Stops(r) <=> b.pc \in r.landing \cup r.breaks
    BY DEF Stops
  <1>7. Go(e) = IF e.t >= e.next THEN ServiceDue(e)
                ELSE IF Stops(e) THEN Halted(a, "Paused") ELSE ServiceDue(a)
    BY DEF Go
  <1>8. Go(r) = IF r.t >= r.next THEN ServiceDue(r)
                ELSE IF Stops(r) THEN Halted(b, "Paused") ELSE ServiceDue(b)
    BY DEF Go
  <1> HIDE DEF a, b
  <1>9. a.t = b.t /\ a.next = b.next /\ a.pc = b.pc
    BY <1>2, <1>3, <1>4, SameMoments
  <1>10. CASE e.t >= e.next
    <2>1. Go(e) = ServiceDue(e) /\ Go(r) = ServiceDue(r)
      BY <1>1, <1>7, <1>8, <1>10
    <2>2. Machine(Go(e)) = Machine(Go(r))
      BY <1>1, <2>1, SameService
    <2> QED BY <1>1, <2>1, <2>2, ServiceIs DEF Alike
  <1>11. CASE ~(e.t >= e.next) /\ ~Stops(e)
    <2>1. ~Stops(r)
      BY <1>1, <1>5, <1>6, <1>9, <1>11
    <2>2. Go(e) = ServiceDue(a) /\ Go(r) = ServiceDue(b)
      BY <1>1, <1>7, <1>8, <1>11, <2>1
    <2>3. Machine(Go(e)) = Machine(Go(r))
      BY <1>2, <1>3, <1>4, <2>2, SameService
    <2>4. /\ ServiceDue(b).breaks = {} /\ ServiceDue(b).state = "Running"
          /\ ServiceDue(b).landing = e.landing /\ ServiceDue(a).landing = e.landing
      BY <1>1, <1>2, <1>3, ServiceIs
    <2> QED BY <2>2, <2>3, <2>4 DEF Alike
  <1>12. CASE ~(e.t >= e.next) /\ Stops(e)
    <2>1. Go(e) = Halted(a, "Paused")
      BY <1>7, <1>12
    <2>2. /\ Machine(Go(e)) = Machine(a) /\ Go(e).state = "Paused"
          /\ Go(e).t = a.t /\ Go(e).next = a.next /\ Go(e).pc = a.pc
      BY <1>2, <2>1, HaltedIs
    <2>3. CASE Stops(r)
      <3>1. Go(r) = Halted(b, "Paused")
        BY <1>1, <1>8, <1>12, <2>3
      <3>2. Machine(Go(r)) = Machine(b) /\ Go(r).breaks = b.breaks
        BY <1>3, <3>1, HaltedIs
      <3> QED BY <1>1, <1>3, <1>4, <2>2, <3>2 DEF Alike
    <2>4. CASE ~Stops(r)
      <3>1. Go(r) = ServiceDue(b)
        BY <1>1, <1>8, <1>12, <2>4
      <3>2. a.pc \in e.breaks
        BY <1>1, <1>3, <1>5, <1>6, <1>9, <1>12, <2>4
      <3>3. CASE a.t >= a.next
        BY <2>2, <3>2, <3>3 DEF StoppedDue
      <3>4. CASE ~(a.t >= a.next)
        <4>1. b.t < b.next
          BY <1>2, <1>9, <3>4 DEF Emus
        <4>2. Go(r) = b
          BY <1>3, <3>1, <4>1, ServiceIs
        <4> QED BY <1>1, <1>3, <1>4, <2>2, <4>2 DEF Alike
      <3> QED BY <3>3, <3>4
    <2> QED BY <2>3, <2>4
  <1> QED BY <1>10, <1>11, <1>12

(* The second one, run to where the first one stopped, is in step with it,   *)
(* unless a breakpoint it has not got stopped the first with an event due.   *)
LEMMA Lockstep ==
    ASSUME NEW T \in Nat
    PROVE  \A e, r \in Emus :
             Alike(e, r) => \/ Alike(RunTo(e, T), RunTo(r, RunTo(e, T).t))
                            \/ StoppedDue(RunTo(e, T), e.breaks)
  <1> DEFINE P == {e \in Emus : \A r \in Emus :
                     Alike(e, r) => \/ Alike(RunTo(e, T), RunTo(r, RunTo(e, T).t))
                                    \/ StoppedDue(RunTo(e, T), e.breaks)}
  <1>1. ASSUME NEW e \in Emus, Over(e, T) PROVE e \in P
    <2>1. ASSUME NEW r \in Emus, Alike(e, r) PROVE Alike(RunTo(e, T), RunTo(r, RunTo(e, T).t))
      <3>1. RunTo(e, T) = e
        BY <1>1, RunToIs
      <3>2. r.t = e.t /\ r.t \in Nat /\ r.t >= r.t
        BY <2>1, SameMoments DEF Alike, Emus
      <3>3. Over(r, e.t)
        BY <3>2 DEF Over
      <3>4. RunTo(r, e.t) = r
        BY <3>2, <3>3, RunToIs
      <3> QED BY <2>1, <3>1, <3>4
    <2> QED BY <2>1
  <1>2. ASSUME NEW e \in Emus, ~Over(e, T), Go(e) \in P PROVE e \in P
    <2>1. ASSUME NEW r \in Emus, Alike(e, r)
          PROVE  \/ Alike(RunTo(e, T), RunTo(r, RunTo(e, T).t))
                 \/ StoppedDue(RunTo(e, T), e.breaks)
      <3> DEFINE q == RunTo(e, T)
      <3>1. q = RunTo(Go(e), T) /\ q \in Emus /\ q.t > e.t
        BY <1>2, GoUnfold, Later
      <3>2. e.state = "Running" /\ r.state = "Running" /\ r.t = e.t
        BY <1>2, <2>1, SameMoments DEF Over, Alike
      <3>3. Go(e).breaks = e.breaks /\ Go(e) \in Emus /\ Go(r) \in Emus
        BY <3>2, GoGets
      <3> HIDE DEF q
      <3>4. RunTo(r, q.t) = RunTo(Go(r), q.t)
        <4>1. q.t \in Nat /\ ~(r.t >= q.t)
          BY <3>1, <3>2 DEF Emus
        <4>2. ~Over(r, q.t)
          BY <3>2, <4>1 DEF Over
        <4> QED BY <4>1, <4>2, GoUnfold
      <3>5. CASE Alike(Go(e), Go(r))
        <4>1. \/ Alike(q, RunTo(Go(r), q.t))
              \/ StoppedDue(q, e.breaks)
          BY <1>2, <3>1, <3>3, <3>5
        <4> QED BY <3>4, <4>1 DEF q
      <3>6. CASE StoppedDue(Go(e), e.breaks)
        <4>1. Over(Go(e), T)
          BY <3>6 DEF StoppedDue, Over
        <4>2. q = Go(e)
          BY <3>1, <3>3, <4>1, RunToIs
        <4> QED BY <3>6, <4>2 DEF q
      <3> QED BY <2>1, <3>2, <3>5, <3>6, GoAlike
    <2> QED BY <2>1
  <1>3. Emus \subseteq P
    <2> HIDE DEF P
    <2> QED BY <1>1, <1>2, GoInduct
  <1> QED BY <1>3

-----------------------------------------------------------------------------
(* What a command does, and the machine a log has come to. *)

Entries == [t : Nat, command : Commands]

LEMMA CommandIs ==
    ASSUME NEW c \in Commands
    PROVE  /\ c.op \in {"Resume", "Pause", "Step", "StepOver", "Quit", "RunTo", "SetPc", "Input",
                        "Break", "Unbreak"}
           /\ c.op \in {"RunTo", "SetPc", "Break", "Unbreak"} => c.arg \in Addr
           /\ c.op = "Input" => c.arg \in Nat
           /\ c.op \in {"Break", "Unbreak"} => c \in Arming
  BY ReplayAssumption DEF Commands, Command, Arming

(* A movement over or to an address arms it and goes on.                    *)
Armed(e, a) == [e EXCEPT !.landing = {a}, !.state = "Running"]

LEMMA ArmedIs ==
    ASSUME NEW e \in Emus, NEW a \in Addr
    PROVE  /\ Armed(e, a) \in Emus /\ Machine(Armed(e, a)) = Machine(e)
           /\ Armed(e, a).t = e.t /\ Armed(e, a).breaks = e.breaks
           /\ Armed(e, a).landing = {a} /\ Armed(e, a).state = "Running"
  <1> DEFINE L == {a}
             q == [e EXCEPT !.landing = L, !.state = "Running"]
  <1>1. L \in SUBSET Addr /\ Armed(e, a) = q
    BY DEF Armed
  <1> HIDE DEF L
  <1>2. q \in Emus
    BY <1>1 DEF Emus
  <1>3. Machine(q) = Machine(e) /\ q.t = e.t /\ q.breaks = e.breaks
        /\ q.landing = L /\ q.state = "Running"
    BY <1>1 DEF Machine, Emus
  <1> HIDE DEF q
  <1> QED BY <1>1, <1>2, <1>3 DEF L

LEMMA OverIs ==
    ASSUME NEW e \in Emus
    PROVE  /\ StepOver(e) \in Emus /\ StepOver(e).t >= e.t /\ StepOver(e).breaks = e.breaks
           /\ StepOver(e).state \in {"Paused", "Running"}
           /\ Machine(StepOver(e)) = Machine(CpuStep(e))
           /\ StepOver(e).state = "Running" => StepOver(e).landing = {e.pc + 1}
           /\ StepOver(e).state = "Running" <=>
                ~(Prog[e.pc].op # "repeat" \/ CpuStep(e).pc = e.pc + 1)
  <1> DEFINE a == CpuStep(e)
  <1>1. a \in Emus /\ a.t > e.t /\ a.breaks = e.breaks
    BY Instructed
  <1>2. StepOver(e) = IF Prog[e.pc].op # "repeat" \/ a.pc = e.pc + 1 THEN Halted(a, "Paused")
                      ELSE [a EXCEPT !.landing = {e.pc + 1}, !.state = "Running"]
    BY DEF StepOver
  <1> HIDE DEF a
  <1>3. e.t \in Nat /\ a.t \in Nat
    BY <1>1 DEF Emus
  <1>4. CASE Prog[e.pc].op # "repeat" \/ a.pc = e.pc + 1
    <2>1. StepOver(e) = Halted(a, "Paused")
      BY <1>2, <1>4
    <2> QED BY <1>1, <1>3, <1>4, <2>1, HaltedIs DEF a
  <1>5. CASE ~(Prog[e.pc].op # "repeat" \/ a.pc = e.pc + 1)
    <2>1. StepOver(e) = Armed(a, e.pc + 1)
      BY <1>2, <1>5 DEF Armed
    <2>2. e.pc + 1 \in Addr
      BY <1>5, ProgAssumption DEF Emus
    <2>3. /\ StepOver(e) \in Emus /\ Machine(StepOver(e)) = Machine(a)
          /\ StepOver(e).t = a.t /\ StepOver(e).breaks = a.breaks
          /\ StepOver(e).landing = {e.pc + 1} /\ StepOver(e).state = "Running"
      BY <1>1, <2>1, <2>2, ArmedIs
    <2> QED BY <1>1, <1>3, <1>5, <2>3 DEF a
  <1> QED BY <1>4, <1>5

LEMMA StepIs ==
    ASSUME NEW e \in Emus
    PROVE  /\ OneStep(e) \in Emus /\ OneStep(e).t >= e.t /\ OneStep(e).breaks = e.breaks
           /\ OneStep(e).state = "Paused"
           /\ Machine(OneStep(e)) = Machine(CpuStep(e))
  <1> DEFINE a == CpuStep(e)
  <1>1. a \in Emus /\ a.t > e.t /\ a.breaks = e.breaks /\ OneStep(e) = Halted(a, "Paused")
    BY Instructed DEF OneStep
  <1> HIDE DEF a
  <1>2. e.t \in Nat /\ a.t \in Nat
    BY <1>1 DEF Emus
  <1> QED BY <1>1, <1>2, HaltedIs DEF a

(* No command takes time back, and only the arming ones touch breakpoints.   *)
LEMMA EffectIs ==
    ASSUME NEW e \in Emus, NEW c \in Commands
    PROVE  /\ Effect(e, c) \in Emus
           /\ Effect(e, c).t >= e.t
           /\ c \notin Arming => Effect(e, c).breaks = e.breaks
  <1>1. /\ c.op \in {"Resume", "Pause", "Step", "StepOver", "Quit", "RunTo", "SetPc", "Input",
                     "Break", "Unbreak"}
        /\ c.op \in {"RunTo", "SetPc", "Break", "Unbreak"} => c.arg \in Addr
        /\ c.op = "Input" => c.arg \in Nat
        /\ c.op \in {"Break", "Unbreak"} => c \in Arming
    BY CommandIs
  <1>2. e.t \in Nat /\ e.t >= e.t
    BY DEF Emus
  <1>3. CASE c.op = "Resume"
    <2>1. Effect(e, c) = Halted(e, "Running")
      BY <1>3 DEF Effect
    <2> QED BY <1>2, <2>1, HaltedIs
  <1>4. CASE c.op = "Pause"
    <2>1. Effect(e, c) = [e EXCEPT !.state = "Paused"]
      BY <1>4 DEF Effect
    <2> QED BY <1>2, <2>1 DEF Emus
  <1>5. CASE c.op = "Step"
    <2>1. Effect(e, c) = OneStep(e)
      BY <1>5 DEF Effect
    <2> QED BY <2>1, StepIs
  <1>6. CASE c.op = "StepOver"
    <2>1. Effect(e, c) = StepOver(e)
      BY <1>6 DEF Effect
    <2> QED BY <2>1, OverIs
  <1>7. CASE c.op = "RunTo"
    <2>1. Effect(e, c) = Armed(e, c.arg)
      BY <1>7 DEF Effect, Armed
    <2>2. c.arg \in Addr
      BY <1>1, <1>7
    <2> QED BY <1>2, <2>1, <2>2, ArmedIs
  <1>8. CASE c.op = "Break"
    <2>1. Effect(e, c) = [e EXCEPT !.breaks = @ \cup {c.arg}]
      BY <1>8 DEF Effect
    <2> QED BY <1>1, <1>2, <1>8, <2>1 DEF Emus
  <1>9. CASE c.op = "Unbreak"
    <2>1. Effect(e, c) = [e EXCEPT !.breaks = @ \ {c.arg}]
      BY <1>9 DEF Effect
    <2> QED BY <1>1, <1>2, <1>9, <2>1 DEF Emus
  <1>10. CASE c.op = "Input"
    <2>1. Effect(e, c) = [e EXCEPT !.byte = c.arg]
      BY <1>10 DEF Effect
    <2> QED BY <1>1, <1>2, <1>10, <2>1 DEF Emus
  <1>11. CASE c.op = "SetPc"
    <2>1. Effect(e, c) = [e EXCEPT !.pc = c.arg]
      BY <1>11 DEF Effect
    <2> QED BY <1>1, <1>2, <1>11, <2>1 DEF Emus
  <1>12. CASE c.op = "Quit"
    <2>1. Effect(e, c) = [e EXCEPT !.state = "Exited"]
      BY <1>12 DEF Effect
    <2> QED BY <1>2, <2>1 DEF Emus
  <1> QED BY <1>1, <1>3, <1>4, <1>5, <1>6, <1>7, <1>8, <1>9, <1>10, <1>11, <1>12

(* It keeps two machines in step.                                           *)
LEMMA EffectAlike ==
    ASSUME NEW e \in Emus, NEW r \in Emus, NEW c \in Commands, c \notin Arming, Alike(e, r)
    PROVE  Alike(Effect(e, c), Effect(r, c))
  <1>1. /\ c.op \in {"Resume", "Pause", "Step", "StepOver", "Quit", "RunTo", "SetPc", "Input"}
    BY CommandIs
  <1>2. /\ Machine(e) = Machine(r) /\ e.pc = r.pc /\ r.breaks = {}
        /\ e.state = "Running" => r.state = "Running" /\ r.landing = e.landing
    BY SameMoments DEF Alike
  <1>3. Effect(r, c).breaks = {}
    BY <1>2, EffectIs
  <1>4. Machine(CpuStep(e)) = Machine(CpuStep(r)) /\ CpuStep(e).pc = CpuStep(r).pc
    BY <1>2, SameInstruction, SameMoments, Instructed
  <1>5. CASE c.op = "Resume"
    <2>1. Effect(e, c) = Halted(e, "Running") /\ Effect(r, c) = Halted(r, "Running")
      BY <1>5 DEF Effect
    <2>2. /\ Machine(Effect(e, c)) = Machine(e) /\ Effect(e, c).landing = {}
          /\ Machine(Effect(r, c)) = Machine(r) /\ Effect(r, c).landing = {}
          /\ Effect(r, c).state = "Running"
      BY <2>1, HaltedIs
    <2> QED BY <1>2, <1>3, <2>2 DEF Alike
  <1>6. CASE c.op = "Pause"
    <2>1. Effect(e, c) = [e EXCEPT !.state = "Paused"] /\ Effect(r, c) = [r EXCEPT !.state = "Paused"]
      BY <1>6 DEF Effect
    <2> QED BY <1>2, <1>3, <2>1 DEF Alike, Machine, Emus
  <1>7. CASE c.op = "Step"
    <2>1. Effect(e, c) = OneStep(e) /\ Effect(r, c) = OneStep(r)
      BY <1>7 DEF Effect
    <2> QED BY <1>3, <1>4, <2>1, StepIs DEF Alike
  <1>8. CASE c.op = "StepOver"
    <2>1. Effect(e, c) = StepOver(e) /\ Effect(r, c) = StepOver(r)
      BY <1>8 DEF Effect
    <2>2. StepOver(e).state = "Running" =>
            StepOver(r).state = "Running" /\ StepOver(r).landing = StepOver(e).landing
      BY <1>2, <1>4, OverIs
    <2> QED BY <1>3, <1>4, <2>1, <2>2, OverIs DEF Alike
  <1>9. CASE c.op = "RunTo"
    <2>1. /\ Effect(e, c) = [e EXCEPT !.landing = {c.arg}, !.state = "Running"]
          /\ Effect(r, c) = [r EXCEPT !.landing = {c.arg}, !.state = "Running"]
      BY <1>9 DEF Effect
    <2> QED BY <1>2, <1>3, <2>1 DEF Alike, Machine, Emus
  <1>10. CASE c.op = "Input"
    <2>1. Effect(e, c) = [e EXCEPT !.byte = c.arg] /\ Effect(r, c) = [r EXCEPT !.byte = c.arg]
      BY <1>10 DEF Effect
    <2> QED BY <1>2, <1>3, <2>1 DEF Alike, Machine, Emus
  <1>11. CASE c.op = "SetPc"
    <2>1. Effect(e, c) = [e EXCEPT !.pc = c.arg] /\ Effect(r, c) = [r EXCEPT !.pc = c.arg]
      BY <1>11 DEF Effect
    <2> QED BY <1>2, <1>3, <2>1 DEF Alike, Machine, Emus
  <1>12. CASE c.op = "Quit"
    <2>1. Effect(e, c) = [e EXCEPT !.state = "Exited"] /\ Effect(r, c) = [r EXCEPT !.state = "Exited"]
      BY <1>12 DEF Effect
    <2> QED BY <1>2, <1>3, <2>1 DEF Alike, Machine, Emus
  <1> QED BY <1>1, <1>5, <1>6, <1>7, <1>8, <1>9, <1>10, <1>11, <1>12

-----------------------------------------------------------------------------
(* replay's fold. *)

BaseOf(q) ==
    FoldLeft(LAMBDA e, entry : Effect(RunTo(e, entry.t), entry.command), Start, q)

After(e, entry) == Effect(RunTo(e, entry.t), entry.command)

LEMMA AfterIs ==
    ASSUME NEW e \in Emus, NEW x \in Entries
    PROVE  After(e, x) \in Emus
  <1>1. x.t \in Nat /\ x.command \in Commands
    BY DEF Entries
  <1>2. RunTo(e, x.t) \in Emus
    BY <1>1, RunToIs
  <1> QED BY <1>1, <1>2, EffectIs DEF After

LEMMA StartIs == Start \in Emus
  BY ReplayAssumption DEF Start, Emus

(* The fold's iteration, from the last entry of a set of them down.         *)
Iterates(f, q) ==
    f = [s \in SUBSET DOMAIN q |-> IF s = {} THEN Start
                                   ELSE After(f[s \ {Max(s)}], q[Max(s)])]

LEMMA IterationIs ==
    ASSUME NEW q \in Seq(Entries)
    PROVE  /\ \E f : Iterates(f, q)
           /\ BaseOf(q) = (CHOOSE f : Iterates(f, q))[DOMAIN q]
  <1> DEFINE n == Len(q)
             S == SUBSET (1 .. n)
             Done == {{}}
             m == [s \in S |-> IF s = {} THEN 0 ELSE Max(s)]
             out == [s \in S |-> Start]
             step == [s \in S |-> s \ {Max(s)}]
             comb == [s \in S |-> [v \in Emus |-> After(v, q[Max(s)])]]
  <1>1. n \in Nat /\ DOMAIN q = 1 .. n /\ \A i \in 1 .. n : q[i] \in Entries
    OBVIOUS
  <1>2. ASSUME NEW s \in S, s # {}
        PROVE  Max(s) \in s /\ Max(s) \in 1 .. n /\ \A y \in s : Max(s) >= y
    <2>1. Max(s) \in s /\ \A y \in s : Max(s) >= y
      BY <1>1, <1>2, Greatest
    <2> QED BY <2>1
  <1>3. m \in [S -> Nat]
    <2>1. ASSUME NEW s \in S PROVE (IF s = {} THEN 0 ELSE Max(s)) \in Nat
      BY <1>2
    <2> QED BY <2>1
  <1>4. ASSUME NEW s \in S, s \notin Done PROVE step[s] \in S /\ m[step[s]] < m[s]
    <2>1. s # {} /\ step[s] = s \ {Max(s)} /\ step[s] \in S /\ m[s] = Max(s)
      BY <1>4
    <2>2. Max(s) \in s /\ Max(s) \in 1 .. n /\ \A y \in s : Max(s) >= y
      BY <1>2, <2>1
    <2>3. CASE step[s] = {}
      <3>1. m[step[s]] = 0
        BY <2>1, <2>3
      <3> HIDE DEF m
      <3> QED BY <1>1, <2>1, <2>2, <3>1
    <2>4. CASE step[s] # {}
      <3>1. m[step[s]] = Max(step[s])
        BY <2>1, <2>4
      <3>2. Max(step[s]) \in step[s] /\ Max(step[s]) \in 1 .. n
        BY <1>2, <2>1, <2>4
      <3> HIDE DEF m
      <3>3. Max(step[s]) \in s /\ Max(step[s]) # Max(s)
        BY <2>1, <3>2
      <3> HIDE DEF step
      <3> QED BY <1>1, <2>1, <2>2, <3>1, <3>2, <3>3
    <2> QED BY <2>1, <2>3, <2>4
  <1>5. ASSUME NEW s \in S, s \notin Done, NEW v \in Emus PROVE comb[s][v] \in Emus
    <2>1. q[Max(s)] \in Entries
      BY <1>1, <1>2, <1>5
    <2> QED BY <2>1, AfterIs
  <1>6. \A s \in S : s \in Done => out[s] \in Emus
    BY StartIs
  <1>7. PICK f : Solves(f, S, Emus, Done, out, step, comb)
    <2> HIDE DEF S, m, Done, out, step, comb
    <2>1. Descends(S, Emus, m, Done, out, step, comb)
      BY <1>3, <1>4, <1>5, <1>6 DEF Descends
    <2> QED BY <2>1, Recursion
  <1>8. Iterates(f, q)
    <2>1. f \in [S -> Emus] /\ \A s \in S : f[s] = IF s \in Done THEN out[s] ELSE comb[s][f[step[s]]]
      <3> HIDE DEF S, m, Done, out, step, comb
      <3> QED BY <1>7 DEF Solves
    <2>2. ASSUME NEW s \in S
          PROVE  f[s] = IF s = {} THEN Start ELSE After(f[s \ {Max(s)}], q[Max(s)])
      <3>1. CASE s = {}
        BY <2>1, <3>1
      <3>2. CASE s # {}
        <4>1. step[s] = s \ {Max(s)} /\ step[s] \in S /\ s \notin Done
          BY <3>2
        <4>2. f[step[s]] \in Emus
          BY <2>1, <4>1
        <4>3. comb[s][f[step[s]]] = After(f[step[s]], q[Max(s)])
          <5> HIDE DEF step
          <5> QED BY <4>2
        <4>4. f[s] = comb[s][f[step[s]]]
          <5> HIDE DEF step, comb, out, Done
          <5> QED BY <2>1, <4>1
        <4> HIDE DEF step, comb
        <4> QED BY <3>2, <4>1, <4>3, <4>4
      <3> QED BY <3>1, <3>2
    <2> QED BY <1>1, <2>1, <2>2 DEF Iterates
  <1>9. BaseOf(q) = (CHOOSE g : Iterates(g, q))[DOMAIN q]
    BY DEF BaseOf, FoldLeft, MapThenFoldSet, Iterates, After
  <1> QED BY <1>8, <1>9

(* An entry more is a run to its stamp more, and its command.               *)
LEMMA BaseAppend ==
    ASSUME NEW q \in Seq(Entries), NEW x \in Entries
    PROVE  /\ BaseOf(q) \in Emus
           /\ BaseOf(Append(q, x)) = After(BaseOf(q), x)
  <1> DEFINE n == Len(q)
             w == Append(q, x)
             f == CHOOSE h : Iterates(h, q)
             g == CHOOSE h : Iterates(h, w)
  <1>1. /\ n \in Nat /\ w \in Seq(Entries) /\ DOMAIN q = 1 .. n /\ DOMAIN w = 1 .. (n + 1)
        /\ w[n + 1] = x /\ \A i \in 1 .. n : w[i] = q[i] /\ q[i] \in Entries
    OBVIOUS
  <1> HIDE DEF n, w
  <1>2. BaseOf(q) = f[1 .. n] /\ Iterates(f, q)
    BY <1>1, IterationIs
  <1>3. BaseOf(w) = g[1 .. (n + 1)] /\ Iterates(g, w)
    BY <1>1, IterationIs
  <1> HIDE DEF f, g
  <1>4. \A s \in SUBSET (1 .. n) :
          f[s] = IF s = {} THEN Start ELSE After(f[s \ {Max(s)}], q[Max(s)])
    BY <1>1, <1>2 DEF Iterates
  <1>5. \A s \in SUBSET (1 .. (n + 1)) :
          g[s] = IF s = {} THEN Start ELSE After(g[s \ {Max(s)}], w[Max(s)])
    BY <1>1, <1>3 DEF Iterates
  <1>6. ASSUME NEW k \in Nat, k <= n
        PROVE  g[1 .. (k + 1)] = After(g[1 .. k], w[k + 1])
    <2>1. 1 .. (k + 1) \in SUBSET (1 .. (n + 1))
      BY <1>1, <1>6
    <2>2. g[1 .. (k + 1)] = After(g[(1 .. (k + 1)) \ {Max(1 .. (k + 1))}], w[Max(1 .. (k + 1))])
      BY <1>5, <2>1, FirstOnes
    <2> QED BY <2>2, FirstOnes
  <1>7. ASSUME NEW k \in Nat, k + 1 <= n
        PROVE  f[1 .. (k + 1)] = After(f[1 .. k], q[k + 1])
    <2>1. 1 .. (k + 1) \in SUBSET (1 .. n)
      BY <1>1, <1>7
    <2>2. f[1 .. (k + 1)] = After(f[(1 .. (k + 1)) \ {Max(1 .. (k + 1))}], q[Max(1 .. (k + 1))])
      BY <1>4, <2>1, FirstOnes
    <2> QED BY <2>2, FirstOnes
  <1> DEFINE Good == {k \in Nat : k <= n => f[1 .. k] \in Emus /\ g[1 .. k] = f[1 .. k]}
  <1>8. 0 \in Good
    <2>1. 1 .. 0 = {} /\ {} \in SUBSET (1 .. n) /\ {} \in SUBSET (1 .. (n + 1))
      OBVIOUS
    <2>2. f[1 .. 0] = Start /\ g[1 .. 0] = Start
      BY <1>4, <1>5, <2>1
    <2> QED BY <2>2, StartIs
  <1>9. ASSUME NEW k \in Nat, k \in Good PROVE k + 1 \in Good
    <2>1. ASSUME k + 1 <= n PROVE f[1 .. (k + 1)] \in Emus /\ g[1 .. (k + 1)] = f[1 .. (k + 1)]
      <3>1. k <= n /\ k + 1 \in 1 .. n
        BY <1>1, <2>1
      <3>2. f[1 .. k] \in Emus /\ g[1 .. k] = f[1 .. k]
        BY <1>9, <3>1
      <3>3. w[k + 1] = q[k + 1] /\ q[k + 1] \in Entries
        BY <1>1, <3>1
      <3> QED BY <1>6, <1>7, <2>1, <3>1, <3>2, <3>3, AfterIs
    <2> QED BY <2>1
  <1>10. f[1 .. n] \in Emus /\ g[1 .. n] = f[1 .. n]
    <2>1. n \in Good
      <3> HIDE DEF Good
      <3> QED BY <1>1, <1>8, <1>9, Induct
    <2> QED BY <1>1, <2>1
  <1>11. n <= n
    BY <1>1
  <1> QED BY <1>1, <1>2, <1>3, <1>6, <1>10, <1>11 DEF w

LEMMA BaseEmpty ==
    BaseOf(<<>>) = Start
  <1>1. << >> \in Seq(Entries) /\ DOMAIN << >> = {}
    OBVIOUS
  <1> DEFINE f == CHOOSE h : Iterates(h, << >>)
  <1>2. BaseOf(<<>>) = f[{}] /\ Iterates(f, << >>)
    BY <1>1, IterationIs
  <1> HIDE DEF f
  <1> QED BY <1>1, <1>2 DEF Iterates

-----------------------------------------------------------------------------
(* The invariant. *)

(* The log is one of the session so far.                                    *)
LogIs ==
    /\ emu \in Emus /\ interval \in Intervals /\ shell \in Sessions /\ overdue \in BOOLEAN
    /\ log \in Seq(Entries) /\ applied \in Nat
    /\ Len(log) <= LogCapacity /\ Len(log) <= applied
    /\ \A i \in 1 .. Len(log) : log[i].t <= emu.t

(* The log's machine, run to the moment the session has come to.            *)
Reached == RunTo(BaseOf(log), emu.t)

(* It is the session's, all of it where every breakpoint is in the log, and  *)
(* is in step with it where the shell armed past the log.                   *)
Keeps ==
    LogWhole => /\ ~shell => Reached = emu
                /\ shell => overdue \/ Alike(emu, Reached)

IInv == LogIs /\ Keeps

LEMMA LogGives ==
    ASSUME LogIs
    PROVE  TypeOK
  <1>1. emu.t \in Nat
    BY DEF LogIs, Emus
  <1>2. ASSUME NEW i \in 1 .. Len(log) PROVE log[i] \in [t : 0 .. emu.t, command : Commands]
    <2>1. log[i] \in Entries /\ log[i].t <= emu.t
      BY DEF LogIs
    <2>2. log[i].t \in 0 .. emu.t
      BY <1>1, <2>1 DEF Entries
    <2> QED BY <2>1, <2>2 DEF Entries
  <1> QED BY <1>2 DEF LogIs, TypeOK

LEMMA KeepsGives ==
    ASSUME LogIs, Keeps
    PROVE  ReplaysUnlessOverdue
  <1>1. Replayed(emu.t) = Reached
    BY DEF Replayed, Reached, BaseOf
  <1>2. shell \in BOOLEAN
    BY ReplayAssumption DEF LogIs
  <1> QED BY <1>1, <1>2 DEF Keeps, Alike, ReplaysUnlessOverdue

LEMMA ReachedIs ==
    ASSUME LogIs
    PROVE  BaseOf(log) \in Emus /\ Reached \in Emus /\ emu.t \in Nat /\ emu \in Emus
  <1>1. emu.t \in Nat /\ emu \in Emus
    BY DEF LogIs, Emus
  <1>2. [t |-> 0, command |-> [op |-> "Pause", arg |-> 0]] \in Entries
    <2>1. [op |-> "Pause", arg |-> 0] \in Commands
      BY DEF Commands, Command
    <2> QED BY <2>1 DEF Entries
  <1>3. BaseOf(log) \in Emus
    BY <1>2, BaseAppend DEF LogIs
  <1> QED BY <1>1, <1>3, RunToIs DEF Reached

LEMMA StampsPast ==
    ASSUME LogIs
    PROVE  \A i \in 1 .. Len(log) : log[i].t <= emu.t /\ log[i].t \in Nat
  <1> TAKE i \in 1 .. Len(log)
  <1>1. log[i] \in Entries /\ log[i].t <= emu.t
    BY DEF LogIs
  <1> QED BY <1>1 DEF Entries

LEMMA Initial ==
    ASSUME Init
    PROVE  IInv
  <1>1. emu = Start /\ interval \in Intervals /\ shell \in Sessions
        /\ log = << >> /\ applied = 0 /\ overdue = FALSE
    BY DEF Init
  <1>2. LogIs
    <2>1. Len(log) = 0 /\ log \in Seq(Entries) /\ 1 .. Len(log) = {}
      BY <1>1
    <2>2. emu \in Emus /\ overdue \in BOOLEAN /\ applied \in Nat
      BY <1>1, StartIs
    <2>3. Len(log) <= LogCapacity /\ Len(log) <= applied
      BY <1>1, <2>1, ReplayAssumption
    <2>4. \A i \in 1 .. Len(log) : log[i].t <= emu.t
      BY <2>1
    <2> QED BY <1>1, <2>1, <2>2, <2>3, <2>4 DEF LogIs
  <1>3. Start.t = 0 /\ Start.breaks = {} /\ Over(Start, 0)
    BY DEF Start, Over
  <1>4. Reached = Start
    BY <1>1, <1>3, BaseEmpty, RunToIs, StartIs DEF Reached
  <1> QED BY <1>1, <1>2, <1>3, <1>4 DEF IInv, Keeps, Alike

(* One command: the log grows by it, or is no longer whole.                 *)
LEMMA ApplyKeeps ==
    ASSUME IInv, NEW c \in Commands, Apply(c)
    PROVE  IInv'
  <1>1. /\ emu' = Effect(emu, c) /\ applied' = applied + 1 /\ log' = Recorded(c)
        /\ interval' = interval /\ shell' = shell /\ overdue' = overdue
        /\ shell => c \notin Arming
    BY DEF Apply
  <1>2. LogIs /\ emu \in Emus /\ emu.t \in Nat /\ Reached \in Emus /\ BaseOf(log) \in Emus
    BY ReachedIs DEF IInv
  <1>3. emu' \in Emus /\ emu'.t >= emu.t /\ emu'.t \in Nat
    <2>1. emu' \in Emus /\ emu'.t >= emu.t
      BY <1>1, <1>2, EffectIs
    <2> QED BY <2>1 DEF Emus
  <1>4. Stamp(c) \in Entries /\ Stamp(c).t = emu.t /\ Stamp(c).command = c
    BY <1>2 DEF Stamp, Entries
  <1>5. log \in Seq(Entries) /\ Len(log) \in Nat /\ applied \in Nat /\ LogCapacity \in Nat
        /\ Len(log) <= applied /\ Len(log) <= LogCapacity
    BY <1>2, ReplayAssumption DEF LogIs
  <1>6. \A i \in 1 .. Len(log) : log[i].t <= emu.t /\ log[i].t \in Nat
    BY <1>2, StampsPast
  <1>7. CASE Len(log) < LogCapacity
    <2>1. log' = Append(log, Stamp(c))
      BY <1>1, <1>7 DEF Recorded
    <2>2. /\ log' \in Seq(Entries) /\ Len(log') = Len(log) + 1 /\ log'[Len(log) + 1] = Stamp(c)
          /\ \A i \in 1 .. Len(log) : log'[i] = log[i]
      BY <1>4, <1>5, <2>1
    <2>3. ASSUME NEW i \in 1 .. Len(log') PROVE log'[i].t <= emu'.t
      <3>1. CASE i = Len(log) + 1
        BY <1>2, <1>3, <1>4, <2>2, <3>1
      <3>2. CASE i # Len(log) + 1
        <4>1. i \in 1 .. Len(log)
          BY <1>5, <2>2, <3>2
        <4>2. log'[i].t = log[i].t /\ log[i].t <= emu.t /\ log[i].t \in Nat
          BY <1>6, <2>2, <4>1
        <4> QED BY <1>2, <1>3, <4>2
      <3> QED BY <3>1, <3>2
    <2>4. LogIs'
      <3>1. Len(log') <= LogCapacity /\ Len(log') <= applied' /\ applied' \in Nat
        BY <1>1, <1>5, <1>7, <2>2
      <3> QED BY <1>1, <1>2, <1>3, <2>2, <2>3, <3>1 DEF LogIs
    <2>5. BaseOf(log') = Effect(Reached, c)
      BY <1>4, <1>5, <2>1, BaseAppend DEF After, Reached
    <2>6. Reached' = RunTo(BaseOf(log'), emu'.t)
      BY DEF Reached
    <2>7. ASSUME BaseOf(log').t = emu'.t PROVE Reached' = BaseOf(log')
      <3>1. BaseOf(log') \in Emus
        BY <1>2, <2>5, EffectIs
      <3>2. Over(BaseOf(log'), emu'.t)
        BY <1>3, <2>7 DEF Over
      <3> QED BY <1>3, <2>6, <3>1, <3>2, RunToIs
    <2>8. ASSUME LogWhole'
          PROVE  /\ ~shell' => Reached' = emu'
                 /\ shell' => overdue' \/ Alike(emu', Reached')
      <3>1. LogWhole
        BY <1>1, <1>5, <2>2, <2>8 DEF LogWhole
      <3>2. CASE ~shell
        <4>1. Reached = emu
          BY <3>1, <3>2 DEF IInv, Keeps
        <4>2. BaseOf(log') = emu'
          BY <1>1, <2>5, <4>1
        <4> QED BY <1>1, <2>7, <3>2, <4>2
      <3>3. CASE shell /\ ~overdue
        <4>1. Alike(emu, Reached)
          BY <3>1, <3>3 DEF IInv, Keeps
        <4>2. Alike(emu', BaseOf(log'))
          BY <1>1, <1>2, <2>5, <3>3, <4>1, EffectAlike
        <4>3. BaseOf(log') \in Emus
          BY <1>2, <2>5, EffectIs
        <4>4. BaseOf(log').t = emu'.t
          BY <1>3, <4>2, <4>3, SameMoments DEF Alike
        <4> QED BY <1>1, <2>7, <3>3, <4>2, <4>4
      <3>4. CASE shell /\ overdue
        BY <1>1, <3>4
      <3> QED BY <3>2, <3>3, <3>4
    <2> QED BY <2>4, <2>8 DEF IInv, Keeps
  <1>8. CASE ~(Len(log) < LogCapacity)
    <2>1. log' = log
      BY <1>1, <1>8 DEF Recorded
    <2>2. LogIs'
      <3>1. Len(log') <= applied' /\ applied' \in Nat
        BY <1>1, <1>5, <2>1
      <3>2. \A i \in 1 .. Len(log') : log'[i].t <= emu'.t
        BY <1>2, <1>3, <1>6, <2>1
      <3> QED BY <1>1, <1>2, <1>3, <2>1, <3>1, <3>2 DEF LogIs
    <2>3. ~LogWhole'
      BY <1>1, <1>5, <2>1 DEF LogWhole
    <2> QED BY <2>2, <2>3 DEF IInv, Keeps
  <1> QED BY <1>7, <1>8

(* The log's machine goes on to where the slice did.                        *)
LEMMA SliceKeeps ==
    ASSUME IInv, Slice
    PROVE  IInv'
  <1> DEFINE T == emu.t + interval
  <1>1. /\ emu' = RunTo(emu, T) /\ emu.state = "Running"
        /\ interval' = interval /\ shell' = shell /\ log' = log /\ applied' = applied
        /\ overdue' = (overdue \/ (emu'.state = "Paused" /\ emu'.t >= emu'.next
                                     /\ emu'.pc \in emu.breaks))
    BY DEF Slice
  <1>2. LogIs /\ emu \in Emus /\ emu.t \in Nat /\ Reached \in Emus /\ BaseOf(log) \in Emus
    BY ReachedIs DEF IInv
  <1>3. T \in Nat
    BY <1>2, ReplayAssumption DEF LogIs
  <1> HIDE DEF T
  <1>4. emu' \in Emus /\ emu'.t >= emu.t /\ emu'.t \in Nat
    <2>1. emu' \in Emus /\ emu'.t >= emu.t
      BY <1>1, <1>2, <1>3, Later
    <2> QED BY <2>1 DEF Emus
  <1>5. LogIs'
    <2>1. \A i \in 1 .. Len(log') : log'[i].t <= emu'.t
      <3>1. \A i \in 1 .. Len(log) : log[i].t <= emu.t /\ log[i].t \in Nat
        BY <1>2, StampsPast
      <3> QED BY <1>1, <1>2, <1>4, <3>1
    <2>2. overdue' \in BOOLEAN
      BY <1>1
    <2> QED BY <1>1, <1>2, <1>4, <2>1, <2>2 DEF LogIs
  <1>6. Reached' = RunTo(Reached, emu'.t)
    <2>1. Reached' = RunTo(BaseOf(log), emu'.t)
      BY <1>1 DEF Reached
    <2> QED BY <1>2, <1>4, <2>1, Split DEF Reached
  <1>7. ASSUME LogWhole'
        PROVE  /\ ~shell' => Reached' = emu'
               /\ shell' => overdue' \/ Alike(emu', Reached')
    <2>1. LogWhole
      BY <1>1, <1>7 DEF LogWhole
    <2>2. CASE ~shell
      <3>1. Reached = emu
        BY <2>1, <2>2 DEF IInv, Keeps
      <3>2. Reached' = emu'
        BY <1>1, <1>2, <1>3, <1>6, <3>1, Reach
      <3> QED BY <1>1, <2>2, <3>2
    <2>3. CASE shell /\ ~overdue
      <3>1. Alike(emu, Reached)
        BY <2>1, <2>3 DEF IInv, Keeps
      <3>2. \/ Alike(emu', Reached')
            \/ StoppedDue(emu', emu.breaks)
        BY <1>1, <1>2, <1>3, <1>6, <3>1, Lockstep
      <3> QED BY <1>1, <2>3, <3>2 DEF StoppedDue
    <2>4. CASE shell /\ overdue
      BY <1>1, <2>4
    <2> QED BY <2>2, <2>3, <2>4
  <1> QED BY <1>5, <1>7 DEF IInv, Keeps

LEMMA ArmKeeps ==
    ASSUME IInv, NEW a \in Targets, ArmDirectly(a)
    PROVE  IInv'
  <1>1. /\ emu' = [emu EXCEPT !.breaks = IF a \in @ THEN @ \ {a} ELSE @ \cup {a}]
        /\ emu.state = "Paused" /\ shell
        /\ interval' = interval /\ shell' = shell /\ log' = log /\ applied' = applied
        /\ overdue' = overdue
    BY DEF ArmDirectly
  <1>2. LogIs /\ emu \in Emus /\ emu.t \in Nat /\ a \in Addr
    BY ReachedIs, ReplayAssumption DEF IInv
  <1> DEFINE B == IF a \in emu.breaks THEN emu.breaks \ {a} ELSE emu.breaks \cup {a}
  <1>3. B \in SUBSET Addr
    BY <1>2 DEF Emus
  <1>4. emu' = [emu EXCEPT !.breaks = B]
    BY <1>1
  <1> HIDE DEF B
  <1>5. emu' \in Emus /\ emu'.t = emu.t /\ emu'.state = "Paused"
    BY <1>1, <1>2, <1>3, <1>4 DEF Emus
  <1>6. Machine(emu') = Machine(emu)
    BY <1>2, <1>4 DEF Machine, Emus
  <1>7. LogIs'
    BY <1>1, <1>2, <1>5 DEF LogIs
  <1>8. Reached' = Reached
    BY <1>1, <1>5 DEF Reached
  <1>9. LogWhole' => LogWhole
    BY <1>1 DEF LogWhole
  <1>10. Alike(emu, Reached) => Alike(emu', Reached)
    BY <1>5, <1>6 DEF Alike
  <1> QED BY <1>1, <1>7, <1>8, <1>9, <1>10 DEF IInv, Keeps

LEMMA Inductive ==
    IInv /\ [Next]_vars => IInv'
  <1> SUFFICES ASSUME IInv, [Next]_vars PROVE IInv'
    OBVIOUS
  <1>1. CASE \E c \in Commands : Apply(c)
    BY <1>1, ApplyKeeps
  <1>2. CASE Slice
    BY <1>2, SliceKeeps
  <1>3. CASE \E a \in Targets : ArmDirectly(a)
    BY <1>3, ArmKeeps
  <1>4. CASE UNCHANGED vars
    <2>1. emu' = emu /\ interval' = interval /\ shell' = shell /\ log' = log
          /\ applied' = applied /\ overdue' = overdue
      BY <1>4 DEF vars
    <2>2. Reached' = Reached
      BY <2>1 DEF Reached
    <2> QED BY <2>1, <2>2 DEF IInv, Keeps, LogIs, LogWhole
  <1> QED BY <1>1, <1>2, <1>3, <1>4 DEF Next

(* The log is the commands applied, each with a moment that has been, and    *)
(* never more of them than there is room for.                               *)
THEOREM TypeCorrect == Spec => []TypeOK
  <1>1. IInv => TypeOK
    BY LogGives DEF IInv
  <1> QED BY Initial, Inductive, <1>1, PTL DEF Spec

(* Whatever the program, the control interval and the order commands came    *)
(* in, a log nothing was left out of replays to the machine it was recorded  *)
(* from, at every moment of the session: to the same run state, breakpoints  *)
(* and all, where they went through the ring, and to the same machine where  *)
(* the shell armed them past it, unless one of those stopped it with a       *)
(* hardware event due.                                                      *)
THEOREM Replays == Spec => []ReplaysUnlessOverdue
  <1>1. IInv => ReplaysUnlessOverdue
    BY KeepsGives DEF IInv
  <1> QED BY Initial, Inductive, <1>1, PTL DEF Spec
=============================================================================
