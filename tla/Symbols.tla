------------------------------ MODULE Symbols ------------------------------
(***************************************************************************)
(* The assembler's symbol table and expressions (crates/rkw-asm/src/        *)
(* symbols.rs and eval.rs).                                                 *)
(*                                                                         *)
(* A key is the sequence of a name's dotted parts, <<"main", "loop">>; a    *)
(* name is one as written: "global", "local" (.loop) or "verbatim" (@loop). *)
(* A value that may be missing is an empty or a one-element sequence.       *)
(* Values stay small: the wrap at 32 bits and the spans are left out.       *)
(***************************************************************************)
EXTENDS Alu, Sequences, TLC

None == <<>>
Some(v) == <<v>>

\* Where an expression is evaluated from: $, $$ and the statement's ordinal.
Site(here, section, seq) == [here |-> here, section |-> section, seq |-> seq]

NewSymbols ==
    [names |-> [k \in {} |-> 0], temps |-> [n \in {} |-> 0], temps_previous |-> [n \in {} |-> 0],
     modules |-> <<>>, last_global |-> None, pass |-> 1, unsettled |-> {}]

Converged(t) == t.unsettled = {}
NoteChange(t, key, moved) == [t EXCEPT !.unsettled = IF moved THEN @ \cup {key} ELSE @]

\* Definitions outlive the pass; constants go back to being unevaluated.
BeginPass(t) ==
    LET next(s) == [s EXCEPT !.previous = s.latest, !.latest = None,
                             !.state = IF @ = "value" THEN @ ELSE "pending"]
    IN [t EXCEPT !.pass = @ + 1, !.unsettled = {}, !.modules = <<>>, !.last_global = None,
                 !.temps_previous = t.temps, !.temps = [n \in {} |-> 0],
                 !.names = [k \in DOMAIN @ |-> next(@[k])]]

----------------------------------------------------------------------------
\* Names.

EnterModule(t, id) == [t EXCEPT !.modules = Append(@, id)]
LeaveModule(t) ==
    [t EXCEPT !.modules = IF @ = <<>> THEN @ ELSE SubSeq(@, 1, Len(@) - 1)]

Qualify(t, name) ==
    CASE name.kind = "verbatim" -> name.path
      [] name.kind = "local" ->
           IF t.last_global = None THEN <<".">> \o name.path ELSE t.last_global[1] \o name.path
      [] name.kind = "global" -> t.modules \o name.path

\* What a reference may mean, the innermost module first.
Candidates(t, name) ==
    IF name.kind # "global" THEN <<Qualify(t, name)>>
    ELSE [n \in 1..(Len(t.modules) + 1) |->
            SubSeq(t.modules, 1, Len(t.modules) + 1 - n) \o name.path]
IsDefined(t, name) == \E n \in DOMAIN Candidates(t, name) : Candidates(t, name)[n] \in DOMAIN t.names
ResolveKey(t, name) ==
    LET first(keys) == keys[CHOOSE n \in DOMAIN keys :
                              /\ keys[n] \in DOMAIN t.names
                              /\ \A m \in 1..(n - 1) : keys[m] \notin DOMAIN t.names]
    IN first(Candidates(t, name))

----------------------------------------------------------------------------
\* Definitions.  Each gives whether it was accepted, and the table.

\* `what` is a "value" or an expression still "pending".
Define(t, key, what, kind) ==
    LET value == what.state = "value"
        new == key \notin DOMAIN t.names
        old == t.names[key]
        symbol == [what EXCEPT !.kind = kind, !.defined_on = t.pass,
                     !.previous = IF new THEN None ELSE old.previous,
                     !.latest = IF value THEN Some(what.value)
                                ELSE IF new THEN None ELSE old.latest]
        moved == new \/ (kind = "label" /\ old.previous # Some(what.value))
    IN IF ~new /\ kind # "variable" /\ old.defined_on = t.pass
         THEN [ok |-> FALSE, symbols |-> t]
         ELSE [ok |-> TRUE,
               symbols |-> NoteChange([t EXCEPT !.names = (key :> symbol) @@ @], key, moved)]

Symbol(state, value, expr, site) ==
    [kind |-> "", state |-> state, value |-> value, expr |-> expr, site |-> site,
     defined_on |-> 0, previous |-> None, latest |-> None]
NoSite == Site(0, 0, 0)

\* A name that is not local becomes what locals belong to.
Owning(t, name) ==
    IF name.kind = "local" THEN t ELSE [t EXCEPT !.last_global = Some(Qualify(t, name))]

DefineTemp(t, id, seq, address) ==
    LET entries == IF id \in DOMAIN t.temps THEN t.temps[id] ELSE <<>>
        n == Len(entries) + 1
        known == id \in DOMAIN t.temps_previous /\ n <= Len(t.temps_previous[id])
        moved == ~known \/ t.temps_previous[id][n].value # address
        entry == [seq |-> seq, value |-> address]
    IN NoteChange([t EXCEPT !.temps = (id :> Append(entries, entry)) @@ @], <<id>>, moved)

DefineLabel(t, label, address, seq) ==
    IF label.kind = "temp"
      THEN [ok |-> TRUE, symbols |-> DefineTemp(t, label.path[1], seq, address)]
      ELSE Define(Owning(t, label), Qualify(t, label),
                  Symbol("value", address, None, NoSite), "label")
DefineVariable(t, name, value) ==
    Define(Owning(t, name), Qualify(t, name), Symbol("value", value, None, NoSite), "variable")
DefineConst(t, name, expr, site) ==
    Define(Owning(t, name), Qualify(t, name), Symbol("pending", 0, expr, site), "const")

----------------------------------------------------------------------------
\* Values.  A result is a value or an error, and the table after the constants
\* that had to be evaluated on the way.

Worth(v, t) == [ok |-> TRUE, value |-> v, error |-> "", symbols |-> t]
Fails(error, t) == [ok |-> FALSE, value |-> 0, error |-> error, symbols |-> t]

Unknown(t) == Fails(IF t.pass = 1 THEN "not yet defined" ELSE "undefined", t)

\* Backwards reads this pass's list, forwards the one the last pass left.
LookupTemp(t, id, forward, seq) ==
    LET list(table) == IF id \in DOMAIN table THEN table[id] ELSE <<>>
        ahead(entries) == {n \in DOMAIN entries : entries[n].seq > seq}
        nearest(entries, there) ==
          IF there = {} THEN Fails(IF forward /\ t.pass = 1 THEN "not yet defined" ELSE "undefined", t)
          ELSE Worth(entries[CHOOSE n \in there :
                               \A m \in there : IF forward THEN n <= m ELSE n >= m].value, t)
        from(entries) ==
          nearest(entries, IF forward THEN ahead(entries) ELSE DOMAIN entries \ ahead(entries))
    IN from(list(IF forward THEN t.temps_previous ELSE t.temps))

RECURSIVE Eval(_, _, _)

\* A constant is evaluated the first time a pass asks, at the site of its EQU.
Evaluated(t, key) ==
    LET s == t.names[key]
        done(r) == [r.symbols EXCEPT !.names[key] =
                      [@ EXCEPT !.state = "done", !.value = r.value, !.latest = Some(r.value)]]
        outcome(r) ==
          IF r.ok THEN Worth(r.value, NoteChange(done(r), key, s.previous # Some(r.value)))
          ELSE Fails(r.error, [r.symbols EXCEPT !.names[key].state = "pending"])
    IN outcome(Eval(s.expr, s.site, [t EXCEPT !.names[key].state = "in progress"]))

Lookup(t, name) ==
    IF ~IsDefined(t, name) THEN Unknown(t)
    ELSE LET valued(key, s) ==
               CASE s.state \in {"value", "done"} -> Worth(s.value, t)
                 [] s.state = "in progress" -> Fails("circular", t)
                 [] s.state = "pending" -> Evaluated(t, key)
             found(key) == valued(key, t.names[key])
         IN found(ResolveKey(t, name))

\* `exist` must not evaluate the name it asks about.
Unary(op, e, site, t) ==
    LET applied(r) ==
          CASE op = "-" -> [r EXCEPT !.value = -@]
            [] op = "!" -> [r EXCEPT !.value = BitOf(@ = 0)]
            [] op = "low" -> [r EXCEPT !.value = Low(@)]
            [] op = "high" -> [r EXCEPT !.value = Low(@ \div 256)]
    IN IF op = "exist" THEN Worth(BitOf(IsDefined(t, e[2])), t) ELSE applied(Eval(e, site, t))

\* Division truncates towards zero.
Magnitude(v) == IF v < 0 THEN -v ELSE v
Quotient(a, b) == (IF (a < 0) = (b < 0) THEN 1 ELSE -1) * (Magnitude(a) \div Magnitude(b))
Operated(op, a, b) ==
    CASE op = "+" -> a + b
      [] op = "-" -> a - b
      [] op = "*" -> a * b
      [] op = "/" -> Quotient(a, b)
      [] op = "mod" -> a - b * Quotient(a, b)
      [] op = "=" -> BitOf(a = b)
      [] op = "!=" -> BitOf(a # b)
      [] op = "<" -> BitOf(a < b)
      [] op = ">" -> BitOf(a > b)
      [] op \in {"&&", "||"} -> BitOf(b # 0)
\* What the left side has decided the right is not asked.
Binary(op, lhs, rhs, site, t) ==
    LET right(a, r) ==
          IF ~r.ok THEN r
          ELSE IF op \in {"/", "mod"} /\ r.value = 0 THEN Fails("division by zero", r.symbols)
          ELSE Worth(Operated(op, a, r.value), r.symbols)
        left(l) ==
          IF ~l.ok THEN l
          ELSE IF op = "&&" /\ l.value = 0 THEN Worth(0, l.symbols)
          ELSE IF op = "||" /\ l.value # 0 THEN Worth(1, l.symbols)
          ELSE right(l.value, Eval(rhs, site, l.symbols))
    IN left(Eval(lhs, site, t))

Eval(e, site, t) ==
    CASE e[1] = "number" -> Worth(e[2], t)
      [] e[1] = "str" -> IF Len(e[2]) = 1 THEN Worth(e[2][1], t) ELSE Fails("not a value", t)
      [] e[1] = "ident" -> Lookup(t, e[2])
      [] e[1] = "temp" -> LookupTemp(t, e[2], e[3], site.seq)
      [] e[1] = "here" -> Worth(site.here, t)
      [] e[1] = "section" -> Worth(site.section, t)
      [] e[1] = "paren" -> Eval(e[2], site, t)
      [] e[1] = "unary" -> Unary(e[2], e[3], site, t)
      [] e[1] = "binary" -> Binary(e[2], e[3], e[4], site, t)
=============================================================================
