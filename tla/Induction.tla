------------------------------- MODULE Induction -------------------------------
(***************************************************************************)
(* Induction over sets of numbers, and what a recursion that gets smaller   *)
(* defines: what the proofs about recursive functions and folds rest on.    *)
(***************************************************************************)
EXTENDS Integers, Sequences, SequencesExt, WellFoundedInduction, TLAPS


LEMMA Smallest ==
    ASSUME NEW T \in SUBSET Nat, T # {}
    PROVE  \E x \in T : \A y \in T : x <= y
  <1> DEFINE R == OpToRel(<, Nat)
  <1>1. IsWellFoundedOn(R, Nat)
    BY NatLessThanWellFounded
  <1>2. \A x, y \in Nat : <<x, y>> \in R <=> x < y
    BY DEF OpToRel
  <1>3. T \subseteq Nat
    OBVIOUS
  <1> HIDE DEF R
  <1>4. PICK x \in T : \A y \in T : ~(<<y, x>> \in R)
    BY <1>1, <1>3, WFMin
  <1>5. ASSUME NEW y \in T PROVE x <= y
    <2>1. ~(<<y, x>> \in R) /\ x \in Nat /\ y \in Nat
      BY <1>3, <1>4
    <2>2. ~(y < x)
      BY <1>2, <2>1
    <2> QED BY <2>1, <2>2
  <1> QED BY <1>5

LEMMA Induct ==
    ASSUME NEW S, 0 \in S, \A n \in Nat : n \in S => n + 1 \in S
    PROVE  Nat \subseteq S
  <1> SUFFICES ASSUME Nat \ S # {} PROVE FALSE
    OBVIOUS
  <1>1. PICK x \in Nat \ S : \A y \in Nat \ S : x <= y
    <2>1. Nat \ S \in SUBSET Nat
      OBVIOUS
    <2> QED BY <2>1, Smallest
  <1>2. x # 0 /\ x - 1 \in Nat /\ x - 1 + 1 = x /\ ~(x <= x - 1)
    BY <1>1
  <1>3. x - 1 \in S
    BY <1>1, <1>2
  <1> QED BY <1>1, <1>2, <1>3

(* A recursion over S with values in A: Done says where it ends and out with *)
(* what; elsewhere it goes on from step and comb makes the value of the next *)
(* one.  The measure m gets smaller with every step.                        *)
Descends(S, A, m, Done, out, step, comb) ==
    /\ m \in [S -> Nat]
    /\ \A s \in S : s \in Done => out[s] \in A
    /\ \A s \in S : s \notin Done => step[s] \in S /\ m[step[s]] < m[s]
    /\ \A s \in S : s \notin Done => \A v \in A : comb[s][v] \in A

Solves(f, S, A, Done, out, step, comb) ==
    /\ f \in [S -> A]
    /\ \A s \in S : f[s] = IF s \in Done THEN out[s] ELSE comb[s][f[step[s]]]

LEMMA Recursion ==
    ASSUME NEW S, NEW A, NEW m, NEW Done, NEW out, NEW step, NEW comb,
           Descends(S, A, m, Done, out, step, comb)
    PROVE  \E f : Solves(f, S, A, Done, out, step, comb)
  <1> USE DEF Descends
  <1> DEFINE Below(n) == {s \in S : m[s] < n}
             IsFor(g, n) == \A s \in Below(n) :
                              /\ g[s] \in A
                              /\ g[s] = IF s \in Done THEN out[s] ELSE comb[s][g[step[s]]]
             Good == {n \in Nat : \E g : IsFor(g, n)}
  <1>1. Nat \subseteq Good
    <2>1. 0 \in Good
      <3>1. \A s \in Below(0) : FALSE
        OBVIOUS
      <3>2. IsFor(0, 0)
        BY <3>1
      <3> QED BY <3>2
    <2>2. ASSUME NEW n \in Nat, n \in Good PROVE n + 1 \in Good
      <3>1. PICK g : IsFor(g, n)
        BY <2>2
      <3> DEFINE h == [s \in S |-> IF s \in Done THEN out[s] ELSE comb[s][g[step[s]]]]
      <3>2. \A s \in Below(n) : h[s] = g[s]
        BY <3>1
      <3>3. ASSUME NEW s \in Below(n + 1), s \notin Done
            PROVE  h[step[s]] = g[step[s]] /\ g[step[s]] \in A
        <4>1. step[s] \in S /\ m[step[s]] < m[s] /\ m[s] < n + 1 /\ m[s] \in Nat /\ m[step[s]] \in Nat
          BY <3>3
        <4>2. step[s] \in Below(n)
          BY <4>1
        <4> QED BY <3>1, <3>2, <4>2
      <3>4. ASSUME NEW s \in Below(n + 1)
            PROVE  h[s] \in A /\ h[s] = IF s \in Done THEN out[s] ELSE comb[s][h[step[s]]]
        <4>1. s \in S /\ h[s] = IF s \in Done THEN out[s] ELSE comb[s][g[step[s]]]
          OBVIOUS
        <4>2. CASE s \in Done
          BY <4>1, <4>2
        <4>3. CASE s \notin Done
          <5>1. h[step[s]] = g[step[s]] /\ g[step[s]] \in A
            BY <3>3, <4>3
          <5>2. comb[s][g[step[s]]] \in A
            BY <4>1, <4>3, <5>1
          <5> HIDE DEF h
          <5> QED BY <4>1, <4>3, <5>1, <5>2
        <4> QED BY <4>2, <4>3
      <3>5. IsFor(h, n + 1)
        BY <3>4
      <3>6. \E k : IsFor(k, n + 1)
        <4> HIDE DEF h, IsFor
        <4> QED BY <3>5
      <3> HIDE DEF IsFor
      <3> QED BY <3>6
    <2> HIDE DEF Good
    <2> QED BY <2>1, <2>2, Induct
  <1>2. ASSUME NEW g, NEW h, NEW a \in Nat, NEW b \in Nat, IsFor(g, a), IsFor(h, b),
               NEW s0 \in Below(a), s0 \in Below(b)
        PROVE  g[s0] = h[s0]
    <2> DEFINE Bad == {n \in Nat : \E s \in Below(a) : s \in Below(b) /\ m[s] = n /\ g[s] # h[s]}
    <2> SUFFICES ASSUME g[s0] # h[s0] PROVE FALSE
      OBVIOUS
    <2>1. Bad # {} /\ Bad \in SUBSET Nat
      <3>1. m[s0] \in Bad
        BY <1>2
      <3> QED BY <3>1
    <2>2. PICK n \in Bad : \A y \in Bad : n <= y
      BY <2>1, Smallest
    <2>3. PICK s \in Below(a) : s \in Below(b) /\ m[s] = n /\ g[s] # h[s]
      BY <2>2
    <2>4. s \notin Done
      BY <1>2, <2>3
    <2>5. step[s] \in S /\ m[step[s]] < m[s] /\ m[s] \in Nat /\ m[step[s]] \in Nat /\ m[s] < a /\ m[s] < b
      BY <2>3, <2>4
    <2>6. step[s] \in Below(a) /\ step[s] \in Below(b)
      BY <2>5
    <2>7. g[step[s]] # h[step[s]]
      BY <1>2, <2>3, <2>4
    <2>8. m[step[s]] \in Bad
      BY <2>5, <2>6, <2>7
    <2> QED BY <2>2, <2>3, <2>5, <2>8
  <1> DEFINE G == [n \in Nat |-> CHOOSE g : IsFor(g, n)]
             f == [s \in S |-> G[m[s] + 1][s]]
  <1>3. \A n \in Nat : IsFor(G[n], n)
    <2> TAKE n \in Nat
    <2>1. \E g : IsFor(g, n)
      BY <1>1
    <2> HIDE DEF IsFor
    <2>2. IsFor(CHOOSE g : IsFor(g, n), n)
      BY <2>1
    <2> QED BY <2>2
  <1>4. ASSUME NEW s \in S
        PROVE  f[s] \in A /\ f[s] = IF s \in Done THEN out[s] ELSE comb[s][f[step[s]]]
    <2>1. m[s] \in Nat /\ m[s] + 1 \in Nat /\ s \in Below(m[s] + 1) /\ f[s] = G[m[s] + 1][s]
      OBVIOUS
    <2>2. IsFor(G[m[s] + 1], m[s] + 1)
      BY <1>3, <2>1
    <2>3. f[s] \in A /\ f[s] = IF s \in Done THEN out[s] ELSE comb[s][G[m[s] + 1][step[s]]]
      BY <2>1, <2>2
    <2>4. ASSUME s \notin Done PROVE f[step[s]] = G[m[s] + 1][step[s]]
      <3>1. step[s] \in S /\ m[step[s]] < m[s] /\ m[step[s]] \in Nat
        BY <2>4
      <3>2. /\ m[step[s]] + 1 \in Nat /\ step[s] \in Below(m[step[s]] + 1) /\ step[s] \in Below(m[s] + 1)
            /\ f[step[s]] = G[m[step[s]] + 1][step[s]]
        BY <2>1, <3>1
      <3>3. IsFor(G[m[step[s]] + 1], m[step[s]] + 1)
        BY <1>3, <3>2
      <3> HIDE DEF G, f, IsFor, Below
      <3> QED BY <1>2, <2>1, <2>2, <3>2, <3>3
    <2> HIDE DEF f, G
    <2> QED BY <2>3, <2>4
  <1>5. f \in [S -> A]
    BY <1>4
  <1> HIDE DEF f, Descends
  <1>6. Solves(f, S, A, Done, out, step, comb)
    BY <1>4, <1>5 DEF Solves
  <1> QED BY <1>6

-----------------------------------------------------------------------------
(* The greatest of a set of indices, which is what a fold takes next.       *)

LEMMA Greatest ==
    ASSUME NEW n \in Nat, NEW s \in SUBSET (1 .. n), s # {}
    PROVE  /\ Max(s) \in s
           /\ \A y \in s : y <= Max(s)
  <1> DEFINE B == {k \in Nat : n - k \in s}
  <1>1. \A y \in s : y \in Nat /\ n - y \in Nat /\ n - (n - y) = y
    OBVIOUS
  <1>2. B \in SUBSET Nat /\ B # {}
    BY <1>1
  <1>3. PICK b \in B : \A z \in B : b <= z
    BY <1>2, Smallest
  <1>4. ASSUME NEW y \in s PROVE n - b >= y
    <2>1. n - y \in B
      BY <1>1
    <2>2. b <= n - y /\ b \in Nat /\ y \in Nat
      BY <1>1, <1>3, <2>1
    <2> QED BY <2>2
  <1>5. n - b \in s
    BY <1>3
  <1>6. Max(s) \in s /\ \A y \in s : Max(s) >= y
    BY <1>4, <1>5 DEF Max
  <1>7. s \subseteq Int
    OBVIOUS
  <1> QED BY <1>6, <1>7

(* And it is the only one.                                                 *)
LEMMA GreatestIs ==
    ASSUME NEW n \in Nat, NEW S \in SUBSET (1 .. n), NEW m \in S, \A i \in S : i <= m
    PROVE  Max(S) = m
  <1>1. Max(S) \in S /\ m <= Max(S) /\ Max(S) <= m
    BY Greatest
  <1>2. m \in 1 .. n /\ Max(S) \in 1 .. n
    BY <1>1
  <1> QED BY ONLY <1>1, <1>2

LEMMA FirstOnes ==
    ASSUME NEW k \in Nat
    PROVE  /\ 1 .. (k + 1) # {} /\ Max(1 .. (k + 1)) = k + 1
           /\ (1 .. (k + 1)) \ {k + 1} = 1 .. k
  <1>1. 1 .. (k + 1) \in SUBSET (1 .. (k + 1)) /\ 1 .. (k + 1) # {}
    <2>1. k + 1 \in 1 .. (k + 1)
      OBVIOUS
    <2> QED BY <2>1
  <1>2. Max(1 .. (k + 1)) \in 1 .. (k + 1) /\ Max(1 .. (k + 1)) >= k + 1
    <2>1. k + 1 \in Nat /\ k + 1 \in 1 .. (k + 1)
      OBVIOUS
    <2> QED BY <1>1, <2>1, Greatest
  <1>3. Max(1 .. (k + 1)) = k + 1
    BY <1>2
  <1>4. (1 .. (k + 1)) \ {k + 1} = 1 .. k
    OBVIOUS
  <1> QED BY <1>1, <1>3, <1>4

-----------------------------------------------------------------------------
(* Folds from the left.  comb is the operation, from <<what it has come to,  *)
(* the next element>>; a trace is what it comes to after so many of them.    *)

FoldOver(A, X, comb, b, q) == comb \in [A \X X -> A] /\ b \in A /\ q \in Seq(X)

Trace(g, A, comb, b, q) ==
    /\ g \in [0 .. Len(q) -> A]
    /\ g[0] = b
    /\ \A k \in 1 .. Len(q) : g[k] = comb[<<g[k - 1], q[k]>>]

Folded(A, comb, b, q) == (CHOOSE g : Trace(g, A, comb, b, q))[Len(q)]

(* The fold's recursion, over sets of indices.                              *)
FoldRecursion(f, A, comb, b, q) ==
    /\ f \in [SUBSET (1 .. Len(q)) -> A]
    /\ f[{}] = b
    /\ \A s \in SUBSET (1 .. Len(q)) : s # {} => f[s] = comb[<<f[s \ {Max(s)}], q[Max(s)]>>]

LEMMA FoldExists ==
    ASSUME NEW A, NEW X, NEW comb, NEW b, NEW q, FoldOver(A, X, comb, b, q)
    PROVE  \E f : FoldRecursion(f, A, comb, b, q)
  <1> DEFINE n == Len(q)
             S == SUBSET (1 .. n)
             Done == {{}}
             m == [s \in S |-> IF s = {} THEN 0 ELSE Max(s)]
             out == [s \in S |-> b]
             step == [s \in S |-> s \ {Max(s)}]
             on == [s \in S |-> [v \in A |-> comb[<<v, q[Max(s)]>>]]]
  <1>1. n \in Nat /\ b \in A /\ comb \in [A \X X -> A] /\ \A i \in 1 .. n : q[i] \in X
    BY DEF FoldOver
  <1>2. ASSUME NEW s \in S, s # {}
        PROVE  Max(s) \in s /\ Max(s) \in 1 .. n /\ \A y \in s : y <= Max(s)
    <2>1. Max(s) \in s /\ \A y \in s : y <= Max(s)
      BY <1>1, <1>2, Greatest
    <2> QED BY <2>1
  <1>3. m \in [S -> Nat]
    <2>1. ASSUME NEW s \in S PROVE (IF s = {} THEN 0 ELSE Max(s)) \in Nat
      BY <1>2
    <2> QED BY <2>1
  <1>4. ASSUME NEW s \in S, s \notin Done PROVE step[s] \in S /\ m[step[s]] < m[s]
    <2>1. s # {} /\ step[s] = s \ {Max(s)} /\ step[s] \in S /\ m[s] = Max(s)
      BY <1>4
    <2>2. Max(s) \in s /\ Max(s) \in 1 .. n /\ \A y \in s : y <= Max(s)
      BY <1>2, <2>1
    <2>3. CASE step[s] = {}
      <3>1. m[step[s]] = 0
        BY <2>1, <2>3
      <3> HIDE DEF m
      <3> QED BY <1>1, <2>1, <2>2, <3>1
    <2>4. CASE step[s] # {}
      <3>1. m[step[s]] = Max(step[s])
        BY <2>1, <2>4
      <3>2. Max(step[s]) \in step[s] /\ Max(step[s]) \in 1 .. n
        BY <1>2, <2>1, <2>4
      <3> HIDE DEF m
      <3>3. Max(step[s]) \in s /\ Max(step[s]) # Max(s)
        BY <2>1, <3>2
      <3> HIDE DEF step
      <3> QED BY <1>1, <2>1, <2>2, <3>1, <3>2, <3>3
    <2> QED BY <2>1, <2>3, <2>4
  <1>5. ASSUME NEW s \in S, s \notin Done, NEW v \in A PROVE on[s][v] \in A
    <2>1. q[Max(s)] \in X
      BY <1>1, <1>2, <1>5
    <2> QED BY <1>1, <2>1
  <1>6. PICK f : Solves(f, S, A, Done, out, step, on)
    <2>1. \A s \in S : s \in Done => out[s] \in A
      BY <1>1
    <2> HIDE DEF S, m, Done, out, step, on
    <2>2. Descends(S, A, m, Done, out, step, on)
      BY <1>3, <1>4, <1>5, <2>1 DEF Descends
    <2> QED BY <2>2, Recursion
  <1>7. f \in [S -> A] /\ \A s \in S : f[s] = IF s \in Done THEN out[s] ELSE on[s][f[step[s]]]
    <2> HIDE DEF S, m, Done, out, step, on
    <2> QED BY <1>6 DEF Solves
  <1>8. f[{}] = b
    BY <1>7
  <1>9. ASSUME NEW s \in S, s # {} PROVE f[s] = comb[<<f[s \ {Max(s)}], q[Max(s)]>>]
    <2>1. step[s] = s \ {Max(s)} /\ step[s] \in S /\ s \notin Done
      BY <1>9
    <2>2. f[step[s]] \in A
      BY <1>7, <2>1
    <2>3. on[s][f[step[s]]] = comb[<<f[step[s]], q[Max(s)]>>]
      <3> HIDE DEF step
      <3> QED BY <2>2
    <2>4. f[s] = on[s][f[step[s]]]
      <3> HIDE DEF step, on, out, Done
      <3> QED BY <1>7, <2>1
    <2> HIDE DEF step, on
    <2> QED BY <2>1, <2>3, <2>4
  <1> QED BY <1>7, <1>8, <1>9 DEF FoldRecursion

LEMMA TraceExists ==
    ASSUME NEW A, NEW X, NEW comb, NEW b, NEW q, FoldOver(A, X, comb, b, q)
    PROVE  \E g : Trace(g, A, comb, b, q)
  <1> DEFINE n == Len(q)
  <1>1. n \in Nat
    BY DEF FoldOver
  <1>2. PICK f : FoldRecursion(f, A, comb, b, q)
    BY FoldExists
  <1>3. /\ f \in [SUBSET (1 .. n) -> A]
        /\ f[{}] = b
        /\ \A s \in SUBSET (1 .. n) : s # {} => f[s] = comb[<<f[s \ {Max(s)}], q[Max(s)]>>]
    BY <1>2 DEF FoldRecursion
  <1> HIDE DEF n
  <1> DEFINE g == [k \in 0 .. n |-> f[1 .. k]]
  <1>4. \A k \in 0 .. n : 1 .. k \in SUBSET (1 .. n)
    BY <1>1
  <1>5. g \in [0 .. n -> A]
    <2>1. ASSUME NEW k \in 0 .. n PROVE f[1 .. k] \in A
      <3>1. 1 .. k \in SUBSET (1 .. n)
        BY <1>4
      <3> QED BY <1>3, <3>1
    <2> QED BY <2>1
  <1>6. g[0] = b
    <2>1. 1 .. 0 = {} /\ 0 \in 0 .. n
      BY <1>1
    <2> QED BY <1>3, <2>1
  <1>7. ASSUME NEW k \in 1 .. n PROVE g[k] = comb[<<g[k - 1], q[k]>>]
    <2>1. k - 1 \in Nat /\ (k - 1) + 1 = k /\ k \in 0 .. n /\ k - 1 \in 0 .. n
      BY <1>1
    <2>2. 1 .. k # {} /\ Max(1 .. k) = k /\ (1 .. k) \ {k} = 1 .. (k - 1)
      BY <2>1, FirstOnes
    <2>3. f[1 .. k] = comb[<<f[1 .. (k - 1)], q[k]>>]
      BY <1>3, <1>4, <2>1, <2>2
    <2> QED BY <2>1, <2>3
  <1> HIDE DEF g
  <1>8. Trace(g, A, comb, b, q)
    BY <1>5, <1>6, <1>7 DEF Trace, n
  <1> QED BY <1>8

(* Whatever satisfies the fold's recursion comes to what a trace does.       *)
Recurs(f, A, comb, b, q) ==
    /\ f[{}] = b
    /\ \A s \in SUBSET (1 .. Len(q)) :
         s # {} /\ f[s \ {Max(s)}] \in A => f[s] = comb[<<f[s \ {Max(s)}], q[Max(s)]>>]

LEMMA TraceGives ==
    ASSUME NEW A, NEW X, NEW comb, NEW b, NEW q, FoldOver(A, X, comb, b, q),
           NEW g, Trace(g, A, comb, b, q), NEW f, Recurs(f, A, comb, b, q)
    PROVE  f[1 .. Len(q)] = g[Len(q)]
  <1> DEFINE n == Len(q)
             Good == {k \in Nat : k <= n => f[1 .. k] = g[k]}
  <1>1. n \in Nat /\ n <= n /\ g \in [0 .. n -> A] /\ g[0] = b
        /\ \A k \in 1 .. n : g[k] = comb[<<g[k - 1], q[k]>>]
    BY DEF FoldOver, Trace
  <1>5. /\ f[{}] = b
        /\ \A s \in SUBSET (1 .. n) :
             s # {} /\ f[s \ {Max(s)}] \in A => f[s] = comb[<<f[s \ {Max(s)}], q[Max(s)]>>]
    BY DEF Recurs
  <1>2. 0 \in Good
    <2>1. 1 .. 0 = {}
      OBVIOUS
    <2> QED BY <1>1, <1>5, <2>1
  <1>3. ASSUME NEW k \in Nat, k \in Good PROVE k + 1 \in Good
    <2>1. ASSUME k + 1 <= n PROVE f[1 .. (k + 1)] = g[k + 1]
      <3>1. k <= n /\ k \in 0 .. n /\ k + 1 \in 1 .. n /\ (k + 1) - 1 = k
        BY <1>1, <2>1
      <3>2. f[1 .. k] = g[k] /\ g[k] \in A
        BY <1>1, <1>3, <3>1
      <3>3. 1 .. (k + 1) # {} /\ Max(1 .. (k + 1)) = k + 1 /\ (1 .. (k + 1)) \ {k + 1} = 1 .. k
        BY FirstOnes
      <3>4. 1 .. (k + 1) \in SUBSET (1 .. n)
        BY <1>1, <2>1
      <3>5. f[1 .. (k + 1)] = comb[<<f[1 .. k], q[k + 1]>>]
        BY <1>5, <3>2, <3>3, <3>4
      <3>6. g[k + 1] = comb[<<g[(k + 1) - 1], q[k + 1]>>]
        BY <1>1, <3>1
      <3> QED BY <3>1, <3>2, <3>5, <3>6
    <2> QED BY <2>1
  <1>4. n \in Good
    <2> HIDE DEF Good
    <2> QED BY <1>1, <1>2, <1>3, Induct
  <1> QED BY <1>1, <1>4

(* What a fold of nothing is, and one of a longer sequence.                 *)
LEMMA FoldedIs ==
    ASSUME NEW A, NEW X, NEW comb, NEW b, NEW q, FoldOver(A, X, comb, b, q)
    PROVE  \E g : Trace(g, A, comb, b, q) /\ Folded(A, comb, b, q) = g[Len(q)]
  <1> DEFINE g == CHOOSE h : Trace(h, A, comb, b, q)
  <1>1. Trace(g, A, comb, b, q)
    <2>1. \E h : Trace(h, A, comb, b, q)
      BY TraceExists
    <2> QED BY <2>1
  <1>2. Folded(A, comb, b, q) = g[Len(q)]
    BY DEF Folded
  <1> QED BY <1>1, <1>2

(* So what the library's FoldLeft is, once its recursion has been unfolded. *)
LEMMA FoldSettles ==
    ASSUME NEW A, NEW X, NEW comb, NEW b, NEW q, FoldOver(A, X, comb, b, q),
           NEW f, Recurs(f, A, comb, b, q)
    PROVE  f[DOMAIN q] = Folded(A, comb, b, q)
  <1>1. PICK g : Trace(g, A, comb, b, q) /\ Folded(A, comb, b, q) = g[Len(q)]
    BY FoldedIs
  <1>2. f[1 .. Len(q)] = g[Len(q)]
    BY <1>1, TraceGives
  <1>3. DOMAIN q = 1 .. Len(q)
    BY DEF FoldOver
  <1> QED BY <1>1, <1>2, <1>3

LEMMA FoldedEmpty ==
    ASSUME NEW A, NEW X, NEW comb, NEW b, FoldOver(A, X, comb, b, <<>>)
    PROVE  Folded(A, comb, b, <<>>) = b
  <1>1. Len(<< >>) = 0
    OBVIOUS
  <1>2. PICK g : Trace(g, A, comb, b, << >>) /\ Folded(A, comb, b, << >>) = g[Len(<< >>)]
    BY FoldedIs
  <1>3. g[0] = b
    BY <1>2 DEF Trace
  <1> QED BY <1>1, <1>2, <1>3

LEMMA FoldedAppend ==
    ASSUME NEW A, NEW X, NEW comb, NEW b, NEW q, FoldOver(A, X, comb, b, q), NEW x \in X
    PROVE  /\ Folded(A, comb, b, q) \in A
           /\ Folded(A, comb, b, Append(q, x)) = comb[<<Folded(A, comb, b, q), x>>]
  <1> DEFINE n == Len(q)
             w == Append(q, x)
  <1>1. /\ w \in Seq(X) /\ n \in Nat /\ Len(w) = n + 1
        /\ \A k \in 1 .. n : w[k] = q[k]
        /\ w[n + 1] = x /\ FoldOver(A, X, comb, b, w)
    BY DEF FoldOver
  <1>2. PICK f : Trace(f, A, comb, b, q) /\ Folded(A, comb, b, q) = f[n]
    BY FoldedIs
  <1>3. FoldOver(A, X, comb, b, w)
    BY <1>1
  <1> HIDE DEF n, w
  <1>4. PICK g : Trace(g, A, comb, b, w) /\ Folded(A, comb, b, w) = g[Len(w)]
    BY <1>3, FoldedIs
  <1>5. /\ f \in [0 .. n -> A] /\ f[0] = b
        /\ \A k \in 1 .. n : f[k] = comb[<<f[k - 1], q[k]>>]
    BY <1>2 DEF Trace, n
  <1>6. /\ g[0] = b
        /\ \A k \in 1 .. (n + 1) : g[k] = comb[<<g[k - 1], w[k]>>]
    BY <1>1, <1>4 DEF Trace
  <1> DEFINE Good == {k \in Nat : k <= n => f[k] = g[k]}
  <1>7. 0 \in Good
    BY <1>5, <1>6
  <1>8. ASSUME NEW k \in Nat, k \in Good PROVE k + 1 \in Good
    <2>1. ASSUME k + 1 <= n PROVE f[k + 1] = g[k + 1]
      <3>1. k <= n /\ k + 1 \in 1 .. n /\ k + 1 \in 1 .. (n + 1) /\ (k + 1) - 1 = k
        BY <1>1, <2>1
      <3>2. f[k + 1] = comb[<<f[k], q[k + 1]>>]
        BY <1>5, <3>1
      <3>3. g[k + 1] = comb[<<g[k], w[k + 1]>>]
        BY <1>6, <3>1
      <3>4. f[k] = g[k] /\ w[k + 1] = q[k + 1]
        BY <1>1, <1>8, <3>1
      <3> QED BY <3>2, <3>3, <3>4
    <2> QED BY <2>1
  <1>9. n \in Good
    <2> HIDE DEF Good
    <2> QED BY <1>1, <1>7, <1>8, Induct
  <1>10. f[n] = g[n] /\ f[n] \in A
    BY <1>1, <1>5, <1>9
  <1>11. g[n + 1] = comb[<<g[n], x>>]
    <2>1. n + 1 \in 1 .. (n + 1) /\ (n + 1) - 1 = n
      BY <1>1
    <2> QED BY <1>1, <1>6, <2>1
  <1> QED BY <1>1, <1>2, <1>4, <1>10, <1>11 DEF w
=============================================================================
