----------------------------- MODULE RingProofs -----------------------------
(***************************************************************************)
(* A ring of any number of slots, with any number of stores on their way,  *)
(* is a RecordStream: where stores are seen in the order they were issued  *)
(* if it overwrites, in any order Release allows if it refuses.            *)
(***************************************************************************)
EXTENDS Ring, SequenceTheorems, TLAPS

(* The stores nobody sees yet: those of the records past the head, in the  *)
(* order of the records, the head's last, and no head among them missing.  *)
Waiting ==
    /\ \A i \in 1 .. Len(pending) :
         /\ pending[i].val \in head + 1 .. put
         /\ pending[i].var # "head" => pending[i].slot = SlotOf(pending[i].val - 1)
    /\ \A i, j \in 1 .. Len(pending) :
         i < j => /\ pending[i].val <= pending[j].val
                  /\ pending[i].val = pending[j].val =>
                       pending[i].var # "head" /\ pending[i].var # pending[j].var
    /\ \A v \in head + 1 .. put :
         \E i \in 1 .. Len(pending) : pending[i].var = "head" /\ pending[i].val = v

(* Half of each slot, with q on its way, h the head and n put: the word of  *)
(* some record of that slot, older than any on its way there, and of the    *)
(* last one put there unless that is on its way.                            *)
Half(var, words, q, h, n, total) ==
    /\ \A s \in Slots :
         /\ words[s] <= n
         /\ words[s] # 0 => SlotOf(words[s] - 1) = s
         /\ total => words[s] <= h + 1
    /\ \A i \in 1 .. Len(q) : q[i].var = var => words[q[i].slot] < q[i].val
    /\ \A p \in 0 .. n - 1 :
         \/ words[SlotOf(p)] >= Word(p)
         \/ \E i \in 1 .. Len(q) : q[i].var = var /\ q[i].val = Word(p)

Halves ==
    /\ Half("lo", lo, pending, head, put, use.order = "total")
    /\ Half("hi", hi, pending, head, put, use.order = "total")

Room ==
    /\ tail <= head /\ head <= put
    /\ ~use.lossy => put - tail <= Capacity - 1

(* The consumer in the middle of a pop: what it has copied is the record it *)
(* went for, or it has been overtaken and is about to find out.             *)
Copied(w, word) == w \notin pop.todo => word = Word(pop.tail) \/ Overtaken

Reading ==
    pop.at # "idle" =>
      /\ pop.tail < head /\ pop.tail = tail + pop.missed
      /\ pop.missed > 0 => use.lossy /\ pop.tail - 1 + Capacity <= head
      /\ Copied("lo", pop.lo) /\ Copied("hi", pop.hi)
      /\ pop.at = "take" => pop.lo = Word(pop.tail) /\ pop.hi = Word(pop.tail)

IInv == TypeOK /\ Waiting /\ Halves /\ Room /\ Reading
-----------------------------------------------------------------------------
(* Slots: two positions of one slot are a lap apart at least.               *)

LEMMA Sizes == Capacity \in Nat /\ Capacity > 1 /\ MaxPush \in Nat /\ MaxPending \in Nat
  BY RingAssumption

LEMMA SlotIs == \A p \in Nat : SlotOf(p) \in Slots
  BY Sizes DEF SlotOf, Slots

LEMMA Multiple ==
    ASSUME NEW c \in Nat \ {0}, NEW k \in Nat \ {0}
    PROVE  c * k >= c
  OBVIOUS

LEMMA LapsApart ==
    ASSUME NEW a \in Nat, NEW b \in Nat, a < b, SlotOf(a) = SlotOf(b)
    PROVE  b >= a + Capacity
  <1> DEFINE c == Capacity
             da == a \div c
             db == b \div c
  <1>1. c \in Nat \ {0} /\ da \in Nat /\ db \in Nat
    BY Sizes
  <1>2. a = c * da + (a % c) /\ b = c * db + (b % c)
    BY <1>1
  <1>3. a % c = b % c /\ a % c \in Nat
    BY <1>1 DEF SlotOf
  <1> HIDE DEF c, da, db
  <1>4. b - a = c * db - c * da /\ c * db \in Nat /\ c * da \in Nat
    BY <1>1, <1>2, <1>3
  <1>5. db - da \in Int /\ c * db - c * da = c * (db - da)
    BY <1>1
  <1>6. db - da > 0
    <2>1. CASE db <= da
      <3>1. c * (da - db) \in Nat /\ c * (da - db) = c * da - c * db
        BY <1>1, <2>1
      <3> QED BY <1>4, <3>1
    <2> QED BY <1>1, <2>1
  <1>7. c * (db - da) >= c
    BY <1>1, <1>6, Multiple
  <1> QED BY <1>1, <1>4, <1>5, <1>7 DEF c

-----------------------------------------------------------------------------
(* The stores on their way, when one is seen and when more are issued.      *)

Store == [var : {"lo", "hi", "head"}, slot : Slots, val : Nat]

(* Where the k-th of those left was when the i-th was taken out.            *)
Was(i, k) == IF k < i THEN k ELSE k + 1

LEMMA WasBefore ==
    ASSUME NEW n \in Nat, NEW i \in 1 .. n
    PROVE  /\ \A k \in 1 .. n - 1 : Was(i, k) \in 1 .. n /\ Was(i, k) # i
           /\ \A j, k \in 1 .. n - 1 : j < k => Was(i, j) < Was(i, k)
           /\ \A j \in 1 .. n : j # i => \E k \in 1 .. n - 1 : Was(i, k) = j
  <1>1. ASSUME NEW j \in 1 .. n, j # i PROVE \E k \in 1 .. n - 1 : Was(i, k) = j
    <2>1. CASE j < i
      <3>1. j \in 1 .. n - 1 /\ Was(i, j) = j
        BY <2>1 DEF Was
      <3> QED BY <3>1
    <2>2. CASE j > i
      <3>1. j - 1 \in 1 .. n - 1 /\ Was(i, j - 1) = j
        BY <2>2 DEF Was
      <3> QED BY <3>1
    <2> QED BY <1>1, <2>1, <2>2
  <1> QED BY <1>1 DEF Was

LEMMA RemovesOne ==
    ASSUME NEW S, NEW q \in Seq(S), NEW i \in 1 .. Len(q)
    PROVE  LET r == RemoveAt(q, i)
           IN  /\ r \in Seq(S) /\ Len(r) = Len(q) - 1
               /\ \A k \in 1 .. Len(q) - 1 : r[k] = q[Was(i, k)]
  <1> DEFINE n == Len(q)
             a == SubSeq(q, 1, i - 1)
             b == SubSeq(q, i + 1, n)
             r == a \o b
  <1>0. n \in Nat /\ i \in 1 .. n /\ \A k \in 1 .. n : q[k] \in S
    OBVIOUS
  <1> HIDE DEF n
  <1>1. (\A k \in 1 .. i - 1 : q[k] \in S) /\ (\A k \in i + 1 .. n : q[k] \in S)
    BY <1>0
  <1>2. /\ a \in Seq(S) /\ Len(a) = i - 1
        /\ \A k \in 1 .. i - 1 : a[k] = q[k]
    <2>1. /\ a \in Seq(S) /\ Len(a) = IF 1 <= i - 1 THEN i - 1 - 1 + 1 ELSE 0
          /\ \A k \in 1 .. i - 1 - 1 + 1 : a[k] = q[1 + k - 1]
      BY <1>0, <1>1, SubSeqProperties
    <2>2. (IF 1 <= i - 1 THEN i - 1 - 1 + 1 ELSE 0) = i - 1 /\ i - 1 - 1 + 1 = i - 1
      BY ONLY <1>0
    <2>3. \A k \in 1 .. i - 1 : 1 + k - 1 = k
      BY ONLY <1>0
    <2> HIDE DEF a
    <2>4. \A k \in 1 .. i - 1 : a[k] = q[1 + k - 1]
      BY <2>1, <2>2
    <2> QED BY <2>1, <2>2, <2>3, <2>4
  <1>3. /\ b \in Seq(S) /\ Len(b) = n - i
        /\ \A k \in 1 .. n - i : b[k] = q[i + k]
    <2>1. /\ b \in Seq(S) /\ Len(b) = IF i + 1 <= n THEN n - (i + 1) + 1 ELSE 0
          /\ \A k \in 1 .. n - (i + 1) + 1 : b[k] = q[i + 1 + k - 1]
      BY <1>0, <1>1, SubSeqProperties
    <2>2. (IF i + 1 <= n THEN n - (i + 1) + 1 ELSE 0) = n - i /\ n - (i + 1) + 1 = n - i
      BY ONLY <1>0
    <2>3. \A k \in 1 .. n - i : i + 1 + k - 1 = i + k
      BY ONLY <1>0
    <2> HIDE DEF b
    <2>4. \A k \in 1 .. n - i : b[k] = q[i + 1 + k - 1]
      BY <2>1, <2>2
    <2> QED BY <2>1, <2>2, <2>3, <2>4
  <1>4. /\ r \in Seq(S) /\ Len(r) = Len(a) + Len(b)
        /\ \A k \in 1 .. Len(a) + Len(b) : r[k] = IF k <= Len(a) THEN a[k] ELSE b[k - Len(a)]
    BY <1>2, <1>3, ConcatProperties
  <1>5. RemoveAt(q, i) = r
    BY DEF RemoveAt, n
  <1> HIDE DEF a, b, r
  <1>6. i - 1 + (n - i) = n - 1
    BY <1>0
  <1>7. Len(r) = n - 1 /\ \A k \in 1 .. n - 1 : r[k] = IF k <= i - 1 THEN a[k] ELSE b[k - (i - 1)]
    BY <1>2, <1>3, <1>4, <1>6
  <1>8. ASSUME NEW k \in 1 .. n - 1 PROVE r[k] = q[Was(i, k)]
    <2>1. CASE k < i
      <3>1. k \in 1 .. i - 1 /\ k <= i - 1
        BY <1>0, <2>1
      <3> QED BY <1>2, <1>7, <2>1, <3>1 DEF Was
    <2>2. CASE ~(k < i)
      <3>1. k - (i - 1) \in 1 .. n - i /\ i + (k - (i - 1)) = k + 1 /\ ~(k <= i - 1)
        BY <1>0, <2>2
      <3> QED BY <1>3, <1>7, <2>2, <3>1 DEF Was
    <2> QED BY <2>1, <2>2
  <1> QED BY <1>4, <1>5, <1>7, <1>8 DEF n

(* What is left of q when the i-th is taken out.                            *)
Left(q, i, r) ==
    /\ \A k \in 1 .. Len(r) : Was(i, k) \in 1 .. Len(q) /\ Was(i, k) # i /\ r[k] = q[Was(i, k)]
    /\ \A j, k \in 1 .. Len(r) : j < k => Was(i, j) < Was(i, k)
    /\ \A j \in 1 .. Len(q) : j # i => \E k \in 1 .. Len(r) : Was(i, k) = j /\ r[k] = q[j]

LEMMA TakenOut ==
    ASSUME TypeOK, NEW i \in 1 .. Len(pending), pending' = RemoveAt(pending, i)
    PROVE  pending' \in Seq(Store) /\ Left(pending, i, pending')
  <1>1. pending \in Seq(Store) /\ Len(pending) \in Nat
    BY DEF TypeOK, Store
  <1>2. /\ pending' \in Seq(Store) /\ Len(pending') = Len(pending) - 1
        /\ \A k \in 1 .. Len(pending) - 1 : pending'[k] = pending[Was(i, k)]
    BY <1>1, RemovesOne
  <1> DEFINE n == Len(pending)
             m == Len(pending')
  <1>3. n \in Nat /\ m = n - 1 /\ i \in 1 .. n
    BY <1>1, <1>2
  <1>4. /\ \A k \in 1 .. n - 1 : Was(i, k) \in 1 .. n /\ Was(i, k) # i
        /\ \A j, k \in 1 .. n - 1 : j < k => Was(i, j) < Was(i, k)
        /\ \A j \in 1 .. n : j # i => \E k \in 1 .. n - 1 : Was(i, k) = j
    BY <1>3, WasBefore
  <1>5. \A k \in 1 .. n - 1 : pending'[k] = pending[Was(i, k)]
    BY <1>2
  <1> HIDE DEF n, m
  <1>6. 1 .. m = 1 .. n - 1
    BY ONLY <1>3
  <1>7. \A j \in 1 .. n : j # i => \E k \in 1 .. m : Was(i, k) = j /\ pending'[k] = pending[j]
    BY <1>4, <1>5, <1>6
  <1> QED BY <1>2, <1>4, <1>5, <1>6, <1>7 DEF n, m, Left

(* What q is with the stores of a record behind it.                         *)
Longer(q, r, position) ==
    /\ Len(q) \in Nat /\ Len(r) = Len(q) + 3
    /\ \A k \in 1 .. Len(q) : r[k] = q[k]
    /\ r[Len(q) + 1] = [var |-> "lo", slot |-> SlotOf(position), val |-> Word(position)]
    /\ r[Len(q) + 2] = [var |-> "hi", slot |-> SlotOf(position), val |-> Word(position)]
    /\ r[Len(q) + 3] = [var |-> "head", slot |-> 0, val |-> Word(position)]

LEMMA PutOn ==
    ASSUME TypeOK, pending' = pending \o Stores(put)
    PROVE  pending' \in Seq(Store) /\ Longer(pending, pending', put)
  <1> DEFINE n == Len(pending)
             more == Stores(put)
  <1>1. pending \in Seq(Store) /\ n \in Nat /\ put \in Nat
    BY DEF TypeOK, Store
  <1>2. SlotOf(put) \in Slots /\ 0 \in Slots
    BY <1>1, SlotIs, Sizes DEF Slots
  <1>3. /\ more[1] = [var |-> "lo", slot |-> SlotOf(put), val |-> Word(put)]
        /\ more[2] = [var |-> "hi", slot |-> SlotOf(put), val |-> Word(put)]
        /\ more[3] = [var |-> "head", slot |-> 0, val |-> Word(put)]
        /\ Len(more) = 3
    BY DEF Stores, Word
  <1>4. more \in Seq(Store)
    BY <1>1, <1>2 DEF Stores, Store, Word
  <1> HIDE DEF n, more
  <1>5. /\ pending' \in Seq(Store) /\ Len(pending') = n + 3
        /\ \A k \in 1 .. n + 3 : pending'[k] = IF k <= n THEN pending[k] ELSE more[k - n]
    <2> DEFINE q == pending \o more
    <2>1. /\ q \in Seq(Store) /\ Len(q) = Len(pending) + Len(more)
          /\ \A k \in 1 .. Len(pending) + Len(more) :
               q[k] = IF k <= Len(pending) THEN pending[k] ELSE more[k - Len(pending)]
      BY <1>1, <1>4, ConcatProperties
    <2>2. pending' = q
      BY DEF more
    <2> HIDE DEF q
    <2> QED BY <1>3, <2>1, <2>2 DEF n
  <1>6. /\ \A k \in 1 .. n : k \in 1 .. n + 3 /\ k <= n
        /\ n + 1 \in 1 .. n + 3 /\ n + 2 \in 1 .. n + 3 /\ n + 3 \in 1 .. n + 3
        /\ ~(n + 1 <= n) /\ ~(n + 2 <= n) /\ ~(n + 3 <= n)
        /\ n + 1 - n = 1 /\ n + 2 - n = 2 /\ n + 3 - n = 3
    BY <1>1
  <1> QED BY <1>1, <1>3, <1>5, <1>6 DEF n, Longer

-----------------------------------------------------------------------------
(* What the stores do to a half of the slots.                               *)

LEMMA HalfIssued ==
    ASSUME NEW var \in {"lo", "hi"}, NEW words \in [Slots -> Nat], NEW q, NEW r, NEW h \in Nat, NEW n \in Nat,
           NEW total \in BOOLEAN, Half(var, words, q, h, n, total), Longer(q, r, n)
    PROVE  Half(var, words, r, h, n + 1, total)
  <1>0. /\ Len(q) \in Nat /\ Len(r) = Len(q) + 3
        /\ \A k \in 1 .. Len(q) : r[k] = q[k]
        /\ r[Len(q) + 1] = [var |-> "lo", slot |-> SlotOf(n), val |-> Word(n)]
        /\ r[Len(q) + 2] = [var |-> "hi", slot |-> SlotOf(n), val |-> Word(n)]
        /\ r[Len(q) + 3] = [var |-> "head", slot |-> 0, val |-> Word(n)]
    BY DEF Longer
  <1> DEFINE l == Len(q)
  <1>1. /\ l \in Nat /\ Len(r) = l + 3
        /\ \A i \in 1 .. l + 3 : i \in 1 .. l \/ i \in {l + 1, l + 2, l + 3}
        /\ \A i \in 1 .. l : i \in 1 .. l + 3
        /\ {l + 1, l + 2, l + 3} \subseteq 1 .. l + 3
    <2>1. l \in Nat /\ Len(r) = l + 3
      BY <1>0
    <2> HIDE DEF l
    <2> QED BY ONLY <2>1
  <1>2. \A s \in Slots : words[s] \in Nat /\ words[s] <= n
    BY DEF Half
  <1>3. SlotOf(n) \in Slots
    BY SlotIs
  <1>4. \A s \in Slots : /\ words[s] <= n + 1
                         /\ words[s] # 0 => SlotOf(words[s] - 1) = s
                         /\ total => words[s] <= h + 1
    BY <1>2 DEF Half
  <1>5. \A i \in 1 .. Len(r) : r[i].var = var => words[r[i].slot] < r[i].val
    <2>1. \A i \in 1 .. l : q[i].var = var => words[q[i].slot] < q[i].val
      BY DEF Half
    <2>2. words[SlotOf(n)] < Word(n)
      BY <1>2, <1>3 DEF Word
    <2>3. \A i \in 1 .. l : r[i] = q[i]
      BY <1>0
    <2> HIDE DEF l
    <2>4. ASSUME NEW i \in 1 .. l + 3, r[i].var = var PROVE words[r[i].slot] < r[i].val
      <3>1. CASE i \in 1 .. l
        BY <2>1, <2>3, <2>4, <3>1
      <3>2. CASE i \in {l + 1, l + 2, l + 3}
        BY <1>0, <2>2, <2>4, <3>2 DEF l
      <3> QED BY <1>1, <3>1, <3>2
    <2> QED BY <1>1, <2>4
  <1>6. ASSUME NEW p \in 0 .. n + 1 - 1, ~(words[SlotOf(p)] >= Word(p))
        PROVE  \E i \in 1 .. Len(r) : r[i].var = var /\ r[i].val = Word(p)
    <2>1. CASE p = n
      <3>1. l + 1 \in 1 .. Len(r) /\ l + 2 \in 1 .. Len(r)
        BY <1>1
      <3> QED BY <1>0, <2>1, <3>1
    <2>2. CASE p # n
      <3>1. p \in 0 .. n - 1
        BY <2>2
      <3>2. PICK i \in 1 .. l : q[i].var = var /\ q[i].val = Word(p)
        BY <1>6, <3>1 DEF Half
      <3>3. i \in 1 .. Len(r) /\ r[i] = q[i]
        BY <1>0, <1>1
      <3> QED BY <3>2, <3>3
    <2> QED BY <2>1, <2>2
  <1> QED BY <1>4, <1>5, <1>6 DEF Half

(* Another store is seen, or the head moves: this half is as it was.        *)
LEMMA HalfKept ==
    ASSUME NEW var \in {"lo", "hi"}, NEW words \in [Slots -> Nat], NEW q, NEW i \in 1 .. Len(q), NEW r,
           NEW h \in Nat, NEW k \in Nat, h <= k, NEW n \in Nat, NEW total \in BOOLEAN,
           Half(var, words, q, h, n, total), q[i].var # var, Left(q, i, r)
    PROVE  Half(var, words, r, k, n, total)
  <1>1. \A s \in Slots : /\ words[s] <= n
                         /\ words[s] # 0 => SlotOf(words[s] - 1) = s
                         /\ total => words[s] <= k + 1
    BY DEF Half
  <1>2. \A j \in 1 .. Len(r) : r[j].var = var => words[r[j].slot] < r[j].val
    BY DEF Half, Left
  <1>3. ASSUME NEW p \in 0 .. n - 1, ~(words[SlotOf(p)] >= Word(p))
        PROVE  \E j \in 1 .. Len(r) : r[j].var = var /\ r[j].val = Word(p)
    <2>1. PICK j \in 1 .. Len(q) : q[j].var = var /\ q[j].val = Word(p)
      BY <1>3 DEF Half
    <2>2. j # i
      BY <2>1
    <2> QED BY <2>1, <2>2 DEF Left
  <1> QED BY <1>1, <1>2, <1>3 DEF Half

(* The i-th is a store to this half, and the first on its way to its place. *)
FirstThere(var, q, i, n) ==
    /\ q[i].var = var /\ q[i].slot = SlotOf(q[i].val - 1) /\ q[i].val \in 1 .. n
    /\ \A j \in 1 .. i - 1 : <<q[j].var, q[j].slot>> # <<q[i].var, q[i].slot>>
    /\ \A j \in 1 .. Len(q) : i < j /\ q[j].var = var => q[i].val < q[j].val

(* It is seen: it is now the newest there.                                  *)
LEMMA HalfSeen ==
    ASSUME NEW var \in {"lo", "hi"}, NEW words \in [Slots -> Nat], NEW q \in Seq(Store), NEW i \in 1 .. Len(q),
           NEW r, NEW h \in Nat, NEW n \in Nat, NEW total \in BOOLEAN, Half(var, words, q, h, n, total),
           Left(q, i, r), FirstThere(var, q, i, n), total => q[i].val <= h + 1,
           NEW new, new = [words EXCEPT ![q[i].slot] = q[i].val]
    PROVE  Half(var, new, r, h, n, total)
  <1>0. /\ q[i].var = var /\ q[i].slot = SlotOf(q[i].val - 1) /\ q[i].val \in 1 .. n
        /\ \A j \in 1 .. i - 1 : <<q[j].var, q[j].slot>> # <<q[i].var, q[i].slot>>
        /\ \A j \in 1 .. Len(q) : i < j /\ q[j].var = var => q[i].val < q[j].val
    BY DEF FirstThere
  <1> DEFINE v == q[i].val
             s0 == q[i].slot
  <1>1. /\ v \in 1 .. n /\ s0 \in Slots /\ s0 = SlotOf(v - 1) /\ words[s0] < v /\ (total => v <= h + 1)
        /\ \A j \in 1 .. Len(q) : q[j].slot \in Slots /\ q[j].val \in Nat
    <2>1. \A j \in 1 .. Len(q) : q[j] \in Store
      OBVIOUS
    <2> QED BY <1>0, <2>1 DEF Half, Store
  <1>2. \A s \in Slots : new[s] = IF s = s0 THEN v ELSE words[s]
    OBVIOUS
  <1>3. \A s \in Slots : words[s] \in Nat /\ words[s] <= n /\ (words[s] # 0 => SlotOf(words[s] - 1) = s)
                         /\ (total => words[s] <= h + 1)
    BY DEF Half
  <1> HIDE DEF v, s0
  <1>4. \A s \in Slots : /\ new[s] <= n
                         /\ new[s] # 0 => SlotOf(new[s] - 1) = s
                         /\ total => new[s] <= h + 1
    BY <1>1, <1>2, <1>3
  <1>5. ASSUME NEW k \in 1 .. Len(r), r[k].var = var PROVE new[r[k].slot] < r[k].val
    <2>1. PICK j \in 1 .. Len(q) : j = Was(i, k) /\ j # i /\ r[k] = q[j]
      BY DEF Left
    <2>2. CASE q[j].slot = s0
      <3>1. ~(j < i)
        BY <1>0, <1>5, <2>1, <2>2 DEF s0
      <3>2. v < q[j].val
        BY <1>0, <1>5, <2>1, <3>1 DEF v
      <3> QED BY <1>1, <1>2, <2>1, <2>2, <3>2
    <2>3. CASE q[j].slot # s0
      <3>1. words[q[j].slot] < q[j].val
        BY <1>5, <2>1 DEF Half
      <3> QED BY <1>1, <1>2, <2>1, <2>3, <3>1
    <2> QED BY <2>2, <2>3
  <1>6. ASSUME NEW p \in 0 .. n - 1, ~(new[SlotOf(p)] >= Word(p))
        PROVE  \E k \in 1 .. Len(r) : r[k].var = var /\ r[k].val = Word(p)
    <2>1. SlotOf(p) \in Slots /\ p \in Nat /\ p + 1 \in Nat /\ Word(p) = p + 1
      BY SlotIs DEF Word
    <2>2. ~(words[SlotOf(p)] >= Word(p))
      BY <1>1, <1>2, <1>3, <1>6, <2>1
    <2>3. PICK j \in 1 .. Len(q) : q[j].var = var /\ q[j].val = Word(p)
      BY <2>2 DEF Half
    <2>4. j # i
      <3>1. SUFFICES ASSUME j = i PROVE FALSE
        OBVIOUS
      <3>2. v = p + 1
        BY <2>1, <2>3, <3>1 DEF v
      <3>3. v - 1 = p
        BY <2>1, <3>2
      <3>4. s0 = SlotOf(p)
        BY <1>1, <3>3
      <3> QED BY <1>2, <1>6, <2>1, <3>2, <3>4
    <2> QED BY <2>3, <2>4 DEF Left
  <1> QED BY <1>4, <1>5, <1>6 DEF Half, s0, v

-----------------------------------------------------------------------------
(* The invariant, step by step. *)

LEMMA Numbers ==
    ASSUME TypeOK
    PROVE  /\ head \in Nat /\ tail \in Nat /\ dropped \in Nat /\ put \in Nat
           /\ pop.tail \in Nat /\ pop.missed \in Nat /\ pop.head \in Nat /\ pop.lo \in Nat /\ pop.hi \in Nat
           /\ lo \in [Slots -> Nat] /\ hi \in [Slots -> Nat]
           /\ pending \in Seq(Store) /\ Len(pending) \in Nat
           /\ use \in Uses /\ use.lossy \in BOOLEAN /\ use.order \in {"release", "total"}
           /\ \A i \in 1 .. Len(pending) : pending[i] \in Store
  <1>1. pending \in Seq(Store)
    BY DEF TypeOK, Store
  <1>2. \A i \in 1 .. Len(pending) : pending[i] \in Store
    BY <1>1
  <1>3. use \in [lossy : BOOLEAN, order : {"release", "total"}]
    BY RingAssumption DEF TypeOK
  <1> QED BY <1>1, <1>2, <1>3 DEF TypeOK

LEMMA InitInv == Init => IInv
  <1> SUFFICES ASSUME Init PROVE IInv
    OBVIOUS
  <1>1. TypeOK
    BY Sizes DEF Init, Idle, TypeOK
  <1>2. /\ head = 0 /\ put = 0 /\ tail = 0 /\ Len(pending) = 0 /\ pop.at = "idle"
        /\ lo = [s \in Slots |-> 0] /\ hi = [s \in Slots |-> 0]
    BY DEF Init, Idle
  <1>3. Waiting
    BY <1>2 DEF Waiting
  <1>4. Halves
    BY <1>2 DEF Halves, Half
  <1>5. Room /\ Reading
    BY <1>2, Sizes DEF Room, Reading
  <1> QED BY <1>1, <1>3, <1>4, <1>5 DEF IInv

LEMMA IssueKeeps ==
    ASSUME IInv, Issue, use.lossy \/ HasRoom
    PROVE  IInv'
  <1> DEFINE n == Len(pending)
  <1>1. /\ pending' = pending \o Stores(put) /\ put' = put + 1
        /\ UNCHANGED <<use, lo, hi, head, tail, dropped, pop, got>>
    BY DEF Issue, memory
  <1>2. TypeOK
    BY DEF IInv
  <1>0. pending' \in Seq(Store) /\ Longer(pending, pending', put)
    BY <1>1, <1>2, PutOn
  <1>3. /\ n \in Nat /\ Len(pending') = n + 3
        /\ \A k \in 1 .. n : pending'[k] = pending[k]
        /\ pending'[n + 1] = [var |-> "lo", slot |-> SlotOf(put), val |-> Word(put)]
        /\ pending'[n + 2] = [var |-> "hi", slot |-> SlotOf(put), val |-> Word(put)]
        /\ pending'[n + 3] = [var |-> "head", slot |-> 0, val |-> Word(put)]
    BY <1>0 DEF Longer
  <1>4. /\ head \in Nat /\ put \in Nat /\ head <= put /\ lo \in [Slots -> Nat] /\ hi \in [Slots -> Nat]
    BY <1>2, Numbers DEF IInv, Room
  <1>5. TypeOK'
    <2>1. pending' \in Seq([var : {"lo", "hi", "head"}, slot : Slots, val : Nat])
      BY <1>0 DEF Store
    <2>2. put' \in Nat
      BY <1>1, <1>4
    <2> QED BY <1>1, <1>2, <2>1, <2>2 DEF TypeOK
  <1>6. Halves'
    <2> DEFINE total == use.order = "total"
    <2>1. Half("lo", lo, pending, head, put, total) /\ Half("hi", hi, pending, head, put, total)
      BY DEF IInv, Halves
    <2>2. total \in BOOLEAN /\ put + 1 = put' /\ total' = total /\ lo' = lo /\ hi' = hi /\ head' = head
      BY <1>1
    <2> HIDE DEF total
    <2>3. Half("lo", lo, pending', head, put + 1, total)
      BY <1>0, <1>4, <2>1, <2>2, HalfIssued
    <2>4. Half("hi", hi, pending', head, put + 1, total)
      BY <1>0, <1>4, <2>1, <2>2, HalfIssued
    <2>5. Half("lo", lo', pending', head', put', total') /\ Half("hi", hi', pending', head', put', total')
      BY <2>2, <2>3, <2>4
    <2> QED BY <2>5 DEF Halves, total
  <1>7. Waiting'
    <2> DEFINE q == pending
               r == pending'
               h == head
               m == put
    <2>1. \A i \in 1 .. n + 3 : i \in 1 .. n \/ i = n + 1 \/ i = n + 2 \/ i = n + 3
      BY <1>3
    <2>2. /\ \A i \in 1 .. n : q[i].val \in h + 1 .. m /\ (q[i].var # "head" => q[i].slot = SlotOf(q[i].val - 1))
          /\ \A i, j \in 1 .. n :
               i < j => /\ q[i].val <= q[j].val
                        /\ q[i].val = q[j].val => q[i].var # "head" /\ q[i].var # q[j].var
          /\ \A v \in h + 1 .. m : \E i \in 1 .. n : q[i].var = "head" /\ q[i].val = v
      BY DEF IInv, Waiting
    <2>3. /\ \A k \in 1 .. n : r[k] = q[k]
          /\ r[n + 1].var = "lo" /\ r[n + 2].var = "hi" /\ r[n + 3].var = "head"
          /\ r[n + 1].val = m + 1 /\ r[n + 2].val = m + 1 /\ r[n + 3].val = m + 1
          /\ r[n + 1].slot = SlotOf(m + 1 - 1) /\ r[n + 2].slot = SlotOf(m + 1 - 1)
      BY <1>3, <1>4 DEF Word
    <2>4. n \in Nat /\ Len(r) = n + 3 /\ h \in Nat /\ m \in Nat /\ h <= m /\ put' = m + 1 /\ head' = h
      BY <1>1, <1>3, <1>4
    <2> HIDE DEF q, r, n, h, m
    <2>5. ASSUME NEW i \in 1 .. n + 3
          PROVE  r[i].val \in h + 1 .. m + 1 /\ (r[i].var # "head" => r[i].slot = SlotOf(r[i].val - 1))
      <3>1. CASE i \in 1 .. n
        <4>1. r[i] = q[i] /\ q[i].val \in h + 1 .. m
          BY <2>2, <2>3, <3>1
        <4> QED BY <2>2, <2>4, <3>1, <4>1
      <3>2. CASE i \in {n + 1, n + 2, n + 3}
        <4>1. r[i].val = m + 1 /\ (r[i].var # "head" => r[i].slot = SlotOf(m + 1 - 1))
          BY <2>3, <3>2
        <4>2. m + 1 \in h + 1 .. m + 1
          BY <2>4
        <4>3. r[i].val \in h + 1 .. m + 1
          BY <4>1, <4>2
        <4>4. r[i].var # "head" => r[i].slot = SlotOf(r[i].val - 1)
          <5> DEFINE v == r[i].val
          <5>1. v = m + 1
            BY <4>1
          <5> HIDE DEF v
          <5>2. v - 1 = m + 1 - 1
            BY <2>4, <5>1
          <5>3. SlotOf(v - 1) = SlotOf(m + 1 - 1)
            BY <5>2
          <5> QED BY <4>1, <5>3 DEF v
        <4> QED BY <4>3, <4>4
      <3> QED BY <2>1, <3>1, <3>2
    <2>6. ASSUME NEW i \in 1 .. n + 3, NEW j \in 1 .. n + 3, i < j
          PROVE  /\ r[i].val <= r[j].val
                 /\ r[i].val = r[j].val => r[i].var # "head" /\ r[i].var # r[j].var
      <3>1. CASE i \in 1 .. n /\ j \in 1 .. n
        BY <2>2, <2>3, <2>6, <3>1
      <3>2. CASE i \in 1 .. n /\ j \in {n + 1, n + 2, n + 3}
        <4>1. r[i].val \in h + 1 .. m /\ r[j].val = m + 1
          BY <2>2, <2>3, <3>2
        <4> QED BY <2>4, <4>1
      <3>3. CASE i \in {n + 1, n + 2, n + 3} /\ j \in {n + 1, n + 2, n + 3}
        BY <2>3, <2>4, <2>6, <3>3
      <3>4. ~(i \in {n + 1, n + 2, n + 3} /\ j \in 1 .. n)
        BY <2>4, <2>6
      <3> QED BY <2>1, <3>1, <3>2, <3>3, <3>4
    <2>7. ASSUME NEW v \in h + 1 .. m + 1
          PROVE  \E i \in 1 .. n + 3 : r[i].var = "head" /\ r[i].val = v
      <3>1. CASE v = m + 1
        <4>1. n + 3 \in 1 .. n + 3
          BY <2>4
        <4> QED BY <2>3, <3>1, <4>1
      <3>2. CASE v # m + 1
        <4>1. v \in h + 1 .. m
          BY <2>4, <3>2
        <4>2. PICK i \in 1 .. n : q[i].var = "head" /\ q[i].val = v
          BY <2>2, <4>1
        <4>3. i \in 1 .. n + 3 /\ r[i] = q[i]
          BY <2>3, <2>4
        <4> QED BY <4>2, <4>3
      <3> QED BY <3>1, <3>2
    <2> QED BY <2>4, <2>5, <2>6, <2>7 DEF Waiting, r
  <1>8. Room'
    BY <1>1, <1>2, <1>4, Numbers, Sizes DEF IInv, Room, HasRoom
  <1>9. Reading'
    BY <1>1 DEF IInv, Reading, Copied, Overtaken
  <1> QED BY <1>5, <1>6, <1>7, <1>8, <1>9 DEF IInv

(* What is seen next: by the head, or where order is kept, the next record. *)
LEMMA NextSeen ==
    ASSUME TypeOK, Waiting, NEW i \in 1 .. Len(pending), MayAppear(i)
    PROVE  /\ pending[i].val \in head + 1 .. put
           /\ pending[i].var = "head" \/ use.order = "total" => i = 1 /\ pending[i].val = head + 1
  <1> DEFINE v == pending[i].val
  <1>1. v \in head + 1 .. put /\ head \in Nat /\ put \in Nat /\ Len(pending) \in Nat
    BY Numbers DEF Waiting
  <1>2. ASSUME pending[i].var = "head" \/ use.order = "total" PROVE i = 1 /\ v = head + 1
    <2>1. i = 1
      BY <1>2 DEF MayAppear
    <2>2. head + 1 \in head + 1 .. put
      BY <1>1
    <2>3. PICK k \in 1 .. Len(pending) : pending[k].var = "head" /\ pending[k].val = head + 1
      BY <2>2 DEF Waiting
    <2>4. CASE k = i
      BY <2>1, <2>3, <2>4
    <2>5. CASE k # i
      <3>1. i < k
        BY <1>1, <2>1, <2>5
      <3>2. pending[i].val <= pending[k].val
        BY <3>1 DEF Waiting
      <3> HIDE DEF v
      <3>3. v <= head + 1
        BY <2>3, <3>2 DEF v
      <3> QED BY <1>1, <2>1, <3>3
    <2> QED BY <2>4, <2>5
  <1> QED BY <1>1, <1>2

LEMMA AppearWaits ==
    ASSUME IInv, NEW i \in 1 .. Len(pending), Appear(i)
    PROVE  Waiting'
  <1>1. /\ TypeOK /\ Waiting /\ MayAppear(i) /\ pending' = RemoveAt(pending, i) /\ put' = put
        /\ head' = IF pending[i].var = "head" THEN pending[i].val ELSE head
    BY DEF IInv, Appear
  <1>2. Left(pending, i, pending') /\ head \in Nat /\ put \in Nat /\ Len(pending) \in Nat
    BY <1>1, TakenOut, Numbers
  <1>3. /\ \A k \in 1 .. Len(pending') :
             Was(i, k) \in 1 .. Len(pending) /\ Was(i, k) # i /\ pending'[k] = pending[Was(i, k)]
        /\ \A j, k \in 1 .. Len(pending') : j < k => Was(i, j) < Was(i, k)
        /\ \A j \in 1 .. Len(pending) : j # i => \E k \in 1 .. Len(pending') : pending'[k] = pending[j]
    BY <1>2 DEF Left
  <1>4. \A j \in 1 .. Len(pending) :
          pending[j].val \in head + 1 .. put /\ (pending[j].var # "head" => pending[j].slot = SlotOf(pending[j].val - 1))
    BY <1>1 DEF Waiting
  <1>5. \A j, k \in 1 .. Len(pending) :
          j < k => /\ pending[j].val <= pending[k].val
                   /\ pending[j].val = pending[k].val => pending[j].var # "head" /\ pending[j].var # pending[k].var
    BY <1>1 DEF Waiting
  <1>6. pending[i].var = "head" => i = 1 /\ pending[i].val = head + 1
    BY <1>1, NextSeen
  <1>7. ASSUME NEW k \in 1 .. Len(pending')
        PROVE  /\ pending'[k].val \in head' + 1 .. put'
               /\ pending'[k].var # "head" => pending'[k].slot = SlotOf(pending'[k].val - 1)
    <2>1. PICK j \in 1 .. Len(pending) : j # i /\ pending'[k] = pending[j]
      BY <1>3
    <2> DEFINE v == pending[j].val
               w == pending[i].val
    <2>2. v \in head + 1 .. put
      BY <1>4
    <2>3. v \in head' + 1 .. put'
      <3>1. CASE pending[i].var # "head"
        BY <1>1, <2>2, <3>1
      <3>2. CASE pending[i].var = "head"
        <4>1. w = head + 1 /\ i < j /\ head' = head + 1
          BY <1>1, <1>2, <1>6, <2>1, <3>2
        <4>2. w <= v /\ w # v
          BY <1>5, <3>2, <4>1
        <4> HIDE DEF v, w
        <4> QED BY <1>1, <1>2, <2>2, <4>1, <4>2
      <3> QED BY <3>1, <3>2
    <2> QED BY <1>4, <2>1, <2>3
  <1>8. ASSUME NEW j \in 1 .. Len(pending'), NEW k \in 1 .. Len(pending'), j < k
        PROVE  /\ pending'[j].val <= pending'[k].val
               /\ pending'[j].val = pending'[k].val =>
                    pending'[j].var # "head" /\ pending'[j].var # pending'[k].var
    <2>1. /\ Was(i, j) \in 1 .. Len(pending) /\ Was(i, k) \in 1 .. Len(pending) /\ Was(i, j) < Was(i, k)
          /\ pending'[j] = pending[Was(i, j)] /\ pending'[k] = pending[Was(i, k)]
      BY <1>3, <1>8
    <2> QED BY <1>5, <2>1
  <1>9. ASSUME NEW v \in head' + 1 .. put'
        PROVE  \E k \in 1 .. Len(pending') : pending'[k].var = "head" /\ pending'[k].val = v
    <2>1. v \in head + 1 .. put /\ (pending[i].var = "head" => v # pending[i].val)
      BY <1>1, <1>2, <1>6
    <2>2. PICK j \in 1 .. Len(pending) : pending[j].var = "head" /\ pending[j].val = v
      BY <1>1, <2>1 DEF Waiting
    <2>3. j # i
      BY <2>1, <2>2
    <2> QED BY <1>3, <2>2, <2>3
  <1> QED BY <1>7, <1>8, <1>9 DEF Waiting

LEMMA AppearHalves ==
    ASSUME IInv, NEW i \in 1 .. Len(pending), Appear(i)
    PROVE  Halves'
  <1> DEFINE total == use.order = "total"
             v == pending[i].val
             x == pending[i].var
  <1>1. /\ TypeOK /\ Waiting /\ MayAppear(i) /\ pending' = RemoveAt(pending, i) /\ put' = put /\ use' = use
        /\ lo' = IF x = "lo" THEN [lo EXCEPT ![pending[i].slot] = v] ELSE lo
        /\ hi' = IF x = "hi" THEN [hi EXCEPT ![pending[i].slot] = v] ELSE hi
        /\ head' = IF x = "head" THEN v ELSE head
    BY DEF IInv, Appear
  <1>2. /\ Left(pending, i, pending') /\ head \in Nat /\ put \in Nat /\ pending \in Seq(Store)
        /\ lo \in [Slots -> Nat] /\ hi \in [Slots -> Nat] /\ x \in {"lo", "hi", "head"}
    BY <1>1, TakenOut, Numbers DEF Store
  <1>3. /\ v \in head + 1 .. put /\ (x = "head" => v = head + 1) /\ (total => v = head + 1)
    BY <1>1, NextSeen
  <1>4. Half("lo", lo, pending, head, put, total) /\ Half("hi", hi, pending, head, put, total)
    BY DEF IInv, Halves
  <1>5. x # "head" => pending[i].slot = SlotOf(v - 1)
    BY <1>1 DEF Waiting
  <1>6. \A j \in 1 .. i - 1 :
          <<pending[j].var, pending[j].slot>> # <<pending[i].var, pending[i].slot>>
    BY <1>1 DEF MayAppear
  <1>7. \A j \in 1 .. Len(pending) : i < j /\ pending[j].var = x => v < pending[j].val
    <2>1. ASSUME NEW j \in 1 .. Len(pending), i < j, pending[j].var = x PROVE v < pending[j].val
      <3> DEFINE w == pending[j].val
      <3>1. v <= w /\ v # w /\ w \in head + 1 .. put
        BY <1>1, <2>1 DEF Waiting
      <3> HIDE DEF w, v
      <3>2. v < w
        BY <1>2, <1>3, <3>1
      <3> QED BY <3>2 DEF w
    <2> QED BY <2>1
  <1>8. total \in BOOLEAN /\ total' = total
    BY <1>1
  <1>9. v \in 1 .. put /\ (total => v <= head + 1) /\ (x = "head" => head <= head') /\ head' \in Nat /\ head <= head
    BY <1>1, <1>2, <1>3
  <1> HIDE DEF total
  <1>10. CASE x = "lo"
    <2>1. Half("lo", lo', pending', head, put, total)
      <3>1. FirstThere("lo", pending, i, put)
        BY <1>5, <1>6, <1>7, <1>9, <1>10 DEF FirstThere
      <3>2. lo' = [lo EXCEPT ![pending[i].slot] = pending[i].val]
        BY <1>1, <1>10
      <3> QED BY <1>2, <1>4, <1>8, <1>9, <3>1, <3>2, HalfSeen
    <2>2. Half("hi", hi, pending', head, put, total)
      BY <1>2, <1>4, <1>8, <1>9, <1>10, HalfKept
    <2>3. Half("lo", lo', pending', head', put', total') /\ Half("hi", hi', pending', head', put', total')
      BY <1>1, <1>8, <1>10, <2>1, <2>2
    <2> QED BY <2>3 DEF Halves, total
  <1>11. CASE x = "hi"
    <2>1. Half("hi", hi', pending', head, put, total)
      <3>1. FirstThere("hi", pending, i, put)
        BY <1>5, <1>6, <1>7, <1>9, <1>11 DEF FirstThere
      <3>2. hi' = [hi EXCEPT ![pending[i].slot] = pending[i].val]
        BY <1>1, <1>11
      <3> QED BY <1>2, <1>4, <1>8, <1>9, <3>1, <3>2, HalfSeen
    <2>2. Half("lo", lo, pending', head, put, total)
      BY <1>2, <1>4, <1>8, <1>9, <1>11, HalfKept
    <2>3. Half("lo", lo', pending', head', put', total') /\ Half("hi", hi', pending', head', put', total')
      BY <1>1, <1>8, <1>11, <2>1, <2>2
    <2> QED BY <2>3 DEF Halves, total
  <1>12. CASE x = "head"
    <2>1. Half("hi", hi, pending', head', put, total)
      BY <1>2, <1>4, <1>8, <1>9, <1>12, HalfKept
    <2>2. Half("lo", lo, pending', head', put, total)
      BY <1>2, <1>4, <1>8, <1>9, <1>12, HalfKept
    <2>3. Half("lo", lo', pending', head', put', total') /\ Half("hi", hi', pending', head', put', total')
      BY <1>1, <1>8, <1>12, <2>1, <2>2
    <2> QED BY <2>3 DEF Halves, total
  <1> QED BY <1>2, <1>10, <1>11, <1>12

LEMMA AppearKeeps ==
    ASSUME IInv, NEW i \in 1 .. Len(pending), Appear(i)
    PROVE  IInv' /\ head' \in {head, head + 1} /\ (head' # head => head + 1 <= put)
  <1> DEFINE v == pending[i].val
             x == pending[i].var
  <1>1. /\ TypeOK /\ Waiting /\ MayAppear(i) /\ pending' = RemoveAt(pending, i)
        /\ UNCHANGED <<use, tail, dropped, put, pop, got>>
        /\ lo' = IF x = "lo" THEN [lo EXCEPT ![pending[i].slot] = v] ELSE lo
        /\ hi' = IF x = "hi" THEN [hi EXCEPT ![pending[i].slot] = v] ELSE hi
        /\ head' = IF x = "head" THEN v ELSE head
    BY DEF IInv, Appear
  <1>2. /\ pending' \in Seq(Store) /\ head \in Nat /\ put \in Nat /\ tail \in Nat /\ pending[i] \in Store
        /\ lo \in [Slots -> Nat] /\ hi \in [Slots -> Nat]
    BY <1>1, TakenOut, Numbers
  <1>3. v \in head + 1 .. put /\ (x = "head" => v = head + 1)
    BY <1>1, NextSeen
  <1>4. v \in Nat /\ pending[i].slot \in Slots
    BY <1>2 DEF Store
  <1> HIDE DEF v, x
  <1>5. head' \in {head, head + 1} /\ (head' # head => head + 1 <= put)
    BY <1>1, <1>2, <1>3
  <1>6. TypeOK'
    <2>1. pending' \in Seq([var : {"lo", "hi", "head"}, slot : Slots, val : Nat])
      BY <1>2 DEF Store
    <2>2. lo' \in [Slots -> Nat] /\ hi' \in [Slots -> Nat] /\ head' \in Nat
      BY <1>1, <1>2, <1>4
    <2> QED BY <1>1, <2>1, <2>2 DEF TypeOK
  <1>7. Room'
    BY <1>1, <1>2, <1>5 DEF IInv, Room
  <1>8. Reading'
    <2>1. pop.tail \in Nat /\ pop.missed \in Nat /\ Capacity \in Nat
      BY <1>1, Numbers, Sizes
    <2>2. Overtaken => Overtaken'
      BY <1>1, <1>2, <1>5, <2>1 DEF Overtaken
    <2>3. pop.tail < head => pop.tail < head'
      BY <1>2, <1>5, <2>1
    <2>4. pop.tail - 1 + Capacity <= head => pop.tail - 1 + Capacity <= head'
      BY <1>2, <1>5, <2>1
    <2> QED BY <1>1, <2>2, <2>3, <2>4 DEF IInv, Reading, Copied
  <1> QED BY <1>5, <1>6, <1>7, <1>8, AppearWaits, AppearHalves DEF IInv

(* A word copied is that of the record gone for, unless one a lap later is  *)
(* in the slot; and then the head tells, or there was no room for it.       *)
LEMMA CopiedRight ==
    ASSUME OrderEnough, IInv, pop.at # "idle", NEW var \in {"lo", "hi"}, NEW words \in [Slots -> Nat],
           Half(var, words, pending, head, put, use.order = "total")
    PROVE  words[SlotOf(pop.tail)] = Word(pop.tail) \/ Overtaken
  <1> DEFINE p == pop.tail
             w == words[SlotOf(p)]
  <1>1. /\ head \in Nat /\ put \in Nat /\ tail \in Nat /\ p \in Nat /\ pop.missed \in Nat /\ use \in Uses
        /\ use.lossy \in BOOLEAN /\ Capacity \in Nat
    BY Numbers, Sizes DEF IInv
  <1>2. /\ p < head /\ head <= put /\ p = tail + pop.missed /\ (pop.missed > 0 => use.lossy)
        /\ (~use.lossy => put - tail <= Capacity - 1)
    BY DEF IInv, Reading, Room
  <1>3. SlotOf(p) \in Slots /\ w \in Nat
    BY <1>1, SlotIs
  <1>4. w <= put /\ (w # 0 => SlotOf(w - 1) = SlotOf(p)) /\ (use.order = "total" => w <= head + 1)
    BY <1>3 DEF Half
  <1>5. w >= p + 1
    <2>1. p \in 0 .. put - 1
      BY <1>1, <1>2
    <2>2. CASE w >= Word(p)
      BY <2>2 DEF Word
    <2>3. ASSUME NEW i \in 1 .. Len(pending), pending[i].val = Word(p) PROVE FALSE
      <3>1. pending[i].val \in head + 1 .. put
        BY DEF IInv, Waiting
      <3> QED BY <1>1, <1>2, <2>3, <3>1 DEF Word
    <2> QED BY <2>1, <2>2, <2>3 DEF Half
  <1> HIDE DEF p, w
  <1>6. CASE w = p + 1
    BY <1>6 DEF p, w, Word
  <1>7. CASE w # p + 1
    <2> DEFINE l == w - 1
    <2>1. l \in Nat /\ p < l /\ w # 0 /\ w = l + 1
      BY <1>1, <1>3, <1>5, <1>7
    <2>2. SlotOf(p) = SlotOf(l)
      BY <1>4, <2>1
    <2> HIDE DEF l
    <2>3. l >= p + Capacity
      BY <1>1, <2>1, <2>2, LapsApart
    <2>4. CASE use.lossy
      <3>1. w <= head + 1
        BY <1>1, <1>4, <2>4 DEF OrderEnough
      <3>2. head - p >= Capacity
        BY <1>1, <2>1, <2>3, <3>1
      <3> QED BY <3>2 DEF Overtaken, p
    <2>5. CASE ~use.lossy
      BY <1>1, <1>2, <1>4, <2>1, <2>3, <2>5
    <2> QED BY <1>1, <2>4, <2>5
  <1> QED BY <1>6, <1>7

LEMMA LoadHeadKeeps == IInv /\ LoadHead => IInv'
  <1> SUFFICES ASSUME IInv, LoadHead PROVE IInv'
    OBVIOUS
  <1> DEFINE missed == Missed(head - tail)
  <1>1. /\ UNCHANGED <<use, lo, hi, head, tail, dropped, put, pending, got>>
        /\ head # tail /\ pop.at = "idle"
        /\ pop' = [pop EXCEPT !.at = "copy", !.head = head, !.tail = tail + missed,
                              !.missed = missed, !.todo = {"lo", "hi"}]
    BY DEF LoadHead, memory
  <1>2. /\ TypeOK /\ head \in Nat /\ tail \in Nat /\ put \in Nat /\ tail < head /\ head <= put
        /\ (~use.lossy => put - tail <= Capacity - 1) /\ use.lossy \in BOOLEAN
    BY <1>1, Numbers DEF IInv, Room
  <1>3. /\ missed \in Nat /\ tail + missed < head
        /\ missed > 0 => use.lossy /\ tail + missed - 1 + Capacity <= head
    BY <1>2, Sizes DEF Missed
  <1> HIDE DEF missed
  <1> DEFINE t == tail + missed
  <1>4. /\ t \in Nat /\ missed \in Nat /\ t < head
        /\ missed > 0 => use.lossy /\ t - 1 + Capacity <= head
    BY <1>2, <1>3
  <1>5. /\ pop \in [at : {"idle", "copy", "take"}, head : Nat, tail : Nat, missed : Nat,
                    todo : SUBSET {"lo", "hi"}, lo : Nat, hi : Nat]
        /\ pop' = [pop EXCEPT !.at = "copy", !.head = head, !.tail = t,
                              !.missed = missed, !.todo = {"lo", "hi"}]
    BY <1>1, <1>2 DEF TypeOK
  <1>6. t = tail + missed
    OBVIOUS
  <1> HIDE DEF t
  <1>7. TypeOK'
    <2>1. pop' \in [at : {"idle", "copy", "take"}, head : Nat, tail : Nat, missed : Nat,
                    todo : SUBSET {"lo", "hi"}, lo : Nat, hi : Nat]
      BY <1>2, <1>4, <1>5
    <2> QED BY <1>1, <1>2, <2>1 DEF TypeOK
  <1>8. /\ pop'.at = "copy" /\ pop'.tail = t /\ pop'.missed = missed /\ pop'.todo = {"lo", "hi"}
    BY <1>5
  <1>9. Reading'
    <2>1. Copied("lo", pop.lo)' /\ Copied("hi", pop.hi)'
      BY <1>8 DEF Copied
    <2>2. /\ pop'.tail < head' /\ pop'.tail = tail' + pop'.missed
          /\ pop'.missed > 0 => use'.lossy /\ pop'.tail - 1 + Capacity <= head'
      BY <1>1, <1>4, <1>6, <1>8
    <2> QED BY <1>8, <2>1, <2>2 DEF Reading
  <1>10. Waiting' /\ Halves' /\ Room'
    BY <1>1 DEF IInv, Waiting, Halves, Half, Room
  <1> QED BY <1>7, <1>9, <1>10 DEF IInv

LEMMA CopyWordKeeps == ASSUME OrderEnough PROVE IInv /\ CopyWord => IInv'
  <1> SUFFICES ASSUME IInv, CopyWord PROVE IInv'
    OBVIOUS
  <1>1. PICK w \in pop.todo :
          pop' = [pop EXCEPT !.todo = @ \ {w},
                             !.lo = IF w = "lo" THEN lo[SlotOf(pop.tail)] ELSE @,
                             !.hi = IF w = "hi" THEN hi[SlotOf(pop.tail)] ELSE @]
    BY DEF CopyWord
  <1>2. UNCHANGED <<use, lo, hi, head, tail, dropped, put, pending, got>> /\ pop.at = "copy"
    BY DEF CopyWord, memory
  <1>3. TypeOK /\ Halves /\ Reading
    BY DEF IInv
  <1>4. /\ pop \in [at : {"idle", "copy", "take"}, head : Nat, tail : Nat, missed : Nat,
                    todo : SUBSET {"lo", "hi"}, lo : Nat, hi : Nat]
        /\ lo[SlotOf(pop.tail)] \in Nat /\ hi[SlotOf(pop.tail)] \in Nat
    BY <1>3, Numbers, SlotIs DEF TypeOK
  <1>5. /\ pop'.at = "copy" /\ pop'.tail = pop.tail /\ pop'.missed = pop.missed
        /\ pop'.head = pop.head /\ pop'.todo = pop.todo \ {w}
        /\ pop'.lo = (IF w = "lo" THEN lo[SlotOf(pop.tail)] ELSE pop.lo)
        /\ pop'.hi = (IF w = "hi" THEN hi[SlotOf(pop.tail)] ELSE pop.hi)
    BY <1>1, <1>2, <1>4
  <1>6. TypeOK'
    <2>1. pop' \in [at : {"idle", "copy", "take"}, head : Nat, tail : Nat, missed : Nat,
                    todo : SUBSET {"lo", "hi"}, lo : Nat, hi : Nat]
      BY <1>1, <1>4
    <2> QED BY <1>2, <1>3, <2>1 DEF TypeOK
  <1>7. /\ lo[SlotOf(pop.tail)] = Word(pop.tail) \/ Overtaken
        /\ hi[SlotOf(pop.tail)] = Word(pop.tail) \/ Overtaken
    <2>1. /\ Half("lo", lo, pending, head, put, use.order = "total")
          /\ Half("hi", hi, pending, head, put, use.order = "total")
          /\ lo \in [Slots -> Nat] /\ hi \in [Slots -> Nat] /\ pop.at # "idle"
      BY <1>2, <1>3, Numbers DEF Halves
    <2> QED BY <2>1, CopiedRight
  <1>8. Overtaken' = Overtaken
    BY <1>2, <1>5 DEF Overtaken
  <1>9. Reading'
    <2>1. /\ pop.tail < head /\ pop.tail = tail + pop.missed
          /\ pop.missed > 0 => use.lossy /\ pop.tail - 1 + Capacity <= head
      BY <1>2, <1>3 DEF Reading
    <2>2. Copied("lo", pop.lo) /\ Copied("hi", pop.hi)
      BY <1>2, <1>3 DEF Reading
    <2>3. Copied("lo", pop.lo)' /\ Copied("hi", pop.hi)'
      BY <1>4, <1>5, <1>7, <1>8, <2>2 DEF Copied, Word
    <2> QED BY <1>2, <1>5, <2>1, <2>3 DEF Reading
  <1>10. Waiting' /\ Halves' /\ Room'
    BY <1>2 DEF IInv, Waiting, Halves, Half, Room
  <1> QED BY <1>6, <1>9, <1>10 DEF IInv

LEMMA RecheckKeeps == IInv /\ Recheck => IInv'
  <1> SUFFICES ASSUME IInv, Recheck PROVE IInv'
    OBVIOUS
  <1>1. /\ UNCHANGED <<use, lo, hi, head, tail, dropped, put, pending, got>>
        /\ pop.at = "copy" /\ pop.todo = {}
        /\ pop' = IF Overtaken THEN Idle ELSE [pop EXCEPT !.at = "take"]
    BY DEF Recheck, memory
  <1>2. TypeOK /\ Reading
    BY DEF IInv
  <1>3. TypeOK'
    <2>1. pop' \in [at : {"idle", "copy", "take"}, head : Nat, tail : Nat, missed : Nat,
                    todo : SUBSET {"lo", "hi"}, lo : Nat, hi : Nat]
      BY <1>1, <1>2 DEF TypeOK, Idle
    <2> QED BY <1>1, <1>2, <2>1 DEF TypeOK
  <1>4. CASE Overtaken
    <2>1. pop'.at = "idle"
      BY <1>1, <1>4 DEF Idle
    <2>2. Reading'
      BY <2>1 DEF Reading
    <2>3. Waiting' /\ Halves' /\ Room'
      BY <1>1 DEF IInv, Waiting, Halves, Half, Room
    <2> QED BY <1>3, <2>2, <2>3 DEF IInv
  <1>5. CASE ~Overtaken
    <2>1. /\ pop'.at = "take" /\ pop'.tail = pop.tail /\ pop'.missed = pop.missed /\ pop'.todo = pop.todo
          /\ pop'.lo = pop.lo /\ pop'.hi = pop.hi
      BY <1>1, <1>2, <1>5 DEF TypeOK
    <2>2. pop.lo = Word(pop.tail) /\ pop.hi = Word(pop.tail)
      BY <1>1, <1>2, <1>5 DEF Reading, Copied
    <2>3. Reading'
      BY <1>1, <1>2, <2>1, <2>2 DEF Reading, Copied
    <2>4. Waiting' /\ Halves' /\ Room'
      BY <1>1 DEF IInv, Waiting, Halves, Half, Room
    <2> QED BY <1>3, <2>3, <2>4 DEF IInv
  <1> QED BY <1>4, <1>5

LEMMA TakeKeeps == IInv /\ Take => IInv'
  <1> SUFFICES ASSUME IInv, Take PROVE IInv'
    OBVIOUS
  <1>1. /\ UNCHANGED <<use, lo, hi, head, put, pending>> /\ pop.at = "take" /\ pop' = Idle
        /\ dropped' = dropped + pop.missed /\ tail' = pop.tail + 1
        /\ got' = Append(got, [lo |-> pop.lo, hi |-> pop.hi])
    BY DEF Take, memory
  <1>2. /\ TypeOK /\ head \in Nat /\ tail \in Nat /\ dropped \in Nat /\ pop.tail \in Nat /\ pop.missed \in Nat
        /\ pop.lo \in Nat /\ pop.hi \in Nat /\ put \in Nat
    BY Numbers DEF IInv
  <1>3. TypeOK'
    <2>1. [lo |-> pop.lo, hi |-> pop.hi] \in [lo : Nat, hi : Nat] /\ got \in Seq([lo : Nat, hi : Nat])
      BY <1>2 DEF TypeOK
    <2>2. got' \in Seq([lo : Nat, hi : Nat])
      BY <1>1, <2>1, AppendProperties
    <2>3. pop' \in [at : {"idle", "copy", "take"}, head : Nat, tail : Nat, missed : Nat,
                    todo : SUBSET {"lo", "hi"}, lo : Nat, hi : Nat]
      BY <1>1 DEF Idle
    <2>4. dropped' \in Nat /\ tail' \in Nat
      BY <1>1, <1>2
    <2> QED BY <1>1, <1>2, <2>2, <2>3, <2>4 DEF TypeOK
  <1>4. Room'
    <2> DEFINE t == pop.tail
    <2>1. /\ t < head /\ t \in Nat /\ tail <= t /\ tail' = t + 1
          /\ head <= put /\ (~use.lossy => put - tail <= Capacity - 1)
      <3>1. pop.tail < head /\ pop.tail = tail + pop.missed
        BY <1>1 DEF IInv, Reading
      <3> QED BY <1>1, <1>2, <3>1 DEF IInv, Room
    <2> HIDE DEF t
    <2>2. tail' <= head /\ (~use.lossy => put - tail' <= Capacity - 1)
      BY <1>2, <2>1, Sizes
    <2> QED BY <1>1, <2>1, <2>2 DEF Room
  <1>5. Reading'
    BY <1>1 DEF Reading, Idle
  <1>6. Waiting' /\ Halves'
    <2>1. Waiting'
      BY <1>1 DEF IInv, Waiting
    <2>2. /\ Halves /\ lo' = lo /\ hi' = hi /\ pending' = pending /\ head' = head
          /\ put' = put /\ use' = use
      BY <1>1 DEF IInv
    <2>3. Halves'
      BY <2>2 DEF Halves, Half
    <2> QED BY <2>1, <2>3
  <1> QED BY <1>3, <1>4, <1>5, <1>6 DEF IInv

LEMMA Steps == ASSUME OrderEnough PROVE IInv /\ [Next]_vars => IInv'
  <1> SUFFICES ASSUME IInv, [Next]_vars PROVE IInv'
    OBVIOUS
  <1>1. CASE Push \/ TryPush
    BY <1>1, IssueKeeps DEF Push, TryPush
  <1>2. CASE Visibility
    BY <1>2, AppearKeeps DEF Visibility
  <1>3. CASE Consumer
    BY <1>3, LoadHeadKeeps, CopyWordKeeps, RecheckKeeps, TakeKeeps DEF Consumer
  <1>4. CASE UNCHANGED vars
    <2>1. /\ use' = use /\ lo' = lo /\ hi' = hi /\ head' = head /\ tail' = tail /\ dropped' = dropped
          /\ put' = put /\ pending' = pending /\ pop' = pop /\ got' = got
      BY <1>4 DEF vars, memory
    <2>2. TypeOK' /\ Waiting' /\ Room'
      BY <2>1 DEF IInv, TypeOK, Waiting, Room
    <2>3. Halves /\ Reading
      BY DEF IInv
    <2>4. Halves'
      BY <2>1, <2>3 DEF Halves, Half
    <2>5. Reading'
      BY <2>1, <2>3 DEF Reading, Copied, Overtaken
    <2> QED BY <2>2, <2>4, <2>5 DEF IInv
  <1> QED BY <1>1, <1>2, <1>3, <1>4 DEF Next

LEMMA Always == ASSUME OrderEnough PROVE Spec => []IInv
  BY InitInv, Steps, PTL DEF Spec

(* Whatever the ring is used for, its state keeps its types: no count of    *)
(* records goes below zero, and nothing is read outside the slots.          *)
THEOREM TypeCorrect == ASSUME OrderEnough PROVE Spec => []TypeOK
  <1>1. IInv => TypeOK
    BY DEF IInv
  <1> QED BY <1>1, Always, PTL

-----------------------------------------------------------------------------
(* The ring is a stream: the head seen is the record written, and what pop  *)
(* takes is the record delivered.                                           *)

LEMMA InitMaps == Init => Stream!SInit
  BY RingAssumption DEF Init, Stream!SInit

LEMMA StepMaps == ASSUME OrderEnough PROVE IInv /\ [Next]_vars => [Stream!SNext]_(Stream!svars)
  <1> SUFFICES ASSUME IInv, [Next]_vars PROVE [Stream!SNext]_(Stream!svars)
    OBVIOUS
  <1>0. /\ TypeOK /\ head \in Nat /\ tail \in Nat /\ dropped \in Nat /\ put \in Nat
        /\ pop.tail \in Nat /\ pop.missed \in Nat /\ use.lossy \in BOOLEAN
    BY Numbers DEF IInv
  <1>1. CASE Push \/ TryPush
    BY <1>1 DEF Push, TryPush, Issue, memory, Stream!svars
  <1>2. ASSUME NEW i \in 1 .. Len(pending), Appear(i) PROVE [Stream!SNext]_(Stream!svars)
    <2>1. head' \in {head, head + 1} /\ (head' # head => head + 1 <= put)
      BY <1>2, AppearKeeps
    <2>2. UNCHANGED <<use, tail, dropped, put, got>>
      BY <1>2 DEF Appear
    <2>3. CASE head' = head
      BY <2>2, <2>3 DEF Stream!svars
    <2>4. CASE head' # head
      <3>1. ~use.lossy => head - tail < Capacity - 1
        BY <1>0, <2>1, <2>4, Sizes DEF IInv, Room
      <3>2. Stream!Write
        BY <2>1, <2>2, <2>4, <3>1 DEF Stream!Write
      <3> QED BY <3>2 DEF Stream!SNext
    <2> QED BY <2>3, <2>4
  <1>3. CASE LoadHead \/ CopyWord \/ Recheck
    BY <1>3 DEF LoadHead, CopyWord, Recheck, memory, Stream!svars
  <1>4. CASE Take
    <2>1. /\ UNCHANGED <<use, head>> /\ pop.at = "take"
          /\ dropped' = dropped + pop.missed /\ tail' = pop.tail + 1
          /\ got' = Append(got, [lo |-> pop.lo, hi |-> pop.hi])
      BY <1>4 DEF Take, memory
    <2>2. /\ pop.tail < head /\ pop.tail = tail + pop.missed
          /\ pop.missed > 0 => use.lossy /\ pop.tail - 1 + Capacity <= head
          /\ pop.lo = Word(pop.tail) /\ pop.hi = Word(pop.tail)
      BY <2>1 DEF IInv, Reading
    <2> DEFINE skip == pop.missed
    <2>3. skip \in 0 .. head /\ skip \in Nat
      BY <1>0, <2>2
    <2> DEFINE t == pop.tail
    <2>4. /\ t = tail + skip /\ t < head /\ tail' = t + 1 /\ dropped' = dropped + skip
          /\ skip > 0 => use.lossy /\ t - 1 + Capacity <= head
      BY <2>1, <2>2
    <2>5. got' = Append(got, [lo |-> t + 1, hi |-> t + 1])
      BY <2>1, <2>2 DEF Word
    <2>9. tail \in Nat /\ skip \in Nat /\ t \in Nat /\ use.lossy \in BOOLEAN
      BY <1>0
    <2> HIDE DEF skip, t
    <2>6. /\ tail + skip < head /\ tail' = tail + skip + 1
          /\ skip > 0 => use.lossy /\ (tail + skip - 1) + Capacity <= head
      BY <2>4, <2>9, Sizes
    <2>7. got' = Append(got, Stream!Record(tail + skip))
      BY <2>4, <2>5 DEF Stream!Record
    <2>8. Stream!Deliver(skip)
      BY <2>1, <2>4, <2>6, <2>7 DEF Stream!Deliver
    <2> QED BY <2>3, <2>8 DEF Stream!SNext
  <1>5. CASE UNCHANGED vars
    BY <1>5 DEF vars, memory, Stream!svars
  <1> QED BY <1>1, <1>2, <1>3, <1>4, <1>5 DEF Next, Visibility, Consumer

(* For any number of slots and of stores on their way, a refusing ring on   *)
(* any memory Release promises, and an overwriting one where stores are     *)
(* seen in order, hand over whole records in the order they were pushed,    *)
(* skip none but those a lap behind, and count each of those once.          *)
THEOREM Refines == ASSUME OrderEnough PROVE Spec => ImplementsStream
  BY InitMaps, StepMaps, Always, PTL DEF Spec, ImplementsStream, Stream!SSpec

(* So no record is ever made of the halves of two.                          *)
LEMMA WholeStep == IInv /\ RecordsWhole /\ [Next]_vars => RecordsWhole'
  <1> SUFFICES ASSUME IInv, RecordsWhole, [Next]_vars PROVE RecordsWhole'
    OBVIOUS
  <1>1. CASE Take
    <2>1. got' = Append(got, [lo |-> pop.lo, hi |-> pop.hi]) /\ pop.lo = pop.hi
      BY <1>1 DEF Take, IInv, Reading
    <2>2. got \in Seq([lo : Nat, hi : Nat]) /\ [lo |-> pop.lo, hi |-> pop.hi] \in [lo : Nat, hi : Nat]
      BY Numbers DEF IInv, TypeOK
    <2>3. /\ Len(got') = Len(got) + 1 /\ Len(got) \in Nat
          /\ \A i \in 1 .. Len(got) : got'[i] = got[i]
          /\ got'[Len(got) + 1] = [lo |-> pop.lo, hi |-> pop.hi]
      BY <2>1, <2>2, AppendProperties
    <2> QED BY <2>1, <2>3 DEF RecordsWhole
  <1>2. CASE ~Take
    <2>1. got' = got
      BY <1>2 DEF Next, Push, TryPush, Issue, Visibility, Appear, Consumer, LoadHead, CopyWord, Recheck, vars
    <2> QED BY <2>1 DEF RecordsWhole
  <1> QED BY <1>1, <1>2

THEOREM WholeRecords == ASSUME OrderEnough PROVE Spec => []RecordsWhole
  <1>1. Init => RecordsWhole
    BY DEF Init, RecordsWhole
  <1> QED BY <1>1, WholeStep, Always, PTL DEF Spec
=============================================================================
