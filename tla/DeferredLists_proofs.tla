------------------------ MODULE DeferredLists_proofs ------------------------
(***************************************************************************)
(* The lists of callbacks, of any functions and flags.  remove(), add()    *)
(* and empty() move the indexes of a firing while it stands at a function, *)
(* which may be inside other firings; what the indexes still lead to is    *)
(* always what the firing owes a call, and a list with the flag once       *)
(* passes one data only.                                                   *)
(*                                                                         *)
(* The invariant says of every list which functions have had their turn,   *)
(* and of the list of a page that has one list only which calls can be     *)
(* under way.                                                              *)
(***************************************************************************)
EXTENDS Deferred_proofs, FiniteSetTheorems, WellFoundedInduction

-----------------------------------------------------------------------------
(* The indexes of the lists.                                                 *)

(* Numbers are well ordered: this stands for induction where a property is  *)
(* a set of numbers.                                                        *)
LEMMA LeastElement ==
  ASSUME NEW T \in SUBSET Nat, T # {}
  PROVE  \E x \in T : \A y \in T : x <= y
<1> DEFINE Up == {0 .. n : n \in T}
<1>1. Up \subseteq FiniteSubsetsOf(Nat)
  <2> SUFFICES ASSUME NEW n \in T
               PROVE  0 .. n \in FiniteSubsetsOf(Nat)
    OBVIOUS
  <2>1. IsFiniteSet(0 .. n)
    BY FS_Interval
  <2>2. QED
    BY <2>1 DEF FiniteSubsetsOf
<1>2. Up # {}
  OBVIOUS
<1>3. PICK u \in Up : \A v \in Up : <<v, u>> \notin StrictSubsetOrdering(Nat)
  <2> HIDE DEF Up
  <2>1. IsWellFoundedOn(StrictSubsetOrdering(Nat), FiniteSubsetsOf(Nat))
    BY FS_StrictSubsetOrderingWellFounded, Zenon
  <2>2. QED
    BY <1>1, <1>2, <2>1, WFMin, Zenon
<1>4. PICK n \in T : u = 0 .. n
  OBVIOUS
<1>5. ASSUME NEW m \in T, m < n
      PROVE  FALSE
  <2>1. 0 .. m \in Up /\ <<0 .. m, 0 .. n>> \notin StrictSubsetOrdering(Nat)
    BY <1>3, <1>4, Zenon
  <2>2. /\ 0 .. m \in SUBSET Nat /\ 0 .. n \in SUBSET Nat
        /\ 0 .. m \subseteq 0 .. n /\ n \in 0 .. n /\ n \notin 0 .. m
    BY <1>5, SMT
  <2>3. QED
    BY <2>1, <2>2, Zenon DEF StrictSubsetOrdering
<1>6. QED
  BY <1>5

(* What holds of 0 and of the next number with every number below n holds   *)
(* up to n.                                                                 *)
LEMMA UpTo ==
  ASSUME NEW n \in Nat, NEW P, 0 \in P, \A i \in 0 .. (n - 1) : i \in P => i + 1 \in P
  PROVE  0 .. n \subseteq P
<1> SUFFICES ASSUME (0 .. n) \ P # {}
             PROVE  FALSE
  OBVIOUS
<1>1. PICK x \in (0 .. n) \ P : \A y \in (0 .. n) \ P : x <= y
  <2>1. (0 .. n) \ P \in SUBSET Nat
    BY SMT
  <2>2. QED
    BY <2>1, LeastElement
<1>2. x - 1 \in 0 .. (n - 1) /\ x - 1 \in P /\ x - 1 + 1 = x
  BY <1>1, SMT
<1>3. QED
  BY <1>1, <1>2

(* A loop over 1 .. n, a turn of which takes one state of the loop to the   *)
(* next, has a state after every turn.                                      *)
Loops(at, n, base, turn) == at[0] = base /\ \A i \in 1 .. n : at[i] = turn[<<i, at[i - 1]>>]

(* A recursive function on 0 .. n exists.                                    *)
LEMMA LoopExists ==
  ASSUME NEW n \in Nat, NEW S, NEW base \in S, NEW turn \in [(1 .. n) \X S -> S]
  PROVE  \E at \in [0 .. n -> S] : Loops(at, n, base, turn)
<1> DEFINE Fits(k, at) == \A i \in 0 .. k : at[i] = IF i = 0 THEN base ELSE turn[<<i, at[i - 1]>>]
           P == {k \in 0 .. n : \E at \in [0 .. k -> S] : Fits(k, at)}
<1>1. 0 \in P
  <2>1. [i \in 0 .. 0 |-> base] \in [0 .. 0 -> S]
    OBVIOUS
  <2>2. Fits(0, [i \in 0 .. 0 |-> base]) /\ 0 \in 0 .. n
    BY SMT
  <2>3. QED
    BY <2>1, <2>2
<1>2. ASSUME NEW k \in 0 .. (n - 1), k \in P
      PROVE  k + 1 \in P
  <2>1. PICK at \in [0 .. k -> S] : Fits(k, at)
    BY <1>2
  <2> DEFINE next == turn[<<k + 1, at[k]>>]
             more == [i \in 0 .. (k + 1) |-> IF i = k + 1 THEN next ELSE at[i]]
  <2>2. next \in S
    <3>1. k + 1 \in 1 .. n /\ at[k] \in S
      BY <1>2, SMT
    <3>2. QED
      BY <3>1
  <2>3. more \in [0 .. (k + 1) -> S]
    BY <2>2, SMT
  <2>4. ASSUME NEW i \in 0 .. (k + 1)
        PROVE  more[i] = IF i = 0 THEN base ELSE turn[<<i, more[i - 1]>>]
    <3>1. CASE i = k + 1
      <4>1. more[i] = next /\ more[i - 1] = at[k] /\ i # 0
        BY <3>1, <1>2, SMT
      <4>2. QED
        BY <4>1, <3>1
    <3>2. CASE i # k + 1
      <4>1. i \in 0 .. k /\ more[i] = at[i] /\ (i # 0 => more[i - 1] = at[i - 1])
        BY <3>2, <1>2, SMT
      <4>2. at[i] = IF i = 0 THEN base ELSE turn[<<i, at[i - 1]>>]
        BY <4>1, <2>1
      <4>3. QED
        BY <4>1, <4>2
    <3>3. QED
      BY <3>1, <3>2
  <2>5. k + 1 \in 0 .. n
    BY <1>2, SMT
  <2> HIDE DEF more
  <2>6. QED
    BY <2>3, <2>4, <2>5
<1>3. 0 .. n \subseteq P
  <2> HIDE DEF P
  <2>1. QED
    BY <1>1, <1>2, UpTo, Zenon
<1>4. PICK at \in [0 .. n -> S] : Fits(n, at)
  BY <1>3
<1>5. at[0] = base
  <2>1. 0 \in 0 .. n
    BY SMT
  <2>2. QED
    BY <1>4, <2>1, Zenon
<1>6. ASSUME NEW i \in 1 .. n
      PROVE  at[i] = turn[<<i, at[i - 1]>>]
  <2>1. i \in 0 .. n /\ i # 0
    BY SMT
  <2>2. QED
    BY <1>4, <2>1
<1>7. QED
  BY <1>5, <1>6 DEF Loops

(* What is left of a sequence without f, place by place.                     *)
Leaves(up, s, f) ==
  /\ up[0] = <<>>
  /\ \A i \in 1..Len(s) : up[i] = IF s[i] = f THEN up[i - 1] ELSE Append(up[i - 1], s[i])

(* Without, from one function to the next.                                   *)
LEMMA WithoutLoop ==
  ASSUME NEW F, NEW s \in Seq(F), NEW f
  PROVE  \E up \in [0..Len(s) -> Seq(F)] : Leaves(up, s, f) /\ Without(s, f) = up[Len(s)]
<1>1. PICK n \in Nat : n = Len(s)
  OBVIOUS
<1> DEFINE turn == [p \in (1..n) \X Seq(F) |-> IF s[p[1]] = f THEN p[2] ELSE Append(p[2], s[p[1]])]
           Rec(g) == [i \in 0..n |-> IF i = 0 THEN <<>>
                                     ELSE IF s[i] = f THEN g[i - 1] ELSE Append(g[i - 1], s[i])]
           chosen == CHOOSE g : g = Rec(g)
<1>2. turn \in [(1..n) \X Seq(F) -> Seq(F)]
  <2>1. \A i \in 1..n, q \in Seq(F) : s[i] \in F /\ Append(q, s[i]) \in Seq(F)
    BY <1>1
  <2> QED  BY <2>1
<1>3. PICK up \in [0..n -> Seq(F)] : Loops(up, n, <<>>, turn)
  <2>1. <<>> \in Seq(F)
    OBVIOUS
  <2> HIDE DEF turn
  <2> QED  BY <1>2, <2>1, LoopExists
<1>4. up[0] = <<>> /\ \A i \in 1..n : up[i] = IF s[i] = f THEN up[i - 1] ELSE Append(up[i - 1], s[i])
  <2>1. \A i \in 1..n : i - 1 \in 0..n
    BY <1>1
  <2>2. \A i \in 1..n : <<i, up[i - 1]>> \in (1..n) \X Seq(F)
    BY <1>3, <2>1
  <2> QED  BY <1>3, <2>2 DEF Loops
<1>5. up = Rec(up)
  <2>1. \A i \in 0..n : i = 0 \/ i \in 1..n
    BY <1>1
  <2> QED  BY <1>3, <1>4, <2>1
<1>6. Without(s, f) = chosen[n]
  BY <1>1, Zenon DEF Without
<1>7. chosen = Rec(chosen)
  <2> HIDE DEF Rec
  <2> QED  BY <1>5
<1> HIDE DEF chosen
<1>8. \A i \in 1..n : i - 1 \in 0..n /\ i \in 0..n /\ i # 0
  BY <1>1
<1>9. chosen[0] = <<>> /\ \A i \in 1..n : chosen[i] = IF s[i] = f THEN chosen[i - 1] ELSE Append(chosen[i - 1], s[i])
  <2>1. \A i \in 0..n : chosen[i] = IF i = 0 THEN <<>>
                                   ELSE IF s[i] = f THEN chosen[i - 1] ELSE Append(chosen[i - 1], s[i])
    BY <1>7, Zenon
  <2>2. 0 \in 0..n
    BY <1>1
  <2> QED  BY <1>8, <2>1, <2>2
<1> DEFINE P == {k \in 0..n : chosen[k] = up[k]}
<1>10. 0 \in P
  BY <1>1, <1>4, <1>9
<1>11. ASSUME NEW k \in 0..(n - 1), k \in P
       PROVE  k + 1 \in P
  <2>1. PICK j \in 1..n : j = k + 1 /\ j - 1 = k
    BY <1>1, <1>11
  <2>2. j \in 0..n
    BY <2>1
  <2> QED  BY <1>4, <1>9, <1>11, <2>1, <2>2
<1>12. 0..n \subseteq P
  <2> HIDE DEF P
  <2> QED  BY <1>1, <1>10, <1>11, UpTo, Zenon
<1>13. chosen[n] = up[n]
  BY <1>1, <1>12
<1> QED  BY <1>1, <1>3, <1>4, <1>6, <1>13 DEF Leaves

(* A list with other functions and indexes.                                  *)
Cut(c, q, l, i) == [[[c EXCEPT !.items = q] EXCEPT !.length = l] EXCEPT !.index = i]

LEMMA CutFields ==
  ASSUME NEW c, DOMAIN c = Fields, NEW q, NEW l, NEW i, NEW r, r = Cut(c, q, l, i)
  PROVE  /\ DOMAIN r = Fields /\ r.items = q /\ r.length = l /\ r.index = i
         /\ \A x \in Fields \ {"items", "length", "index"} : r[x] = c[x]
BY DEF Cut, Fields

(* One turn of remove().                                                     *)
LEMMA StepIs ==
  ASSUME NEW c, DOMAIN c = Fields, NEW q, NEW l, NEW i, NEW r, r = Cut(c, q, l, i), NEW f, NEW x
  PROVE  RemoveStep(f, r, x) =
           IF x # f THEN Cut(c, Append(q, x), l, i)
           ELSE IF ~c.firing THEN r
           ELSE Cut(c, q, IF Len(q) <= l THEN l - 1 ELSE l, IF Len(q) <= i THEN i - 1 ELSE i)
<1>1. /\ DOMAIN r = Fields /\ r.items = q /\ r.length = l /\ r.index = i /\ r.firing = c.firing
  BY CutFields DEF Fields
<1>2. CASE x # f
  <2>1. PICK z : z = Append(q, x)
    OBVIOUS
  <2>2. RemoveStep(f, r, x) = [r EXCEPT !.items = z]
    BY <1>1, <1>2, <2>1 DEF RemoveStep
  <2>3. [r EXCEPT !.items = z] = Cut(c, z, l, i)
    BY DEF Cut, Fields
  <2> QED  BY <1>2, <2>1, <2>2, <2>3
<1>3. CASE x = f /\ ~c.firing
  BY <1>1, <1>3 DEF RemoveStep
<1>4. CASE x = f /\ c.firing
  <2>1. PICK y, z : y = (IF Len(q) <= l THEN l - 1 ELSE l) /\ z = (IF Len(q) <= i THEN i - 1 ELSE i)
    OBVIOUS
  <2>2. RemoveStep(f, r, x) = [r EXCEPT !.length = y, !.index = z]
    BY <1>1, <1>4, <2>1 DEF RemoveStep
  <2>3. [r EXCEPT !.length = y, !.index = z] = Cut(c, q, y, z)
    BY DEF Cut, Fields
  <2> QED  BY <1>4, <2>1, <2>2, <2>3
<1> QED  BY <1>2, <1>3, <1>4

(* The turns of remove().                                                    *)
Turns(at, c, f) ==
  /\ at[0] = [c EXCEPT !.items = <<>>]
  /\ \A i \in 1..Len(c.items) : at[i] = RemoveStep(f, at[i - 1], c.items[i])

(* Every list that c can be cut to.                                          *)
Cuts(F, c) == {Cut(c, q, l, i) : q \in Seq(F), l \in Int, i \in Int}

LEMMA CutIn ==
  ASSUME NEW F, NEW c, NEW q \in Seq(F), NEW l \in Int, NEW i \in Int
  PROVE  Cut(c, q, l, i) \in Cuts(F, c)
BY DEF Cuts

(* remove() goes through the list from one function to the next.             *)
LEMMA RemovedLoop ==
  ASSUME NEW F, NEW c, DOMAIN c = Fields, c.items \in Seq(F), c.length \in Int, c.index \in Int,
         ~c.gone, NEW f
  PROVE  \E at \in [0..Len(c.items) -> Cuts(F, c)] :
           Turns(at, c, f) /\ Removed(c, f) = [at[Len(c.items)] EXCEPT !.due = Without(c.due, f)]
<1>1. PICK n \in Nat : n = Len(c.items)
  OBVIOUS
<1>2. PICK s \in Seq(F) : s = c.items
  OBVIOUS
<1>3. PICK S : S = Cuts(F, c)
  OBVIOUS
<1>4. PICK base \in S : base = [c EXCEPT !.items = <<>>]
  <2>1. [c EXCEPT !.items = <<>>] = Cut(c, <<>>, c.length, c.index)
    BY DEF Cut, Fields
  <2>2. <<>> \in Seq(F)
    OBVIOUS
  <2>3. Cut(c, <<>>, c.length, c.index) \in Cuts(F, c)
    BY <2>2, CutIn
  <2> QED  BY <1>3, <2>1, <2>3, Zenon
<1> DEFINE turn == [p \in (1..n) \X S |-> RemoveStep(f, p[2], s[p[1]])]
           Rec(g) == [i \in 0..n |-> IF i = 0 THEN base ELSE RemoveStep(f, g[i - 1], s[i])]
           chosen == CHOOSE g : g = Rec(g)
<1>5. turn \in [(1..n) \X S -> S]
  <2>1. ASSUME NEW k \in 1..n, NEW r \in S
        PROVE  RemoveStep(f, r, s[k]) \in S
    <3>1. PICK q \in Seq(F), l \in Int, i \in Int : r = Cut(c, q, l, i)
      BY <1>3 DEF Cuts
    <3>2. PICK x \in F : x = s[k]
      BY <1>1, <1>2
    <3>3. PICK l2 \in Int, i2 \in Int : /\ l2 = IF Len(q) <= l THEN l - 1 ELSE l
                                        /\ i2 = IF Len(q) <= i THEN i - 1 ELSE i
      OBVIOUS
    <3>4. Append(q, x) \in Seq(F)
      OBVIOUS
    <3>5. RemoveStep(f, r, x) = IF x # f THEN Cut(c, Append(q, x), l, i)
                                ELSE IF ~c.firing THEN r ELSE Cut(c, q, l2, i2)
      BY <3>1, <3>3, StepIs
    <3>6. Cut(c, Append(q, x), l, i) \in Cuts(F, c) /\ Cut(c, q, l2, i2) \in Cuts(F, c)
      BY <3>4, CutIn
    <3> QED  BY <1>3, <3>2, <3>5, <3>6, Zenon
  <2> QED  BY <2>1
<1>6. PICK at \in [0..n -> S] : Loops(at, n, base, turn)
  <2> HIDE DEF turn
  <2> QED  BY <1>5, LoopExists
<1>7. at[0] = base /\ \A i \in 1..n : at[i] = RemoveStep(f, at[i - 1], s[i])
  <2>1. \A i \in 1..n : i - 1 \in 0..n
    BY <1>1
  <2>2. \A i \in 1..n : <<i, at[i - 1]>> \in (1..n) \X S
    BY <1>6, <2>1
  <2> QED  BY <1>6, <2>2 DEF Loops
<1>8. at = Rec(at)
  <2>1. \A i \in 0..n : i = 0 \/ i \in 1..n
    BY <1>1
  <2> QED  BY <1>6, <1>7, <2>1
<1>9. Removed(c, f) = [chosen[n] EXCEPT !.due = Without(c.due, f)]
  BY <1>1, <1>2, <1>4, Zenon DEF Removed
<1>10. chosen = Rec(chosen)
  <2> HIDE DEF Rec
  <2> QED  BY <1>8
<1> HIDE DEF chosen
<1>11. \A i \in 1..n : i - 1 \in 0..n /\ i \in 0..n /\ i # 0
  BY <1>1
<1>12. chosen[0] = base /\ \A i \in 1..n : chosen[i] = RemoveStep(f, chosen[i - 1], s[i])
  <2>1. \A i \in 0..n : chosen[i] = IF i = 0 THEN base ELSE RemoveStep(f, chosen[i - 1], s[i])
    BY <1>10, Zenon
  <2>2. 0 \in 0..n
    BY <1>1
  <2> QED  BY <1>11, <2>1, <2>2
<1> DEFINE P == {k \in 0..n : chosen[k] = at[k]}
<1>13. 0 \in P
  BY <1>1, <1>7, <1>12
<1>14. ASSUME NEW k \in 0..(n - 1), k \in P
       PROVE  k + 1 \in P
  <2>1. PICK j \in 1..n : j = k + 1 /\ j - 1 = k
    BY <1>1, <1>14
  <2>2. j \in 0..n
    BY <2>1
  <2> QED  BY <1>7, <1>12, <1>14, <2>1, <2>2
<1>15. 0..n \subseteq P
  <2> HIDE DEF P
  <2> QED  BY <1>1, <1>13, <1>14, UpTo, Zenon
<1>16. chosen[n] = at[n]
  BY <1>1, <1>15
<1> QED  BY <1>1, <1>2, <1>3, <1>4, <1>6, <1>7, <1>9, <1>16 DEF Turns

(* The end of a sequence that gets another element or loses its first.       *)
LEMMA EndGrows ==
  ASSUME NEW F, NEW q \in Seq(F), NEW x \in F, NEW a \in 1..(Len(q) + 1), NEW z, z = Append(q, x)
  PROVE  /\ z \in Seq(F) /\ Len(z) = Len(q) + 1
         /\ SubSeq(z, a, Len(z)) = Append(SubSeq(q, a, Len(q)), x)
<1>1. z \in Seq(F) /\ Len(z) = Len(q) + 1 /\ Len(q) \in Nat
  OBVIOUS
<1>2. \A j \in 1..Len(z) : z[j] = IF j <= Len(q) THEN q[j] ELSE x
  OBVIOUS
<1>3. PICK u : u = SubSeq(z, a, Len(z))
  OBVIOUS
<1>4. PICK v : v = SubSeq(q, a, Len(q))
  OBVIOUS
<1>5. u \in Seq(F) /\ Len(u) = Len(z) - a + 1 /\ \A j \in 1..(Len(z) - a + 1) : u[j] = z[a + j - 1]
  <2>1. PICK n \in Nat : n = Len(z)
    BY <1>1
  <2>2. a \in Nat /\ a >= 1 /\ a <= n
    BY <1>1, <2>1
  <2>3. Len(u) = n - a + 1
    BY <1>1, <1>3, <2>1, <2>2
  <2>4. \A j \in 1..(n - a + 1) : u[j] = z[a + j - 1]
    <3> SUFFICES ASSUME NEW j \in 1..(n - a + 1)
                 PROVE  u[j] = z[a + j - 1]
      OBVIOUS
    <3>1. u = [i \in 1..(n - a + 1) |-> z[a + i - 1]]
      BY <1>3, <2>1, <2>2
    <3> QED  BY <3>1
  <2>5. u \in Seq(F)
    <3>1. \A j \in a..n : j \in 1..Len(z)
      BY <2>1, <2>2
    <3> QED  BY <1>1, <1>3, <2>1, <2>2, <3>1
  <2> QED  BY <2>1, <2>3, <2>4, <2>5
<1>6. v \in Seq(F) /\ Len(v) = Len(q) - a + 1 /\ \A j \in 1..(Len(q) - a + 1) : v[j] = q[a + j - 1]
  BY <1>1, <1>4
<1>7. PICK w : w = Append(v, x)
  OBVIOUS
<1>8. w \in Seq(F) /\ Len(w) = Len(u) /\ \A j \in 1..Len(w) : w[j] = IF j <= Len(v) THEN v[j] ELSE x
  <2>1. w \in Seq(F)
    BY <1>6, <1>7
  <2>2. Len(w) = Len(v) + 1
    BY <1>6, <1>7
  <2>3. \A j \in 1..(Len(v) + 1) : w[j] = IF j <= Len(v) THEN v[j] ELSE x
    BY <1>6, <1>7
  <2>4. Len(w) = Len(u)
    BY <1>1, <1>5, <1>6, <2>2
  <2> QED  BY <2>1, <2>2, <2>3, <2>4
<1>9. ASSUME NEW j \in 1..Len(w)
      PROVE  w[j] = u[j]
  <2>1. a + j - 1 \in 1..Len(z) /\ j \in 1..(Len(z) - a + 1)
    BY <1>1, <1>5, <1>8
  <2>2. u[j] = IF a + j - 1 <= Len(q) THEN q[a + j - 1] ELSE x
    BY <1>2, <1>5, <2>1
  <2>3. a + j - 1 <= Len(q) <=> j <= Len(v)
    BY <1>1, <1>6
  <2>4. j <= Len(v) => v[j] = q[a + j - 1]
    BY <1>1, <1>6
  <2> QED  BY <1>8, <2>2, <2>3, <2>4
<1>10. u = w
  BY <1>5, <1>8, <1>9, SeqEqual
<1> QED  BY <1>1, <1>3, <1>4, <1>7, <1>10

(* The end of a sequence from a on grows with the sequence.                  *)
Grown(q, x, a) == SubSeq(Append(q, x), a, Len(Append(q, x))) = Append(SubSeq(q, a, Len(q)), x)

LEMMA EndGrown ==
  ASSUME NEW F, NEW q \in Seq(F), NEW x \in F, NEW a \in 1..(Len(q) + 1)
  PROVE  Grown(q, x, a)
<1>1. PICK z : z = Append(q, x)
  OBVIOUS
<1>2. SubSeq(z, a, Len(z)) = Append(SubSeq(q, a, Len(q)), x)
  BY <1>1, EndGrows
<1> QED  BY <1>1, <1>2, Zenon DEF Grown

LEMMA EndNone == ASSUME NEW F, NEW q \in Seq(F) PROVE SubSeq(q, Len(q) + 1, Len(q)) = <<>>
OBVIOUS

(* The end of a sequence loses its first element.                            *)
LEMMA EndShrinks ==
  ASSUME NEW F, NEW q \in Seq(F), NEW a \in 1..Len(q), NEW z, z = SubSeq(q, a, Len(q))
  PROVE  z # <<>> /\ Tail(z) = SubSeq(q, a + 1, Len(q))
<1>1. Len(q) \in Nat
  OBVIOUS
<1>2. z \in Seq(F) /\ Len(z) = Len(q) - a + 1 /\ \A j \in 1..(Len(q) - a + 1) : z[j] = q[a + j - 1]
  BY <1>1
<1>3. PICK y : y = SubSeq(q, a + 1, Len(q))
  OBVIOUS
<1>4. y \in Seq(F) /\ Len(y) = Len(q) - a /\ \A j \in 1..(Len(q) - a) : y[j] = q[a + j]
  BY <1>1, <1>3
<1>5. z # <<>>
  <2>1. Len(z) # 0
    BY <1>1, <1>2
  <2>2. Len(<<>>) = 0
    OBVIOUS
  <2> QED  BY <2>1, <2>2, Zenon
<1>6. Tail(z) \in Seq(F) /\ Len(Tail(z)) = Len(z) - 1 /\ \A j \in 1..(Len(z) - 1) : Tail(z)[j] = z[j + 1]
  BY <1>2, <1>5, Popped
<1>7. \A j \in 1..Len(y) : Tail(z)[j] = y[j]
  <2> SUFFICES ASSUME NEW j \in 1..Len(y)
               PROVE  Tail(z)[j] = y[j]
    OBVIOUS
  <2>1. j \in 1..(Len(z) - 1) /\ j + 1 \in 1..(Len(q) - a + 1) /\ a + (j + 1) - 1 = a + j
    BY <1>1, <1>2, <1>4
  <2> QED  BY <1>1, <1>2, <1>4, <1>6, <2>1
<1>8. Tail(z) = y
  BY <1>1, <1>2, <1>4, <1>6, <1>7, SeqEqual
<1> QED  BY <1>3, <1>5, <1>8

(* A difference stays when both its terms grow by one.                       *)
LEMMA OneMore ==
  ASSUME NEW l \in Int, NEW p \in Int, NEW w \in Int, NEW k \in Int, l - p = w - k
  PROVE  l - (p + 1) = w - (k + 1)
OBVIOUS

(* The place an index leads to when the loop has come to it.                 *)
LEMMA AtIndex ==
  ASSUME NEW i \in Int, NEW e \in Int, NEW p \in Int, i = e - ((e + 1) - p)
  PROVE  i + 1 = p
OBVIOUS

(* As many functions are gone from the list as from the loop.                *)
Shrunk(c, r) == c.firing => r.length - Len(r.items) = c.length - Len(c.items)

(* The list remove() leaves, as far as its fields are numbers and functions. *)
LEMMA RemovedList ==
  ASSUME NEW F, NEW c, DOMAIN c = Fields, c.items \in Seq(F), c.length \in Nat,
         c.index \in Nat \cup {-1}, c.firing \in BOOLEAN, c.firing => Len(c.items) <= c.length,
         ~c.gone, NEW f, NEW r, r = Removed(c, f)
  PROVE  /\ DOMAIN r = Fields /\ r.items \in Seq(F) /\ r.length \in Nat /\ r.index \in Nat \cup {-1}
         /\ r.due = Without(c.due, f)
         /\ Shrunk(c, r)
         /\ ~c.firing => r.length = c.length /\ r.index = c.index
         /\ \A x \in Fields \ {"items", "length", "index", "due"} : r[x] = c[x]
<1>1. PICK n \in Nat : n = Len(c.items)
  OBVIOUS
<1>2. PICK s \in Seq(F) : s = c.items
  OBVIOUS
<1>3. c.length \in Int /\ c.index \in Int
  OBVIOUS
<1>4. PICK at \in [0..n -> Cuts(F, c)] :
        Turns(at, c, f) /\ Removed(c, f) = [at[n] EXCEPT !.due = Without(c.due, f)]
  <2>1. \E at \in [0..Len(c.items) -> Cuts(F, c)] :
           Turns(at, c, f) /\ Removed(c, f) = [at[Len(c.items)] EXCEPT !.due = Without(c.due, f)]
    BY <1>3, RemovedLoop
  <2> QED  BY <1>1, <2>1, Zenon
<1> DEFINE Fits(k, q, l, i) ==
             /\ at[k] = Cut(c, q, l, i)
             /\ IF c.firing THEN l - Len(q) = c.length - k ELSE l = c.length /\ i = c.index
           P == {k \in 0..n : \E q \in Seq(F), l \in Nat, i \in Nat \cup {-1} : Fits(k, q, l, i)}
<1>5. 0 \in P
  <2>1. at[0] = Cut(c, <<>>, c.length, c.index)
    BY <1>4 DEF Turns, Cut, Fields
  <2>2. <<>> \in Seq(F) /\ Len(<<>>) = 0 /\ 0 \in 0..n
    BY <1>1
  <2> QED  BY <2>1, <2>2
<1>6. ASSUME NEW k \in 0..(n - 1), k \in P
      PROVE  k + 1 \in P
  <2>1. PICK j \in 1..n : j = k + 1 /\ j - 1 = k
    BY <1>1, <1>6
  <2>2. PICK q \in Seq(F), l \in Nat, i \in Nat \cup {-1} : Fits(k, q, l, i)
    BY <1>6
  <2>3. PICK x \in F : x = s[j]
    BY <1>1, <1>2, <2>1
  <2>4. at[j] = RemoveStep(f, at[k], x)
    BY <1>1, <1>2, <1>4, <2>1, <2>3 DEF Turns
  <2>5. at[j] = IF x # f THEN Cut(c, Append(q, x), l, i)
                ELSE IF ~c.firing THEN at[k]
                ELSE Cut(c, q, IF Len(q) <= l THEN l - 1 ELSE l, IF Len(q) <= i THEN i - 1 ELSE i)
    BY <2>2, <2>4, StepIs
  <2>6. j \in 0..n
    BY <2>1
  <2>7. PICK y \in Seq(F) : y = Append(q, x)
    <3>1. Append(q, x) \in Seq(F)
      OBVIOUS
    <3> QED  BY <3>1, Zenon
  <2>8. CASE x # f
    <3>1. Len(y) = Len(q) + 1
      BY <2>7
    <3>2. at[j] = Cut(c, y, l, i)
      BY <2>5, <2>7, <2>8
    <3>3. PICK p \in Int : p = Len(q)
      <4>1. Len(q) \in Int
        OBVIOUS
      <4> QED  BY <4>1, Zenon
    <3>4. PICK w \in Int : w = c.length
      BY <1>3, Zenon
    <3>5. PICK v \in Int : v = l
      <4>1. l \in Int
        OBVIOUS
      <4> QED  BY <4>1, Zenon
    <3>6. PICK g \in Int : g = k
      <4>1. k \in Int
        OBVIOUS
      <4> QED  BY <4>1, Zenon
    <3>7. c.firing => l - Len(y) = c.length - j
      <4> SUFFICES ASSUME c.firing
                   PROVE  l - Len(y) = c.length - j
        OBVIOUS
      <4>1. l - Len(q) = c.length - k
        BY <2>2
      <4>2. v - p = w - g
        BY <3>3, <3>4, <3>5, <3>6, <4>1, Zenon
      <4>3. v - (p + 1) = w - (g + 1)
        BY <4>2, OneMore
      <4> QED  BY <2>1, <3>1, <3>3, <3>4, <3>5, <3>6, <4>3, Zenon
    <3>8. ~c.firing => l = c.length /\ i = c.index
      BY <2>2
    <3>9. Fits(j, y, l, i)
      BY <3>2, <3>7, <3>8
    <3> QED  BY <2>1, <2>6, <3>9
  <2>9. CASE x = f /\ ~c.firing
    <3>1. Fits(j, q, l, i)
      BY <2>2, <2>5, <2>9
    <3> QED  BY <2>1, <2>6, <3>1
  <2>10. CASE x = f /\ c.firing
    <3>1. PICK z : z = IF Len(q) <= i THEN i - 1 ELSE i
      OBVIOUS
    <3>2. z \in Nat \cup {-1}
      BY <3>1
    <3>3. Len(q) <= l /\ l - 1 \in Nat /\ (l - 1) - Len(q) = c.length - j
      <4>1. l - Len(q) = c.length - k /\ n <= c.length /\ Len(q) \in Nat
        BY <1>1, <2>2, <2>10
      <4>2. k + 1 <= n /\ k \in Nat
        BY <1>1, <2>1
      <4>3. PICK b \in Nat, e \in Nat : b = Len(q) /\ e = c.length
        BY <4>1
      <4>4. l - b = e - k /\ n <= e
        BY <4>1, <4>3
      <4>5. b <= l /\ l - 1 \in Nat /\ (l - 1) - b = e - j
        BY <2>1, <4>2, <4>4
      <4> QED  BY <4>3, <4>5
    <3>4. at[j] = Cut(c, q, l - 1, z)
      BY <2>5, <2>10, <3>1, <3>3
    <3>5. Fits(j, q, l - 1, z)
      BY <2>10, <3>3, <3>4
    <3> QED  BY <2>1, <2>6, <3>2, <3>3, <3>5
  <2> QED  BY <2>8, <2>9, <2>10
<1>7. 0..n \subseteq P
  <2> HIDE DEF P
  <2> QED  BY <1>1, <1>5, <1>6, UpTo, Zenon
<1>8. PICK q \in Seq(F), l \in Nat, i \in Nat \cup {-1} : Fits(n, q, l, i)
  BY <1>1, <1>7
<1>9. PICK t : t = Cut(c, q, l, i)
  OBVIOUS
<1>10. /\ DOMAIN t = Fields /\ t.items = q /\ t.length = l /\ t.index = i
       /\ \A x \in Fields \ {"items", "length", "index"} : t[x] = c[x]
  BY <1>9, CutFields
<1>11. r = [t EXCEPT !.due = Without(c.due, f)]
  BY <1>4, <1>8, <1>9
<1>12. /\ DOMAIN r = Fields /\ r.items = q /\ r.length = l /\ r.index = i /\ r.due = Without(c.due, f)
       /\ \A x \in Fields \ {"items", "length", "index", "due"} : r[x] = c[x]
  BY <1>10, <1>11 DEF Fields
<1> QED  BY <1>1, <1>8, <1>12 DEF Shrunk

(* The first b functions of a list that is firing have had their turn, and   *)
(* the others are due.                                                       *)
InTurn(c, b) ==
  c.length = Len(c.items) /\ b <= Len(c.items) /\ c.due = SubSeq(c.items, b + 1, Len(c.items))

(* So does a list one of whose functions is being called.                    *)
InCall(c) == InTurn(c, c.index + 1)

(* remove() during a firing: what is due is what stands behind the index,    *)
(* before and after.                                                         *)
LEMMA RemovedTurn ==
  ASSUME NEW F, NEW c, DOMAIN c = Fields, c.items \in Seq(F), c.length \in Nat,
         c.index \in Nat \cup {-1}, c.firing \in BOOLEAN, c.firing, ~c.gone, InCall(c), NEW f, NEW r, r = Removed(c, f)
  PROVE  InCall(r)
<1>1. PICK n \in Nat : n = Len(c.items)
  OBVIOUS
<1>2. PICK s \in Seq(F) : s = c.items
  OBVIOUS
<1>3. c.length \in Int /\ c.index \in Int /\ n = Len(s)
  BY <1>1, <1>2
<1>4. c.length = n /\ c.index + 1 <= n /\ c.due = SubSeq(s, c.index + 2, n)
  <2>1. c.index + 1 + 1 = c.index + 2
    BY <1>3
  <2> QED  BY <1>1, <1>2, <2>1 DEF InTurn, InCall
<1>5. PICK at \in [0..n -> Cuts(F, c)] :
        Turns(at, c, f) /\ Removed(c, f) = [at[n] EXCEPT !.due = Without(c.due, f)]
  <2>1. \E at \in [0..Len(c.items) -> Cuts(F, c)] :
           Turns(at, c, f) /\ Removed(c, f) = [at[Len(c.items)] EXCEPT !.due = Without(c.due, f)]
    BY <1>3, RemovedLoop
  <2> QED  BY <1>1, <2>1, Zenon
<1>6. PICK m \in 0..n : m = c.index + 1 /\ m + 1 = c.index + 2
  BY <1>1, <1>4
<1>7. PICK d : d = SubSeq(s, m + 1, n)
  OBVIOUS
<1>8. d = c.due
  BY <1>6, <1>7, <1>4
<1>9. d \in Seq(F) /\ Len(d) = n - m /\ \A j \in 1..(n - m) : d[j] = s[m + j]
  <2>1. d = [j \in 1..(n - m) |-> s[m + j]]
    <3>1. m \in Nat /\ m + 1 \in Nat /\ n - (m + 1) + 1 = n - m /\ \A j \in 1..(n - m) : (m + 1) + j - 1 = m + j
      <4>1. m \in Nat /\ m + 1 \in Nat
        OBVIOUS
      <4>2. n - (m + 1) + 1 = n - m
        BY <4>1
      <4>3. \A j \in 1..(n - m) : (m + 1) + j - 1 = m + j
        BY <4>1
      <4> QED  BY <4>1, <4>2, <4>3
    <3>2. d = [j \in 1..(n - (m + 1) + 1) |-> s[(m + 1) + j - 1]]
      BY <1>7, <3>1
    <3> QED  BY <3>1, <3>2
  <2>2. \A j \in 1..(n - m) : s[m + j] \in F /\ d[j] = s[m + j]
    <3> SUFFICES ASSUME NEW j \in 1..(n - m)
                 PROVE  s[m + j] \in F /\ d[j] = s[m + j]
      OBVIOUS
    <3>1. PICK x \in 1..n : x = m + j
      BY <1>6
    <3>2. s[x] \in F
      BY <1>3, <3>1
    <3> QED  BY <2>1, <3>1, <3>2
  <2>3. n - m \in Nat
    BY <1>6
  <2> QED  BY <2>1, <2>2, <2>3
<1>10. PICK up \in [0..(n - m) -> Seq(F)] : Leaves(up, d, f) /\ Without(d, f) = up[n - m]
  <2>1. \E up \in [0..Len(d) -> Seq(F)] : Leaves(up, d, f) /\ Without(d, f) = up[Len(d)]
    BY <1>9, WithoutLoop
  <2> QED  BY <1>9, <2>1, Zenon
<1> DEFINE Fits(k, q, l, i) ==
             /\ at[k] = Cut(c, q, l, i) /\ Len(q) <= k
             /\ k <= m => i = c.index - (k - Len(q))
             /\ k >= m => i + 1 \in 0..Len(q) /\ SubSeq(q, i + 2, Len(q)) = up[k - m]
           P == {k \in 0..n : \E q \in Seq(F), l \in Int, i \in Int : Fits(k, q, l, i)}
<1>11. ASSUME NEW q \in Seq(F), NEW i \in Int, i + 1 = Len(q)
       PROVE  i + 1 \in 0..Len(q) /\ SubSeq(q, i + 2, Len(q)) = up[0]
  <2>1. SubSeq(q, Len(q) + 1, Len(q)) = <<>> /\ i + 2 = Len(q) + 1
    BY <1>11, EndNone
  <2> QED  BY <1>10, <1>11, <2>1 DEF Leaves
<1>12. 0 \in P
  <2>1. at[0] = Cut(c, <<>>, c.length, c.index)
    BY <1>5 DEF Turns, Cut, Fields
  <2>2. PICK q \in Seq(F) : q = <<>>
    <3>1. <<>> \in Seq(F)
      OBVIOUS
    <3> QED  BY <3>1, Zenon
  <2>3. Len(q) = 0 /\ 0 \in 0..n
    BY <1>1, <2>2
  <2>4. 0 >= m => c.index + 1 = Len(q) /\ 0 - m = 0
    BY <1>6, <2>3
  <2>5. 0 >= m => c.index + 1 \in 0..Len(q) /\ SubSeq(q, c.index + 2, Len(q)) = up[0 - m]
    BY <1>3, <1>11, <2>4
  <2>6. at[0] = Cut(c, q, c.length, c.index) /\ Len(q) <= 0 /\ c.index = c.index - (0 - Len(q))
    BY <1>3, <2>1, <2>2, <2>3
  <2>7. Fits(0, q, c.length, c.index)
    BY <2>5, <2>6
  <2> QED  BY <1>3, <2>3, <2>7
<1>13. ASSUME NEW k \in 0..(n - 1), k \in P
       PROVE  k + 1 \in P
  <2>1. PICK j \in 1..n : j = k + 1 /\ j - 1 = k
    BY <1>1, <1>13
  <2>2. PICK q \in Seq(F), l \in Int, i \in Int : Fits(k, q, l, i)
    BY <1>13
  <2>3. PICK x \in F : x = s[j]
    BY <1>3, <2>1
  <2>4. at[j] = RemoveStep(f, at[k], x)
    BY <1>1, <1>2, <1>5, <2>1, <2>3 DEF Turns
  <2>5. at[j] = IF x # f THEN Cut(c, Append(q, x), l, i)
                ELSE IF ~c.firing THEN at[k]
                ELSE Cut(c, q, IF Len(q) <= l THEN l - 1 ELSE l, IF Len(q) <= i THEN i - 1 ELSE i)
    BY <2>2, <2>4, StepIs
  <2>6. j \in 0..n
    BY <2>1
  <2>7. PICK y \in Seq(F) : y = Append(q, x)
    <3>1. Append(q, x) \in Seq(F)
      OBVIOUS
    <3> QED  BY <3>1, Zenon
  <2>8. Len(y) = Len(q) + 1
    BY <2>7
  <2>9. k >= m => /\ k - m \in 0..(n - m) /\ j - m \in 1..(n - m) /\ (j - m) - 1 = k - m
                  /\ x = d[j - m]
    <3> SUFFICES ASSUME k >= m
                 PROVE  k - m \in 0..(n - m) /\ j - m \in 1..(n - m) /\ (j - m) - 1 = k - m /\ x = d[j - m]
      OBVIOUS
    <3>1. m \in Nat /\ k \in Nat /\ j \in Nat /\ k <= n /\ j <= n
      BY <1>6, <2>1
    <3>2. k - m \in 0..(n - m) /\ j - m \in 1..(n - m) /\ (j - m) - 1 = k - m
      <4>1. k - m \in Nat /\ k - m <= n - m
        BY <3>1
      <4>2. j - m \in Nat /\ j - m >= 1 /\ j - m <= n - m /\ (j - m) - 1 = k - m
        BY <2>1, <3>1
      <4>3. n - m \in Nat
        BY <1>6
      <4> QED  BY <4>1, <4>2, <4>3
    <3>3. m + (j - m) = j
      BY <3>1
    <3> QED  BY <1>9, <2>3, <3>2, <3>3
  <2>10. k >= m => up[j - m] = IF x = f THEN up[k - m] ELSE Append(up[k - m], x)
    <3>1. \A a \in 1..(n - m) : up[a] = IF d[a] = f THEN up[a - 1] ELSE Append(up[a - 1], d[a])
      BY <1>9, <1>10 DEF Leaves
    <3> QED  BY <2>9, <3>1
  <2>11. CASE x # f
    <3>1. at[j] = Cut(c, y, l, i) /\ Len(y) <= j
      BY <2>1, <2>2, <2>5, <2>7, <2>8, <2>11
    <3>2. j <= m => i = c.index - (j - Len(y))
      BY <1>3, <1>6, <2>1, <2>2, <2>8
    <3>3. ASSUME j >= m
          PROVE  i + 1 \in 0..Len(y) /\ SubSeq(y, i + 2, Len(y)) = up[j - m]
      <4>1. CASE j = m
        <5>1. i + 1 = Len(y) /\ j - m = 0
          <6>1. m = c.index + 1 /\ c.index \in Int
            BY <1>3, <1>6
          <6>2. j <= m /\ j - m = 0
            BY <4>1
          <6>3. i = c.index - ((c.index + 1) - Len(y))
            BY <3>2, <4>1, <6>1, <6>2, Zenon
          <6>4. Len(y) \in Int
            OBVIOUS
          <6>5. i + 1 = Len(y)
            BY <6>1, <6>3, <6>4, AtIndex
          <6> QED  BY <6>2, <6>5
        <5> QED  BY <1>11, <5>1
      <4>2. CASE j # m
        <5>1. k >= m
          BY <1>6, <2>1, <3>3, <4>2
        <5>2. i + 1 \in 0..Len(q) /\ SubSeq(q, i + 2, Len(q)) = up[k - m]
          BY <2>2, <5>1
        <5>3. PICK a \in 1..(Len(q) + 1) : a = i + 2
          BY <5>2
        <5>4. SubSeq(y, a, Len(y)) = Append(SubSeq(q, a, Len(q)), x)
          <6>1. Grown(q, x, a)
            BY EndGrown
          <6> QED  BY <2>7, <6>1, Zenon DEF Grown
        <5>5. SubSeq(y, i + 2, Len(y)) = up[j - m]
          BY <2>10, <2>11, <5>1, <5>2, <5>3, <5>4, Zenon
        <5>6. i + 1 \in 0..Len(y)
          BY <2>8, <5>2
        <5> QED  BY <5>5, <5>6
      <4> QED  BY <4>1, <4>2
    <3>4. Fits(j, y, l, i)
      BY <3>1, <3>2, <3>3
    <3> QED  BY <2>1, <2>6, <3>4
  <2>12. CASE x = f
    <3>1. PICK z \in Int : z = IF Len(q) <= i THEN i - 1 ELSE i
      OBVIOUS
    <3>2. PICK b \in Int : b = IF Len(q) <= l THEN l - 1 ELSE l
      OBVIOUS
    <3>3. at[j] = Cut(c, q, b, z) /\ Len(q) <= j
      BY <2>1, <2>2, <2>5, <2>12, <3>1, <3>2
    <3>4. j <= m => z = c.index - (j - Len(q))
      <4> SUFFICES ASSUME j <= m
                   PROVE  z = c.index - (j - Len(q))
        OBVIOUS
      <4>1. PICK b1 \in Nat, e \in Int : b1 = Len(q) /\ e = c.index
        BY <1>3
      <4>2. k <= m /\ k \in Nat /\ k <= e /\ j = k + 1
        <5>1. m = e + 1 /\ m \in Nat
          BY <1>6, <4>1
        <5>2. k \in Nat /\ j = k + 1
          BY <2>1
        <5>3. k <= m /\ k <= e
          BY <5>1, <5>2
        <5> QED  BY <5>2, <5>3
      <4>3. i = e - (k - b1)
        BY <2>2, <4>1, <4>2
      <4>4. z = i - 1
        BY <3>1, <4>1, <4>2, <4>3
      <4>5. z = e - (j - b1)
        BY <4>2, <4>3, <4>4
      <4> QED  BY <4>1, <4>5
    <3>5. ASSUME j >= m
          PROVE  z + 1 \in 0..Len(q) /\ SubSeq(q, z + 2, Len(q)) = up[j - m]
      <4>1. CASE j = m
        <5>1. z + 1 = Len(q) /\ j - m = 0
          <6>1. m = c.index + 1 /\ c.index \in Int
            BY <1>3, <1>6
          <6>2. j <= m /\ j - m = 0
            BY <4>1
          <6>3. z = c.index - ((c.index + 1) - Len(q))
            BY <3>4, <4>1, <6>1, <6>2, Zenon
          <6>4. Len(q) \in Int
            OBVIOUS
          <6>5. z + 1 = Len(q)
            BY <6>1, <6>3, <6>4, AtIndex
          <6> QED  BY <6>2, <6>5
        <5> QED  BY <1>11, <5>1
      <4>2. CASE j # m
        <5>1. k >= m
          BY <1>6, <2>1, <3>5, <4>2
        <5>2. i + 1 \in 0..Len(q) /\ SubSeq(q, i + 2, Len(q)) = up[k - m]
          BY <2>2, <5>1
        <5>3. z = i
          BY <3>1, <5>2
        <5> QED  BY <2>10, <2>12, <5>1, <5>2, <5>3
      <4> QED  BY <4>1, <4>2
    <3>6. Fits(j, q, b, z)
      BY <3>3, <3>4, <3>5
    <3> QED  BY <2>1, <2>6, <3>6
  <2> QED  BY <2>11, <2>12
<1>14. 0..n \subseteq P
  <2> HIDE DEF P
  <2> QED  BY <1>1, <1>12, <1>13, UpTo, Zenon
<1>15. PICK q \in Seq(F), l \in Int, i \in Int : Fits(n, q, l, i)
  <2>1. n \in P
    <3> HIDE DEF P
    <3> QED  BY <1>1, <1>14
  <2> HIDE DEF Fits
  <2> QED  BY <2>1
<1>16. PICK t : t = Cut(c, q, l, i)
  OBVIOUS
<1>17. DOMAIN t = Fields /\ t.items = q /\ t.length = l /\ t.index = i
  BY <1>16, CutFields
<1>18. r = [t EXCEPT !.due = Without(d, f)]
  BY <1>5, <1>8, <1>15, <1>16
<1>19. r.items = q /\ r.index = i /\ r.due = Without(d, f)
  BY <1>17, <1>18 DEF Fields
<1>20. i + 1 \in 0..Len(q) /\ SubSeq(q, i + 2, Len(q)) = up[n - m]
  BY <1>6, <1>15
<1>21. r.length = Len(r.items)
  <2>1. c.firing \in BOOLEAN /\ Len(c.items) <= c.length
    <3>1. n <= n
      OBVIOUS
    <3> QED  BY <1>1, <1>4, <3>1, Zenon
  <2>2. Shrunk(c, r) /\ r.length \in Nat /\ r.items \in Seq(F)
    BY <2>1, RemovedList
  <2> QED  BY <1>1, <1>4, <2>2 DEF Shrunk
<1>22. i + 1 + 1 = i + 2 /\ i + 1 <= Len(q)
  BY <1>20
<1> QED  BY <1>10, <1>19, <1>20, <1>21, <1>22 DEF InTurn, InCall

-----------------------------------------------------------------------------
(* What a method does to a list that may be firing.                          *)

Flag == {"gone", "again", "fired", "firing", "wiped"}

(* The numbers of a list fit its functions.                                  *)
Numbers(F, c) ==
  /\ DOMAIN c = Fields /\ c.items \in Seq(F) /\ \A x \in Flag : c[x] \in BOOLEAN
  /\ c.length \in Nat /\ c.index \in Nat \cup {-1}
(* A firing list is never cut before its length is.                          *)
LongEnough(c) == c.firing /\ ~c.gone => Len(c.items) <= c.length
ListFine(F, c) == Numbers(F, c) /\ c.start = 0 /\ LongEnough(c)

(* b functions have been called in the firing, if nothing has been taken     *)
(* from under it.                                                            *)
TurnOK(c, b) == b \in Nat /\ (c.firing /\ ~c.gone /\ ~c.wiped => InTurn(c, b))

(* What keeps the turns of a list that is firing.                            *)
KeepsTurns(c, n) == \A b : c.firing /\ TurnOK(c, b) => TurnOK(n, b)

(* A firing that begins.                                                     *)
Begins(n) == n.firing /\ TurnOK(n, n.index)

(* fire(), up to its loop.                                                   *)
LEMMA EnteredFine ==
  ASSUME NEW F, NEW c, Numbers(F, c), c.start \in 0..Len(c.items), NEW data, NEW n, n = Entered(c, data)
  PROVE  ListFine(F, n) /\ Begins(n) /\ n.gone = c.gone
<1>1. PICK m, s : /\ m = (IF "memory" \in c.flags THEN data ELSE NoData)
                  /\ s = SubSeq(c.items, c.start + 1, Len(c.items))
  OBVIOUS
<1>2. n = [c EXCEPT !.memory = m, !.fired = TRUE, !.index = c.start, !.start = 0,
                    !.length = Len(c.items), !.firing = TRUE, !.due = s]
  BY <1>1 DEF Entered
<1>3. PICK e \in Nat, k \in Nat : e = Len(c.items) /\ k = c.start /\ k <= e
  BY DEF Numbers
<1>4. /\ DOMAIN n = Fields /\ n.items = c.items /\ n.index = k /\ n.start = 0 /\ n.length = e
      /\ n.firing = TRUE /\ n.fired = TRUE /\ n.due = s
      /\ \A x \in {"gone", "again", "wiped"} : n[x] = c[x]
  BY <1>2, <1>3 DEF Fields, Numbers
<1>5. \A x \in Flag : n[x] \in BOOLEAN
  BY <1>4 DEF Numbers, Flag
<1>6. Numbers(F, n)
  BY <1>3, <1>4, <1>5 DEF Numbers
<1>7. LongEnough(n)
  BY <1>3, <1>4 DEF LongEnough
<1>8. InTurn(n, n.index)
  BY <1>1, <1>3, <1>4 DEF InTurn
<1> QED  BY <1>4, <1>6, <1>7, <1>8 DEF ListFine, Begins, TurnOK

(* A list of which only some fields change.                                  *)
LEMMA FlagsOf ==
  ASSUME NEW F, NEW c, Numbers(F, c)
  PROVE  /\ DOMAIN c = Fields /\ c.items \in Seq(F) /\ Len(c.items) \in Nat
         /\ c.gone \in BOOLEAN /\ c.again \in BOOLEAN /\ c.fired \in BOOLEAN /\ c.firing \in BOOLEAN
         /\ c.wiped \in BOOLEAN /\ c.length \in Nat /\ c.index \in Nat \cup {-1}
BY DEF Numbers, Flag

LEMMA NumbersIf ==
  ASSUME NEW F, NEW c, DOMAIN c = Fields, c.items \in Seq(F),
         c.gone \in BOOLEAN, c.again \in BOOLEAN, c.fired \in BOOLEAN, c.firing \in BOOLEAN,
         c.wiped \in BOOLEAN, c.length \in Nat, c.index \in Nat \cup {-1}
  PROVE  Numbers(F, c)
BY DEF Numbers, Flag

(* add() of one function.                                                    *)
LEMMA AddedFine ==
  ASSUME NEW F, NEW c, ListFine(F, c), NEW f \in F, NEW n, n = Added(c, f)
  PROVE  /\ ListFine(F, n)
         /\ AddFires(c) => Begins(n)
         /\ ~AddFires(c) => n.index = c.index /\ n.firing = c.firing /\ KeepsTurns(c, n)
<1>1. /\ DOMAIN c = Fields /\ c.items \in Seq(F) /\ Len(c.items) \in Nat
      /\ c.gone \in BOOLEAN /\ c.again \in BOOLEAN /\ c.fired \in BOOLEAN /\ c.firing \in BOOLEAN
      /\ c.wiped \in BOOLEAN /\ c.length \in Nat /\ c.index \in Nat \cup {-1} /\ c.start = 0
  BY FlagsOf DEF ListFine
<1>2. PICK more, due : /\ more = (IF Accepts(c, f) THEN Append(c.items, f) ELSE c.items)
                       /\ due = (IF Accepts(c, f) THEN Append(c.due, f) ELSE c.due)
  OBVIOUS
<1>3. more \in Seq(F) /\ Len(more) \in Nat /\ Len(c.items) <= Len(more)
  BY <1>1, <1>2
<1>4. CASE c.gone
  BY <1>4 DEF Added, AddFires, KeepsTurns
<1>5. CASE ~c.gone /\ c.firing
  <2>1. n = [[[c EXCEPT !.items = more] EXCEPT !.length = Len(more)] EXCEPT !.due = due] /\ ~AddFires(c)
    BY <1>2, <1>5 DEF Added, AddFires
  <2>2. /\ DOMAIN n = Fields /\ n.items = more /\ n.length = Len(more) /\ n.due = due
        /\ n.gone = c.gone /\ n.again = c.again /\ n.fired = c.fired /\ n.firing = c.firing
        /\ n.wiped = c.wiped /\ n.index = c.index /\ n.start = c.start
    BY <1>1, <2>1 DEF Fields
  <2>3. Numbers(F, n)
    BY <1>1, <1>3, <2>2, NumbersIf
  <2>4. LongEnough(n)
    BY <1>3, <2>2 DEF LongEnough
  <2>5. ASSUME NEW b, TurnOK(c, b)
        PROVE  TurnOK(n, b)
    <3> SUFFICES ASSUME ~c.wiped
                 PROVE  InTurn(n, b)
      BY <2>2, <2>5 DEF TurnOK
    <3>1. b \in Nat /\ b <= Len(c.items) /\ c.due = SubSeq(c.items, b + 1, Len(c.items))
      BY <1>5, <2>5 DEF TurnOK, InTurn
    <3>2. CASE Accepts(c, f)
      <4>1. PICK a \in 1..(Len(c.items) + 1) : a = b + 1
        BY <1>1, <3>1
      <4>2. PICK q \in Seq(F) : q = c.items
        BY <1>1
      <4>3. a \in 1..(Len(q) + 1)
        BY <4>2
      <4>4. Grown(q, f, a)
        BY <4>3, EndGrown
      <4>5. SubSeq(more, a, Len(more)) = due
        BY <1>2, <3>1, <3>2, <4>1, <4>2, <4>4, Zenon DEF Grown
      <4> QED  BY <1>1, <1>3, <2>2, <3>1, <4>1, <4>5 DEF InTurn
    <3>3. CASE ~Accepts(c, f)
      BY <1>2, <2>2, <3>1, <3>3 DEF InTurn
    <3> QED  BY <3>2, <3>3
  <2> QED  BY <1>1, <2>1, <2>2, <2>3, <2>4, <2>5 DEF ListFine, KeepsTurns
<1>6. CASE ~c.gone /\ ~c.firing /\ c.memory # NoData
  <2>1. PICK m : m = [[c EXCEPT !.items = more] EXCEPT !.start = Len(c.items)]
    OBVIOUS
  <2>2. n = Entered(m, c.memory) /\ AddFires(c)
    BY <1>2, <1>6, <2>1 DEF Added, AddFires
  <2>3. /\ DOMAIN m = Fields /\ m.items = more /\ m.start = Len(c.items) /\ m.length = c.length
        /\ m.gone = c.gone /\ m.again = c.again /\ m.fired = c.fired /\ m.firing = c.firing
        /\ m.wiped = c.wiped /\ m.index = c.index
    BY <1>1, <2>1 DEF Fields
  <2>4. Numbers(F, m)
    BY <1>1, <1>3, <2>3, NumbersIf
  <2>5. m.start \in 0..Len(m.items)
    BY <1>1, <1>3, <2>3
  <2> QED  BY <2>2, <2>4, <2>5, EnteredFine
<1>7. CASE ~c.gone /\ ~c.firing /\ c.memory = NoData
  <2>1. n = [c EXCEPT !.items = more] /\ ~AddFires(c)
    BY <1>2, <1>7 DEF Added, AddFires
  <2>2. /\ DOMAIN n = Fields /\ n.items = more /\ n.length = c.length
        /\ n.gone = c.gone /\ n.again = c.again /\ n.fired = c.fired /\ n.firing = c.firing
        /\ n.wiped = c.wiped /\ n.index = c.index /\ n.start = c.start
    BY <1>1, <2>1 DEF Fields
  <2>3. Numbers(F, n)
    BY <1>1, <1>3, <2>2, NumbersIf
  <2> QED  BY <1>1, <1>7, <2>1, <2>2, <2>3 DEF ListFine, LongEnough, KeepsTurns
<1> QED  BY <1>1, <1>4, <1>5, <1>6, <1>7

(* A list whose turns nothing changes.                                       *)
SameTurns(c, n) ==
  /\ n.items = c.items /\ n.length = c.length /\ n.due = c.due /\ n.index = c.index
  /\ n.gone = c.gone /\ n.firing = c.firing /\ n.wiped = c.wiped /\ n.start = c.start

(* A list whose functions and indexes are as they were.                      *)
LEMMA SameFine ==
  ASSUME NEW F, NEW c, ListFine(F, c), NEW n, DOMAIN n = Fields, SameTurns(c, n),
         n.again \in BOOLEAN, n.fired \in BOOLEAN
  PROVE  ListFine(F, n) /\ KeepsTurns(c, n)
<1>1. /\ c.items \in Seq(F) /\ c.gone \in BOOLEAN /\ c.firing \in BOOLEAN
      /\ c.wiped \in BOOLEAN /\ c.length \in Nat /\ c.index \in Nat \cup {-1} /\ c.start = 0
  BY FlagsOf DEF ListFine
<1>2. Numbers(F, n)
  BY <1>1, NumbersIf DEF SameTurns
<1>3. LongEnough(n)
  BY DEF ListFine, LongEnough, SameTurns
<1>4. KeepsTurns(c, n)
  BY DEF KeepsTurns, TurnOK, InTurn, SameTurns
<1> QED  BY <1>1, <1>2, <1>3, <1>4 DEF ListFine, SameTurns

(* fireWith().                                                               *)
LEMMA FiredFine ==
  ASSUME NEW F, NEW c, ListFine(F, c), NEW data, NEW n, n = FiredWith(c, data)
  PROVE  /\ ListFine(F, n)
         /\ FiresNow(c) => Begins(n)
         /\ ~FiresNow(c) => n.index = c.index /\ n.firing = c.firing /\ KeepsTurns(c, n)
<1>1. /\ DOMAIN c = Fields /\ c.again \in BOOLEAN /\ c.fired \in BOOLEAN /\ c.firing \in BOOLEAN
      /\ c.start = 0 /\ Len(c.items) \in Nat /\ Numbers(F, c)
  BY FlagsOf DEF ListFine
<1>2. CASE ~MayFire(c)
  BY <1>2 DEF FiredWith, FiresNow, KeepsTurns
<1>3. CASE MayFire(c) /\ c.firing
  <2>1. PICK q : q = Append(c.queue, data)
    OBVIOUS
  <2>2. n = [c EXCEPT !.queue = q] /\ ~FiresNow(c)
    BY <1>3, <2>1 DEF FiredWith, FiresNow
  <2>3. DOMAIN n = Fields /\ SameTurns(c, n) /\ n.again = c.again /\ n.fired = c.fired
    BY <1>1, <2>2 DEF Fields, SameTurns
  <2> QED  BY <1>1, <2>2, <2>3, SameFine DEF SameTurns
<1>4. CASE MayFire(c) /\ ~c.firing
  <2>1. n = Entered(c, data) /\ FiresNow(c)
    BY <1>4 DEF FiredWith, FiresNow
  <2>2. c.start \in 0..Len(c.items)
    BY <1>1
  <2> QED  BY <1>1, <2>1, <2>2, EnteredFine
<1> QED  BY <1>1, <1>2, <1>3, <1>4

(* disable(), and below lock() and empty().                                  *)
LEMMA DisabledFine ==
  ASSUME NEW F, NEW c, ListFine(F, c), NEW n, n = Disabled(c)
  PROVE  ListFine(F, n) /\ KeepsTurns(c, n) /\ n.index = c.index /\ n.firing = c.firing /\ n.gone
<1>1. /\ DOMAIN c = Fields /\ c.fired \in BOOLEAN /\ c.firing \in BOOLEAN
      /\ c.wiped \in BOOLEAN /\ c.length \in Nat /\ c.index \in Nat \cup {-1} /\ c.start = 0
  BY FlagsOf DEF ListFine
<1>2. /\ DOMAIN n = Fields /\ n.items = <<>> /\ n.gone = TRUE /\ n.again = FALSE
      /\ n.fired = c.fired /\ n.firing = c.firing /\ n.wiped = c.wiped
      /\ n.length = c.length /\ n.index = c.index /\ n.start = c.start
  BY <1>1 DEF Disabled, Fields
<1>3. <<>> \in Seq(F)
  OBVIOUS
<1>4. Numbers(F, n)
  BY <1>1, <1>2, <1>3, NumbersIf
<1> QED  BY <1>1, <1>2, <1>4 DEF ListFine, LongEnough, KeepsTurns, TurnOK

LEMMA LockedFine ==
  ASSUME NEW F, NEW c, ListFine(F, c), NEW n, n = Locked(c)
  PROVE  ListFine(F, n) /\ KeepsTurns(c, n) /\ n.index = c.index /\ n.firing = c.firing
<1>1. CASE c.memory = NoData
  BY <1>1, DisabledFine DEF Locked
<1>2. CASE c.memory # NoData
  <2>1. DOMAIN c = Fields /\ c.fired \in BOOLEAN
    BY FlagsOf DEF ListFine
  <2>2. n = [c EXCEPT !.again = FALSE, !.queue = <<>>]
    BY <1>2 DEF Locked
  <2>3. DOMAIN n = Fields /\ SameTurns(c, n) /\ n.again = FALSE /\ n.fired = c.fired
    BY <2>1, <2>2 DEF Fields, SameTurns
  <2> QED  BY <2>1, <2>3, SameFine DEF SameTurns
<1> QED  BY <1>1, <1>2

LEMMA EmptiedFine ==
  ASSUME NEW F, NEW c, ListFine(F, c), NEW n, n = Emptied(c)
  PROVE  ListFine(F, n) /\ KeepsTurns(c, n) /\ n.index = c.index /\ n.firing = c.firing
<1>1. /\ DOMAIN c = Fields /\ c.again \in BOOLEAN /\ c.fired \in BOOLEAN /\ c.firing \in BOOLEAN
      /\ c.wiped \in BOOLEAN /\ c.length \in Nat /\ c.index \in Nat \cup {-1} /\ c.start = 0
  BY FlagsOf DEF ListFine
<1>2. PICK w \in BOOLEAN : w = (c.wiped \/ c.firing)
  OBVIOUS
<1>3. n = [c EXCEPT !.items = <<>>, !.gone = FALSE, !.due = <<>>, !.wiped = w]
  BY <1>2 DEF Emptied
<1>4. /\ DOMAIN n = Fields /\ n.items = <<>> /\ n.gone = FALSE /\ n.again = c.again
      /\ n.fired = c.fired /\ n.firing = c.firing /\ n.wiped = w
      /\ n.length = c.length /\ n.index = c.index /\ n.start = c.start
  BY <1>1, <1>3 DEF Fields
<1>5. <<>> \in Seq(F) /\ Len(<<>>) = 0
  OBVIOUS
<1>6. Numbers(F, n)
  BY <1>1, <1>2, <1>4, <1>5, NumbersIf
<1>7. LongEnough(n)
  BY <1>1, <1>4, <1>5 DEF LongEnough
<1>8. KeepsTurns(c, n)
  BY <1>2, <1>4 DEF KeepsTurns, TurnOK
<1> QED  BY <1>1, <1>4, <1>6, <1>7, <1>8 DEF ListFine

(* remove() takes the index along.                                           *)
LEMMA RemovedFine ==
  ASSUME NEW F, NEW c, ListFine(F, c), NEW f, NEW n, n = Removed(c, f)
  PROVE  /\ ListFine(F, n) /\ n.firing = c.firing
         /\ c.firing /\ TurnOK(c, c.index + 1) => TurnOK(n, n.index + 1)
<1>1. /\ DOMAIN c = Fields /\ c.items \in Seq(F) /\ Len(c.items) \in Nat
      /\ c.gone \in BOOLEAN /\ c.again \in BOOLEAN /\ c.fired \in BOOLEAN /\ c.firing \in BOOLEAN
      /\ c.wiped \in BOOLEAN /\ c.length \in Nat /\ c.index \in Nat \cup {-1} /\ c.start = 0
  BY FlagsOf DEF ListFine
<1>2. CASE c.gone
  BY <1>2 DEF Removed
<1>3. CASE ~c.gone
  <2>1. c.firing => Len(c.items) <= c.length
    BY <1>3 DEF ListFine, LongEnough
  <2>2. /\ DOMAIN n = Fields /\ n.items \in Seq(F) /\ n.length \in Nat /\ n.index \in Nat \cup {-1}
        /\ Shrunk(c, n)
        /\ \A x \in Fields \ {"items", "length", "index", "due"} : n[x] = c[x]
    BY <1>1, <1>3, <2>1, RemovedList
  <2>3. /\ n.gone = c.gone /\ n.again = c.again /\ n.fired = c.fired /\ n.firing = c.firing
        /\ n.wiped = c.wiped /\ n.start = c.start
    BY <2>2 DEF Fields
  <2>4. Numbers(F, n)
    BY <1>1, <2>2, <2>3, NumbersIf
  <2>5. LongEnough(n)
    <3> SUFFICES ASSUME c.firing
                 PROVE  Len(n.items) <= n.length
      BY <2>3 DEF LongEnough
    <3>1. PICK a \in Nat, b \in Nat, d \in Nat, e \in Nat :
            a = Len(n.items) /\ b = n.length /\ d = Len(c.items) /\ e = c.length
      BY <1>1, <2>2
    <3>2. b - a = e - d /\ d <= e
      BY <2>1, <2>2, <3>1 DEF Shrunk
    <3> QED  BY <3>1, <3>2
  <2>6. ASSUME c.firing, TurnOK(c, c.index + 1)
        PROVE  TurnOK(n, n.index + 1)
    <3>1. n.index + 1 \in Nat
      BY <2>2
    <3>2. ASSUME ~c.wiped
          PROVE  InTurn(n, n.index + 1)
      <4>1. InCall(c)
        BY <1>3, <2>6, <3>2 DEF TurnOK, InCall
      <4>2. InCall(n)
        BY <1>1, <1>3, <2>6, <4>1, RemovedTurn
      <4> QED  BY <4>2 DEF InCall
    <3> QED  BY <2>3, <3>1, <3>2 DEF TurnOK
  <2> QED  BY <1>1, <2>3, <2>4, <2>5, <2>6 DEF ListFine
<1> QED  BY <1>1, <1>2, <1>3

(* The next function gets its turn.                                          *)
Charged(c) == [c EXCEPT !.due = IF @ = <<>> THEN @ ELSE Tail(@)]
NextTurn(c, n) == \A b : TurnOK(c, b) /\ b < Len(c.items) => TurnOK(n, b + 1)

(* One function of the list is called: one turn less is due.                 *)
LEMMA PaidFine ==
  ASSUME NEW F, NEW c, ListFine(F, c), NEW n, n = Charged(c)
  PROVE  /\ ListFine(F, n) /\ n.index = c.index /\ n.firing = c.firing /\ n.gone = c.gone
         /\ n.length = c.length /\ n.items = c.items
         /\ NextTurn(c, n)
<1>1. /\ DOMAIN c = Fields /\ c.items \in Seq(F) /\ Len(c.items) \in Nat
      /\ c.gone \in BOOLEAN /\ c.again \in BOOLEAN /\ c.fired \in BOOLEAN /\ c.firing \in BOOLEAN
      /\ c.wiped \in BOOLEAN /\ c.length \in Nat /\ c.index \in Nat \cup {-1} /\ c.start = 0
  BY FlagsOf DEF ListFine
<1>2. PICK due : due = IF c.due = <<>> THEN c.due ELSE Tail(c.due)
  OBVIOUS
<1>3. n = [c EXCEPT !.due = due]
  BY <1>2 DEF Charged
<1>4. /\ DOMAIN n = Fields /\ n.items = c.items /\ n.length = c.length /\ n.index = c.index
      /\ n.gone = c.gone /\ n.again = c.again /\ n.fired = c.fired /\ n.firing = c.firing
      /\ n.wiped = c.wiped /\ n.start = c.start /\ n.due = due
  BY <1>1, <1>3 DEF Fields
<1>5. Numbers(F, n)
  BY <1>1, <1>4, NumbersIf
<1>6. LongEnough(n)
  BY <1>4 DEF ListFine, LongEnough
<1>7. ASSUME NEW b, TurnOK(c, b), b < Len(c.items)
      PROVE  TurnOK(n, b + 1)
  <2>1. b \in Nat /\ b + 1 \in Nat
    BY <1>7 DEF TurnOK
  <2>2. ASSUME c.firing, ~c.gone, ~c.wiped
        PROVE  InTurn(n, b + 1)
    <3>1. c.length = Len(c.items) /\ c.due = SubSeq(c.items, b + 1, Len(c.items))
      BY <1>7, <2>2 DEF TurnOK, InTurn
    <3>2. PICK q \in Seq(F) : q = c.items
      BY <1>1
    <3>3. PICK a \in 1..Len(q) : a = b + 1
      BY <1>7, <2>1, <3>2
    <3>4. PICK z : z = c.due
      OBVIOUS
    <3>5. z # <<>> /\ Tail(z) = SubSeq(q, a + 1, Len(q))
      BY <3>1, <3>2, <3>3, <3>4, EndShrinks
    <3>6. due = SubSeq(q, a + 1, Len(q))
      BY <1>2, <3>4, <3>5, Zenon
    <3>7. b + 1 <= Len(c.items)
      BY <1>1, <1>7, <2>1
    <3> QED  BY <1>4, <3>1, <3>2, <3>3, <3>6, <3>7 DEF InTurn
  <2> QED  BY <1>4, <2>1, <2>2 DEF TurnOK
<1> QED  BY <1>1, <1>4, <1>5, <1>6, <1>7 DEF ListFine, NextTurn

(* The loop goes on.                                                         *)
Onward(c) == [c EXCEPT !.index = @ + 1]
OneOn(c, n) == n.index = c.index + 1

LEMMA AdvancedFine ==
  ASSUME NEW F, NEW c, ListFine(F, c), NEW n, n = Onward(c)
  PROVE  /\ ListFine(F, n) /\ OneOn(c, n) /\ n.firing = c.firing
         /\ KeepsTurns(c, n)
<1>1. /\ DOMAIN c = Fields /\ c.items \in Seq(F) /\ Len(c.items) \in Nat
      /\ c.gone \in BOOLEAN /\ c.again \in BOOLEAN /\ c.fired \in BOOLEAN /\ c.firing \in BOOLEAN
      /\ c.wiped \in BOOLEAN /\ c.length \in Nat /\ c.index \in Nat \cup {-1} /\ c.start = 0
  BY FlagsOf DEF ListFine
<1>2. PICK i \in Nat : i = c.index + 1
  BY <1>1
<1>3. n = [c EXCEPT !.index = i]
  BY <1>2 DEF Onward
<1>4. /\ DOMAIN n = Fields /\ n.items = c.items /\ n.length = c.length /\ n.index = i
      /\ n.gone = c.gone /\ n.again = c.again /\ n.fired = c.fired /\ n.firing = c.firing
      /\ n.wiped = c.wiped /\ n.start = c.start /\ n.due = c.due
  BY <1>1, <1>3 DEF Fields
<1>5. Numbers(F, n)
  BY <1>1, <1>4, NumbersIf
<1>6. LongEnough(n)
  BY <1>4 DEF ListFine, LongEnough
<1>7. KeepsTurns(c, n)
  BY <1>4 DEF KeepsTurns, TurnOK, InTurn
<1> QED  BY <1>1, <1>2, <1>4, <1>5, <1>6, <1>7 DEF ListFine, OneOn

(* false stops the loop.                                                     *)
LEMMA StoppedFine ==
  ASSUME NEW F, NEW c, ListFine(F, c), NEW b, TurnOK(c, b), c.firing, NEW n,
         n = [c EXCEPT !.memory = NoData, !.due = <<>>, !.index = c.length]
  PROVE  ListFine(F, n) /\ TurnOK(n, n.index) /\ n.firing
<1>1. /\ DOMAIN c = Fields /\ c.items \in Seq(F) /\ Len(c.items) \in Nat
      /\ c.gone \in BOOLEAN /\ c.again \in BOOLEAN /\ c.fired \in BOOLEAN /\ c.firing \in BOOLEAN
      /\ c.wiped \in BOOLEAN /\ c.length \in Nat /\ c.index \in Nat \cup {-1} /\ c.start = 0
  BY FlagsOf DEF ListFine
<1>2. /\ DOMAIN n = Fields /\ n.items = c.items /\ n.length = c.length /\ n.index = c.length
      /\ n.gone = c.gone /\ n.again = c.again /\ n.fired = c.fired /\ n.firing = c.firing
      /\ n.wiped = c.wiped /\ n.start = c.start /\ n.due = <<>>
  BY <1>1 DEF Fields
<1>3. Numbers(F, n)
  BY <1>1, <1>2, NumbersIf
<1>4. LongEnough(n)
  BY <1>2 DEF ListFine, LongEnough
<1>5. ASSUME c.length = Len(c.items)
      PROVE  InTurn(n, n.index)
  <2>1. PICK q \in Seq(F), e \in Nat : q = c.items /\ e = Len(q)
    BY <1>1
  <2>2. <<>> = SubSeq(q, e + 1, e)
    BY <2>1, EndNone
  <2>3. n.length = e /\ n.index = e /\ n.items = q
    BY <1>2, <1>5, <2>1
  <2>4. e <= e
    OBVIOUS
  <2> QED  BY <1>2, <2>1, <2>2, <2>3, <2>4, Zenon DEF InTurn
<1>6. TurnOK(n, n.index)
  BY <1>1, <1>2, <1>5 DEF TurnOK, InTurn
<1> QED  BY <1>1, <1>2, <1>3, <1>4, <1>6 DEF ListFine

(* The end of fire().                                                        *)
LEMMA LeftFine ==
  ASSUME NEW F, NEW c, ListFine(F, c), NEW n, n = Left(c)
  PROVE  ListFine(F, n) /\ (Refires(c) => Begins(n))
<1>1. /\ DOMAIN c = Fields /\ c.items \in Seq(F) /\ Len(c.items) \in Nat
      /\ c.gone \in BOOLEAN /\ c.again \in BOOLEAN /\ c.fired \in BOOLEAN /\ c.firing \in BOOLEAN
      /\ c.wiped \in BOOLEAN /\ c.length \in Nat /\ c.index \in Nat \cup {-1} /\ c.start = 0
  BY FlagsOf DEF ListFine
<1>2. PICK done : done = [c EXCEPT !.firing = FALSE, !.due = <<>>]
  OBVIOUS
<1>3. /\ DOMAIN done = Fields /\ done.items = c.items /\ done.length = c.length /\ done.index = c.index
      /\ done.gone = c.gone /\ done.again = c.again /\ done.fired = c.fired /\ done.firing = FALSE
      /\ done.wiped = c.wiped /\ done.start = c.start /\ done.queue = c.queue /\ done.memory = c.memory
  BY <1>1, <1>2 DEF Fields
<1>4. n = IF c.gone THEN done
          ELSE IF c.again
               THEN IF c.queue = <<>> THEN done
                    ELSE Entered([done EXCEPT !.queue = Tail(@)], Head(c.queue))
               ELSE IF c.memory # NoData THEN [done EXCEPT !.items = <<>>]
                    ELSE Disabled(done)
  BY <1>2 DEF Left
<1>5. Numbers(F, done)
  BY <1>1, <1>3, NumbersIf
<1>6. ListFine(F, done)
  BY <1>1, <1>3, <1>5 DEF ListFine, LongEnough
<1>7. CASE c.gone \/ (c.again /\ c.queue = <<>>)
  BY <1>4, <1>6, <1>7 DEF Refires
<1>8. CASE ~c.gone /\ c.again /\ c.queue # <<>>
  <2>1. PICK m, q : m = [done EXCEPT !.queue = q] /\ q = Tail(c.queue)
    OBVIOUS
  <2>2. [done EXCEPT !.queue = Tail(@)] = m
    BY <1>3, <2>1
  <2>3. n = Entered(m, Head(c.queue))
    BY <1>4, <1>8, <2>2
  <2>4. DOMAIN m = Fields /\ SameTurns(done, m) /\ m.again = done.again /\ m.fired = done.fired
    BY <1>3, <2>1 DEF Fields, SameTurns
  <2>5. ListFine(F, m)
    BY <1>1, <1>3, <1>6, <2>4, SameFine
  <2>6. Numbers(F, m) /\ m.start \in 0..Len(m.items)
    BY <1>1, <1>3, <2>4, <2>5 DEF ListFine, SameTurns
  <2> QED  BY <2>3, <2>6, EnteredFine
<1>9. CASE ~c.gone /\ ~c.again /\ c.memory # NoData
  <2>1. n = [done EXCEPT !.items = <<>>] /\ ~Refires(c)
    BY <1>4, <1>9 DEF Refires
  <2>2. /\ DOMAIN n = Fields /\ n.items = <<>> /\ n.length = c.length /\ n.index = c.index
        /\ n.gone = c.gone /\ n.again = c.again /\ n.fired = c.fired /\ n.firing = FALSE
        /\ n.wiped = c.wiped /\ n.start = c.start
    BY <1>3, <2>1 DEF Fields
  <2>3. <<>> \in Seq(F)
    OBVIOUS
  <2>4. Numbers(F, n)
    BY <1>1, <2>2, <2>3, NumbersIf
  <2> QED  BY <1>1, <2>1, <2>2, <2>4 DEF ListFine, LongEnough
<1>10. CASE ~c.gone /\ ~c.again /\ c.memory = NoData
  <2>1. n = Disabled(done) /\ ~Refires(c)
    BY <1>4, <1>10 DEF Refires
  <2> QED  BY <1>6, <2>1, DisabledFine
<1> QED  BY <1>1, <1>7, <1>8, <1>9, <1>10

-----------------------------------------------------------------------------
(* Where a list stands on a stack.                                           *)

(* A firing of l; l is fired somewhere in s; l is fired on top of s.         *)
IsFire(f, l) == f.k = "fire" /\ f.list = l
On(s, l) == \E p \in DOMAIN s : IsFire(s[p], l)
AtTop(s, l) == s # <<>> /\ IsFire(Head(s), l)

LEMMA OnIs == \A l : (OnStack(l) <=> On(calls, l)) /\ (Top(l) <=> AtTop(calls, l))
BY DEF OnStack, Top, On, AtTop, IsFire

LEMMA OnIsThen == \A l : (OnStack(l)' <=> On(calls', l)) /\ (Top(l)' <=> AtTop(calls', l))
BY DEF OnStack, Top, On, AtTop, IsFire

(* A stack with another call on it.                                          *)
LEMMA OnPushed ==
  ASSUME NEW S, NEW s \in Seq(S), NEW f, NEW t, t = <<f>> \o s
  PROVE  /\ t # <<>> /\ Head(t) = f /\ Tail(t) = s /\ t \in Seq(S \cup {f})
         /\ \A l : (On(t, l) <=> IsFire(f, l) \/ On(s, l)) /\ (AtTop(t, l) <=> IsFire(f, l))
<1>1. PICK U : U = S \cup {f}
  OBVIOUS
<1>2. s \in Seq(U) /\ f \in U
  <2>1. Len(s) \in Nat /\ DOMAIN s = 1..Len(s) /\ \A p \in 1..Len(s) : s[p] \in U
    BY <1>1
  <2>2. s = [p \in 1..Len(s) |-> s[p]]
    OBVIOUS
  <2> QED  BY <1>1, <2>1, <2>2, IsASeq
<1>3. /\ t \in Seq(U) /\ t # <<>> /\ Head(t) = f
      /\ Len(t) = Len(s) + 1 /\ DOMAIN t = 1..(Len(s) + 1)
      /\ t[1] = f /\ \A p \in 2..(Len(s) + 1) : t[p] = s[p - 1]
      /\ Tail(t) = s
  <2>1. /\ <<f>> \o s \in Seq(U) /\ <<f>> \o s # <<>> /\ Head(<<f>> \o s) = f
        /\ Len(<<f>> \o s) = Len(s) + 1 /\ DOMAIN (<<f>> \o s) = 1..(Len(s) + 1)
        /\ (<<f>> \o s)[1] = f
        /\ \A p \in 2..(Len(s) + 1) : (<<f>> \o s)[p] = s[p - 1]
        /\ Tail(<<f>> \o s) = s
    BY <1>2, Pushed
  <2> QED  BY <2>1
<1>4. DOMAIN s = 1..Len(s) /\ Len(s) \in Nat
  OBVIOUS
<1>5. ASSUME NEW l, On(t, l)
      PROVE  IsFire(f, l) \/ On(s, l)
  <2>1. PICK p \in 1..(Len(s) + 1) : IsFire(t[p], l)
    BY <1>3, <1>5 DEF On
  <2>2. CASE p = 1
    BY <1>3, <2>1, <2>2
  <2>3. CASE p # 1
    <3>1. p \in 2..(Len(s) + 1) /\ p - 1 \in DOMAIN s
      BY <1>4, <2>1, <2>3
    <3>2. IsFire(s[p - 1], l)
      BY <1>3, <2>1, <3>1
    <3> QED  BY <3>1, <3>2 DEF On
  <2> QED  BY <2>2, <2>3
<1>6. ASSUME NEW l, IsFire(f, l)
      PROVE  On(t, l)
  <2>1. 1 \in DOMAIN t
    BY <1>3, <1>4
  <2> QED  BY <1>3, <1>6, <2>1 DEF On
<1>7. ASSUME NEW l, On(s, l)
      PROVE  On(t, l)
  <2>1. PICK p \in 1..Len(s) : IsFire(s[p], l)
    BY <1>4, <1>7 DEF On
  <2>2. PICK q \in 2..(Len(s) + 1) : q = p + 1 /\ q - 1 = p
    BY <1>4, <2>1
  <2>3. q \in DOMAIN t
    BY <1>3, <1>4, <2>2
  <2>4. IsFire(t[q], l)
    BY <1>3, <2>1, <2>2
  <2> QED  BY <2>3, <2>4 DEF On
<1>8. \A l : AtTop(t, l) <=> IsFire(f, l)
  BY <1>3 DEF AtTop
<1> QED  BY <1>1, <1>3, <1>5, <1>6, <1>7, <1>8

(* A stack without its first call.                                           *)
LEMMA OnPopped ==
  ASSUME NEW S, NEW s \in Seq(S), s # <<>>
  PROVE  /\ Tail(s) \in Seq(S) /\ Head(s) \in S
         /\ \A l : On(s, l) <=> IsFire(Head(s), l) \/ On(Tail(s), l)
<1>1. /\ Tail(s) \in Seq(S) /\ Head(s) = s[1] /\ 1 \in DOMAIN s
      /\ Len(Tail(s)) = Len(s) - 1 /\ Len(s) \in Nat \ {0} /\ DOMAIN s = 1..Len(s)
      /\ DOMAIN Tail(s) = 1..(Len(s) - 1)
      /\ \A p \in 1..(Len(s) - 1) : Tail(s)[p] = s[p + 1]
  BY Popped
<1>2. ASSUME NEW l, On(s, l)
      PROVE  IsFire(Head(s), l) \/ On(Tail(s), l)
  <2>1. PICK p \in 1..Len(s) : IsFire(s[p], l)
    BY <1>1, <1>2 DEF On
  <2>2. CASE p = 1
    BY <1>1, <2>1, <2>2
  <2>3. CASE p # 1
    <3>1. PICK q \in 1..(Len(s) - 1) : q + 1 = p
      <4>1. p - 1 \in 1..(Len(s) - 1) /\ (p - 1) + 1 = p
        BY <1>1, <2>1, <2>3
      <4> QED  BY <4>1
    <3>2. IsFire(Tail(s)[q], l)
      BY <1>1, <2>1, <3>1
    <3> QED  BY <1>1, <3>1, <3>2 DEF On
  <2> QED  BY <2>2, <2>3
<1>3. ASSUME NEW l, On(Tail(s), l)
      PROVE  On(s, l)
  <2>1. PICK p \in 1..(Len(s) - 1) : IsFire(Tail(s)[p], l)
    BY <1>1, <1>3 DEF On
  <2>2. p + 1 \in DOMAIN s
    BY <1>1, <2>1
  <2> QED  BY <1>1, <2>1, <2>2 DEF On
<1>4. ASSUME NEW l, IsFire(Head(s), l)
      PROVE  On(s, l)
  BY <1>1, <1>4 DEF On
<1> QED  BY <1>1, <1>2, <1>3, <1>4

(* A list that fires on top is not on the stack below.                       *)
LEMMA OnlyOnTop ==
  ASSUME NEW S, calls \in Seq(S), OneFiring, NEW l, AtTop(calls, l)
  PROVE  ~On(Tail(calls), l)
<1>1. /\ Head(calls) = calls[1] /\ 1 \in DOMAIN calls
      /\ Len(calls) \in Nat \ {0} /\ DOMAIN calls = 1..Len(calls)
      /\ DOMAIN Tail(calls) = 1..(Len(calls) - 1)
      /\ \A p \in 1..(Len(calls) - 1) : Tail(calls)[p] = calls[p + 1]
  BY Popped DEF AtTop
<1>2. SUFFICES ASSUME NEW p \in 1..(Len(calls) - 1), IsFire(Tail(calls)[p], l)
               PROVE  FALSE
  BY <1>1 DEF On
<1>3. PICK q \in DOMAIN calls : q = p + 1 /\ q # 1
  BY <1>1, <1>2
<1>4. IsFire(calls[q], l) /\ IsFire(calls[1], l)
  BY <1>1, <1>2, <1>3 DEF AtTop
<1>5. q = 1
  BY <1>1, <1>4 DEF OneFiring, IsFire
<1> QED  BY <1>3, <1>5

-----------------------------------------------------------------------------
(* The turns of every list.                                                  *)

(* The turns of list l, while it is fired.                                   *)
Turned(F, l) ==
  /\ ListFine(F, lists[l])
  /\ OnStack(l) => lists[l].firing /\ TurnOK(lists[l], Begun(l))
TurnsOK(F) == \A l \in DOMAIN lists : Turned(F, l)

LEMMA TurnedFacts ==
  ASSUME NEW F, NEW l, Turned(F, l)
  PROVE  /\ ListFine(F, lists[l])
         /\ OnStack(l) => lists[l].firing
         /\ OnStack(l) /\ Top(l) => TurnOK(lists[l], lists[l].index)
         /\ OnStack(l) /\ ~Top(l) => TurnOK(lists[l], lists[l].index + 1)
<1>1. lists[l].index \in Int
  BY DEF Turned, ListFine, Numbers
<1>2. Top(l) => Begun(l) = lists[l].index
  BY <1>1 DEF Begun
<1>3. ~Top(l) => Begun(l) = lists[l].index + 1
  BY DEF Begun
<1> QED  BY <1>2, <1>3 DEF Turned

LEMMA TurnedIf ==
  ASSUME NEW F, NEW l, ListFine(F, lists'[l]),
         OnStack(l)' => lists'[l].firing,
         OnStack(l)' /\ Top(l)' => TurnOK(lists'[l], lists'[l].index),
         OnStack(l)' /\ ~Top(l)' => TurnOK(lists'[l], lists'[l].index + 1)
  PROVE  Turned(F, l)'
<1>1. lists'[l].index \in Int
  BY DEF ListFine, Numbers
<1>2. Top(l)' => Begun(l)' = lists'[l].index
  BY <1>1 DEF Begun
<1>3. ~Top(l)' => Begun(l)' = lists'[l].index + 1
  BY DEF Begun
<1> QED  BY <1>2, <1>3 DEF Turned

(* A list that a step does not touch.                                        *)
LEMMA Untouched ==
  ASSUME NEW F, NEW l, Turned(F, l), lists'[l] = lists[l],
         OnStack(l)' => OnStack(l) /\ (Top(l)' <=> Top(l))
  PROVE  Turned(F, l)'
BY TurnedFacts, TurnedIf

(* What the calls under way have to do with the lists.                       *)
WorkFine(F, w) ==
  /\ w.op \in {"add", "fireWith", "remove", "empty", "disable", "lock"} => w.list \in DOMAIN lists
  /\ w.op = "add" => w.fn \in F
  /\ w.op \notin {"add", "fireWith", "remove", "empty", "disable", "lock", "argument"} =>
       DoneOf("when") \in DOMAIN lists
(* The calls under way are those that the lists expect.                      *)
Sound(F, S) ==
  /\ calls \in Seq(S)
  /\ \A l : OnStack(l) => l \in DOMAIN lists
  /\ OneFiring
  /\ In("user") => Tail(calls) # <<>> /\ Head(Tail(calls)).k = "fire"
  /\ Loop => Tail(calls) = <<>> \/ Head(Tail(calls)).k # "fire"
  /\ In("method") /\ Head(calls).todo # <<>> => WorkFine(F, Head(Head(calls).todo))
  /\ Loop /\ AtCall(lists[Here]) /\ Called.k \in {"disable", "lock"} =>
       Called.list \in DOMAIN lists /\ Called.list # Here

(* A part of a method is done on a list, which may begin its firing.         *)
LEMMA MethodTurns ==
  ASSUME NEW F, NEW S, Sound(F, S), TurnsOK(F), In("method"), NEW m \in DOMAIN lists, NEW c, c = lists[m],
         NEW n, lists' = [lists EXCEPT ![m] = n], NEW fires \in BOOLEAN, NEW data, NEW todo,
         calls' = IF fires THEN <<Firing(m, data)>> \o (<<Method(todo)>> \o Tail(calls))
                  ELSE <<Method(todo)>> \o Tail(calls),
         ListFine(F, n), fires => ~c.firing /\ Begins(n),
         ~fires => n.firing = c.firing /\ (c.firing /\ TurnOK(c, c.index + 1) => TurnOK(n, n.index + 1))
  PROVE  TurnsOK(F)'
<1>1. calls \in Seq(S) /\ calls # <<>> /\ Head(calls).k = "method"
  BY DEF Sound, In
<1>2. PICK s \in Seq(S) : s = Tail(calls) /\ \A l : OnStack(l) <=> On(s, l)
  <2>1. Tail(calls) \in Seq(S) /\ \A l : ~IsFire(Head(calls), l)
    BY <1>1, OnPopped DEF IsFire
  <2>2. \A l : OnStack(l) <=> On(Tail(calls), l)
    BY <1>1, <2>1, OnPopped, OnIs
  <2> QED  BY <2>1, <2>2
<1>3. \A l : ~Top(l)
  BY <1>1 DEF Top
<1>4. PICK f, g : f = Method(todo) /\ g = Firing(m, data)
  OBVIOUS
<1>5. (\A l : ~IsFire(f, l)) /\ \A l : IsFire(g, l) <=> l = m
  BY <1>4 DEF Method, Firing, IsFire
<1>6. PICK r : r = <<f>> \o s
  OBVIOUS
<1>7. r \in Seq(S \cup {f}) /\ \A l : (On(r, l) <=> OnStack(l)) /\ ~AtTop(r, l)
  BY <1>2, <1>5, <1>6, OnPushed
<1>8. \A l : /\ OnStack(l)' <=> OnStack(l) \/ (fires /\ l = m)
             /\ Top(l)' <=> fires /\ l = m
  <2>1. CASE fires
    <3>1. calls' = <<g>> \o r
      BY <1>2, <1>4, <1>6, <2>1
    <3>2. \A l : (On(calls', l) <=> IsFire(g, l) \/ On(r, l)) /\ (AtTop(calls', l) <=> IsFire(g, l))
      BY <1>7, <3>1, OnPushed
    <3> QED  BY <1>5, <1>7, <2>1, <3>2, OnIsThen
  <2>2. CASE ~fires
    <3>1. calls' = r
      BY <1>2, <1>4, <1>6, <2>2
    <3> QED  BY <1>7, <2>2, <3>1, OnIsThen
  <2> QED  BY <2>1, <2>2
<1>9. SUFFICES ASSUME NEW l \in DOMAIN lists
               PROVE  Turned(F, l)'
  BY DEF TurnsOK
<1>10. Turned(F, l)
  BY DEF TurnsOK
<1>11. CASE l # m
  BY <1>3, <1>8, <1>10, <1>11, Untouched
<1>12. CASE l = m
  <2>1. lists'[l] = n /\ lists[l] = c
    BY <1>12
  <2>2. OnStack(l) => c.firing /\ TurnOK(c, c.index + 1)
    BY <1>3, <1>10, <2>1, TurnedFacts
  <2>3. CASE fires
    BY <1>8, <1>12, <2>1, <2>2, <2>3, TurnedIf DEF Begins
  <2>4. CASE ~fires
    BY <1>8, <1>12, <2>1, <2>2, <2>4, TurnedIf
  <2> QED  BY <2>3, <2>4
<1> QED  BY <1>11, <1>12

(* Nothing happens to the lists, and none begins its firing or ends it.      *)
LEMMA IdleTurns ==
  ASSUME NEW F, TurnsOK(F), lists' = lists,
         \A l : OnStack(l)' => OnStack(l) /\ (Top(l)' <=> Top(l))
  PROVE  TurnsOK(F)'
BY Untouched DEF TurnsOK

(* A part of a method.                                                       *)
LEMMA ProceedTurns ==
  ASSUME NEW F, NEW S, Sound(F, S), TurnsOK(F), Proceed
  PROVE  TurnsOK(F)'
<1>1. PICK do, todo, rest : /\ do = Head(Head(calls).todo) /\ todo = Tail(Head(calls).todo)
                            /\ rest = <<Method(todo)>> \o Tail(calls)
  OBVIOUS
<1>2. In("method") /\ Head(calls).todo # <<>> /\ WorkFine(F, do)
  BY <1>1 DEF Proceed, Sound
<1>3. ASSUME do.op \in {"add", "fireWith", "remove", "empty", "disable", "lock"}
      PROVE  do.list \in DOMAIN lists /\ ListFine(F, lists[do.list])
  BY <1>2, <1>3 DEF WorkFine, TurnsOK, Turned
<1>4. CASE do.op = "add"
  <2>1. PICK m, c, f, n : m = do.list /\ c = lists[m] /\ f = do.fn /\ n = Added(c, f)
    OBVIOUS
  <2>2. m \in DOMAIN lists /\ ListFine(F, c) /\ f \in F
    BY <1>2, <1>3, <1>4, <2>1 DEF WorkFine
  <2>3. /\ lists' = [lists EXCEPT ![m] = n]
        /\ calls' = IF AddFires(c) THEN <<Firing(m, c.memory)>> \o rest ELSE rest
    BY <1>1, <1>4, <2>1 DEF Proceed, Entering
  <2>4. /\ ListFine(F, n) /\ (AddFires(c) => Begins(n))
        /\ ~AddFires(c) => n.index = c.index /\ n.firing = c.firing /\ KeepsTurns(c, n)
    BY <2>1, <2>2, AddedFine
  <2>5. PICK fires \in BOOLEAN : fires = AddFires(c)
    BY DEF AddFires
  <2>6. fires => ~c.firing
    BY <2>5 DEF AddFires
  <2>7. /\ fires => Begins(n)
        /\ ~fires => n.firing = c.firing /\ (c.firing /\ TurnOK(c, c.index + 1) => TurnOK(n, n.index + 1))
    BY <2>4, <2>5 DEF KeepsTurns
  <2>8. calls' = IF fires THEN <<Firing(m, c.memory)>> \o (<<Method(todo)>> \o Tail(calls))
                 ELSE <<Method(todo)>> \o Tail(calls)
    BY <1>1, <2>3, <2>5
  <2> QED  BY <1>2, <2>1, <2>2, <2>3, <2>4, <2>6, <2>7, <2>8, MethodTurns
<1>5. ASSUME NEW m \in DOMAIN lists, NEW c, c = lists[m], NEW data, NEW n, n = FiredWith(c, data),
             lists' = [lists EXCEPT ![m] = n],
             calls' = IF FiresNow(c) THEN <<Firing(m, data)>> \o rest ELSE rest
      PROVE  TurnsOK(F)'
  <2>2. ListFine(F, c)
    BY <1>5 DEF TurnsOK, Turned
  <2>4. /\ ListFine(F, n) /\ (FiresNow(c) => Begins(n))
        /\ ~FiresNow(c) => n.index = c.index /\ n.firing = c.firing /\ KeepsTurns(c, n)
    BY <1>5, <2>2, FiredFine
  <2>5. PICK fires \in BOOLEAN : fires = FiresNow(c)
    BY DEF FiresNow
  <2>6. fires => ~c.firing
    BY <2>5 DEF FiresNow
  <2>7. /\ fires => Begins(n)
        /\ ~fires => n.firing = c.firing /\ (c.firing /\ TurnOK(c, c.index + 1) => TurnOK(n, n.index + 1))
    BY <2>4, <2>5 DEF KeepsTurns
  <2>8. calls' = IF fires THEN <<Firing(m, data)>> \o (<<Method(todo)>> \o Tail(calls))
                 ELSE <<Method(todo)>> \o Tail(calls)
    BY <1>1, <1>5, <2>5
  <2> QED  BY <1>2, <1>5, <2>4, <2>6, <2>7, <2>8, MethodTurns
<1>6. CASE do.op = "fireWith"
  <2>1. PICK m, c, data, n : m = do.list /\ c = lists[m] /\ data = do.data /\ n = FiredWith(c, data)
    OBVIOUS
  <2>2. /\ lists' = [lists EXCEPT ![m] = n]
        /\ calls' = IF FiresNow(c) THEN <<Firing(m, data)>> \o rest ELSE rest
    BY <1>1, <1>6, <2>1 DEF Proceed, Entering
  <2>3. m \in DOMAIN lists
    BY <1>3, <1>6, <2>1
  <2> QED  BY <1>5, <2>1, <2>2, <2>3
<1>7. ASSUME NEW m \in DOMAIN lists, NEW c, c = lists[m], NEW n,
             lists' = [lists EXCEPT ![m] = n], calls' = rest, ListFine(F, n), n.firing = c.firing,
             c.firing /\ TurnOK(c, c.index + 1) => TurnOK(n, n.index + 1)
      PROVE  TurnsOK(F)'
  <2>1. PICK fires \in BOOLEAN : fires = FALSE
    OBVIOUS
  <2>2. calls' = IF fires THEN <<Firing(m, n)>> \o (<<Method(todo)>> \o Tail(calls))
                 ELSE <<Method(todo)>> \o Tail(calls)
    BY <1>1, <1>7, <2>1
  <2> QED  BY <1>2, <1>7, <2>1, <2>2, MethodTurns
<1>8. CASE do.op = "remove"
  <2>1. PICK m, c, n : m = do.list /\ c = lists[m] /\ n = Removed(c, do.fn)
    OBVIOUS
  <2>2. lists' = [lists EXCEPT ![m] = n] /\ calls' = rest
    BY <1>1, <1>8, <2>1 DEF Proceed
  <2>3. m \in DOMAIN lists /\ ListFine(F, c)
    BY <1>3, <1>8, <2>1
  <2>4. /\ ListFine(F, n) /\ n.firing = c.firing
        /\ c.firing /\ TurnOK(c, c.index + 1) => TurnOK(n, n.index + 1)
    BY <2>1, <2>3, RemovedFine
  <2> QED  BY <1>7, <2>1, <2>2, <2>3, <2>4
<1>9. CASE do.op = "empty"
  <2>1. PICK m, c, n : m = do.list /\ c = lists[m] /\ n = Emptied(c)
    OBVIOUS
  <2>2. lists' = [lists EXCEPT ![m] = n] /\ calls' = rest
    BY <1>1, <1>9, <2>1 DEF Proceed
  <2>3. m \in DOMAIN lists /\ ListFine(F, c)
    BY <1>3, <1>9, <2>1
  <2>4. ListFine(F, n) /\ KeepsTurns(c, n) /\ n.index = c.index /\ n.firing = c.firing
    BY <2>1, <2>3, EmptiedFine
  <2> QED  BY <1>7, <2>1, <2>2, <2>3, <2>4 DEF KeepsTurns
<1>10. CASE do.op = "disable"
  <2>1. PICK m, c, n : m = do.list /\ c = lists[m] /\ n = Disabled(c)
    OBVIOUS
  <2>2. lists' = [lists EXCEPT ![m] = n] /\ calls' = rest
    BY <1>1, <1>10, <2>1 DEF Proceed
  <2>3. m \in DOMAIN lists /\ ListFine(F, c)
    BY <1>3, <1>10, <2>1
  <2>4. ListFine(F, n) /\ KeepsTurns(c, n) /\ n.index = c.index /\ n.firing = c.firing
    BY <2>1, <2>3, DisabledFine
  <2> QED  BY <1>7, <2>1, <2>2, <2>3, <2>4 DEF KeepsTurns
<1>11. CASE do.op = "lock"
  <2>1. PICK m, c, n : m = do.list /\ c = lists[m] /\ n = Locked(c)
    OBVIOUS
  <2>2. lists' = [lists EXCEPT ![m] = n] /\ calls' = rest
    BY <1>1, <1>11, <2>1 DEF Proceed
  <2>3. m \in DOMAIN lists /\ ListFine(F, c)
    BY <1>3, <1>11, <2>1
  <2>4. ListFine(F, n) /\ KeepsTurns(c, n) /\ n.index = c.index /\ n.firing = c.firing
    BY <2>1, <2>3, LockedFine
  <2> QED  BY <1>7, <2>1, <2>2, <2>3, <2>4 DEF KeepsTurns
<1>12. ASSUME lists' = lists, NEW t, calls' = <<Method(t)>> \o Tail(calls)
       PROVE  TurnsOK(F)'
  <2>1. calls \in Seq(S) /\ calls # <<>> /\ Head(calls).k = "method"
    BY <1>2 DEF Sound, In
  <2>2. Tail(calls) \in Seq(S) /\ \A l : On(Tail(calls), l) => On(calls, l)
    BY <2>1, OnPopped
  <2>3. \A l : ~IsFire(Method(t), l) /\ ~Top(l)
    BY <2>1 DEF IsFire, Method, Top
  <2>4. \A l : (On(calls', l) => On(calls, l)) /\ ~AtTop(calls', l)
    BY <1>12, <2>2, <2>3, OnPushed
  <2> QED  BY <1>12, <2>3, <2>4, OnIs, OnIsThen, IdleTurns
<1>13. CASE do.op = "argument"
  <2>1. Tail(rest) = Tail(calls) /\ Head(rest).todo = todo
    <3>1. calls \in Seq(S) /\ calls # <<>>
      BY <1>2 DEF Sound, In
    <3>2. Tail(calls) \in Seq(S)
      BY <3>1, OnPopped
    <3>3. Tail(rest) = Tail(calls) /\ Head(rest) = Method(todo)
      BY <1>1, <3>2, OnPushed
    <3> QED  BY <3>3 DEF Method
  <2>2. lists' = lists
    BY <1>1, <1>13 DEF Proceed
  <2>3. \/ calls' = rest
        \/ calls' = <<Method(Listen(do.arg, when.args[do.arg]) \o todo)>> \o Tail(calls)
    BY <1>1, <1>13, <2>1 DEF Proceed
  <2> QED  BY <1>1, <1>12, <2>2, <2>3
<1>14. CASE do.op \notin {"add", "fireWith", "remove", "empty", "disable", "lock", "argument"}
  <2>1. CASE when.remaining = 0
    <3>1. PICK m, c, data, n : m = DoneOf("when") /\ c = lists[m] /\ data = when.values /\ n = FiredWith(c, data)
      OBVIOUS
    <3>2. /\ lists' = [lists EXCEPT ![m] = n]
          /\ calls' = IF FiresNow(c) THEN <<Firing(m, data)>> \o rest ELSE rest
      BY <1>1, <1>14, <2>1, <3>1 DEF Proceed, Entering
    <3>3. m \in DOMAIN lists
      BY <1>2, <1>14, <3>1 DEF WorkFine
    <3> QED  BY <1>5, <3>1, <3>2, <3>3
  <2>2. CASE when.remaining # 0
    <3>1. lists' = lists /\ calls' = rest
      BY <1>1, <1>14, <2>2 DEF Proceed
    <3> QED  BY <1>1, <1>12, <3>1
  <2> QED  BY <2>1, <2>2
<1> QED  BY <1>4, <1>6, <1>8, <1>9, <1>10, <1>11, <1>13, <1>14

(* The lists when the innermost call has returned.                           *)
LEMMA AfterReturnIs ==
  ASSUME NEW ls
  PROVE  \/ /\ AfterReturn(ls) = ls
            /\ ~\E l : AtTop(Tail(calls), l)
         \/ \E m : /\ AtTop(Tail(calls), m)
                   /\ AfterReturn(ls) = Advance(m, ls)
BY DEF AfterReturn, AtTop, IsFire

LEMMA AdvanceIs == \A l, ls : Advance(l, ls) = [ls EXCEPT ![l] = Onward(ls[l])]
BY DEF Advance, Onward

(* A method or a handler returns.                                            *)
LEMMA PopTurns ==
  ASSUME NEW F, NEW S, Sound(F, S), TurnsOK(F), calls # <<>>, Head(calls).k \in {"method", "user"},
         calls' = Tail(calls), lists' = AfterReturn(lists)
  PROVE  TurnsOK(F)'
<1>1. calls \in Seq(S)
  BY DEF Sound
<1>2. PICK s \in Seq(S) : s = Tail(calls)
  BY <1>1, OnPopped
<1>3. \A l : ~IsFire(Head(calls), l) /\ ~Top(l)
  BY DEF IsFire, Top
<1>4. \A l : OnStack(l)' <=> OnStack(l)
  <2>1. \A l : OnStack(l) <=> On(s, l)
    BY <1>1, <1>2, <1>3, OnPopped, OnIs
  <2> QED  BY <1>2, <2>1, OnIsThen
<1>5. \A l : Top(l)' <=> AtTop(s, l)
  BY <1>2, OnIsThen
<1>6. CASE lists' = lists /\ ~\E l : AtTop(s, l)
  BY <1>3, <1>4, <1>5, <1>6, IdleTurns
<1>7. ASSUME NEW m, AtTop(s, m), lists' = Advance(m, lists)
      PROVE  TurnsOK(F)'
  <2>1. OnStack(m)
    <3>1. On(s, m)
      BY <1>2, <1>7, OnPopped DEF AtTop
    <3> QED  BY <1>2, <1>4, <3>1, OnIsThen
  <2>2. m \in DOMAIN lists
    BY <2>1 DEF Sound
  <2>3. PICK c, n : c = lists[m] /\ n = Onward(c)
    OBVIOUS
  <2>4. lists' = [lists EXCEPT ![m] = n]
    BY <1>7, <2>3, AdvanceIs
  <2>5. Turned(F, m)
    BY <2>2 DEF TurnsOK
  <2>6. ListFine(F, c) /\ c.firing /\ TurnOK(c, c.index + 1)
    BY <1>3, <2>1, <2>3, <2>5, TurnedFacts
  <2>7. ListFine(F, n) /\ OneOn(c, n) /\ n.firing = c.firing /\ KeepsTurns(c, n)
    BY <2>3, <2>6, AdvancedFine
  <2>8. TurnOK(n, n.index)
    BY <2>6, <2>7 DEF KeepsTurns, OneOn
  <2>9. \A l : Top(l)' <=> l = m
    BY <1>5, <1>7 DEF AtTop, IsFire
  <2>10. lists'[m] = n
    BY <2>2, <2>4
  <2>11. Turned(F, m)'
    BY <2>6, <2>7, <2>8, <2>9, <2>10, TurnedIf
  <2>12. ASSUME NEW l \in DOMAIN lists, l # m
         PROVE  Turned(F, l)'
    <3>1. lists'[l] = lists[l] /\ Turned(F, l)
      BY <2>4, <2>12 DEF TurnsOK
    <3> QED  BY <1>3, <1>4, <2>9, <2>12, <3>1, Untouched
  <2>13. DOMAIN lists' = DOMAIN lists
    BY <2>4
  <2> QED  BY <2>11, <2>12, <2>13 DEF TurnsOK
<1>8. \/ lists' = lists /\ ~\E l : AtTop(s, l)
      \/ \E m : AtTop(s, m) /\ lists' = Advance(m, lists)
  BY <1>2, AfterReturnIs
<1> QED  BY <1>6, <1>7, <1>8

(* A handler returns false.                                                  *)
LEMMA StopTurns ==
  ASSUME NEW F, NEW S, Sound(F, S), TurnsOK(F), In("user"), calls' = Tail(calls),
         NEW m, m = Head(Tail(calls)).list,
         lists' = [lists EXCEPT ![m].memory = NoData, ![m].due = <<>>, ![m].index = lists[m].length]
  PROVE  TurnsOK(F)'
<1>1. calls \in Seq(S) /\ calls # <<>> /\ Head(calls).k = "user"
  BY DEF Sound, In
<1>2. PICK s \in Seq(S) : s = Tail(calls)
  BY <1>1, OnPopped
<1>3. \A l : ~IsFire(Head(calls), l) /\ ~Top(l)
  BY <1>1 DEF IsFire, Top
<1>4. \A l : OnStack(l)' <=> OnStack(l)
  <2>1. \A l : OnStack(l) <=> On(s, l)
    BY <1>1, <1>2, <1>3, OnPopped, OnIs
  <2> QED  BY <1>2, <2>1, OnIsThen
<1>5. \A l : Top(l)' <=> l = m
  <2>1. s # <<>> /\ Head(s).k = "fire" /\ Head(s).list = m
    BY <1>2 DEF Sound
  <2>2. \A l : AtTop(s, l) <=> l = m
    BY <2>1 DEF AtTop, IsFire
  <2> QED  BY <1>2, <2>2, OnIsThen
<1>6. OnStack(m) /\ m \in DOMAIN lists
  <2>1. On(s, m)
    BY <1>2, <1>5, OnPopped, OnIsThen DEF AtTop
  <2>2. OnStack(m)
    BY <1>2, <1>4, <2>1, OnIsThen
  <2> QED  BY <2>2 DEF Sound
<1>7. PICK c, n : c = lists[m] /\ n = [c EXCEPT !.memory = NoData, !.due = <<>>, !.index = c.length]
  OBVIOUS
<1>8. lists' = [lists EXCEPT ![m] = n]
  BY <1>6, <1>7
<1>9. ListFine(F, c) /\ c.firing /\ TurnOK(c, c.index + 1)
  <2>1. Turned(F, m)
    BY <1>6 DEF TurnsOK
  <2> QED  BY <1>3, <1>6, <1>7, <2>1, TurnedFacts
<1>10. ListFine(F, n) /\ TurnOK(n, n.index) /\ n.firing
  BY <1>7, <1>9, StoppedFine
<1>11. lists'[m] = n /\ DOMAIN lists' = DOMAIN lists
  BY <1>6, <1>8
<1>12. Turned(F, m)'
  BY <1>5, <1>10, <1>11, TurnedIf
<1>13. ASSUME NEW l \in DOMAIN lists, l # m
       PROVE  Turned(F, l)'
  <2>1. lists'[l] = lists[l] /\ Turned(F, l)
    BY <1>8, <1>13 DEF TurnsOK
  <2> QED  BY <1>3, <1>4, <1>5, <1>13, <2>1, Untouched
<1> QED  BY <1>11, <1>12, <1>13 DEF TurnsOK

(* What PaidFine says of c and its successor n.                              *)
PaidAs(F, c, n) == ListFine(F, n) /\ n.index = c.index /\ n.firing = c.firing /\ NextTurn(c, n)

LEMMA ChargedIs == \A F, c : ListFine(F, c) => PaidAs(F, c, Charged(c))
<1> SUFFICES ASSUME NEW F, NEW c, ListFine(F, c)
             PROVE  PaidAs(F, c, Charged(c))
  OBVIOUS
<1>1. PICK n : n = Charged(c)
  OBVIOUS
<1>2. PaidAs(F, c, n)
  BY <1>1, PaidFine DEF PaidAs
<1> QED  BY <1>1, <1>2

(* The list whose loop is on top, when a function is called.                 *)
LEMMA PaidTurn ==
  ASSUME NEW F, NEW S, Sound(F, S), TurnsOK(F), Loop, AtCall(lists[Here])
  PROVE  \E c, n : /\ c = lists[Here] /\ Here \in DOMAIN lists /\ Paid = [lists EXCEPT ![Here] = n]
                   /\ ListFine(F, n) /\ n.firing /\ n.index = c.index /\ TurnOK(n, n.index + 1)
<1>1. calls \in Seq(S) /\ calls # <<>> /\ Head(calls).k = "fire"
  BY DEF Sound, In, Loop
<1>2. Top(Here)
  BY <1>1 DEF Top, Here
<1>3. OnStack(Here)
  <2>1. IsFire(Head(calls), Here)
    BY <1>2 DEF Top, IsFire
  <2> QED  BY <1>1, <2>1, OnPopped, OnIs
<1>4. Here \in DOMAIN lists
  BY <1>3 DEF Sound
<1>5. PICK c, n : c = lists[Here] /\ n = Charged(c)
  OBVIOUS
<1>6. Paid = [lists EXCEPT ![Here] = n]
  BY <1>5 DEF Paid, Charged
<1>7. ListFine(F, c) /\ c.firing /\ TurnOK(c, c.index)
  <2>1. Turned(F, Here)
    BY <1>4 DEF TurnsOK
  <2> QED  BY <1>2, <1>3, <1>5, <2>1, TurnedFacts
<1>8. c.index < Len(c.items)
  <2>1. c.index \in Int /\ Len(c.items) \in Nat
    BY <1>7 DEF ListFine, Numbers
  <2> QED  BY <1>5, <2>1 DEF AtCall, AtHole
<1>9. ListFine(F, n) /\ n.index = c.index /\ n.firing = c.firing /\ TurnOK(n, c.index + 1)
  <2>1. PaidAs(F, c, n)
    BY <1>5, <1>7, ChargedIs
  <2> QED  BY <1>7, <1>8, <2>1 DEF NextTurn, PaidAs
<1> QED  BY <1>4, <1>5, <1>6, <1>7, <1>9

(* A function of the list is called, and its call is under way.              *)
LEMMA CallTurns ==
  ASSUME NEW F, NEW S, Sound(F, S), TurnsOK(F), Loop, AtCall(lists[Here]), lists' = Paid,
         NEW f, f.k # "fire", calls' = <<f>> \o calls
  PROVE  TurnsOK(F)'
<1>1. calls \in Seq(S) /\ calls # <<>> /\ Head(calls).k = "fire"
  BY DEF Sound, In, Loop
<1>2. PICK m, c, n : /\ m = Here
                     /\ c = lists[m] /\ m \in DOMAIN lists /\ lists' = [lists EXCEPT ![m] = n]
                     /\ ListFine(F, n) /\ n.firing /\ TurnOK(n, n.index + 1)
  BY PaidTurn
<1>3. \A l : Top(l) <=> l = m
  BY <1>1, <1>2 DEF Top, Here
<1>4. \A l : ~IsFire(f, l)
  BY DEF IsFire
<1>5. \A l : (OnStack(l)' <=> OnStack(l)) /\ ~Top(l)'
  <2>1. \A l : (On(calls', l) <=> On(calls, l)) /\ ~AtTop(calls', l)
    BY <1>1, <1>4, OnPushed
  <2> QED  BY <2>1, OnIs, OnIsThen
<1>6. lists'[m] = n /\ DOMAIN lists' = DOMAIN lists
  BY <1>2
<1>7. Turned(F, m)'
  BY <1>2, <1>5, <1>6, TurnedIf
<1>8. ASSUME NEW l \in DOMAIN lists, l # m
      PROVE  Turned(F, l)'
  <2>1. lists'[l] = lists[l] /\ Turned(F, l)
    BY <1>2, <1>8 DEF TurnsOK
  <2> QED  BY <1>3, <1>5, <1>8, <2>1, Untouched
<1> QED  BY <1>6, <1>7, <1>8 DEF TurnsOK

(* The loop of c is before its next call.                                    *)
LoopsOn(F, n) == ListFine(F, n) /\ n.firing /\ TurnOK(n, n.index)

LEMMA OnwardIs == \A F, c : ListFine(F, c) /\ c.firing /\ TurnOK(c, c.index + 1) => LoopsOn(F, Onward(c))
<1> SUFFICES ASSUME NEW F, NEW c, ListFine(F, c), c.firing, TurnOK(c, c.index + 1)
             PROVE  LoopsOn(F, Onward(c))
  OBVIOUS
<1>1. PICK n : n = Onward(c)
  OBVIOUS
<1>2. ListFine(F, n) /\ OneOn(c, n) /\ n.firing = c.firing /\ KeepsTurns(c, n)
  BY <1>1, AdvancedFine
<1>3. TurnOK(n, n.index)
  BY <1>2 DEF KeepsTurns, OneOn
<1> QED  BY <1>1, <1>2, <1>3 DEF LoopsOn

(* A closure of the library is called and returns.                           *)
LEMMA ReturnedTurn ==
  ASSUME NEW F, NEW S, Sound(F, S), TurnsOK(F), Loop, AtCall(lists[Here])
  PROVE  \E n : /\ Here \in DOMAIN lists /\ Advance(Here, Paid) = [lists EXCEPT ![Here] = n]
                /\ ListFine(F, n) /\ n.firing /\ TurnOK(n, n.index)
<1>1. PICK c, n : /\ c = lists[Here] /\ Here \in DOMAIN lists /\ Paid = [lists EXCEPT ![Here] = n]
                  /\ ListFine(F, n) /\ n.firing /\ n.index = c.index /\ TurnOK(n, n.index + 1)
  BY PaidTurn
<1>2. PICK o : o = Onward(n)
  OBVIOUS
<1>3. Advance(Here, Paid) = [Paid EXCEPT ![Here] = Onward(Paid[Here])]
  BY AdvanceIs
<1>4. PICK ls : ls = Paid
  OBVIOUS
<1>5. ls[Here] = n /\ [ls EXCEPT ![Here] = o] = [lists EXCEPT ![Here] = o]
  BY <1>1, <1>4
<1>6. Advance(Here, Paid) = [lists EXCEPT ![Here] = o]
  BY <1>2, <1>3, <1>4, <1>5
<1>7. ListFine(F, o) /\ o.firing /\ TurnOK(o, o.index)
  BY <1>1, <1>2, OnwardIs DEF LoopsOn
<1> QED  BY <1>1, <1>6, <1>7

(* A call leaves the stack as it was, and keeps the turns of a list.         *)
LEMMA KeptTurn ==
  ASSUME NEW F, NEW l, Turned(F, l), calls' = calls, NEW c, c = lists[l], lists'[l].index = c.index,
         lists'[l].firing = c.firing, ListFine(F, lists'[l]), KeepsTurns(c, lists'[l])
  PROVE  Turned(F, l)'
<1>1. (OnStack(l)' <=> OnStack(l)) /\ (Top(l)' <=> Top(l))
  BY OnIs, OnIsThen
<1>2. OnStack(l) => c.firing
  BY TurnedFacts
<1>3. OnStack(l) /\ Top(l) => TurnOK(lists'[l], lists'[l].index)
  BY <1>2, TurnedFacts DEF KeepsTurns
<1>4. OnStack(l) /\ ~Top(l) => TurnOK(lists'[l], lists'[l].index + 1)
  BY <1>2, TurnedFacts DEF KeepsTurns
<1> QED  BY <1>1, <1>2, <1>3, <1>4, TurnedIf

LEMMA SetStateTurns ==
  ASSUME NEW F, NEW S, Sound(F, S), TurnsOK(F), CallSetState
  PROVE  TurnsOK(F)'
<1>1. Loop /\ AtCall(lists[Here]) /\ lists' = Advance(Here, Paid) /\ calls' = calls
  BY DEF CallSetState, NextIs
<1>2. PICK m, n : /\ m = Here /\ m \in DOMAIN lists /\ lists' = [lists EXCEPT ![m] = n]
                  /\ ListFine(F, n) /\ n.firing /\ TurnOK(n, n.index)
  BY <1>1, ReturnedTurn
<1>3. \A l : Top(l) <=> l = m
  BY <1>1, <1>2 DEF Top, Here, Loop, In
<1>4. \A l : (OnStack(l)' <=> OnStack(l)) /\ (Top(l)' <=> Top(l))
  BY <1>1, OnIs, OnIsThen
<1>5. lists'[m] = n /\ DOMAIN lists' = DOMAIN lists
  BY <1>2
<1>6. Turned(F, m)'
  BY <1>2, <1>3, <1>4, <1>5, TurnedIf
<1>7. ASSUME NEW l \in DOMAIN lists, l # m
      PROVE  Turned(F, l)'
  <2>1. lists'[l] = lists[l] /\ Turned(F, l)
    BY <1>2, <1>7 DEF TurnsOK
  <2> QED  BY <1>4, <2>1, Untouched
<1> QED  BY <1>5, <1>6, <1>7 DEF TurnsOK

LEMMA DisableOrLockTurns ==
  ASSUME NEW F, NEW S, Sound(F, S), TurnsOK(F), CallDisableOrLock
  PROVE  TurnsOK(F)'
<1>1. PICK o, c, d : o = Called.list /\ c = lists[o] /\ d = IF Called.k = "lock" THEN Locked(c) ELSE Disabled(c)
  OBVIOUS
<1>2. /\ Loop /\ AtCall(lists[Here]) /\ Called.k \in {"disable", "lock"} /\ calls' = calls
      /\ lists' = [Advance(Here, Paid) EXCEPT ![o] = d]
  BY <1>1 DEF CallDisableOrLock, NextIs
<1>3. PICK m, n : /\ m = Here /\ m \in DOMAIN lists /\ Advance(Here, Paid) = [lists EXCEPT ![m] = n]
                  /\ ListFine(F, n) /\ n.firing /\ TurnOK(n, n.index)
  BY <1>2, ReturnedTurn
<1>4. o \in DOMAIN lists /\ o # m
  BY <1>1, <1>2, <1>3 DEF Sound
<1>5. /\ lists' = [[lists EXCEPT ![m] = n] EXCEPT ![o] = d]
      /\ DOMAIN lists' = DOMAIN lists /\ lists'[m] = n /\ lists'[o] = d
      /\ \A l \in DOMAIN lists : l # m /\ l # o => lists'[l] = lists[l]
  BY <1>2, <1>3, <1>4
<1>6. \A l : Top(l) <=> l = m
  BY <1>2, <1>3 DEF Top, Here, Loop, In
<1>7. \A l : (OnStack(l)' <=> OnStack(l)) /\ (Top(l)' <=> Top(l))
  BY <1>2, OnIs, OnIsThen
<1>8. Turned(F, m)'
  BY <1>3, <1>5, <1>6, <1>7, TurnedIf
<1>9. Turned(F, o) /\ ListFine(F, c)
  BY <1>1, <1>4 DEF TurnsOK, Turned
<1>10. ListFine(F, d) /\ KeepsTurns(c, d) /\ d.index = c.index /\ d.firing = c.firing
  <2>1. CASE Called.k = "lock"
    BY <1>1, <1>9, <2>1, LockedFine
  <2>2. CASE Called.k # "lock"
    BY <1>1, <1>9, <2>2, DisabledFine
  <2> QED  BY <2>1, <2>2
<1>11. Turned(F, o)'
  BY <1>1, <1>2, <1>5, <1>9, <1>10, KeptTurn
<1>12. ASSUME NEW l \in DOMAIN lists, l # m, l # o
       PROVE  Turned(F, l)'
  <2>1. lists'[l] = lists[l] /\ Turned(F, l)
    BY <1>5, <1>12 DEF TurnsOK
  <2> QED  BY <1>7, <2>1, Untouched
<1> QED  BY <1>5, <1>8, <1>11, <1>12 DEF TurnsOK

(* The loop is over: the list begins its next firing, or is left alone.      *)
LEMMA EndOfLoopTurns ==
  ASSUME NEW F, NEW S, Sound(F, S), TurnsOK(F), EndOfLoop
  PROVE  TurnsOK(F)'
<1>1. PICK m, c, n : m = Here /\ c = lists[m] /\ n = Left(c)
  OBVIOUS
<1>2. /\ calls \in Seq(S) /\ calls # <<>> /\ Head(calls).k = "fire" /\ OneFiring /\ Loop
      /\ Tail(calls) = <<>> \/ Head(Tail(calls)).k # "fire"
  BY DEF Sound, In, Loop, EndOfLoop
<1>3. PICK s \in Seq(S) : s = Tail(calls)
  BY <1>2, OnPopped
<1>4. AtTop(calls, m) /\ \A l : Top(l) <=> l = m
  BY <1>1, <1>2 DEF Top, Here, AtTop, IsFire
<1>5. OnStack(m) /\ m \in DOMAIN lists
  <2>1. On(calls, m)
    BY <1>2, <1>4, OnPopped DEF AtTop
  <2>2. OnStack(m)
    BY <2>1, OnIs
  <2> QED  BY <2>2 DEF Sound
<1>6. ~On(s, m) /\ \A l : ~AtTop(s, l)
  BY <1>2, <1>3, <1>4, OnlyOnTop DEF AtTop, IsFire
<1>7. \A l : l # m => (On(s, l) <=> OnStack(l))
  BY <1>2, <1>3, <1>4, OnPopped, OnIs DEF AtTop, IsFire
<1>8. lists' = [lists EXCEPT ![m] = n]
  <2>1. \A ls : AfterReturn(ls) = ls
    BY <1>2 DEF AfterReturn
  <2> QED  BY <1>1, <2>1 DEF EndOfLoop
<1>9. lists'[m] = n /\ DOMAIN lists' = DOMAIN lists
  BY <1>5, <1>8
<1>10. ListFine(F, n) /\ (Refires(c) => Begins(n))
  <2>1. ListFine(F, c)
    BY <1>1, <1>5 DEF TurnsOK, Turned
  <2> QED  BY <1>1, <2>1, LeftFine
<1>11. ASSUME NEW l \in DOMAIN lists, l # m, OnStack(l)' => OnStack(l), ~Top(l)'
       PROVE  Turned(F, l)'
  <2>1. lists'[l] = lists[l] /\ Turned(F, l)
    BY <1>8, <1>11 DEF TurnsOK
  <2> QED  BY <1>4, <1>11, <2>1, Untouched
<1>12. CASE Refires(c)
  <2>1. PICK f : f = Firing(m, Head(c.queue))
    OBVIOUS
  <2>2. calls' = <<f>> \o s
    BY <1>1, <1>3, <1>12, <2>1 DEF EndOfLoop
  <2>3. \A l : IsFire(f, l) <=> l = m
    BY <2>1 DEF IsFire, Firing
  <2>4. \A l : (On(calls', l) <=> IsFire(f, l) \/ On(s, l)) /\ (AtTop(calls', l) <=> IsFire(f, l))
    BY <2>2, OnPushed
  <2>5. \A l : (OnStack(l)' <=> l = m \/ On(s, l)) /\ (Top(l)' <=> l = m)
    BY <2>3, <2>4, OnIsThen
  <2>6. Turned(F, m)'
    BY <1>9, <1>10, <1>12, <2>5, TurnedIf DEF Begins
  <2> QED  BY <1>7, <1>9, <1>11, <2>5, <2>6 DEF TurnsOK
<1>13. CASE ~Refires(c)
  <2>1. calls' = s
    BY <1>1, <1>3, <1>13 DEF EndOfLoop
  <2>2. \A l : (OnStack(l)' <=> On(s, l)) /\ ~Top(l)'
    BY <1>6, <2>1, OnIsThen
  <2>3. Turned(F, m)'
    BY <1>6, <1>9, <1>10, <2>2, TurnedIf
  <2> QED  BY <1>7, <1>9, <1>11, <2>2, <2>3 DEF TurnsOK
<1> QED  BY <1>12, <1>13

(* An exception ends every call.                                             *)
LEMMA ThrownTurns ==
  ASSUME NEW F, NEW S, Sound(F, S), TurnsOK(F), calls' = <<>>, lists' = lists
  PROVE  TurnsOK(F)'
<1>1. \A l : ~OnStack(l)'
  BY OnIsThen DEF On
<1> QED  BY <1>1, IdleTurns

(* The page calls a method.                                                  *)
LEMMA PageTurns ==
  ASSUME NEW F, NEW S, Sound(F, S), TurnsOK(F), NEW todo, Call(todo)
  PROVE  TurnsOK(F)'
<1>1. calls \in Seq(S) /\ lists' = lists /\ (calls = <<>> \/ Head(calls).k = "user")
  BY DEF Sound, Call, Idle, In
<1>2. PICK f : f = Method(todo)
  OBVIOUS
<1>3. calls' = <<f>> \o calls /\ \A l : ~IsFire(f, l)
  BY <1>2 DEF Call, Method, IsFire
<1>4. \A l : (On(calls', l) <=> On(calls, l)) /\ ~AtTop(calls', l)
  BY <1>1, <1>3, OnPushed
<1>5. \A l : ~Top(l)
  BY <1>1 DEF Top
<1>6. \A l : OnStack(l)' => OnStack(l) /\ (Top(l)' <=> Top(l))
  BY <1>4, <1>5, OnIs, OnIsThen
<1> QED  BY <1>1, <1>6, IdleTurns

(* Every step keeps the turns.                                               *)
LEMMA TurnsStep ==
  ASSUME NEW F, NEW S, Sound(F, S), TurnsOK(F), [Next]_vars
  PROVE  TurnsOK(F)'
<1>1. CASE UNCHANGED vars
  <2>1. lists' = lists /\ calls' = calls
    BY <1>1 DEF vars
  <2>2. \A l : (OnStack(l)' <=> OnStack(l)) /\ (Top(l)' <=> Top(l))
    BY <2>1, OnIs, OnIsThen
  <2> QED  BY <2>1, <2>2, IdleTurns
<1>2. CASE Proceed
  BY <1>2, ProceedTurns
<1>3. CASE Finish
  <2>1. calls # <<>> /\ Head(calls).k = "method" /\ calls' = Tail(calls) /\ lists' = AfterReturn(lists)
    BY <1>3 DEF Finish, In
  <2> QED  BY <2>1, PopTurns
<1>4. CASE CallHandler \/ CallFires \/ CallUpdate \/ CallForward
  <2>1. Loop /\ AtCall(lists[Here]) /\ lists' = Paid /\ \E f : f.k # "fire" /\ calls' = <<f>> \o calls
    <3>1. CASE CallHandler
      BY <3>1 DEF CallHandler, NextIs, Running
    <3>2. CASE CallFires
      BY <3>2 DEF CallFires, NextIs, Method
    <3>3. CASE CallUpdate
      BY <3>3 DEF CallUpdate, NextIs, Method
    <3>4. CASE CallForward
      BY <3>4 DEF CallForward, NextIs, Method
    <3> QED  BY <1>4, <3>1, <3>2, <3>3, <3>4
  <2> QED  BY <2>1, CallTurns
<1>5. CASE CallSetState
  BY <1>5, SetStateTurns
<1>6. CASE CallDisableOrLock
  BY <1>6, DisableOrLockTurns
<1>7. CASE EndOfLoop
  BY <1>7, EndOfLoopTurns
<1>8. CASE Crash \/ Throw
  BY <1>8, ThrownTurns DEF Crash, Throw
<1>9. CASE Return
  <2>1. PICK m : m = Head(Tail(calls)).list
    OBVIOUS
  <2>2. /\ In("user") /\ calls # <<>> /\ Head(calls).k = "user" /\ calls' = Tail(calls)
        /\ \/ lists' = AfterReturn(lists)
           \/ lists' = [lists EXCEPT ![m].memory = NoData, ![m].due = <<>>, ![m].index = lists[m].length]
    BY <1>9, <2>1 DEF Return, In
  <2>3. CASE lists' = AfterReturn(lists)
    BY <2>2, <2>3, PopTurns
  <2>4. CASE lists' = [lists EXCEPT ![m].memory = NoData, ![m].due = <<>>, ![m].index = lists[m].length]
    BY <2>1, <2>2, <2>4, StopTurns
  <2> QED  BY <2>2, <2>3, <2>4
<1>10. CASE UseList \/ Fire \/ Register \/ When \/ Then
  <2>1. \E todo : Call(todo)
    BY <1>10 DEF UseList, Fire, Register, When, Then
  <2> QED  BY <2>1, PageTurns
<1> QED  BY <1>1, <1>2, <1>3, <1>4, <1>5, <1>6, <1>7, <1>8, <1>9, <1>10 DEF Next

-----------------------------------------------------------------------------
(* The lists of deferreds.                                                   *)

DeferredFunctions == Functions \cup Closures

(* A list as it is made.                                                     *)
LEMMA NewFine ==
  ASSUME NEW F, NEW flags, NEW s \in Seq(F), NEW n, n = [NewList(flags) EXCEPT !.items = s]
  PROVE  ListFine(F, n) /\ ~n.firing
<1>1. PICK b \in BOOLEAN : b = ("once" \notin flags)
  OBVIOUS
<1>2. n = [flags |-> flags, items |-> s, gone |-> FALSE, again |-> b, queue |-> <<>>,
           memory |-> NoData, fired |-> FALSE, firing |-> FALSE,
           start |-> 0, length |-> 0, index |-> 0, due |-> <<>>, wiped |-> FALSE]
  BY <1>1 DEF NewList
<1>3. /\ DOMAIN n = Fields /\ n.items = s /\ n.gone = FALSE /\ n.again = b /\ n.fired = FALSE
      /\ n.firing = FALSE /\ n.wiped = FALSE /\ n.start = 0 /\ n.length = 0 /\ n.index = 0
  BY <1>2 DEF Fields
<1>4. /\ n.gone \in BOOLEAN /\ n.again \in BOOLEAN /\ n.fired \in BOOLEAN /\ n.firing \in BOOLEAN
      /\ n.wiped \in BOOLEAN
  BY <1>3
<1>5. DOMAIN n = Fields /\ n.items \in Seq(F) /\ n.length \in Nat /\ n.index \in Nat \cup {-1}
  BY <1>3
<1>6. Numbers(F, n)
  BY <1>4, <1>5, NumbersIf
<1> QED  BY <1>3, <1>6 DEF ListFine, LongEnough

(* The calls of deferreds are what their lists expect.                       *)
LEMMA DeferredSound ==
  ASSUME Inv
  PROVE  Sound(DeferredFunctions, Frames)
<1>1. /\ StackOK /\ calls \in Seq(Frames) /\ OneFiring /\ DOMAIN lists = Lists
      /\ \A p \in DOMAIN calls : calls[p] \in Frames
  BY InvFacts DEF StackOK
<1>2. ASSUME NEW l, OnStack(l)
      PROVE  l \in DOMAIN lists
  <2>1. PICK p \in DOMAIN calls : calls[p].k = "fire" /\ calls[p].list = l
    BY <1>2 DEF OnStack
  <2>2. calls[p].list \in Lists
    BY <1>1, <2>1 DEF Frames
  <2> QED  BY <1>1, <2>1, <2>2
<1>3. ASSUME In("user")
      PROVE  Tail(calls) # <<>> /\ Head(Tail(calls)).k = "fire"
  <2>1. calls # <<>> /\ Head(calls).k = "user"
    BY <1>3 DEF In
  <2>2. /\ NestedAt(1) /\ calls[1] = Head(calls) /\ Len(calls) \in Nat \ {0} /\ DOMAIN calls = 1..Len(calls)
    BY <1>1, <2>1, TopFacts
  <2>3. 2 \in DOMAIN calls /\ calls[2].k = "fire"
    <3>1. 1 + 1 = 2
      OBVIOUS
    <3> QED  BY <2>1, <2>2, <3>1 DEF NestedAt
  <2>4. /\ Tail(calls) \in Seq(Frames) /\ DOMAIN Tail(calls) = 1..(Len(calls) - 1)
        /\ \A p \in 1..(Len(calls) - 1) : Tail(calls)[p] = calls[p + 1]
    BY <1>1, <2>1, Popped
  <2>5. 1 \in 1..(Len(calls) - 1) /\ 1 + 1 = 2
    BY <2>2, <2>3
  <2>6. 1 \in DOMAIN Tail(calls) /\ Tail(calls)[1] = calls[2]
    BY <2>4, <2>5
  <2>7. Tail(calls) # <<>>
    <3> SUFFICES ASSUME Tail(calls) = <<>>
                 PROVE  FALSE
      OBVIOUS
    <3>1. DOMAIN Tail(calls) = {}
      OBVIOUS
    <3> QED  BY <2>6, <3>1
  <2>8. Head(Tail(calls)) = Tail(calls)[1]
    BY <2>4, <2>7
  <2> QED  BY <2>3, <2>6, <2>7, <2>8
<1>4. Loop => Head(Tail(calls)).k # "fire"
  BY LoopFacts
<1>5. ASSUME In("method"), Head(calls).todo # <<>>
      PROVE  WorkFine(DeferredFunctions, Head(Head(calls).todo))
  <2>1. PICK w : w = Head(Head(calls).todo)
    OBVIOUS
  <2>2. w \in Works
    BY <1>5, <2>1, MethodFacts
  <2>3. DoneOf("when") \in Lists
    BY ListNames DEF Made
  <2>4. WorkFine(DeferredFunctions, w)
    BY <1>1, <2>2, <2>3 DEF Works, WorkFine, DeferredFunctions
  <2> QED  BY <2>1, <2>4
<1>6. ASSUME Loop, AtCall(lists[Here]), Called.k \in {"disable", "lock"}
      PROVE  Called.list \in DOMAIN lists /\ Called.list # Here
  <2>1. Here \in Outs
    BY <1>6, CalledKinds
  <2>2. PICK l \in Outs : l = Here
    BY <2>1
  <2>3. Called = Disable(Other(l)) \/ Called = Lock(ProgressOf(l[1]))
    BY <1>6, <2>2, CalledKinds
  <2>4. Called.list = Other(l) \/ Called.list = ProgressOf(l[1])
    BY <2>3 DEF Disable, Lock
  <2>5. l[1] \in Made /\ Other(l) \in Lists /\ Other(l) # l
    BY ListNames
  <2>6. ProgressOf(l[1]) \in Lists /\ ProgressOf(l[1]) # l
    BY <2>5, ListNames
  <2> QED  BY <1>1, <2>2, <2>4, <2>5, <2>6
<1> QED  BY <1>1, <1>2, <1>3, <1>4, <1>5, <1>6 DEF Sound

(* A list of deferreds as it is made.                                        *)
LEMMA DeferredTurnsInit ==
  ASSUME Init, Deferreds
  PROVE  TurnsOK(DeferredFunctions)
<1>1. lists = DeferredLists /\ DOMAIN lists = Lists /\ \A l \in Lists : ListOK(lists[l], l)
  BY InitLists
<1>2. \A l : ~OnStack(l)
  BY DEF Init, OnStack
<1>3. ASSUME NEW l \in Lists
      PROVE  ListFine(DeferredFunctions, lists[l])
  <2>1. PICK s \in Seq(DeferredFunctions) : s = lists[l].items
    BY <1>1 DEF ListOK, DeferredFunctions
  <2>2. \E flags : lists[l] = NewList(flags) \/ \E x : lists[l] = [NewList(flags) EXCEPT !.items = x]
    BY <1>1 DEF DeferredLists, Lists
  <2>3. \E flags : lists[l] = [NewList(flags) EXCEPT !.items = s]
    BY <2>1, <2>2 DEF NewList
  <2> QED  BY <2>3, NewFine
<1> QED  BY <1>1, <1>2, <1>3 DEF TurnsOK, Turned

-----------------------------------------------------------------------------
(* One list of the page.                                                     *)

Users == {User(h) : h \in Handlers}

(* What a method of the page still has to do with the list.                  *)
PlainWork(w) ==
  /\ w.op \in {"add", "remove", "fireWith", "empty", "disable", "lock"} /\ w.list = Plain
  /\ w.op = "add" => w.fn \in Users

(* s is a sequence.                                                          *)
IsSeq(s) == s \in Seq(ToSet(s))

(* The calls under way: at most a method that a handler has called, the      *)
(* handler, the firing that has called it and the method that has begun it.  *)
AMethod(s) ==
  /\ s # <<>> /\ Head(s).k = "method" /\ IsSeq(Head(s).todo)
  /\ \A j \in DOMAIN Head(s).todo : PlainWork(Head(s).todo[j])
InMethod(s) == AMethod(s) /\ Tail(s) = <<>>
InFiring(s) == s # <<>> /\ Head(s).k = "fire" /\ Head(s).list = Plain /\ InMethod(Tail(s))
InHandler(s) == s # <<>> /\ Head(s).k = "user" /\ Head(s).name \in Handlers /\ InFiring(Tail(s))
InHandlersMethod(s) == AMethod(s) /\ InHandler(Tail(s))
PlainStack(s) ==
  IsSeq(s) /\ (s = <<>> \/ InMethod(s) \/ InFiring(s) \/ InHandler(s) \/ InHandlersMethod(s))

(* What a list has passed, passes and remembers.                             *)
FiringsOf(s) == {s[p].data : p \in {q \in DOMAIN s : s[q].k = "fire"}}
Passed ==
  (UNION {ToSet(seen[h]) : h \in Handlers}) \cup FiringsOf(calls) \cup ({lists[Plain].memory} \ {NoData})

(* A list with the flag once is fired once: its stack is not an array.       *)
OnceFine(c) ==
  "once" \in c.flags => ~c.again /\ (c.firing => c.fired) /\ (~c.fired => c.memory = NoData)
(* All it has passed is one data, and nothing before it is fired.            *)
OnceData ==
  "once" \in lists[Plain].flags =>
    (\A x, y \in Passed : x = y) /\ (~lists[Plain].fired => Passed = {})

(* What always holds of the list of the page.                                *)
PlainInv ==
  /\ DOMAIN lists = {Plain} /\ PlainStack(calls) /\ TurnsOK(Users)
  /\ OnceFine(lists[Plain]) /\ OnceData
  /\ DOMAIN seen = Handlers /\ \A h \in Handlers : IsSeq(seen[h])

(* What is counted, and what the page knows.                                 *)
CountsOK ==
  /\ state \in [Made -> {"pending", "resolved", "rejected"}]
  /\ piped.on \in Made \cup {"nothing"}
  /\ used \in 0..MaxCalls
  /\ throws \in 0..MaxThrows

LEMMA SeqIs == \A T : \A s \in Seq(T) : IsSeq(s)
<1> SUFFICES ASSUME NEW T, NEW s \in Seq(T)
             PROVE  s \in Seq(ToSet(s))
  BY DEF IsSeq
<1>1. \A i \in DOMAIN s : s[i] \in ToSet(s)
  BY DEF ToSet
<1>2. Len(s) \in Nat /\ DOMAIN s = 1..Len(s) /\ s = [i \in 1..Len(s) |-> s[i]]
  OBVIOUS
<1> QED  BY <1>1, <1>2, IsASeq

(* One more call, and one less.                                              *)
LEMMA PlainPushed ==
  ASSUME NEW s, IsSeq(s), NEW f, NEW t, t = <<f>> \o s
  PROVE  /\ IsSeq(t) /\ t # <<>> /\ Head(t) = f /\ Tail(t) = s
         /\ FiringsOf(t) \subseteq FiringsOf(s) \cup {f.data}
         /\ f.k # "fire" => FiringsOf(t) \subseteq FiringsOf(s)
         /\ \A l : (On(t, l) <=> IsFire(f, l) \/ On(s, l)) /\ (AtTop(t, l) <=> IsFire(f, l))
<1>1. PICK S : s \in Seq(S)
  BY DEF IsSeq
<1>2. /\ t # <<>> /\ Head(t) = f /\ Tail(t) = s /\ t \in Seq(S \cup {f})
      /\ \A l : (On(t, l) <=> IsFire(f, l) \/ On(s, l)) /\ (AtTop(t, l) <=> IsFire(f, l))
  BY <1>1, OnPushed
<1>3. IsSeq(t)
  BY <1>2, SeqIs
<1>4. /\ t[1] = f /\ DOMAIN t = 1..Len(t) /\ Len(t) \in Nat /\ DOMAIN s = 1..(Len(t) - 1)
      /\ \A p \in 1..(Len(t) - 1) : s[p] = t[p + 1]
  BY <1>2, Popped
<1>5. ASSUME NEW p \in DOMAIN t, t[p].k = "fire"
      PROVE  (p = 1 /\ f.k = "fire" /\ t[p].data = f.data) \/ t[p].data \in FiringsOf(s)
  <2>1. CASE p = 1
    BY <1>4, <1>5, <2>1
  <2>2. CASE p # 1
    <3>1. PICK q \in DOMAIN s : p = q + 1
      <4>1. p - 1 \in DOMAIN s /\ p = (p - 1) + 1
        BY <1>4, <2>2
      <4> QED  BY <4>1
    <3>2. s[q] = t[p]
      BY <1>4, <3>1
    <3> QED  BY <1>5, <3>2 DEF FiringsOf
  <2> QED  BY <2>1, <2>2
<1>6. FiringsOf(t) \subseteq FiringsOf(s) \cup {f.data} /\ (f.k # "fire" => FiringsOf(t) \subseteq FiringsOf(s))
  BY <1>5 DEF FiringsOf
<1> QED  BY <1>2, <1>3, <1>6

LEMMA PlainPopped ==
  ASSUME NEW s, IsSeq(s), s # <<>>
  PROVE  /\ IsSeq(Tail(s)) /\ FiringsOf(Tail(s)) \subseteq FiringsOf(s)
         /\ Head(s).k = "fire" => Head(s).data \in FiringsOf(s)
         /\ \A l : On(s, l) <=> IsFire(Head(s), l) \/ On(Tail(s), l)
<1>1. PICK S : s \in Seq(S)
  BY DEF IsSeq
<1>2. /\ Tail(s) \in Seq(S) /\ \A l : On(s, l) <=> IsFire(Head(s), l) \/ On(Tail(s), l)
  BY <1>1, OnPopped
<1>3. IsSeq(Tail(s))
  BY <1>2, SeqIs
<1>4. /\ Head(s) = s[1] /\ 1 \in DOMAIN s /\ DOMAIN s = 1..Len(s) /\ Len(s) \in Nat
      /\ DOMAIN Tail(s) = 1..(Len(s) - 1) /\ \A p \in 1..(Len(s) - 1) : Tail(s)[p] = s[p + 1]
  BY <1>1, Popped
<1>5. PICK t : t = Tail(s)
  OBVIOUS
<1>6. ASSUME NEW p \in DOMAIN t, t[p].k = "fire"
      PROVE  t[p].data \in FiringsOf(s)
  <2>1. PICK q \in DOMAIN s : q = p + 1
    BY <1>4, <1>5
  <2>2. s[q] = t[p]
    BY <1>4, <1>5, <2>1
  <2> QED  BY <1>6, <2>2 DEF FiringsOf
<1>7. FiringsOf(t) \subseteq FiringsOf(s)
  BY <1>6 DEF FiringsOf
<1>8. Head(s).k = "fire" => Head(s).data \in FiringsOf(s)
  BY <1>4 DEF FiringsOf
<1> QED  BY <1>2, <1>3, <1>5, <1>7, <1>8

(* There is one firing at most.                                              *)
OneFire(s) == \A p, q \in DOMAIN s : s[p].k = "fire" /\ s[q].k = "fire" => p = q

LEMMA OneFireBelow ==
  ASSUME NEW s, IsSeq(s), s # <<>>,
         \/ Head(s).k # "fire" /\ OneFire(Tail(s))
         \/ \A l : ~On(Tail(s), l)
  PROVE  OneFire(s)
<1>1. PICK S : s \in Seq(S)
  BY DEF IsSeq
<1>2. PICK t : t = Tail(s)
  OBVIOUS
<1>3. /\ Head(s) = s[1] /\ 1 \in DOMAIN s /\ DOMAIN s = 1..Len(s) /\ Len(s) \in Nat
      /\ DOMAIN t = 1..(Len(s) - 1) /\ \A p \in 1..(Len(s) - 1) : t[p] = s[p + 1]
  BY <1>1, <1>2, Popped
<1>4. ASSUME NEW p \in DOMAIN s, p # 1
      PROVE  \E q \in DOMAIN t : p = q + 1 /\ t[q] = s[p]
  <2>1. p - 1 \in DOMAIN t /\ p = (p - 1) + 1
    BY <1>3, <1>4
  <2> QED  BY <1>3, <2>1
<1>5. CASE Head(s).k # "fire" /\ OneFire(t)
  BY <1>3, <1>4, <1>5 DEF OneFire
<1>6. CASE \A l : ~On(t, l)
  <2>1. \A q \in DOMAIN t : t[q].k # "fire"
    BY <1>6 DEF On, IsFire
  <2> QED  BY <1>4, <2>1 DEF OneFire
<1> QED  BY <1>2, <1>5, <1>6

(* What stands where in the calls under way.                                 *)
LEMMA InMethodFacts ==
  ASSUME NEW s, IsSeq(s), InMethod(s)
  PROVE  s # <<>> /\ Head(s).k = "method" /\ (\A l : ~On(s, l)) /\ OneFire(s)
<1>1. s # <<>> /\ Head(s).k = "method" /\ Tail(s) = <<>>
  BY DEF InMethod, AMethod
<1>2. \A l : ~On(Tail(s), l)
  BY <1>1 DEF On
<1>3. \A l : ~On(s, l)
  BY <1>1, <1>2, PlainPopped DEF IsFire
<1>4. OneFire(s)
  BY <1>1, <1>2, OneFireBelow
<1> QED  BY <1>1, <1>3, <1>4

LEMMA InFiringFacts ==
  ASSUME NEW s, IsSeq(s), InFiring(s)
  PROVE  /\ s # <<>> /\ Head(s).k = "fire" /\ Head(s).list = Plain
         /\ InMethod(Tail(s)) /\ Tail(s) # <<>> /\ Head(Tail(s)).k = "method"
         /\ \A l : On(s, l) <=> l = Plain
         /\ OneFire(s)
<1>1. s # <<>> /\ Head(s).k = "fire" /\ Head(s).list = Plain /\ InMethod(Tail(s)) /\ IsSeq(Tail(s))
  BY PlainPopped DEF InFiring
<1>2. Tail(s) # <<>> /\ Head(Tail(s)).k = "method" /\ \A l : ~On(Tail(s), l)
  BY <1>1, InMethodFacts
<1>3. \A l : On(s, l) <=> l = Plain
  BY <1>1, <1>2, PlainPopped DEF IsFire
<1>4. OneFire(s)
  BY <1>1, <1>2, OneFireBelow
<1> QED  BY <1>1, <1>2, <1>3, <1>4

LEMMA InHandlerFacts ==
  ASSUME NEW s, IsSeq(s), InHandler(s)
  PROVE  /\ s # <<>> /\ Head(s).k = "user" /\ Head(s).name \in Handlers
         /\ InFiring(Tail(s)) /\ Tail(s) # <<>> /\ Head(Tail(s)).k = "fire" /\ Head(Tail(s)).list = Plain
         /\ \A l : On(s, l) <=> l = Plain
         /\ OneFire(s)
<1>1. s # <<>> /\ Head(s).k = "user" /\ Head(s).name \in Handlers /\ InFiring(Tail(s)) /\ IsSeq(Tail(s))
  BY PlainPopped DEF InHandler
<1>2. /\ Tail(s) # <<>> /\ Head(Tail(s)).k = "fire" /\ Head(Tail(s)).list = Plain
      /\ OneFire(Tail(s)) /\ \A l : On(Tail(s), l) <=> l = Plain
  BY <1>1, InFiringFacts
<1>3. \A l : On(s, l) <=> l = Plain
  BY <1>1, <1>2, PlainPopped DEF IsFire
<1>4. OneFire(s)
  BY <1>1, <1>2, OneFireBelow
<1> QED  BY <1>1, <1>2, <1>3, <1>4

LEMMA InHandlersMethodFacts ==
  ASSUME NEW s, IsSeq(s), InHandlersMethod(s)
  PROVE  /\ s # <<>> /\ Head(s).k = "method" /\ AMethod(s) /\ InHandler(Tail(s)) /\ Tail(s) # <<>>
         /\ Head(Tail(s)).k = "user"
         /\ \A l : On(s, l) <=> l = Plain
         /\ OneFire(s)
<1>1. s # <<>> /\ Head(s).k = "method" /\ AMethod(s) /\ InHandler(Tail(s)) /\ IsSeq(Tail(s))
  BY PlainPopped DEF InHandlersMethod, AMethod
<1>2. /\ Tail(s) # <<>> /\ Head(Tail(s)).k = "user" /\ OneFire(Tail(s))
      /\ \A l : On(Tail(s), l) <=> l = Plain
  BY <1>1, InHandlerFacts
<1>3. \A l : On(s, l) <=> l = Plain
  BY <1>1, <1>2, PlainPopped DEF IsFire
<1>4. OneFire(s)
  BY <1>1, <1>2, OneFireBelow
<1> QED  BY <1>1, <1>2, <1>3, <1>4

(* The kind of the innermost call tells the others.                          *)
LEMMA PlainKinds ==
  ASSUME NEW s, PlainStack(s)
  PROVE  /\ IsSeq(s) /\ OneFire(s) /\ \A l : On(s, l) => l = Plain
         /\ s # <<>> /\ Head(s).k = "method" => AMethod(s) /\ (Tail(s) = <<>> \/ InHandler(Tail(s)))
         /\ s # <<>> /\ Head(s).k = "fire" => InFiring(s)
         /\ s # <<>> /\ Head(s).k = "user" => InHandler(s)
         /\ s # <<>> => PlainStack(Tail(s))
<1>1. IsSeq(s)
  BY DEF PlainStack
<1>2. CASE s = <<>>
  BY <1>1, <1>2 DEF OneFire, On
<1>3. CASE InMethod(s)
  <2>1. PlainStack(Tail(s)) /\ AMethod(s) /\ Tail(s) = <<>>
    BY <1>1, <1>3, InMethodFacts, PlainPopped DEF PlainStack, InMethod
  <2> QED  BY <1>1, <1>3, <2>1, InMethodFacts
<1>4. CASE InFiring(s)
  <2>1. PlainStack(Tail(s))
    BY <1>1, <1>4, InFiringFacts, PlainPopped DEF PlainStack
  <2> QED  BY <1>1, <1>4, <2>1, InFiringFacts
<1>5. CASE InHandler(s)
  <2>1. PlainStack(Tail(s))
    BY <1>1, <1>5, InHandlerFacts, PlainPopped DEF PlainStack
  <2> QED  BY <1>1, <1>5, <2>1, InHandlerFacts
<1>6. CASE InHandlersMethod(s)
  <2>1. PlainStack(Tail(s))
    BY <1>1, <1>6, InHandlersMethodFacts, PlainPopped DEF PlainStack
  <2> QED  BY <1>1, <1>6, <2>1, InHandlersMethodFacts
<1> QED  BY <1>2, <1>3, <1>4, <1>5, <1>6 DEF PlainStack

(* The loop calls a handler.                                                 *)
LEMMA CalledUser ==
  ASSUME PlainInv, Loop
  PROVE  /\ Here = Plain /\ Top(Plain) /\ OnStack(Plain) /\ InFiring(calls)
         /\ Tail(calls) # <<>> /\ Head(Tail(calls)).k # "fire"
         /\ AtCall(lists[Here]) => Called \in Users
<1>1. calls # <<>> /\ Head(calls).k = "fire" /\ IsSeq(calls) /\ InFiring(calls)
  BY PlainKinds DEF PlainInv, Loop, In
<1>2. /\ Here = Plain /\ Tail(calls) # <<>> /\ Head(Tail(calls)).k # "fire" /\ Top(Plain) /\ OnStack(Plain)
  <2>1. Head(calls).list = Plain /\ Tail(calls) # <<>> /\ Head(Tail(calls)).k = "method" /\ On(calls, Plain)
    BY <1>1, InFiringFacts
  <2> QED  BY <1>1, <2>1, OnIs DEF Here, Top
<1>3. ASSUME AtCall(lists[Here])
      PROVE  Called \in Users
  <2>1. PICK c : c = lists[Plain]
    OBVIOUS
  <2>2. Turned(Users, Plain)
    BY DEF PlainInv, TurnsOK
  <2>3. ListFine(Users, c) /\ TurnOK(c, c.index)
    BY <1>2, <2>1, <2>2, TurnedFacts
  <2>4. c.index \in Nat /\ c.items \in Seq(Users) /\ Len(c.items) \in Nat
    BY <2>3 DEF TurnOK, ListFine, Numbers
  <2>5. c.index + 1 \in 1..Len(c.items)
    BY <1>2, <1>3, <2>1, <2>4 DEF AtCall, AtHole
  <2>6. PICK i \in 1..Len(c.items) : i = c.index + 1
    BY <2>5
  <2>7. c.items[i] \in Users
    BY <2>4
  <2> QED  BY <1>2, <2>1, <2>6, <2>7 DEF Called, Current
<1> QED  BY <1>1, <1>2, <1>3

(* The calls on the list are what it expects.                                *)
LEMMA PlainSound ==
  ASSUME PlainInv
  PROVE  Sound(Users, ToSet(calls))
<1>1. PlainStack(calls) /\ IsSeq(calls) /\ DOMAIN lists = {Plain} /\ calls \in Seq(ToSet(calls))
  BY DEF PlainInv, PlainStack, IsSeq
<1>2. \A l : OnStack(l) => l \in DOMAIN lists
  BY <1>1, PlainKinds, OnIs
<1>3. OneFiring
  BY <1>1, PlainKinds DEF OneFiring, OneFire
<1>4. In("user") => Tail(calls) # <<>> /\ Head(Tail(calls)).k = "fire"
  BY <1>1, PlainKinds, InHandlerFacts DEF In
<1>5. Loop => Head(Tail(calls)).k # "fire"
  BY CalledUser
<1>6. ASSUME In("method"), Head(calls).todo # <<>>
      PROVE  WorkFine(Users, Head(Head(calls).todo))
  <2>1. AMethod(calls)
    BY <1>1, <1>6, PlainKinds DEF In
  <2>2. PICK q : q = Head(calls).todo
    OBVIOUS
  <2>3. IsSeq(q) /\ q # <<>> /\ \A j \in DOMAIN q : PlainWork(q[j])
    BY <1>6, <2>1, <2>2 DEF AMethod
  <2>4. PlainWork(Head(q))
    <3>1. 1 \in DOMAIN q /\ Head(q) = q[1]
      BY <2>3, Popped DEF IsSeq
    <3> QED  BY <2>3, <3>1
  <2> QED  BY <1>1, <2>2, <2>4 DEF PlainWork, WorkFine
<1>7. Loop /\ AtCall(lists[Here]) => Called.k = "user"
  BY CalledUser DEF Users, User
<1> QED  BY <1>1, <1>2, <1>3, <1>4, <1>5, <1>6, <1>7 DEF Sound

(* What a list with the flag once keeps from call to call.                   *)
OnceKept(c, n) ==
  /\ n.flags = c.flags /\ (n.memory = c.memory \/ n.memory = NoData) /\ (c.fired => n.fired)
  /\ OnceFine(n)

LEMMA OnceKeptIf ==
  ASSUME NEW c, NEW n, OnceFine(c), n.flags = c.flags, n.memory = c.memory \/ n.memory = NoData,
         n.fired = c.fired, n.firing = c.firing \/ n.firing = FALSE, n.again = c.again \/ n.again = FALSE
  PROVE  OnceKept(c, n)
<1>1. n.fired <=> c.fired
  BY Zenon
<1>2. (n.firing => c.firing) /\ (n.again => c.again)
  BY Zenon
<1> QED  BY <1>1, <1>2 DEF OnceFine, OnceKept

(* Entering a firing.                                                        *)
LEMMA EnteredOnce ==
  ASSUME NEW c, DOMAIN c = Fields, NEW data, NEW n, n = Entered(c, data)
  PROVE  /\ n.flags = c.flags /\ (n.memory = data \/ n.memory = NoData) /\ n.fired
         /\ n.again = c.again /\ DOMAIN n = Fields
         /\ ("once" \in c.flags => ~c.again) => OnceFine(n)
<1>1. PICK m, s : /\ m = (IF "memory" \in c.flags THEN data ELSE NoData)
                  /\ s = SubSeq(c.items, c.start + 1, Len(c.items))
  OBVIOUS
<1>2. n = [c EXCEPT !.memory = m, !.fired = TRUE, !.index = c.start, !.start = 0,
                    !.length = Len(c.items), !.firing = TRUE, !.due = s]
  BY <1>1 DEF Entered
<1>3. /\ DOMAIN n = Fields /\ n.flags = c.flags /\ n.memory = m /\ n.fired = TRUE /\ n.firing = TRUE
      /\ n.again = c.again
  BY <1>2 DEF Fields
<1>4. ASSUME "once" \in c.flags => ~c.again
      PROVE  OnceFine(n)
  <2>1. n.again <=> c.again
    BY <1>3, Zenon
  <2> QED  BY <1>3, <1>4, <2>1 DEF OnceFine
<1> QED  BY <1>1, <1>3, <1>4

(* add(), and below disable(), lock(), empty(), the loop and remove().       *)
LEMMA AddedOnce ==
  ASSUME NEW c, DOMAIN c = Fields, OnceFine(c), NEW f, NEW n, n = Added(c, f)
  PROVE  OnceKept(c, n)
<1>1. PICK more, s : /\ more = (IF Accepts(c, f) THEN Append(c.items, f) ELSE c.items)
                     /\ s = (IF Accepts(c, f) THEN Append(c.due, f) ELSE c.due)
  OBVIOUS
<1>2. n = IF c.gone THEN c
          ELSE IF c.firing
               THEN [c EXCEPT !.items = more, !.length = Len(more), !.due = s]
               ELSE IF c.memory # NoData
                    THEN Entered([c EXCEPT !.items = more, !.start = Len(c.items)], c.memory)
                    ELSE [c EXCEPT !.items = more]
  BY <1>1 DEF Added
<1>3. CASE c.gone
  BY <1>2, <1>3, OnceKeptIf
<1>4. CASE ~c.gone /\ c.firing
  <2>1. n = [c EXCEPT !.items = more, !.length = Len(more), !.due = s]
    BY <1>2, <1>4
  <2>2. /\ n.flags = c.flags /\ n.memory = c.memory /\ n.fired = c.fired /\ n.firing = c.firing
        /\ n.again = c.again
    BY <2>1 DEF Fields
  <2> QED  BY <2>2, OnceKeptIf
<1>5. CASE ~c.gone /\ ~c.firing /\ c.memory # NoData
  <2>1. PICK m : m = [c EXCEPT !.items = more, !.start = Len(c.items)]
    OBVIOUS
  <2>2. n = Entered(m, c.memory)
    BY <1>2, <1>5, <2>1
  <2>3. DOMAIN m = Fields /\ m.flags = c.flags /\ m.again = c.again
    BY <2>1 DEF Fields
  <2>4. "once" \in m.flags => ~m.again
    <3>1. m.again <=> c.again
      BY <2>3, Zenon
    <3> QED  BY <2>3, <3>1 DEF OnceFine
  <2>5. n.flags = m.flags /\ (n.memory = c.memory \/ n.memory = NoData) /\ n.fired /\ OnceFine(n)
    BY <2>2, <2>3, <2>4, EnteredOnce
  <2> QED  BY <2>3, <2>5 DEF OnceKept
<1>6. CASE ~c.gone /\ ~c.firing /\ ~(c.memory # NoData)
  <2>1. n = [c EXCEPT !.items = more]
    BY <1>2, <1>6
  <2>2. /\ n.flags = c.flags /\ n.memory = c.memory /\ n.fired = c.fired /\ n.firing = c.firing
        /\ n.again = c.again
    BY <2>1 DEF Fields
  <2> QED  BY <2>2, OnceKeptIf
<1> QED  BY <1>3, <1>4, <1>5, <1>6

(* The first firing is the only one.                                         *)
LEMMA FiredOnce ==
  ASSUME NEW c, DOMAIN c = Fields, OnceFine(c), NEW data, NEW n, n = FiredWith(c, data)
  PROVE  /\ ~FiresNow(c) => OnceKept(c, n)
         /\ FiresNow(c) => /\ n.flags = c.flags /\ (n.memory = data \/ n.memory = NoData) /\ n.fired
                           /\ OnceFine(n)
                           /\ "once" \in c.flags => ~c.fired
<1>1. CASE ~MayFire(c)
  BY <1>1, OnceKeptIf DEF FiredWith, FiresNow
<1>2. CASE MayFire(c) /\ c.firing
  <2>1. PICK q : q = Append(c.queue, data)
    OBVIOUS
  <2>2. n = [c EXCEPT !.queue = q] /\ ~FiresNow(c)
    BY <1>2, <2>1 DEF FiredWith, FiresNow
  <2>3. /\ n.flags = c.flags /\ n.memory = c.memory /\ n.fired = c.fired /\ n.firing = c.firing
        /\ n.again = c.again
    BY <2>2 DEF Fields
  <2> QED  BY <2>2, <2>3, OnceKeptIf
<1>3. CASE MayFire(c) /\ ~c.firing
  <2>1. n = Entered(c, data) /\ FiresNow(c)
    BY <1>3 DEF FiredWith, FiresNow
  <2>2. "once" \in c.flags => ~c.again /\ ~c.fired
    BY <1>3 DEF OnceFine, MayFire
  <2> QED  BY <2>1, <2>2, EnteredOnce
<1> QED  BY <1>1, <1>2, <1>3

LEMMA DisabledOnce ==
  ASSUME NEW c, DOMAIN c = Fields, OnceFine(c), NEW n, n = Disabled(c)
  PROVE  OnceKept(c, n)
<1>1. /\ n.flags = c.flags /\ n.memory = NoData /\ n.fired = c.fired /\ n.firing = c.firing
      /\ n.again = FALSE
  BY DEF Fields, Disabled
<1> QED  BY <1>1, OnceKeptIf

LEMMA LockedOnce ==
  ASSUME NEW c, DOMAIN c = Fields, OnceFine(c), NEW n, n = Locked(c)
  PROVE  OnceKept(c, n)
<1>1. CASE c.memory = NoData
  BY <1>1, DisabledOnce DEF Locked
<1>2. CASE c.memory # NoData
  <2>1. n = [c EXCEPT !.again = FALSE, !.queue = <<>>]
    BY <1>2 DEF Locked
  <2>2. /\ n.flags = c.flags /\ n.memory = c.memory /\ n.fired = c.fired /\ n.firing = c.firing
        /\ n.again = FALSE
    BY <2>1 DEF Fields
  <2> QED  BY <2>2, OnceKeptIf
<1> QED  BY <1>1, <1>2

LEMMA EmptiedOnce ==
  ASSUME NEW c, DOMAIN c = Fields, OnceFine(c), NEW n, n = Emptied(c)
  PROVE  OnceKept(c, n)
<1>1. PICK w : w = (c.wiped \/ c.firing)
  OBVIOUS
<1>2. n = [c EXCEPT !.items = <<>>, !.gone = FALSE, !.due = <<>>, !.wiped = w]
  BY <1>1 DEF Emptied
<1>3. /\ n.flags = c.flags /\ n.memory = c.memory /\ n.fired = c.fired /\ n.firing = c.firing
      /\ n.again = c.again
  BY <1>2 DEF Fields
<1> QED  BY <1>3, OnceKeptIf

LEMMA ChargedOnce ==
  ASSUME NEW c, DOMAIN c = Fields, OnceFine(c), NEW n, n = Charged(c) \/ n = Onward(c)
  PROVE  OnceKept(c, n)
<1>1. CASE n = Charged(c)
  <2>1. PICK d : d = IF c.due = <<>> THEN c.due ELSE Tail(c.due)
    OBVIOUS
  <2>2. n = [c EXCEPT !.due = d]
    BY <1>1, <2>1 DEF Charged
  <2>3. /\ n.flags = c.flags /\ n.memory = c.memory /\ n.fired = c.fired /\ n.firing = c.firing
        /\ n.again = c.again
    BY <2>2 DEF Fields
  <2> QED  BY <2>3, OnceKeptIf
<1>2. CASE n = Onward(c)
  <2>1. PICK i : i = c.index + 1
    OBVIOUS
  <2>2. n = [c EXCEPT !.index = i]
    BY <1>2, <2>1 DEF Onward
  <2>3. /\ n.flags = c.flags /\ n.memory = c.memory /\ n.fired = c.fired /\ n.firing = c.firing
        /\ n.again = c.again
    BY <2>2 DEF Fields
  <2> QED  BY <2>3, OnceKeptIf
<1> QED  BY <1>1, <1>2

LEMMA StoppedOnce ==
  ASSUME NEW c, DOMAIN c = Fields, OnceFine(c), NEW n,
         n = [c EXCEPT !.memory = NoData, !.due = <<>>, !.index = c.length]
  PROVE  OnceKept(c, n)
<1>1. /\ n.flags = c.flags /\ n.memory = NoData /\ n.fired = c.fired /\ n.firing = c.firing
      /\ n.again = c.again
  BY DEF Fields
<1> QED  BY <1>1, OnceKeptIf

(* The end of a firing.                                                      *)
LEMMA LeftOnce ==
  ASSUME NEW c, DOMAIN c = Fields, OnceFine(c), NEW n, n = Left(c)
  PROVE  /\ n.flags = c.flags /\ OnceFine(n)
         /\ "once" \in c.flags => ~Refires(c) /\ OnceKept(c, n)
<1>1. PICK done : done = [c EXCEPT !.firing = FALSE, !.due = <<>>]
  OBVIOUS
<1>2. /\ DOMAIN done = Fields
      /\ done.flags = c.flags /\ done.memory = c.memory /\ done.fired = c.fired /\ done.firing = FALSE
      /\ done.again = c.again /\ done.queue = c.queue
  BY <1>1 DEF Fields
<1>3. OnceKept(c, done)
  BY <1>2, OnceKeptIf
<1>4. n = IF c.gone THEN done
          ELSE IF c.again
               THEN IF c.queue = <<>> THEN done
                    ELSE Entered([done EXCEPT !.queue = Tail(@)], Head(c.queue))
               ELSE IF c.memory # NoData THEN [done EXCEPT !.items = <<>>]
                    ELSE Disabled(done)
  BY <1>1 DEF Left
<1>5. CASE c.gone \/ (c.again /\ c.queue = <<>>)
  <2>1. n = done /\ ~Refires(c)
    BY <1>4, <1>5 DEF Refires
  <2> QED  BY <1>3, <2>1 DEF OnceKept
<1>6. CASE ~c.gone /\ c.again /\ c.queue # <<>>
  <2>1. "once" \notin c.flags
    BY <1>6 DEF OnceFine
  <2>2. PICK q, m : q = Tail(done.queue) /\ m = [done EXCEPT !.queue = q]
    OBVIOUS
  <2>3. n = Entered(m, Head(c.queue))
    BY <1>4, <1>6, <2>2
  <2>4. DOMAIN m = Fields /\ m.flags = c.flags
    BY <1>2, <2>2 DEF Fields
  <2>5. n.flags = m.flags
    BY <2>3, <2>4, EnteredOnce
  <2> QED  BY <2>1, <2>4, <2>5 DEF OnceFine
<1>7. CASE ~c.gone /\ ~c.again /\ c.memory # NoData
  <2>1. n = [done EXCEPT !.items = <<>>] /\ ~Refires(c)
    BY <1>4, <1>7 DEF Refires
  <2>2. /\ n.flags = c.flags /\ n.memory = c.memory /\ n.fired = c.fired /\ n.firing = FALSE
        /\ n.again = c.again
    BY <1>2, <2>1 DEF Fields
  <2>3. OnceKept(c, n)
    BY <2>2, OnceKeptIf
  <2> QED  BY <2>1, <2>3 DEF OnceKept
<1>8. CASE ~c.gone /\ ~c.again /\ ~(c.memory # NoData)
  <2>1. n = Disabled(done) /\ ~Refires(c)
    BY <1>4, <1>8 DEF Refires
  <2>2. /\ n.flags = done.flags /\ n.memory = NoData /\ n.fired = done.fired /\ n.firing = done.firing
        /\ n.again = FALSE
    BY <1>2, <2>1 DEF Fields, Disabled
  <2>3. n.flags = c.flags /\ n.fired = c.fired /\ n.firing = FALSE
    BY <1>2, <2>2
  <2>4. OnceKept(c, n)
    BY <2>2, <2>3, OnceKeptIf
  <2> QED  BY <2>1, <2>4 DEF OnceKept
<1> QED  BY <1>5, <1>6, <1>7, <1>8

LEMMA RemovedOnce ==
  ASSUME NEW F, NEW c, ListFine(F, c), OnceFine(c), NEW f, NEW n, n = Removed(c, f)
  PROVE  OnceKept(c, n)
<1>1. /\ DOMAIN c = Fields /\ c.items \in Seq(F) /\ Len(c.items) \in Nat
      /\ c.firing \in BOOLEAN /\ c.length \in Nat /\ c.index \in Nat \cup {-1}
  BY FlagsOf DEF ListFine
<1>2. CASE c.gone
  BY <1>2, OnceKeptIf DEF Removed
<1>3. CASE ~c.gone
  <2>1. c.firing => Len(c.items) <= c.length
    BY <1>3 DEF ListFine, LongEnough
  <2>2. \A x \in Fields \ {"items", "length", "index", "due"} : n[x] = c[x]
    BY <1>1, <1>3, <2>1, RemovedList
  <2>3. /\ n.flags = c.flags /\ n.memory = c.memory /\ n.fired = c.fired /\ n.firing = c.firing
        /\ n.again = c.again
    BY <2>2 DEF Fields
  <2> QED  BY <2>3, OnceKeptIf
<1> QED  BY <1>2, <1>3

LEMMA PlainFacts ==
  ASSUME PlainInv, NEW c, c = lists[Plain]
  PROVE  /\ Plain \in DOMAIN lists /\ ListFine(Users, c) /\ DOMAIN c = Fields /\ OnceFine(c)
         /\ OnceKept(c, c) /\ IsSeq(calls) /\ PlainStack(calls)
         /\ OnStack(Plain) => c.firing
<1>1. Plain \in DOMAIN lists /\ Turned(Users, Plain) /\ OnceFine(c) /\ PlainStack(calls)
  BY DEF PlainInv, TurnsOK
<1>2. ListFine(Users, c) /\ (OnStack(Plain) => c.firing)
  BY <1>1 DEF Turned
<1>3. DOMAIN c = Fields
  BY <1>2, FlagsOf DEF ListFine
<1>4. OnceKept(c, c)
  BY <1>1, OnceKeptIf
<1>5. IsSeq(calls)
  BY <1>1 DEF PlainStack
<1> QED  BY <1>1, <1>2, <1>3, <1>4, <1>5

(* Nothing new is passed.                                                    *)
LEMMA PassedKept ==
  ASSUME PlainInv, NEW n, n = lists'[Plain], OnceKept(lists[Plain], n),
         (UNION {ToSet(seen'[h]) : h \in Handlers}) \subseteq Passed, FiringsOf(calls') \subseteq Passed
  PROVE  OnceFine(lists[Plain])' /\ OnceData'
<1>1. PICK c : c = lists[Plain]
  OBVIOUS
<1>2. /\ n.flags = c.flags /\ (n.memory = c.memory \/ n.memory = NoData) /\ (c.fired => n.fired)
      /\ OnceFine(n)
  BY <1>1 DEF OnceKept
<1>3. {n.memory} \ {NoData} \subseteq Passed
  BY <1>1, <1>2 DEF Passed
<1>4. Passed' = (UNION {ToSet(seen'[h]) : h \in Handlers}) \cup FiringsOf(calls') \cup ({n.memory} \ {NoData})
  BY DEF Passed, FiringsOf
<1>5. Passed' \subseteq Passed
  BY <1>3, <1>4
<1>6. OnceData'
  <2>1. OnceData
    BY DEF PlainInv
  <2> QED  BY <1>1, <1>2, <1>5, <2>1 DEF OnceData
<1>7. OnceFine(lists[Plain])'
  BY <1>2 DEF OnceFine
<1> QED  BY <1>6, <1>7

(* A firing begins that is the first, if the list has the flag once.         *)
LEMMA PassedBegun ==
  ASSUME PlainInv, NEW c, c = lists[Plain], NEW n, n = lists'[Plain], NEW data,
         n.flags = c.flags, n.memory = data \/ n.memory = NoData, n.fired, OnceFine(n),
         "once" \in c.flags => ~c.fired,
         seen' = seen, FiringsOf(calls') \subseteq Passed \cup {data}
  PROVE  OnceFine(lists[Plain])' /\ OnceData'
<1>1. (UNION {ToSet(seen'[h]) : h \in Handlers}) \subseteq Passed
  BY DEF Passed
<1>2. Passed' = (UNION {ToSet(seen'[h]) : h \in Handlers}) \cup FiringsOf(calls') \cup ({n.memory} \ {NoData})
  BY DEF Passed, FiringsOf
<1>3. Passed' \subseteq Passed \cup {data}
  BY <1>1, <1>2
<1>4. OnceData'
  <2>1. OnceData
    BY DEF PlainInv
  <2>2. "once" \in c.flags => Passed = {}
    BY <2>1 DEF OnceData
  <2> QED  BY <1>3, <2>2 DEF OnceData
<1>5. OnceFine(lists[Plain])'
  BY DEF OnceFine
<1> QED  BY <1>4, <1>5

(* What a method has still to do after one of its parts.                     *)
LEMMA PlainRest ==
  ASSUME PlainInv, In("method"), Head(calls).todo # <<>>, NEW rest,
         rest = <<Method(Tail(Head(calls).todo))>> \o Tail(calls)
  PROVE  /\ PlainStack(rest) /\ IsSeq(rest) /\ FiringsOf(rest) \subseteq FiringsOf(calls)
         /\ ~lists[Plain].firing => InMethod(rest)
         /\ PlainWork(Head(Head(calls).todo))
<1>1. PICK q, f, s : q = Head(calls).todo /\ f = Method(Tail(q)) /\ s = Tail(calls)
  OBVIOUS
<1>2. calls # <<>> /\ Head(calls).k = "method" /\ IsSeq(calls) /\ AMethod(calls) /\ (s = <<>> \/ InHandler(s))
  <2>1. PlainStack(calls) /\ IsSeq(calls)
    BY PlainFacts
  <2> QED  BY <1>1, <2>1, PlainKinds DEF In
<1>3. IsSeq(q) /\ q # <<>> /\ \A j \in DOMAIN q : PlainWork(q[j])
  BY <1>1, <1>2 DEF AMethod
<1>4. /\ Tail(q) \in Seq(ToSet(q)) /\ Head(q) = q[1] /\ 1 \in DOMAIN q /\ Len(q) \in Nat /\ DOMAIN q = 1..Len(q)
      /\ DOMAIN Tail(q) = 1..(Len(q) - 1) /\ \A p \in 1..(Len(q) - 1) : Tail(q)[p] = q[p + 1]
  BY <1>3, Popped DEF IsSeq
<1>5. IsSeq(Tail(q)) /\ PlainWork(Head(q))
  BY <1>3, <1>4, SeqIs
<1>6. ASSUME NEW j \in DOMAIN Tail(q)
      PROVE  PlainWork(Tail(q)[j])
  <2>1. PICK i \in DOMAIN q : i = j + 1
    BY <1>4
  <2> QED  BY <1>3, <1>4, <2>1
<1>7. IsSeq(s) /\ FiringsOf(s) \subseteq FiringsOf(calls)
  BY <1>1, <1>2, PlainPopped
<1>8. rest = <<f>> \o s /\ f.k = "method" /\ f.todo = Tail(q)
  BY <1>1 DEF Method
<1>9. IsSeq(rest) /\ rest # <<>> /\ Head(rest) = f /\ Tail(rest) = s /\ FiringsOf(rest) \subseteq FiringsOf(s)
  BY <1>7, <1>8, PlainPushed
<1>10. AMethod(rest)
  BY <1>5, <1>6, <1>8, <1>9 DEF AMethod
<1>11. PlainStack(rest)
  BY <1>2, <1>9, <1>10 DEF PlainStack, InMethod, InHandlersMethod
<1>12. ASSUME ~lists[Plain].firing
       PROVE  InMethod(rest)
  <2>1. ~OnStack(Plain)
    BY <1>12, PlainFacts
  <2>2. ~On(s, Plain)
    BY <1>1, <1>2, <2>1, PlainPopped, OnIs
  <2>3. ~InHandler(s)
    BY <1>7, <2>2, InHandlerFacts
  <2> QED  BY <1>2, <1>9, <1>10, <2>3 DEF InMethod
<1> QED  BY <1>1, <1>5, <1>7, <1>9, <1>11, <1>12

(* The method begins a firing.                                               *)
LEMMA PlainBegins ==
  ASSUME NEW rest, IsSeq(rest), InMethod(rest), NEW data, NEW t, t = <<Firing(Plain, data)>> \o rest
  PROVE  PlainStack(t) /\ FiringsOf(t) \subseteq FiringsOf(rest) \cup {data}
<1>1. PICK f : f = Firing(Plain, data)
  OBVIOUS
<1>2. f.k = "fire" /\ f.list = Plain /\ f.data = data
  BY <1>1 DEF Firing
<1>3. /\ IsSeq(t) /\ t # <<>> /\ Head(t) = f /\ Tail(t) = rest
      /\ FiringsOf(t) \subseteq FiringsOf(rest) \cup {f.data}
  BY <1>1, PlainPushed
<1>4. InFiring(t)
  BY <1>2, <1>3 DEF InFiring
<1> QED  BY <1>2, <1>3, <1>4 DEF PlainStack

(* What every step of the page's list gives.                                 *)
PlainGoes == PlainStack(calls') /\ OnceFine(lists[Plain])' /\ OnceData'

(* A part of a method on the list.                                           *)
LEMMA PlainPart ==
  ASSUME PlainInv, In("method"), Head(calls).todo # <<>>, NEW rest,
         rest = <<Method(Tail(Head(calls).todo))>> \o Tail(calls),
         NEW n, lists' = [lists EXCEPT ![Plain] = n], OnceKept(lists[Plain], n),
         calls' = rest, seen' = seen
  PROVE  PlainGoes
<1>1. lists'[Plain] = n
  BY PlainFacts
<1>2. PlainStack(rest) /\ FiringsOf(rest) \subseteq FiringsOf(calls)
  BY PlainRest
<1>3. FiringsOf(calls') \subseteq Passed /\ (UNION {ToSet(seen'[h]) : h \in Handlers}) \subseteq Passed
  BY <1>2 DEF Passed
<1> QED  BY <1>1, <1>2, <1>3, PassedKept DEF PlainGoes

LEMMA PlainProceed ==
  ASSUME PlainInv, Proceed
  PROVE  PlainGoes
<1>1. PICK do, rest : do = Head(Head(calls).todo) /\ rest = <<Method(Tail(Head(calls).todo))>> \o Tail(calls)
  OBVIOUS
<1>2. PICK c : c = lists[Plain]
  OBVIOUS
<1>3. In("method") /\ Head(calls).todo # <<>> /\ seen' = seen
  BY DEF Proceed
<1>4. /\ PlainStack(rest) /\ IsSeq(rest) /\ FiringsOf(rest) \subseteq FiringsOf(calls)
      /\ ~c.firing => InMethod(rest)
      /\ do.op \in {"add", "remove", "fireWith", "empty", "disable", "lock"} /\ do.list = Plain
  BY <1>1, <1>2, <1>3, PlainRest DEF PlainWork
<1>5. Plain \in DOMAIN lists /\ ListFine(Users, c) /\ DOMAIN c = Fields /\ OnceFine(c)
  BY <1>2, PlainFacts
<1>6. FiringsOf(calls) \subseteq Passed /\ (UNION {ToSet(seen'[h]) : h \in Handlers}) \subseteq Passed
  BY <1>3 DEF Passed
<1>7. ASSUME NEW data, calls' = <<Firing(Plain, data)>> \o rest, ~c.firing
      PROVE  PlainStack(calls') /\ FiringsOf(calls') \subseteq Passed \cup {data}
  <2>1. IsSeq(rest) /\ InMethod(rest)
    BY <1>4, <1>7
  <2>2. PlainStack(calls') /\ FiringsOf(calls') \subseteq FiringsOf(rest) \cup {data}
    BY <1>7, <2>1, PlainBegins
  <2> QED  BY <1>4, <1>6, <2>2
<1>8. CASE do.op = "add"
  <2>1. PICK n : n = Added(c, do.fn)
    OBVIOUS
  <2>2. /\ lists' = [lists EXCEPT ![Plain] = n]
        /\ calls' = IF AddFires(c) THEN <<Firing(Plain, c.memory)>> \o rest ELSE rest
    BY <1>1, <1>2, <1>4, <1>8, <2>1 DEF Proceed, Entering
  <2>3. OnceKept(c, n)
    BY <1>5, <2>1, AddedOnce
  <2>4. CASE AddFires(c)
    <3>1. ~c.firing /\ c.memory \in Passed
      BY <1>2, <2>4 DEF AddFires, Passed
    <3>2. PlainStack(calls') /\ FiringsOf(calls') \subseteq Passed
      BY <1>7, <2>2, <2>4, <3>1
    <3>3. lists'[Plain] = n
      BY <1>5, <2>2
    <3> QED  BY <1>2, <1>6, <2>3, <3>2, <3>3, PassedKept DEF PlainGoes
  <2>5. CASE ~AddFires(c)
    BY <1>1, <1>2, <1>3, <2>2, <2>3, <2>5, PlainPart
  <2> QED  BY <2>4, <2>5
<1>9. CASE do.op = "fireWith"
  <2>1. PICK n, data : n = FiredWith(c, data) /\ data = do.data
    OBVIOUS
  <2>2. /\ lists' = [lists EXCEPT ![Plain] = n]
        /\ calls' = IF FiresNow(c) THEN <<Firing(Plain, data)>> \o rest ELSE rest
    BY <1>1, <1>2, <1>4, <1>9, <2>1 DEF Proceed, Entering
  <2>3. /\ ~FiresNow(c) => OnceKept(c, n)
        /\ FiresNow(c) => /\ n.flags = c.flags /\ (n.memory = data \/ n.memory = NoData) /\ n.fired
                          /\ OnceFine(n) /\ ("once" \in c.flags => ~c.fired)
    BY <1>5, <2>1, FiredOnce
  <2>4. CASE FiresNow(c)
    <3>1. ~c.firing
      BY <2>4 DEF FiresNow
    <3>2. PlainStack(calls') /\ FiringsOf(calls') \subseteq Passed \cup {data}
      BY <1>7, <2>2, <2>4, <3>1
    <3>3. lists'[Plain] = n
      BY <1>5, <2>2
    <3> QED  BY <1>2, <1>3, <2>3, <2>4, <3>2, <3>3, PassedBegun DEF PlainGoes
  <2>5. CASE ~FiresNow(c)
    BY <1>1, <1>2, <1>3, <2>2, <2>3, <2>5, PlainPart
  <2> QED  BY <2>4, <2>5
<1>10. ASSUME NEW n, OnceKept(c, n), lists' = [lists EXCEPT ![Plain] = n], calls' = rest
       PROVE  PlainGoes
  BY <1>1, <1>2, <1>3, <1>10, PlainPart
<1>11. CASE do.op = "remove"
  <2>1. PICK n : n = Removed(c, do.fn)
    OBVIOUS
  <2>2. lists' = [lists EXCEPT ![Plain] = n] /\ calls' = rest
    BY <1>1, <1>2, <1>4, <1>11, <2>1 DEF Proceed
  <2>3. OnceKept(c, n)
    BY <1>5, <2>1, RemovedOnce
  <2> QED  BY <1>10, <2>2, <2>3
<1>12. CASE do.op = "empty"
  <2>1. lists' = [lists EXCEPT ![Plain] = Emptied(c)] /\ calls' = rest
    BY <1>1, <1>2, <1>4, <1>12 DEF Proceed
  <2> QED  BY <1>5, <1>10, <2>1, EmptiedOnce
<1>13. CASE do.op = "disable"
  <2>1. lists' = [lists EXCEPT ![Plain] = Disabled(c)] /\ calls' = rest
    BY <1>1, <1>2, <1>4, <1>13 DEF Proceed
  <2> QED  BY <1>5, <1>10, <2>1, DisabledOnce
<1>14. CASE do.op = "lock"
  <2>1. lists' = [lists EXCEPT ![Plain] = Locked(c)] /\ calls' = rest
    BY <1>1, <1>2, <1>4, <1>14 DEF Proceed
  <2> QED  BY <1>5, <1>10, <2>1, LockedOnce
<1> QED  BY <1>4, <1>8, <1>9, <1>11, <1>12, <1>13, <1>14

(* A method or a handler returns.                                            *)
LEMMA PlainReturns ==
  ASSUME PlainInv, calls # <<>>, calls' = Tail(calls), seen' = seen, NEW n, n = lists'[Plain],
         OnceKept(lists[Plain], n)
  PROVE  PlainGoes
<1>1. PlainStack(Tail(calls)) /\ FiringsOf(Tail(calls)) \subseteq FiringsOf(calls)
  BY PlainFacts, PlainKinds, PlainPopped
<1>2. FiringsOf(calls') \subseteq Passed /\ (UNION {ToSet(seen'[h]) : h \in Handlers}) \subseteq Passed
  BY <1>1 DEF Passed
<1> QED  BY <1>1, <1>2, PassedKept DEF PlainGoes

LEMMA ReturnedOnce ==
  ASSUME PlainInv, calls # <<>>, lists' = AfterReturn(lists)
  PROVE  OnceKept(lists[Plain], lists'[Plain])
<1>1. PICK c : c = lists[Plain]
  OBVIOUS
<1>2. Plain \in DOMAIN lists /\ DOMAIN c = Fields /\ OnceFine(c) /\ OnceKept(c, c) /\ PlainStack(Tail(calls))
  BY <1>1, PlainFacts, PlainKinds
<1>3. CASE lists' = lists
  BY <1>1, <1>2, <1>3
<1>4. ASSUME NEW m, AtTop(Tail(calls), m), lists' = Advance(m, lists)
      PROVE  OnceKept(lists[Plain], lists'[Plain])
  <2>1. m = Plain
    BY <1>2, <1>4, PlainKinds, InFiringFacts DEF AtTop, IsFire
  <2>2. PICK n : n = Onward(c)
    OBVIOUS
  <2>3. lists' = [lists EXCEPT ![Plain] = n]
    BY <1>1, <1>4, <2>1, <2>2, AdvanceIs
  <2>4. lists'[Plain] = n
    BY <1>2, <2>3
  <2> QED  BY <1>1, <1>2, <2>2, <2>4, ChargedOnce
<1> QED  BY <1>3, <1>4, AfterReturnIs

LEMMA PlainFinish ==
  ASSUME PlainInv, Finish \/ Return
  PROVE  PlainGoes
<1>1. calls # <<>> /\ calls' = Tail(calls) /\ seen' = seen
  BY DEF Finish, Return, In
<1>2. CASE lists' = AfterReturn(lists)
  BY <1>1, <1>2, ReturnedOnce, PlainReturns
<1>3. CASE Return /\ lists' # AfterReturn(lists)
  <2>1. Head(Tail(calls)).list = Plain
    <3>1. InHandler(calls)
      BY <1>3, PlainFacts, PlainKinds DEF Return, In
    <3> QED  BY <3>1, PlainFacts, InHandlerFacts
  <2>2. PICK c, n : c = lists[Plain] /\ n = [c EXCEPT !.memory = NoData, !.due = <<>>, !.index = c.length]
    OBVIOUS
  <2>3. lists' = [lists EXCEPT ![Plain] = n]
    BY <1>3, <2>1, <2>2 DEF Return
  <2>4. lists'[Plain] = n
    BY <2>3, PlainFacts
  <2>5. OnceKept(c, n)
    BY <2>2, PlainFacts, StoppedOnce
  <2> QED  BY <1>1, <2>2, <2>4, <2>5, PlainReturns
<1> QED  BY <1>2, <1>3 DEF Finish

(* A handler is called with what is passed.                                  *)
LEMMA PlainCallHandler ==
  ASSUME PlainInv, CallHandler
  PROVE  PlainGoes /\ DOMAIN seen' = Handlers /\ \A h \in Handlers : IsSeq(seen'[h])
<1>1. PICK c, n, f, g, x : c = lists[Plain] /\ n = Charged(c) /\ g = Called.name /\ f = Running(g) /\ x = Now
  OBVIOUS
<1>2. /\ Loop /\ AtCall(lists[Here]) /\ lists' = Paid /\ calls' = <<f>> \o calls
      /\ seen' = [seen EXCEPT ![g] = Append(seen[g], x)]
  BY <1>1 DEF CallHandler, NextIs
<1>3. Here = Plain /\ InFiring(calls) /\ Called \in Users
  BY <1>2, CalledUser
<1>4. g \in Handlers
  BY <1>1, <1>3 DEF Users, User
<1>5. DOMAIN seen = Handlers /\ (\A h \in Handlers : IsSeq(seen[h])) /\ IsSeq(calls)
  BY PlainFacts DEF PlainInv
<1>6. x \in Passed
  <2>1. calls # <<>> /\ Head(calls).k = "fire" /\ x = Head(calls).data
    BY <1>1, <1>2 DEF Loop, In, Now
  <2> QED  BY <1>5, <2>1, PlainPopped DEF Passed
<1>7. PICK s : s = Append(seen[g], x)
  OBVIOUS
<1>8. ToSet(s) \subseteq ToSet(seen[g]) \cup {x} /\ IsSeq(s)
  <2>1. PICK q : q = seen[g] /\ IsSeq(q)
    BY <1>4, <1>5
  <2>2. q \in Seq(ToSet(q) \cup {x})
    BY <2>1 DEF IsSeq
  <2>3. s \in Seq(ToSet(q) \cup {x})
    BY <1>7, <2>1, <2>2
  <2>4. \A i \in DOMAIN s : s[i] \in ToSet(q) \cup {x}
    BY <2>3
  <2> QED  BY <2>1, <2>3, <2>4, SeqIs DEF ToSet
<1>9. seen'[g] = s /\ DOMAIN seen' = Handlers /\ \A h \in Handlers : h # g => seen'[h] = seen[h]
  BY <1>2, <1>4, <1>5, <1>7
<1>10. (UNION {ToSet(seen'[h]) : h \in Handlers}) \subseteq Passed
  <2>1. \A h \in Handlers : ToSet(seen[h]) \subseteq Passed
    BY DEF Passed
  <2>2. \A h \in Handlers : ToSet(seen'[h]) \subseteq Passed
    BY <1>4, <1>6, <1>8, <1>9, <2>1
  <2> QED  BY <2>2
<1>11. f.k = "user" /\ f.name = g
  BY <1>1 DEF Running
<1>12. /\ IsSeq(calls') /\ calls' # <<>> /\ Head(calls') = f /\ Tail(calls') = calls
       /\ FiringsOf(calls') \subseteq FiringsOf(calls)
  BY <1>2, <1>5, <1>11, PlainPushed
<1>13. PlainStack(calls')
  BY <1>3, <1>4, <1>11, <1>12 DEF PlainStack, InHandler
<1>14. FiringsOf(calls') \subseteq Passed
  BY <1>12 DEF Passed
<1>15. lists'[Plain] = n
  <2>1. lists' = [lists EXCEPT ![Plain] = Charged(lists[Plain])]
    BY <1>2, <1>3 DEF Paid, Charged
  <2> QED  BY <1>1, <2>1, PlainFacts
<1>16. OnceKept(c, n)
  BY <1>1, PlainFacts, ChargedOnce
<1>17. OnceFine(lists[Plain])' /\ OnceData'
  BY <1>1, <1>10, <1>14, <1>15, <1>16, PassedKept
<1> QED  BY <1>5, <1>8, <1>9, <1>13, <1>17 DEF PlainGoes

(* The loop is over.                                                         *)
LEMMA PlainEndOfLoop ==
  ASSUME PlainInv, EndOfLoop
  PROVE  PlainGoes
<1>1. PICK c, n, rest : c = lists[Plain] /\ n = Left(c) /\ rest = Tail(calls)
  OBVIOUS
<1>2. /\ Here = Plain /\ InFiring(calls) /\ Tail(calls) # <<>> /\ Head(Tail(calls)).k # "fire"
      /\ calls # <<>> /\ seen' = seen
  BY CalledUser DEF EndOfLoop, Loop, In
<1>3. lists' = [lists EXCEPT ![Plain] = n]
  <2>1. \A ls : AfterReturn(ls) = ls
    BY <1>2 DEF AfterReturn
  <2> QED  BY <1>1, <1>2, <2>1 DEF EndOfLoop
<1>4. Plain \in DOMAIN lists /\ DOMAIN c = Fields /\ OnceFine(c) /\ IsSeq(calls)
  BY <1>1, PlainFacts
<1>5. lists'[Plain] = n
  BY <1>3, <1>4
<1>6. n.flags = c.flags /\ OnceFine(n) /\ ("once" \in c.flags => ~Refires(c) /\ OnceKept(c, n))
  BY <1>1, <1>4, LeftOnce
<1>7. IsSeq(rest) /\ InMethod(rest) /\ FiringsOf(rest) \subseteq FiringsOf(calls)
  BY <1>1, <1>2, <1>4, InFiringFacts, PlainPopped
<1>8. OnceFine(lists[Plain])'
  BY <1>5, <1>6 DEF OnceFine
<1>9. PlainStack(calls')
  <2>1. CASE Refires(c)
    <3>1. calls' = <<Firing(Plain, Head(c.queue))>> \o rest
      BY <1>1, <1>2, <2>1 DEF EndOfLoop
    <3> QED  BY <1>7, <3>1, PlainBegins
  <2>2. CASE ~Refires(c)
    <3>1. calls' = rest
      BY <1>1, <1>2, <2>2 DEF EndOfLoop
    <3> QED  BY <1>7, <3>1 DEF PlainStack
  <2> QED  BY <2>1, <2>2
<1>10. OnceData'
  <2>1. CASE "once" \in c.flags
    <3>1. calls' = rest
      BY <1>1, <1>2, <1>6, <2>1 DEF EndOfLoop
    <3>2. FiringsOf(calls') \subseteq Passed /\ (UNION {ToSet(seen'[h]) : h \in Handlers}) \subseteq Passed
      BY <1>2, <1>7, <3>1 DEF Passed
    <3> QED  BY <1>1, <1>5, <1>6, <2>1, <3>2, PassedKept
  <2>2. CASE "once" \notin c.flags
    BY <1>5, <1>6, <2>2 DEF OnceData
  <2> QED  BY <2>1, <2>2
<1> QED  BY <1>8, <1>9, <1>10 DEF PlainGoes

(* An exception.                                                             *)
LEMMA PlainThrown ==
  ASSUME PlainInv, calls' = <<>>, lists' = lists, seen' = seen
  PROVE  PlainGoes
<1>1. IsSeq(calls') /\ FiringsOf(calls') = {}
  BY DEF IsSeq, FiringsOf
<1>2. PlainStack(calls')
  BY <1>1 DEF PlainStack
<1>3. FiringsOf(calls') \subseteq Passed /\ (UNION {ToSet(seen'[h]) : h \in Handlers}) \subseteq Passed
  BY <1>1 DEF Passed
<1>4. OnceKept(lists[Plain], lists'[Plain])
  BY PlainFacts
<1> QED  BY <1>2, <1>3, <1>4, PassedKept DEF PlainGoes

(* The page calls a method of the list.                                      *)
LEMMA PlainCalls ==
  ASSUME PlainInv, NEW w, PlainWork(w), Call(<<w>>)
  PROVE  PlainGoes
<1>1. PICK f, q : q = <<w>> /\ f = Method(q)
  OBVIOUS
<1>2. f.k = "method" /\ f.todo = q /\ calls' = <<f>> \o calls /\ lists' = lists /\ seen' = seen
  BY <1>1 DEF Method, Call
<1>3. IsSeq(q) /\ \A j \in DOMAIN q : PlainWork(q[j])
  <2>1. q \in Seq({w}) /\ \A j \in DOMAIN q : q[j] = w
    BY <1>1
  <2> QED  BY <2>1, SeqIs
<1>4. IsSeq(calls) /\ (calls = <<>> \/ InHandler(calls))
  BY PlainFacts, PlainKinds DEF Call, Idle, In
<1>5. /\ IsSeq(calls') /\ calls' # <<>> /\ Head(calls') = f /\ Tail(calls') = calls
      /\ FiringsOf(calls') \subseteq FiringsOf(calls)
  BY <1>2, <1>4, PlainPushed
<1>6. AMethod(calls')
  BY <1>2, <1>3, <1>5 DEF AMethod
<1>7. PlainStack(calls')
  BY <1>4, <1>5, <1>6 DEF PlainStack, InMethod, InHandlersMethod
<1>8. FiringsOf(calls') \subseteq Passed /\ (UNION {ToSet(seen'[h]) : h \in Handlers}) \subseteq Passed
  BY <1>2, <1>5 DEF Passed
<1>9. OnceKept(lists[Plain], lists'[Plain])
  BY <1>2, PlainFacts
<1> QED  BY <1>7, <1>8, <1>9, PassedKept DEF PlainGoes

LEMMA PlainUse ==
  ASSUME PlainInv, UseList
  PROVE  PlainGoes
<1>1. PICK w : w.op \in {"add", "remove", "fireWith", "empty", "disable", "lock"} /\ w.list = Plain
               /\ (w.op = "add" => w.fn \in Users) /\ Call(<<w>>)
  <2>1. \A h \in Handlers : /\ Add(Plain, User(h)).op = "add" /\ Add(Plain, User(h)).list = Plain
                            /\ Add(Plain, User(h)).fn \in Users
                            /\ RemoveNow(Plain, User(h)).op = "remove" /\ RemoveNow(Plain, User(h)).list = Plain
    BY DEF Add, RemoveNow, Users
  <2>2. \A x : FireWith(Plain, x).op = "fireWith" /\ FireWith(Plain, x).list = Plain
    BY DEF FireWith
  <2>3. /\ EmptyNow(Plain).op = "empty" /\ EmptyNow(Plain).list = Plain
        /\ DisableNow(Plain).op = "disable" /\ DisableNow(Plain).list = Plain
        /\ LockNow(Plain).op = "lock" /\ LockNow(Plain).list = Plain
    BY DEF EmptyNow, DisableNow, LockNow
  <2>4. CASE \E h \in Handlers : Call(<<Add(Plain, User(h))>>)
    BY <2>1, <2>4
  <2>5. CASE \E h \in Handlers : Call(<<RemoveNow(Plain, User(h))>>)
    BY <2>1, <2>5
  <2>6. CASE Call(<<FireWith(Plain, Data[used + 1])>>)
    BY <2>2, <2>6
  <2>7. CASE Call(<<EmptyNow(Plain)>>)
    BY <2>3, <2>7
  <2>8. CASE Call(<<DisableNow(Plain)>>)
    BY <2>3, <2>8
  <2>9. CASE Call(<<LockNow(Plain)>>)
    BY <2>3, <2>9
  <2> QED  BY <2>4, <2>5, <2>6, <2>7, <2>8, <2>9 DEF UseList
<1>2. PlainWork(w)
  BY <1>1 DEF PlainWork
<1> QED  BY <1>1, <1>2, PlainCalls

(* Every step keeps what is known of the page's list.                        *)
LEMMA PlainInvStep ==
  ASSUME PlainInv, [Next]_vars
  PROVE  PlainInv' /\ state' = state
<1>1. ~Deferreds
  BY DEF PlainInv, Deferreds
<1>2. DOMAIN lists' = {Plain}
  BY DomainStays DEF PlainInv
<1>3. TurnsOK(Users)'
  BY PlainSound, TurnsStep DEF PlainInv
<1>4. PlainGoes /\ DOMAIN seen' = Handlers /\ (\A h \in Handlers : IsSeq(seen'[h])) /\ state' = state
  <2>1. DOMAIN seen = Handlers /\ \A h \in Handlers : IsSeq(seen[h])
    BY DEF PlainInv
  <2>2. CASE UNCHANGED vars
    <3>1. lists' = lists /\ calls' = calls /\ seen' = seen /\ state' = state
      BY <2>2 DEF vars
    <3>2. FiringsOf(calls') \subseteq Passed /\ (UNION {ToSet(seen'[h]) : h \in Handlers}) \subseteq Passed
      BY <3>1 DEF Passed
    <3>3. OnceKept(lists[Plain], lists'[Plain]) /\ PlainStack(calls')
      BY <3>1, PlainFacts
    <3> QED  BY <2>1, <3>1, <3>2, <3>3, PassedKept DEF PlainGoes
  <2>3. CASE Proceed
    BY <2>1, <2>3, PlainProceed DEF Proceed
  <2>4. CASE Finish \/ Return
    BY <2>1, <2>4, PlainFinish DEF Finish, Return
  <2>5. CASE CallHandler
    BY <2>5, PlainCallHandler DEF CallHandler
  <2>6. CASE CallSetState \/ CallDisableOrLock \/ CallFires \/ CallUpdate \/ CallForward
    <3>1. Loop /\ AtCall(lists[Here]) /\ Called.k # "user"
      BY <2>6 DEF CallSetState, CallDisableOrLock, CallFires, CallUpdate, CallForward, NextIs
    <3>2. Called.k = "user"
      BY <3>1, CalledUser DEF Users, User
    <3> QED  BY <3>1, <3>2
  <2>7. CASE EndOfLoop
    BY <2>1, <2>7, PlainEndOfLoop DEF EndOfLoop
  <2>8. CASE Crash \/ Throw
    BY <2>1, <2>8, PlainThrown DEF Crash, Throw
  <2>9. CASE UseList
    BY <2>1, <2>9, PlainUse DEF UseList, Call
  <2>10. CASE Fire \/ Register \/ When \/ Then
    BY <1>1, <2>10 DEF Fire, Register, When, Then
  <2> QED  BY <2>2, <2>3, <2>4, <2>5, <2>6, <2>7, <2>8, <2>9, <2>10 DEF Next
<1> QED  BY <1>2, <1>3, <1>4 DEF PlainInv, PlainGoes

(* The page's list as it is made.                                            *)
LEMMA PlainInit ==
  ASSUME Init, ~Deferreds
  PROVE  PlainInv
<1>1. PICK flags : lists = [l \in {Plain} |-> NewList(flags)]
  <2>1. DOMAIN DeferredLists = Lists
    BY DEF DeferredLists, Lists
  <2> QED  BY <2>1, ListNames DEF Init, Deferreds
<1>2. calls = <<>> /\ seen = [h \in Handlers |-> <<>>]
  BY DEF Init
<1>3. DOMAIN lists = {Plain} /\ lists[Plain] = NewList(flags)
  BY <1>1
<1>4. PICK s \in Seq(Users) : s = <<>>
  <2>1. <<>> \in Seq(Users)
    OBVIOUS
  <2> QED  BY <2>1, Zenon
<1>5. NewList(flags) = [NewList(flags) EXCEPT !.items = s]
  <2>1. PICK b \in BOOLEAN : b = ("once" \notin flags)
    OBVIOUS
  <2>2. NewList(flags) = [flags |-> flags, items |-> <<>>, gone |-> FALSE, again |-> b, queue |-> <<>>,
                          memory |-> NoData, fired |-> FALSE, firing |-> FALSE,
                          start |-> 0, length |-> 0, index |-> 0, due |-> <<>>, wiped |-> FALSE]
    BY <2>1 DEF NewList
  <2>3. PICK r : r = NewList(flags)
    OBVIOUS
  <2>4. r.items = s /\ r = [x \in DOMAIN r |-> r[x]]
    BY <1>4, <2>2, <2>3
  <2>5. r = [r EXCEPT !.items = s]
    BY <2>4
  <2> QED  BY <2>3, <2>5
<1>6. ListFine(Users, NewList(flags))
  BY <1>5, NewFine
<1>7. TurnsOK(Users)
  <2>1. ~OnStack(Plain)
    BY <1>2 DEF OnStack
  <2> QED  BY <1>3, <1>6, <2>1 DEF TurnsOK, Turned
<1>8. /\ NewList(flags).flags = flags /\ NewList(flags).firing = FALSE /\ NewList(flags).memory = NoData
      /\ ("once" \in flags => ~NewList(flags).again)
  BY DEF NewList
<1>9. OnceFine(lists[Plain])
  BY <1>3, <1>8 DEF OnceFine
<1>10. PlainStack(calls) /\ FiringsOf(calls) = {}
  BY <1>2 DEF PlainStack, IsSeq, FiringsOf
<1>11. DOMAIN seen = Handlers /\ \A h \in Handlers : IsSeq(seen[h]) /\ ToSet(seen[h]) = {}
  BY <1>2 DEF IsSeq, ToSet
<1>12. Passed = {}
  BY <1>3, <1>8, <1>10, <1>11 DEF Passed
<1> QED  BY <1>3, <1>7, <1>9, <1>10, <1>11, <1>12 DEF PlainInv, OnceData

(* The lists of callbacks: what holds in every state.                        *)
ListsIInv ==
  /\ Deferreds => TurnsOK(DeferredFunctions)
  /\ ~Deferreds => PlainInv
  /\ CountsOK

(* It holds at first.                                                        *)
LEMMA ListsIInvInit == Init => ListsIInv
<1> SUFFICES ASSUME Init
             PROVE  ListsIInv
  OBVIOUS
<1>1. CountsOK
  <2>1. state = [d \in Made |-> "pending"] /\ piped = NoThen /\ used = 0 /\ throws = 0
    BY DEF Init
  <2>2. state \in [Made -> {"pending", "resolved", "rejected"}] /\ piped.on = "nothing"
    BY <2>1 DEF NoThen
  <2>3. used \in 0..MaxCalls /\ throws \in 0..MaxThrows
    BY <2>1, DeferredAssumption
  <2> QED  BY <2>2, <2>3 DEF CountsOK
<1> QED  BY <1>1, DeferredTurnsInit, PlainInit DEF ListsIInv

(* What is counted stays in its bounds.                                      *)
LEMMA CountsStep ==
  ASSUME CountsOK, [Next]_vars
  PROVE  piped'.on \in Made \cup {"nothing"} /\ used' \in 0..MaxCalls /\ throws' \in 0..MaxThrows
<1>1. MaxCalls \in Nat /\ MaxThrows \in Nat
  BY DeferredAssumption
<1>2. piped'.on \in Made \cup {"nothing"}
  <2>1. CASE piped' = piped
    BY <2>1 DEF CountsOK
  <2>2. CASE Then
    <3>1. PICK d \in Known : \E r : piped' = [on |-> d, returned |-> r]
      BY <2>2 DEF Then
    <3>2. piped'.on = d
      BY <3>1
    <3> QED  BY <3>2, KnownMade
  <2>3. Then \/ piped' = piped
    BY DEF Next, vars, ghosts, Proceed, Finish, CallHandler, CallSetState, CallDisableOrLock, CallFires,
           CallUpdate, CallForward, EndOfLoop, Crash, Return, Throw, UseList, Fire, Register, When
  <2> QED  BY <2>1, <2>2, <2>3
<1>3. used' = used \/ (used < MaxCalls /\ used' = used + 1)
  BY DEF Next, vars, bounds, Proceed, Finish, CallHandler, CallSetState, CallDisableOrLock, CallFires,
         CallUpdate, CallForward, EndOfLoop, Crash, Return, Throw, UseList, Fire, Register, When, Then, Call
<1>4. throws' = throws \/ (throws < MaxThrows /\ throws' = throws + 1)
  BY DEF Next, vars, bounds, Proceed, Finish, CallHandler, CallSetState, CallDisableOrLock, CallFires,
         CallUpdate, CallForward, EndOfLoop, Crash, Return, Throw, UseList, Fire, Register, When, Then, Call
<1>5. used' \in 0..MaxCalls
  BY <1>1, <1>3 DEF CountsOK
<1>6. throws' \in 0..MaxThrows
  BY <1>1, <1>4 DEF CountsOK
<1> QED  BY <1>2, <1>5, <1>6

(* Every step keeps it.                                                      *)
LEMMA ListsIInvStep ==
  ASSUME DeferredInv, DeferredInv', ListsIInv, [Next]_vars
  PROVE  ListsIInv'
<1>1. Deferreds' <=> Deferreds
  BY DomainStays DEF Deferreds
<1>2. CASE Deferreds
  <2>1. Inv /\ Inv'
    BY <1>1, <1>2 DEF DeferredInv, Inv
  <2>2. TurnsOK(DeferredFunctions)'
    BY <1>2, <2>1, DeferredSound, TurnsStep DEF ListsIInv
  <2>3. state' \in [Made -> {"pending", "resolved", "rejected"}]
    BY <2>1 DEF Inv, ListsOK
  <2> QED  BY <1>1, <1>2, <2>2, <2>3, CountsStep DEF ListsIInv, CountsOK
<1>3. CASE ~Deferreds
  <2>1. PlainInv' /\ state' = state
    BY <1>3, PlainInvStep DEF ListsIInv
  <2> QED  BY <1>1, <1>3, <2>1, CountsStep DEF ListsIInv, CountsOK
<1> QED  BY <1>2, <1>3

(* What is due stands behind the index.                                      *)
LEMMA TurnsGive ==
  ASSUME NEW F, NEW S, Sound(F, S), TurnsOK(F)
  PROVE  FiresInTurn
<1> SUFFICES ASSUME NEW l \in DOMAIN lists, lists[l].firing, CallsUnderWay(l), ~lists[l].gone, ~lists[l].wiped
             PROVE  lists[l].due = SubSeq(lists[l].items, lists[l].index + (IF InCallback(l) THEN 2 ELSE 1),
                                          lists[l].length)
  BY DEF FiresInTurn
<1>1. OnStack(l) /\ Turned(F, l)
  BY DEF CallsUnderWay, OnStack, TurnsOK
<1>2. PICK c : c = lists[l]
  OBVIOUS
<1>3. c.index \in Int
  BY <1>1, <1>2 DEF Turned, ListFine, Numbers
<1>4. InCallback(l) <=> ~Top(l)
  <2>1. calls \in Seq(S) /\ OneFiring
    BY DEF Sound
  <2>2. PICK p \in DOMAIN calls : calls[p].k = "fire" /\ calls[p].list = l
    BY <1>1 DEF OnStack
  <2>3. calls # <<>> /\ Head(calls) = calls[1] /\ 1 \in DOMAIN calls /\ DOMAIN calls = 1..Len(calls)
    <3>1. calls # <<>>
      BY <2>2
    <3> QED  BY <2>1, <3>1, Popped
  <2>4. Top(l) <=> p = 1
    BY <2>1, <2>2, <2>3 DEF Top, OneFiring
  <2>5. InCallback(l) <=> p > 1
    BY <2>1, <2>2 DEF InCallback, OneFiring
  <2> QED  BY <2>3, <2>4, <2>5
<1>5. CASE Top(l)
  <2>1. InTurn(c, c.index)
    BY <1>1, <1>2, <1>5, TurnedFacts DEF TurnOK
  <2> QED  BY <1>2, <1>4, <1>5, <2>1 DEF InTurn
<1>6. CASE ~Top(l)
  <2>1. InTurn(c, c.index + 1)
    BY <1>1, <1>2, <1>6, TurnedFacts DEF TurnOK
  <2>2. c.index + 1 + 1 = c.index + 2
    BY <1>3
  <2> QED  BY <1>2, <1>4, <1>6, <2>1, <2>2 DEF InTurn
<1> QED  BY <1>5, <1>6

LEMMA ListTypes ==
  ASSUME NEW F, TurnsOK(F), CountsOK
  PROVE  TypeOK
<1>1. ASSUME NEW l \in DOMAIN lists
      PROVE  /\ lists[l].start \in Nat /\ lists[l].length \in Nat
             /\ lists[l].index \in Nat \cup {-1}
  BY DEF TurnsOK, Turned, ListFine, Numbers
<1> QED  BY <1>1 DEF CountsOK, TypeOK

(* One data, or none.                                                        *)
LEMMA OnceGives ==
  ASSUME PlainInv
  PROVE  OnceKeepsItsData
<1> SUFFICES ASSUME "once" \in lists[Plain].flags
             PROVE  Cardinality(UNION {ToSet(seen[h]) : h \in Handlers}) <= 1
  BY DEF OnceKeepsItsData
<1>1. PICK U : U = UNION {ToSet(seen[h]) : h \in Handlers}
  OBVIOUS
<1>2. U \subseteq Passed
  BY <1>1 DEF Passed
<1>3. \A x, y \in U : x = y
  BY <1>2 DEF PlainInv, OnceData
<1>4. CASE U = {}
  BY <1>1, <1>4, FS_EmptySet
<1>5. CASE U # {}
  <2>1. PICK x \in U : TRUE
    BY <1>5
  <2>2. U = {x}
    BY <1>3, <2>1
  <2>3. Cardinality(U) = 1
    BY <2>2, FS_Singleton
  <2> QED  BY <1>1, <2>3
<1> QED  BY <1>4, <1>5

(* The indexes of every list that is firing stand where they belong: what    *)
(* they still lead to is what the firing owes a call, whatever the functions *)
(* called add and remove, and however deep the lists fire each other; and a  *)
(* list with the flag once passes one data only.                             *)
THEOREM ListsInvThm == Spec => []ListsInv
<1>1. Init => ListsIInv
  BY ListsIInvInit
<1>2. DeferredInv /\ DeferredInv' /\ ListsIInv /\ [Next]_vars => ListsIInv'
  BY ListsIInvStep
<1>3. DeferredInv /\ ListsIInv => ListsInv
  <2> SUFFICES ASSUME DeferredInv, ListsIInv
               PROVE  ListsInv
    OBVIOUS
  <2>1. CASE Deferreds
    <3>1. Inv /\ TurnsOK(DeferredFunctions) /\ CountsOK
      BY <2>1 DEF DeferredInv, Inv, ListsIInv
    <3>2. OnceKeepsItsData
      BY <2>1 DEF OnceKeepsItsData, Deferreds
    <3> QED  BY <3>1, <3>2, DeferredSound, TurnsGive, ListTypes DEF ListsInv
  <2>2. CASE ~Deferreds
    <3>1. PlainInv /\ TurnsOK(Users) /\ CountsOK
      BY <2>2 DEF ListsIInv, PlainInv
    <3> QED  BY <3>1, PlainSound, TurnsGive, ListTypes, OnceGives DEF ListsInv
  <2> QED  BY <2>1, <2>2
<1> QED  BY <1>1, <1>2, <1>3, DeferredInvThm, PTL DEF Spec
=============================================================================
