---------------------------- MODULE Events_proofs ----------------------------
(***************************************************************************)
(* Theorems about the events of jQuery and its data cache, for every        *)
(* document, every set of handlers and selectors and any number of calls.   *)
(***************************************************************************)
EXTENDS Events, FiniteSetTheorems, WellFoundedInduction, TLAPS

-----------------------------------------------------------------------------
(* Numbers and sequences.                                                   *)

(* Numbers are well ordered.                                                *)
LEMMA LeastNumber ==
  ASSUME NEW T \in SUBSET Nat, T # {}
  PROVE  \E x \in T : \A y \in T : x <= y
<1> DEFINE Initial == {0 .. n : n \in T}
<1>1. Initial \subseteq FiniteSubsetsOf(Nat) /\ Initial # {}
  <2> SUFFICES ASSUME NEW n \in T
               PROVE  0 .. n \in FiniteSubsetsOf(Nat)
    OBVIOUS
  <2>1. IsFiniteSet(0 .. n)
    BY FS_Interval
  <2>2. QED
    BY <2>1 DEF FiniteSubsetsOf
<1>2. PICK u \in Initial : \A v \in Initial : <<v, u>> \notin StrictSubsetOrdering(Nat)
  <2> HIDE DEF Initial
  <2>1. IsWellFoundedOn(StrictSubsetOrdering(Nat), FiniteSubsetsOf(Nat))
    BY FS_StrictSubsetOrderingWellFounded, Zenon
  <2>2. QED
    BY <1>1, <2>1, WFMin, Zenon
<1>3. PICK n \in T : u = 0 .. n
  OBVIOUS
<1>4. ASSUME NEW m \in T, m < n
      PROVE  FALSE
  <2>1. 0 .. m \in Initial /\ <<0 .. m, 0 .. n>> \notin StrictSubsetOrdering(Nat)
    BY <1>2, <1>3, Zenon
  <2>2. /\ 0 .. m \in SUBSET Nat /\ 0 .. n \in SUBSET Nat
        /\ 0 .. m \subseteq 0 .. n /\ n \in 0 .. n /\ n \notin 0 .. m
    BY <1>4, SMT
  <2>3. QED
    BY <2>1, <2>2, Zenon DEF StrictSubsetOrdering
<1>5. QED
  BY <1>4

(* What holds of 0 and of the next number with every number below n holds   *)
(* up to n.                                                                 *)
LEMMA UpTo ==
  ASSUME NEW n \in Nat, NEW P, 0 \in P, \A i \in 0 .. (n - 1) : i \in P => i + 1 \in P
  PROVE  0 .. n \subseteq P
<1> SUFFICES ASSUME (0 .. n) \ P # {}
             PROVE  FALSE
  OBVIOUS
<1>1. PICK x \in (0 .. n) \ P : \A y \in (0 .. n) \ P : x <= y
  <2>1. (0 .. n) \ P \in SUBSET Nat
    BY SMT
  <2>2. QED
    BY <2>1, LeastNumber
<1>2. x - 1 \in 0 .. (n - 1) /\ x - 1 \in P /\ x - 1 + 1 = x
  BY <1>1, SMT
<1>3. QED
  BY <1>1, <1>2

LEMMA ToSetOfMore ==
  ASSUME NEW X, NEW s \in Seq(X), NEW x \in X
  PROVE  ToSet(Append(s, x)) = ToSet(s) \cup {x}
<1>1. /\ DOMAIN Append(s, x) = DOMAIN s \cup {Len(s) + 1}
      /\ Append(s, x)[Len(s) + 1] = x /\ \A i \in DOMAIN s : Append(s, x)[i] = s[i]
  BY SMT
<1>2. QED
  BY <1>1 DEF ToSet

LEMMA InjectiveBoth ==
  ASSUME NEW X, NEW s \in Seq(X), NEW t \in Seq(X), IsInjective(s), IsInjective(t),
         ToSet(s) \cap ToSet(t) = {}
  PROVE  IsInjective(s \o t)
<1>1. ASSUME NEW i \in DOMAIN (s \o t), NEW j \in DOMAIN (s \o t), (s \o t)[i] = (s \o t)[j], i < j
      PROVE  FALSE
  <2>1. i \in Nat /\ j \in Nat /\ Len(s) \in Nat
    BY SMT
  <2>2. CASE j <= Len(s)
    <3>1. i \in DOMAIN s /\ j \in DOMAIN s /\ s[i] = s[j] /\ i # j
      BY <1>1, <2>1, <2>2, SMT
    <3>2. QED
      BY <3>1 DEF IsInjective
  <2>3. CASE i <= Len(s) /\ ~(j <= Len(s))
    <3>1. i \in DOMAIN s /\ j - Len(s) \in DOMAIN t /\ s[i] = t[j - Len(s)]
      BY <1>1, <2>1, <2>3, SMT
    <3>2. QED
      BY <3>1 DEF ToSet
  <2>4. CASE ~(i <= Len(s))
    <3>1. /\ i - Len(s) \in DOMAIN t /\ j - Len(s) \in DOMAIN t
          /\ t[i - Len(s)] = t[j - Len(s)] /\ i - Len(s) # j - Len(s)
      BY <1>1, <2>1, <2>4, SMT
    <3>2. QED
      BY <3>1 DEF IsInjective
  <2>5. QED
    BY <2>2, <2>3, <2>4
<1>2. ASSUME NEW i \in DOMAIN (s \o t), NEW j \in DOMAIN (s \o t)
      PROVE  i < j \/ j < i \/ i = j
  BY SMT
<1>3. QED
  BY <1>1, <1>2 DEF IsInjective

(* The prefixes of what Only keeps.                                         *)
Keeps(s, S, k, up) ==
  /\ up[0] = <<>>
  /\ \A i \in 1 .. k : up[i] = IF s[i] \in S THEN Append(up[i - 1], s[i]) ELSE up[i - 1]

LEMMA PrefixesExist ==
  ASSUME NEW X, NEW s \in Seq(X), NEW S
  PROVE  \E up \in [0 .. Len(s) -> Seq(X)] : Keeps(s, S, Len(s), up)
<1> DEFINE P == {k \in 0 .. Len(s) : \E up \in [0 .. k -> Seq(X)] : Keeps(s, S, k, up)}
<1>1. 0 \in P
  <2>1. [i \in 0 .. 0 |-> <<>>] \in [0 .. 0 -> Seq(X)] /\ [i \in 0 .. 0 |-> <<>>][0] = <<>>
    BY SMT
  <2>2. Keeps(s, S, 0, [i \in 0 .. 0 |-> <<>>])
    BY <2>1 DEF Keeps
  <2>3. 0 \in 0 .. Len(s)
    BY SMT
  <2>4. QED
    BY <2>1, <2>2, <2>3, Zenon
<1>2. ASSUME NEW k \in 0 .. (Len(s) - 1), k \in P
      PROVE  k + 1 \in P
  <2>1. PICK up \in [0 .. k -> Seq(X)] : Keeps(s, S, k, up)
    BY <1>2
  <2> DEFINE next == IF s[k + 1] \in S THEN Append(up[k], s[k + 1]) ELSE up[k]
             more == [i \in 0 .. (k + 1) |-> IF i = k + 1 THEN next ELSE up[i]]
  <2>2. k + 1 \in 1 .. Len(s) /\ s[k + 1] \in X /\ up[k] \in Seq(X)
    BY <1>2, SMT
  <2>3. next \in Seq(X)
    BY <2>2
  <2>4. more \in [0 .. (k + 1) -> Seq(X)]
    BY <2>3, SMT
  <2>5. Keeps(s, S, k + 1, more)
    <3>1. more[0] = <<>>
      BY <2>1, <1>2, SMT DEF Keeps
    <3>2. ASSUME NEW i \in 1 .. (k + 1)
          PROVE  more[i] = IF s[i] \in S THEN Append(more[i - 1], s[i]) ELSE more[i - 1]
      <4>1. CASE i = k + 1
        <5>1. more[i] = next /\ more[i - 1] = up[k]
          BY <4>1, <1>2, SMT
        <5>2. QED
          BY <5>1, <4>1
      <4>2. CASE i # k + 1
        <5>1. i \in 1 .. k /\ more[i] = up[i] /\ more[i - 1] = up[i - 1]
          BY <4>2, <1>2, SMT
        <5>2. QED
          BY <5>1, <2>1 DEF Keeps
      <4>3. QED
        BY <4>1, <4>2
    <3>3. QED
      BY <3>1, <3>2 DEF Keeps
  <2>6. k + 1 \in 0 .. Len(s)
    BY <1>2, SMT
  <2> HIDE DEF more
  <2>7. QED
    BY <2>4, <2>5, <2>6
<1>3. 0 .. Len(s) \subseteq P
  <2> HIDE DEF P
  <2>1. Len(s) \in Nat
    OBVIOUS
  <2>2. QED
    BY <1>1, <1>2, <2>1, UpTo, Zenon
<1>4. QED
  BY <1>3

(* Only is the last of the prefixes.                                        *)
LEMMA OnlyIs ==
  ASSUME NEW X, NEW s \in Seq(X), NEW S
  PROVE  \E up \in [0 .. Len(s) -> Seq(X)] : Keeps(s, S, Len(s), up) /\ Only(s, S) = up[Len(s)]
<1>1. PICK up \in [0 .. Len(s) -> Seq(X)] : Keeps(s, S, Len(s), up)
  BY PrefixesExist, Zenon
<1> DEFINE Rec(g) == [i \in 0 .. Len(s) |->
                        IF i = 0 THEN <<>>
                        ELSE IF s[i] \in S THEN Append(g[i - 1], s[i]) ELSE g[i - 1]]
           chosen == CHOOSE g : g = Rec(g)
<1>2. up = Rec(up)
  <2>1. ASSUME NEW i \in 0 .. Len(s)
        PROVE  up[i] = Rec(up)[i]
    <3>1. i = 0 \/ (i \in 1 .. Len(s) /\ i # 0)
      BY SMT
    <3>2. QED
      BY <1>1, <3>1 DEF Keeps
  <2>2. QED
    BY <2>1
<1>3. chosen = Rec(chosen)
  BY <1>2, Zenon
<1> DEFINE P == {k \in 0 .. Len(s) : chosen[k] = up[k]}
<1> HIDE DEF chosen
<1>4. 0 .. Len(s) \subseteq P
  <2>1. 0 \in P
    <3>1. chosen[0] = Rec(chosen)[0] /\ 0 \in 0 .. Len(s)
      BY <1>3, SMT
    <3>2. Rec(chosen)[0] = <<>>
      BY <3>1
    <3>3. QED
      BY <1>1, <3>1, <3>2 DEF Keeps
  <2>2. ASSUME NEW k \in 0 .. (Len(s) - 1), k \in P
        PROVE  k + 1 \in P
    <3>1. k + 1 \in 1 .. Len(s) /\ k + 1 \in 0 .. Len(s) /\ k + 1 - 1 = k /\ k + 1 # 0
      BY <2>2, SMT
    <3>2. chosen[k + 1] = Rec(chosen)[k + 1]
      BY <1>3, Zenon
    <3>3. Rec(chosen)[k + 1] = IF s[k + 1] \in S THEN Append(chosen[k], s[k + 1]) ELSE chosen[k]
      BY <3>1
    <3>4. up[k + 1] = IF s[k + 1] \in S THEN Append(up[k], s[k + 1]) ELSE up[k]
      BY <1>1, <3>1 DEF Keeps
    <3>5. QED
      BY <2>2, <3>1, <3>2, <3>3, <3>4
  <2> HIDE DEF P
  <2>3. Len(s) \in Nat
    OBVIOUS
  <2>4. QED
    BY <2>1, <2>2, <2>3, UpTo, Zenon
<1>5. Only(s, S) = chosen[Len(s)]
  BY DEF Only, chosen
<1>6. Len(s) \in 0 .. Len(s)
  BY SMT
<1>7. QED
  BY <1>1, <1>4, <1>5, <1>6

(* What Only keeps: the elements in S, none twice if none was twice in s.   *)
LEMMA OnlyKeeps ==
  ASSUME NEW X, NEW s \in Seq(X), NEW S
  PROVE  /\ Only(s, S) \in Seq(X)
         /\ ToSet(Only(s, S)) = ToSet(s) \cap S
         /\ IsInjective(s) => IsInjective(Only(s, S))
<1>1. PICK up \in [0 .. Len(s) -> Seq(X)] : Keeps(s, S, Len(s), up) /\ Only(s, S) = up[Len(s)]
  BY OnlyIs, Zenon
<1> DEFINE First(k) == {s[i] : i \in 1 .. k}
           Right(k) == /\ ToSet(up[k]) = First(k) \cap S
                       /\ IsInjective(s) => IsInjective(up[k])
           P == {k \in 0 .. Len(s) : Right(k)}
<1>2. Len(s) \in Nat
  OBVIOUS
<1>3. 0 \in P
  <2>1. up[0] = <<>> /\ 0 \in 0 .. Len(s) /\ First(0) = {}
    BY <1>1, <1>2, SMT DEF Keeps
  <2>2. ToSet(<<>>) = {} /\ IsInjective(<<>>)
    BY DEF ToSet, IsInjective
  <2>3. QED
    BY <2>1, <2>2
<1>4. ASSUME NEW k \in 0 .. (Len(s) - 1), k \in P
      PROVE  k + 1 \in P
  <2>1. k + 1 \in 1 .. Len(s) /\ k + 1 \in 0 .. Len(s) /\ k + 1 - 1 = k /\ k \in 0 .. Len(s)
    BY <1>2, <1>4, SMT
  <2>2. Right(k) /\ up[k] \in Seq(X) /\ s[k + 1] \in X
    BY <1>4, <2>1
  <2>3. up[k + 1] = IF s[k + 1] \in S THEN Append(up[k], s[k + 1]) ELSE up[k]
    BY <1>1, <2>1 DEF Keeps
  <2>4. First(k + 1) = First(k) \cup {s[k + 1]}
    <3>1. 1 .. (k + 1) = (1 .. k) \cup {k + 1}
      BY <2>1, SMT
    <3>2. QED
      BY <3>1
  <2>5. CASE s[k + 1] \in S
    <3>1. up[k + 1] = Append(up[k], s[k + 1])
      BY <2>3, <2>5
    <3>2. ToSet(Append(up[k], s[k + 1])) = ToSet(up[k]) \cup {s[k + 1]}
      <4>1. up[k] \in Seq(X) /\ s[k + 1] \in X
        BY <2>2
      <4>2. QED
        BY <4>1, ToSetOfMore
    <3>3. ASSUME IsInjective(s), s[k + 1] \in First(k)
          PROVE  FALSE
      <4>1. PICK i \in 1 .. k : s[i] = s[k + 1]
        BY <3>3
      <4>2. i \in DOMAIN s /\ k + 1 \in DOMAIN s /\ i # k + 1
        BY <4>1, <2>1, SMT
      <4>3. QED
        BY <4>1, <4>2, <3>3 DEF IsInjective
    <3>4. IsInjective(s) => IsInjective(up[k + 1])
      <4> SUFFICES ASSUME IsInjective(s), IsInjective(up[k]), s[k + 1] \notin ToSet(up[k])
                   PROVE  IsInjective(Append(up[k], s[k + 1]))
        BY <2>2, <3>1, <3>3
      <4>1. QED
        BY <2>2 DEF IsInjective, ToSet
    <3>5. QED
      BY <2>1, <2>2, <2>4, <2>5, <3>1, <3>2, <3>4
  <2>6. CASE s[k + 1] \notin S
    BY <2>1, <2>2, <2>3, <2>4, <2>6
  <2>7. QED
    BY <2>5, <2>6
<1>5. Len(s) \in P
  <2> HIDE DEF P
  <2>1. 0 .. Len(s) \subseteq P
    BY <1>2, <1>3, <1>4, UpTo, Zenon
  <2>2. QED
    BY <1>2, <2>1, SMT
<1>6. First(Len(s)) = ToSet(s)
  BY DEF ToSet
<1>7. up[Len(s)] \in Seq(X)
  BY <1>2, SMT
<1>8. QED
  BY <1>1, <1>5, <1>6, <1>7

(* And they keep the order they have in s.                                  *)
LEMMA OnlyInOrder ==
  ASSUME NEW X, NEW s \in Seq(X), NEW S
  PROVE  \A i, j \in DOMAIN Only(s, S) : i < j => Before(s, Only(s, S)[i], Only(s, S)[j])
<1>1. PICK up \in [0 .. Len(s) -> Seq(X)] : Keeps(s, S, Len(s), up) /\ Only(s, S) = up[Len(s)]
  BY OnlyIs, Zenon
<1> DEFINE Right(k) == /\ \A i \in DOMAIN up[k] : \E a \in 1 .. k : s[a] = up[k][i]
                       /\ \A i, j \in DOMAIN up[k] : i < j => Before(s, up[k][i], up[k][j])
           P == {k \in 0 .. Len(s) : Right(k)}
<1>2. Len(s) \in Nat
  OBVIOUS
<1>3. 0 \in P
  <2>1. up[0] = <<>> /\ 0 \in 0 .. Len(s)
    BY <1>1, <1>2, SMT DEF Keeps
  <2>2. QED
    BY <2>1
<1>4. ASSUME NEW k \in 0 .. (Len(s) - 1), k \in P
      PROVE  k + 1 \in P
  <2>1. k + 1 \in 1 .. Len(s) /\ k + 1 \in 0 .. Len(s) /\ k + 1 - 1 = k /\ k \in 0 .. Len(s)
    BY <1>2, <1>4, SMT
  <2>2. Right(k) /\ up[k] \in Seq(X) /\ s[k + 1] \in X
    BY <1>4, <2>1
  <2>3. up[k + 1] = IF s[k + 1] \in S THEN Append(up[k], s[k + 1]) ELSE up[k]
    BY <1>1, <2>1 DEF Keeps
  <2>4. \A a \in 1 .. k : a \in 1 .. (k + 1) /\ a < k + 1 /\ a \in DOMAIN s
    BY <1>2, <2>1, SMT
  <2>5. CASE s[k + 1] \in S
    <3>1. up[k + 1] = Append(up[k], s[k + 1])
      BY <2>3, <2>5
    <3>2. /\ DOMAIN up[k + 1] = 1 .. (Len(up[k]) + 1) /\ DOMAIN up[k] = 1 .. Len(up[k]) /\ Len(up[k]) \in Nat
          /\ up[k + 1][Len(up[k]) + 1] = s[k + 1] /\ \A i \in DOMAIN up[k] : up[k + 1][i] = up[k][i]
      BY <2>2, <3>1, SMT
    <3>3. \A i \in DOMAIN up[k + 1] : i \in DOMAIN up[k] \/ i = Len(up[k]) + 1
      BY <3>2, SMT
    <3>4. ASSUME NEW i \in DOMAIN up[k + 1]
          PROVE  \E a \in 1 .. (k + 1) : s[a] = up[k + 1][i]
      <4>1. CASE i \in DOMAIN up[k]
        BY <2>2, <2>4, <3>2, <4>1
      <4>2. CASE i = Len(up[k]) + 1
        <5>1. k + 1 \in 1 .. (k + 1)
          BY <2>1, SMT
        <5>2. QED
          BY <3>2, <4>2, <5>1
      <4>3. QED
        BY <3>3, <4>1, <4>2
    <3>5. ASSUME NEW i \in DOMAIN up[k + 1], NEW j \in DOMAIN up[k + 1], i < j
          PROVE  Before(s, up[k + 1][i], up[k + 1][j])
      <4>1. i \in DOMAIN up[k]
        BY <3>2, <3>5, SMT
      <4>2. CASE j \in DOMAIN up[k]
        BY <2>2, <3>2, <3>5, <4>1, <4>2
      <4>3. CASE j = Len(up[k]) + 1
        <5>1. PICK a \in 1 .. k : s[a] = up[k][i]
          BY <2>2, <4>1
        <5>2. a \in DOMAIN s /\ k + 1 \in DOMAIN s /\ a < k + 1
          BY <1>2, <2>1, <2>4, SMT
        <5>3. s[a] = up[k + 1][i] /\ s[k + 1] = up[k + 1][j]
          BY <3>2, <4>1, <4>3, <5>1
        <5>4. QED
          BY <5>2, <5>3 DEF Before
      <4>4. QED
        BY <3>3, <4>2, <4>3
    <3>6. QED
      BY <2>1, <3>4, <3>5
  <2>6. CASE s[k + 1] \notin S
    BY <2>1, <2>2, <2>3, <2>4, <2>6
  <2>7. QED
    BY <2>5, <2>6
<1>5. Len(s) \in P
  <2> HIDE DEF P
  <2>1. 0 .. Len(s) \subseteq P
    BY <1>2, <1>3, <1>4, UpTo, Zenon
  <2>2. QED
    BY <1>2, <2>1, SMT
<1>6. QED
  BY <1>1, <1>5

(* When the elements of F are in front in s, they are in front of what Only *)
(* keeps, and there are as many as Only keeps of them alone.                *)
Fronted(s, F, m) == m \in 0 .. Len(s) /\ \A i \in DOMAIN s : s[i] \in F <=> i <= m

LEMMA OnlyFronted ==
  ASSUME NEW X, NEW s \in Seq(X), NEW S, NEW F, NEW m, Fronted(s, F, m)
  PROVE  Fronted(Only(s, S), F, Len(Only(s, S \cap F)))
<1>1. PICK up \in [0 .. Len(s) -> Seq(X)] : Keeps(s, S, Len(s), up) /\ Only(s, S) = up[Len(s)]
  BY OnlyIs, Zenon
<1>2. PICK in \in [0 .. Len(s) -> Seq(X)] :
        Keeps(s, S \cap F, Len(s), in) /\ Only(s, S \cap F) = in[Len(s)]
  BY OnlyIs, Zenon
<1> DEFINE Right(k) == /\ Fronted(up[k], F, Len(in[k]))
                       /\ k <= m => Len(in[k]) = Len(up[k])
           P == {k \in 0 .. Len(s) : Right(k)}
<1>3. Len(s) \in Nat
  OBVIOUS
<1>4. 0 \in P
  <2>1. up[0] = <<>> /\ in[0] = <<>> /\ 0 \in 0 .. Len(s)
    BY <1>1, <1>2, <1>3, SMT DEF Keeps
  <2>2. QED
    BY <2>1 DEF Fronted
<1>5. ASSUME NEW k \in 0 .. (Len(s) - 1), k \in P
      PROVE  k + 1 \in P
  <2>1. k + 1 \in 1 .. Len(s) /\ k + 1 \in 0 .. Len(s) /\ k + 1 - 1 = k /\ k \in 0 .. Len(s) /\ k \in Int
    BY <1>3, <1>5, SMT
  <2>2. Right(k) /\ up[k] \in Seq(X) /\ in[k] \in Seq(X) /\ s[k + 1] \in X
    BY <1>5, <2>1
  <2>3. /\ up[k + 1] = IF s[k + 1] \in S THEN Append(up[k], s[k + 1]) ELSE up[k]
        /\ in[k + 1] = IF s[k + 1] \in S \cap F THEN Append(in[k], s[k + 1]) ELSE in[k]
    BY <1>1, <1>2, <2>1 DEF Keeps
  <2>4. (s[k + 1] \in F <=> k + 1 <= m) /\ m \in Nat
    BY <1>3, <2>1, SMT DEF Fronted
  <2>5. CASE s[k + 1] \notin S
    <3>1. k + 1 <= m => k <= m
      BY <2>1, <2>4, SMT
    <3>2. QED
      BY <2>1, <2>2, <2>3, <2>5, <3>1
  <2>6. CASE s[k + 1] \in S /\ s[k + 1] \in F
    <3>1. up[k + 1] = Append(up[k], s[k + 1]) /\ in[k + 1] = Append(in[k], s[k + 1])
      BY <2>3, <2>6
    <3>2. Len(in[k]) = Len(up[k])
      BY <2>1, <2>2, <2>4, <2>6, SMT
    <3>3. Fronted(Append(up[k], s[k + 1]), F, Len(Append(in[k], s[k + 1])))
      BY <2>2, <2>6, <3>2 DEF Fronted
    <3>4. Len(Append(in[k], s[k + 1])) = Len(Append(up[k], s[k + 1]))
      BY <2>2, <3>2
    <3>5. QED
      BY <2>1, <3>1, <3>3, <3>4
  <2>7. CASE s[k + 1] \in S /\ s[k + 1] \notin F
    <3>1. up[k + 1] = Append(up[k], s[k + 1]) /\ in[k + 1] = in[k]
      BY <2>3, <2>7
    <3>2. Fronted(Append(up[k], s[k + 1]), F, Len(in[k]))
      <4> DEFINE u == up[k]
                 x == s[k + 1]
      <4>1. u \in Seq(X) /\ x \in X /\ Fronted(u, F, Len(in[k])) /\ x \notin F
        BY <2>2, <2>7
      <4> HIDE DEF u, x
      <4>2. Len(in[k]) \in 0 .. Len(Append(u, x))
        BY <4>1, SMT DEF Fronted
      <4>3. ASSUME NEW i \in DOMAIN Append(u, x)
            PROVE  Append(u, x)[i] \in F <=> i <= Len(in[k])
        BY <4>1, SMT DEF Fronted
      <4>4. QED
        BY <4>2, <4>3 DEF Fronted, u, x
    <3>3. ~(k + 1 <= m)
      BY <2>4, <2>7
    <3>4. QED
      BY <2>1, <3>1, <3>2, <3>3
  <2>8. QED
    BY <2>5, <2>6, <2>7
<1>6. Len(s) \in P
  <2> HIDE DEF P
  <2>1. 0 .. Len(s) \subseteq P
    BY <1>3, <1>4, <1>5, UpTo, Zenon
  <2>2. QED
    BY <1>3, <2>1, SMT
<1>7. QED
  BY <1>1, <1>2, <1>6

-----------------------------------------------------------------------------
(* The document is a forest.                                                *)

Grows(level) == \A n \in Node : parent[n] # None => level[parent[n]] < level[n]
Forest ==
  /\ parent \in [Node -> Node \cup {None}]
  /\ \E k \in Nat : \E level \in [Node -> 0 .. k] : Grows(level)

(* What a parent hands on to its children, every element has.               *)
LEMMA TreeInduction ==
  ASSUME Forest, NEW P, None \in P, \A n \in Node : parent[n] \in P => n \in P
  PROVE  Node \cup {None} \subseteq P
<1>1. PICK k \in Nat : \E level \in [Node -> 0 .. k] : Grows(level)
  BY DEF Forest
<1>2. PICK level \in [Node -> 0 .. k] : Grows(level)
  BY <1>1
<1> SUFFICES ASSUME Node \ P # {}
             PROVE  FALSE
  OBVIOUS
<1> DEFINE T == {level[n] : n \in Node \ P}
<1>3. T \in SUBSET Nat /\ T # {}
  BY <1>2, SMT
<1>4. PICK x \in T : \A y \in T : x <= y
  BY <1>3, LeastNumber
<1>5. PICK n \in Node \ P : x = level[n]
  BY <1>4
<1>6. parent[n] \in Node \ P
  BY <1>5 DEF Forest
<1>7. parent[n] # None
  BY <1>6
<1>8. level[parent[n]] < level[n] /\ level[parent[n]] \in T
  BY <1>2, <1>5, <1>6, <1>7 DEF Grows
<1>9. level[n] \in Nat /\ level[parent[n]] \in Nat /\ level[n] <= level[parent[n]]
  BY <1>2, <1>4, <1>5, <1>6, <1>8, SMT
<1>10. QED
  BY <1>8, <1>9, SMT

(* A walk from an element up to one of stop, with a part for every element. *)
Step(own, stop, w, m) == IF m \in stop THEN <<>> ELSE own[m] \o w[parent[m]]
Walk(own, stop, w, A) == \A m \in A : w[m] = Step(own, stop, w, m)

LEMMA WalkExists ==
  ASSUME Forest, None \notin Node, NEW X, NEW own \in [Node -> Seq(X)], NEW stop, None \in stop
  PROVE  \E w \in [Node \cup {None} -> Seq(X)] : Walk(own, stop, w, Node \cup {None})
<1>1. PICK k \in Nat : \E level \in [Node -> 0 .. k] : Grows(level)
  BY DEF Forest
<1>2. PICK level \in [Node -> 0 .. k] : Grows(level)
  BY <1>1
<1> DEFINE A(j) == {None} \cup {m \in Node : level[m] < j}
           P == {j \in 0 .. (k + 1) : \E w \in [A(j) -> Seq(X)] : Walk(own, stop, w, A(j))}
<1>3. 0 \in P
  <2>1. A(0) = {None}
    BY <1>2, SMT
  <2>2. [m \in {None} |-> <<>>] \in [{None} -> Seq(X)]
    OBVIOUS
  <2>3. Walk(own, stop, [m \in {None} |-> <<>>], {None})
    BY DEF Walk, Step
  <2>4. 0 \in 0 .. (k + 1)
    BY SMT
  <2>5. QED
    BY <2>1, <2>2, <2>3, <2>4
<1>4. ASSUME NEW j \in 0 .. (k + 1 - 1), j \in P
      PROVE  j + 1 \in P
  <2>1. PICK w \in [A(j) -> Seq(X)] : Walk(own, stop, w, A(j))
    BY <1>4
  <2> DEFINE more == [m \in A(j + 1) |-> Step(own, stop, w, m)]
  <2>2. ASSUME NEW m \in A(j + 1), m \notin stop
        PROVE  m \in Node /\ parent[m] \in A(j)
    <3>1. m \in Node /\ level[m] < j + 1
      BY <2>2
    <3>2. parent[m] \in Node => level[parent[m]] < level[m] /\ level[parent[m]] \in Nat /\ level[m] \in Nat
      BY <1>2, <3>1, SMT DEF Grows
    <3>3. parent[m] \in Node => level[parent[m]] < j
      BY <3>1, <3>2, <1>4, SMT
    <3>4. parent[m] \in Node \cup {None}
      BY <3>1 DEF Forest
    <3>5. QED
      BY <3>1, <3>3, <3>4
  <2>3. A(j) \subseteq A(j + 1)
    BY <1>2, <1>4, SMT
  <2>4. more \in [A(j + 1) -> Seq(X)]
    <3> SUFFICES ASSUME NEW m \in A(j + 1)
                 PROVE  Step(own, stop, w, m) \in Seq(X)
      OBVIOUS
    <3>1. CASE m \in stop
      BY <3>1 DEF Step
    <3>2. CASE m \notin stop
      <4>1. own[m] \in Seq(X) /\ w[parent[m]] \in Seq(X)
        BY <2>1, <2>2, <3>2
      <4>2. QED
        BY <4>1, <3>2 DEF Step
    <3>3. QED
      BY <3>1, <3>2
  <2>5. Walk(own, stop, more, A(j + 1))
    <3> SUFFICES ASSUME NEW m \in A(j + 1)
                 PROVE  Step(own, stop, w, m) = Step(own, stop, more, m)
      BY DEF Walk
    <3>1. CASE m \in stop
      BY <3>1 DEF Step
    <3>2. CASE m \notin stop
      <4>1. parent[m] \in A(j) /\ parent[m] \in A(j + 1)
        BY <2>2, <2>3, <3>2
      <4>2. more[parent[m]] = Step(own, stop, w, parent[m])
        BY <4>1
      <4>3. w[parent[m]] = Step(own, stop, w, parent[m])
        BY <4>1, <2>1 DEF Walk
      <4> HIDE DEF more
      <4>4. QED
        BY <4>2, <4>3, <3>2 DEF Step
    <3>3. QED
      BY <3>1, <3>2
  <2>6. j + 1 \in 0 .. (k + 1)
    BY <1>4, SMT
  <2> HIDE DEF more
  <2>7. QED
    BY <2>4, <2>5, <2>6
<1>5. k + 1 \in P
  <2> HIDE DEF P
  <2>1. k + 1 \in Nat
    BY SMT
  <2>2. PICK top \in Nat : top = k + 1
    BY <2>1
  <2>3. ASSUME NEW j \in 0 .. (top - 1), j \in P
        PROVE  j + 1 \in P
    <3>1. j \in 0 .. (k + 1 - 1)
      BY <2>2, <2>3
    <3>2. QED
      BY <1>4, <2>3, <3>1
  <2>4. 0 .. (k + 1) \subseteq P
    BY <1>3, <2>2, <2>3, UpTo
  <2>5. QED
    BY <2>4, SMT
<1>6. A(k + 1) = Node \cup {None}
  BY <1>2, SMT
<1>7. QED
  BY <1>5, <1>6

(* The walk chosen is the walk there is.                                    *)
LEMMA WalkIs ==
  ASSUME Forest, None \notin Node, NEW X, NEW own \in [Node -> Seq(X)], NEW stop, None \in stop,
         NEW w, Walk(own, stop, w, Node \cup {None})
  PROVE  \A m \in Node \cup {None} : w[m] \in Seq(X)
<1> DEFINE P == {m \in Node \cup {None} : w[m] \in Seq(X)}
<1>1. None \in P
  <2>1. w[None] = <<>> /\ <<>> \in Seq(X)
    BY DEF Walk, Step
  <2>2. QED
    BY <2>1
<1>2. ASSUME NEW n \in Node, parent[n] \in P
      PROVE  n \in P
  <2>1. w[n] = Step(own, stop, w, n) /\ own[n] \in Seq(X) /\ w[parent[n]] \in Seq(X)
    BY <1>2 DEF Walk
  <2>2. Step(own, stop, w, n) \in Seq(X)
    BY <2>1 DEF Step
  <2>3. QED
    BY <2>1, <2>2
<1>3. Node \cup {None} \subseteq P
  <2> HIDE DEF P
  <2>1. QED
    BY <1>1, <1>2, TreeInduction, Zenon
<1>4. QED
  BY <1>3

(* The elements from one up to the top of its tree.                         *)
LEMMA AncestorsAre ==
  ASSUME Forest, None \notin Node
  PROVE  /\ Ancestors(None) = <<>>
         /\ \A n \in Node : Ancestors(n) = <<n>> \o Ancestors(parent[n])
         /\ \A n \in Node \cup {None} : Ancestors(n) \in Seq(Node)
<1> DEFINE own == [m \in Node |-> <<m>>]
           up == CHOOSE g : g = [m \in Node \cup {None} |-> IF m = None THEN <<>> ELSE <<m>> \o g[parent[m]]]
<1>1. own \in [Node -> Seq(Node)]
  OBVIOUS
<1>2. PICK w \in [Node \cup {None} -> Seq(Node)] : Walk(own, {None}, w, Node \cup {None})
  <2> HIDE DEF own
  <2>1. QED
    BY <1>1, WalkExists
<1>3. w = [m \in Node \cup {None} |-> IF m = None THEN <<>> ELSE <<m>> \o w[parent[m]]]
  <2>1. \A m \in Node \cup {None} : w[m] = IF m = None THEN <<>> ELSE <<m>> \o w[parent[m]]
    BY <1>2 DEF Walk, Step
  <2>2. QED
    BY <2>1
<1>4. up = [m \in Node \cup {None} |-> IF m = None THEN <<>> ELSE <<m>> \o up[parent[m]]]
  BY <1>3, Zenon
<1> HIDE DEF up
<1>5. \A n : Ancestors(n) = up[n]
  BY Zenon DEF Ancestors, up
<1>6. \A m \in Node \cup {None} : up[m] = IF m = None THEN <<>> ELSE <<m>> \o up[parent[m]]
  BY <1>4
<1>7. Walk(own, {None}, up, Node \cup {None})
  BY <1>6 DEF Walk, Step
<1>8. \A m \in Node \cup {None} : up[m] \in Seq(Node)
  <2> HIDE DEF own
  <2>1. QED
    BY <1>1, <1>7, WalkIs
<1>9. QED
  BY <1>5, <1>6, <1>8

LEMMA ToSetOfBoth ==
  ASSUME NEW X, NEW s \in Seq(X), NEW t \in Seq(X)
  PROVE  ToSet(s \o t) = ToSet(s) \cup ToSet(t)
<1>1. ASSUME NEW i \in DOMAIN (s \o t)
      PROVE  (s \o t)[i] \in ToSet(s) \cup ToSet(t)
  <2>1. CASE i <= Len(s)
    <3>1. i \in DOMAIN s /\ (s \o t)[i] = s[i]
      BY <2>1, SMT
    <3>2. QED
      BY <3>1 DEF ToSet
  <2>2. CASE ~(i <= Len(s))
    <3>1. i - Len(s) \in DOMAIN t /\ (s \o t)[i] = t[i - Len(s)]
      BY <2>2, SMT
    <3>2. QED
      BY <3>1 DEF ToSet
  <2>3. QED
    BY <2>1, <2>2
<1>2. ASSUME NEW i \in DOMAIN s
      PROVE  s[i] \in ToSet(s \o t)
  <2>1. i \in DOMAIN (s \o t) /\ (s \o t)[i] = s[i]
    BY SMT
  <2>2. QED
    BY <2>1 DEF ToSet
<1>3. ASSUME NEW i \in DOMAIN t
      PROVE  t[i] \in ToSet(s \o t)
  <2>1. Len(s) + i \in DOMAIN (s \o t) /\ (s \o t)[Len(s) + i] = t[i]
    BY SMT
  <2>2. QED
    BY <2>1 DEF ToSet
<1>4. ToSet(s \o t) \subseteq ToSet(s) \cup ToSet(t)
  BY <1>1 DEF ToSet
<1>5. ToSet(s) \subseteq ToSet(s \o t) /\ ToSet(t) \subseteq ToSet(s \o t)
  <2> HIDE DEF ToSet
  <2>1. (\A x \in ToSet(s) : \E i \in DOMAIN s : x = s[i]) /\ (\A x \in ToSet(t) : \E i \in DOMAIN t : x = t[i])
    BY DEF ToSet
  <2>2. QED
    BY <1>2, <1>3, <2>1
<1>6. QED
  BY <1>4, <1>5

(* What an element lies in, and what lies in it.                            *)
LEMMA AboveIs ==
  ASSUME Forest, None \notin Node, NEW n \in Node
  PROVE  ToSet(Ancestors(n)) = {n} \cup ToSet(Ancestors(parent[n]))
<1>1. Ancestors(n) = <<n>> \o Ancestors(parent[n]) /\ Ancestors(parent[n]) \in Seq(Node)
  <2>1. parent[n] \in Node \cup {None}
    BY DEF Forest
  <2>2. QED
    BY <2>1, AncestorsAre
<1>2. <<n>> \in Seq(Node) /\ ToSet(<<n>>) = {n}
  BY DEF ToSet
<1>3. ToSet(<<n>> \o Ancestors(parent[n])) = ToSet(<<n>>) \cup ToSet(Ancestors(parent[n]))
  <2>1. \A s, t \in Seq(Node) : ToSet(s \o t) = ToSet(s) \cup ToSet(t)
    BY ToSetOfBoth
  <2>2. QED
    BY <1>1, <1>2, <2>1, Zenon
<1>4. QED
  BY <1>1, <1>2, <1>3

LEMMA InsideIs ==
  ASSUME Forest, None \notin Node, NEW n \in Node
  PROVE  /\ n \in Inside(n) /\ Inside(n) \subseteq Node
         /\ \A m \in Node : m \in Inside(n) <=> m = n \/ parent[m] \in Inside(n)
<1>1. \A m \in Node : m \in Inside(n) <=> m = n \/ n \in ToSet(Ancestors(parent[m]))
  BY AboveIs DEF Inside
<1>2. ASSUME NEW m \in Node
      PROVE  n \in ToSet(Ancestors(parent[m])) <=> parent[m] \in Inside(n)
  <2>1. parent[m] \in Node \/ parent[m] = None
    BY DEF Forest
  <2>2. ToSet(Ancestors(None)) = {}
    <3>1. Ancestors(None) = <<>>
      BY AncestorsAre
    <3>2. QED
      BY <3>1 DEF ToSet
  <2>3. QED
    BY <2>1, <2>2 DEF Inside
<1>3. QED
  BY <1>1, <1>2 DEF Inside

(* Taking an element out, or in under one that is not inside it, leaves a   *)
(* forest.                                                                  *)
LEMMA CutForest ==
  ASSUME Forest, None \notin Node, NEW n \in Node, parent' = [parent EXCEPT ![n] = None]
  PROVE  Forest'
<1>1. PICK k \in Nat : \E level \in [Node -> 0 .. k] : Grows(level)
  BY DEF Forest
<1>2. PICK level \in [Node -> 0 .. k] : Grows(level)
  BY <1>1
<1>3. parent' \in [Node -> Node \cup {None}]
  BY DEF Forest
<1>4. \A m \in Node : parent'[m] # None => parent'[m] = parent[m]
  BY DEF Forest
<1>5. \A m \in Node : parent'[m] # None => level[parent'[m]] < level[m]
  BY <1>2, <1>4 DEF Grows
<1>6. QED
  BY <1>3, <1>5 DEF Forest, Grows

LEMMA AppendForest ==
  ASSUME Forest, None \notin Node, NEW n \in Node, NEW p \in Node, p \notin Inside(n), parent[n] = None,
         parent' = [parent EXCEPT ![n] = p]
  PROVE  Forest'
<1>1. PICK k \in Nat : \E level \in [Node -> 0 .. k] : Grows(level)
  BY DEF Forest
<1>2. PICK level \in [Node -> 0 .. k] : Grows(level)
  BY <1>1
<1> DEFINE deeper == [m \in Node |-> IF m \in Inside(n) THEN level[m] + k + 1 ELSE level[m]]
           top == k + k + 1
<1>3. top \in Nat /\ deeper \in [Node -> 0 .. top]
  BY <1>2, SMT
<1>4. parent' \in [Node -> Node \cup {None}]
  BY DEF Forest
<1>5. ASSUME NEW m \in Node, parent'[m] # None
      PROVE  deeper[parent'[m]] < deeper[m]
  <2>1. CASE m = n
    <3>1. parent'[m] = p /\ n \in Inside(n)
      BY <2>1, InsideIs DEF Forest
    <3>2. deeper[p] = level[p] /\ deeper[n] = level[n] + k + 1
      BY <3>1
    <3>3. level[p] \in 0 .. k /\ level[n] \in 0 .. k
      BY <1>2
    <3>4. QED
      BY <2>1, <3>1, <3>2, <3>3, SMT
  <2>2. CASE m # n
    <3>1. parent'[m] = parent[m]
      BY <2>2 DEF Forest
    <3>2. parent[m] \in Node /\ level[parent[m]] < level[m]
      BY <1>2, <1>5, <3>1 DEF Forest, Grows
    <3>3. m \in Inside(n) <=> parent[m] \in Inside(n)
      BY <2>2, InsideIs
    <3>4. level[parent[m]] \in 0 .. k /\ level[m] \in 0 .. k
      BY <1>2, <3>2
    <3>5. QED
      BY <3>1, <3>2, <3>3, <3>4, SMT
  <2>3. QED
    BY <2>1, <2>2
<1> HIDE DEF deeper, top
<1>6. QED
  BY <1>3, <1>4, <1>5 DEF Forest, Grows

-----------------------------------------------------------------------------
(* The data cache.                                                          *)

Bindings == [list : Seq(HandleObj), delegateCount : Nat]
Entries ==
  [events : UNION {[T -> Bindings] : T \in SUBSET Type}, handle : Node \cup {None}, data : BOOLEAN]

(* The keys in use, which elements have one each, and those to use again.   *)
Keys == {expando[n] : n \in {m \in Node : expando[m] # None}}
KeysInv ==
  /\ expando \in [Node -> Nat \cup {None}]
  /\ guid \in Nat \ {0}
  /\ deleted \in Seq(Nat) /\ IsInjective(deleted)
  /\ \A n, m \in Node : expando[n] # None /\ expando[n] = expando[m] => n = m
  /\ cache \in [Keys -> Entries]
  /\ ToSet(deleted) \cap Keys = {}
  /\ \A k \in Keys \cup ToSet(deleted) : k < guid

LEMMA NothingBound == Empty \in Entries
<1>1. <<>> \in [{} -> Bindings]
  OBVIOUS
<1>2. QED
  BY <1>1 DEF Empty, Entries

LEMMA DataTyped ==
  ASSUME KeysInv, NEW n \in Node
  PROVE  Data(n) \in Entries
<1>1. expando[n] # None => cache[expando[n]] \in Entries
  BY DEF KeysInv, Keys
<1>2. QED
  BY <1>1, NothingBound DEF Data

(* The key an element gets is nobody's and is not to be used again.         *)
LEMMA NewKeyIsFree ==
  ASSUME KeysInv, NEW n \in Node, NEW entry, expando[n] = None, Write(n, entry)
  PROVE  /\ KeyOf(n) \in Nat /\ KeyOf(n) \notin Keys
         /\ deleted' \in Seq(Nat) /\ IsInjective(deleted')
         /\ ToSet(deleted') \subseteq ToSet(deleted) /\ KeyOf(n) \notin ToSet(deleted')
         /\ guid' \in {guid, guid + 1} /\ KeyOf(n) < guid'
<1>1. CASE deleted = <<>>
  <2>1. KeyOf(n) = guid /\ deleted' = <<>> /\ guid' = guid + 1
    BY <1>1 DEF KeyOf, NewKey, Write
  <2>2. guid \notin Keys /\ guid \in Nat /\ guid < guid + 1
    BY SMT DEF KeysInv
  <2>3. ToSet(deleted') = {} /\ deleted' = deleted
    BY <2>1, <1>1 DEF ToSet
  <2>4. QED
    BY <2>1, <2>2, <2>3 DEF KeysInv
<1>2. CASE deleted # <<>>
  <2> DEFINE last == Len(deleted)
  <2>1. KeyOf(n) = deleted[last] /\ deleted' = Front(deleted) /\ guid' = guid
    BY <1>2 DEF KeyOf, NewKey, Write, Last
  <2>2. deleted \in Seq(Nat) /\ last \in DOMAIN deleted /\ last \in Nat
    BY <1>2 DEF KeysInv
  <2>3. deleted' \in Seq(Nat) /\ DOMAIN deleted' = 1 .. (last - 1) /\ \A i \in DOMAIN deleted' : deleted'[i] = deleted[i]
    BY <2>1, <2>2, SMT DEF Front
  <2>4. DOMAIN deleted' \subseteq DOMAIN deleted /\ last \notin DOMAIN deleted'
    BY <2>2, <2>3, SMT
  <2>5. IsInjective(deleted')
    BY <2>3, <2>4 DEF KeysInv, IsInjective
  <2>6. ToSet(deleted') \subseteq ToSet(deleted) /\ deleted[last] \in ToSet(deleted)
    BY <2>2, <2>3, <2>4 DEF ToSet
  <2>7. deleted[last] \notin ToSet(deleted')
    BY <2>2, <2>3, <2>4 DEF KeysInv, IsInjective, ToSet
  <2>8. deleted[last] \in Nat /\ deleted[last] \notin Keys /\ deleted[last] < guid
    BY <2>2, <2>6 DEF KeysInv
  <2>9. QED
    BY <2>1, <2>3, <2>5, <2>6, <2>7, <2>8
<1>3. QED
  BY <1>1, <1>2

LEMMA WriteKeeps ==
  ASSUME None \notin Nat, KeysInv, NEW n \in Node, NEW entry \in Entries, Write(n, entry)
  PROVE  /\ KeysInv'
         /\ Data(n)' = entry /\ expando'[n] # None
         /\ \A m \in Node \ {n} : Data(m)' = Data(m) /\ expando'[m] = expando[m]
         /\ guid' \in {guid, guid + 1} /\ (expando[n] # None => guid' = guid)
<1> DEFINE key == KeyOf(n)
<1>1. /\ cache' = [x \in DOMAIN cache \cup {key} |-> IF x = key THEN entry ELSE cache[x]]
      /\ expando' = [expando EXCEPT ![n] = key]
  BY DEF Write, Put
<1>2. /\ key \in Nat /\ (expando[n] # None => key = expando[n])
      /\ (expando[n] = None => key \notin Keys)
      /\ deleted' \in Seq(Nat) /\ IsInjective(deleted')
      /\ ToSet(deleted') \subseteq ToSet(deleted) /\ key \notin ToSet(deleted')
      /\ guid' \in {guid, guid + 1} /\ key < guid' /\ (expando[n] # None => guid' = guid)
  <2>1. CASE expando[n] = None
    BY <2>1, NewKeyIsFree
  <2>2. CASE expando[n] # None
    <3>1. key = expando[n] /\ deleted' = deleted /\ guid' = guid
      BY <2>2 DEF KeyOf, Write
    <3>2. key \in Keys
      BY <2>2, <3>1 DEF Keys
    <3>3. QED
      BY <2>2, <3>1, <3>2 DEF KeysInv
  <2>3. QED
    BY <2>1, <2>2
<1> HIDE DEF key
<1>3. expando' \in [Node -> Nat \cup {None}] /\ expando'[n] = key /\ \A m \in Node \ {n} : expando'[m] = expando[m]
  BY <1>1, <1>2 DEF KeysInv
<1>4. key # None
  BY <1>2
<1>5. ASSUME NEW m \in Node \ {n}, expando[m] # None
      PROVE  expando[m] # key
  <2>1. expando[m] \in Keys
    BY <1>5 DEF Keys
  <2>2. QED
    BY <1>2, <1>5, <2>1 DEF KeysInv
<1>6. Keys' = Keys \cup {key}
  <2>1. Keys' \subseteq Keys \cup {key}
    BY <1>3 DEF Keys
  <2>2. Keys \cup {key} \subseteq Keys'
    <3>1. key \in Keys'
      BY <1>3, <1>4 DEF Keys
    <3>2. ASSUME NEW m \in Node, expando[m] # None
          PROVE  expando[m] \in Keys'
      <4>1. CASE m = n
        BY <1>2, <3>1, <3>2, <4>1
      <4>2. CASE m # n
        <5>1. expando'[m] = expando[m]
          BY <1>3, <4>2
        <5>2. QED
          BY <3>2, <5>1 DEF Keys
      <4>3. QED
        BY <4>1, <4>2
    <3>3. QED
      BY <3>1, <3>2 DEF Keys
  <2>3. QED
    BY <2>1, <2>2
<1>7. cache' \in [Keys' -> Entries]
  BY <1>1, <1>6 DEF KeysInv
<1>8. \A m, o \in Node : expando'[m] # None /\ expando'[m] = expando'[o] => m = o
  <2> SUFFICES ASSUME NEW m \in Node, NEW o \in Node, expando'[m] # None, expando'[m] = expando'[o], m # o
               PROVE  FALSE
    OBVIOUS
  <2>1. CASE m = n \/ o = n
    <3>1. PICK q \in {m, o} \ {n} : expando'[q] = key
      BY <1>3, <2>1
    <3>2. expando[q] = key /\ q \in Node \ {n}
      BY <1>3, <3>1
    <3>3. QED
      BY <1>4, <1>5, <3>2
  <2>2. CASE m # n /\ o # n
    BY <1>3, <2>2 DEF KeysInv
  <2>3. QED
    BY <2>1, <2>2
<1>9. ToSet(deleted') \cap Keys' = {}
  BY <1>2, <1>6 DEF KeysInv
<1>10. guid' \in Nat \ {0} /\ \A k \in Keys' \cup ToSet(deleted') : k < guid'
  <2>1. \A k \in Keys \cup ToSet(deleted) : k < guid /\ k \in Nat
    <3>1. Keys \subseteq Nat /\ ToSet(deleted) \subseteq Nat
      BY DEF Keys, KeysInv, ToSet
    <3>2. QED
      BY <3>1 DEF KeysInv
  <2>2. guid' \in Nat \ {0} /\ guid <= guid' /\ guid \in Nat
    BY <1>2, SMT DEF KeysInv
  <2>3. QED
    BY <1>2, <1>6, <2>1, <2>2, SMT
<1>11. KeysInv'
  BY <1>2, <1>3, <1>7, <1>8, <1>9, <1>10 DEF KeysInv
<1>12. Data(n)' = entry
  BY <1>1, <1>3, <1>4 DEF Data
<1>13. ASSUME NEW m \in Node \ {n}
       PROVE  Data(m)' = Data(m)
  <2>1. CASE expando[m] = None
    BY <1>3, <2>1 DEF Data
  <2>2. CASE expando[m] # None
    <3>1. expando[m] \in DOMAIN cache /\ expando[m] # key
      BY <1>5, <2>2 DEF KeysInv, Keys
    <3>2. QED
      BY <1>1, <1>3, <2>2, <3>1 DEF Data
  <2>3. QED
    BY <2>1, <2>2
<1>14. QED
  BY <1>2, <1>3, <1>4, <1>11, <1>12, <1>13

(* Of the elements cleaned, those that have a key lose it.                  *)
LEMMA KeyedIs ==
  ASSUME NEW order \in Seq(Node), IsInjective(order)
  PROVE  /\ Keyed(order) \in Seq(Node) /\ IsInjective(Keyed(order))
         /\ ToSet(Keyed(order)) = {m \in ToSet(order) : expando[m] # None}
<1>1. /\ Keyed(order) \in Seq(Node) /\ IsInjective(Keyed(order))
      /\ ToSet(Keyed(order)) = ToSet(order) \cap {m \in Node : expando[m] # None}
  <2> DEFINE S == {m \in Node : expando[m] # None}
  <2>1. Keyed(order) = Only(order, S)
    BY DEF Keyed
  <2> HIDE DEF S
  <2>2. /\ Only(order, S) \in Seq(Node) /\ ToSet(Only(order, S)) = ToSet(order) \cap S
        /\ IsInjective(Only(order, S))
    BY OnlyKeeps
  <2>3. QED
    BY <2>1, <2>2 DEF S
<1>2. ToSet(order) \subseteq Node
  BY DEF ToSet
<1>3. QED
  BY <1>1, <1>2

LEMMA CleanKeeps ==
  ASSUME None \notin Nat, KeysInv, NEW order \in Seq(Node), IsInjective(order), CleanData(order)
  PROVE  /\ KeysInv' /\ guid' = guid
         /\ \A m \in ToSet(order) : Data(m)' = Empty /\ expando'[m] = None
         /\ \A m \in Node \ ToSet(order) : Data(m)' = Data(m) /\ expando'[m] = expando[m]
<1> DEFINE kept == Keyed(order)
           gone == ToSet(kept)
           old == {expando[m] : m \in gone}
           more == KeysGone(order)
<1>1. /\ cache' = [x \in DOMAIN cache \ old |-> cache[x]]
      /\ expando' = [m \in Node |-> IF m \in gone THEN None ELSE expando[m]]
      /\ deleted' = deleted \o more
      /\ guid' = guid
  BY DEF CleanData, Without
<1>2. kept \in Seq(Node) /\ IsInjective(kept) /\ gone = {m \in ToSet(order) : expando[m] # None}
  BY KeyedIs
<1>3. more = [i \in DOMAIN kept |-> expando[kept[i]]]
  BY DEF KeysGone
<1> HIDE DEF kept, more
<1>4. ToSet(order) \subseteq Node /\ gone \subseteq Node /\ old \subseteq Keys
  BY <1>2 DEF ToSet, Keys
<1>5. \A i \in DOMAIN kept : kept[i] \in gone
  BY DEF ToSet
<1>6. more \in Seq(Nat) /\ ToSet(more) = old /\ DOMAIN more = DOMAIN kept
  <2>1. Keys \subseteq Nat
    BY DEF Keys, KeysInv
  <2>2. ASSUME NEW i \in DOMAIN kept
        PROVE  expando[kept[i]] \in Nat
    BY <1>4, <1>5, <2>1
  <2>3. Len(kept) \in Nat /\ DOMAIN kept = 1 .. Len(kept)
    BY <1>2
  <2>4. more \in [1 .. Len(kept) -> Nat]
    BY <1>3, <2>2, <2>3
  <2>5. ToSet(more) = old
    BY <1>3 DEF ToSet
  <2>6. QED
    BY <1>3, <2>3, <2>4, <2>5
<1>7. IsInjective(more)
  <2> SUFFICES ASSUME NEW i \in DOMAIN kept, NEW j \in DOMAIN kept, expando[kept[i]] = expando[kept[j]]
               PROVE  i = j
    BY <1>3 DEF IsInjective
  <2>1. expando[kept[i]] # None /\ kept[i] \in Node /\ kept[j] \in Node
    BY <1>2, <1>4, <1>5
  <2>2. kept[i] = kept[j]
    BY <2>1 DEF KeysInv
  <2>3. QED
    BY <1>2, <2>2 DEF IsInjective
<1>8. \A m \in Node : expando[m] \in old => m \in gone
  BY <1>2, <1>4 DEF KeysInv
<1>9. Keys' = Keys \ old
  <2>1. \A m \in Node : expando'[m] = IF m \in gone THEN None ELSE expando[m]
    BY <1>1
  <2>2. QED
    BY <1>2, <1>8, <2>1 DEF Keys
<1>10. deleted' \in Seq(Nat) /\ ToSet(deleted') = ToSet(deleted) \cup old
  <2>1. deleted \in Seq(Nat)
    BY DEF KeysInv
  <2>2. QED
    BY <1>1, <1>6, <2>1, ToSetOfBoth
<1>11. IsInjective(deleted')
  <2>1. deleted \in Seq(Nat) /\ IsInjective(deleted) /\ ToSet(deleted) \cap old = {}
    BY <1>4 DEF KeysInv
  <2>2. QED
    BY <1>1, <1>6, <1>7, <2>1, InjectiveBoth
<1>12. expando' \in [Node -> Nat \cup {None}]
  BY <1>1 DEF KeysInv
<1>13. \A m, o \in Node : expando'[m] # None /\ expando'[m] = expando'[o] => m = o
  BY <1>1 DEF KeysInv
<1>14. cache' \in [Keys' -> Entries]
  BY <1>1, <1>9 DEF KeysInv
<1>15. ToSet(deleted') \cap Keys' = {} /\ \A k \in Keys' \cup ToSet(deleted') : k < guid'
  BY <1>1, <1>4, <1>9, <1>10 DEF KeysInv
<1>16. KeysInv'
  BY <1>1, <1>10, <1>11, <1>12, <1>13, <1>14, <1>15 DEF KeysInv
<1>17. ASSUME NEW m \in ToSet(order)
       PROVE  Data(m)' = Empty /\ expando'[m] = None
  BY <1>1, <1>2, <1>4 DEF Data
<1>18. ASSUME NEW m \in Node \ ToSet(order)
       PROVE  Data(m)' = Data(m) /\ expando'[m] = expando[m]
  <2>1. expando'[m] = expando[m]
    BY <1>1, <1>2
  <2>2. CASE expando[m] = None
    BY <2>1, <2>2 DEF Data
  <2>3. CASE expando[m] # None
    <3>1. expando[m] \in DOMAIN cache \ old
      BY <1>2, <1>8, <2>3 DEF KeysInv, Keys
    <3>2. cache'[expando[m]] = cache[expando[m]]
      BY <1>1, <3>1
    <3>3. QED
      BY <2>1, <2>3, <3>2 DEF Data
  <2>4. QED
    BY <2>2, <2>3
<1>19. QED
  BY <1>1, <1>16, <1>17, <1>18

-----------------------------------------------------------------------------
(* The handlers bound to one element for one type.                          *)

Delegating == {o \in HandleObj : o.sel # None}
Fine(b, t) ==
  /\ b \in Bindings /\ Fronted(b.list, Delegating, b.delegateCount)
  /\ IsInjective(b.list) /\ \A o \in ToSet(b.list) : o.type = t

LEMMA NoHandlersFine ==
  ASSUME NEW t
  PROVE  Fine(NoHandlers, t) /\ ToSet(NoHandlers.list) = {}
<1>1. NoHandlers \in Bindings /\ NoHandlers.list = <<>> /\ NoHandlers.delegateCount = 0
  BY DEF NoHandlers, Bindings
<1>2. ToSet(<<>>) = {} /\ IsInjective(<<>>) /\ Fronted(<<>>, Delegating, 0)
  BY DEF ToSet, IsInjective, Fronted
<1>3. QED
  BY <1>1, <1>2 DEF Fine

(* What the parts of a sequence around a place are.                         *)
LEMMA SplitAt ==
  ASSUME NEW X, NEW s \in Seq(X), NEW m \in 0 .. Len(s)
  PROVE  /\ SubSeq(s, 1, m) \in Seq(X) /\ Len(SubSeq(s, 1, m)) = m
         /\ \A i \in 1 .. m : SubSeq(s, 1, m)[i] = s[i]
         /\ SubSeq(s, m + 1, Len(s)) \in Seq(X) /\ Len(SubSeq(s, m + 1, Len(s))) = Len(s) - m
         /\ \A i \in 1 .. (Len(s) - m) : SubSeq(s, m + 1, Len(s))[i] = s[m + i]
         /\ \A i \in 1 .. (Len(s) - m) : m + i \in DOMAIN s
         /\ \A i \in 1 .. m : i \in DOMAIN s
BY SMT

LEMMA BothAre ==
  ASSUME NEW X, NEW u \in Seq(X), NEW v \in Seq(X)
  PROVE  /\ u \o v \in Seq(X) /\ Len(u \o v) = Len(u) + Len(v)
         /\ \A i \in 1 .. Len(u) : (u \o v)[i] = u[i]
         /\ \A i \in 1 .. Len(v) : (u \o v)[Len(u) + i] = v[i]
BY SMT

LEMMA InsertedIs ==
  ASSUME NEW X, NEW s \in Seq(X), NEW m \in 0 .. Len(s), NEW x \in X,
         NEW k, k = m + 1, NEW t, t = InsertAt(s, k, x)
  PROVE  /\ t \in Seq(X) /\ Len(t) = Len(s) + 1
         /\ \A i \in 1 .. m : t[i] = s[i]
         /\ t[m + 1] = x
         /\ \A i \in (m + 2) .. (Len(s) + 1) : t[i] = s[i - 1]
<1> DEFINE a == SubSeq(s, 1, m)
           b == SubSeq(s, m + 1, Len(s))
           c == a \o <<x>>
<1>1. m + 1 - 1 = m /\ m \in Nat /\ Len(s) \in Nat /\ Len(s) - m \in Nat
  BY SMT
<1>2. t = c \o b
  <2>1. t = SubSeq(s, 1, k - 1) \o <<x>> \o SubSeq(s, k, Len(s))
    BY DEF InsertAt
  <2>2. k - 1 = m
    BY <1>1
  <2>3. t = SubSeq(s, 1, m) \o <<x>> \o SubSeq(s, k, Len(s))
    BY <2>1, <2>2, Zenon
  <2>4. QED
    BY <2>3, Zenon
<1>3. /\ a \in Seq(X) /\ Len(a) = m /\ \A i \in 1 .. m : a[i] = s[i]
      /\ b \in Seq(X) /\ Len(b) = Len(s) - m /\ \A i \in 1 .. (Len(s) - m) : b[i] = s[m + i]
  BY SplitAt
<1>4. <<x>> \in Seq(X) /\ Len(<<x>>) = 1 /\ <<x>>[1] = x
  OBVIOUS
<1>5. c = a \o <<x>>
  OBVIOUS
<1> HIDE DEF a, b, c
<1>6. c \in Seq(X) /\ Len(c) = m + 1 /\ c[m + 1] = x /\ \A i \in 1 .. m : c[i] = a[i]
  <2>1. /\ c \in Seq(X) /\ Len(c) = Len(a) + Len(<<x>>)
        /\ \A i \in 1 .. Len(a) : c[i] = a[i]
        /\ \A i \in 1 .. Len(<<x>>) : c[Len(a) + i] = <<x>>[i]
    BY <1>3, <1>4, <1>5, BothAre
  <2>2. 1 \in 1 .. Len(<<x>>)
    BY <1>4
  <2>3. c[Len(a) + 1] = <<x>>[1]
    BY <2>1, <2>2, Zenon
  <2>4. QED
    BY <1>3, <1>4, <2>1, <2>3, Zenon
<1>7. /\ t \in Seq(X) /\ Len(t) = Len(c) + Len(b)
      /\ \A i \in 1 .. Len(c) : t[i] = c[i]
      /\ \A i \in 1 .. Len(b) : t[Len(c) + i] = b[i]
  <2>1. c \in Seq(X) /\ b \in Seq(X)
    BY <1>3, <1>6
  <2>2. /\ c \o b \in Seq(X) /\ Len(c \o b) = Len(c) + Len(b)
        /\ \A i \in 1 .. Len(c) : (c \o b)[i] = c[i]
        /\ \A i \in 1 .. Len(b) : (c \o b)[Len(c) + i] = b[i]
    BY <2>1, BothAre
  <2>3. QED
    BY <1>2, <2>2, Zenon
<1>8. Len(t) = Len(s) + 1
  BY <1>1, <1>3, <1>6, <1>7, SMT
<1>9. ASSUME NEW i \in (m + 2) .. (Len(s) + 1)
      PROVE  t[i] = s[i - 1]
  <2>1. i - (m + 1) \in 1 .. (Len(s) - m) /\ m + (i - (m + 1)) = i - 1 /\ m + 1 + (i - (m + 1)) = i
    BY <1>1, SMT
  <2>2. t[m + 1 + (i - (m + 1))] = b[i - (m + 1)]
    BY <1>3, <1>6, <1>7, <2>1, Zenon
  <2>3. QED
    BY <1>3, <2>1, <2>2
<1>10. \A i \in 1 .. m : i \in 1 .. (m + 1)
  BY <1>1, SMT
<1>11. m + 1 \in 1 .. (m + 1)
  BY <1>1, SMT
<1>12. QED
  BY <1>3, <1>6, <1>7, <1>8, <1>9, <1>10, <1>11

(* A handler more, of the type, leaves those with a selector in front.      *)
LEMMA WithHandlerFine ==
  ASSUME NEW t, NEW b, Fine(b, t), NEW obj \in HandleObj, obj.type = t, obj \notin ToSet(b.list)
  PROVE  /\ Fine(WithHandler(b, obj), t) /\ WithHandler(b, obj).list # <<>>
         /\ ToSet(WithHandler(b, obj).list) = ToSet(b.list) \cup {obj}
<1> DEFINE s == b.list
           m == b.delegateCount
           u == WithHandler(b, obj).list
           n == WithHandler(b, obj).delegateCount
<1>1. b \in Bindings /\ s \in Seq(HandleObj) /\ Len(s) \in Nat /\ m \in 0 .. Len(s) /\ m \in Nat
  BY DEF Fine, Bindings, Fronted
<1>2. obj \in Delegating <=> obj.sel # None
  BY DEF Delegating
<1>3. \A i \in DOMAIN s : s[i] # obj /\ s[i].type = t /\ (s[i] \in Delegating <=> i <= m)
  BY DEF Fine, Fronted, ToSet
<1>4. \A i, j \in DOMAIN s : s[i] = s[j] => i = j
  BY DEF Fine, IsInjective
<1>5. CASE obj.sel = None
  <2>1. WithHandler(b, obj) = [b EXCEPT !.list = Append(s, obj)]
    BY <1>5 DEF WithHandler
  <2>2. u = Append(s, obj) /\ n = m /\ WithHandler(b, obj) \in Bindings
    <3>1. Append(s, obj) \in Seq(HandleObj)
      BY <1>1
    <3>2. WithHandler(b, obj) = [list |-> Append(s, obj), delegateCount |-> m]
      BY <1>1, <2>1 DEF Bindings
    <3>3. QED
      BY <1>1, <3>1, <3>2 DEF Bindings
  <2> HIDE DEF s, m, u, n
  <2>3. u \in Seq(HandleObj) /\ Len(u) = Len(s) + 1 /\ u[Len(s) + 1] = obj /\ \A i \in DOMAIN s : u[i] = s[i]
    BY <1>1, <2>2, SMT
  <2>4. ASSUME NEW i \in DOMAIN u
        PROVE  i \in DOMAIN s \/ i = Len(s) + 1
    BY <1>1, <2>3, SMT
  <2>5. \A i \in DOMAIN s : i \in DOMAIN u /\ i # Len(s) + 1
    BY <1>1, <2>3, SMT
  <2>6. Len(s) + 1 \in DOMAIN u /\ ~(Len(s) + 1 <= m) /\ m \in 0 .. Len(u)
    BY <1>1, <2>3, SMT
  <2>7. Fronted(u, Delegating, m)
    BY <1>2, <1>3, <1>5, <2>3, <2>4, <2>6 DEF Fronted
  <2>8. IsInjective(u)
    BY <1>3, <1>4, <2>3, <2>4 DEF IsInjective
  <2>9. ToSet(u) = ToSet(s) \cup {obj}
    BY <1>1, <2>2, ToSetOfMore
  <2>10. u # <<>>
    BY <2>6
  <2>11. \A o \in ToSet(u) : o.type = t
    BY <2>9 DEF Fine, s
  <2>12. QED
    BY <2>2, <2>7, <2>8, <2>9, <2>10, <2>11 DEF Fine, s, m, u, n
<1>6. CASE obj.sel # None
  <2>1. WithHandler(b, obj) = [list |-> InsertAt(s, m + 1, obj), delegateCount |-> m + 1]
    BY <1>6 DEF WithHandler
  <2>2. u = InsertAt(s, m + 1, obj) /\ n = m + 1
    BY <2>1
  <2>3. /\ u \in Seq(HandleObj) /\ Len(u) = Len(s) + 1
        /\ \A i \in 1 .. m : u[i] = s[i]
        /\ u[m + 1] = obj
        /\ \A i \in (m + 2) .. (Len(s) + 1) : u[i] = s[i - 1]
    <3>1. s \in Seq(HandleObj) /\ m \in 0 .. Len(s) /\ n = m + 1 /\ u = InsertAt(s, n, obj)
      BY <1>1, <2>2, Zenon
    <3> HIDE DEF s, m, u, n
    <3>2. PICK k, v : k = n /\ v = u
      OBVIOUS
    <3>3. k = m + 1 /\ v = InsertAt(s, k, obj)
      BY <3>1, <3>2, Zenon
    <3>4. v \in Seq(HandleObj) /\ Len(v) = Len(s) + 1
      BY <3>1, <3>3, InsertedIs
    <3>5. v[m + 1] = obj
      BY <3>1, <3>3, InsertedIs
    <3>6. \A i \in 1 .. m : v[i] = s[i]
      BY <3>1, <3>3, InsertedIs
    <3>7. \A i \in (m + 2) .. (Len(s) + 1) : v[i] = s[i - 1]
      BY <3>1, <3>3, InsertedIs
    <3>8. QED
      BY <3>2, <3>4, <3>5, <3>6, <3>7, Zenon
  <2>4. WithHandler(b, obj) \in Bindings
    BY <1>1, <2>1, <2>2, <2>3 DEF Bindings
  <2> HIDE DEF s, m, u, n
  <2> DEFINE from(i) == IF i <= m THEN i ELSE i - 1
  <2>5. ASSUME NEW i \in DOMAIN u, i # m + 1
        PROVE  from(i) \in DOMAIN s /\ u[i] = s[from(i)] /\ (i <= m + 1 <=> from(i) <= m)
    <3>1. CASE i <= m
      <4>1. i \in 1 .. m /\ i \in DOMAIN s /\ i <= m + 1
        BY <1>1, <2>3, <3>1, SMT
      <4>2. QED
        BY <2>3, <3>1, <4>1
    <3>2. CASE ~(i <= m)
      <4>1. i \in (m + 2) .. (Len(s) + 1) /\ i - 1 \in DOMAIN s /\ ~(i <= m + 1) /\ ~(i - 1 <= m)
        BY <1>1, <2>3, <2>5, <3>2, SMT
      <4>2. QED
        BY <2>3, <3>2, <4>1
    <3>3. QED
      BY <3>1, <3>2
  <2>6. ASSUME NEW i \in DOMAIN u, NEW j \in DOMAIN u, i # m + 1, j # m + 1, from(i) = from(j)
        PROVE  i = j
    <3>1. i \in Int /\ j \in Int
      BY <2>3
    <3>2. QED
      BY <1>1, <2>6, <3>1, SMT
  <2>7. m + 1 \in DOMAIN u /\ n \in 0 .. Len(u)
    BY <1>1, <2>2, <2>3, SMT
  <2>8. Fronted(u, Delegating, n)
    <3>1. ASSUME NEW i \in DOMAIN u
          PROVE  u[i] \in Delegating <=> i <= n
      <4>1. CASE i = m + 1
        BY <1>1, <1>2, <1>6, <2>2, <2>3, <4>1, SMT
      <4>2. CASE i # m + 1
        <5> HIDE DEF from
        <5>1. QED
          BY <1>3, <2>2, <2>5, <4>2
      <4>3. QED
        BY <4>1, <4>2
    <3>2. QED
      BY <2>7, <3>1 DEF Fronted
  <2> HIDE DEF from
  <2>9. IsInjective(u)
    <3>1. \A i \in DOMAIN u : i # m + 1 => u[i] # obj
      BY <1>3, <2>5
    <3>2. QED
      BY <1>4, <2>3, <2>5, <2>6, <3>1 DEF IsInjective
  <2>10. ToSet(u) = ToSet(s) \cup {obj}
    <3>1. ToSet(u) \subseteq ToSet(s) \cup {obj}
      <4>1. ASSUME NEW i \in DOMAIN u
            PROVE  u[i] \in ToSet(s) \cup {obj}
        <5>1. CASE i = m + 1
          BY <2>3, <5>1
        <5>2. CASE i # m + 1
          BY <2>5, <5>2 DEF ToSet
        <5>3. QED
          BY <5>1, <5>2
      <4>2. QED
        BY <4>1 DEF ToSet
    <3>2. ASSUME NEW i \in DOMAIN s
          PROVE  s[i] \in ToSet(u)
      <4>1. CASE i <= m
        <5>1. i \in 1 .. m /\ i \in DOMAIN u
          BY <1>1, <2>3, <4>1, SMT
        <5>2. QED
          BY <2>3, <5>1 DEF ToSet
      <4>2. CASE ~(i <= m)
        <5>1. i + 1 \in (m + 2) .. (Len(s) + 1) /\ i + 1 \in DOMAIN u /\ i + 1 - 1 = i
          BY <1>1, <2>3, <4>2, SMT
        <5>2. u[i + 1] = s[i]
          BY <2>3, <5>1
        <5>3. QED
          BY <5>1, <5>2 DEF ToSet
      <4>3. QED
        BY <4>1, <4>2
    <3>3. obj \in ToSet(u)
      BY <2>3, <2>7 DEF ToSet
    <3>4. ToSet(s) \subseteq ToSet(u)
      BY <3>2 DEF ToSet
    <3>5. QED
      BY <3>1, <3>3, <3>4
  <2>11. u # <<>>
    BY <2>7
  <2>12. \A o \in ToSet(u) : o.type = t
    BY <2>10 DEF Fine, s
  <2>13. QED
    BY <2>4, <2>8, <2>9, <2>10, <2>11, <2>12 DEF Fine, s, m, u, n
<1>7. QED
  BY <1>5, <1>6

(* What is left of them when some are removed.                              *)
LEMMA KeptFine ==
  ASSUME NEW t, NEW b, Fine(b, t), NEW hit
  PROVE  Fine(Kept(b, hit), t) /\ ToSet(Kept(b, hit).list) = ToSet(b.list) \ hit
<1> DEFINE s == b.list
           left == ToSet(s) \ hit
           u == Only(s, left)
<1>1. b \in Bindings /\ s \in Seq(HandleObj) /\ Fronted(s, Delegating, b.delegateCount) /\ IsInjective(s)
  BY DEF Fine, Bindings
<1>2. ToSet(s) \subseteq HandleObj
  BY <1>1 DEF ToSet
<1>3. {o \in left : o.sel # None} = left \cap Delegating
  BY <1>2 DEF Delegating
<1>4. Kept(b, hit) = [list |-> u, delegateCount |-> Len(Only(s, left \cap Delegating))]
  BY <1>3 DEF Kept
<1> HIDE DEF s, left, u
<1>5. u \in Seq(HandleObj) /\ ToSet(u) = ToSet(s) \cap left /\ IsInjective(u)
  BY <1>1, OnlyKeeps DEF u
<1>6. Only(s, left \cap Delegating) \in Seq(HandleObj)
  BY <1>1, OnlyKeeps
<1>7. Fronted(u, Delegating, Len(Only(s, left \cap Delegating)))
  BY <1>1, OnlyFronted DEF u
<1>8. Kept(b, hit) \in Bindings
  BY <1>4, <1>5, <1>6 DEF Bindings
<1>9. ToSet(u) = ToSet(s) \ hit
  BY <1>5 DEF left
<1>10. \A o \in ToSet(u) : o.type = t
  BY <1>9 DEF Fine, s
<1>11. QED
  BY <1>4, <1>5, <1>7, <1>8, <1>9, <1>10 DEF Fine, s

-----------------------------------------------------------------------------
(* What the cache and the browser hold of one element.                      *)

EntryFine(e, n) ==
  /\ e \in Entries
  /\ e.handle = IF DOMAIN e.events = {} THEN None ELSE n
  /\ \A t \in DOMAIN e.events : Fine(e.events[t], t) /\ e.events[t].list # <<>>
Listener(e, n) == [t \in Type |-> IF t = "click" /\ t \in DOMAIN e.events THEN n ELSE None]
InUse(e) == DOMAIN e.events # {} \/ e.data
Handles(e) == UNION {ToSet(e.events[t].list) : t \in DOMAIN e.events}
Focused == {n \in Node : "focusin" \in DOMAIN Data(n).events}

ElementInv(n) ==
  /\ EntryFine(Data(n), n)
  /\ expando[n] # None => InUse(Data(n))
  /\ listeners[n] = Listener(Data(n), n)

BrowserInv ==
  /\ KeysInv
  /\ listeners \in [Node -> [Type -> Node \cup {None}]]
  /\ \A n \in Node : ElementInv(n)
  /\ attaches = Cardinality(Focused)

LEMMA EventsAre ==
  ASSUME NEW e \in Entries
  PROVE  /\ DOMAIN e.events \subseteq Type /\ e.events \in [DOMAIN e.events -> Bindings]
         /\ e.handle \in Node \cup {None} /\ e.data \in BOOLEAN
         /\ e.events = <<>> <=> DOMAIN e.events = {}
<1>1. PICK T \in SUBSET Type : e.events \in [T -> Bindings]
  BY DEF Entries
<1>2. DOMAIN e.events = T
  BY <1>1
<1>3. e.events = <<>> => DOMAIN e.events = {}
  OBVIOUS
<1>4. DOMAIN e.events = {} => e.events = <<>>
  <2>1. ASSUME NEW f \in [{} -> Bindings]
        PROVE  f = <<>>
    OBVIOUS
  <2>2. QED
    BY <1>1, <1>2, <2>1
<1>5. QED
  BY <1>1, <1>2, <1>3, <1>4 DEF Entries

LEMMA HandlersAre ==
  ASSUME NEW n, Data(n) \in Entries
  PROVE  HandlersOf(n) = Handles(Data(n))
<1>1. DOMAIN Data(n).events \subseteq Type
  BY EventsAre
<1>2. ToSet(NoHandlers.list) = {}
  BY NoHandlersFine
<1>3. \A t : Bound(n, t) = IF t \in DOMAIN Data(n).events THEN Data(n).events[t] ELSE NoHandlers
  BY DEF Bound, EventsOf
<1>4. QED
  BY <1>1, <1>2, <1>3 DEF HandlersOf, Handles

LEMMA HandlersNext ==
  ASSUME NEW n, NEW e \in Entries, Data(n)' = e
  PROVE  HandlersOf(n)' = Handles(e)
<1>1. (Data(n) \in Entries => HandlersOf(n) = Handles(Data(n)))'
  BY HandlersAre, PTL
<1>2. QED
  BY <1>1 DEF Handles, Entries, Bindings

LEMMA SameHandlers ==
  ASSUME NEW n, Data(n)' = Data(n)
  PROVE  HandlersOf(n)' = HandlersOf(n)
BY DEF HandlersOf, Bound, EventsOf

(* An element with nothing bound.                                           *)
LEMMA EmptyFine ==
  ASSUME NEW n
  PROVE  EntryFine(Empty, n) /\ Handles(Empty) = {} /\ DOMAIN Empty.events = {}
<1>1. Empty \in Entries /\ Empty.handle = None /\ Empty.events = <<>>
  BY NothingBound DEF Empty
<1>2. QED
  BY <1>1 DEF EntryFine, Handles

(* The number of elements that want focusin.                                *)
LEMMA Counting ==
  ASSUME NEW S, IsFiniteSet(S), NEW x
  PROVE  /\ Cardinality(S) \in Nat
         /\ x \notin S => Cardinality(S \cup {x}) = Cardinality(S) + 1
         /\ x \in S => Cardinality(S \ {x}) = Cardinality(S) - 1
BY FS_CardinalityType, FS_AddElement, FS_RemoveElement

Wants(e) == IF "focusin" \in DOMAIN e.events THEN 1 ELSE 0

(* A new entry for an element that its listener fits.                       *)
LEMMA WriteElement ==
  ASSUME EventsAssumption, BrowserInv, NEW n \in Node, NEW e, EntryFine(e, n), InUse(e), Write(n, e),
         listeners' = [listeners EXCEPT ![n] = Listener(e, n)],
         attaches' = attaches - Wants(Data(n)) + Wants(e)
  PROVE  /\ BrowserInv' /\ Data(n)' = e
         /\ \A m \in Node \ {n} : Data(m)' = Data(m) /\ expando'[m] = expando[m]
         /\ guid' \in {guid, guid + 1} /\ (expando[n] # None => guid' = guid)
<1>1. None \notin Nat /\ None \notin Node /\ IsFiniteSet(Node)
  BY DEF EventsAssumption
<1>2. KeysInv /\ e \in Entries
  BY DEF BrowserInv, EntryFine
<1>3. /\ KeysInv' /\ Data(n)' = e /\ expando'[n] # None
      /\ \A m \in Node \ {n} : Data(m)' = Data(m) /\ expando'[m] = expando[m]
      /\ guid' \in {guid, guid + 1} /\ (expando[n] # None => guid' = guid)
  BY <1>1, <1>2, WriteKeeps
<1>4. Listener(e, n) \in [Type -> Node \cup {None}]
  BY DEF Listener
<1>5. /\ listeners' \in [Node -> [Type -> Node \cup {None}]]
      /\ listeners'[n] = Listener(e, n) /\ \A m \in Node \ {n} : listeners'[m] = listeners[m]
  BY <1>4 DEF BrowserInv
<1>6. ASSUME NEW m \in Node
      PROVE  ElementInv(m)'
  <2>1. CASE m = n
    BY <1>3, <1>5, <2>1 DEF ElementInv, EntryFine, InUse, Listener
  <2>2. CASE m # n
    <3>1. ElementInv(m)
      BY DEF BrowserInv
    <3>2. Data(m)' = Data(m) /\ expando'[m] = expando[m] /\ listeners'[m] = listeners[m]
      BY <1>3, <1>5, <2>2
    <3>3. QED
      BY <3>1, <3>2 DEF ElementInv, EntryFine, InUse, Listener
  <2>3. QED
    BY <2>1, <2>2
<1>7. attaches' = Cardinality(Focused')
  <2>1. IsFiniteSet(Focused) /\ attaches = Cardinality(Focused)
    BY <1>1, FS_Subset DEF Focused, BrowserInv
  <2>2. n \in Focused <=> "focusin" \in DOMAIN Data(n).events
    BY DEF Focused
  <2>3. Focused' = IF "focusin" \in DOMAIN e.events THEN Focused \cup {n} ELSE Focused \ {n}
    BY <1>3 DEF Focused
  <2>4. /\ Cardinality(Focused) \in Nat
        /\ n \notin Focused => Cardinality(Focused \cup {n}) = Cardinality(Focused) + 1
        /\ n \in Focused => Cardinality(Focused \ {n}) = Cardinality(Focused) - 1
    BY <2>1, Counting
  <2> DEFINE c == Cardinality(Focused)
  <2>6. attaches' = (IF n \in Focused THEN c - 1 ELSE c) + (IF "focusin" \in DOMAIN e.events THEN 1 ELSE 0)
    <3>1. CASE n \in Focused
      BY <2>1, <2>2, <2>4, <3>1 DEF Wants
    <3>2. CASE n \notin Focused
      BY <2>1, <2>2, <2>4, <3>2 DEF Wants
    <3>3. QED
      BY <3>1, <3>2
  <2>7. CASE "focusin" \in DOMAIN e.events
    <3>1. Cardinality(Focused') = Cardinality(Focused \cup {n})
      BY <2>3, <2>7, Zenon
    <3>2. n \in Focused => Cardinality(Focused \cup {n}) = c
      <4>1. n \in Focused => Focused \cup {n} = Focused
        OBVIOUS
      <4>2. QED
        BY <4>1, Zenon
    <3>3. QED
      BY <2>4, <2>6, <2>7, <3>1, <3>2
  <2>8. CASE "focusin" \notin DOMAIN e.events
    <3>1. Cardinality(Focused') = Cardinality(Focused \ {n})
      BY <2>3, <2>8, Zenon
    <3>2. n \notin Focused => Cardinality(Focused \ {n}) = c
      <4>1. n \notin Focused => Focused \ {n} = Focused
        OBVIOUS
      <4>2. QED
        BY <4>1, Zenon
    <3>3. QED
      BY <2>4, <2>6, <2>8, <3>1, <3>2
  <2>9. QED
    BY <2>7, <2>8
<1>8. BrowserInv'
  BY <1>3, <1>5, <1>6, <1>7 DEF BrowserInv
<1>9. QED
  BY <1>3, <1>8

(* Elements cleaned.                                                        *)
LEMMA CleanElements ==
  ASSUME EventsAssumption, BrowserInv, NEW order \in Seq(Node), IsInjective(order), CleanData(order)
  PROVE  /\ BrowserInv' /\ guid' = guid
         /\ \A m \in ToSet(order) : Data(m)' = Empty
         /\ \A m \in Node \ ToSet(order) : Data(m)' = Data(m) /\ expando'[m] = expando[m]
<1> DEFINE gone == ToSet(Keyed(order))
<1>1. None \notin Nat /\ None \notin Node /\ IsFiniteSet(Node) /\ KeysInv /\ ToSet(order) \subseteq Node
  BY DEF EventsAssumption, BrowserInv, ToSet
<1>2. /\ KeysInv' /\ guid' = guid
      /\ \A m \in ToSet(order) : Data(m)' = Empty /\ expando'[m] = None
      /\ \A m \in Node \ ToSet(order) : Data(m)' = Data(m) /\ expando'[m] = expando[m]
  BY <1>1, CleanKeeps
<1>3. gone = {m \in ToSet(order) : expando[m] # None}
  BY KeyedIs
<1>4. /\ listeners' = [m \in Node |-> IF m \in gone THEN [t \in Type |-> None] ELSE listeners[m]]
      /\ attaches' = attaches - Cardinality({m \in gone : "focusin" \in DOMAIN EventsOf(m)})
  BY DEF CleanData
<1> HIDE DEF gone
<1>5. listeners' \in [Node -> [Type -> Node \cup {None}]]
  BY <1>4 DEF BrowserInv
<1>6. \A m : expando[m] = None => Data(m) = Empty
  BY DEF Data
<1>7. DOMAIN Empty.events = {}
  BY EmptyFine
<1>8. ASSUME NEW m \in Node
      PROVE  ElementInv(m)'
  <2>1. ElementInv(m)
    BY DEF BrowserInv
  <2>2. CASE m \in ToSet(order)
    <3>1. Listener(Empty, m) = [t \in Type |-> None]
      BY <1>7 DEF Listener
    <3>2. listeners'[m] = Listener(Empty, m)
      <4>1. CASE m \in gone
        BY <1>4, <3>1, <4>1
      <4>2. CASE m \notin gone
        BY <1>3, <1>4, <1>6, <2>1, <2>2, <4>2 DEF ElementInv
      <4>3. QED
        BY <4>1, <4>2
    <3>3. Data(m)' = Empty /\ expando'[m] = None
      BY <1>2, <2>2
    <3>4. EntryFine(Empty, m)
      BY EmptyFine
    <3>5. QED
      BY <3>2, <3>3, <3>4 DEF ElementInv, EntryFine, Listener
  <2>3. CASE m \notin ToSet(order)
    <3>1. Data(m)' = Data(m) /\ expando'[m] = expando[m] /\ listeners'[m] = listeners[m]
      BY <1>2, <1>3, <1>4, <2>3
    <3>2. QED
      BY <2>1, <3>1 DEF ElementInv, EntryFine, InUse, Listener
  <2>4. QED
    BY <2>2, <2>3
<1>9. attaches' = Cardinality(Focused')
  <2>1. IsFiniteSet(Focused) /\ attaches = Cardinality(Focused)
    BY <1>1, FS_Subset DEF Focused, BrowserInv
  <2>2. {m \in gone : "focusin" \in DOMAIN EventsOf(m)} = Focused \cap ToSet(order)
    <3>1. \A m \in Focused : expando[m] # None
      BY <1>6, <1>7 DEF Focused
    <3>2. QED
      BY <1>1, <1>3, <3>1 DEF Focused, EventsOf
  <2>3. Focused' = Focused \ ToSet(order)
    <3>1. \A m \in Node : m \in Focused' <=> m \in Focused /\ m \notin ToSet(order)
      BY <1>2, <1>7 DEF Focused
    <3>2. QED
      BY <3>1 DEF Focused
  <2>4. Cardinality(Focused \ ToSet(order)) = Cardinality(Focused) - Cardinality(Focused \cap ToSet(order))
    BY <2>1, FS_Difference
  <2>5. Cardinality(Focused') = Cardinality(Focused \ ToSet(order))
    BY <2>3, Zenon
  <2>6. attaches' = attaches - Cardinality(Focused \cap ToSet(order))
    BY <1>4, <2>2, Zenon
  <2>7. QED
    BY <2>1, <2>4, <2>5, <2>6, Zenon
<1>10. BrowserInv'
  BY <1>2, <1>5, <1>8, <1>9 DEF BrowserInv
<1>11. QED
  BY <1>2, <1>10

LEMMA JustOne ==
  ASSUME NEW n \in Node
  PROVE  <<n>> \in Seq(Node) /\ IsInjective(<<n>>) /\ ToSet(<<n>>) = {n}
BY DEF IsInjective, ToSet

(* An entry with other handlers.                                            *)
LEMMA Changed ==
  ASSUME NEW e \in Entries, NEW x, NEW y, NEW z, z = [e EXCEPT !.events = x, !.handle = y]
  PROVE  z = [events |-> x, handle |-> y, data |-> e.data]
<1>1. z \in [events : {x}, handle : {y}, data : {e.data}]
  BY DEF Entries
<1>2. QED
  BY <1>1

(* Handlers taken away.                                                     *)
LEMMA RemoveElementHandlers ==
  ASSUME EventsAssumption, BrowserInv, NEW n \in Node, NEW hit, RemoveHandlers(n, hit)
  PROVE  /\ BrowserInv' /\ guid' = guid
         /\ HandlersOf(n)' = HandlersOf(n) \ hit
         /\ \A m \in Node \ {n} : Data(m)' = Data(m) /\ expando'[m] = expando[m]
<1> DEFINE old == Data(n)
           kept(t) == Kept(old.events[t], hit)
           left == {t \in DOMAIN old.events : kept(t).list # <<>>}
           gone == DOMAIN old.events \ left
           events == [t \in left |-> kept(t)]
           e == [old EXCEPT !.events = events, !.handle = IF left = {} THEN None ELSE @]
<1>1. old \in Entries /\ EntryFine(old, n) /\ ElementInv(n)
  BY DEF BrowserInv, ElementInv, EntryFine
<1>2. /\ DOMAIN old.events \subseteq Type /\ old.events \in [DOMAIN old.events -> Bindings]
      /\ old.handle \in Node \cup {None} /\ old.data \in BOOLEAN
      /\ old.events = <<>> <=> DOMAIN old.events = {}
  BY <1>1, EventsAre
<1>3. HandlersOf(n) = Handles(old)
  BY <1>1, HandlersAre
<1>4. \A t \in DOMAIN old.events : Fine(kept(t), t) /\ ToSet(kept(t).list) = ToSet(old.events[t].list) \ hit
  BY <1>1, KeptFine DEF EntryFine
<1>5. ToSet(<<>>) = {}
  BY DEF ToSet
<1>6. UNION {ToSet(kept(t).list) : t \in left} = Handles(old) \ hit
  <2>1. \A t \in DOMAIN old.events : t \notin left => ToSet(kept(t).list) = {}
    BY <1>5
  <2> DEFINE has(t) == ToSet(old.events[t].list)
             holds(t) == ToSet(kept(t).list)
  <2>2. left \subseteq DOMAIN old.events /\ \A t \in DOMAIN old.events : holds(t) = has(t) \ hit
    BY <1>4
  <2>3. \A t \in DOMAIN old.events \ left : holds(t) = {}
    BY <2>1
  <2>4. Handles(old) = UNION {has(t) : t \in DOMAIN old.events}
    BY DEF Handles
  <2> HIDE DEF has, holds, left, old
  <2>5. UNION {holds(t) : t \in left} = (UNION {has(t) : t \in DOMAIN old.events}) \ hit
    BY <2>2, <2>3
  <2>6. QED
    BY <2>4, <2>5 DEF holds
<1>7. CASE old.events = <<>>
  <2>1. UNCHANGED <<expando, cache, deleted, guid, listeners, attaches>>
    BY <1>7 DEF RemoveHandlers, data
  <2>2. \A m : Data(m)' = Data(m)
    BY <2>1 DEF Data
  <2>3. BrowserInv'
    <3>1. KeysInv'
      BY <2>1 DEF BrowserInv, KeysInv, Keys
    <3>2. \A m \in Node : ElementInv(m)'
      BY <2>1, <2>2 DEF BrowserInv, ElementInv, EntryFine, InUse, Listener
    <3>3. Focused' = Focused
      BY <2>2 DEF Focused
    <3>4. QED
      BY <2>1, <3>1, <3>2, <3>3 DEF BrowserInv
  <2>4. Handles(old) = {}
    BY <1>2, <1>7 DEF Handles
  <2>5. HandlersOf(n)' = HandlersOf(n)
    BY <2>2 DEF HandlersOf, Bound, EventsOf
  <2>6. QED
    BY <1>3, <2>1, <2>2, <2>3, <2>4, <2>5
<1>8. CASE old.events # <<>> /\ left = {} /\ ~old.data
  <2>1. CleanData(<<n>>)
    BY <1>8 DEF RemoveHandlers
  <2>2. /\ BrowserInv' /\ guid' = guid /\ Data(n)' = Empty
        /\ \A m \in Node \ {n} : Data(m)' = Data(m) /\ expando'[m] = expando[m]
    BY <2>1, JustOne, CleanElements
  <2>3. HandlersOf(n)' = Handles(Empty)
    <3>1. Empty \in Entries
      BY NothingBound
    <3>2. QED
      BY <2>2, <3>1, HandlersNext
  <2>4. Handles(old) \ hit = {} /\ Handles(Empty) = {}
    BY <1>6, <1>8, EmptyFine
  <2>5. QED
    BY <1>3, <2>2, <2>3, <2>4
<1>9. CASE old.events # <<>> /\ ~(left = {} /\ ~old.data)
  <2>1. /\ Write(n, e)
        /\ listeners' = [listeners EXCEPT ![n] = [t \in Type |-> IF t \in gone THEN None ELSE @[t]]]
        /\ attaches' = IF "focusin" \in gone THEN attaches - 1 ELSE attaches
    BY <1>9 DEF RemoveHandlers
  <2>2. left \subseteq Type /\ events \in [left -> Bindings] /\ DOMAIN events = left
    BY <1>2, <1>4 DEF Fine
  <2>3. e = [events |-> events, handle |-> IF left = {} THEN None ELSE old.handle, data |-> old.data]
    <3> DEFINE handle == IF left = {} THEN None ELSE old.handle
    <3>1. e = [old EXCEPT !.events = events, !.handle = handle]
      BY Zenon
    <3> HIDE DEF e, events, old, handle
    <3>2. e = [events |-> events, handle |-> handle, data |-> old.data]
      BY <1>1, <3>1, Changed
    <3>3. QED
      BY <3>2 DEF handle
  <2>4. /\ e.events = events /\ e.handle = (IF left = {} THEN None ELSE old.handle) /\ e.data = old.data
        /\ DOMAIN e.events = left /\ \A t \in left : e.events[t] = kept(t)
    BY <2>2, <2>3
  <2> HIDE DEF e, events, left, kept
  <2>5. e \in Entries
    BY <1>2, <2>2, <2>3 DEF Entries
  <2>6. left \subseteq DOMAIN old.events
    BY DEF left
  <2>7. EntryFine(e, n)
    <3>1. e.handle = IF left = {} THEN None ELSE n
      BY <1>1, <2>4, <2>6 DEF EntryFine
    <3>2. \A t \in left : Fine(kept(t), t) /\ kept(t).list # <<>>
      BY <1>4, <2>6 DEF left
    <3>3. QED
      BY <2>4, <2>5, <3>1, <3>2 DEF EntryFine
  <2>8. InUse(e)
    BY <1>9, <2>4 DEF InUse
  <2>9. listeners' = [listeners EXCEPT ![n] = Listener(e, n)]
    <3>1. listeners[n] = Listener(old, n)
      BY <1>1 DEF ElementInv
    <3>2. [t \in Type |-> IF t \in gone THEN None ELSE listeners[n][t]] = Listener(e, n)
      BY <2>4, <2>6, <3>1 DEF Listener
    <3>3. QED
      BY <2>1, <3>2
  <2>10. expando[n] # None
    BY <1>9, EmptyFine DEF Data, Empty
  <2>11. attaches' = attaches - Wants(old) + Wants(e)
    <3>1. attaches \in Nat
      <4>1. IsFiniteSet(Focused)
        BY FS_Subset DEF Focused, EventsAssumption
      <4>2. QED
        BY <4>1, FS_CardinalityType DEF BrowserInv
    <3>2. CASE "focusin" \in gone
      BY <2>1, <2>4, <3>1, <3>2 DEF Wants
    <3>3. CASE "focusin" \notin gone
      <4>1. "focusin" \in left <=> "focusin" \in DOMAIN old.events
        BY <2>6, <3>3
      <4>2. Wants(old) = Wants(e) /\ Wants(old) \in {0, 1}
        BY <2>4, <4>1 DEF Wants
      <4>3. QED
        BY <2>1, <3>1, <3>3, <4>2
    <3>4. QED
      BY <3>2, <3>3
  <2>12. /\ BrowserInv' /\ Data(n)' = e /\ guid' = guid
         /\ \A m \in Node \ {n} : Data(m)' = Data(m) /\ expando'[m] = expando[m]
    BY <2>1, <2>7, <2>8, <2>9, <2>10, <2>11, WriteElement
  <2>13. HandlersOf(n)' = Handles(e)
    BY <2>5, <2>12, HandlersNext
  <2>14. Handles(e) = UNION {ToSet(kept(t).list) : t \in left}
    BY <2>4 DEF Handles
  <2>15. QED
    BY <1>3, <1>6, <2>12, <2>13, <2>14
<1>10. QED
  BY <1>7, <1>8, <1>9
(* A handler bound.                                                         *)
LEMMA AddElementHandler ==
  ASSUME EventsAssumption, BrowserInv, NEW n \in Node, NEW obj \in HandleObj, obj \notin HandlersOf(n),
         AddHandler(n, obj)
  PROVE  /\ BrowserInv' /\ guid' \in {guid, guid + 1}
         /\ HandlersOf(n)' = HandlersOf(n) \cup {obj}
         /\ \A m \in Node \ {n} : Data(m)' = Data(m) /\ expando'[m] = expando[m]
<1> DEFINE t == obj.type
           old == Data(n)
           b == Bound(n, t)
           new == WithHandler(b, obj)
           events == Put(old.events, t, new)
           handle == IF old.handle = None THEN n ELSE old.handle
           isFirst == t \notin DOMAIN old.events
           e == [old EXCEPT !.events = events, !.handle = handle]
<1>1. /\ Write(n, e)
      /\ listeners' = IF isFirst /\ t = "click" THEN [listeners EXCEPT ![n][t] = handle] ELSE listeners
      /\ attaches' = IF isFirst /\ t = "focusin" THEN attaches + 1 ELSE attaches
  BY Zenon DEF AddHandler
<1>2. old \in Entries /\ EntryFine(old, n) /\ ElementInv(n)
  BY DEF BrowserInv, ElementInv, EntryFine
<1>3. /\ DOMAIN old.events \subseteq Type /\ old.events \in [DOMAIN old.events -> Bindings]
      /\ old.handle \in Node \cup {None} /\ old.data \in BOOLEAN
  BY <1>2, EventsAre
<1>4. t \in Type
  BY DEF HandleObj
<1>5. HandlersOf(n) = Handles(old)
  BY <1>2, HandlersAre
<1>6. Fine(b, t) /\ obj \notin ToSet(b.list)
  <2>1. b = IF t \in DOMAIN old.events THEN old.events[t] ELSE NoHandlers
    BY DEF Bound, EventsOf
  <2>2. CASE t \in DOMAIN old.events
    BY <1>2, <1>5, <2>1, <2>2 DEF EntryFine, Handles
  <2>3. CASE t \notin DOMAIN old.events
    BY <2>1, <2>3, NoHandlersFine
  <2>4. QED
    BY <2>2, <2>3
<1>7. Fine(new, t) /\ new.list # <<>> /\ ToSet(new.list) = ToSet(b.list) \cup {obj}
  BY <1>6, WithHandlerFine
<1>8. handle = n
  BY <1>2 DEF EntryFine
<1>9. /\ DOMAIN events = DOMAIN old.events \cup {t} /\ events[t] = new
      /\ \A x \in DOMAIN old.events \ {t} : events[x] = old.events[x]
  BY DEF Put
<1>10. e = [events |-> events, handle |-> n, data |-> old.data]
  <2>1. e = [old EXCEPT !.events = events, !.handle = handle]
    BY Zenon
  <2> HIDE DEF e, events, old, handle
  <2>2. e = [events |-> events, handle |-> handle, data |-> old.data]
    BY <1>2, <2>1, Changed
  <2>3. QED
    BY <1>8, <2>2
<1>11. e.events = events /\ e.handle = n /\ e.data = old.data
  BY <1>10
<1>12. events \in [DOMAIN old.events \cup {t} -> Bindings]
  BY <1>3, <1>7 DEF Put, Fine
<1>13. ToSet(b.list) = IF isFirst THEN {} ELSE ToSet(old.events[t].list)
  BY NoHandlersFine, Zenon DEF Bound, EventsOf
<1> HIDE DEF e, events, new, b, handle
<1>14. e \in Entries
  <2>1. DOMAIN old.events \cup {t} \in SUBSET Type
    BY <1>3, <1>4
  <2>2. QED
    BY <1>3, <1>10, <1>12, <2>1 DEF Entries
<1>15. EntryFine(e, n)
  <2>1. \A x \in DOMAIN events : Fine(events[x], x) /\ events[x].list # <<>>
    BY <1>2, <1>7, <1>9 DEF EntryFine
  <2>2. QED
    BY <1>9, <1>11, <1>14, <2>1 DEF EntryFine
<1>16. InUse(e)
  BY <1>9, <1>11 DEF InUse
<1>17. listeners' = [listeners EXCEPT ![n] = Listener(e, n)]
  <2>1. listeners[n] = Listener(old, n) /\ listeners \in [Node -> [Type -> Node \cup {None}]]
    BY <1>2 DEF ElementInv, BrowserInv
  <2>2. CASE isFirst /\ t = "click"
    <3>1. Listener(e, n) = [Listener(old, n) EXCEPT !["click"] = n]
      BY <1>4, <1>9, <1>11, <2>2 DEF Listener, Type
    <3>2. listeners' = [listeners EXCEPT ![n] = [Listener(old, n) EXCEPT !["click"] = n]]
      BY <1>1, <1>8, <2>1, <2>2
    <3>3. QED
      BY <3>1, <3>2
  <2>3. CASE ~(isFirst /\ t = "click")
    <3>1. "click" \in DOMAIN old.events <=> "click" \in DOMAIN e.events
      BY <1>9, <1>11, <2>3
    <3>2. Listener(e, n) = Listener(old, n)
      BY <3>1 DEF Listener
    <3>3. listeners' = listeners
      BY <1>1, <2>3
    <3>4. QED
      BY <2>1, <3>2, <3>3
  <2>4. QED
    BY <2>2, <2>3
<1>18. attaches' = attaches - Wants(old) + Wants(e)
  <2>1. attaches \in Nat
    <3>1. IsFiniteSet(Focused)
      BY FS_Subset DEF Focused, EventsAssumption
    <3>2. QED
      BY <3>1, FS_CardinalityType DEF BrowserInv
  <2>2. CASE isFirst /\ t = "focusin"
    <3>1. Wants(old) = 0 /\ Wants(e) = 1
      BY <1>9, <1>11, <2>2 DEF Wants
    <3>2. QED
      BY <1>1, <2>1, <2>2, <3>1
  <2>3. CASE ~(isFirst /\ t = "focusin")
    <3>1. "focusin" \in DOMAIN old.events <=> "focusin" \in DOMAIN e.events
      BY <1>9, <1>11, <2>3
    <3>2. Wants(old) = Wants(e) /\ Wants(e) \in {0, 1}
      BY <3>1 DEF Wants
    <3>3. QED
      BY <1>1, <2>1, <2>3, <3>2
  <2>4. QED
    BY <2>2, <2>3
<1>19. /\ BrowserInv' /\ Data(n)' = e /\ guid' \in {guid, guid + 1}
       /\ \A m \in Node \ {n} : Data(m)' = Data(m) /\ expando'[m] = expando[m]
  BY <1>1, <1>15, <1>16, <1>17, <1>18, WriteElement
<1>20. HandlersOf(n)' = Handles(e)
  BY <1>14, <1>19, HandlersNext
<1>21. Handles(e) = Handles(old) \cup {obj}
  <2> DEFINE has(x) == ToSet(old.events[x].list)
             holds(x) == ToSet(events[x].list)
  <2>1. /\ \A x \in DOMAIN old.events \ {t} : holds(x) = has(x)
        /\ holds(t) = (IF isFirst THEN {} ELSE has(t)) \cup {obj}
    BY <1>7, <1>9, <1>13
  <2>2. Handles(e) = UNION {holds(x) : x \in DOMAIN old.events \cup {t}} /\ Handles(old) = UNION {has(x) : x \in DOMAIN old.events}
    BY <1>9, <1>11 DEF Handles
  <2> HIDE DEF has, holds, old
  <2>3. QED
    BY <2>1, <2>2
<1>22. QED
  BY <1>5, <1>19, <1>20, <1>21
(* The data of an element set, or removed while handlers are left.          *)
LEMMA WriteData ==
  ASSUME EventsAssumption, BrowserInv, NEW n \in Node, NEW flag \in BOOLEAN, flag \/ EventsOf(n) # <<>>,
         Write(n, [Data(n) EXCEPT !.data = flag]), UNCHANGED <<listeners, attaches>>
  PROVE  /\ BrowserInv' /\ guid' \in {guid, guid + 1}
         /\ \A m \in Node : HandlersOf(m)' = HandlersOf(m)
<1> DEFINE old == Data(n)
           e == [old EXCEPT !.data = flag]
<1>1. old \in Entries /\ EntryFine(old, n) /\ ElementInv(n)
  BY DEF BrowserInv, ElementInv, EntryFine
<1>2. DOMAIN old.events = {} <=> old.events = <<>>
  BY <1>1, EventsAre
<1>3. e = [events |-> old.events, handle |-> old.handle, data |-> flag]
  BY <1>1 DEF Entries
<1>4. e \in Entries /\ e.events = old.events /\ e.handle = old.handle /\ e.data = flag
  BY <1>1, <1>3 DEF Entries
<1>5. Write(n, e)
  OBVIOUS
<1> HIDE DEF e
<1>6. EntryFine(e, n) /\ InUse(e) /\ Wants(e) = Wants(old) /\ Handles(e) = Handles(old)
  BY <1>1, <1>2, <1>4 DEF EntryFine, InUse, Wants, Handles, EventsOf
<1>7. Listener(e, n) = Listener(old, n) /\ listeners[n] = Listener(old, n)
  BY <1>1, <1>4 DEF Listener, ElementInv
<1>8. listeners' = [listeners EXCEPT ![n] = Listener(e, n)]
  BY <1>7 DEF BrowserInv
<1>9. attaches' = attaches - Wants(old) + Wants(e)
  <2>1. IsFiniteSet(Focused)
    BY FS_Subset DEF Focused, EventsAssumption
  <2>2. attaches \in Nat
    BY <2>1, FS_CardinalityType DEF BrowserInv
  <2>3. Wants(e) \in {0, 1}
    BY DEF Wants
  <2>4. QED
    BY <1>6, <2>2, <2>3
<1>10. /\ BrowserInv' /\ Data(n)' = e /\ guid' \in {guid, guid + 1}
       /\ \A m \in Node \ {n} : Data(m)' = Data(m)
  BY <1>5, <1>6, <1>8, <1>9, WriteElement
<1>11. HandlersOf(n)' = HandlersOf(n)
  <2>1. HandlersOf(n)' = Handles(e)
    BY <1>4, <1>10, HandlersNext
  <2>2. QED
    BY <1>1, <1>6, <2>1, HandlersAre
<1>12. \A m \in Node \ {n} : HandlersOf(m)' = HandlersOf(m)
  BY <1>10, SameHandlers
<1>13. QED
  BY <1>10, <1>11, <1>12

(* The data and the handlers of an element, bound to another that had none. *)
LEMMA CopyElement ==
  ASSUME EventsAssumption, BrowserInv, NEW n \in Node, NEW m \in Node, m # n, expando[n] # None, expando[m] = None,
         NEW types, types = DOMAIN EventsOf(n),
         Write(m, [Data(n) EXCEPT !.handle = IF types = {} THEN None ELSE m]),
         listeners' = [listeners EXCEPT ![m]["click"] = IF "click" \in types THEN m ELSE None],
         attaches' = IF "focusin" \in types THEN attaches + 1 ELSE attaches
  PROVE  /\ BrowserInv' /\ guid' \in {guid, guid + 1}
         /\ HandlersOf(m)' = HandlersOf(n)
         /\ \A x \in Node \ {m} : HandlersOf(x)' = HandlersOf(x)
<1> DEFINE old == Data(n)
           handle == IF types = {} THEN None ELSE m
           e == [old EXCEPT !.handle = handle]
<1>1. old \in Entries /\ EntryFine(old, n) /\ ElementInv(n) /\ ElementInv(m)
  BY DEF BrowserInv, ElementInv, EntryFine
<1>2. types = DOMAIN old.events
  BY DEF EventsOf
<1>3. handle \in Node \cup {None}
  OBVIOUS
<1>4. Write(m, e)
  OBVIOUS
<1> HIDE DEF handle
<1>5. e = [events |-> old.events, handle |-> handle, data |-> old.data]
  BY <1>1 DEF Entries
<1>6. e \in Entries /\ e.events = old.events /\ e.handle = handle /\ e.data = old.data
  BY <1>1, <1>3, <1>5 DEF Entries
<1> HIDE DEF e
<1>7. EntryFine(e, m) /\ InUse(e) /\ Wants(e) = Wants(old) /\ Handles(e) = Handles(old)
  BY <1>1, <1>2, <1>6 DEF EntryFine, InUse, Wants, Handles, ElementInv, handle
<1>8. Data(m) = Empty
  BY DEF Data
<1>9. listeners[m] = [t \in Type |-> None]
  BY <1>1, <1>8, EmptyFine DEF ElementInv, Listener
<1>10. listeners' = [listeners EXCEPT ![m] = Listener(e, m)]
  <2>1. Listener(e, m) = [listeners[m] EXCEPT !["click"] = IF "click" \in types THEN m ELSE None]
    BY <1>2, <1>6, <1>9 DEF Listener, Type
  <2>2. listeners' = [listeners EXCEPT ![m] = [listeners[m] EXCEPT !["click"] = IF "click" \in types THEN m ELSE None]]
    BY DEF BrowserInv
  <2>3. QED
    BY <2>1, <2>2
<1>11. attaches' = attaches - Wants(Data(m)) + Wants(e)
  <2>1. IsFiniteSet(Focused)
    BY FS_Subset DEF Focused, EventsAssumption
  <2>2. attaches \in Nat
    BY <2>1, FS_CardinalityType DEF BrowserInv
  <2>3. Wants(Data(m)) = 0
    BY <1>8, EmptyFine DEF Wants
  <2>4. Wants(e) = IF "focusin" \in types THEN 1 ELSE 0
    BY <1>2, <1>6 DEF Wants
  <2>5. QED
    BY <2>2, <2>3, <2>4
<1>12. /\ BrowserInv' /\ Data(m)' = e /\ guid' \in {guid, guid + 1}
       /\ \A x \in Node \ {m} : Data(x)' = Data(x)
  BY <1>4, <1>7, <1>10, <1>11, WriteElement
<1>13. HandlersOf(m)' = HandlersOf(n)
  <2>1. HandlersOf(m)' = Handles(e)
    BY <1>6, <1>12, HandlersNext
  <2>2. QED
    BY <1>1, <1>7, <2>1, HandlersAre
<1>14. \A x \in Node \ {m} : HandlersOf(x)' = HandlersOf(x)
  BY <1>12, SameHandlers
<1>15. QED
  BY <1>12, <1>13, <1>14

(* Elements cleaned have no handlers left.                                  *)
LEMMA CleanHandlers ==
  ASSUME EventsAssumption, BrowserInv, NEW order \in Seq(Node), IsInjective(order), CleanData(order)
  PROVE  /\ BrowserInv' /\ guid' = guid
         /\ \A m \in Node : HandlersOf(m)' = IF m \in ToSet(order) THEN {} ELSE HandlersOf(m)
<1>1. /\ BrowserInv' /\ guid' = guid
      /\ \A m \in ToSet(order) : Data(m)' = Empty
      /\ \A m \in Node \ ToSet(order) : Data(m)' = Data(m)
  BY CleanElements
<1>2. ASSUME NEW m \in Node, m \in ToSet(order)
      PROVE  HandlersOf(m)' = {}
  <2>1. HandlersOf(m)' = Handles(Empty)
    BY <1>1, <1>2, NothingBound, HandlersNext
  <2>2. QED
    BY <2>1, EmptyFine
<1>3. ASSUME NEW m \in Node, m \notin ToSet(order)
      PROVE  HandlersOf(m)' = HandlersOf(m)
  BY <1>1, <1>3, SameHandlers
<1>4. QED
  BY <1>1, <1>2, <1>3

(* An order of all the elements of a set.                                   *)
LEMMA OrderIs ==
  ASSUME NEW S \in SUBSET Node, IsFiniteSet(S), NEW order \in Orders(S)
  PROVE  order \in Seq(Node) /\ IsInjective(order) /\ ToSet(order) = S
<1>1. Cardinality(S) \in Nat
  BY FS_CardinalityType
<1>2. order \in Bijection(1 .. Cardinality(S), S)
  BY DEF Orders
<1>3. /\ order \in [1 .. Cardinality(S) -> S]
      /\ \A i, j \in 1 .. Cardinality(S) : order[i] = order[j] => i = j
      /\ \A x \in S : \E i \in 1 .. Cardinality(S) : order[i] = x
  BY <1>2 DEF Bijection, Injection, Surjection, IsInjective
<1>4. order \in Seq(S) /\ DOMAIN order = 1 .. Cardinality(S)
  BY <1>1, <1>3
<1>5. QED
  BY <1>3, <1>4 DEF IsInjective, ToSet
-----------------------------------------------------------------------------
(* The calls under way.                                                     *)

QueueEntry == [elem : Node, obj : HandleObj]
QueueFine(q, t) ==
  q \in Seq(QueueEntry) /\ IsInjective(q) /\ \A e \in ToSet(q) : e.obj.type = t
Frame ==
  [k : {"event"}, type : Type, target : Node, native : BOOLEAN, path : Seq(Node)]
  \cup [k : {"dispatch"}, node : Node, type : Type, queue : Seq(QueueEntry)]
  \cup [k : {"handler"}, node : Node, obj : HandleObj]

(* A dispatch is part of an event, a handler runs in a dispatch, and an     *)
(* event begins at rest or in a handler.                                    *)
Sits(s, i) ==
  /\ s[i].k = "event" => i = Len(s) \/ s[i + 1].k = "handler"
  /\ s[i].k = "dispatch" => /\ i # Len(s) /\ s[i + 1].k = "event" /\ s[i + 1].type = s[i].type
                            /\ QueueFine(s[i].queue, s[i].type)
  /\ s[i].k = "handler" => i # Len(s) /\ s[i + 1].k = "dispatch" /\ s[i + 1].queue # <<>>
Stack(s) == s \in Seq(Frame) /\ \A i \in DOMAIN s : Sits(s, i)

(* The handlers still queued, and those among them that are still to be     *)
(* called: the first of a dispatch that is not on top is being called.      *)
Queued(s) ==
  {o \in HandleObj : \E i \in DOMAIN s : s[i].k = "dispatch" /\ \E e \in ToSet(s[i].queue) : o = e.obj}
Key(d, e) == <<d.node, e.obj.serial, e.elem>>
Uncounted(s, C) ==
  \A i \in DOMAIN s : s[i].k = "dispatch" =>
    \A j \in DOMAIN s[i].queue :
      (i = 1 \/ j # 1) /\ s[i].queue[j].obj.one => Key(s[i], s[i].queue[j]) \notin C

(* No event is fired within one of its type.                                *)
Apart(s) ==
  \A i, j \in DOMAIN s : i < j /\ s[i].k = "event" /\ s[j].k = "dispatch" => s[i].type # s[j].type

(* A serial is one binding's, bound or queued.                              *)
Serials(s) ==
  LET known == Queued(s) \cup UNION {HandlersOf(n) : n \in Node}
  IN \A o, p \in known : o.serial < used /\ (o.serial = p.serial => o = p)

CountsInv(s) ==
  /\ \A key \in DOMAIN counts : key \in Node \X Nat \X Node /\ key[2] < used
  /\ \A n \in Node : \A o \in HandlersOf(n) :
       o.one => \A e \in Node : <<n, o.serial, e>> \notin DOMAIN counts
  /\ ~again => /\ Apart(s) /\ Uncounted(s, DOMAIN counts)
               /\ \A key \in DOMAIN counts : counts[key] = 1

EventsInv ==
  /\ Forest /\ parent[Root] = None
  /\ BrowserInv /\ used \in 0 .. MaxCalls /\ guid <= used + 1
  /\ Stack(calls) /\ Serials(calls) /\ BoundAsMeant /\ CountsInv(calls)

(* A frame on top, and the top one taken off.                               *)
LEMMA OnTop ==
  ASSUME NEW X, NEW s \in Seq(X), NEW f \in X, NEW t, t = <<f>> \o s
  PROVE  /\ t \in Seq(X) /\ Len(t) = Len(s) + 1 /\ t[1] = f /\ 1 \in DOMAIN t
         /\ \A i \in DOMAIN t : i # 1 => i - 1 \in DOMAIN s /\ t[i] = s[i - 1]
         /\ \A i \in DOMAIN s : i + 1 \in DOMAIN t /\ t[i + 1] = s[i]
BY SMT

LEMMA TakenOff ==
  ASSUME NEW X, NEW s \in Seq(X), s # <<>>
  PROVE  /\ Tail(s) \in Seq(X) /\ Len(Tail(s)) = Len(s) - 1
         /\ \A i \in DOMAIN Tail(s) : i + 1 \in DOMAIN s /\ Tail(s)[i] = s[i + 1]
         /\ 1 \in DOMAIN s /\ Head(s) = s[1] /\ s[1] \in X
BY SMT

LEMMA StackPopped ==
  ASSUME NEW s, Stack(s), s # <<>>
  PROVE  /\ Stack(Tail(s)) /\ Queued(Tail(s)) \subseteq Queued(s)
         /\ Apart(s) => Apart(Tail(s))
         /\ Tail(s) # <<>> => 2 \in DOMAIN s /\ Head(Tail(s)) = s[2]
<1> DEFINE t == Tail(s)
<1>1. /\ t \in Seq(Frame) /\ Len(t) = Len(s) - 1 /\ s \in Seq(Frame)
      /\ \A i \in DOMAIN t : i + 1 \in DOMAIN s /\ t[i] = s[i + 1]
  BY TakenOff DEF Stack
<1>2. t # <<>> => 2 \in DOMAIN s /\ Head(t) = s[2]
  BY <1>1, SMT
<1> HIDE DEF t
<1>3. ASSUME NEW i \in DOMAIN t
      PROVE  Sits(t, i)
  <2>1. Sits(s, i + 1) /\ t[i] = s[i + 1]
    BY <1>1 DEF Stack
  <2>2. i + 1 # Len(s) => i + 1 \in DOMAIN t
    BY <1>1, SMT
  <2>3. i + 1 # Len(s) => t[i + 1] = s[i + 1 + 1]
    BY <1>1, <2>2
  <2>4. i = Len(t) <=> i + 1 = Len(s)
    BY <1>1, SMT
  <2>5. QED
    BY <2>1, <2>3, <2>4 DEF Sits
<1>4. Queued(t) \subseteq Queued(s)
  BY <1>1 DEF Queued
<1>5. ASSUME Apart(s)
      PROVE  Apart(t)
  <2> SUFFICES ASSUME NEW i \in DOMAIN t, NEW j \in DOMAIN t, i < j, t[i].k = "event", t[j].k = "dispatch"
               PROVE  t[i].type # t[j].type
    BY DEF Apart
  <2>1. i + 1 \in DOMAIN s /\ j + 1 \in DOMAIN s /\ i + 1 < j + 1
    BY <1>1, SMT
  <2>2. QED
    BY <1>1, <1>5, <2>1 DEF Apart
<1>6. QED
  BY <1>1, <1>2, <1>3, <1>4, <1>5 DEF Stack, t

(* What fits on a stack.                                                    *)
Fits(f, s) ==
  /\ f.k = "event" => s = <<>> \/ s[1].k = "handler"
  /\ f.k = "dispatch" => s # <<>> /\ s[1].k = "event" /\ s[1].type = f.type /\ QueueFine(f.queue, f.type)
  /\ f.k = "handler" => s # <<>> /\ s[1].k = "dispatch" /\ s[1].queue # <<>>

LEMMA StackPushed ==
  ASSUME NEW s, Stack(s), NEW f \in Frame, Fits(f, s), NEW t, t = <<f>> \o s
  PROVE  /\ Stack(t)
         /\ Queued(t) \subseteq
              Queued(s) \cup {o \in HandleObj : f.k = "dispatch" /\ \E e \in ToSet(f.queue) : o = e.obj}
         /\ Apart(s) /\ (f.k = "event" => \A i \in DOMAIN s : s[i].k = "dispatch" => s[i].type # f.type) => Apart(t)
<1>1. /\ t \in Seq(Frame) /\ Len(t) = Len(s) + 1 /\ t[1] = f /\ s \in Seq(Frame)
      /\ \A i \in DOMAIN t : i # 1 => i - 1 \in DOMAIN s /\ t[i] = s[i - 1]
  BY OnTop DEF Stack
<1>2. ASSUME NEW i \in DOMAIN t
      PROVE  Sits(t, i)
  <2>1. CASE i = 1
    <3>1. s # <<>> <=> Len(t) # 1
      BY <1>1, SMT
    <3>2. s # <<>> => t[2] = s[1]
      <4>1. s # <<>> => 2 \in DOMAIN t
        BY <1>1, SMT
      <4>2. QED
        BY <1>1, <4>1
    <3>3. t[i] = f /\ t[i + 1] = t[2]
      BY <1>1, <2>1
    <3>4. QED
      BY <2>1, <3>1, <3>2, <3>3 DEF Sits, Fits
  <2>2. CASE i # 1
    <3>1. Sits(s, i - 1) /\ t[i] = s[i - 1] /\ i - 1 \in DOMAIN s
      BY <1>1, <2>2 DEF Stack
    <3>2. i - 1 # Len(s) => i + 1 \in DOMAIN t /\ i + 1 # 1
      BY <1>1, SMT
    <3>3. i - 1 # Len(s) => t[i + 1] = s[i - 1 + 1]
      <4>1. i + 1 - 1 = i - 1 + 1
        BY <1>1, SMT
      <4>2. QED
        BY <1>1, <3>2, <4>1
    <3>4. i = Len(t) <=> i - 1 = Len(s)
      BY <1>1, SMT
    <3>5. QED
      BY <3>1, <3>3, <3>4 DEF Sits
  <2>3. QED
    BY <2>1, <2>2
<1>3. Queued(t) \subseteq
        Queued(s) \cup {o \in HandleObj : f.k = "dispatch" /\ \E e \in ToSet(f.queue) : o = e.obj}
  BY <1>1 DEF Queued
<1>4. ASSUME Apart(s), f.k = "event" => \A i \in DOMAIN s : s[i].k = "dispatch" => s[i].type # f.type
      PROVE  Apart(t)
  <2> SUFFICES ASSUME NEW i \in DOMAIN t, NEW j \in DOMAIN t, i < j, t[i].k = "event", t[j].k = "dispatch"
               PROVE  t[i].type # t[j].type
    BY DEF Apart
  <2>1. j # 1 /\ (i # 1 => i - 1 < j - 1)
    BY <1>1, SMT
  <2>2. j - 1 \in DOMAIN s /\ t[j] = s[j - 1]
    BY <1>1, <2>1
  <2>3. CASE i = 1
    BY <1>1, <1>4, <2>2, <2>3
  <2>4. CASE i # 1
    BY <1>1, <1>4, <2>1, <2>2, <2>4 DEF Apart
  <2>5. QED
    BY <2>3, <2>4
<1>5. QED
  BY <1>1, <1>2, <1>3, <1>4 DEF Stack
-----------------------------------------------------------------------------
(* The handlers an event calls at an element.                               *)

(* An element deeper in the document has more above it.                     *)
LEMMA DepthIs ==
  ASSUME Forest, None \notin Node
  PROVE  \A m \in Node : /\ Len(Ancestors(m)) \in Nat
                         /\ \A e \in ToSet(Ancestors(m)) : e # m => Len(Ancestors(e)) < Len(Ancestors(m))
<1> DEFINE P == {m \in Node \cup {None} :
                   /\ Len(Ancestors(m)) \in Nat
                   /\ \A e \in ToSet(Ancestors(m)) : e # m => Len(Ancestors(e)) < Len(Ancestors(m))}
<1>1. None \in P
  <2>1. Ancestors(None) = <<>>
    BY AncestorsAre
  <2>2. ToSet(Ancestors(None)) = {}
    BY <2>1 DEF ToSet
  <2>3. QED
    BY <2>1, <2>2
<1>2. ASSUME NEW n \in Node, parent[n] \in P
      PROVE  n \in P
  <2> DEFINE up == Ancestors(n)
             rest == Ancestors(parent[n])
  <2>1. up = <<n>> \o rest /\ rest \in Seq(Node) /\ up \in Seq(Node)
    <3>1. parent[n] \in Node \cup {None}
      BY DEF Forest
    <3>2. QED
      BY <3>1, AncestorsAre
  <2>2. ToSet(up) = {n} \cup ToSet(rest)
    BY AboveIs
  <2>3. Len(up) = Len(rest) + 1 /\ Len(rest) \in Nat /\ Len(up) \in Nat
    BY <2>1
  <2>4. ASSUME NEW e \in ToSet(up), e # n
        PROVE  Len(Ancestors(e)) < Len(up)
    <3>1. e \in ToSet(rest)
      BY <2>2, <2>4
    <3>2. CASE e = parent[n]
      BY <2>3, <3>2
    <3>3. CASE e # parent[n]
      <4>1. Len(Ancestors(e)) < Len(rest)
        BY <1>2, <3>1, <3>3
      <4>2. e \in Node
        BY <2>1, <3>1 DEF ToSet
      <4>3. Len(Ancestors(e)) \in Nat
        <5>1. Ancestors(e) \in Seq(Node)
          BY <4>2, AncestorsAre
        <5>2. QED
          BY <5>1
      <4>4. QED
        BY <2>3, <4>1, <4>3
    <3>4. QED
      BY <3>2, <3>3
  <2>5. QED
    BY <2>3, <2>4
<1>3. Node \cup {None} \subseteq P
  <2> HIDE DEF P
  <2>1. QED
    BY <1>1, <1>2, TreeInduction, Zenon
<1>4. QED
  BY <1>3

(* The handlers of one element come in the order of a list.                 *)
Listed(q, s) ==
  \A i, j \in DOMAIN q : i < j /\ q[i].elem = q[j].elem => Before(s, q[i].obj, q[j].obj)

LEMMA ListedBoth ==
  ASSUME NEW s, NEW u \in Seq(QueueEntry), NEW v \in Seq(QueueEntry), Listed(u, s), Listed(v, s),
         \A x \in ToSet(u), y \in ToSet(v) : x.elem # y.elem
  PROVE  Listed(u \o v, s)
<1> DEFINE t == u \o v
<1> SUFFICES ASSUME NEW i \in DOMAIN t, NEW j \in DOMAIN t, i < j, t[i].elem = t[j].elem
             PROVE  Before(s, t[i].obj, t[j].obj)
  BY DEF Listed
<1>1. i \in Nat /\ j \in Nat /\ Len(u) \in Nat
  BY SMT
<1>2. CASE j <= Len(u)
  <2>1. i \in DOMAIN u /\ j \in DOMAIN u /\ t[i] = u[i] /\ t[j] = u[j]
    BY <1>1, <1>2, SMT
  <2>2. QED
    BY <2>1 DEF Listed
<1>3. CASE i <= Len(u) /\ ~(j <= Len(u))
  <2>1. i \in DOMAIN u /\ j - Len(u) \in DOMAIN v /\ t[i] = u[i] /\ t[j] = v[j - Len(u)]
    BY <1>1, <1>3, SMT
  <2>2. t[i] \in ToSet(u) /\ t[j] \in ToSet(v)
    BY <2>1 DEF ToSet
  <2>3. QED
    BY <2>2
<1>4. CASE ~(i <= Len(u))
  <2>1. /\ i - Len(u) \in DOMAIN v /\ j - Len(u) \in DOMAIN v /\ i - Len(u) < j - Len(u)
        /\ t[i] = v[i - Len(u)] /\ t[j] = v[j - Len(u)]
    BY <1>1, <1>4, SMT
  <2>2. QED
    BY <2>1 DEF Listed
<1>5. QED
  BY <1>2, <1>3, <1>4

(* The handlers with a selector that matches one element.                   *)
LEMMA AtIs ==
  ASSUME NEW cur \in Node, NEW front \in Seq(HandleObj), IsInjective(front)
  PROVE  /\ At(cur, front) \in Seq(QueueEntry) /\ IsInjective(At(cur, front))
         /\ ToSet(At(cur, front)) = {Entry(cur, o) : o \in {x \in ToSet(front) : cur \in Matched[x.sel]}}
         /\ Listed(At(cur, front), front)
<1> DEFINE S == {o \in ToSet(front) : cur \in Matched[o.sel]}
           at == Only(front, S)
<1>1. at \in Seq(HandleObj) /\ ToSet(at) = ToSet(front) \cap S /\ IsInjective(at)
  <2> HIDE DEF S
  <2>1. QED
    BY OnlyKeeps
<1>2. At(cur, front) = [i \in DOMAIN at |-> Entry(cur, at[i])]
  BY DEF At
<1>3. ToSet(at) = S
  BY <1>1
<1> HIDE DEF S, at
<1>4. \A o \in HandleObj : Entry(cur, o) \in QueueEntry /\ Entry(cur, o).obj = o
  BY DEF Entry, QueueEntry
<1>5. At(cur, front) \in Seq(QueueEntry)
  BY <1>1, <1>2, <1>4
<1>6. IsInjective(At(cur, front))
  <2>1. \A i \in DOMAIN at : at[i] \in HandleObj
    BY <1>1
  <2>2. QED
    BY <1>1, <1>2, <1>4, <2>1 DEF IsInjective
<1>7. ToSet(At(cur, front)) = {Entry(cur, o) : o \in ToSet(at)}
  BY <1>2 DEF ToSet
<1>8. Listed(At(cur, front), front)
  <2>1. \A i, j \in DOMAIN at : i < j => Before(front, at[i], at[j])
    BY OnlyInOrder DEF at
  <2>2. DOMAIN At(cur, front) = DOMAIN at /\ \A i \in DOMAIN at : At(cur, front)[i].obj = at[i]
    BY <1>1, <1>2, <1>4
  <2>3. QED
    BY <2>1, <2>2 DEF Listed
<1>9. QED
  BY <1>3, <1>5, <1>6, <1>7, <1>8 DEF S

(* A queue goes up the document.                                            *)
Falling(q) == \A i, j \in DOMAIN q : i < j => Len(Ancestors(q[i].elem)) >= Len(Ancestors(q[j].elem))

LEMMA FallingBoth ==
  ASSUME NEW u \in Seq(QueueEntry), NEW v \in Seq(QueueEntry), Falling(u), Falling(v),
         \A x \in ToSet(u), y \in ToSet(v) : Len(Ancestors(x.elem)) >= Len(Ancestors(y.elem))
  PROVE  Falling(u \o v)
<1> DEFINE t == u \o v
<1> SUFFICES ASSUME NEW i \in DOMAIN t, NEW j \in DOMAIN t, i < j
             PROVE  Len(Ancestors(t[i].elem)) >= Len(Ancestors(t[j].elem))
  BY DEF Falling
<1>1. i \in Nat /\ j \in Nat /\ Len(u) \in Nat
  BY SMT
<1>2. CASE j <= Len(u)
  <2>1. i \in DOMAIN u /\ j \in DOMAIN u /\ t[i] = u[i] /\ t[j] = u[j]
    BY <1>1, <1>2, SMT
  <2>2. QED
    BY <2>1 DEF Falling
<1>3. CASE i <= Len(u) /\ ~(j <= Len(u))
  <2>1. i \in DOMAIN u /\ j - Len(u) \in DOMAIN v /\ t[i] = u[i] /\ t[j] = v[j - Len(u)]
    BY <1>1, <1>3, SMT
  <2>2. t[i] \in ToSet(u) /\ t[j] \in ToSet(v)
    BY <2>1 DEF ToSet
  <2>3. QED
    BY <2>2
<1>4. CASE ~(i <= Len(u))
  <2>1. /\ i - Len(u) \in DOMAIN v /\ j - Len(u) \in DOMAIN v /\ i - Len(u) < j - Len(u)
        /\ t[i] = v[i - Len(u)] /\ t[j] = v[j - Len(u)]
    BY <1>1, <1>4, SMT
  <2>2. QED
    BY <2>1 DEF Falling
<1>5. QED
  BY <1>2, <1>3, <1>4

(* One element's entries are at one depth.                                  *)
LEMMA FallingAt ==
  ASSUME Forest, None \notin Node, NEW e \in Node, NEW q \in Seq(QueueEntry), \A x \in ToSet(q) : x.elem = e
  PROVE  Falling(q)
<1>1. \A i \in DOMAIN q : q[i].elem = e
  BY DEF ToSet
<1>2. Len(Ancestors(e)) \in Nat
  BY DepthIs
<1>3. QED
  BY <1>1, <1>2 DEF Falling
(* The elements from a target up to one it lies in.                         *)
LEMMA BelowIs ==
  ASSUME Forest, None \notin Node, NEW n \in Node
  PROVE  /\ Below(n, n) = {}
         /\ \A m \in Inside(n) \ {n} : parent[m] \in Inside(n) /\ Below(n, m) = {m} \cup Below(n, parent[m])
         /\ \A m \in Node : \A e \in Below(n, m) :
              e \in Node /\ e \in ToSet(Ancestors(m)) /\ Len(Ancestors(n)) <= Len(Ancestors(e))
<1>1. \A m \in Node : Ancestors(m) \in Seq(Node) /\ ToSet(Ancestors(m)) \subseteq Node
  <2>1. \A m \in Node : Ancestors(m) \in Seq(Node)
    BY AncestorsAre
  <2>2. QED
    BY <2>1 DEF ToSet
<1>2. \A m \in Node : /\ Len(Ancestors(m)) \in Nat
                      /\ \A e \in ToSet(Ancestors(m)) : e # m => Len(Ancestors(e)) < Len(Ancestors(m))
  BY DepthIs
<1>3. Below(n, n) = {}
  <2>1. ASSUME NEW e \in ToSet(Ancestors(n)), e # n, n \in ToSet(Ancestors(e))
        PROVE  FALSE
    <3>1. e \in Node
      BY <1>1, <2>1
    <3>2. Len(Ancestors(e)) < Len(Ancestors(n)) /\ Len(Ancestors(n)) < Len(Ancestors(e))
      BY <1>2, <2>1, <3>1
    <3>3. Len(Ancestors(e)) \in Nat /\ Len(Ancestors(n)) \in Nat
      BY <1>2, <3>1
    <3>4. QED
      BY <3>2, <3>3
  <2>2. QED
    BY <2>1 DEF Below
<1>4. ASSUME NEW m \in Inside(n), m # n
      PROVE  parent[m] \in Inside(n) /\ Below(n, m) = {m} \cup Below(n, parent[m])
  <2>1. m \in Node /\ n \in ToSet(Ancestors(m))
    BY DEF Inside
  <2>2. parent[m] \in Inside(n)
    BY <1>4, <2>1, InsideIs
  <2>3. ToSet(Ancestors(m)) = {m} \cup ToSet(Ancestors(parent[m]))
    BY <2>1, AboveIs
  <2>4. QED
    BY <1>4, <2>1, <2>2, <2>3 DEF Below
<1>5. ASSUME NEW m \in Node, NEW e \in Below(n, m)
      PROVE  e \in Node /\ e \in ToSet(Ancestors(m)) /\ Len(Ancestors(n)) <= Len(Ancestors(e))
  <2>1. e \in ToSet(Ancestors(m)) /\ e # n /\ n \in ToSet(Ancestors(e))
    BY DEF Below
  <2>2. e \in Node
    BY <1>1, <2>1
  <2>3. Len(Ancestors(n)) < Len(Ancestors(e))
    BY <1>2, <2>1, <2>2
  <2>4. Len(Ancestors(n)) \in Nat /\ Len(Ancestors(e)) \in Nat
    BY <1>2, <2>2
  <2>5. QED
    BY <2>1, <2>2, <2>3, <2>4
<1>6. QED
  BY <1>3, <1>4, <1>5

LEMMA DelegatedIs ==
  ASSUME Forest, None \notin Node, NEW n \in Node, NEW front \in Seq(HandleObj), IsInjective(front),
         NEW target \in Node
  PROVE  /\ Delegated(target, n, front) \in Seq(QueueEntry) /\ IsInjective(Delegated(target, n, front))
         /\ Falling(Delegated(target, n, front)) /\ Listed(Delegated(target, n, front), front)
         /\ \A x \in ToSet(Delegated(target, n, front)) : x.obj \in ToSet(front)
         /\ target \in Inside(n) =>
              ToSet(Delegated(target, n, front)) = UNION {ToSet(At(e, front)) : e \in Below(n, target)}
<1> DEFINE own == [m \in Node |-> At(m, front)]
           stop == {n, None}
           All == Node \cup {None}
           from == CHOOSE g : g = [cur \in All |-> IF cur = n \/ cur = None THEN <<>> ELSE At(cur, front) \o g[parent[cur]]]
<1>1. own \in [Node -> Seq(QueueEntry)]
  BY AtIs
<1>2. PICK w \in [All -> Seq(QueueEntry)] : Walk(own, stop, w, All)
  <2> HIDE DEF own
  <2>1. QED
    BY <1>1, WalkExists
<1>3. w = [cur \in All |-> IF cur = n \/ cur = None THEN <<>> ELSE At(cur, front) \o w[parent[cur]]]
  <2>1. \A cur \in All : w[cur] = IF cur = n \/ cur = None THEN <<>> ELSE At(cur, front) \o w[parent[cur]]
    BY <1>2 DEF Walk, Step
  <2>2. QED
    BY <2>1
<1>4. from = [cur \in All |-> IF cur = n \/ cur = None THEN <<>> ELSE At(cur, front) \o from[parent[cur]]]
  BY <1>3, Zenon
<1> HIDE DEF from
<1>5. \A m : Delegated(m, n, front) = from[m]
  BY Zenon DEF Delegated, from
<1>6. \A m \in All : from[m] = IF m = n \/ m = None THEN <<>> ELSE At(m, front) \o from[parent[m]]
  BY <1>4
<1>7. Walk(own, stop, from, All)
  BY <1>6 DEF Walk, Step
<1>8. \A m \in All : from[m] \in Seq(QueueEntry)
  <2> HIDE DEF own
  <2>1. QED
    BY <1>1, <1>7, WalkIs
<1> DEFINE Good(m) ==
             /\ IsInjective(from[m]) /\ Falling(from[m]) /\ Listed(from[m], front)
             /\ \A x \in ToSet(from[m]) : x.obj \in ToSet(front) /\ x.elem \in ToSet(Ancestors(m))
             /\ m \in Inside(n) => ToSet(from[m]) = UNION {ToSet(At(e, front)) : e \in Below(n, m)}
           P == {m \in All : Good(m)}
<1>9. ToSet(<<>>) = {} /\ IsInjective(<<>>) /\ Falling(<<>>) /\ Listed(<<>>, front)
  BY DEF ToSet, IsInjective, Falling, Listed
<1>10. None \in P
  <2>1. from[None] = <<>> /\ None \notin Inside(n)
    BY <1>6 DEF Inside
  <2>2. QED
    BY <1>9, <2>1
<1>11. ASSUME NEW m \in Node, parent[m] \in P
       PROVE  m \in P
  <2>1. CASE m = n
    <3>1. from[m] = <<>> /\ Below(n, m) = {}
      BY <1>6, <2>1, BelowIs
    <3>2. QED
      BY <1>9, <3>1
  <2>2. CASE m # n
    <3> DEFINE at == At(m, front)
               rest == from[parent[m]]
    <3>1. parent[m] \in All /\ Good(parent[m])
      BY <1>11
    <3>2. from[m] = at \o rest
      BY <1>6, <2>2
    <3>3. at \in Seq(QueueEntry) /\ IsInjective(at) /\ Listed(at, front)
      BY AtIs
    <3>4. ToSet(at) = {Entry(m, o) : o \in {x \in ToSet(front) : m \in Matched[x.sel]}}
      BY AtIs
    <3>5. rest \in Seq(QueueEntry)
      BY <1>8, <3>1
    <3>6. \A x \in ToSet(at) : x.elem = m /\ x.obj \in ToSet(front)
      BY <3>4 DEF Entry
    <3>7. \A x \in ToSet(rest) : x.elem \in ToSet(Ancestors(parent[m])) /\ x.obj \in ToSet(front)
      BY <3>1
    <3>8. \A e \in ToSet(Ancestors(parent[m])) : Len(Ancestors(e)) < Len(Ancestors(m)) /\ e # m
      <4>1. /\ Ancestors(m) = <<m>> \o Ancestors(parent[m]) /\ Ancestors(parent[m]) \in Seq(Node)
        BY <3>1, AncestorsAre
      <4>2. ToSet(Ancestors(m)) = {m} \cup ToSet(Ancestors(parent[m]))
        BY AboveIs
      <4>3. Len(Ancestors(m)) = Len(Ancestors(parent[m])) + 1 /\ Len(Ancestors(parent[m])) \in Nat
        BY <4>1
      <4>4. \A x \in Node : /\ Len(Ancestors(x)) \in Nat
                            /\ \A e \in ToSet(Ancestors(x)) : e # x => Len(Ancestors(e)) < Len(Ancestors(x))
        BY DepthIs
      <4>5. ASSUME NEW e \in ToSet(Ancestors(parent[m]))
            PROVE  Len(Ancestors(e)) <= Len(Ancestors(parent[m]))
        <5>1. parent[m] \in Node /\ e \in Node
          <6>1. ToSet(Ancestors(None)) = {}
            BY <1>9, AncestorsAre
          <6>2. QED
            BY <3>1, <4>1, <4>5, <6>1 DEF ToSet
        <5>2. Len(Ancestors(e)) \in Nat
          BY <4>4, <5>1
        <5>3. e # parent[m] => Len(Ancestors(e)) < Len(Ancestors(parent[m]))
          BY <4>4, <4>5, <5>1
        <5>4. e = parent[m] => Len(Ancestors(e)) = Len(Ancestors(parent[m]))
          OBVIOUS
        <5>5. QED
          BY <4>3, <5>2, <5>3, <5>4, SMT
      <4>6. ASSUME NEW e \in ToSet(Ancestors(parent[m]))
            PROVE  Len(Ancestors(e)) < Len(Ancestors(m)) /\ e # m
        <5>1. e \in Node
          BY <4>1, <4>6 DEF ToSet
        <5>2. Len(Ancestors(e)) \in Nat
          BY <4>4, <5>1
        <5>3. QED
          BY <4>3, <4>5, <4>6, <5>2
      <4>7. QED
        BY <4>6
    <3> HIDE DEF at, rest
    <3>9. ToSet(at) \cap ToSet(rest) = {}
      BY <3>6, <3>7, <3>8
    <3>10. IsInjective(from[m])
      BY <3>1, <3>2, <3>3, <3>5, <3>9, InjectiveBoth DEF rest
    <3>11. Falling(from[m])
      <4>1. Falling(at)
        BY <3>3, <3>6, FallingAt
      <4>2. ASSUME NEW x \in ToSet(at), NEW y \in ToSet(rest)
            PROVE  Len(Ancestors(x.elem)) >= Len(Ancestors(y.elem))
        <5>1. x.elem = m /\ Len(Ancestors(y.elem)) < Len(Ancestors(m)) /\ y.elem \in Node
          <6>1. y \in QueueEntry
            BY <3>5 DEF ToSet
          <6>2. QED
            BY <3>6, <3>7, <3>8, <6>1 DEF QueueEntry
        <5>2. Len(Ancestors(m)) \in Nat /\ Len(Ancestors(y.elem)) \in Nat
          BY <5>1, DepthIs
        <5>3. QED
          BY <5>1, <5>2
      <4>3. QED
        BY <3>1, <3>2, <3>3, <3>5, <4>1, <4>2, FallingBoth DEF rest
    <3>12. ToSet(from[m]) = ToSet(at) \cup ToSet(rest)
      BY <3>2, <3>3, <3>5, ToSetOfBoth
    <3>13. ToSet(Ancestors(m)) = {m} \cup ToSet(Ancestors(parent[m]))
      BY AboveIs
    <3>14. \A x \in ToSet(from[m]) : x.obj \in ToSet(front) /\ x.elem \in ToSet(Ancestors(m))
      BY <3>6, <3>7, <3>12, <3>13
    <3>15. ASSUME m \in Inside(n)
           PROVE  ToSet(from[m]) = UNION {ToSet(At(e, front)) : e \in Below(n, m)}
      <4>1. parent[m] \in Inside(n) /\ Below(n, m) = {m} \cup Below(n, parent[m])
        BY <2>2, <3>15, BelowIs
      <4>2. ToSet(rest) = UNION {ToSet(At(e, front)) : e \in Below(n, parent[m])}
        BY <3>1, <4>1 DEF rest
      <4>3. QED
        BY <3>12, <4>1, <4>2 DEF at
    <3>16. Listed(from[m], front)
      <4>1. \A x \in ToSet(at), y \in ToSet(rest) : x.elem # y.elem
        BY <3>6, <3>7, <3>8
      <4>2. QED
        BY <3>1, <3>2, <3>3, <3>5, <4>1, ListedBoth DEF rest
    <3>17. QED
      BY <3>10, <3>11, <3>14, <3>15, <3>16
  <2>3. QED
    BY <2>1, <2>2
<1>12. All \subseteq P
  <2> HIDE DEF P
  <2>1. QED
    BY <1>10, <1>11, TreeInduction, Zenon
<1>13. target \in All /\ target \in P
  BY <1>12
<1>14. from[target] \in Seq(QueueEntry) /\ Good(target)
  BY <1>8, <1>13
<1>15. Delegated(target, n, front) = from[target]
  BY <1>5
<1> HIDE DEF All, P
<1>16. QED
  BY <1>14, <1>15, Zenon

(* What is bound to an element for a type.                                  *)
LEMMA BoundFine ==
  ASSUME BrowserInv, NEW n \in Node, NEW t \in Type
  PROVE  Fine(Bound(n, t), t) /\ ToSet(Bound(n, t).list) \subseteq HandlersOf(n)
<1>1. EntryFine(Data(n), n)
  BY DEF BrowserInv, ElementInv
<1>2. Fine(Bound(n, t), t)
  BY <1>1, NoHandlersFine DEF Bound, EventsOf, EntryFine
<1>3. QED
  BY <1>2 DEF HandlersOf

(* The two parts of a list, and what is in them.                            *)
LEMMA PartsOf ==
  ASSUME NEW s \in Seq(HandleObj), NEW m \in Nat, Fronted(s, Delegating, m), IsInjective(s),
         NEW front, NEW direct, front = SubSeq(s, 1, m), direct = SubSeq(s, m + 1, Len(s))
  PROVE  /\ front \in Seq(HandleObj) /\ IsInjective(front)
         /\ ToSet(front) = {o \in ToSet(s) : o.sel # None}
         /\ direct \in Seq(HandleObj) /\ IsInjective(direct)
         /\ ToSet(direct) = {o \in ToSet(s) : o.sel = None}
         /\ Len(front) = m
         /\ \A x, y : Before(front, x, y) => Before(s, x, y)
         /\ \A i, j \in DOMAIN direct : i < j => Before(s, direct[i], direct[j])
<1>1. m \in 0 .. Len(s) /\ Len(s) \in Nat /\ \A i \in DOMAIN s : s[i] \in HandleObj
  BY DEF Fronted
<1>2. \A i \in DOMAIN s : s[i].sel # None <=> i <= m
  BY <1>1 DEF Fronted, Delegating
<1>3. /\ front \in Seq(HandleObj) /\ Len(front) = m
      /\ \A i \in 1 .. m : front[i] = s[i]
      /\ direct \in Seq(HandleObj) /\ Len(direct) = Len(s) - m
      /\ \A i \in 1 .. (Len(s) - m) : direct[i] = s[m + i]
      /\ \A i \in 1 .. (Len(s) - m) : m + i \in DOMAIN s
      /\ \A i \in 1 .. m : i \in DOMAIN s
  BY <1>1, SplitAt
<1>4. DOMAIN front = 1 .. m /\ DOMAIN direct = 1 .. (Len(s) - m)
  BY <1>1, <1>3, SMT
<1>5. IsInjective(front)
  BY <1>3, <1>4 DEF IsInjective
<1>6. IsInjective(direct)
  <2>1. \A i, j \in DOMAIN direct : m + i = m + j => i = j
    BY <1>1, <1>4, SMT
  <2>2. QED
    BY <1>3, <1>4, <2>1 DEF IsInjective
<1>7. \A i \in DOMAIN s : i \in DOMAIN front \/ (i - m \in DOMAIN direct /\ m + (i - m) = i)
  BY <1>1, <1>4, SMT
<1>8. \A i \in DOMAIN front : i <= m
  BY <1>4, SMT
<1>9. \A i \in DOMAIN direct : ~(m + i <= m)
  BY <1>1, <1>4, SMT
<1>10. ToSet(front) = {o \in ToSet(s) : o.sel # None}
  <2>1. \A i \in DOMAIN front : front[i] \in ToSet(s) /\ front[i].sel # None
    BY <1>2, <1>3, <1>4, <1>8 DEF ToSet
  <2>2. \A i \in DOMAIN s : s[i].sel # None => i \in DOMAIN front /\ front[i] = s[i]
    <3>1. \A i \in DOMAIN s : i <= m => i \in DOMAIN front
      BY <1>1, <1>4, SMT
    <3>2. QED
      BY <1>2, <1>3, <1>4, <3>1
  <2>3. QED
    BY <2>1, <2>2 DEF ToSet
<1>11. ToSet(direct) = {o \in ToSet(s) : o.sel = None}
  <2>1. \A i \in DOMAIN direct : direct[i] \in ToSet(s) /\ direct[i].sel = None
    BY <1>2, <1>3, <1>4, <1>9 DEF ToSet
  <2>2. \A i \in DOMAIN s : s[i].sel = None => i - m \in DOMAIN direct /\ direct[i - m] = s[i]
    <3>1. \A i \in DOMAIN s : ~(i <= m) => i - m \in DOMAIN direct
      BY <1>1, <1>4, SMT
    <3>2. \A i \in DOMAIN s : m + (i - m) = i
      BY <1>1, SMT
    <3>3. ASSUME NEW i \in DOMAIN s, s[i].sel = None
          PROVE  i - m \in DOMAIN direct /\ direct[i - m] = s[i]
      <4>1. i - m \in DOMAIN direct
        BY <1>2, <3>1, <3>3
      <4>2. direct[i - m] = s[m + (i - m)]
        BY <1>3, <1>4, <4>1
      <4>3. QED
        BY <3>2, <4>1, <4>2
    <3>4. QED
      BY <3>3
  <2>3. ToSet(direct) \subseteq {o \in ToSet(s) : o.sel = None}
    BY <2>1 DEF ToSet
  <2>4. \A i \in DOMAIN s : s[i].sel = None => s[i] \in ToSet(direct)
    BY <2>2 DEF ToSet
  <2>5. {o \in ToSet(s) : o.sel = None} \subseteq ToSet(direct)
    BY <2>4 DEF ToSet
  <2>6. QED
    BY <2>3, <2>5
<1>12. \A x, y : Before(front, x, y) => Before(s, x, y)
  BY <1>3, <1>4 DEF Before
<1>13. ASSUME NEW i \in DOMAIN direct, NEW j \in DOMAIN direct, i < j
       PROVE  Before(s, direct[i], direct[j])
  <2>1. m + i \in DOMAIN s /\ m + j \in DOMAIN s /\ direct[i] = s[m + i] /\ direct[j] = s[m + j]
    BY <1>3, <1>4
  <2>2. m + i < m + j
    BY <1>1, <1>4, <1>13, SMT
  <2>3. QED
    BY <2>1, <2>2 DEF Before
<1>14. QED
  BY <1>3, <1>5, <1>6, <1>10, <1>11, <1>12, <1>13

LEMMA HandlerQueueIs ==
  ASSUME Forest, None \notin Node, BrowserInv, NEW n \in Node, NEW t \in Type, NEW target \in Node
  PROVE  /\ QueueFine(HandlerQueue(n, t, target), t)
         /\ \A e \in ToSet(HandlerQueue(n, t, target)) : e.obj \in HandlersOf(n)
         /\ target \in Inside(n) =>
              /\ Falling(HandlerQueue(n, t, target))
              /\ Listed(HandlerQueue(n, t, target), Bound(n, t).list)
              /\ ToSet(HandlerQueue(n, t, target)) =
                   (UNION {{Entry(e, o) : o \in {x \in ToSet(Bound(n, t).list) : x.sel # None /\ e \in Matched[x.sel]}} :
                            e \in Below(n, target)})
                   \cup {Entry(n, o) : o \in {x \in ToSet(Bound(n, t).list) : x.sel = None}}
<1> DEFINE b == Bound(n, t)
           s == b.list
           m == b.delegateCount
           front == SubSeq(s, 1, m)
           direct == SubSeq(s, m + 1, Len(s))
           first == IF m = 0 THEN <<>> ELSE Delegated(target, n, front)
           last == [i \in DOMAIN direct |-> Entry(n, direct[i])]
           q == HandlerQueue(n, t, target)
           all == ToSet(s)
<1>1. q = first \o last
  BY Zenon DEF HandlerQueue
<1>2. Fine(b, t) /\ all \subseteq HandlersOf(n)
  BY BoundFine
<1>3. s \in Seq(HandleObj) /\ m \in Nat /\ Fronted(s, Delegating, m) /\ IsInjective(s) /\ \A o \in all : o.type = t
  BY <1>2 DEF Fine, Bindings
<1> HIDE DEF b, s, m, q
<1>4. /\ front \in Seq(HandleObj) /\ IsInjective(front)
      /\ ToSet(front) = {o \in all : o.sel # None}
      /\ direct \in Seq(HandleObj) /\ IsInjective(direct)
      /\ ToSet(direct) = {o \in all : o.sel = None}
      /\ Len(front) = m
      /\ \A x, y : Before(front, x, y) => Before(s, x, y)
      /\ \A i, j \in DOMAIN direct : i < j => Before(s, direct[i], direct[j])
  BY <1>3, PartsOf
<1> HIDE DEF front, direct
<1>5. /\ Delegated(target, n, front) \in Seq(QueueEntry) /\ IsInjective(Delegated(target, n, front))
      /\ Falling(Delegated(target, n, front)) /\ Listed(Delegated(target, n, front), front)
      /\ \A x \in ToSet(Delegated(target, n, front)) : x.obj \in ToSet(front)
      /\ target \in Inside(n) =>
           ToSet(Delegated(target, n, front)) = UNION {ToSet(At(e, front)) : e \in Below(n, target)}
  BY <1>4, DelegatedIs
<1>6. /\ ToSet(<<>>) = {} /\ IsInjective(<<>>) /\ Falling(<<>>) /\ <<>> \in Seq(QueueEntry)
      /\ Listed(<<>>, front)
  BY DEF ToSet, IsInjective, Falling, Listed
<1>7. \A e \in Node : ToSet(At(e, front)) = {Entry(e, o) : o \in {x \in all : x.sel # None /\ e \in Matched[x.sel]}}
  <2>1. \A e \in Node : ToSet(At(e, front)) = {Entry(e, o) : o \in {x \in ToSet(front) : e \in Matched[x.sel]}}
    BY <1>4, AtIs
  <2>2. QED
    BY <1>4, <2>1
<1>8. /\ first \in Seq(QueueEntry) /\ IsInjective(first) /\ Falling(first) /\ Listed(first, front)
      /\ \A x \in ToSet(first) : x.obj \in ToSet(front)
  BY <1>5, <1>6
<1>9. target \in Inside(n) =>
        ToSet(first) = UNION {{Entry(e, o) : o \in {x \in all : x.sel # None /\ e \in Matched[x.sel]}} : e \in Below(n, target)}
  <2> HAVE target \in Inside(n)
  <2>1. Below(n, target) \subseteq Node
    BY BelowIs
  <2>2. UNION {ToSet(At(e, front)) : e \in Below(n, target)} =
          UNION {{Entry(e, o) : o \in {x \in all : x.sel # None /\ e \in Matched[x.sel]}} : e \in Below(n, target)}
    BY <1>7, <2>1
  <2>3. CASE m # 0
    BY <1>5, <2>2, <2>3
  <2>4. CASE m = 0
    <3>1. ToSet(front) = {}
      <4>1. DOMAIN front = {}
        BY <1>4, <2>4, SMT
      <4>2. QED
        BY <4>1 DEF ToSet
    <3>2. \A e \in Below(n, target) : {x \in all : x.sel # None /\ e \in Matched[x.sel]} = {}
      BY <1>4, <3>1
    <3>3. ToSet(first) = {}
      BY <1>6, <2>4
    <3>4. QED
      BY <3>2, <3>3
  <2>5. QED
    BY <2>3, <2>4
<1>10. /\ last \in Seq(QueueEntry) /\ IsInjective(last)
       /\ ToSet(last) = {Entry(n, o) : o \in {x \in all : x.sel = None}}
       /\ \A x \in ToSet(last) : x.elem = n /\ x.obj \in ToSet(direct)
       /\ Listed(last, s)
  <2>1. \A o \in HandleObj : Entry(n, o) \in QueueEntry /\ Entry(n, o).obj = o /\ Entry(n, o).elem = n
    BY DEF Entry, QueueEntry
  <2>2. last \in Seq(QueueEntry)
    BY <1>4, <2>1
  <2>3. \A i \in DOMAIN direct : direct[i] \in HandleObj
    BY <1>4
  <2>4. IsInjective(last)
    BY <1>4, <2>1, <2>3 DEF IsInjective
  <2>5. ToSet(last) = {Entry(n, o) : o \in ToSet(direct)}
    BY DEF ToSet
  <2>6. ToSet(direct) \subseteq HandleObj
    BY <2>3 DEF ToSet
  <2>7. Listed(last, s)
    <3>1. DOMAIN last = DOMAIN direct /\ \A i \in DOMAIN direct : last[i].obj = direct[i]
      BY <2>1, <2>3
    <3>2. QED
      BY <1>4, <3>1 DEF Listed
  <2>8. QED
    BY <1>4, <2>1, <2>2, <2>4, <2>5, <2>6, <2>7
<1> HIDE DEF first, last
<1>11. q \in Seq(QueueEntry) /\ ToSet(q) = ToSet(first) \cup ToSet(last)
  BY <1>1, <1>8, <1>10, ToSetOfBoth
<1>12. \A e \in ToSet(q) : e.obj \in all
  BY <1>4, <1>8, <1>10, <1>11
<1>13. IsInjective(q)
  <2>1. ToSet(first) \cap ToSet(last) = {}
    BY <1>4, <1>8, <1>10
  <2>2. QED
    BY <1>1, <1>8, <1>10, <2>1, InjectiveBoth
<1>14. ASSUME target \in Inside(n)
       PROVE  Falling(q)
  <2>1. Falling(last)
    BY <1>10, FallingAt
  <2>2. ASSUME NEW x \in ToSet(first), NEW y \in ToSet(last)
        PROVE  Len(Ancestors(x.elem)) >= Len(Ancestors(y.elem))
    <3>1. PICK e \in Below(n, target) : x.elem = e
      BY <1>9, <1>14 DEF Entry
    <3>2. y.elem = n
      BY <1>10
    <3>3. e \in Node /\ Len(Ancestors(n)) <= Len(Ancestors(e))
      BY BelowIs
    <3>4. Len(Ancestors(n)) \in Nat /\ Len(Ancestors(e)) \in Nat
      BY <3>3, DepthIs
    <3>5. QED
      BY <3>1, <3>2, <3>3, <3>4
  <2>3. QED
    BY <1>1, <1>8, <1>10, <2>1, <2>2, FallingBoth
<1>15. QueueFine(q, t) /\ \A e \in ToSet(q) : e.obj \in HandlersOf(n)
  BY <1>2, <1>3, <1>11, <1>12, <1>13 DEF QueueFine
<1>16. ASSUME target \in Inside(n)
       PROVE  ToSet(q) = (UNION {{Entry(e, o) : o \in {x \in all : x.sel # None /\ e \in Matched[x.sel]}} : e \in Below(n, target)})
                         \cup {Entry(n, o) : o \in {x \in all : x.sel = None}}
  BY <1>9, <1>10, <1>11, <1>16, Zenon
<1>17. ASSUME target \in Inside(n)
       PROVE  Listed(q, s)
  <2>1. Listed(first, s)
    BY <1>4, <1>8 DEF Listed
  <2>2. ASSUME NEW x \in ToSet(first), NEW y \in ToSet(last)
        PROVE  x.elem # y.elem
    <3>1. PICK e \in Below(n, target) : x.elem = e
      BY <1>9, <1>17 DEF Entry
    <3>2. e # n /\ y.elem = n
      BY <1>10 DEF Below
    <3>3. QED
      BY <3>1, <3>2
  <2>3. QED
    BY <1>1, <1>8, <1>10, <2>1, <2>2, ListedBoth
<1>18. QED
  BY <1>14, <1>15, <1>16, <1>17, Zenon DEF q, s, b
(* A sequence without repetition is as long as it has elements.             *)
LEMMA InjectiveLength ==
  ASSUME NEW X, NEW s \in Seq(X), IsInjective(s)
  PROVE  Cardinality(ToSet(s)) = Len(s)
<1>1. Len(s) \in Nat /\ DOMAIN s = 1 .. Len(s)
  OBVIOUS
<1>2. s \in [1 .. Len(s) -> ToSet(s)]
  BY <1>1 DEF ToSet
<1>3. s \in Bijection(1 .. Len(s), ToSet(s))
  BY <1>1, <1>2 DEF Bijection, Injection, Surjection, ToSet
<1>4. QED
  BY <1>1, <1>3, FS_CountingElements DEF ExistsBijection

LEMMA QueuesComplete ==
  ASSUME Forest, None \notin Node, BrowserInv
  PROVE  QueueIsComplete
<1> SUFFICES ASSUME NEW n \in Node, NEW t \in Type, NEW target \in Inside(n)
             PROVE  LET q == HandlerQueue(n, t, target)
                        list == Bound(n, t).list
                        all == ToSet(list)
                        depth(e) == Len(Ancestors(e))
                    IN /\ ToSet(q) = (UNION {{Entry(e, o) : o \in {x \in all : x.sel # None /\ e \in Matched[x.sel]}} :
                                                 e \in Below(n, target)})
                                     \cup {Entry(n, o) : o \in {x \in all : x.sel = None}}
                       /\ Cardinality(ToSet(q)) = Len(q)
                       /\ \A i, j \in DOMAIN q : i < j => depth(q[i].elem) >= depth(q[j].elem)
                       /\ \A i, j \in DOMAIN q : i < j /\ q[i].elem = q[j].elem =>
                                                     Before(list, q[i].obj, q[j].obj)
  BY Zenon DEF QueueIsComplete
<1>1. target \in Node
  BY DEF Inside
<1>2. /\ QueueFine(HandlerQueue(n, t, target), t)
      /\ Falling(HandlerQueue(n, t, target)) /\ Listed(HandlerQueue(n, t, target), Bound(n, t).list)
      /\ ToSet(HandlerQueue(n, t, target)) =
           (UNION {{Entry(e, o) : o \in {x \in ToSet(Bound(n, t).list) : x.sel # None /\ e \in Matched[x.sel]}} :
                     e \in Below(n, target)})
           \cup {Entry(n, o) : o \in {x \in ToSet(Bound(n, t).list) : x.sel = None}}
  BY <1>1, HandlerQueueIs
<1>3. Cardinality(ToSet(HandlerQueue(n, t, target))) = Len(HandlerQueue(n, t, target))
  BY <1>2, InjectiveLength DEF QueueFine
<1>4. QED
  BY <1>2, <1>3, Zenon DEF Falling, Listed
-----------------------------------------------------------------------------
(* What a step leaves.                                                      *)

LEMMA NothingWritten ==
  ASSUME BrowserInv, UNCHANGED <<data, listeners, attaches>>
  PROVE  /\ BrowserInv' /\ guid' = guid
         /\ \A m : Data(m)' = Data(m) /\ HandlersOf(m)' = HandlersOf(m)
<1>1. UNCHANGED <<expando, cache, deleted, guid, listeners, attaches>>
  BY DEF data
<1>2. \A m : Data(m)' = Data(m)
  BY <1>1 DEF Data
<1>3. \A m : HandlersOf(m)' = HandlersOf(m)
  BY <1>2 DEF HandlersOf, Bound, EventsOf
<1>4. KeysInv'
  BY <1>1 DEF BrowserInv, KeysInv, Keys
<1>5. \A m \in Node : ElementInv(m)'
  BY <1>1, <1>2 DEF BrowserInv, ElementInv, EntryFine, InUse, Listener
<1>6. Focused' = Focused
  BY <1>2 DEF Focused
<1>7. BrowserInv'
  BY <1>1, <1>4, <1>5, <1>6 DEF BrowserInv
<1>8. QED
  BY <1>1, <1>2, <1>3, <1>7

LEMMA SameDocument ==
  ASSUME Forest, parent[Root] = None, parent' = parent
  PROVE  Forest' /\ parent'[Root] = None
BY DEF Forest, Grows

(* What is bound is a handler object.                                       *)
LEMMA BoundTyped ==
  ASSUME BrowserInv, NEW n \in Node
  PROVE  HandlersOf(n) \subseteq HandleObj
<1>1. \A t \in Type : Fine(Bound(n, t), t)
  BY BoundFine
<1>2. \A t \in Type : Bound(n, t).list \in Seq(HandleObj)
  BY <1>1 DEF Fine, Bindings
<1>3. \A t \in Type : ToSet(Bound(n, t).list) \subseteq HandleObj
  BY <1>2 DEF ToSet
<1>4. QED
  BY <1>3 DEF HandlersOf

LEMMA SerialTyped ==
  ASSUME EventsAssumption, NEW o \in HandleObj
  PROVE  o.serial \in Nat
BY DEF EventsAssumption, HandleObj

(* Nothing new is bound or queued.                                          *)
Everywhere == UNION {HandlersOf(n) : n \in Node}

LEMMA SerialsKept ==
  ASSUME EventsAssumption, BrowserInv, used \in Nat, Serials(calls), used' \in {used, used + 1},
         Queued(calls') \subseteq Queued(calls) \cup Everywhere,
         \A n \in Node : HandlersOf(n)' \subseteq Everywhere
  PROVE  Serials(calls)'
<1> DEFINE known == Queued(calls) \cup Everywhere
           next == Queued(calls') \cup Everywhere'
<1>1. \A o, p \in known : o.serial < used /\ (o.serial = p.serial => o = p)
  BY DEF Serials, Everywhere
<1>2. known \subseteq HandleObj
  BY BoundTyped DEF Queued, Everywhere
<1>3. Everywhere' \subseteq Everywhere
  BY DEF Everywhere
<1>4. next \subseteq known
  BY <1>3
<1> HIDE DEF known, next
<1>5. \A o \in next : o.serial < used'
  BY <1>1, <1>2, <1>4, SerialTyped
<1>6. \A o, p \in next : o.serial < used' /\ (o.serial = p.serial => o = p)
  BY <1>1, <1>4, <1>5
<1>7. QED
  BY <1>6 DEF Serials, Everywhere, next

LEMMA SameBound ==
  ASSUME BoundAsMeant, UNCHANGED <<meant, counts>>, \A n \in Node : HandlersOf(n)' = HandlersOf(n)
  PROVE  BoundAsMeant'
<1>1. AllBound' = AllBound
  BY DEF AllBound
<1>2. QED
  BY <1>1 DEF BoundAsMeant

(* A binding of one element is known by its serial.                         *)
LEMMA OneOfSerial ==
  ASSUME Serials(calls), NEW n \in Node, NEW o \in HandlersOf(n), NEW p,
         p \in Queued(calls) \/ \E m \in Node : p \in HandlersOf(m)
  PROVE  o.serial < used /\ p.serial < used /\ (o.serial = p.serial => o = p)
BY DEF Serials

(* A step of the calls under way.                                           *)
LEMMA CallsStep ==
  ASSUME EventsAssumption, EventsInv, UNCHANGED <<parent, data, listeners, attaches, meant, counts>>,
         used' \in {used, used + 1}, used' <= MaxCalls, Stack(calls'),
         Queued(calls') \subseteq Queued(calls) \cup Everywhere,
         ~again' => ~again /\ Apart(calls') /\ Uncounted(calls', DOMAIN counts)
  PROVE  EventsInv'
<1>1. /\ Forest /\ parent[Root] = None
      /\ BrowserInv /\ used \in 0 .. MaxCalls /\ guid <= used + 1 /\ MaxCalls \in Nat
      /\ Stack(calls) /\ Serials(calls) /\ BoundAsMeant /\ CountsInv(calls)
  BY DEF EventsInv, EventsAssumption
<1>2. /\ BrowserInv' /\ guid' = guid /\ \A m : HandlersOf(m)' = HandlersOf(m)
  BY <1>1, NothingWritten
<1>3. Forest' /\ parent'[Root] = None
  BY <1>1, SameDocument
<1>4. used \in Nat /\ guid \in Nat
  BY <1>1 DEF BrowserInv, KeysInv
<1>5. used' \in 0 .. MaxCalls /\ guid' <= used' + 1
  BY <1>1, <1>2, <1>4, SMT
<1>6. Serials(calls)'
  <2>1. \A n \in Node : HandlersOf(n)' \subseteq Everywhere
    BY <1>2 DEF Everywhere
  <2>2. QED
    BY <1>1, <1>4, <2>1, SerialsKept
<1>7. BoundAsMeant'
  BY <1>1, <1>2, SameBound
<1>8. CountsInv(calls)'
  <2>1. \A key \in DOMAIN counts : key \in Node \X Nat \X Node /\ key[2] < used'
    <3>1. \A key \in DOMAIN counts : key[2] \in Nat
      BY <1>1 DEF CountsInv
    <3>2. QED
      BY <1>1, <1>4, <3>1 DEF CountsInv
  <2>2. QED
    BY <1>1, <1>2, <2>1 DEF CountsInv
<1>9. QED
  BY <1>2, <1>3, <1>5, <1>6, <1>7, <1>8 DEF EventsInv

(* A step of the page that binds nothing.                                   *)
LEMMA PageStep ==
  ASSUME EventsAssumption, EventsInv, Forest', parent'[Root] = None, BrowserInv', guid' \in {guid, guid + 1},
         used < MaxCalls, used' = used + 1, UNCHANGED <<calls, counts, again>>,
         \A n \in Node : HandlersOf(n)' \subseteq HandlersOf(n), BoundAsMeant'
  PROVE  EventsInv'
<1>1. /\ BrowserInv /\ used \in 0 .. MaxCalls /\ guid <= used + 1 /\ MaxCalls \in Nat
      /\ Stack(calls) /\ Serials(calls) /\ CountsInv(calls)
  BY DEF EventsInv, EventsAssumption
<1>2. used \in Nat /\ guid \in Nat
  BY <1>1 DEF BrowserInv, KeysInv
<1>3. used' \in 0 .. MaxCalls /\ guid' <= used' + 1
  BY <1>1, <1>2, SMT
<1>4. Serials(calls)'
  <2>1. \A n \in Node : HandlersOf(n)' \subseteq Everywhere
    BY DEF Everywhere
  <2>2. QED
    BY <1>1, <1>2, <2>1, SerialsKept
<1>5. CountsInv(calls)'
  <2>1. \A key \in DOMAIN counts : key \in Node \X Nat \X Node /\ key[2] < used'
    <3>1. \A key \in DOMAIN counts : key[2] \in Nat
      BY <1>1 DEF CountsInv
    <3>2. QED
      BY <1>1, <1>2, <3>1 DEF CountsInv
  <2>2. QED
    BY <1>1, <2>1 DEF CountsInv
<1>6. QED
  BY <1>1, <1>3, <1>4, <1>5 DEF EventsInv
-----------------------------------------------------------------------------
(* An event goes on.                                                        *)

LEMMA FramesAre ==
  ASSUME NEW f \in Frame
  PROVE  /\ f.k = "event" => f \in [k : {"event"}, type : Type, target : Node, native : BOOLEAN, path : Seq(Node)]
         /\ f.k = "dispatch" => f \in [k : {"dispatch"}, node : Node, type : Type, queue : Seq(QueueEntry)]
         /\ f.k = "handler" => f \in [k : {"handler"}, node : Node, obj : HandleObj]
         /\ f.k \in {"event", "dispatch", "handler"}
BY DEF Frame

LEMMA UncountedPopped ==
  ASSUME NEW s, Stack(s), s # <<>>, s[1].k # "handler", NEW C, Uncounted(s, C)
  PROVE  Uncounted(Tail(s), C)
<1> DEFINE t == Tail(s)
<1>1. /\ s \in Seq(Frame) /\ t \in Seq(Frame) /\ 1 \in DOMAIN s /\ s[1] \in Frame /\ Len(t) = Len(s) - 1
      /\ \A i \in DOMAIN t : i + 1 \in DOMAIN s /\ t[i] = s[i + 1]
  BY TakenOff DEF Stack
<1>2. s[1].k \in {"event", "dispatch"}
  BY <1>1, FramesAre
<1> HIDE DEF t
<1>3. ASSUME 1 \in DOMAIN t
      PROVE  t[1].k # "dispatch"
  <2>1. t[1] = s[2] /\ 1 # Len(s)
    BY <1>1, <1>3, SMT
  <2>2. Sits(s, 1)
    BY <1>1 DEF Stack
  <2>3. QED
    BY <1>2, <2>1, <2>2 DEF Sits
<1>4. ASSUME NEW i \in DOMAIN t, t[i].k = "dispatch", NEW j \in DOMAIN t[i].queue,
             i = 1 \/ j # 1, t[i].queue[j].obj.one
      PROVE  Key(t[i], t[i].queue[j]) \notin C
  <2>1. i # 1
    BY <1>3, <1>4
  <2>2. i + 1 \in DOMAIN s /\ t[i] = s[i + 1]
    BY <1>1
  <2>3. QED
    BY <1>4, <2>1, <2>2 DEF Uncounted
<1>5. QED
  BY <1>4 DEF Uncounted, t

LEMMA UncountedPushed ==
  ASSUME NEW s \in Seq(Frame), NEW f \in Frame, NEW t, t = <<f>> \o s, NEW C, Uncounted(s, C),
         f.k = "dispatch" => \A j \in DOMAIN f.queue : f.queue[j].obj.one => Key(f, f.queue[j]) \notin C
  PROVE  Uncounted(t, C)
<1>1. t[1] = f /\ \A i \in DOMAIN t : i # 1 => i - 1 \in DOMAIN s /\ t[i] = s[i - 1]
  BY OnTop
<1>2. ASSUME NEW i \in DOMAIN t, t[i].k = "dispatch", NEW j \in DOMAIN t[i].queue,
             i = 1 \/ j # 1, t[i].queue[j].obj.one
      PROVE  Key(t[i], t[i].queue[j]) \notin C
  <2>1. CASE i = 1
    BY <1>1, <1>2, <2>1
  <2>2. CASE i # 1
    <3>1. j # 1 /\ i - 1 \in DOMAIN s /\ t[i] = s[i - 1]
      BY <1>1, <1>2, <2>2
    <3>2. QED
      BY <1>2, <3>1 DEF Uncounted
  <2>3. QED
    BY <2>1, <2>2
<1>3. QED
  BY <1>2 DEF Uncounted

(* The event on top goes to another part of its path.                       *)
LEMMA EventChanged ==
  ASSUME NEW e \in Frame, e.k = "event", NEW p \in Seq(Node)
  PROVE  /\ [e EXCEPT !.path = p] \in Frame /\ [e EXCEPT !.path = p].k = "event"
         /\ [e EXCEPT !.path = p].type = e.type
<1>1. e \in [k : {"event"}, type : Type, target : Node, native : BOOLEAN, path : Seq(Node)]
  BY FramesAre
<1>2. /\ [e EXCEPT !.path = p] \in [k : {"event"}, type : Type, target : Node, native : BOOLEAN, path : Seq(Node)]
      /\ [e EXCEPT !.path = p].type = e.type
  BY <1>1
<1>3. QED
  BY <1>2 DEF Frame

LEMMA PathChanged ==
  ASSUME NEW s, Stack(s), s # <<>>, s[1].k = "event", NEW f \in Frame, f.k = "event", f.type = s[1].type,
         NEW t, t = <<f>> \o Tail(s), NEW C
  PROVE  /\ Stack(t) /\ Queued(t) \subseteq Queued(s) /\ t # <<>>
         /\ t[1] = f
         /\ Apart(s) => Apart(t)
         /\ Uncounted(s, C) => Uncounted(t, C)
<1> DEFINE r == Tail(s)
<1>1. /\ s \in Seq(Frame) /\ r \in Seq(Frame) /\ 1 \in DOMAIN s /\ s[1] \in Frame
      /\ \A i \in DOMAIN r : i + 1 \in DOMAIN s /\ r[i] = s[i + 1]
      /\ Len(r) = Len(s) - 1
  BY TakenOff DEF Stack
<1>3. Stack(r) /\ Queued(r) \subseteq Queued(s) /\ (Apart(s) => Apart(r))
  BY StackPopped
<1>4. Fits(f, r)
  <2>1. r # <<>> => 1 # Len(s) /\ r[1] = s[2]
    BY <1>1, SMT
  <2>2. Sits(s, 1)
    BY <1>1 DEF Stack
  <2>3. QED
    BY <2>1, <2>2 DEF Sits, Fits
<1> HIDE DEF r
<1>5. t = <<f>> \o r
  BY DEF r
<1>6. /\ Stack(t)
      /\ Queued(t) \subseteq
           Queued(r) \cup {o \in HandleObj : f.k = "dispatch" /\ \E e \in ToSet(f.queue) : o = e.obj}
      /\ Apart(r) /\ (f.k = "event" => \A i \in DOMAIN r : r[i].k = "dispatch" => r[i].type # f.type) => Apart(t)
  BY <1>3, <1>4, <1>5, StackPushed
<1>7. ASSUME Apart(s)
      PROVE  Apart(t)
  <2>1. ASSUME NEW i \in DOMAIN r, r[i].k = "dispatch"
        PROVE  r[i].type # f.type
    <3>1. i + 1 \in DOMAIN s /\ r[i] = s[i + 1] /\ 1 < i + 1
      BY <1>1, SMT
    <3>2. QED
      BY <1>1, <1>7, <2>1, <3>1 DEF Apart
  <2>2. QED
    BY <1>3, <1>6, <1>7, <2>1
<1>8. ASSUME Uncounted(s, C)
      PROVE  Uncounted(t, C)
  <2>1. Uncounted(r, C)
    BY <1>8, UncountedPopped DEF r
  <2>2. QED
    BY <1>1, <1>5, <2>1, UncountedPushed
<1>9. t[1] = f /\ t # <<>>
  <2>1. t[1] = f /\ Len(t) = Len(r) + 1 /\ t \in Seq(Frame)
    BY <1>1, <1>5, OnTop
  <2>2. QED
    BY <1>1, <2>1, SMT
<1>10. QED
  BY <1>3, <1>6, <1>7, <1>8, <1>9
LEMMA PropagateKeeps ==
  ASSUME EventsAssumption, EventsInv, Propagate
  PROVE  EventsInv'
<1> DEFINE ev == Head(calls)
           n == Head(ev.path)
           f == [ev EXCEPT !.path = Tail(@)]
           rest == <<f>> \o Tail(calls)
           to == IF ev.native THEN listeners[n][ev.type]
                 ELSE IF ev.type \in DOMAIN EventsOf(n) THEN Data(n).handle ELSE None
           d == Dispatch(to, ev.type, HandlerQueue(to, ev.type, ev.target))
           C == DOMAIN counts
<1>1. /\ None \notin Node /\ Forest /\ BrowserInv /\ Stack(calls) /\ CountsInv(calls)
      /\ used \in 0 .. MaxCalls
  BY DEF EventsInv, EventsAssumption
<1>2. calls # <<>> /\ ev.k = "event"
  BY DEF Propagate, In, Idle
<1>3. ev = calls[1] /\ ev \in Frame /\ 1 \in DOMAIN calls
  BY <1>1, <1>2, TakenOff DEF Stack
<1>4. ev \in [k : {"event"}, type : Type, target : Node, native : BOOLEAN, path : Seq(Node)]
  BY <1>2, <1>3, FramesAre
<1>5. UNCHANGED <<parent, data, listeners, attaches, meant, counts, again, used>>
  BY DEF Propagate, ghosts
<1>6. calls' = IF ev.path = <<>> THEN Tail(calls) ELSE IF to = None THEN rest ELSE <<d>> \o rest
  BY Zenon DEF Propagate
<1> HIDE DEF d, to
<1> SUFFICES /\ Stack(calls') /\ Queued(calls') \subseteq Queued(calls) \cup Everywhere
             /\ ~again => Apart(calls') /\ Uncounted(calls', C)
  <2>1. used' \in {used, used + 1} /\ used' <= MaxCalls
    BY <1>1, <1>5, SMT
  <2>2. (~again' => ~again) /\ (~again => Apart(calls') /\ Uncounted(calls', DOMAIN counts))
    BY <1>5
  <2>3. QED
    BY <1>5, <2>1, <2>2, CallsStep
<1>7. ~again => Apart(calls) /\ Uncounted(calls, C)
  BY <1>1 DEF CountsInv
<1>8. CASE ev.path = <<>>
  <2>1. calls' = Tail(calls)
    BY <1>6, <1>8
  <2>2. Stack(Tail(calls)) /\ Queued(Tail(calls)) \subseteq Queued(calls) /\ (Apart(calls) => Apart(Tail(calls)))
    BY <1>1, <1>2, StackPopped
  <2>3. Uncounted(calls, C) => Uncounted(Tail(calls), C)
    BY <1>1, <1>2, <1>3, UncountedPopped
  <2>4. QED
    BY <1>7, <2>1, <2>2, <2>3
<1>9. CASE ev.path # <<>>
  <2>1. n \in Node /\ Tail(ev.path) \in Seq(Node)
    BY <1>4, <1>9
  <2>2. f = [calls[1] EXCEPT !.path = Tail(ev.path)]
    BY <1>3
  <2> HIDE DEF f, ev, n
  <2>3. /\ Stack(rest) /\ Queued(rest) \subseteq Queued(calls) /\ rest # <<>>
        /\ rest[1] = f /\ f \in Frame /\ f.k = "event" /\ f.type = ev.type
        /\ Apart(calls) => Apart(rest)
        /\ Uncounted(calls, C) => Uncounted(rest, C)
    <3>1. calls[1].k = "event" /\ ev.type = calls[1].type
      BY <1>2, <1>3
    <3>2. f \in Frame /\ f.k = "event" /\ f.type = ev.type
      BY <1>2, <1>3, <2>1, <2>2, EventChanged
    <3> HIDE DEF C
    <3>3. /\ Stack(rest) /\ Queued(rest) \subseteq Queued(calls) /\ rest # <<>> /\ rest[1] = f
          /\ Apart(calls) => Apart(rest)
          /\ Uncounted(calls, C) => Uncounted(rest, C)
      BY <1>1, <1>2, <3>1, <3>2, PathChanged
    <3>4. QED
      BY <3>2, <3>3
  <2> HIDE DEF rest
  <2>4. CASE to = None
    BY <1>6, <1>7, <1>9, <2>3, <2>4
  <2>5. CASE to # None
    <3>1. calls' = <<d>> \o rest
      BY <1>6, <1>9, <2>5
    <3>2. to \in Node
      <4>1. ElementInv(n) /\ listeners[n] \in [Type -> Node \cup {None}] /\ ev.type \in Type
        BY <1>1, <1>4, <2>1 DEF BrowserInv
      <4>2. Data(n).handle \in Node \cup {None}
        BY <4>1, EventsAre DEF ElementInv, EntryFine
      <4>3. QED
        BY <2>5, <4>1, <4>2 DEF to
    <3> DEFINE q == HandlerQueue(to, ev.type, ev.target)
    <3>3. QueueFine(q, ev.type) /\ \A e \in ToSet(q) : e.obj \in HandlersOf(to)
      BY <1>1, <1>4, <3>2, HandlerQueueIs
    <3> HIDE DEF q
    <3>4. d = [k |-> "dispatch", node |-> to, type |-> ev.type, queue |-> q]
      BY DEF d, Dispatch, q
    <3>5. d \in Frame /\ d.k = "dispatch" /\ d.node = to /\ d.type = ev.type /\ d.queue = q
      BY <1>4, <3>2, <3>3, <3>4 DEF Frame, QueueFine
    <3>6. Fits(d, rest)
      BY <2>3, <3>3, <3>5 DEF Fits
    <3>7. /\ Stack(calls')
          /\ Queued(calls') \subseteq
               Queued(rest) \cup {o \in HandleObj : d.k = "dispatch" /\ \E e \in ToSet(d.queue) : o = e.obj}
          /\ Apart(rest) => Apart(calls')
      BY <2>3, <3>1, <3>5, <3>6, StackPushed
    <3>8. {o \in HandleObj : d.k = "dispatch" /\ \E e \in ToSet(d.queue) : o = e.obj} \subseteq Everywhere
      BY <3>2, <3>3, <3>5 DEF Everywhere
    <3>9. ASSUME Uncounted(rest, C)
          PROVE  Uncounted(calls', C)
      <4>1. ASSUME NEW j \in DOMAIN d.queue, d.queue[j].obj.one
            PROVE  Key(d, d.queue[j]) \notin C
        <5>1. d.queue[j] \in ToSet(q) /\ d.queue[j] \in QueueEntry
          BY <3>3, <3>5 DEF ToSet, QueueFine
        <5>2. d.queue[j].obj \in HandlersOf(to) /\ d.queue[j].elem \in Node
          BY <3>3, <5>1 DEF QueueEntry
        <5>3. <<to, d.queue[j].obj.serial, d.queue[j].elem>> \notin C
          BY <1>1, <3>2, <4>1, <5>2 DEF CountsInv
        <5>4. QED
          BY <3>5, <5>3 DEF Key
      <4>2. QED
        BY <2>3, <3>1, <3>5, <3>9, <4>1, UncountedPushed DEF Stack
    <3>10. QED
      BY <1>7, <2>3, <3>7, <3>8, <3>9
  <2>6. QED
    BY <2>4, <2>5
<1>10. QED
  BY <1>8, <1>9
-----------------------------------------------------------------------------
(* A handler returns.                                                       *)

(* What lies below a handler: its dispatch and the event of that.           *)
LEMMA UnderHandler ==
  ASSUME NEW s, Stack(s), s # <<>>, s[1].k = "handler", NEW r, r = Tail(Tail(s)), NEW C
  PROVE  /\ 2 \in DOMAIN s /\ s[2] \in Frame /\ s[2].k = "dispatch" /\ s[2].queue # <<>>
         /\ QueueFine(s[2].queue, s[2].type)
         /\ 3 \in DOMAIN s /\ s[3] \in Frame /\ s[3].k = "event" /\ s[3].type = s[2].type
         /\ r # <<>> /\ r[1] = s[3] /\ r = SubSeq(s, 3, Len(s)) /\ Tail(r) = SubSeq(s, 4, Len(s))
         /\ Stack(r) /\ Queued(r) \subseteq Queued(s) /\ (Apart(s) => Apart(r))
         /\ Uncounted(s, C) => Uncounted(r, C)
<1>1. s \in Seq(Frame) /\ 1 \in DOMAIN s /\ Len(s) \in Nat /\ DOMAIN s = 1 .. Len(s)
  BY TakenOff DEF Stack
<1>2. Sits(s, 1)
  BY <1>1 DEF Stack
<1>3. 1 # Len(s) /\ s[2].k = "dispatch" /\ s[2].queue # <<>>
  BY <1>2 DEF Sits
<1>4. 2 \in DOMAIN s /\ s[2] \in Frame
  <2>1. 1 # Len(s)
    BY <1>3
  <2>2. 2 \in 1 .. Len(s)
    BY <1>1, <2>1, SMT
  <2>3. QED
    BY <1>1, <2>2
<1>5. Sits(s, 2)
  BY <1>4 DEF Stack
<1>6. 2 # Len(s) /\ s[3].k = "event" /\ s[3].type = s[2].type /\ QueueFine(s[2].queue, s[2].type)
  BY <1>3, <1>5 DEF Sits
<1>7. 3 \in DOMAIN s /\ s[3] \in Frame
  <2>1. 2 # Len(s) /\ 2 \in 1 .. Len(s)
    BY <1>1, <1>4, <1>6
  <2>2. 3 \in 1 .. Len(s)
    BY <1>1, <2>1, SMT
  <2>3. QED
    BY <1>1, <2>2
<1> DEFINE m == Tail(s)
<1>8. Stack(m) /\ Queued(m) \subseteq Queued(s) /\ (Apart(s) => Apart(m))
  BY StackPopped
<1>9. m # <<>>
  <2>1. 2 \in 1 .. Len(s)
    BY <1>1, <1>4
  <2>2. Len(m) = Len(s) - 1
    BY <1>1, TakenOff
  <2>3. Len(m) # 0
    BY <1>1, <2>1, <2>2, SMT
  <2> HIDE DEF m
  <2>4. m = <<>> => Len(m) = 0
    OBVIOUS
  <2>5. QED
    BY <2>3, <2>4
<1>10. Stack(r) /\ Queued(r) \subseteq Queued(m) /\ (Apart(m) => Apart(r))
  BY <1>8, <1>9, StackPopped
<1>11. /\ r \in Seq(Frame) /\ r # <<>> /\ r[1] = s[3]
       /\ \A i \in DOMAIN r : i + 2 \in DOMAIN s /\ r[i] = s[i + 2]
  <2>1. m \in Seq(Frame) /\ Len(m) = Len(s) - 1 /\ \A i \in DOMAIN m : i + 1 \in DOMAIN s /\ m[i] = s[i + 1]
    BY <1>1, TakenOff
  <2>2. r \in Seq(Frame) /\ Len(r) = Len(m) - 1 /\ \A i \in DOMAIN r : i + 1 \in DOMAIN m /\ r[i] = m[i + 1]
    BY <1>9, <2>1, TakenOff
  <2> HIDE DEF m
  <2>3. \A i \in DOMAIN r : i + 1 + 1 = i + 2
    BY <2>2, SMT
  <2>4. \A i \in DOMAIN r : i + 2 \in DOMAIN s /\ r[i] = s[i + 2]
    BY <2>1, <2>2, <2>3
  <2>5. 1 \in DOMAIN r /\ r # <<>>
    <3>1. 3 \in 1 .. Len(s) /\ Len(r) = Len(s) - 1 - 1 /\ DOMAIN r = 1 .. Len(r) /\ Len(r) \in Nat
      BY <1>1, <1>7, <2>1, <2>2
    <3>2. 1 \in 1 .. Len(r) /\ Len(r) # 0
      BY <1>1, <3>1, SMT
    <3>3. QED
      BY <3>1, <3>2
  <2>6. r[1] = s[3]
    <3>1. r[1] = s[1 + 2]
      BY <2>4, <2>5
    <3>2. 1 + 2 = 3
      OBVIOUS
    <3>3. QED
      BY <3>1, <3>2, Zenon
  <2>7. QED
    BY <2>2, <2>4, <2>5, <2>6
<1>12. r = SubSeq(s, 3, Len(s)) /\ Tail(r) = SubSeq(s, 4, Len(s))
  <2>1. r = SubSeq(s, 3, Len(s))
    BY <1>1, <1>7, SMT
  <2>2. Tail(SubSeq(s, 3, Len(s))) = SubSeq(s, 4, Len(s))
    BY <1>1, <1>7, SMT
  <2>3. QED
    BY <2>1, <2>2
<1>13. ASSUME Uncounted(s, C)
       PROVE  Uncounted(r, C)
  <2> SUFFICES ASSUME NEW i \in DOMAIN r, r[i].k = "dispatch", NEW j \in DOMAIN r[i].queue,
                      i = 1 \/ j # 1, r[i].queue[j].obj.one
               PROVE  Key(r[i], r[i].queue[j]) \notin C
    BY DEF Uncounted
  <2>1. i # 1
    BY <1>6, <1>11
  <2>2. QED
    BY <1>11, <1>13, <2>1 DEF Uncounted
<1>14. QED
  BY <1>3, <1>4, <1>6, <1>7, <1>8, <1>10, <1>11, <1>12, <1>13

(* The dispatch goes on with a part of the queue behind its first handler.  *)
LEMMA DispatchChanged ==
  ASSUME NEW d \in Frame, d.k = "dispatch", NEW q \in Seq(QueueEntry), NEW f, f = [d EXCEPT !.queue = q]
  PROVE  f \in Frame /\ f.k = "dispatch" /\ f.node = d.node /\ f.type = d.type /\ f.queue = q
<1>1. d \in [k : {"dispatch"}, node : Node, type : Type, queue : Seq(QueueEntry)]
  BY FramesAre
<1>2. /\ f \in [k : {"dispatch"}, node : Node, type : Type, queue : Seq(QueueEntry)]
      /\ f.node = d.node /\ f.type = d.type /\ f.queue = q
  BY <1>1
<1>3. QED
  BY <1>2 DEF Frame

LEMMA QueueChanged ==
  ASSUME NEW s, Stack(s), 2 \in DOMAIN s, s[2] \in Frame, s[2].k = "dispatch", s[2].queue # <<>>,
         NEW q, QueueFine(q, s[2].type), ToSet(q) \subseteq ToSet(Tail(s[2].queue)),
         NEW r, Stack(r), r # <<>>, r[1].k = "event", r[1].type = s[2].type, Queued(r) \subseteq Queued(s),
         NEW d \in Frame, d.k = "dispatch", d.node = s[2].node, d.type = s[2].type, d.queue = q,
         NEW t, t = <<d>> \o r, NEW C
  PROVE  /\ Stack(t) /\ Queued(t) \subseteq Queued(s)
         /\ Apart(r) => Apart(t)
         /\ Uncounted(s, C) /\ Uncounted(r, C) => Uncounted(t, C)
<1> DEFINE old == s[2]
<1>1. old \in [k : {"dispatch"}, node : Node, type : Type, queue : Seq(QueueEntry)]
  BY FramesAre
<1>4. old.queue \in Seq(QueueEntry) /\ old.queue # <<>>
  BY <1>1
<1>5. Fits(d, r)
  BY DEF Fits
<1>6. /\ Stack(t)
      /\ Queued(t) \subseteq
           Queued(r) \cup {o \in HandleObj : d.k = "dispatch" /\ \E e \in ToSet(d.queue) : o = e.obj}
      /\ Apart(r) /\ (d.k = "event" => \A i \in DOMAIN r : r[i].k = "dispatch" => r[i].type # d.type) => Apart(t)
  BY <1>5, StackPushed
<1>7. /\ \A j \in DOMAIN Tail(old.queue) : j + 1 \in DOMAIN old.queue /\ Tail(old.queue)[j] = old.queue[j + 1]
      /\ \A j \in DOMAIN Tail(old.queue) : j + 1 # 1
  <2>1. \A j \in DOMAIN Tail(old.queue) : j + 1 \in DOMAIN old.queue /\ Tail(old.queue)[j] = old.queue[j + 1]
    BY <1>4, TakenOff
  <2>2. \A j \in DOMAIN Tail(old.queue) : j + 1 # 1
    BY <1>4, SMT
  <2>3. QED
    BY <2>1, <2>2
<1>8. \A e \in ToSet(q) : \E j \in DOMAIN old.queue : j # 1 /\ e = old.queue[j]
  <2>1. \A e \in ToSet(q) : \E j \in DOMAIN Tail(old.queue) : e = Tail(old.queue)[j]
    BY DEF ToSet
  <2>2. QED
    BY <1>7, <2>1
<1>9. {o \in HandleObj : d.k = "dispatch" /\ \E e \in ToSet(d.queue) : o = e.obj} \subseteq Queued(s)
  <2>1. \A e \in ToSet(q) : e \in ToSet(old.queue)
    BY <1>8 DEF ToSet
  <2>2. QED
    BY <2>1 DEF Queued
<1>10. ASSUME Uncounted(s, C), Uncounted(r, C)
       PROVE  Uncounted(t, C)
  <2>1. ASSUME NEW j \in DOMAIN d.queue, d.queue[j].obj.one
        PROVE  Key(d, d.queue[j]) \notin C
    <3>1. d.queue[j] \in ToSet(q)
      BY <2>1 DEF ToSet
    <3>2. PICK k \in DOMAIN old.queue : k # 1 /\ d.queue[j] = old.queue[k]
      BY <1>8, <3>1
    <3>3. Key(old, old.queue[k]) \notin C
      BY <1>10, <2>1, <3>2 DEF Uncounted
    <3>4. QED
      BY <3>2, <3>3 DEF Key
  <2>2. QED
    BY <1>10, <2>1, UncountedPushed DEF Stack
<1>11. QED
  BY <1>6, <1>9, <1>10
(* A part of a queue.                                                       *)
LEMMA QueueParts ==
  ASSUME NEW t, NEW q, QueueFine(q, t), q # <<>>, NEW S
  PROVE  /\ QueueFine(Tail(q), t)
         /\ QueueFine(Only(Tail(q), S), t) /\ ToSet(Only(Tail(q), S)) \subseteq ToSet(Tail(q))
         /\ QueueFine(<<>>, t) /\ ToSet(<<>>) \subseteq ToSet(Tail(q))
<1> DEFINE u == Tail(q)
           v == Only(u, S)
<1>1. q \in Seq(QueueEntry) /\ IsInjective(q) /\ \A e \in ToSet(q) : e.obj.type = t
  BY DEF QueueFine
<1>2. u \in Seq(QueueEntry) /\ \A i \in DOMAIN u : i + 1 \in DOMAIN q /\ u[i] = q[i + 1]
  BY <1>1, TakenOff
<1>3. \A i, j \in DOMAIN u : i + 1 = j + 1 => i = j
  BY <1>2, SMT
<1> HIDE DEF u
<1>4. IsInjective(u)
  BY <1>1, <1>2, <1>3 DEF IsInjective
<1>5. ToSet(u) \subseteq ToSet(q)
  BY <1>2 DEF ToSet
<1>6. v \in Seq(QueueEntry) /\ ToSet(v) = ToSet(u) \cap S /\ IsInjective(v)
  BY <1>2, <1>4, OnlyKeeps
<1>7. ToSet(<<>>) = {} /\ IsInjective(<<>>)
  BY DEF ToSet, IsInjective
<1> HIDE DEF v
<1>8. QueueFine(u, t)
  BY <1>1, <1>2, <1>4, <1>5 DEF QueueFine
<1>9. QueueFine(v, t) /\ ToSet(v) \subseteq ToSet(u)
  BY <1>1, <1>5, <1>6 DEF QueueFine
<1>10. QueueFine(<<>>, t) /\ ToSet(<<>>) \subseteq ToSet(u)
  BY <1>7 DEF QueueFine
<1>11. QED
  BY <1>8, <1>9, <1>10 DEF u, v

LEMMA ReturnKeeps ==
  ASSUME EventsAssumption, EventsInv, Return
  PROVE  EventsInv'
<1> DEFINE d == calls[2]
           ev == calls[3]
           q == d.queue
           C == DOMAIN counts
           r == Tail(Tail(calls))
           stopped == [ev EXCEPT !.path = <<>>]
           ended == <<stopped>> \o Tail(r)
           same == Only(Tail(q), {e \in ToSet(q) : e.elem = Head(q).elem})
           on(queue) == <<[d EXCEPT !.queue = queue]>>
<1>1. /\ Stack(calls) /\ CountsInv(calls) /\ used \in 0 .. MaxCalls
      /\ ~again => Apart(calls) /\ Uncounted(calls, C)
  BY DEF EventsInv, CountsInv
<1>2. calls # <<>> /\ calls[1].k = "handler"
  <2>1. calls # <<>> /\ Head(calls).k = "handler"
    BY DEF Return, In, Idle
  <2>2. Head(calls) = calls[1]
    BY <1>1, <2>1, TakenOff DEF Stack
  <2>3. QED
    BY <2>1, <2>2
<1>3. UNCHANGED <<parent, data, listeners, attaches, meant, counts, again, used>>
  BY DEF Return, ghosts
<1>4. \/ calls' = on(Tail(q)) \o SubSeq(calls, 3, Len(calls))
      \/ calls' = <<[d EXCEPT !.queue = same], stopped>> \o SubSeq(calls, 4, Len(calls))
      \/ calls' = <<[d EXCEPT !.queue = <<>>], stopped>> \o SubSeq(calls, 4, Len(calls))
  BY Zenon DEF Return
<1> SUFFICES /\ Stack(calls') /\ Queued(calls') \subseteq Queued(calls)
             /\ ~again => Apart(calls') /\ Uncounted(calls', C)
  <2>1. used' \in {used, used + 1} /\ used' <= MaxCalls
    BY <1>1, <1>3, SMT
  <2>2. (~again' => ~again) /\ (~again => Apart(calls') /\ Uncounted(calls', DOMAIN counts))
    BY <1>3
  <2>3. QED
    BY <1>3, <2>1, <2>2, CallsStep
<1> HIDE DEF C, r
<1>5. /\ 2 \in DOMAIN calls /\ d \in Frame /\ d.k = "dispatch" /\ q # <<>> /\ QueueFine(q, d.type)
      /\ 3 \in DOMAIN calls /\ ev \in Frame /\ ev.k = "event" /\ ev.type = d.type
      /\ r # <<>> /\ r[1] = ev /\ r = SubSeq(calls, 3, Len(calls)) /\ Tail(r) = SubSeq(calls, 4, Len(calls))
      /\ Stack(r) /\ Queued(r) \subseteq Queued(calls) /\ (Apart(calls) => Apart(r))
      /\ Uncounted(calls, C) => Uncounted(r, C)
  <2>1. r = Tail(Tail(calls))
    BY DEF r
  <2>2. QED
    BY <1>1, <1>2, <2>1, UnderHandler
<1>6. stopped \in Frame /\ stopped.k = "event" /\ stopped.type = ev.type
  <2>1. <<>> \in Seq(Node)
    OBVIOUS
  <2>2. QED
    BY <1>5, <2>1, EventChanged
<1> HIDE DEF stopped
<1>7. /\ Stack(r) /\ r # <<>> /\ r[1].k = "event" /\ stopped \in Frame /\ stopped.k = "event"
       /\ stopped.type = r[1].type /\ ended = <<stopped>> \o Tail(r)
  BY <1>5, <1>6
<1> HIDE DEF ended
<1>8. /\ Stack(ended) /\ Queued(ended) \subseteq Queued(r) /\ ended # <<>> /\ ended[1] = stopped
      /\ Apart(r) => Apart(ended)
      /\ Uncounted(r, C) => Uncounted(ended, C)
  BY <1>7, PathChanged
<1>9. /\ QueueFine(Tail(q), d.type)
      /\ QueueFine(same, d.type) /\ ToSet(same) \subseteq ToSet(Tail(q))
      /\ QueueFine(<<>>, d.type) /\ ToSet(<<>>) \subseteq ToSet(Tail(q))
  BY <1>5, QueueParts
<1> HIDE DEF same
<1>10. ASSUME NEW queue, NEW below, QueueFine(queue, d.type), ToSet(queue) \subseteq ToSet(Tail(q)),
             below \in {r, ended}, calls' = on(queue) \o below
      PROVE  /\ Stack(calls') /\ Queued(calls') \subseteq Queued(calls)
             /\ ~again => Apart(calls') /\ Uncounted(calls', C)
  <2>1. /\ Stack(below) /\ Queued(below) \subseteq Queued(calls) /\ below # <<>>
        /\ below[1].k = "event" /\ below[1].type = d.type
        /\ Apart(calls) => Apart(below)
        /\ Uncounted(calls, C) => Uncounted(below, C)
    BY <1>5, <1>6, <1>8, <1>10
  <2> DEFINE f == [d EXCEPT !.queue = queue]
  <2>2. /\ f \in Frame /\ f.k = "dispatch" /\ f.node = d.node /\ f.type = d.type /\ f.queue = queue
    BY <1>5, <1>10, DispatchChanged DEF QueueFine
  <2>3. calls' = <<f>> \o below
    BY <1>10
  <2> HIDE DEF f
  <2>4. /\ Stack(calls') /\ Queued(calls') \subseteq Queued(calls)
        /\ Apart(below) => Apart(calls')
        /\ Uncounted(calls, C) /\ Uncounted(below, C) => Uncounted(calls', C)
    BY <1>1, <1>5, <1>10, <2>1, <2>2, <2>3, QueueChanged
  <2>5. QED
    BY <1>1, <2>1, <2>4
<1>11. CASE calls' = on(Tail(q)) \o SubSeq(calls, 3, Len(calls))
  <2>1. calls' = on(Tail(q)) \o r
    BY <1>5, <1>11
  <2>2. QED
    BY <1>9, <1>10, <2>1
<1>12. ASSUME NEW queue, calls' = <<[d EXCEPT !.queue = queue], stopped>> \o SubSeq(calls, 4, Len(calls))
       PROVE  calls' = on(queue) \o ended
  <2> DEFINE f == [d EXCEPT !.queue = queue]
  <2>1. calls' = <<f, stopped>> \o Tail(r)
    BY <1>5, <1>12
  <2>2. Tail(r) \in Seq(Frame)
    BY <1>5, TakenOff DEF Stack
  <2> HIDE DEF f
  <2>3. <<f, stopped>> \o Tail(r) = <<f>> \o (<<stopped>> \o Tail(r))
    BY <2>2, SMT
  <2>4. QED
    BY <2>1, <2>3 DEF f, ended
<1>13. CASE calls' = <<[d EXCEPT !.queue = same], stopped>> \o SubSeq(calls, 4, Len(calls))
  <2>1. calls' = on(same) \o ended
    BY <1>12, <1>13, Zenon
  <2>2. QED
    BY <1>9, <1>10, <2>1
<1>14. CASE calls' = <<[d EXCEPT !.queue = <<>>], stopped>> \o SubSeq(calls, 4, Len(calls))
  <2>1. calls' = on(<<>>) \o ended
    BY <1>12, <1>14, Zenon
  <2>2. QED
    BY <1>9, <1>10, <2>1
<1>15. QED
  BY <1>4, <1>11, <1>13, <1>14, Zenon
-----------------------------------------------------------------------------
(* An event begins.                                                         *)

LEMMA BeginsKeeps ==
  ASSUME EventsAssumption, EventsInv, NEW t \in Type, NEW n \in Node, NEW native \in BOOLEAN, NEW path \in Seq(Node),
         Called, Begins(t, n, native, path)
  PROVE  EventsInv'
<1> DEFINE f == Event(t, n, native, path)
           C == DOMAIN counts
<1>1. /\ Stack(calls) /\ CountsInv(calls) /\ used \in 0 .. MaxCalls
      /\ ~again => Apart(calls) /\ Uncounted(calls, C)
  BY DEF EventsInv, CountsInv
<1>2. /\ calls' = <<f>> \o calls
      /\ again' = (again \/ \E i \in DOMAIN calls : calls[i].k = "dispatch" /\ calls[i].type = t)
      /\ UNCHANGED <<parent, data, listeners, attaches, meant, counts>>
  BY DEF Begins
<1>3. f \in Frame /\ f.k = "event" /\ f.type = t
  BY DEF Event, Frame
<1>4. calls # <<>> => calls[1].k = "handler"
  <2>1. calls # <<>> => Head(calls).k = "handler"
    BY DEF Called, PageCode, Idle, In
  <2>2. calls # <<>> => Head(calls) = calls[1]
    BY <1>1, TakenOff DEF Stack
  <2>3. QED
    BY <2>1, <2>2
<1> HIDE DEF f, C
<1>5. Fits(f, calls)
  BY <1>3, <1>4 DEF Fits
<1>6. /\ Stack(calls')
      /\ Queued(calls') \subseteq
           Queued(calls) \cup {o \in HandleObj : f.k = "dispatch" /\ \E e \in ToSet(f.queue) : o = e.obj}
      /\ Apart(calls) /\ (f.k = "event" => \A i \in DOMAIN calls : calls[i].k = "dispatch" => calls[i].type # f.type)
           => Apart(calls')
  BY <1>1, <1>2, <1>3, <1>5, StackPushed
<1>7. ~again' => ~again /\ \A i \in DOMAIN calls : calls[i].k = "dispatch" => calls[i].type # f.type
  BY <1>2, <1>3
<1>8. Queued(calls') \subseteq Queued(calls)
  BY <1>3, <1>6
<1>9. Uncounted(calls, C) => Uncounted(calls', C)
  BY <1>1, <1>2, <1>3, UncountedPushed DEF Stack
<1>10. used' \in {used, used + 1} /\ used' <= MaxCalls
  <2>1. used < MaxCalls /\ used' = used + 1 /\ MaxCalls \in Nat
    BY DEF Called, EventsAssumption
  <2>2. QED
    BY <1>1, <2>1, SMT
<1>11. ~again' => ~again /\ Apart(calls') /\ Uncounted(calls', C)
  BY <1>1, <1>6, <1>7, <1>9
<1>12. QED
  BY <1>2, <1>6, <1>8, <1>10, <1>11, CallsStep DEF C

LEMMA FiringKeeps ==
  ASSUME EventsAssumption, EventsInv, NEW n \in Node, UserEvent(n) \/ Trigger(n)
  PROVE  EventsInv'
<1>1. Ancestors(n) \in Seq(Node) /\ <<n>> \in Seq(Node)
  BY AncestorsAre DEF EventsInv, EventsAssumption
<1>2. "click" \in Type /\ "focusin" \in Type
  BY DEF Type
<1>3. CASE UserEvent(n)
  <2>1. Called /\ (Begins("click", n, TRUE, Ancestors(n)) \/ Begins("focusin", n, FALSE, Ancestors(n)))
    BY <1>3 DEF UserEvent
  <2>2. QED
    BY <1>1, <1>2, <2>1, BeginsKeeps
<1>4. CASE Trigger(n)
  <2>1. PICK t \in Type : Begins(t, n, FALSE, Ancestors(n)) \/ Begins(t, n, FALSE, <<n>>)
    BY <1>4 DEF Trigger
  <2>2. Called
    BY <1>4 DEF Trigger
  <2>3. QED
    BY <1>1, <2>1, <2>2, BeginsKeeps
<1>5. QED
  BY <1>3, <1>4

-----------------------------------------------------------------------------
(* The next handler is called.                                              *)

(* Of a binding made with one() no other call is pending, as long as no     *)
(* event is fired within one of its type.                                   *)
LEMMA NoneElsePending ==
  ASSUME NEW s, Stack(s), s # <<>>, s[1].k = "dispatch", s[1].queue # <<>>, Apart(s),
         \A o, p \in Queued(s) : o.serial = p.serial => o = p
  PROVE  /\ 1 \in DOMAIN s /\ 1 \in DOMAIN s[1].queue
         /\ \A i \in DOMAIN s : s[i].k = "dispatch" =>
              \A j \in DOMAIN s[i].queue : j # 1 => Key(s[i], s[i].queue[j]) # Key(s[1], s[1].queue[1])
<1> DEFINE q(i) == s[i].queue
           k == Key(s[1], s[1].queue[1])
<1>1. s \in Seq(Frame) /\ 1 \in DOMAIN s /\ s[1] \in Frame /\ \A i \in DOMAIN s : s[i] \in Frame
  BY TakenOff DEF Stack
<1>2. \A i \in DOMAIN s : s[i].k = "dispatch" => QueueFine(q(i), s[i].type)
  BY DEF Stack, Sits
<1>3. s[1].queue \in Seq(QueueEntry) /\ IsInjective(s[1].queue)
  BY <1>1, <1>2 DEF QueueFine
<1>4. 1 \in DOMAIN s[1].queue
  BY <1>3, TakenOff
<1>7. ASSUME NEW i \in DOMAIN s, s[i].k = "dispatch", NEW j \in DOMAIN s[i].queue, j # 1,
             Key(s[i], s[i].queue[j]) = k
      PROVE  FALSE
  <2> DEFINE x == s[i].queue[j]
             y == s[1].queue[1]
  <2>1. x \in QueueEntry /\ y \in QueueEntry /\ x \in ToSet(s[i].queue) /\ y \in ToSet(s[1].queue)
    BY <1>2, <1>3, <1>4, <1>7 DEF QueueFine, ToSet
  <2>2. x.obj.type = s[i].type /\ y.obj.type = s[1].type
    BY <1>1, <1>2, <1>7, <2>1 DEF QueueFine
  <2>3. x.obj \in HandleObj /\ y.obj \in HandleObj
    BY <2>1 DEF QueueEntry
  <2>4. x.obj \in Queued(s) /\ y.obj \in Queued(s)
    BY <1>1, <1>7, <2>1, <2>3 DEF Queued
  <2>5. x.obj.serial = y.obj.serial /\ x.elem = y.elem
    BY <1>7 DEF Key
  <2>6. x.obj = y.obj
    BY <2>4, <2>5
  <2>7. CASE i = 1
    <3>1. x = y
      <4> HIDE DEF x, y
      <4>1. QED
        BY <2>1, <2>5, <2>6 DEF QueueEntry
    <3>2. j = 1
      BY <1>3, <1>4, <1>7, <2>7, <3>1 DEF IsInjective
    <3>3. QED
      BY <1>7, <3>2
  <2>8. CASE i # 1
    <3>1. Sits(s, 1)
      BY <1>1 DEF Stack
    <3>2. 1 # Len(s) /\ s[2].k = "event" /\ s[2].type = s[1].type
      <4>1. 1 # Len(s) /\ s[1 + 1].k = "event" /\ s[1 + 1].type = s[1].type
        BY <3>1 DEF Sits
      <4>2. QED
        BY <4>1
    <3>3. i # 2
      BY <1>7, <3>2
    <3>4. 2 \in DOMAIN s /\ 2 < i
      <4>1. i \in Nat /\ i # 0 /\ DOMAIN s = 1 .. Len(s) /\ Len(s) \in Nat /\ i <= Len(s)
        BY <1>1
      <4>2. 2 < i
        BY <2>8, <3>3, <4>1, SMT
      <4>3. QED
        BY <4>1, <4>2, SMT
    <3>5. s[2].type # s[i].type
      BY <1>7, <3>2, <3>4 DEF Apart
    <3>6. QED
      BY <2>2, <2>6, <3>2, <3>5
  <2>9. QED
    BY <2>7, <2>8
<1>8. QED
  BY <1>1, <1>4, <1>7

LEMMA CallHandlerKeeps ==
  ASSUME EventsAssumption, EventsInv, CallHandler
  PROVE  EventsInv'
<1> DEFINE d == Head(calls)
           q == d.queue
           obj == Head(q).obj
           elem == Head(q).elem
           key == <<d.node, obj.serial, elem>>
           hit == {o \in HandlersOf(d.node) : o.type = obj.type /\ o.fn = obj.fn /\ obj.sel \in {None, o.sel}}
           f == Running(d.node, obj)
           C == DOMAIN counts
<1>1. /\ Forest /\ parent[Root] = None
      /\ BrowserInv /\ used \in 0 .. MaxCalls /\ guid <= used + 1 /\ MaxCalls \in Nat
      /\ Stack(calls) /\ Serials(calls) /\ BoundAsMeant /\ CountsInv(calls)
  BY DEF EventsInv, EventsAssumption
<1>2. calls # <<>> /\ d.k = "dispatch"
  BY DEF CallHandler, In, Idle
<1>3. d = calls[1] /\ d \in Frame /\ 1 \in DOMAIN calls /\ calls \in Seq(Frame)
  BY <1>1, <1>2, TakenOff DEF Stack
<1>4. d \in [k : {"dispatch"}, node : Node, type : Type, queue : Seq(QueueEntry)]
  BY <1>2, <1>3, FramesAre
<1>5. UNCHANGED <<parent, used>>
  BY DEF CallHandler
<1>6. IF q = <<>>
      THEN calls' = Tail(calls) /\ UNCHANGED <<data, listeners, attaches, meant, counts, again>>
      ELSE /\ calls' = <<f, d>> \o Tail(calls)
           /\ IF obj.one
              THEN /\ RemoveHandlers(d.node, hit)
                   /\ meant' = meant \ {<<d.node, obj.serial>>}
                   /\ counts' = Put(counts, key, Count(key) + 1)
                   /\ again' = again
              ELSE UNCHANGED <<data, listeners, attaches, meant, counts, again>>
  BY Zenon DEF CallHandler, ghosts
<1>7. ~again => Apart(calls) /\ Uncounted(calls, C) /\ \A x \in C : counts[x] = 1
  BY <1>1 DEF CountsInv
<1>8. QueueFine(q, d.type)
  <2>1. Sits(calls, 1)
    BY <1>1, <1>3 DEF Stack
  <2>2. QED
    BY <1>2, <1>3, <2>1 DEF Sits
<1>9. used' \in {used, used + 1} /\ used' <= MaxCalls
  BY <1>1, <1>5, SMT
<1> HIDE DEF d
<1>10. CASE q = <<>>
  <2>1. calls' = Tail(calls) /\ UNCHANGED <<parent, data, listeners, attaches, meant, counts, again>>
    BY <1>5, <1>6, <1>10
  <2>2. Stack(Tail(calls)) /\ Queued(Tail(calls)) \subseteq Queued(calls) /\ (Apart(calls) => Apart(Tail(calls)))
    BY <1>1, <1>2, StackPopped
  <2>3. Uncounted(calls, C) => Uncounted(Tail(calls), C)
    BY <1>1, <1>2, <1>3, UncountedPopped
  <2>4. Queued(calls') \subseteq Queued(calls) \cup Everywhere
    BY <2>1, <2>2
  <2>5. ~again' => ~again /\ Apart(calls') /\ Uncounted(calls', DOMAIN counts)
    BY <1>7, <2>1, <2>2, <2>3
  <2>6. Stack(calls')
    BY <2>1, <2>2
  <2>7. UNCHANGED <<parent, data, listeners, attaches, meant, counts>>
    BY <2>1
  <2>8. QED
    BY <1>9, <2>4, <2>5, <2>6, <2>7, CallsStep
<1>11. ASSUME q # <<>>
       PROVE  /\ 1 \in DOMAIN q /\ Head(q) = q[1] /\ Head(q) \in QueueEntry /\ Head(q) \in ToSet(q)
              /\ obj \in HandleObj /\ elem \in Node /\ obj.type = d.type /\ obj \in Queued(calls)
              /\ calls' = <<f>> \o calls /\ f \in Frame /\ f.k = "handler" /\ Fits(f, calls)
              /\ Stack(calls') /\ Queued(calls') \subseteq Queued(calls)
              /\ Apart(calls) => Apart(calls')
  <2>1. q \in Seq(QueueEntry)
    BY <1>8 DEF QueueFine
  <2>2. 1 \in DOMAIN q /\ Head(q) = q[1] /\ Head(q) \in QueueEntry
    BY <1>11, <2>1, TakenOff
  <2>3. Head(q) \in ToSet(q)
    BY <2>2 DEF ToSet
  <2>4. obj \in HandleObj /\ elem \in Node
    BY <2>2 DEF QueueEntry
  <2>5. obj.type = d.type
    BY <1>8, <2>3 DEF QueueFine
  <2>6. obj \in Queued(calls)
    BY <1>2, <1>3, <2>3, <2>4 DEF Queued
  <2>7. calls' = <<f>> \o calls
    <3>1. calls' = <<f, d>> \o Tail(calls)
      BY <1>6, <1>11
    <3>2. calls = <<d>> \o Tail(calls)
      BY <1>2, <1>3, SMT
    <3> HIDE DEF f
    <3>3. Tail(calls) \in Seq(Frame)
      BY <1>2, <1>3, TakenOff
    <3>4. <<f, d>> \o Tail(calls) = <<f>> \o (<<d>> \o Tail(calls))
      BY <3>3, SMT
    <3>5. QED
      BY <3>1, <3>2, <3>4, Zenon
  <2>8. f \in Frame /\ f.k = "handler"
    BY <1>4, <2>4 DEF Running, Frame
  <2> HIDE DEF f
  <2>9. Fits(f, calls)
    BY <1>2, <1>3, <1>11, <2>8 DEF Fits
  <2>10. /\ Stack(calls')
         /\ Queued(calls') \subseteq
              Queued(calls) \cup {o \in HandleObj : f.k = "dispatch" /\ \E e \in ToSet(f.queue) : o = e.obj}
         /\ Apart(calls) /\ (f.k = "event" => \A i \in DOMAIN calls : calls[i].k = "dispatch" => calls[i].type # f.type)
              => Apart(calls')
    BY <1>1, <2>7, <2>8, <2>9, StackPushed
  <2>11. QED
    BY <2>2, <2>3, <2>4, <2>5, <2>6, <2>7, <2>8, <2>9, <2>10
<1>12. CASE q # <<>> /\ ~obj.one
  <2>1. UNCHANGED <<parent, data, listeners, attaches, meant, counts, again>>
    BY <1>5, <1>6, <1>12
  <2>2. Uncounted(calls, C) => Uncounted(calls', C)
    BY <1>3, <1>11, <1>12, UncountedPushed
  <2>3. Queued(calls') \subseteq Queued(calls) \cup Everywhere /\ Stack(calls')
    BY <1>11, <1>12
  <2>4. ~again' => ~again /\ Apart(calls') /\ Uncounted(calls', DOMAIN counts)
    BY <1>7, <1>11, <1>12, <2>1, <2>2
  <2>5. UNCHANGED <<parent, data, listeners, attaches, meant, counts>>
    BY <2>1
  <2>6. QED
    BY <1>9, <2>3, <2>4, <2>5, CallsStep
<1>13. CASE q # <<>> /\ obj.one
  <2>1. PICK n \in Node : n = d.node
    BY <1>4
  <2>2. PICK o1 \in HandleObj : o1 = obj
    BY <1>11, <1>13
  <2>3. PICK e1 \in Node : e1 = elem
    BY <1>11, <1>13
  <2>4. PICK gone : gone = hit
    OBVIOUS
  <2>5. PICK k : k = <<n, o1.serial, e1>>
    OBVIOUS
  <2>6. /\ RemoveHandlers(n, gone) /\ meant' = meant \ {<<n, o1.serial>>}
        /\ counts' = Put(counts, k, Count(k) + 1) /\ again' = again
    BY <1>6, <1>13, <2>1, <2>2, <2>3, <2>4, <2>5
  <2>7. o1 \in HandlersOf(n) => o1 \in gone
    BY <2>1, <2>2, <2>4
  <2>8. o1.serial \in Nat /\ o1.serial < used /\ k \in Node \X Nat \X Node /\ k[1] = n /\ k[2] = o1.serial
    <3>1. o1.serial \in Nat
      BY SerialTyped
    <3>2. o1.serial < used
      BY <1>1, <1>11, <1>13, <2>2 DEF Serials
    <3>3. QED
      BY <2>5, <3>1, <3>2
  <2>9. \A m \in Node : \A o \in HandlersOf(m) : o.serial < used /\ (o.serial = o1.serial => o = o1)
    <3>1. o1 \in Queued(calls)
      BY <1>11, <1>13, <2>2
    <3>2. QED
      BY <1>1, <3>1, OneOfSerial
  <2>10. /\ Stack(calls') /\ Queued(calls') \subseteq Queued(calls)
         /\ Apart(calls) => Apart(calls')
    BY <1>11, <1>13
  <2>11. ~again => Uncounted(calls', C \cup {k}) /\ Count(k) = 0
    <3> SUFFICES ASSUME ~again
                 PROVE  Uncounted(calls', C \cup {k}) /\ Count(k) = 0
      OBVIOUS
    <3>1. calls[1].k = "dispatch" /\ calls[1].queue # <<>> /\ calls[1].queue[1].obj.one
      BY <1>2, <1>3, <1>11, <1>13
    <3>2. k = Key(calls[1], calls[1].queue[1])
      BY <1>3, <1>11, <1>13, <2>1, <2>2, <2>3, <2>5 DEF Key
    <3>3. \A o, p \in Queued(calls) : o.serial = p.serial => o = p
      BY <1>1 DEF Serials
    <3>4. f \in Frame /\ f.k = "handler" /\ calls' = <<f>> \o calls
      BY <1>11, <1>13
    <3>5. Apart(calls) /\ Uncounted(calls, C) /\ Stack(calls) /\ calls # <<>>
      BY <1>1, <1>2, <1>7
    <3> HIDE DEF f, C, q, obj, elem
    <3>6. /\ 1 \in DOMAIN calls /\ 1 \in DOMAIN calls[1].queue
          /\ \A i \in DOMAIN calls : calls[i].k = "dispatch" =>
               \A j \in DOMAIN calls[i].queue : j # 1 =>
                 Key(calls[i], calls[i].queue[j]) # Key(calls[1], calls[1].queue[1])
      BY <3>1, <3>3, <3>5, NoneElsePending
    <3>7. k \notin C
      BY <3>1, <3>2, <3>5, <3>6 DEF Uncounted
    <3>8. PICK t : t = calls'
      OBVIOUS
    <3>9. t[1] = f /\ \A i \in DOMAIN t : i # 1 => i - 1 \in DOMAIN calls /\ t[i] = calls[i - 1]
      <4>1. calls \in Seq(Frame) /\ t = <<f>> \o calls
        BY <3>4, <3>5, <3>8 DEF Stack
      <4>2. QED
        BY <3>4, <4>1, OnTop
    <3>10. ASSUME NEW i \in DOMAIN t, t[i].k = "dispatch", NEW j \in DOMAIN t[i].queue,
                  i = 1 \/ j # 1, t[i].queue[j].obj.one
           PROVE  Key(t[i], t[i].queue[j]) \notin C \cup {k}
      <4>1. i # 1 /\ j # 1
        BY <3>4, <3>9, <3>10
      <4>2. i - 1 \in DOMAIN calls /\ t[i] = calls[i - 1]
        BY <3>9, <4>1
      <4>3. Key(t[i], t[i].queue[j]) \notin C
        BY <3>5, <3>10, <4>1, <4>2 DEF Uncounted
      <4>4. Key(t[i], t[i].queue[j]) # k
        BY <3>2, <3>6, <3>10, <4>1, <4>2
      <4>5. QED
        BY <4>3, <4>4
    <3>11. Uncounted(t, C \cup {k})
      BY <3>10 DEF Uncounted
    <3>12. QED
      BY <3>7, <3>8, <3>11 DEF Count, C
  <2> HIDE DEF q, obj, elem, hit, key, f
  <2>12. /\ BrowserInv' /\ guid' = guid
         /\ HandlersOf(n)' = HandlersOf(n) \ gone
         /\ \A m \in Node \ {n} : Data(m)' = Data(m)
    BY <1>1, <2>6, RemoveElementHandlers
  <2>13. \A m \in Node \ {n} : HandlersOf(m)' = HandlersOf(m)
    BY <2>12, SameHandlers
  <2>14. \A m \in Node : HandlersOf(m)' \subseteq HandlersOf(m)
    BY <2>12, <2>13
  <2>15. o1 \notin HandlersOf(n)'
    BY <2>7, <2>12
  <2>16. used \in Nat /\ guid \in Nat /\ used' = used
    BY <1>1, <1>5 DEF BrowserInv, KeysInv
  <2>17. Forest' /\ parent'[Root] = None
    BY <1>1, <1>5, SameDocument
  <2>18. Serials(calls)'
    <3>1. \A m \in Node : HandlersOf(m)' \subseteq Everywhere
      BY <2>14 DEF Everywhere
    <3>2. Queued(calls') \subseteq Queued(calls) \cup Everywhere
      BY <2>10
    <3>3. QED
      BY <1>1, <1>9, <2>16, <3>1, <3>2, SerialsKept
  <2>19. /\ DOMAIN counts' = C \cup {k} /\ counts'[k] = Count(k) + 1
         /\ \A x \in C \ {k} : counts'[x] = counts[x]
    BY <2>6 DEF Put
  <2>20. \A m \in Node : \A o \in HandlersOf(m)' : <<m, o.serial>> # <<n, o1.serial>>
    <3>1. ASSUME NEW o \in HandlersOf(n)'
          PROVE  o.serial # o1.serial
      <4>1. o \in HandlersOf(n) /\ o # o1
        BY <2>14, <2>15
      <4>2. QED
        BY <2>9, <4>1
    <3>2. QED
      BY <3>1
  <2>21. BoundAsMeant'
    <3>1. \A b : b \in AllBound' <=> \E m \in Node : \E o \in HandlersOf(m)' : b = <<m, o.serial>>
      BY DEF AllBound
    <3>2. \A b : b \in AllBound <=> \E m \in Node : \E o \in HandlersOf(m) : b = <<m, o.serial>>
      BY DEF AllBound
    <3>3. <<n, o1.serial>> \notin AllBound'
      BY <2>20, <3>1
    <3>4. AllBound' \subseteq meant'
      <4>1. AllBound' \subseteq AllBound
        BY <2>14, <3>1, <3>2
      <4>2. AllBound \subseteq meant
        BY <1>1 DEF BoundAsMeant
      <4>3. QED
        BY <2>6, <3>3, <4>1, <4>2
    <3>5. ASSUME NEW b \in meant' \ AllBound'
          PROVE  \E x \in DOMAIN counts' : x[1] = b[1] /\ x[2] # b[2]
      <4>1. b \in meant /\ b # <<n, o1.serial>>
        BY <2>6
      <4>2. CASE b \notin AllBound
        <5>1. PICK x \in DOMAIN counts : x[1] = b[1] /\ x[2] # b[2]
          BY <1>1, <4>1, <4>2 DEF BoundAsMeant
        <5>2. QED
          BY <2>19, <5>1
      <4>3. CASE b \in AllBound
        <5>1. PICK m \in Node : \E o \in HandlersOf(m) : b = <<m, o.serial>>
          BY <3>2, <4>3
        <5>2. PICK o \in HandlersOf(m) : b = <<m, o.serial>>
          BY <5>1
        <5>3. m = n
          BY <2>13, <3>1, <3>5, <5>2
        <5>4. o.serial # o1.serial
          BY <4>1, <5>2, <5>3
        <5>5. b[1] = m /\ b[2] = o.serial
          BY <5>2
        <5>6. k \in DOMAIN counts' /\ k[1] = b[1] /\ k[2] # b[2]
          BY <2>8, <2>19, <5>3, <5>4, <5>5
        <5>7. QED
          BY <5>6
      <4>4. QED
        BY <4>2, <4>3
    <3>6. QED
      BY <3>4, <3>5 DEF BoundAsMeant
  <2>22. CountsInv(calls)'
    <3>1. \A x \in DOMAIN counts' : x \in Node \X Nat \X Node /\ x[2] < used'
      BY <1>1, <2>8, <2>16, <2>19 DEF CountsInv
    <3>2. ASSUME NEW m \in Node, NEW o \in HandlersOf(m)', o.one, NEW e \in Node
          PROVE  <<m, o.serial, e>> \notin DOMAIN counts'
      <4>1. o \in HandlersOf(m)
        BY <2>14, <3>2
      <4>2. <<m, o.serial, e>> \notin C
        BY <1>1, <3>2, <4>1 DEF CountsInv
      <4>3. <<m, o.serial, e>> # k
        BY <2>5, <2>20, <3>2
      <4>4. QED
        BY <2>19, <4>2, <4>3
    <3>3. ASSUME ~again'
          PROVE  /\ Apart(calls') /\ Uncounted(calls', DOMAIN counts')
                 /\ \A x \in DOMAIN counts' : counts'[x] = 1
      <4>1. ~again
        BY <2>6, <3>3
      <4>2. counts'[k] = 1
        BY <2>11, <2>19, <4>1
      <4>3. \A x \in DOMAIN counts' : counts'[x] = 1
        BY <1>7, <2>19, <4>1, <4>2
      <4>4. QED
        BY <1>7, <2>10, <2>11, <2>19, <4>1, <4>3
    <3>4. QED
      BY <3>1, <3>2, <3>3 DEF CountsInv
  <2>23. used' \in 0 .. MaxCalls /\ guid' <= used' + 1
    BY <1>1, <2>12, <2>16
  <2>24. QED
    BY <2>10, <2>12, <2>17, <2>18, <2>21, <2>22, <2>23 DEF EventsInv
<1>14. QED
  BY <1>10, <1>12, <1>13
-----------------------------------------------------------------------------
(* The page.                                                                *)

LEMMA PageFacts ==
  ASSUME EventsAssumption, EventsInv, Called
  PROVE  /\ None \notin Node /\ Root \in Node /\ IsFiniteSet(Node) /\ Forest /\ parent[Root] = None
         /\ BrowserInv /\ used \in Nat /\ guid \in Nat /\ used < MaxCalls /\ used' = used + 1 /\ guid <= used + 1
         /\ Stack(calls) /\ Serials(calls) /\ BoundAsMeant /\ CountsInv(calls)
         /\ MaxCalls \in Nat
BY DEF EventsInv, EventsAssumption, Called, BrowserInv, KeysInv

(* data() and removeData() change no handlers.                              *)
LEMMA DataKeeps ==
  ASSUME EventsAssumption, EventsInv, NEW n \in Node, SetData(n) \/ RemoveData(n)
  PROVE  EventsInv'
<1>1. Called /\ UNCHANGED <<parent, calls, meant, counts, again>>
  BY DEF SetData, RemoveData, ghosts
<1>2. /\ Forest /\ parent[Root] = None /\ BrowserInv /\ BoundAsMeant /\ used < MaxCalls /\ used' = used + 1
      /\ guid \in Nat
  BY <1>1, PageFacts
<1>3. /\ BrowserInv' /\ guid' \in {guid, guid + 1}
      /\ \A m \in Node : HandlersOf(m)' = HandlersOf(m)
  <2>1. CASE SetData(n)
    <3>1. Write(n, [Data(n) EXCEPT !.data = TRUE]) /\ UNCHANGED <<listeners, attaches>>
      BY <2>1 DEF SetData
    <3>2. QED
      BY <1>2, <3>1, WriteData
  <2>2. CASE RemoveData(n) /\ EventsOf(n) # <<>>
    <3>1. Write(n, [Data(n) EXCEPT !.data = FALSE]) /\ UNCHANGED <<listeners, attaches>>
      BY <2>2 DEF RemoveData
    <3>2. QED
      BY <1>2, <2>2, <3>1, WriteData
  <2>3. CASE RemoveData(n) /\ EventsOf(n) = <<>>
    <3>1. PICK order : order = <<n>>
      OBVIOUS
    <3>2. CleanData(order)
      BY <2>3, <3>1 DEF RemoveData
    <3>3. order \in Seq(Node) /\ IsInjective(order) /\ ToSet(order) = {n}
      BY <3>1, JustOne
    <3>4. /\ BrowserInv' /\ guid' = guid
          /\ \A m \in Node : HandlersOf(m)' = IF m \in ToSet(order) THEN {} ELSE HandlersOf(m)
      BY <1>2, <3>2, <3>3, CleanHandlers
    <3>5. HandlersOf(n) = {}
      <4>1. Data(n) \in Entries
        BY <1>2, DataTyped DEF BrowserInv
      <4>2. DOMAIN Data(n).events = {}
        BY <2>3, <4>1, EventsAre DEF EventsOf
      <4>3. QED
        BY <4>1, <4>2, HandlersAre DEF Handles
    <3>6. QED
      BY <3>3, <3>4, <3>5
  <2>4. QED
    BY <2>1, <2>2, <2>3
<1>4. BoundAsMeant'
  BY <1>1, <1>2, <1>3, SameBound
<1>5. Forest' /\ parent'[Root] = None
  BY <1>1, <1>2, SameDocument
<1>6. \A m \in Node : HandlersOf(m)' \subseteq HandlersOf(m)
  BY <1>3
<1>7. QED
  BY <1>1, <1>2, <1>3, <1>4, <1>5, <1>6, PageStep

(* detach() and append() change the document only.                          *)
LEMMA MovesKeep ==
  ASSUME EventsAssumption, EventsInv, NEW n \in Node, Detach(n) \/ \E p \in Node : AppendTo(n, p)
  PROVE  EventsInv'
<1>1. /\ Called /\ UNCHANGED <<data, listeners, attaches, calls, meant, counts, again>>
      /\ n # Root
  BY DEF Detach, AppendTo, ghosts
<1>2. /\ Forest /\ parent[Root] = None /\ BrowserInv /\ BoundAsMeant /\ used < MaxCalls /\ used' = used + 1
      /\ guid \in Nat /\ None \notin Node /\ Root \in Node
  BY <1>1, PageFacts
<1>3. /\ BrowserInv' /\ guid' = guid
      /\ \A m \in Node : HandlersOf(m)' = HandlersOf(m)
  BY <1>1, <1>2, NothingWritten
<1>4. Forest' /\ parent'[Root] = None
  <2>1. parent \in [Node -> Node \cup {None}]
    BY <1>2 DEF Forest
  <2>2. CASE Detach(n)
    <3>1. parent' = [parent EXCEPT ![n] = None]
      BY <2>2 DEF Detach
    <3>2. QED
      BY <1>1, <1>2, <2>1, <3>1, CutForest
  <2>3. ASSUME NEW p \in Node, AppendTo(n, p)
        PROVE  Forest' /\ parent'[Root] = None
    <3>1. parent[n] = None /\ p \notin Inside(n) /\ parent' = [parent EXCEPT ![n] = p]
      BY <2>3 DEF AppendTo
    <3>2. QED
      BY <1>1, <1>2, <2>1, <3>1, AppendForest
  <2>4. QED
    BY <2>2, <2>3
<1>5. BoundAsMeant'
  BY <1>1, <1>2, <1>3, SameBound
<1>6. \A m \in Node : HandlersOf(m)' \subseteq HandlersOf(m)
  BY <1>3
<1>7. guid' \in {guid, guid + 1}
  BY <1>3
<1>8. QED
  BY <1>1, <1>2, <1>3, <1>4, <1>5, <1>6, <1>7, PageStep

(* What is bound to the elements that are left is still meant.              *)
LEMMA LessBound ==
  ASSUME BoundAsMeant, counts' = counts, \A n \in Node : HandlersOf(n)' \subseteq HandlersOf(n),
         meant' \subseteq meant,
         \A n \in Node : \A o \in HandlersOf(n)' : <<n, o.serial>> \in meant',
         \A n \in Node : \A o \in HandlersOf(n) : <<n, o.serial>> \in meant' =>
           \E p \in HandlersOf(n)' : p.serial = o.serial
  PROVE  BoundAsMeant'
<1>1. \A b : b \in AllBound' <=> \E m \in Node : \E o \in HandlersOf(m)' : b = <<m, o.serial>>
  BY DEF AllBound
<1>2. \A b : b \in AllBound <=> \E m \in Node : \E o \in HandlersOf(m) : b = <<m, o.serial>>
  BY DEF AllBound
<1>3. AllBound' \subseteq meant'
  BY <1>1
<1>4. ASSUME NEW b \in meant' \ AllBound'
      PROVE  \E key \in DOMAIN counts' : key[1] = b[1] /\ key[2] # b[2]
  <2>1. b \notin AllBound
    <3> SUFFICES ASSUME b \in AllBound
                 PROVE  FALSE
      OBVIOUS
    <3>1. PICK m \in Node : \E o \in HandlersOf(m) : b = <<m, o.serial>>
      BY <1>2
    <3>2. PICK o \in HandlersOf(m) : b = <<m, o.serial>>
      BY <3>1
    <3>3. PICK p \in HandlersOf(m)' : p.serial = o.serial
      BY <1>4, <3>2
    <3>4. b = <<m, p.serial>>
      BY <3>2, <3>3
    <3>5. QED
      BY <1>1, <1>4, <3>4
  <2>2. \E key \in DOMAIN counts : key[1] = b[1] /\ key[2] # b[2]
    BY <1>4, <2>1 DEF BoundAsMeant
  <2>3. QED
    BY <2>2
<1>5. QED
  BY <1>3, <1>4 DEF BoundAsMeant
(* remove() takes the handlers of the element and of all inside it away.    *)
LEMMA RemoveElementKeeps ==
  ASSUME EventsAssumption, EventsInv, NEW n \in Node, RemoveElement(n)
  PROVE  EventsInv'
<1>1. PICK gone : gone = Inside(n)
  OBVIOUS
<1>2. /\ Called /\ n # Root /\ parent' = [parent EXCEPT ![n] = None] /\ UNCHANGED <<calls, counts, again>>
      /\ \E order \in Orders(gone) : CleanData(order)
      /\ meant' = {b \in meant : b[1] \notin gone}
  BY <1>1 DEF RemoveElement
<1>3. PICK order \in Orders(gone) : CleanData(order)
  BY <1>2
<1>4. /\ Forest /\ parent[Root] = None /\ BrowserInv /\ BoundAsMeant /\ used < MaxCalls /\ used' = used + 1
      /\ guid \in Nat /\ None \notin Node /\ Root \in Node /\ IsFiniteSet(Node)
  BY <1>2, PageFacts
<1>5. gone \in SUBSET Node /\ IsFiniteSet(gone)
  BY <1>1, <1>4, FS_Subset DEF Inside
<1>6. order \in Seq(Node) /\ IsInjective(order) /\ ToSet(order) = gone
  BY <1>5, OrderIs
<1>7. /\ BrowserInv' /\ guid' = guid
      /\ \A m \in Node : HandlersOf(m)' = IF m \in gone THEN {} ELSE HandlersOf(m)
  <2>1. /\ BrowserInv' /\ guid' = guid
        /\ \A m \in Node : HandlersOf(m)' = IF m \in ToSet(order) THEN {} ELSE HandlersOf(m)
    BY <1>3, <1>4, <1>6, CleanHandlers
  <2>2. QED
    BY <1>6, <2>1
<1>8. Forest' /\ parent'[Root] = None
  <2>1. parent \in [Node -> Node \cup {None}]
    BY <1>4 DEF Forest
  <2>2. QED
    BY <1>2, <1>4, <2>1, CutForest
<1>9. BoundAsMeant'
  <2>1. \A m \in Node : HandlersOf(m)' \subseteq HandlersOf(m)
    BY <1>7
  <2>2. \A m \in Node : \A o \in HandlersOf(m)' : <<m, o.serial>> \in meant'
    <3>1. ASSUME NEW m \in Node, NEW o \in HandlersOf(m)'
          PROVE  <<m, o.serial>> \in meant'
      <4>1. m \notin gone /\ o \in HandlersOf(m)
        BY <1>7
      <4>2. <<m, o.serial>> \in meant
        BY <1>4, <4>1 DEF BoundAsMeant, AllBound
      <4>3. QED
        BY <1>2, <4>1, <4>2
    <3>2. QED
      BY <3>1
  <2>3. \A m \in Node : \A o \in HandlersOf(m) : <<m, o.serial>> \in meant' =>
          \E p \in HandlersOf(m)' : p.serial = o.serial
    <3>1. ASSUME NEW m \in Node, NEW o \in HandlersOf(m), <<m, o.serial>> \in meant'
          PROVE  \E p \in HandlersOf(m)' : p.serial = o.serial
      <4>1. m \notin gone
        BY <1>2, <3>1
      <4>2. o \in HandlersOf(m)'
        BY <1>7, <4>1
      <4>3. QED
        BY <4>2
    <3>2. QED
      BY <3>1
  <2>4. meant' \subseteq meant /\ counts' = counts
    BY <1>2
  <2>5. QED
    BY <1>4, <2>1, <2>2, <2>3, <2>4, LessBound
<1>10. \A m \in Node : HandlersOf(m)' \subseteq HandlersOf(m)
  BY <1>7
<1>11. guid' \in {guid, guid + 1}
  BY <1>7
<1>12. QED
  BY <1>2, <1>4, <1>7, <1>8, <1>9, <1>10, <1>11, PageStep

(* off() takes the handlers away that it names, and what is meant loses the *)
(* same bindings.                                                           *)
LEMMA OffKeeps ==
  ASSUME EventsAssumption, EventsInv, NEW n \in Node, Off(n)
  PROVE  EventsInv'
<1>1. PICK types \in {{"click"}, {"focusin"}, Type}, fns \in {Handler} \cup {{f} : f \in Handler} :
        /\ RemoveHandlers(n, {o \in HandlersOf(n) : o.type \in types /\ o.fn \in fns})
        /\ meant' = {b \in meant : ~(b[1] = n /\ \E t \in types \cap DOMAIN EventsOf(n) :
                       \E o \in ToSet(Bound(n, t).list) : o.serial = b[2] /\ o.fn \in fns)}
  BY DEF Off
<1>2. PICK gone : gone = {o \in HandlersOf(n) : o.type \in types /\ o.fn \in fns}
  OBVIOUS
<1>3. PICK lost : lost = {o.serial : o \in gone}
  OBVIOUS
<1>4. /\ Called /\ UNCHANGED <<parent, calls, counts, again>>
      /\ RemoveHandlers(n, gone)
  BY <1>1, <1>2 DEF Off
<1>5. /\ Forest /\ parent[Root] = None /\ BrowserInv /\ BoundAsMeant /\ used < MaxCalls /\ used' = used + 1
      /\ guid \in Nat /\ Serials(calls)
  BY <1>4, PageFacts
<1>6. /\ BrowserInv' /\ guid' = guid
      /\ HandlersOf(n)' = HandlersOf(n) \ gone
      /\ \A m \in Node \ {n} : Data(m)' = Data(m)
  BY <1>4, <1>5, RemoveElementHandlers
<1>7. \A m \in Node \ {n} : HandlersOf(m)' = HandlersOf(m)
  BY <1>6, SameHandlers
<1>8. \A m \in Node : HandlersOf(m)' \subseteq HandlersOf(m)
  BY <1>6, <1>7
<1>9. \A t \in Type : \A o \in ToSet(Bound(n, t).list) :
        o \in HandlersOf(n) /\ o.type = t /\ t \in DOMAIN EventsOf(n)
  <2>1. ASSUME NEW t \in Type, NEW o \in ToSet(Bound(n, t).list)
        PROVE  o \in HandlersOf(n) /\ o.type = t /\ t \in DOMAIN EventsOf(n)
    <3>1. Fine(Bound(n, t), t) /\ o \in HandlersOf(n)
      BY <1>5, BoundFine
    <3>2. t \in DOMAIN EventsOf(n)
      BY NoHandlersFine DEF Bound
    <3>3. QED
      BY <3>1, <3>2 DEF Fine
  <2>2. QED
    BY <2>1
<1>10. types \subseteq Type
  BY DEF Type
<1>11. \A x : x \in lost <=> \E t \in types \cap DOMAIN EventsOf(n) :
                               \E o \in ToSet(Bound(n, t).list) : o.serial = x /\ o.fn \in fns
  <2>1. ASSUME NEW x, x \in lost
        PROVE  \E t \in types \cap DOMAIN EventsOf(n) :
                 \E o \in ToSet(Bound(n, t).list) : o.serial = x /\ o.fn \in fns
    <3>1. PICK o \in gone : o.serial = x
      BY <1>3, <2>1
    <3>2. o \in HandlersOf(n) /\ o.type \in types /\ o.fn \in fns
      BY <1>2
    <3>3. PICK t \in Type : o \in ToSet(Bound(n, t).list)
      BY <3>2 DEF HandlersOf
    <3>4. t \in types \cap DOMAIN EventsOf(n)
      BY <1>9, <3>2, <3>3
    <3>5. QED
      BY <3>1, <3>2, <3>3, <3>4
  <2>2. ASSUME NEW x, NEW t \in types \cap DOMAIN EventsOf(n), NEW o \in ToSet(Bound(n, t).list),
               o.serial = x, o.fn \in fns
        PROVE  x \in lost
    <3>1. o \in HandlersOf(n) /\ o.type = t
      BY <1>9, <1>10
    <3>2. o \in gone
      BY <1>2, <2>2, <3>1
    <3>3. QED
      BY <1>3, <2>2, <3>2
  <2>3. QED
    BY <2>1, <2>2
<1>12. meant' = {b \in meant : ~(b[1] = n /\ b[2] \in lost)}
  BY <1>1, <1>11
<1>13. \A o \in HandlersOf(n) : o.serial \in lost <=> o \in gone
  <2>1. ASSUME NEW o \in HandlersOf(n), o.serial \in lost
        PROVE  o \in gone
    <3>1. PICK p \in gone : p.serial = o.serial
      BY <1>3, <2>1
    <3>2. p \in HandlersOf(n)
      BY <1>2
    <3>3. p = o
      BY <1>5, <3>1, <3>2, OneOfSerial
    <3>4. QED
      BY <3>3
  <2>2. QED
    BY <1>3, <2>1
<1>14. BoundAsMeant'
  <2>1. \A m \in Node : \A o \in HandlersOf(m)' : <<m, o.serial>> \in meant'
    <3>1. ASSUME NEW m \in Node, NEW o \in HandlersOf(m)'
          PROVE  <<m, o.serial>> \in meant'
      <4>1. o \in HandlersOf(m)
        BY <1>8
      <4>2. <<m, o.serial>> \in meant
        BY <1>5, <4>1 DEF BoundAsMeant, AllBound
      <4>3. ~(m = n /\ o.serial \in lost)
        BY <1>6, <1>13, <4>1
      <4>4. QED
        BY <1>12, <4>2, <4>3
    <3>2. QED
      BY <3>1
  <2>2. \A m \in Node : \A o \in HandlersOf(m) : <<m, o.serial>> \in meant' =>
          \E p \in HandlersOf(m)' : p.serial = o.serial
    <3>1. ASSUME NEW m \in Node, NEW o \in HandlersOf(m), <<m, o.serial>> \in meant'
          PROVE  \E p \in HandlersOf(m)' : p.serial = o.serial
      <4>1. ~(m = n /\ o.serial \in lost)
        BY <1>12, <3>1
      <4>2. o \in HandlersOf(m)'
        BY <1>6, <1>7, <1>13, <4>1
      <4>3. QED
        BY <4>2
    <3>2. QED
      BY <3>1
  <2>3. meant' \subseteq meant /\ counts' = counts
    BY <1>4, <1>12
  <2>4. QED
    BY <1>5, <1>8, <2>1, <2>2, <2>3, LessBound
<1>15. Forest' /\ parent'[Root] = None
  BY <1>4, <1>5, SameDocument
<1>16. guid' \in {guid, guid + 1}
  BY <1>6
<1>17. QED
  BY <1>4, <1>5, <1>6, <1>8, <1>14, <1>15, <1>16, PageStep
(* on() binds a handler of a serial no other has.                           *)
LEMMA OnKeeps ==
  ASSUME EventsAssumption, EventsInv, NEW n \in Node, On(n)
  PROVE  EventsInv'
<1>1. PICK w \in Offered :
        /\ AddHandler(n, [type |-> w.type, fn |-> w.fn, sel |-> w.sel, one |-> w.one, serial |-> used])
        /\ meant' = meant \cup {<<n, used>>}
  BY DEF On
<1>2. PICK obj : obj = [type |-> w.type, fn |-> w.fn, sel |-> w.sel, one |-> w.one, serial |-> used]
  OBVIOUS
<1>3. Called /\ UNCHANGED <<parent, calls, counts, again>> /\ AddHandler(n, obj)
  BY <1>1, <1>2 DEF On
<1>4. /\ Forest /\ parent[Root] = None /\ BrowserInv /\ BoundAsMeant /\ used < MaxCalls /\ used' = used + 1
      /\ used \in Nat /\ guid \in Nat /\ guid <= used + 1 /\ MaxCalls \in Nat
      /\ Stack(calls) /\ Serials(calls) /\ CountsInv(calls)
  BY <1>3, PageFacts
<1>5. obj \in HandleObj /\ obj.serial = used
  <2>1. /\ w.type \in {"click", "focusin"} /\ w.fn \in Handler
        /\ w.sel \in Selector \cup {None} /\ w.one \in BOOLEAN
    <3>1. w \in [type : {"click", "focusin"}, fn : Handler, sel : Selector \cup {None}, one : BOOLEAN]
      BY <1>1 DEF EventsAssumption
    <3>2. QED
      BY <3>1
  <2>2. used \in 0 .. (MaxCalls - 1)
    BY <1>4, SMT
  <2>3. QED
    BY <1>2, <2>1, <2>2 DEF HandleObj, Type
<1>6. \A m \in Node : \A o \in HandlersOf(m) : o.serial < used /\ o.serial \in Nat
  BY <1>4, BoundTyped, SerialTyped DEF Serials
<1>7. obj \notin HandlersOf(n)
  BY <1>4, <1>5, <1>6
<1>8. /\ BrowserInv' /\ guid' \in {guid, guid + 1}
      /\ HandlersOf(n)' = HandlersOf(n) \cup {obj}
      /\ \A m \in Node \ {n} : Data(m)' = Data(m)
  BY <1>3, <1>4, <1>5, <1>7, AddElementHandler
<1>9. \A m \in Node \ {n} : HandlersOf(m)' = HandlersOf(m)
  BY <1>8, SameHandlers
<1>10. Serials(calls)'
  <2> DEFINE known == Queued(calls) \cup Everywhere
             next == Queued(calls') \cup Everywhere'
  <2>1. \A o, p \in known : o.serial < used /\ (o.serial = p.serial => o = p)
    BY <1>4 DEF Serials, Everywhere
  <2>2. \A o \in known : o.serial \in Nat
    BY <1>4, BoundTyped, SerialTyped DEF Queued, Everywhere
  <2>3. next \subseteq known \cup {obj}
    <3>1. \A m \in Node : HandlersOf(m)' \subseteq Everywhere \cup {obj}
      BY <1>8, <1>9 DEF Everywhere
    <3>2. Everywhere' \subseteq Everywhere \cup {obj}
      BY <3>1 DEF Everywhere
    <3>3. calls' = calls
      BY <1>3
    <3>4. QED
      BY <3>2, <3>3
  <2> HIDE DEF known, next
  <2>4. \A o \in next : o.serial < used'
    BY <1>4, <1>5, <2>1, <2>2, <2>3
  <2>5. \A o, p \in next : o.serial = p.serial => o = p
    BY <1>4, <1>5, <2>1, <2>2, <2>3
  <2>6. \A o, p \in next : o.serial < used' /\ (o.serial = p.serial => o = p)
    BY <2>4, <2>5
  <2>7. QED
    BY <2>6 DEF Serials, Everywhere, next
<1>11. CountsInv(calls)'
  <2>1. \A key \in DOMAIN counts : key \in Node \X Nat \X Node /\ key[2] < used /\ key[2] \in Nat
    BY <1>4 DEF CountsInv
  <2>2. \A key \in DOMAIN counts : key \in Node \X Nat \X Node /\ key[2] < used'
    BY <1>4, <2>1
  <2>3. ASSUME NEW m \in Node, NEW o \in HandlersOf(m)', o.one, NEW e \in Node
        PROVE  <<m, o.serial, e>> \notin DOMAIN counts
    <3>1. CASE o \in HandlersOf(m)
      BY <1>4, <2>3, <3>1 DEF CountsInv
    <3>2. CASE o = obj
      BY <1>4, <1>5, <2>1, <3>2
    <3>3. QED
      BY <1>8, <1>9, <3>1, <3>2
  <2>4. ~again => /\ Apart(calls) /\ Uncounted(calls, DOMAIN counts)
                  /\ \A key \in DOMAIN counts : counts[key] = 1
    BY <1>4 DEF CountsInv
  <2>5. QED
    BY <1>3, <2>2, <2>3, <2>4 DEF CountsInv
<1>12. BoundAsMeant'
  <2>1. \A b : b \in AllBound' <=> \E m \in Node : \E o \in HandlersOf(m)' : b = <<m, o.serial>>
    BY DEF AllBound
  <2>2. \A b : b \in AllBound <=> \E m \in Node : \E o \in HandlersOf(m) : b = <<m, o.serial>>
    BY DEF AllBound
  <2>3. AllBound' = AllBound \cup {<<n, used>>}
    BY <1>5, <1>8, <1>9, <2>1, <2>2
  <2>4. AllBound' \subseteq meant'
    BY <1>1, <1>4, <2>3 DEF BoundAsMeant
  <2>5. meant' \ AllBound' \subseteq meant \ AllBound
    BY <1>1, <2>3
  <2>6. QED
    BY <1>3, <1>4, <2>4, <2>5 DEF BoundAsMeant
<1>13. Forest' /\ parent'[Root] = None
  BY <1>3, <1>4, SameDocument
<1>14. used' \in 0 .. MaxCalls /\ guid' <= used' + 1
  BY <1>4, <1>8, SMT
<1>15. Stack(calls')
  BY <1>3, <1>4
<1>16. QED
  BY <1>8, <1>10, <1>11, <1>12, <1>13, <1>14, <1>15 DEF EventsInv

(* clone() binds the handlers of one element to another that had none, and  *)
(* what was counted of the other is no count of these.                      *)
LEMMA CloneKeeps ==
  ASSUME EventsAssumption, EventsInv, NEW n \in Node, NEW m \in Node, Clone(n, m)
  PROVE  EventsInv'
<1>1. Called /\ UNCHANGED <<parent, calls, again>> /\ expando[m] = None /\ m # n
  BY DEF Clone
<1>2. /\ Forest /\ parent[Root] = None /\ BrowserInv /\ BoundAsMeant /\ used < MaxCalls /\ used' = used + 1
      /\ used \in Nat /\ guid \in Nat /\ guid <= used + 1 /\ MaxCalls \in Nat
      /\ Stack(calls) /\ Serials(calls) /\ CountsInv(calls)
  BY <1>1, PageFacts
<1>3. Forest' /\ parent'[Root] = None
  BY <1>1, <1>2, SameDocument
<1>4. CASE expando[n] = None
  <2>1. UNCHANGED <<data, listeners, attaches>> /\ UNCHANGED <<meant, counts>>
    BY <1>4 DEF Clone
  <2>2. BrowserInv' /\ guid' = guid /\ \A x \in Node : HandlersOf(x)' = HandlersOf(x)
    BY <1>2, <2>1, NothingWritten
  <2>3. BoundAsMeant'
    BY <1>2, <2>1, <2>2, SameBound
  <2>4. \A x \in Node : HandlersOf(x)' \subseteq HandlersOf(x)
    BY <2>2
  <2>5. guid' \in {guid, guid + 1}
    BY <2>2
  <2>6. QED
    BY <1>1, <1>2, <1>3, <2>1, <2>2, <2>3, <2>4, <2>5, PageStep
<1>5. CASE expando[n] # None
  <2>1. PICK types : types = DOMAIN EventsOf(n)
    OBVIOUS
  <2>2. /\ Write(m, [Data(n) EXCEPT !.handle = IF types = {} THEN None ELSE m])
        /\ listeners' = [listeners EXCEPT ![m]["click"] = IF "click" \in types THEN m ELSE None]
        /\ attaches' = IF "focusin" \in types THEN attaches + 1 ELSE attaches
        /\ meant' = {b \in meant : b[1] # m} \cup {<<m, o.serial>> : o \in HandlersOf(n)}
        /\ counts' = Without(counts, {key \in DOMAIN counts : key[1] = m})
    BY <1>5, <2>1 DEF Clone
  <2>3. /\ BrowserInv' /\ guid' \in {guid, guid + 1}
        /\ HandlersOf(m)' = HandlersOf(n)
        /\ \A x \in Node \ {m} : HandlersOf(x)' = HandlersOf(x)
    BY <1>1, <1>2, <1>5, <2>1, <2>2, CopyElement
  <2>4. /\ \A key : key \in DOMAIN counts' <=> key \in DOMAIN counts /\ key[1] # m
        /\ \A key \in DOMAIN counts' : counts'[key] = counts[key]
    BY <2>2 DEF Without
  <2>5. Serials(calls)'
    <3>1. \A x \in Node : HandlersOf(x)' \subseteq Everywhere
      BY <2>3 DEF Everywhere
    <3>2. Queued(calls') \subseteq Queued(calls) \cup Everywhere
      BY <1>1
    <3>3. QED
      BY <1>2, <3>1, <3>2, SerialsKept
  <2>6. CountsInv(calls)'
    <3>1. \A key \in DOMAIN counts : key \in Node \X Nat \X Node /\ key[2] < used /\ key[2] \in Nat
      BY <1>2 DEF CountsInv
    <3>2. \A key \in DOMAIN counts' : key \in Node \X Nat \X Node /\ key[2] < used'
      BY <1>2, <2>4, <3>1
    <3>3. ASSUME NEW x \in Node, NEW o \in HandlersOf(x)', o.one, NEW e \in Node
          PROVE  <<x, o.serial, e>> \notin DOMAIN counts'
      <4>1. CASE x = m
        BY <2>4, <4>1
      <4>2. CASE x # m
        <5>1. o \in HandlersOf(x)
          BY <2>3, <4>2
        <5>2. <<x, o.serial, e>> \notin DOMAIN counts
          BY <1>2, <3>3, <5>1 DEF CountsInv
        <5>3. QED
          BY <2>4, <5>2
      <4>3. QED
        BY <4>1, <4>2
    <3>4. ASSUME ~again'
          PROVE  /\ Apart(calls') /\ Uncounted(calls', DOMAIN counts')
                 /\ \A key \in DOMAIN counts' : counts'[key] = 1
      <4>1. /\ Apart(calls) /\ Uncounted(calls, DOMAIN counts)
            /\ \A key \in DOMAIN counts : counts[key] = 1
        BY <1>1, <1>2, <3>4 DEF CountsInv
      <4>2. Uncounted(calls, DOMAIN counts')
        BY <2>4, <4>1 DEF Uncounted
      <4>3. QED
        BY <1>1, <2>4, <4>1, <4>2
    <3>5. QED
      BY <3>2, <3>3, <3>4 DEF CountsInv
  <2>7. BoundAsMeant'
    <3>1. \A b : b \in AllBound' <=> \E x \in Node : \E o \in HandlersOf(x)' : b = <<x, o.serial>>
      BY DEF AllBound
    <3>2. \A b : b \in AllBound <=> \E x \in Node : \E o \in HandlersOf(x) : b = <<x, o.serial>>
      BY DEF AllBound
    <3>3. ASSUME NEW x \in Node, NEW o \in HandlersOf(x)'
          PROVE  <<x, o.serial>> \in meant'
      <4>1. CASE x = m
        BY <2>2, <2>3, <4>1
      <4>2. CASE x # m
        <5>1. o \in HandlersOf(x)
          BY <2>3, <4>2
        <5>2. <<x, o.serial>> \in meant
          BY <1>2, <3>2, <5>1 DEF BoundAsMeant
        <5>3. QED
          BY <2>2, <4>2, <5>2
      <4>3. QED
        BY <4>1, <4>2
    <3>4. AllBound' \subseteq meant'
      BY <3>1, <3>3
    <3>5. ASSUME NEW b \in meant' \ AllBound'
          PROVE  \E key \in DOMAIN counts' : key[1] = b[1] /\ key[2] # b[2]
      <4>1. b \in meant /\ b[1] # m
        BY <2>2, <2>3, <3>1
      <4>2. b \notin AllBound
        <5> SUFFICES ASSUME NEW x \in Node, NEW o \in HandlersOf(x), b = <<x, o.serial>>
                     PROVE  FALSE
          BY <3>2
        <5>1. x # m
          BY <4>1
        <5>2. QED
          BY <2>3, <3>1, <5>1
      <4>3. PICK key \in DOMAIN counts : key[1] = b[1] /\ key[2] # b[2]
        BY <1>2, <4>1, <4>2 DEF BoundAsMeant
      <4>4. QED
        BY <2>4, <4>1, <4>3
    <3>6. QED
      BY <3>4, <3>5 DEF BoundAsMeant
  <2>8. used' \in 0 .. MaxCalls /\ guid' <= used' + 1
    BY <1>2, <2>3, SMT
  <2>9. Stack(calls')
    BY <1>1, <1>2
  <2>10. QED
    BY <1>3, <2>3, <2>5, <2>6, <2>7, <2>8, <2>9 DEF EventsInv
<1>6. QED
  BY <1>4, <1>5
-----------------------------------------------------------------------------
(* The theorems.                                                            *)

LEMMA InitEvents ==
  ASSUME EventsAssumption, Init
  PROVE  EventsInv
<1>1. /\ IsFiniteSet(Node) /\ Root \in Node /\ MaxCalls \in Nat
      /\ Parent \in [Node -> Node \cup {None}] /\ Parent[Root] = None
      /\ \E level \in [Node -> 0 .. Cardinality(Node)] :
           \A n \in Node : Parent[n] # None => level[Parent[n]] < level[n]
  BY DEF EventsAssumption
<1>2. /\ parent = Parent /\ expando = [n \in Node |-> None] /\ cache = <<>> /\ deleted = <<>> /\ guid = 1
      /\ listeners = [n \in Node |-> [t \in Type |-> None]] /\ attaches = 0 /\ calls = <<>>
      /\ meant = {} /\ counts = <<>> /\ again = FALSE /\ used = 0
  BY DEF Init
<1>3. Forest /\ parent[Root] = None
  <2>1. Cardinality(Node) \in Nat
    BY <1>1, FS_CardinalityType
  <2>2. QED
    BY <1>1, <1>2, <2>1 DEF Forest, Grows
<1>4. \A n \in Node : Data(n) = Empty
  BY <1>2 DEF Data
<1>5. \A n : EntryFine(Empty, n) /\ Handles(Empty) = {} /\ DOMAIN Empty.events = {}
  BY EmptyFine
<1>6. \A n \in Node : HandlersOf(n) = {}
  BY <1>4, <1>5, NothingBound, HandlersAre
<1>7. KeysInv
  <2>1. Keys = {}
    BY <1>2 DEF Keys
  <2>2. deleted \in Seq(Nat) /\ IsInjective(deleted) /\ ToSet(deleted) = {}
    BY <1>2 DEF IsInjective, ToSet
  <2>3. cache \in [Keys -> Entries]
    BY <1>2, <2>1
  <2>4. QED
    BY <1>2, <2>1, <2>2, <2>3 DEF KeysInv
<1>8. \A n \in Node : ElementInv(n)
  BY <1>2, <1>4, <1>5 DEF ElementInv, Listener
<1>9. attaches = Cardinality(Focused)
  <2>1. Focused = {}
    BY <1>4, <1>5 DEF Focused
  <2>2. Cardinality(Focused) = 0
    BY <2>1, FS_EmptySet, Zenon
  <2>3. QED
    BY <1>2, <2>2
<1>10. BrowserInv
  BY <1>2, <1>7, <1>8, <1>9 DEF BrowserInv
<1>11. Stack(calls) /\ Queued(calls) = {} /\ DOMAIN counts = {}
  BY <1>2 DEF Stack, Queued
<1>12. Serials(calls)
  BY <1>6, <1>11 DEF Serials
<1>13. BoundAsMeant
  <2>1. AllBound = {}
    BY <1>6 DEF AllBound
  <2>2. QED
    BY <1>2, <2>1 DEF BoundAsMeant
<1>14. CountsInv(calls)
  BY <1>2, <1>6, <1>11 DEF CountsInv, Apart, Uncounted
<1>15. used \in 0 .. MaxCalls /\ guid <= used + 1
  BY <1>1, <1>2
<1>16. QED
  BY <1>3, <1>10, <1>11, <1>12, <1>13, <1>14, <1>15 DEF EventsInv

LEMMA NextEvents ==
  ASSUME EventsAssumption, EventsInv, [Next]_vars
  PROVE  EventsInv'
<1>1. CASE Propagate
  BY <1>1, PropagateKeeps
<1>2. CASE CallHandler
  BY <1>2, CallHandlerKeeps
<1>3. CASE Return
  BY <1>3, ReturnKeeps
<1>4. ASSUME NEW n \in Node,
             \/ On(n) \/ Off(n) \/ SetData(n) \/ RemoveData(n) \/ RemoveElement(n) \/ Detach(n)
             \/ (\E p \in Node : AppendTo(n, p) \/ Clone(n, p))
             \/ UserEvent(n) \/ Trigger(n)
      PROVE  EventsInv'
  <2>1. CASE On(n)
    BY <2>1, OnKeeps
  <2>2. CASE Off(n)
    BY <2>2, OffKeeps
  <2>3. CASE SetData(n) \/ RemoveData(n)
    BY <2>3, DataKeeps
  <2>4. CASE RemoveElement(n)
    BY <2>4, RemoveElementKeeps
  <2>5. CASE Detach(n) \/ \E p \in Node : AppendTo(n, p)
    BY <2>5, MovesKeep
  <2>6. CASE \E p \in Node : Clone(n, p)
    BY <2>6, CloneKeeps
  <2>7. CASE UserEvent(n) \/ Trigger(n)
    BY <2>7, FiringKeeps
  <2>8. QED
    BY <1>4, <2>1, <2>2, <2>3, <2>4, <2>5, <2>6, <2>7
<1>5. CASE UNCHANGED vars
  <2>1. UNCHANGED <<parent, data, listeners, attaches, meant, counts>> /\ calls' = calls /\ again' = again /\ used' = used
    BY <1>5 DEF vars, ghosts
  <2>2. /\ Stack(calls) /\ CountsInv(calls) /\ used \in 0 .. MaxCalls /\ MaxCalls \in Nat
    BY DEF EventsInv, EventsAssumption
  <2>3. used' \in {used, used + 1} /\ used' <= MaxCalls
    BY <2>1, <2>2
  <2>4. Stack(calls') /\ Queued(calls') \subseteq Queued(calls) \cup Everywhere
    BY <2>1, <2>2
  <2>5. ~again' => ~again /\ Apart(calls') /\ Uncounted(calls', DOMAIN counts)
    BY <2>1, <2>2 DEF CountsInv
  <2>6. QED
    BY <2>1, <2>3, <2>4, <2>5, CallsStep
<1>6. CASE Next
  BY <1>1, <1>2, <1>3, <1>4, <1>6 DEF Next
<1>7. QED
  BY <1>5, <1>6

(* The invariant of the data cache, the listeners, the calls under way and  *)
(* the counts holds in every state: what dispatch() works on fits what is   *)
(* bound, whatever its handlers do to the document and to each other.       *)
THEOREM EventsInvariant == Spec => []EventsInv
<1>1. Init => EventsInv
  BY EventsAssumption, InitEvents
<1>2. EventsInv /\ [Next]_vars => EventsInv'
  BY EventsAssumption, NextEvents
<1>3. QED
  BY <1>1, <1>2, PTL DEF Spec

LEMMA InvGivesDataInv ==
  ASSUME EventsAssumption, EventsInv
  PROVE  DataInv
<1>1. /\ Forest /\ parent[Root] = None /\ BrowserInv /\ used \in 0 .. MaxCalls /\ guid <= used + 1
      /\ MaxCalls \in Nat /\ IsFiniteSet(Node) /\ None \notin Node /\ KeysInv
      /\ \A n \in Node : ElementInv(n)
  BY DEF EventsInv, EventsAssumption, BrowserInv
<1>2. TypeOK
  <2>1. parent \in [Node -> Node \cup {None}] /\ expando \in [Node -> Nat \cup {None}]
    BY <1>1 DEF Forest, KeysInv
  <2>2. guid \in 1 .. (MaxCalls + 1)
    <3>1. guid \in Nat \ {0}
      BY <1>1 DEF KeysInv
    <3>2. QED
      BY <1>1, <3>1, SMT
  <2>3. attaches \in 0 .. Cardinality(Node)
    <3>1. Focused \in SUBSET Node
      BY DEF Focused
    <3>2. IsFiniteSet(Focused) /\ Cardinality(Focused) <= Cardinality(Node)
      BY <1>1, <3>1, FS_Subset
    <3>3. Cardinality(Focused) \in Nat /\ Cardinality(Node) \in Nat
      BY <1>1, <3>2, FS_CardinalityType
    <3>4. attaches = Cardinality(Focused)
      BY <1>1 DEF BrowserInv
    <3>5. QED
      BY <3>2, <3>3, <3>4
  <2>4. \A n \in Node, t \in Type :
          listeners[n][t] \in Node \cup {None} /\ ToSet(Bound(n, t).list) \subseteq HandleObj
    <3>1. ASSUME NEW n \in Node, NEW t \in Type
          PROVE  ToSet(Bound(n, t).list) \subseteq HandleObj
      BY <1>1, BoundFine, BoundTyped
    <3>2. listeners \in [Node -> [Type -> Node \cup {None}]]
      BY <1>1 DEF BrowserInv
    <3>3. QED
      BY <3>1, <3>2
  <2>5. QED
    BY <1>1, <2>1, <2>2, <2>3, <2>4 DEF TypeOK
<1>3. DataIsOwn
  <2>1. /\ \A n, m \in Node : expando[n] # None /\ expando[n] = expando[m] => n = m
        /\ DOMAIN cache = Keys /\ ToSet(deleted) \cap Keys = {}
        /\ deleted \in Seq(Nat) /\ IsInjective(deleted)
    BY <1>1 DEF KeysInv
  <2>2. Cardinality(ToSet(deleted)) = Len(deleted)
    BY <2>1, InjectiveLength
  <2>3. ASSUME NEW k \in Keys
        PROVE  cache[k].events # <<>> \/ cache[k].data
    <3>1. PICK n \in Node : expando[n] # None /\ k = expando[n]
      BY DEF Keys
    <3>2. Data(n) = cache[k] /\ InUse(Data(n))
      BY <1>1, <3>1 DEF Data, ElementInv
    <3>3. Data(n) \in Entries
      BY <1>1, DataTyped
    <3>4. Data(n).events = <<>> <=> DOMAIN Data(n).events = {}
      BY <3>3, EventsAre
    <3>5. QED
      BY <3>2, <3>4 DEF InUse
  <2>4. QED
    BY <2>1, <2>2, <2>3 DEF DataIsOwn, Keys
<1>4. ListenersMatch
  <2>1. ASSUME NEW n \in Node
        PROVE  listeners[n]["click"] = IF "click" \in DOMAIN EventsOf(n) THEN n ELSE None
    <3>1. "click" \in Type
      BY DEF Type
    <3>2. listeners[n] = [t \in Type |-> IF t = "click" /\ t \in DOMAIN Data(n).events THEN n ELSE None]
      BY <1>1 DEF ElementInv, Listener
    <3>3. QED
      BY <3>1, <3>2 DEF EventsOf
  <2>2. ASSUME NEW n \in Node, NEW t \in DOMAIN EventsOf(n)
        PROVE  /\ Bound(n, t).list # <<>>
               /\ \A i \in DOMAIN Bound(n, t).list : (Bound(n, t).list[i].sel # None) <=> i <= Bound(n, t).delegateCount
    <3>1. Bound(n, t) = Data(n).events[t] /\ EntryFine(Data(n), n)
      BY <1>1 DEF Bound, EventsOf, ElementInv
    <3>2. PICK b : b = Bound(n, t)
      OBVIOUS
    <3>3. b.list # <<>> /\ Fine(b, t)
      BY <3>1, <3>2 DEF EntryFine, EventsOf
    <3>4. b.list \in Seq(HandleObj) /\ Fronted(b.list, Delegating, b.delegateCount)
      BY <3>3 DEF Fine, Bindings
    <3>5. \A i \in DOMAIN b.list : b.list[i] \in HandleObj
      BY <3>4
    <3>6. \A i \in DOMAIN b.list : (b.list[i].sel # None) <=> i <= b.delegateCount
      BY <3>4, <3>5 DEF Fronted, Delegating
    <3>7. QED
      BY <3>2, <3>3, <3>6
  <2>3. attaches = Cardinality({n \in Node : "focusin" \in DOMAIN EventsOf(n)})
    <3>1. attaches = Cardinality(Focused)
      BY <1>1 DEF BrowserInv
    <3>2. Focused = {n \in Node : "focusin" \in DOMAIN EventsOf(n)}
      BY DEF Focused, EventsOf
    <3>3. QED
      BY <3>1, <3>2, Zenon
  <2>4. QED
    BY <2>1, <2>2, <2>3 DEF ListenersMatch
<1>5. QED
  BY <1>2, <1>3, <1>4 DEF DataInv

(* The cache and the browser agree in every state: no two elements share an *)
(* entry, a key to be used again is nobody's, an element that has no data   *)
(* has no entry, and jQuery is called by the browser exactly for what has   *)
(* handlers, those with a selector in front.                                *)
THEOREM EventsDataInv == Spec => []DataInv
<1>1. EventsInv => DataInv
  BY EventsAssumption, InvGivesDataInv
<1>2. Spec => []EventsInv
  BY EventsInvariant
<1>3. QED
  BY <1>1, <1>2, PTL

(* What is bound is what the page asked for: no clean-up leaves a handler   *)
(* behind and none takes one away, but for the calls of one(), which take   *)
(* the other bindings of their function with them.                          *)
THEOREM EventsBoundAsMeant == Spec => []BoundAsMeant
<1>1. EventsInv => BoundAsMeant
  BY DEF EventsInv
<1>2. Spec => []EventsInv
  BY EventsInvariant
<1>3. QED
  BY <1>1, <1>2, PTL

LEMMA InvGivesHandlersCalled ==
  ASSUME EventsAssumption, EventsInv
  PROVE  HandlersCalled
<1>1. Forest /\ None \notin Node /\ BrowserInv /\ CountsInv(calls)
  BY DEF EventsInv, EventsAssumption
<1>2. OneIsCalledOnce
  BY <1>1 DEF CountsInv, OneIsCalledOnce
<1>3. QueueIsComplete
  BY <1>1, QueuesComplete
<1>4. QED
  BY <1>2, <1>3 DEF HandlersCalled

(* An event calls, at every element of its path, every handler it should    *)
(* and none twice, the deepest element first; a binding made with one() is  *)
(* called once for an element, unless its event is fired again while it is  *)
(* being dispatched.                                                        *)
THEOREM EventsHandlersCalled == Spec => []HandlersCalled
<1>1. EventsInv => HandlersCalled
  BY EventsAssumption, InvGivesHandlersCalled
<1>2. Spec => []EventsInv
  BY EventsInvariant
<1>3. QED
  BY <1>1, <1>2, PTL
=============================================================================
