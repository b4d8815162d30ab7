------------------------- MODULE IdGenerators_proofs -------------------------
(***************************************************************************)
(* Proofs about IdGenerators: a server hands out no id twice unless it has *)
(* been restarted and its clock has been set back.                         *)
(***************************************************************************)
EXTENDS IdGenerators, TLAPS

(* Quotient and remainder are determined.                                   *)
LEMMA DivisionUnique ==
  ASSUME NEW N \in Nat \ {0}, NEW a \in Nat, NEW c \in Nat,
         NEW b \in 0..N - 1, NEW d \in 0..N - 1,
         a * N + b = c * N + d
  PROVE  a = c /\ b = d
<1>1. ASSUME NEW x \in Nat, NEW y \in Nat, x < y
      PROVE  x * N + N <= y * N
  <2>1. PICK k \in Nat : y = x + 1 + k
    <3>1. y - x - 1 \in Nat /\ y = x + 1 + (y - x - 1)
      BY <1>1
    <3>2. QED
      BY <3>1
  <2>2. y * N = x * N + N + k * N
    BY <2>1
  <2>3. k * N >= 0
    BY <2>1
  <2>4. x * N \in Nat /\ y * N \in Nat /\ k * N \in Nat
    BY <2>1
  <2>5. QED
    BY <2>2, <2>3, <2>4
<1>2. a * N \in Nat /\ c * N \in Nat
  OBVIOUS
<1>3. ~(a < c)
  BY <1>1, <1>2
<1>4. ~(c < a)
  BY <1>1, <1>2
<1>5. a = c
  BY <1>3, <1>4
<1>6. QED
  BY <1>2, <1>5

(* The parts of an id do not overlap: the number determines them.           *)
LEMMA PackInjective ==
  ASSUME NEW e \in Parts, NEW f \in Parts, Pack(e) = Pack(f)
  PROVE  e = f
<1> DEFINE R(x) == x.time * RandomSize + x.random
           W(x) == R(x) * WorkerSize + x.worker
<1>1. /\ e.time \in Nat /\ f.time \in Nat
      /\ e.random \in 0..RandomSize - 1 /\ f.random \in 0..RandomSize - 1
      /\ e.worker \in 0..WorkerSize - 1 /\ f.worker \in 0..WorkerSize - 1
      /\ e.sequence \in 0..SequenceSize - 1 /\ f.sequence \in 0..SequenceSize - 1
  BY DEF Parts
<1>2. /\ RandomSize \in Nat \ {0}
      /\ WorkerSize \in Nat \ {0}
      /\ SequenceSize \in Nat \ {0}
  BY IdAssumption
<1>3. R(e) \in Nat /\ R(f) \in Nat
  BY <1>1, <1>2
<1>4. W(e) \in Nat /\ W(f) \in Nat
  <2> HIDE DEF R
  <2> QED
    BY <1>1, <1>2, <1>3
<1>5. W(e) * SequenceSize + e.sequence = W(f) * SequenceSize + f.sequence
  BY DEF Pack
<1>6. W(e) = W(f) /\ e.sequence = f.sequence
  <2> HIDE DEF W
  <2> QED
    BY <1>1, <1>2, <1>4, <1>5, DivisionUnique
<1>7. R(e) = R(f) /\ e.worker = f.worker
  <2>1. R(e) * WorkerSize + e.worker = R(f) * WorkerSize + f.worker
    BY <1>6
  <2> HIDE DEF R
  <2> QED
    BY <1>1, <1>2, <1>3, <2>1, DivisionUnique
<1>8. e.time = f.time /\ e.random = f.random
  <2>1. e.time * RandomSize + e.random = f.time * RandomSize + f.random
    BY <1>7
  <2>2. PICK a, b, c, d : a = e.time /\ b = e.random /\ c = f.time /\ d = f.random
    OBVIOUS
  <2>3. a \in Nat /\ c \in Nat /\ b \in 0..RandomSize - 1 /\ d \in 0..RandomSize - 1
    BY <1>1, <2>2
  <2>4. a * RandomSize + b = c * RandomSize + d
    BY <2>1, <2>2
  <2>5. a = c /\ b = d
    BY <1>2, <2>3, <2>4, DivisionUnique
  <2> QED
    BY <2>2, <2>5
<1>9. QED
  BY <1>6, <1>7, <1>8 DEF Parts

(* Counting up within the mask.                                             *)
LEMMA SuccessorFacts ==
  ASSUME NEW n \in 0..SequenceSize - 1
  PROVE  /\ Successor(n) \in 0..SequenceSize - 1
         /\ Successor(n) # 0 => Successor(n) = n + 1
BY IdAssumption DEF Successor

LEMMA ThreadParts ==
  ASSUME NEW t \in Thread
  PROVE  t[1] \in Server /\ t[2] \in ThreadId /\ t = <<t[1], t[2]>>
BY DEF Thread

LEMMA AppendFacts ==
  ASSUME NEW S, NEW q \in Seq(S), NEW e \in S
  PROVE  /\ Append(q, e) \in Seq(S)
         /\ DOMAIN Append(q, e) = DOMAIN q \cup {Len(q) + 1}
         /\ \A i \in DOMAIN q : Append(q, e)[i] = q[i]
         /\ Append(q, e)[Len(q) + 1] = e
         /\ Len(q) + 1 \notin DOMAIN q
OBVIOUS

-----------------------------------------------------------------------------
(* A generator in use exists and has the number of a thread.                *)
LEMMA InUse ==
  ASSUME IdInv, NEW t \in Thread, pc[t] \in {"call", "spin"}
  PROVE  /\ mine[t] \in ThreadId
         /\ mine[t] < WorkerSize
         /\ <<t[1], mine[t]>> \in Thread
         /\ gen[<<t[1], mine[t]>>].built
<1>1. mine[t] # NoThread /\ gen[<<t[1], mine[t]>>].built
  BY DEF IdInv, Holding
<1>2. mine[t] \in ThreadId
  BY <1>1 DEF IdInv, IdTypeOK
<1>3. <<t[1], mine[t]>> \in Thread
  BY <1>2, ThreadParts DEF Thread
<1>4. mine[t] < WorkerSize
  BY <1>1, <1>3 DEF IdInv, Holding
<1> QED
  BY <1>1, <1>2, <1>3, <1>4

(* A step that hands out no id and disturbs no generator that exists leaves *)
(* all ids accounted for.                                                   *)
LEMMA Quiet ==
  ASSUME IdInv, issued' = issued, runs' = runs, booted' = booted,
         \A s \in Server : Trusted(s)' => Trusted(s),
         \A g \in Thread : gen[g].built =>
           /\ gen'[g].built
           /\ gen'[g].last = gen[g].last
           /\ gen'[g].sequence = gen[g].sequence,
         \A g \in Thread : Spinning(g) => Spinning(g)'
  PROVE  Accounted' /\ Distinct'
<1>1. ASSUME NEW s \in Server, Trusted(s)', NEW i \in DOMAIN issued'[s]
      PROVE  Behind(s, issued[s][i])' \/ (runs'[s] # 0 /\ issued[s][i].time < booted'[s])
  <2>1. PICK e : e = issued[s][i]
    OBVIOUS
  <2>2. Behind(s, e) \/ (runs[s] # 0 /\ e.time < booted[s])
    BY <1>1, <2>1 DEF IdInv, Accounted
  <2>3. ASSUME Behind(s, e) PROVE Behind(s, issued[s][i])'
    <3>1. <<s, e.worker>> \in Thread /\ gen[<<s, e.worker>>].built
      BY <2>3 DEF Behind, Thread
    <3> QED
      BY <2>1, <2>3, <3>1 DEF Behind
  <2> QED
    BY <2>1, <2>2, <2>3
<1>2. Accounted'
  BY <1>1 DEF Accounted
<1>3. Distinct'
  BY DEF IdInv, Distinct, Same
<1> QED
  BY <1>2, <1>3

-----------------------------------------------------------------------------
(* An id handed out is new: its generator had not come that far.            *)
LEMMA HandOutInv ==
  ASSUME IdInv, NEW t \in Thread, NEW n \in 0..SequenceSize - 1,
         pc[t] \in {"call", "spin"},
         pc' = [pc EXCEPT ![t] = "idle"],
         mine' = [mine EXCEPT ![t] = NoThread],
         HandOut(<<t[1], mine[t]>>, clock[t[1]], n),
         \/ clock[t[1]] > gen[<<t[1], mine[t]>>].last
         \/ /\ clock[t[1]] = gen[<<t[1], mine[t]>>].last
            /\ ~Spinning(<<t[1], mine[t]>>)
            /\ n = gen[<<t[1], mine[t]>>].sequence + 1,
         UNCHANGED <<clock, booted, runs, back, field, ticker>>
  PROVE  IdInv'
<1>1. PICK s, g, w, now : s = t[1] /\ w = mine[t] /\ g = <<s, w>> /\ now = clock[s]
  OBVIOUS
<1>2. /\ s \in Server /\ w \in ThreadId /\ w \in 0..WorkerSize - 1
      /\ g \in Thread /\ gen[g].built /\ now \in Nat
  <2>1. w < WorkerSize /\ w \in Nat /\ WorkerSize \in Nat
    BY <1>1, InUse, IdAssumption
  <2> QED
    BY <1>1, <2>1, InUse, ThreadParts, SMTT(40) DEF IdInv, IdTypeOK
<1>3. PICK e : e = [time |-> now, random |-> gen[g].random, worker |-> w, sequence |-> n]
  OBVIOUS
<1>4. /\ gen \in [Thread -> Generator]
      /\ gen' = [gen EXCEPT ![g].last = now, ![g].sequence = n]
      /\ issued \in [Server -> Seq(Parts)]
      /\ issued' = [issued EXCEPT ![s] = Append(@, e)]
  BY <1>1, <1>3 DEF HandOut, IdInv, IdTypeOK
<1>5. gen[g] \in Generator
  BY <1>2, <1>4
<1>6. e \in Parts
  BY <1>2, <1>3, <1>5 DEF Parts, Generator
<1>7. /\ gen'[g].built /\ gen'[g].last = now /\ gen'[g].sequence = n
      /\ gen'[g].random = gen[g].random
      /\ \A h \in Thread : h # g => gen'[h] = gen[h]
  BY <1>2, <1>4, <1>5 DEF Generator
<1>8. /\ issued'[s] = Append(issued[s], e)
      /\ \A u \in Server : u # s => issued'[u] = issued[u]
      /\ issued[s] \in Seq(Parts)
  BY <1>2, <1>4
<1>9. /\ DOMAIN issued'[s] = DOMAIN issued[s] \cup {Len(issued[s]) + 1}
      /\ \A i \in DOMAIN issued[s] : issued'[s][i] = issued[s][i]
      /\ issued'[s][Len(issued[s]) + 1] = e
      /\ issued'[s] \in Seq(Parts)
  BY <1>6, <1>8, AppendFacts
<1>10. IdTypeOK'
  <2>1. gen' \in [Thread -> Generator]
    <3>1. now \in Int
      BY <1>2
    <3>2. [gen EXCEPT ![g].last = now, ![g].sequence = n] \in [Thread -> Generator]
      BY <1>2, <1>4, <3>1 DEF Generator
    <3> QED
      BY <1>4, <3>2
  <2>2. issued' \in [Server -> Seq(Parts)]
    BY <1>2, <1>4, <1>8, <1>9
  <2>3. pc' \in [Thread -> {"idle", "construct", "assign", "fetch", "call", "spin"}]
        /\ mine' \in [Thread -> ThreadId \cup {NoThread}]
    BY DEF IdInv, IdTypeOK
  <2> QED
    BY <2>1, <2>2, <2>3 DEF IdInv, IdTypeOK
<1>11. \A h \in Thread : gen'[h].built <=> gen[h].built
  BY <1>2, <1>7
<1>12. Holding'
  <2>1. SUFFICES ASSUME NEW u \in Thread
                 PROVE  LET r == u[1] IN
                        /\ pc'[u] \in {"call", "spin"} =>
                             mine'[u] # NoThread /\ gen'[<<r, mine'[u]>>].built
                        /\ pc'[u] = "construct" => ~gen'[u].built
                        /\ pc'[u] = "assign" => gen'[u].built
                        /\ pc'[u] = "fetch" => field'[r] # NoThread
                        /\ field'[r] # NoThread => gen'[<<r, field'[r]>>].built
                        /\ gen'[u].built => u[2] < WorkerSize
                        /\ gen'[u].built => field'[r] # NoThread \/ pc'[u] = "assign"
    BY DEF Holding
  <2>2. /\ pc'[u] = IF u = t THEN "idle" ELSE pc[u]
        /\ mine'[u] = IF u = t THEN NoThread ELSE mine[u]
    BY DEF IdInv, IdTypeOK
  <2>3. pc[u] \in {"call", "spin"} => <<u[1], mine[u]>> \in Thread
    BY InUse
  <2>4. field[u[1]] # NoThread => <<u[1], field[u[1]]>> \in Thread
    BY ThreadParts DEF IdInv, IdTypeOK, Thread
  <2> QED
    BY <1>11, <2>2, <2>3, <2>4 DEF IdInv, Holding
<1>13. ASSUME NEW r \in Server, back'[r] = 0 PROVE Clocked(r)'
  <2>1. Clocked(r)
    BY <1>13 DEF IdInv
  <2>2. ASSUME NEW m \in ThreadId
        PROVE  gen'[<<r, m>>].last = -1 \/ gen'[<<r, m>>].last \in booted[r]..clock[r]
    <3>1. CASE <<r, m>> = g
      <4>1. r = s
        BY <1>1, <3>1
      <4> QED
        BY <1>1, <1>2, <1>7, <2>1, <3>1, <4>1 DEF Clocked, IdInv, IdTypeOK
    <3>2. CASE <<r, m>> # g
      BY <1>7, <2>1, <3>2 DEF Clocked, Thread
    <3> QED
      BY <3>1, <3>2
  <2> QED
    BY <2>1, <2>2 DEF Clocked
<1>14. ASSUME NEW r \in Server, Trusted(r)', NEW i \in DOMAIN issued[r], NEW f, f = issued[r][i]
       PROVE  /\ Behind(r, f) \/ (runs[r] # 0 /\ f.time < booted[r])
              /\ f \in Parts
  <2>1. Trusted(r)
    BY <1>14 DEF Trusted
  <2> QED
    BY <1>4, <1>14, <2>1 DEF IdInv, Accounted
<1>15. ASSUME NEW r \in Server, NEW f \in Parts, Behind(r, f)
       PROVE  Behind(r, f)'
  <2>1. PICK h : h = <<r, f.worker>>
    OBVIOUS
  <2>2. h \in Thread
    BY <1>15, <2>1 DEF Behind, Thread
  <2>3. CASE h = g
    <3>1. f.time < now \/ (f.time = now /\ f.sequence <= n)
      <4>1. gen[g].last \in Int /\ gen[g].sequence \in Nat /\ f.time \in Nat /\ f.sequence \in Nat
        BY <1>5 DEF Generator, Parts
      <4> QED
        BY <1>1, <1>2, <1>15, <2>1, <2>3, <4>1 DEF Behind
    <3> QED
      BY <1>7, <1>15, <2>1, <2>3, <3>1 DEF Behind
  <2>4. CASE h # g
    <3>1. Spinning(h) => Spinning(h)'
      <4>1. ASSUME NEW m \in ThreadId, pc[<<h[1], m>>] = "spin", mine[<<h[1], m>>] = h[2]
            PROVE  pc'[<<h[1], m>>] = "spin" /\ mine'[<<h[1], m>>] = h[2]
        <5>1. <<h[1], m>> # t
          BY <1>1, <2>1, <2>4, <4>1
        <5>2. <<h[1], m>> \in Thread
          BY <2>2, ThreadParts DEF Thread
        <5> QED
          BY <4>1, <5>1, <5>2 DEF IdInv, IdTypeOK
      <4> QED
        BY <4>1 DEF Spinning
    <3> QED
      BY <1>7, <1>15, <2>1, <2>2, <2>4, <3>1 DEF Behind
  <2> QED
    BY <2>3, <2>4
<1>16. Behind(s, e)'
  BY <1>1, <1>2, <1>3, <1>7 DEF Behind
<1>17. Accounted'
  <2>1. SUFFICES ASSUME NEW r \in Server, Trusted(r)', NEW i \in DOMAIN issued'[r]
                 PROVE  (\/ Behind(r, issued[r][i])
                         \/ (runs[r] # 0 /\ issued[r][i].time < booted[r]))'
    BY DEF Accounted
  <2>2. CASE i \in DOMAIN issued[r]
    <3>1. PICK f : f = issued[r][i]
      OBVIOUS
    <3>2. issued'[r][i] = f
      BY <1>8, <1>9, <2>2, <3>1
    <3>3. Behind(r, f)' \/ (runs[r] # 0 /\ f.time < booted[r])
      BY <1>14, <1>15, <2>1, <2>2, <3>1
    <3> QED
      BY <3>2, <3>3 DEF Behind
  <2>3. CASE i \notin DOMAIN issued[r]
    <3>1. r = s /\ issued'[r][i] = e
      BY <1>8, <1>9, <2>3
    <3> QED
      BY <1>16, <3>1 DEF Behind
  <2> QED
    BY <2>2, <2>3
<1>18. ASSUME Trusted(s)', NEW i \in DOMAIN issued[s]
       PROVE  ~Same(issued[s][i], e)
  <2>1. PICK f : f = issued[s][i]
    OBVIOUS
  <2>2. /\ Behind(s, f) \/ (runs[s] # 0 /\ f.time < booted[s])
        /\ f \in Parts
    BY <1>2, <1>14, <1>18, <2>1
  <2>3. e.time = now /\ e.worker = w /\ e.sequence = n
    BY <1>3
  <2>4. CASE Behind(s, f)
    <3>1. SUFFICES ASSUME Same(f, e) PROVE FALSE
      BY <2>1
    <3>2. gen[g].last \in Int /\ gen[g].sequence \in Nat
      BY <1>5 DEF Generator
    <3>3. <<s, f.worker>> = g /\ f.time = now /\ f.sequence = n
      BY <1>1, <2>3, <3>1 DEF Same
    <3> QED
      BY <1>1, <1>2, <2>4, <3>2, <3>3 DEF Behind
  <2>5. CASE runs[s] # 0 /\ f.time < booted[s]
    <3>1. Clocked(s)
      BY <1>2, <1>18, <2>5 DEF Trusted, IdInv
    <3>2. f.time \in Nat /\ booted[s] \in Nat /\ booted[s] <= now
      BY <1>1, <1>2, <2>2, <3>1 DEF Parts, Clocked, IdInv, IdTypeOK
    <3> QED
      BY <1>2, <2>1, <2>3, <2>5, <3>2 DEF Same
  <2> QED
    BY <2>2, <2>4, <2>5
<1>19. Distinct'
  <2>1. SUFFICES ASSUME NEW r \in Server, Trusted(r)',
                        NEW i \in DOMAIN issued'[r], NEW j \in DOMAIN issued'[r],
                        Same(issued'[r][i], issued'[r][j])
                 PROVE  i = j
    BY DEF Distinct, Same
  <2>2. CASE i \in DOMAIN issued[r] /\ j \in DOMAIN issued[r]
    <3>1. issued'[r][i] = issued[r][i] /\ issued'[r][j] = issued[r][j]
      BY <1>8, <1>9, <2>2
    <3>2. Trusted(r)
      BY <2>1 DEF Trusted
    <3> QED
      BY <2>1, <2>2, <3>1, <3>2 DEF IdInv, Distinct
  <2>3. CASE i \notin DOMAIN issued[r] \/ j \notin DOMAIN issued[r]
    <3>1. r = s
      BY <1>8, <2>3
    <3>2. Same(e, issued[s][i]) => Same(issued[s][i], e)
      BY DEF Same
    <3>3. Same(e, issued[s][j]) => Same(issued[s][j], e)
      BY DEF Same
    <3> QED
      BY <1>9, <1>18, <2>1, <2>3, <3>1, <3>2, <3>3
  <2> QED
    BY <2>2, <2>3
<1> QED
  BY <1>10, <1>12, <1>13, <1>17, <1>19 DEF IdInv

(* A call that does not end a wait keeps the others waiting.                *)
LEMMA SpinningKept ==
  ASSUME NEW t \in Thread, pc[t] # "spin",
         \A u \in Thread : u # t => pc'[u] = pc[u] /\ mine'[u] = mine[u]
  PROVE  \A g \in Thread : Spinning(g) => Spinning(g)'
<1>1. ASSUME NEW g \in Thread, NEW m \in ThreadId,
             pc[<<g[1], m>>] = "spin", mine[<<g[1], m>>] = g[2]
      PROVE  pc'[<<g[1], m>>] = "spin" /\ mine'[<<g[1], m>>] = g[2]
  <2>1. <<g[1], m>> \in Thread /\ <<g[1], m>> # t
    BY <1>1, ThreadParts DEF Thread
  <2> QED
    BY <1>1, <2>1
<1> QED
  BY <1>1 DEF Spinning

LEMMA NewGenerator ==
  ASSUME NEW b, b = [NoGenerator EXCEPT !.built = TRUE]
  PROVE  b \in Generator /\ b.built /\ b.last = -1
<1>1. NoGenerator \in Generator /\ NoGenerator.last = -1
  BY IdAssumption DEF NoGenerator, Generator
<1>2. ASSUME NEW h \in Generator
      PROVE  LET k == [h EXCEPT !.built = TRUE] IN
             k \in Generator /\ k.built /\ k.last = h.last
  BY DEF Generator
<1> QED
  BY <1>1, <1>2

-----------------------------------------------------------------------------
(* Finding or building the generator.                                       *)
LEMMA LookInv == ASSUME IdInv, NEW t \in Thread, Look(t) PROVE IdInv'
<1>1. \A g \in Thread : Spinning(g) => Spinning(g)'
  BY SpinningKept DEF Look, Goto, IdInv, IdTypeOK
<1>2. Accounted' /\ Distinct'
  BY <1>1, Quiet DEF Look, Trusted
<1>3. IdTypeOK'
  BY DEF Look, Goto, IdInv, IdTypeOK
<1>4. Holding'
  BY DEF Look, Goto, IdInv, IdTypeOK, Holding
<1>5. \A s \in Server : back'[s] = 0 => Clocked(s)'
  BY DEF Look, IdInv, Clocked
<1> QED
  BY <1>2, <1>3, <1>4, <1>5 DEF IdInv

LEMMA ConstructInv == ASSUME IdInv, NEW t \in Thread, Construct(t) PROVE IdInv'
<1>1. CASE /\ t[2] < WorkerSize
           /\ Goto(t, "construct", "assign")
           /\ gen' = [gen EXCEPT ![t] = [NoGenerator EXCEPT !.built = TRUE]]
           /\ ticker' = IF ticker[t[1]] = NoThread THEN [ticker EXCEPT ![t[1]] = t[2]] ELSE ticker
  <2>1. UNCHANGED <<clock, booted, runs, back, field, mine, issued>>
    BY DEF Construct
  <2>2. gen \in [Thread -> Generator] /\ t[1] \in Server /\ t[2] \in ThreadId
    BY ThreadParts DEF IdInv, IdTypeOK
  <2>3. PICK b : b = [NoGenerator EXCEPT !.built = TRUE]
    OBVIOUS
  <2>4. /\ gen' = [gen EXCEPT ![t] = b]
        /\ b \in Generator /\ b.built /\ b.last = -1
    BY <1>1, <2>3, NewGenerator
  <2>5. gen'[t] = b /\ \A g \in Thread : g # t => gen'[g] = gen[g]
    BY <2>2, <2>4
  <2>6. ~gen[t].built
    BY <1>1 DEF Goto, IdInv, Holding
  <2>7. \A g \in Thread : Spinning(g) => Spinning(g)'
    BY <1>1, <2>1, SpinningKept DEF Goto, IdInv, IdTypeOK
  <2>8. Accounted' /\ Distinct'
    BY <2>1, <2>5, <2>6, <2>7, Quiet DEF Trusted
  <2>9. IdTypeOK'
    <3>1. gen' \in [Thread -> Generator]
      BY <2>2, <2>4
    <3>2. ticker' \in [Server -> ThreadId \cup {NoThread}]
      BY <1>1, <2>2 DEF IdInv, IdTypeOK
    <3>3. pc' \in [Thread -> {"idle", "construct", "assign", "fetch", "call", "spin"}]
      BY <1>1 DEF Goto, IdInv, IdTypeOK
    <3> QED
      BY <2>1, <3>1, <3>2, <3>3 DEF IdInv, IdTypeOK
  <2>10. Holding'
    <3>1. \A g \in Thread : gen[g].built => gen'[g].built
      BY <2>4, <2>5
    <3>2. ASSUME NEW u \in Thread
          PROVE  /\ pc'[u] \in {"call", "spin"} =>
                      mine'[u] # NoThread /\ gen'[<<u[1], mine'[u]>>].built
                 /\ field'[u[1]] # NoThread => gen'[<<u[1], field'[u[1]]>>].built
      <4>1. pc'[u] \in {"call", "spin"} => pc[u] \in {"call", "spin"}
        BY <1>1 DEF Goto, IdInv, IdTypeOK
      <4>2. pc[u] \in {"call", "spin"} => <<u[1], mine[u]>> \in Thread
        BY InUse
      <4>3. field[u[1]] # NoThread => <<u[1], field[u[1]]>> \in Thread
        BY ThreadParts DEF IdInv, IdTypeOK, Thread
      <4> QED
        BY <2>1, <3>1, <4>1, <4>2, <4>3 DEF IdInv, Holding
    <3>3. ASSUME NEW u \in Thread
          PROVE  /\ pc'[u] = "construct" => ~gen'[u].built
                 /\ pc'[u] = "assign" => gen'[u].built
                 /\ pc'[u] = "fetch" => field'[u[1]] # NoThread
                 /\ gen'[u].built => u[2] < WorkerSize
                 /\ gen'[u].built => field'[u[1]] # NoThread \/ pc'[u] = "assign"
      <4>1. pc'[u] = IF u = t THEN "assign" ELSE pc[u]
        BY <1>1 DEF Goto, IdInv, IdTypeOK
      <4>2. CASE u = t
        <5>1. gen'[u].built /\ pc'[u] = "assign"
          BY <2>4, <2>5, <4>1, <4>2
        <5> QED
          BY <1>1, <4>2, <5>1
      <4>3. CASE u # t
        <5>1. gen'[u] = gen[u] /\ pc'[u] = pc[u] /\ field'[u[1]] = field[u[1]]
          BY <2>1, <2>5, <4>1, <4>3
        <5> QED
          BY <5>1 DEF IdInv, Holding
      <4> QED
        BY <4>2, <4>3
    <3> QED
      BY <3>2, <3>3 DEF Holding
  <2>11. ASSUME NEW r \in Server, back'[r] = 0 PROVE Clocked(r)'
    <3>1. Clocked(r)
      BY <2>1, <2>11 DEF IdInv
    <3>2. \A m \in ThreadId : gen'[<<r, m>>].last \in {-1, gen[<<r, m>>].last}
      BY <2>4, <2>5 DEF Thread
    <3> QED
      BY <2>1, <3>1, <3>2 DEF Clocked
  <2> QED
    BY <2>8, <2>9, <2>10, <2>11 DEF IdInv
<1>2. CASE Goto(t, "construct", "idle") /\ UNCHANGED <<gen, ticker>>
  <2>1. UNCHANGED <<clock, booted, runs, back, field, gen, ticker, mine, issued>>
    BY <1>2 DEF Construct
  <2>2. \A g \in Thread : Spinning(g) => Spinning(g)'
    BY <1>2, <2>1, SpinningKept DEF Goto, IdInv, IdTypeOK
  <2>3. Accounted' /\ Distinct'
    BY <2>1, <2>2, Quiet DEF Trusted
  <2>4. IdTypeOK' /\ Holding'
    BY <1>2, <2>1 DEF Goto, IdInv, IdTypeOK, Holding
  <2>5. \A s \in Server : back'[s] = 0 => Clocked(s)'
    BY <2>1 DEF IdInv, Clocked
  <2> QED
    BY <2>3, <2>4, <2>5 DEF IdInv
<1> QED
  BY <1>1, <1>2 DEF Construct

LEMMA AssignInv == ASSUME IdInv, NEW t \in Thread, Assign(t) PROVE IdInv'
<1>1. \A g \in Thread : Spinning(g) => Spinning(g)'
  BY SpinningKept DEF Assign, Goto, IdInv, IdTypeOK
<1>2. Accounted' /\ Distinct'
  BY <1>1, Quiet DEF Assign, Trusted
<1>3. IdTypeOK'
  BY ThreadParts DEF Assign, Goto, IdInv, IdTypeOK
<1>4. Holding'
  <2>1. \A s \in Server : field'[s] = IF s = t[1] THEN t[2] ELSE field[s]
    BY DEF Assign, IdInv, IdTypeOK
  <2>2. gen[t].built /\ t = <<t[1], t[2]>> /\ t[2] # NoThread
    <3>1. pc[t] = "assign"
      BY DEF Assign, Goto
    <3>2. gen[t].built
      BY <3>1 DEF IdInv, Holding
    <3> QED
      BY <3>2, ThreadParts, IdAssumption
  <2>3. ASSUME NEW u \in Thread
        PROVE  field'[u[1]] # NoThread => gen[<<u[1], field'[u[1]]>>].built
    BY <2>1, <2>2, ThreadParts DEF IdInv, Holding
  <2>4. \A u \in Thread : field[u[1]] # NoThread => field'[u[1]] # NoThread
    BY <2>1, <2>2, ThreadParts
  <2>5. field'[t[1]] # NoThread
    BY <2>1, <2>2, ThreadParts
  <2>6. \A u \in Thread : pc'[u] = IF u = t THEN "fetch" ELSE pc[u]
    BY DEF Assign, Goto, IdInv, IdTypeOK
  <2> QED
    BY <2>3, <2>4, <2>5, <2>6, ZenonT(40) DEF Assign, IdInv, Holding
<1>5. \A s \in Server : back'[s] = 0 => Clocked(s)'
  BY DEF Assign, IdInv, Clocked
<1> QED
  BY <1>2, <1>3, <1>4, <1>5 DEF IdInv

LEMMA FetchInv == ASSUME IdInv, NEW t \in Thread, Fetch(t) PROVE IdInv'
<1>1. \A g \in Thread : Spinning(g) => Spinning(g)'
  BY SpinningKept DEF Fetch, Goto, IdInv, IdTypeOK
<1>2. Accounted' /\ Distinct'
  BY <1>1, Quiet DEF Fetch, Trusted
<1>3. IdTypeOK'
  BY ThreadParts DEF Fetch, Goto, IdInv, IdTypeOK
<1>4. Holding'
  BY DEF Fetch, Goto, IdInv, IdTypeOK, Holding
<1>5. \A s \in Server : back'[s] = 0 => Clocked(s)'
  BY DEF Fetch, IdInv, Clocked
<1> QED
  BY <1>2, <1>3, <1>4, <1>5 DEF IdInv

-----------------------------------------------------------------------------
(* nextId.                                                                  *)
LEMMA NextIdInv == ASSUME IdInv, NEW t \in Thread, NextId(t) PROVE IdInv'
<1>1. PICK g, n : g = <<t[1], mine[t]>> /\ n = Successor(gen[g].sequence)
  OBVIOUS
<1>2. /\ pc[t] = "call" /\ pc' = [pc EXCEPT ![t] = "idle"]
      /\ mine' = [mine EXCEPT ![t] = NoThread]
      /\ ~Spinning(g)
      /\ UNCHANGED <<clock, booted, runs, back, field, ticker>>
  BY <1>1 DEF NextId, Goto
<1>3. g \in Thread /\ gen[g] \in Generator
  BY <1>1, <1>2, InUse DEF IdInv, IdTypeOK
<1>4. CASE UNCHANGED <<gen, issued>>
  <2>1. \A h \in Thread : Spinning(h) => Spinning(h)'
    BY <1>2, SpinningKept DEF IdInv, IdTypeOK
  <2>2. Accounted' /\ Distinct'
    BY <1>2, <1>4, <2>1, Quiet DEF Trusted
  <2>3. IdTypeOK' /\ Holding'
    BY <1>2, <1>4 DEF IdInv, IdTypeOK, Holding
  <2>4. \A s \in Server : back'[s] = 0 => Clocked(s)'
    BY <1>2, <1>4 DEF IdInv, Clocked
  <2> QED
    BY <2>2, <2>3, <2>4 DEF IdInv
<1>5. CASE clock[t[1]] = gen[g].last /\ n # 0 /\ HandOut(g, clock[t[1]], n)
  <2>1. n \in 0..SequenceSize - 1 /\ n = gen[g].sequence + 1
    BY <1>1, <1>3, <1>5, SuccessorFacts DEF Generator
  <2> QED
    BY <1>1, <1>2, <1>5, <2>1, HandOutInv
<1>6. CASE clock[t[1]] > gen[g].last /\ HandOut(g, clock[t[1]], 0)
  <2>1. 0 \in 0..SequenceSize - 1
    BY IdAssumption
  <2> QED
    BY <1>1, <1>2, <1>6, <2>1, HandOutInv
<1> QED
  BY <1>1, <1>4, <1>5, <1>6 DEF NextId

LEMMA NextTimeMillisInv == ASSUME IdInv, NEW t \in Thread, NextTimeMillis(t) PROVE IdInv'
<1>1. /\ pc[t] = "spin" /\ pc' = [pc EXCEPT ![t] = "idle"]
      /\ mine' = [mine EXCEPT ![t] = NoThread]
      /\ clock[t[1]] > gen[<<t[1], mine[t]>>].last
      /\ HandOut(<<t[1], mine[t]>>, clock[t[1]], 0)
      /\ UNCHANGED <<clock, booted, runs, back, field, ticker>>
  BY DEF NextTimeMillis, Goto
<1>2. 0 \in 0..SequenceSize - 1
  BY IdAssumption
<1> QED
  BY <1>1, <1>2, HandOutInv

(* The generator starts over at 0, but its monitor stays held.              *)
LEMMA OverflowInv == ASSUME IdInv, NEW t \in Thread, Overflow(t) PROVE IdInv'
<1>1. PICK g : g = <<t[1], mine[t]>>
  OBVIOUS
<1>2. /\ pc[t] = "call" /\ pc' = [pc EXCEPT ![t] = "spin"]
      /\ gen' = [gen EXCEPT ![g].sequence = 0]
      /\ UNCHANGED <<clock, booted, runs, back, field, ticker, mine, issued>>
  BY <1>1 DEF Overflow, Goto
<1>3. /\ g \in Thread /\ g[1] = t[1] /\ g[2] = mine[t]
      /\ mine[t] \in ThreadId /\ gen[g].built
      /\ gen \in [Thread -> Generator]
  BY <1>1, <1>2, InUse DEF IdInv, IdTypeOK
<1>4. gen' \in [Thread -> Generator]
  BY <1>2, <1>3, IdAssumption DEF Generator
<1>5. \A h \in Thread : /\ gen'[h].built <=> gen[h].built
                        /\ gen'[h].last = gen[h].last
                        /\ h # g => gen'[h].sequence = gen[h].sequence
  BY <1>2, <1>3 DEF Generator
<1>6. Spinning(g)'
  <2>1. <<g[1], t[2]>> = t /\ t[2] \in ThreadId
    BY <1>3, ThreadParts
  <2>2. pc'[t] = "spin" /\ mine'[t] = g[2]
    BY <1>2, <1>3 DEF IdInv, IdTypeOK
  <2> QED
    BY <2>1, <2>2 DEF Spinning
<1>7. \A h \in Thread : Spinning(h) => Spinning(h)'
  BY <1>2, SpinningKept DEF IdInv, IdTypeOK
<1>8. ASSUME NEW s \in Server, Trusted(s)', NEW i \in DOMAIN issued'[s]
      PROVE  (Behind(s, issued[s][i]) \/ (runs[s] # 0 /\ issued[s][i].time < booted[s]))'
  <2>1. PICK e : e = issued[s][i]
    OBVIOUS
  <2>2. Behind(s, e) \/ (runs[s] # 0 /\ e.time < booted[s])
    BY <1>2, <1>8, <2>1 DEF IdInv, Accounted, Trusted
  <2>3. ASSUME Behind(s, e) PROVE Behind(s, e)'
    <3>1. <<s, e.worker>> \in Thread
      BY <2>3 DEF Behind, Thread
    <3> QED
      BY <1>5, <1>6, <1>7, <2>3, <3>1 DEF Behind
  <2> QED
    BY <1>2, <2>1, <2>2, <2>3 DEF Behind
<1>9. Accounted'
  BY <1>8 DEF Accounted
<1>10. Distinct'
  BY <1>2 DEF IdInv, Distinct, Same, Trusted
<1>11. IdTypeOK'
  BY <1>2, <1>4 DEF IdInv, IdTypeOK
<1>12. Holding'
  <2>1. ASSUME NEW u \in Thread
        PROVE  /\ pc'[u] \in {"call", "spin"} =>
                    mine'[u] # NoThread /\ gen'[<<u[1], mine'[u]>>].built
               /\ field'[u[1]] # NoThread => gen'[<<u[1], field'[u[1]]>>].built
    <3>1. pc'[u] \in {"call", "spin"} => pc[u] \in {"call", "spin"}
      BY <1>2 DEF IdInv, IdTypeOK
    <3>2. pc[u] \in {"call", "spin"} => <<u[1], mine[u]>> \in Thread
      BY InUse
    <3>3. field[u[1]] # NoThread => <<u[1], field[u[1]]>> \in Thread
      BY ThreadParts DEF IdInv, IdTypeOK, Thread
    <3> QED
      BY <1>2, <1>5, <3>1, <3>2, <3>3 DEF IdInv, Holding
  <2>2. ASSUME NEW u \in Thread
        PROVE  /\ pc'[u] = "construct" => ~gen'[u].built
               /\ pc'[u] = "assign" => gen'[u].built
               /\ pc'[u] = "fetch" => field'[u[1]] # NoThread
               /\ gen'[u].built => u[2] < WorkerSize
               /\ gen'[u].built => field'[u[1]] # NoThread \/ pc'[u] = "assign"
    <3>1. pc'[u] = IF u = t THEN "spin" ELSE pc[u]
      BY <1>2 DEF IdInv, IdTypeOK
    <3>2. field'[u[1]] = field[u[1]] /\ (gen'[u].built <=> gen[u].built)
      BY <1>2, <1>5
    <3>3. /\ pc[u] = "construct" => ~gen[u].built
          /\ pc[u] = "assign" => gen[u].built
          /\ pc[u] = "fetch" => field[u[1]] # NoThread
          /\ gen[u].built => u[2] < WorkerSize
          /\ gen[u].built => field[u[1]] # NoThread \/ pc[u] = "assign"
      BY DEF IdInv, Holding
    <3> QED
      BY <1>2, <3>1, <3>2, <3>3
  <2> QED
    BY <2>1, <2>2 DEF Holding
<1>13. ASSUME NEW s \in Server, back'[s] = 0 PROVE Clocked(s)'
  <2>1. Clocked(s) /\ \A m \in ThreadId : gen'[<<s, m>>].last = gen[<<s, m>>].last
    BY <1>2, <1>5, <1>13 DEF IdInv, Thread
  <2> QED
    BY <1>2, <2>1 DEF Clocked
<1> QED
  BY <1>9, <1>10, <1>11, <1>12, <1>13 DEF IdInv

-----------------------------------------------------------------------------
(* The background loop, the clock and the server.                           *)
LEMMA ChangeRandomInv == ASSUME IdInv, NEW s \in Server, ChangeRandom(s) PROVE IdInv'
<1>1. PICK r \in 0..RandomSize - 2 : gen' = [gen EXCEPT ![<<s, ticker[s]>>].random = r]
  BY DEF ChangeRandom
<1>2. UNCHANGED <<clock, booted, runs, back, field, ticker, pc, mine, issued>>
  BY DEF ChangeRandom
<1>3. r \in 0..RandomSize - 1 /\ gen \in [Thread -> Generator]
  BY IdAssumption DEF IdInv, IdTypeOK
<1>4. gen' \in [Thread -> Generator]
  BY <1>1, <1>3 DEF Generator
<1>5. \A g \in Thread : /\ gen'[g].built <=> gen[g].built
                        /\ gen'[g].last = gen[g].last
                        /\ gen'[g].sequence = gen[g].sequence
  BY <1>1, <1>3 DEF Generator
<1>6. \A g \in Thread : Spinning(g) => Spinning(g)'
  BY <1>2 DEF Spinning
<1>7. Accounted' /\ Distinct'
  BY <1>2, <1>5, <1>6, Quiet DEF Trusted
<1>8. IdTypeOK'
  BY <1>2, <1>4 DEF IdInv, IdTypeOK
<1>9. Holding'
  <2>1. ASSUME NEW u \in Thread
        PROVE  /\ pc[u] \in {"call", "spin"} =>
                    mine[u] # NoThread /\ gen'[<<u[1], mine[u]>>].built
               /\ field[u[1]] # NoThread => gen'[<<u[1], field[u[1]]>>].built
    <3>1. pc[u] \in {"call", "spin"} => <<u[1], mine[u]>> \in Thread
      BY InUse
    <3>2. field[u[1]] # NoThread => <<u[1], field[u[1]]>> \in Thread
      BY ThreadParts DEF IdInv, IdTypeOK, Thread
    <3> QED
      BY <1>5, <3>1, <3>2 DEF IdInv, Holding
  <2> QED
    BY <1>2, <1>5, <2>1 DEF IdInv, Holding
<1>10. ASSUME NEW u \in Server, back'[u] = 0 PROVE Clocked(u)'
  <2>1. Clocked(u) /\ \A m \in ThreadId : gen'[<<u, m>>].last = gen[<<u, m>>].last
    BY <1>2, <1>5, <1>10 DEF IdInv, Thread
  <2> QED
    BY <1>2, <2>1 DEF Clocked
<1> QED
  BY <1>7, <1>8, <1>9, <1>10 DEF IdInv

LEMMA TickInv == ASSUME IdInv, NEW s \in Server, Tick(s) PROVE IdInv'
<1>1. UNCHANGED <<booted, runs, back, field, gen, ticker, pc, mine, issued>>
  BY DEF Tick
<1>2. \A u \in Server : clock'[u] \in Nat /\ clock[u] \in Nat /\ clock[u] <= clock'[u]
  BY DEF Tick, IdInv, IdTypeOK
<1>3. \A g \in Thread : Spinning(g) => Spinning(g)'
  BY <1>1 DEF Spinning
<1>4. Accounted' /\ Distinct'
  BY <1>1, <1>3, Quiet DEF Trusted
<1>5. IdTypeOK' /\ Holding'
  BY <1>1 DEF Tick, IdInv, IdTypeOK, Holding
<1>6. ASSUME NEW u \in Server, back'[u] = 0 PROVE Clocked(u)'
  <2>1. Clocked(u)
    BY <1>1, <1>6 DEF IdInv
  <2>2. booted[u] \in Nat
    BY DEF IdInv, IdTypeOK
  <2>3. \A m \in ThreadId : gen[<<u, m>>].last \in Int
    BY DEF IdInv, IdTypeOK, Thread, Generator
  <2> QED
    BY <1>1, <1>2, <2>1, <2>2, <2>3 DEF Clocked
<1> QED
  BY <1>4, <1>5, <1>6 DEF IdInv

LEMMA SetBackInv == ASSUME IdInv, NEW s \in Server, SetBack(s) PROVE IdInv'
<1>1. UNCHANGED <<booted, runs, field, gen, ticker, pc, mine, issued>>
  BY DEF SetBack
<1>2. /\ back'[s] # 0
      /\ \A u \in Server : u # s => back'[u] = back[u] /\ clock'[u] = clock[u]
  BY DEF SetBack, IdInv, IdTypeOK
<1>3. \A u \in Server : Trusted(u)' => Trusted(u)
  BY <1>1, <1>2 DEF Trusted
<1>4. \A g \in Thread : Spinning(g) => Spinning(g)'
  BY <1>1 DEF Spinning
<1>5. Accounted' /\ Distinct'
  BY <1>1, <1>3, <1>4, Quiet
<1>6. IdTypeOK' /\ Holding'
  BY <1>1, SMTT(40) DEF SetBack, IdInv, IdTypeOK, Holding
<1>7. \A u \in Server : back'[u] = 0 => Clocked(u)'
  BY <1>1, <1>2 DEF IdInv, Clocked
<1> QED
  BY <1>5, <1>6, <1>7 DEF IdInv

(* With a clock that was never set back all ids are older than the restart. *)
LEMMA RestartInv == ASSUME IdInv, NEW s \in Server, Restart(s) PROVE IdInv'
<1>1. /\ UNCHANGED <<back, issued>>
      /\ runs' = [runs EXCEPT ![s] = @ + 1]
      /\ clock' = [clock EXCEPT ![s] = @ + 1]
      /\ booted' = [booted EXCEPT ![s] = clock[s] + 1]
      /\ field' = [field EXCEPT ![s] = NoThread]
      /\ gen' = [t \in Thread |-> IF t[1] = s THEN NoGenerator ELSE gen[t]]
      /\ pc' = [t \in Thread |-> IF t[1] = s THEN "idle" ELSE pc[t]]
      /\ mine' = [t \in Thread |-> IF t[1] = s THEN NoThread ELSE mine[t]]
  BY DEF Restart
<1>2. /\ clock[s] \in Nat /\ clock'[s] = clock[s] + 1
      /\ booted'[s] = clock[s] + 1
      /\ runs'[s] # 0 /\ field'[s] = NoThread
      /\ \A u \in Server : u # s => /\ clock'[u] = clock[u] /\ booted'[u] = booted[u]
                                    /\ runs'[u] = runs[u] /\ field'[u] = field[u]
  BY <1>1 DEF IdInv, IdTypeOK
<1>3. NoGenerator \in Generator /\ ~NoGenerator.built /\ NoGenerator.last = -1
  BY IdAssumption DEF NoGenerator, Generator
<1>4. IdTypeOK'
  <2>1. gen' \in [Thread -> Generator]
    BY <1>1, <1>3 DEF IdInv, IdTypeOK
  <2>2. /\ pc' \in [Thread -> {"idle", "construct", "assign", "fetch", "call", "spin"}]
        /\ mine' \in [Thread -> ThreadId \cup {NoThread}]
    BY <1>1 DEF IdInv, IdTypeOK
  <2>3. ticker' \in [Server -> ThreadId \cup {NoThread}]
    BY DEF Restart, IdInv, IdTypeOK
  <2>4. /\ clock' \in [Server -> Nat] /\ booted' \in [Server -> Nat]
        /\ runs' \in [Server -> Nat] /\ field' \in [Server -> ThreadId \cup {NoThread}]
    BY <1>1 DEF IdInv, IdTypeOK
  <2> QED
    BY <1>1, <2>1, <2>2, <2>3, <2>4 DEF IdInv, IdTypeOK
<1>5. Holding'
  <2>1. SUFFICES ASSUME NEW u \in Thread
                 PROVE  /\ pc'[u] \in {"call", "spin"} =>
                             mine'[u] # NoThread /\ gen'[<<u[1], mine'[u]>>].built
                        /\ pc'[u] = "construct" => ~gen'[u].built
                        /\ pc'[u] = "assign" => gen'[u].built
                        /\ pc'[u] = "fetch" => field'[u[1]] # NoThread
                        /\ field'[u[1]] # NoThread => gen'[<<u[1], field'[u[1]]>>].built
                        /\ gen'[u].built => u[2] < WorkerSize
                        /\ gen'[u].built => field'[u[1]] # NoThread \/ pc'[u] = "assign"
    BY DEF Holding
  <2>2. CASE u[1] = s
    <3>1. pc'[u] = "idle" /\ ~gen'[u].built /\ field'[u[1]] = NoThread
      BY <1>1, <1>2, <1>3, <2>2
    <3> QED
      BY <3>1
  <2>3. CASE u[1] # s
    <3>1. /\ pc'[u] = pc[u] /\ mine'[u] = mine[u] /\ gen'[u] = gen[u]
          /\ field'[u[1]] = field[u[1]]
      BY <1>1, <1>2, <2>3, ThreadParts
    <3>2. \A m \in ThreadId : gen'[<<u[1], m>>] = gen[<<u[1], m>>]
      BY <1>1, <2>3, ThreadParts DEF Thread
    <3>3. field[u[1]] # NoThread => field[u[1]] \in ThreadId
      BY ThreadParts DEF IdInv, IdTypeOK
    <3>4. pc[u] \in {"call", "spin"} => mine[u] \in ThreadId
      BY InUse
    <3> QED
      BY <3>1, <3>2, <3>3, <3>4 DEF IdInv, Holding
  <2> QED
    BY <2>2, <2>3
<1>6. ASSUME NEW u \in Server, back'[u] = 0 PROVE Clocked(u)'
  <2>1. CASE u = s
    BY <1>1, <1>2, <1>3, <2>1 DEF Clocked, Thread
  <2>2. CASE u # s
    <3>1. Clocked(u) /\ \A m \in ThreadId : gen'[<<u, m>>] = gen[<<u, m>>]
      BY <1>1, <1>6, <2>2 DEF IdInv, Thread
    <3> QED
      BY <1>2, <2>2, <3>1 DEF Clocked
  <2> QED
    BY <2>1, <2>2
<1>7. \A u \in Server : Trusted(u)' => Trusted(u)
  BY <1>1, <1>2 DEF Trusted
<1>8. ASSUME NEW u \in Server, Trusted(u)', NEW i \in DOMAIN issued'[u]
      PROVE  (Behind(u, issued[u][i]) \/ (runs[u] # 0 /\ issued[u][i].time < booted[u]))'
  <2>1. PICK e : e = issued[u][i]
    OBVIOUS
  <2>2. /\ Behind(u, e) \/ (runs[u] # 0 /\ e.time < booted[u])
        /\ e \in Parts
    BY <1>1, <1>7, <1>8, <2>1 DEF IdInv, IdTypeOK, Accounted
  <2>3. CASE u = s
    <3>1. Clocked(u)
      BY <1>1, <1>2, <1>8, <2>3 DEF Trusted, IdInv
    <3>2. e.time \in Nat /\ booted[u] \in Nat
      BY <2>2 DEF Parts, IdInv, IdTypeOK
    <3>3. e.time <= clock[u]
      <4>1. CASE Behind(u, e)
        <5>1. /\ e.worker \in ThreadId /\ gen[<<u, e.worker>>].last \in Int
              /\ e.time <= gen[<<u, e.worker>>].last
          BY <3>2, <4>1, SMTT(40) DEF Behind, IdInv, IdTypeOK, Thread, Generator
        <5>2. gen[<<u, e.worker>>].last = -1 \/ gen[<<u, e.worker>>].last \in booted[u]..clock[u]
          BY <3>1, <5>1 DEF Clocked
        <5> QED
          BY <1>2, <2>3, <3>2, <5>1, <5>2
      <4>2. CASE runs[u] # 0 /\ e.time < booted[u]
        BY <1>2, <2>3, <3>1, <3>2, <4>2 DEF Clocked
      <4> QED
        BY <2>2, <4>1, <4>2
    <3> QED
      BY <1>1, <1>2, <2>1, <2>3, <3>2, <3>3
  <2>4. CASE u # s
    <3>1. ASSUME Behind(u, e) PROVE Behind(u, e)'
      <4>1. /\ <<u, e.worker>> \in Thread
            /\ \A m \in ThreadId :
                 /\ gen'[<<u, m>>] = gen[<<u, m>>]
                 /\ pc'[<<u, m>>] = pc[<<u, m>>]
                 /\ mine'[<<u, m>>] = mine[<<u, m>>]
        BY <1>1, <2>4, <3>1 DEF Behind, Thread
      <4>2. Spinning(<<u, e.worker>>) => Spinning(<<u, e.worker>>)'
        BY <4>1 DEF Spinning
      <4> QED
        BY <3>1, <4>1, <4>2 DEF Behind
    <3> QED
      BY <1>1, <1>2, <2>1, <2>2, <2>4, <3>1
  <2> QED
    BY <2>3, <2>4
<1>9. Accounted'
  BY <1>8 DEF Accounted
<1>10. Distinct'
  BY <1>1, <1>7 DEF IdInv, Distinct, Same
<1> QED
  BY <1>4, <1>5, <1>6, <1>9, <1>10 DEF IdInv

-----------------------------------------------------------------------------
LEMMA IdInit == Init => IdInv
<1> SUFFICES ASSUME Init PROVE IdInv
  OBVIOUS
<1>1. NoGenerator \in Generator /\ ~NoGenerator.built /\ NoGenerator.last = -1
  BY IdAssumption DEF NoGenerator, Generator
<1>2. IdTypeOK
  BY <1>1 DEF Init, IdTypeOK
<1>3. Holding
  BY <1>1, ThreadParts DEF Init, Holding
<1>4. ASSUME NEW s \in Server PROVE Clocked(s)
  <2>1. booted[s] <= clock[s]
    BY DEF Init
  <2>2. \A n \in ThreadId : gen[<<s, n>>].last = -1
    BY <1>1 DEF Init, Thread
  <2> QED
    BY <2>1, <2>2 DEF Clocked
<1>5. ASSUME NEW s \in Server PROVE DOMAIN issued[s] = {}
  <2>1. issued[s] = << >>
    BY DEF Init
  <2> QED
    BY <2>1
<1>6. Accounted /\ Distinct
  BY <1>5 DEF Accounted, Distinct
<1> QED
  BY <1>2, <1>3, <1>4, <1>6 DEF IdInv

LEMMA IdNext == IdInv /\ [Next]_vars => IdInv'
<1> SUFFICES ASSUME IdInv, [Next]_vars PROVE IdInv'
  OBVIOUS
<1>1. ASSUME NEW t \in Thread, Call(t) PROVE IdInv'
  BY <1>1, LookInv, ConstructInv, AssignInv, FetchInv, NextIdInv, OverflowInv,
     NextTimeMillisInv DEF Call
<1>2. ASSUME NEW s \in Server, ChangeRandom(s) \/ Tick(s) \/ SetBack(s) \/ Restart(s)
      PROVE  IdInv'
  BY <1>2, ChangeRandomInv, TickInv, SetBackInv, RestartInv
<1>3. CASE UNCHANGED vars
  <2>1. \A g \in Thread : Spinning(g) => Spinning(g)'
    BY <1>3 DEF vars, Spinning
  <2>2. Accounted' /\ Distinct'
    BY <1>3, <2>1, Quiet DEF vars, Trusted
  <2>3. IdTypeOK' /\ Holding' /\ \A s \in Server : back'[s] = 0 => Clocked(s)'
    BY <1>3 DEF vars, IdInv, IdTypeOK, Holding, Clocked
  <2> QED
    BY <2>2, <2>3 DEF IdInv
<1> QED
  BY <1>1, <1>2, <1>3 DEF Next

(* The invariant holds in every state, for any number of servers, threads,  *)
(* restarts and changes of the clock, and any widths of the id's fields.    *)
THEOREM IdInvariance == Spec => []IdInv
BY IdInit, IdNext, PTL DEF Spec

(* Every part of an id stays within its bits.                               *)
THEOREM IdTypeCorrect == Spec => []IdTypeOK
<1>1. IdInv => IdTypeOK
  BY DEF IdInv
<1> QED
  BY <1>1, IdInvariance, PTL

(* A server that is not both restarted and set back hands out no id twice   *)
(* (SnowflakeIdGenerator.nextId).                                           *)
THEOREM IdsAreUnique == Spec => []UniqueIds
<1>1. ASSUME IdInv PROVE UniqueIds
  <2>1. SUFFICES ASSUME NEW s \in Server, back[s] = 0 \/ runs[s] = 0,
                        NEW i \in DOMAIN issued[s], NEW j \in DOMAIN issued[s],
                        Pack(issued[s][i]) = Pack(issued[s][j])
                 PROVE  i = j
    BY DEF UniqueIds
  <2>2. issued[s][i] \in Parts /\ issued[s][j] \in Parts
    BY <1>1 DEF IdInv, IdTypeOK
  <2>3. issued[s][i] = issued[s][j]
    BY <2>1, <2>2, PackInjective
  <2> QED
    BY <1>1, <2>1, <2>3 DEF IdInv, Distinct, Same, Trusted
<1> QED
  BY <1>1, IdInvariance, PTL
=============================================================================
