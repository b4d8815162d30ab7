----------------------------- MODULE IdGenerators -----------------------------
(***************************************************************************)
(* WorkflowIdGenerator and SnowflakeIdGenerator: where the ids of          *)
(* instances, executions and tasks come from.                              *)
(*                                                                         *)
(* A server's threads share one WorkflowIdGenerator.  It builds its        *)
(* generator at the first call, without a lock, and gives it the number of *)
(* the calling thread as worker id; threads that find the field empty at   *)
(* the same time build one each.  An id is the clock's millisecond, some   *)
(* random bits that a background thread changes, the worker id and a       *)
(* sequence within the millisecond.                                        *)
(*                                                                         *)
(* A generator is named by the thread that built it.  nextId holds the     *)
(* generator's monitor and reads the clock once unless the sequence        *)
(* overflows, so that a call without overflow is one action.  The field is *)
(* not volatile; that the generator's final worker id makes the virtual    *)
(* machine finish the constructor's writes before the reference is         *)
(* published is relied upon.                                               *)
(***************************************************************************)
EXTENDS Integers, Sequences

CONSTANTS
  Server,        \* the servers that share the database
  ThreadId,      \* the numbers a server gives its threads
  SequenceSize,  \* 2^sequenceBits
  WorkerSize,    \* 2^workerIdBits
  RandomSize,    \* 2^randomBits
  MaxClock,      \* bound: the clock's last millisecond
  MaxRuns,       \* bound: restarts of a server
  MaxBack,       \* bound: times a server's clock is set back
  MaxIds,        \* bound: ids handed out by a server when a call begins
  NoThread       \* no generator

ASSUME IdAssumption ==
  /\ ThreadId \subseteq Nat
  /\ SequenceSize \in Nat \ {0}
  /\ WorkerSize \in Nat \ {0}
  /\ RandomSize \in Nat \ {0, 1}
  /\ MaxClock \in Nat /\ MaxRuns \in Nat /\ MaxBack \in Nat /\ MaxIds \in Nat
  /\ NoThread \notin ThreadId

VARIABLES
  clock,    \* each server's clock
  booted,   \* its clock when the server was started
  runs,     \* its restarts so far
  back,     \* the times its clock was set back so far
  field,    \* WorkflowIdGenerator.idGenerator: which generator
  gen,      \* the generators
  ticker,   \* the generator whose loop runs on the only background thread
  pc,       \* what each thread does next
  mine,     \* the generator the thread calls
  issued    \* the ids each server has handed out

vars == <<clock, booted, runs, back, field, gen, ticker, pc, mine, issued>>

Thread == Server \X ThreadId
NoGenerator == [built |-> FALSE, last |-> -1, sequence |-> 0, random |-> 0]
Generator == [built : BOOLEAN, last : Int, sequence : 0..SequenceSize - 1,
              random : 0..RandomSize - 1]
Parts == [time : Nat, random : 0..RandomSize - 1, worker : 0..WorkerSize - 1,
          sequence : 0..SequenceSize - 1]

Init ==
  /\ clock = [s \in Server |-> 0]
  /\ booted = [s \in Server |-> 0]
  /\ runs = [s \in Server |-> 0]
  /\ back = [s \in Server |-> 0]
  /\ field = [s \in Server |-> NoThread]
  /\ gen = [t \in Thread |-> NoGenerator]
  /\ ticker = [s \in Server |-> NoThread]
  /\ pc = [t \in Thread |-> "idle"]
  /\ mine = [t \in Thread |-> NoThread]
  /\ issued = [s \in Server |-> << >>]

-----------------------------------------------------------------------------
Goto(t, from, to) == pc[t] = from /\ pc' = [pc EXCEPT ![t] = to]

(* getIdGenerator: look whether the field is set ...                        *)
Look(t) ==
  /\ Goto(t, "idle", IF field[t[1]] = NoThread THEN "construct" ELSE "fetch")
  /\ UNCHANGED <<clock, booted, runs, back, field, gen, ticker, mine, issued>>

(* ... and if not, build a generator.  The constructor refuses a worker id  *)
(* that is too large; its background loop never ends, so that only the      *)
(* first one ever submitted runs.                                           *)
Construct(t) ==
  LET s == t[1] IN
  /\ \/ /\ t[2] < WorkerSize
        /\ Goto(t, "construct", "assign")
        /\ gen' = [gen EXCEPT ![t] = [NoGenerator EXCEPT !.built = TRUE]]
        /\ ticker' = IF ticker[s] = NoThread THEN [ticker EXCEPT ![s] = t[2]] ELSE ticker
     \/ /\ t[2] >= WorkerSize
        /\ Goto(t, "construct", "idle")
        /\ UNCHANGED <<gen, ticker>>
  /\ UNCHANGED <<clock, booted, runs, back, field, mine, issued>>

Assign(t) ==
  /\ Goto(t, "assign", "fetch")
  /\ field' = [field EXCEPT ![t[1]] = t[2]]
  /\ UNCHANGED <<clock, booted, runs, back, gen, ticker, mine, issued>>

(* the field is read again: another thread may have replaced the generator  *)
Fetch(t) ==
  /\ Goto(t, "fetch", "call")
  /\ mine' = [mine EXCEPT ![t] = field[t[1]]]
  /\ UNCHANGED <<clock, booted, runs, back, field, gen, ticker, issued>>

-----------------------------------------------------------------------------
Spinning(g) == \E n \in ThreadId : pc[<<g[1], n>>] = "spin" /\ mine[<<g[1], n>>] = g[2]

Bounded(s) == clock[s] < MaxClock /\ Len(issued[s]) < MaxIds

Successor(n) == (n + 1) % SequenceSize

(* generator g hands out its id for time now and sequence n                 *)
HandOut(g, now, n) ==
  /\ gen' = [gen EXCEPT ![g].last = now, ![g].sequence = n]
  /\ issued' = [issued EXCEPT ![g[1]] =
       Append(@, [time |-> now, random |-> gen[g].random, worker |-> g[2], sequence |-> n])]

(* Mutant: an overflow of the sequence does not wait for the clock.         *)
NextIdNoWait(t) ==
  LET g == <<t[1], mine[t]>>
      now == clock[t[1]]
  IN /\ Goto(t, "call", "idle")
     /\ Bounded(t[1])
     /\ ~Spinning(g)
     /\ \/ now < gen[g].last /\ UNCHANGED <<gen, issued>>
        \/ now = gen[g].last /\ HandOut(g, now, Successor(gen[g].sequence))
        \/ now > gen[g].last /\ HandOut(g, now, 0)
     /\ mine' = [mine EXCEPT ![t] = NoThread]
     /\ UNCHANGED <<clock, booted, runs, back, field, ticker>>

(* nextId: a clock that is behind makes it throw; in the same millisecond   *)
(* the sequence is counted up, and when it overflows the call waits         *)
NextId(t) ==
  LET g == <<t[1], mine[t]>>
      now == clock[t[1]]
      n == Successor(gen[g].sequence)
  IN /\ Goto(t, "call", "idle")
     /\ Bounded(t[1])
     /\ ~Spinning(g)
     /\ \/ now < gen[g].last /\ UNCHANGED <<gen, issued>>
        \/ now = gen[g].last /\ n # 0 /\ HandOut(g, now, n)
        \/ now > gen[g].last /\ HandOut(g, now, 0)
     /\ mine' = [mine EXCEPT ![t] = NoThread]
     /\ UNCHANGED <<clock, booted, runs, back, field, ticker>>

Overflow(t) ==
  LET g == <<t[1], mine[t]>>
      now == clock[t[1]]
  IN /\ Goto(t, "call", "spin")
     /\ Bounded(t[1])
     /\ ~Spinning(g)
     /\ now = gen[g].last
     /\ Successor(gen[g].sequence) = 0
     /\ gen' = [gen EXCEPT ![g].sequence = 0]
     /\ UNCHANGED <<clock, booted, runs, back, field, ticker, mine, issued>>

(* Mutant: the loop waits for the millisecond that follows the last one.    *)
NextTimeMillisExactly(t) ==
  LET g == <<t[1], mine[t]>> IN
  /\ Goto(t, "spin", "idle")
  /\ clock[t[1]] = gen[g].last + 1
  /\ HandOut(g, clock[t[1]], 0)
  /\ mine' = [mine EXCEPT ![t] = NoThread]
  /\ UNCHANGED <<clock, booted, runs, back, field, ticker>>

(* nextTimeMillis: the loop ends when the clock has passed the last id      *)
NextTimeMillis(t) ==
  LET g == <<t[1], mine[t]>> IN
  /\ Goto(t, "spin", "idle")
  /\ clock[t[1]] > gen[g].last
  /\ HandOut(g, clock[t[1]], 0)
  /\ mine' = [mine EXCEPT ![t] = NoThread]
  /\ UNCHANGED <<clock, booted, runs, back, field, ticker>>

-----------------------------------------------------------------------------
(* the background loop: nextInt(maxRandomBit) leaves the largest value out  *)
ChangeRandom(s) ==
  /\ ticker[s] # NoThread
  /\ \E r \in 0..RandomSize - 2 : gen' = [gen EXCEPT ![<<s, ticker[s]>>].random = r]
  /\ UNCHANGED <<clock, booted, runs, back, field, ticker, pc, mine, issued>>

Tick(s) ==
  /\ clock[s] < MaxClock
  /\ clock' = [clock EXCEPT ![s] = @ + 1]
  /\ UNCHANGED <<booted, runs, back, field, gen, ticker, pc, mine, issued>>

SetBack(s) ==
  /\ back[s] < MaxBack
  /\ \E c \in 0..clock[s] - 1 : clock' = [clock EXCEPT ![s] = c]
  /\ back' = [back EXCEPT ![s] = @ + 1]
  /\ UNCHANGED <<booted, runs, field, gen, ticker, pc, mine, issued>>

(* the server is restarted, which takes some time; thread numbers start over*)
Restart(s) ==
  /\ runs[s] < MaxRuns
  /\ clock[s] < MaxClock
  /\ runs' = [runs EXCEPT ![s] = @ + 1]
  /\ clock' = [clock EXCEPT ![s] = @ + 1]
  /\ booted' = [booted EXCEPT ![s] = clock[s] + 1]
  /\ field' = [field EXCEPT ![s] = NoThread]
  /\ ticker' = [ticker EXCEPT ![s] = NoThread]
  /\ gen' = [t \in Thread |-> IF t[1] = s THEN NoGenerator ELSE gen[t]]
  /\ pc' = [t \in Thread |-> IF t[1] = s THEN "idle" ELSE pc[t]]
  /\ mine' = [t \in Thread |-> IF t[1] = s THEN NoThread ELSE mine[t]]
  /\ UNCHANGED <<back, issued>>

Call(t) ==
  Look(t) \/ Construct(t) \/ Assign(t) \/ Fetch(t)
    \/ (NextId(t) \/ Overflow(t)) \/ NextTimeMillis(t)

Next ==
  \/ \E t \in Thread : Call(t)
  \/ \E s \in Server : ChangeRandom(s) \/ Tick(s) \/ SetBack(s) \/ Restart(s)

Spec == Init /\ [][Next]_vars

(* The clock moves, and a waiting loop looks at it again and again.         *)
FairSpec ==
  /\ Spec
  /\ \A s \in Server : WF_vars(Tick(s))
  /\ \A t \in Thread : WF_vars(NextTimeMillis(t))

-----------------------------------------------------------------------------
(* the number handed out: the parts shifted side by side                    *)
Pack(e) ==
  ((e.time * RandomSize + e.random) * WorkerSize + e.worker) * SequenceSize + e.sequence

(* Every part of an id stays within its bits; a generator exists only under *)
(* the number of the thread that built it.                                  *)
IdTypeOK ==
  /\ clock \in [Server -> Nat] /\ booted \in [Server -> Nat]
  /\ runs \in [Server -> Nat] /\ back \in [Server -> Nat]
  /\ field \in [Server -> ThreadId \cup {NoThread}]
  /\ gen \in [Thread -> Generator]
  /\ ticker \in [Server -> ThreadId \cup {NoThread}]
  /\ pc \in [Thread -> {"idle", "construct", "assign", "fetch", "call", "spin"}]
  /\ mine \in [Thread -> ThreadId \cup {NoThread}]
  /\ issued \in [Server -> Seq(Parts)]

(* A server never hands out an id twice, whatever its threads race for,     *)
(* however the random bits change, and even if it is restarted or its clock *)
(* is set back - as long as it does not meet both.                          *)
UniqueIds ==
  \A s \in Server : back[s] = 0 \/ runs[s] = 0 =>
    \A i, j \in DOMAIN issued[s] : Pack(issued[s][i]) = Pack(issued[s][j]) => i = j

(* A call that waits for the next millisecond gets it, also when the clock  *)
(* is set back meanwhile: the generator's monitor is not held for ever.     *)
WaitEnds == \A t \in Thread : pc[t] = "spin" ~> pc[t] # "spin"

(* The invariant behind UniqueIds.  Threads hold generators that exist; a   *)
(* generator's last millisecond is not before the server's start nor ahead  *)
(* of a clock that only moves on; and an id was handed out either before    *)
(* the start or by a generator that has gone past it.                       *)
Holding ==
  \A t \in Thread :
    LET s == t[1] IN
    /\ pc[t] \in {"call", "spin"} => mine[t] # NoThread /\ gen[<<s, mine[t]>>].built
    /\ pc[t] = "construct" => ~gen[t].built
    /\ pc[t] = "assign" => gen[t].built
    /\ pc[t] = "fetch" => field[s] # NoThread
    /\ field[s] # NoThread => gen[<<s, field[s]>>].built
    /\ gen[t].built => t[2] < WorkerSize
    /\ gen[t].built => field[s] # NoThread \/ pc[t] = "assign"

Trusted(s) == back[s] = 0 \/ runs[s] = 0

Clocked(s) ==
  /\ booted[s] <= clock[s]
  /\ \A n \in ThreadId :
       gen[<<s, n>>].last = -1 \/ gen[<<s, n>>].last \in booted[s]..clock[s]

(* the generator of e has gone past it                                      *)
Behind(s, e) ==
  LET g == <<s, e.worker>> IN
  /\ e.worker \in ThreadId
  /\ gen[g].built
  /\ \/ e.time < gen[g].last
     \/ e.time = gen[g].last /\ (Spinning(g) \/ e.sequence <= gen[g].sequence)

Accounted ==
  \A s \in Server : Trusted(s) =>
    \A i \in DOMAIN issued[s] :
      LET e == issued[s][i] IN
      Behind(s, e) \/ (runs[s] # 0 /\ e.time < booted[s])

Same(e, f) == e.time = f.time /\ e.worker = f.worker /\ e.sequence = f.sequence

Distinct ==
  \A s \in Server : Trusted(s) =>
    \A i, j \in DOMAIN issued[s] : Same(issued[s][i], issued[s][j]) => i = j

IdInv ==
  /\ IdTypeOK
  /\ Holding
  /\ \A s \in Server : back[s] = 0 => Clocked(s)
  /\ Accounted
  /\ Distinct
=============================================================================
