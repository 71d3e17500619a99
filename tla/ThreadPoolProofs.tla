------------------------- MODULE ThreadPoolProofs --------------------------
(***************************************************************************)
(* Proofs about module ThreadPool, for any number of jobs and workers, any *)
(* dependencies and any capacity of the queues.                            *)
(*                                                                         *)
(* The calls that contexts are in are positions <<c, d>>, counted from the *)
(* outermost call of context c, so that a call keeps its position while    *)
(* others are made on top of it and return.                                *)
(***************************************************************************)
EXTENDS ThreadPool, FiniteSetTheorems, SequenceTheorems, TLAPS

(* The steps of a call, where a context without a call is, and frames.     *)
Steps ==
  {"execute", "wake", "futex", "body", "signal", "event", "process", "release",
   "help", "global", "steal"}

Places ==
  {"sem", "local", "global", "steal", "check", "exited", "program", "look", "event",
   "eventwait", "block", "recheck", "futex", "node", "asleep", "unblock", "stopping",
   "join", "over"}

FrameSet ==
  [job : Jobs \cup {None}, pc : Steps,
   todo : SUBSET Jobs, ready : SUBSET Jobs, full : Jobs \cup {None},
   freed : [Classes -> Nat]]

(* Where the frames of stacks s are, and the frame of a position.          *)
PosOf(s) == {x \in Contexts \X Nat : x[2] \in 1..Len(s[x[1]])}
FrOf(s, x) == s[x[1]][(Len(s[x[1]]) - x[2]) + 1]
Pos == PosOf(stack)
Fr(x) == FrOf(stack, x)

(* The position of the call that context c is in, and of the next one.     *)
TopIn(s, c) == <<c, Len(s[c])>>
NextIn(s, c) == <<c, Len(s[c]) + 1>>

(* The call of context c changes to g, makes a call f, does both, returns. *)
Swaps(s, c, g, t) == t = [s EXCEPT ![c] = [s[c] EXCEPT ![1] = g]]
Calls(s, c, f, t) == t = [s EXCEPT ![c] = <<f>> \o s[c]]
SwapsAndCalls(s, c, g, f, t) == t = [s EXCEPT ![c] = <<f>> \o [s[c] EXCEPT ![1] = g]]
Returns(s, c, t) == t = [s EXCEPT ![c] = Tail(s[c])]

(* The elements of a sequence.                                             *)
Rng(s) == {s[n] : n \in 1..Len(s)}

(* Where job j is: run, about to run, waiting for process() to queue it,   *)
(* to be processed, about to signal its dependents, queued.                *)
JobAt(j) == {x \in Pos : Fr(x).job = j}
RunAt(j) == {x \in Pos : Fr(x).job = j /\ Fr(x).pc = "execute"}
ReadyAt(j) == {x \in Pos : j \in Fr(x).ready}
TodoAt(j) == {x \in Pos : j \in Fr(x).todo}
SignalAt(j) == {x \in Pos : Fr(x).job = j /\ Fr(x).pc = "signal"}
GlobalAt(j) == {k \in Classes : j \in Rng(global[k])}
LocalAt(j) == {w \in Workers : j \in Rng(local[w])}

Unique(S) == \A x, y \in S : x = y
Apart(S, T) == S = {} \/ T = {}

(* What a step does to the calls of context c.                             *)
FrameIs(g, job, pc, todo, ready, full, freed) ==
  /\ g \in FrameSet /\ g.job = job /\ g.pc = pc /\ g.todo = todo /\ g.ready = ready
  /\ g.full = full /\ g.freed = freed

Swapped(p, c, g) ==
  /\ stack' \in [Contexts -> Seq(FrameSet)]
  /\ p \in Pos /\ p[1] = c /\ Fr(p) = Top(c)
  /\ Pos' = Pos /\ \A x \in Pos : Fr(x)' = IF x = p THEN g ELSE Fr(x)
  /\ stack'[c] # <<>> /\ \A e \in Contexts \ {c} : stack'[e] = stack[e]

Called(q, c, f) ==
  /\ stack' \in [Contexts -> Seq(FrameSet)]
  /\ q[1] = c /\ q[2] \in Nat /\ (q[2] = 1 <=> stack[c] = <<>>)
  /\ q \notin Pos /\ Pos' = Pos \cup {q}
  /\ \A x \in Pos' : Fr(x)' = IF x = q THEN f ELSE Fr(x)
  /\ stack'[c] # <<>> /\ \A e \in Contexts \ {c} : stack'[e] = stack[e]

SwappedAndCalled(p, q, c, g, f) ==
  /\ stack' \in [Contexts -> Seq(FrameSet)]
  /\ p \in Pos /\ p[1] = c /\ Fr(p) = Top(c)
  /\ q[1] = c /\ q[2] \in Nat /\ q[2] # 1
  /\ q \notin Pos /\ Pos' = Pos \cup {q}
  /\ \A x \in Pos' : Fr(x)' = IF x = q THEN f ELSE IF x = p THEN g ELSE Fr(x)
  /\ stack'[c] # <<>> /\ \A e \in Contexts \ {c} : stack'[e] = stack[e]

Returned(p, c) ==
  /\ stack' \in [Contexts -> Seq(FrameSet)]
  /\ p \in Pos /\ p[1] = c /\ Fr(p) = Top(c)
  /\ Pos' = Pos \ {p} /\ \A x \in Pos' : Fr(x)' = Fr(x)
  /\ \A e \in Contexts \ {c} : stack'[e] = stack[e]

-----------------------------------------------------------------------------
(* The inductive invariant                                                 *)

(* Types.                                                                  *)
Typed ==
  /\ state \in [Jobs -> {"clear", "submitted", "processing", "executing", "done"}]
  /\ deps \in [Jobs -> Int]
  /\ runner \in [Jobs -> Contexts \cup {None}]
  /\ global \in [Classes -> Seq(Jobs)]
  /\ local \in [Workers -> Seq(Jobs)]
  /\ sem \in [Classes -> Nat]
  /\ blocked \in BOOLEAN /\ linked \in BOOLEAN /\ signalled \in BOOLEAN /\ stop \in BOOLEAN
  /\ event \in [Workers -> BOOLEAN]
  /\ stack \in [Contexts -> Seq(FrameSet)]
  /\ at \in [Contexts -> Places]
  /\ looking \in [Contexts -> Classes]
  /\ mode \in {"wait", "tick", "drain"}
  /\ target \in Jobs \cup {None}
  /\ prog \in Programs

(* The queues do not overflow.                                             *)
Caps ==
  /\ \A k \in Classes : Len(global[k]) <= GlobalCap
  /\ \A w \in Workers : Len(local[w]) <= LocalCap

(* A worker looks for jobs of its class, and at its own queue until that   *)
(* is empty.                                                               *)
WorkerInv ==
  \A w \in Workers :
    /\ looking[w] = ClassOf(w)
    /\ stack[w] # <<>> => at[w] = "local"
    /\ local[w] # <<>> => at[w] = "local"

(* What process() pushed is counted until the permits are released.        *)
FreedInv ==
  \A x \in Pos : Fr(x).pc \notin {"process", "release"} =>
    \A k \in Classes : Fr(x).freed[k] = 0

(* Somebody will look at a queue with jobs.                                *)
Support(k) ==
  \/ sem[k] > 0
  \/ \E w \in WorkersOf(k) : at[w] \in {"local", "global"}
  \/ \E x \in Pos : Fr(x).freed[k] > 0

WakeInv ==
  \A k \in Classes : WorkersOf(k) # {} /\ global[k] # <<>> => Support(k)

(* What is needed to see that no wake-up is lost.                          *)
WakeIInv == Typed /\ WorkerInv /\ FreedInv /\ WakeInv

(* How far a job is in run(), and what process() still has to do.          *)
FrameOK(f, d) ==
  /\ f.job = None => d = 1
  /\ f.pc = "execute" => f.job \in Jobs /\ state[f.job] = "processing"
  /\ f.pc \in {"wake", "futex", "body"} => f.job \in Jobs /\ state[f.job] = "executing"
  /\ f.pc \in {"signal", "event"} => f.job \in Jobs /\ state[f.job] = "done"
  /\ f.pc \in {"process", "release", "help", "global", "steal"} =>
       f.job = None \/ state[f.job] = "done"
  /\ f.pc \in {"execute", "wake", "futex", "body", "signal", "event"} =>
       f.todo = {} /\ f.ready = {}
  /\ f.pc \in {"release", "help", "global", "steal"} => f.todo = {}
  /\ f.pc \in {"release", "help"} => f.full = None \/ f.full \in f.ready
  /\ f.pc = "release" /\ f.full = None => f.ready = {}
  /\ f.pc = "help" => f.full # None
  /\ f.todo \subseteq SyncJobs \/ f.ready = {}

FrameInv == \A x \in Pos : FrameOK(Fr(x), x[2])

(* Nothing is run or processed twice.                                      *)
Once(j) ==
  /\ Unique(JobAt(j))
  /\ Unique(TodoAt(j))
  /\ TodoAt(j) # {} => state[j] = "submitted" /\ deps[j] = 0

OnceInv == \A j \in Jobs : Once(j)

(* A job is in one place while it is Processing.                           *)
Held(j) ==
  /\ Unique(GlobalAt(j)) /\ Unique(LocalAt(j)) /\ Unique(ReadyAt(j)) /\ Unique(RunAt(j))
  /\ Apart(GlobalAt(j), LocalAt(j)) /\ Apart(GlobalAt(j), ReadyAt(j)) /\ Apart(GlobalAt(j), RunAt(j))
  /\ Apart(LocalAt(j), ReadyAt(j)) /\ Apart(LocalAt(j), RunAt(j)) /\ Apart(ReadyAt(j), RunAt(j))
  /\ GlobalAt(j) # {} \/ LocalAt(j) # {} \/ ReadyAt(j) # {} \/ RunAt(j) # {}
       <=> state[j] = "processing"

HolderInv == \A j \in Jobs : Held(j)

(* It is once in its queue.                                                *)
Distinct(s) == \A m, n \in 1..Len(s) : s[m] = s[n] => m = n

QueueInv == (\A k \in Classes : Distinct(global[k])) /\ (\A w \in Workers : Distinct(local[w]))

(* The dependencies are counted.                                           *)
Signalled(i) == state[i] = "done" /\ SignalAt(i) = {}
Unfinished(k) == {i \in Jobs : <<i, k>> \in Before /\ ~Signalled(i)}

DepsInv ==
  \A k \in Jobs : /\ deps[k] = Cardinality(Unfinished(k))
                  /\ state[k] \notin {"clear", "submitted"} => deps[k] = 0

(* Jobs go to workers of their class.                                      *)
Fits(c, j) ==
  c \in Workers /\ j \notin SyncJobs => JobClass(j) = ClassOf(c) \/ WorkersOf(JobClass(j)) = {}

ClassInv ==
  /\ \A k \in Classes : \A j \in Rng(global[k]) : JobClass(j) = k
  /\ \A w \in Workers : \A j \in Rng(local[w]) : JobClass(j) = ClassOf(w)
  /\ \A x \in Pos : Fr(x).pc = "execute" => Fits(x[1], Fr(x).job)
  /\ \A j \in Jobs : state[j] = "executing" => Fits(runner[j], j)

(* What the jobs, the queues and the calls are in.                         *)
WorkInv == FrameInv /\ OnceInv /\ HolderInv /\ QueueInv /\ DepsInv /\ ClassInv

(* All of it.                                                              *)
IInv == WakeIInv /\ Caps /\ WorkInv

-----------------------------------------------------------------------------
(* The stacks of calls                                                     *)

(* Replacing the first element.                                            *)
LEMMA HeadExcept ==
  ASSUME NEW F, NEW s \in Seq(F), s # <<>>, NEW g \in F
  PROVE  /\ Len(s) \in Nat \ {0}
         /\ [s EXCEPT ![1] = g] \in Seq(F) /\ Len([s EXCEPT ![1] = g]) = Len(s)
         /\ [s EXCEPT ![1] = g][1] = g
         /\ \A n \in 2..Len(s) : [s EXCEPT ![1] = g][n] = s[n]
         /\ <<g>> \o Tail(s) = [s EXCEPT ![1] = g]
<1>1. Len(s) \in Nat \ {0} /\ 1 \in 1..Len(s)
  BY EmptySeq
<1>2. /\ [s EXCEPT ![1] = g] \in Seq(F) /\ Len([s EXCEPT ![1] = g]) = Len(s)
      /\ \A n \in 1..Len(s) : [s EXCEPT ![1] = g][n] = IF n = 1 THEN g ELSE s[n]
  BY <1>1, ExceptSeq
<1>3. /\ Tail(s) \in Seq(F) /\ Len(Tail(s)) = Len(s) - 1
      /\ \A n \in 1..(Len(s) - 1) : Tail(s)[n] = s[n + 1]
  BY <1>1, HeadTailProperties
<1>4. <<g>> \in Seq(F) /\ Len(<<g>>) = 1 /\ <<g>>[1] = g
  OBVIOUS
<1>5. /\ <<g>> \o Tail(s) \in Seq(F) /\ Len(<<g>> \o Tail(s)) = Len(s)
      /\ \A n \in 1..Len(s) : (<<g>> \o Tail(s))[n] = IF n <= 1 THEN <<g>>[n] ELSE Tail(s)[n - 1]
  <2> DEFINE t == Tail(s)
  <2>1. /\ <<g>> \o t \in Seq(F) /\ Len(<<g>> \o t) = Len(<<g>>) + Len(t)
        /\ \A n \in 1..(Len(<<g>>) + Len(t)) : (<<g>> \o t)[n] =
             IF n <= Len(<<g>>) THEN <<g>>[n] ELSE t[n - Len(<<g>>)]
    BY <1>3, <1>4, ConcatProperties
  <2>2. Len(<<g>>) + Len(t) = Len(s)
    BY <1>1, <1>3, <1>4
  <2> QED
    BY <1>4, <2>1, <2>2
<1>6. ASSUME NEW n \in 1..Len(s) PROVE (<<g>> \o Tail(s))[n] = [s EXCEPT ![1] = g][n]
  <2>1. CASE n = 1
    BY <1>1, <1>2, <1>4, <1>5, <2>1
  <2>2. CASE n # 1
    <3>1. n - 1 \in 1..(Len(s) - 1) /\ (n - 1) + 1 = n /\ ~(n <= 1)
      BY <1>1, <2>2
    <3>2. Tail(s)[n - 1] = s[n]
      BY <1>3, <3>1
    <3> QED
      BY <1>2, <1>5, <2>2, <3>1, <3>2
  <2> QED
    BY <2>1, <2>2
<1>7. <<g>> \o Tail(s) = [s EXCEPT ![1] = g]
  BY <1>2, <1>5, <1>6, SeqEqual
<1> QED
  BY <1>1, <1>2, <1>7

(* Putting an element in front.                                            *)
LEMMA ConsSeq ==
  ASSUME NEW F, NEW s \in Seq(F), NEW g \in F
  PROVE  /\ <<g>> \o s \in Seq(F) /\ Len(<<g>> \o s) = Len(s) + 1 /\ Len(s) \in Nat
         /\ (<<g>> \o s)[1] = g
         /\ \A n \in 1..Len(s) : (<<g>> \o s)[n + 1] = s[n]
<1>1. <<g>> \in Seq(F) /\ Len(<<g>>) = 1 /\ <<g>>[1] = g /\ Len(s) \in Nat
  OBVIOUS
<1>2. /\ <<g>> \o s \in Seq(F) /\ Len(<<g>> \o s) = Len(s) + 1
      /\ \A n \in 1..(Len(s) + 1) : (<<g>> \o s)[n] = IF n <= 1 THEN <<g>>[n] ELSE s[n - 1]
  <2>1. /\ <<g>> \o s \in Seq(F) /\ Len(<<g>> \o s) = Len(<<g>>) + Len(s)
        /\ \A n \in 1..(Len(<<g>>) + Len(s)) : (<<g>> \o s)[n] =
             IF n <= Len(<<g>>) THEN <<g>>[n] ELSE s[n - Len(<<g>>)]
    BY <1>1, ConcatProperties
  <2>2. Len(<<g>>) + Len(s) = Len(s) + 1
    BY <1>1
  <2> QED
    BY <1>1, <2>1, <2>2
<1>3. ASSUME NEW n \in 1..Len(s) PROVE (<<g>> \o s)[n + 1] = s[n]
  <2>1. n + 1 \in 1..(Len(s) + 1) /\ ~(n + 1 <= 1) /\ (n + 1) - 1 = n
    BY <1>1
  <2> QED
    BY <1>2, <2>1
<1> QED
  BY <1>1, <1>2, <1>3

(* Two elements in front of the rest.                                      *)
LEMMA TwoInFront ==
  ASSUME NEW F, NEW s \in Seq(F), s # <<>>, NEW f \in F, NEW g \in F
  PROVE  <<f, g>> \o Tail(s) = <<f>> \o [s EXCEPT ![1] = g]
<1>1. <<g>> \o Tail(s) = [s EXCEPT ![1] = g] /\ Tail(s) \in Seq(F)
  BY HeadExcept, HeadTailProperties
<1>2. <<f, g>> = <<f>> \o <<g>>
  <2>1. <<f>> \in Seq(F) /\ <<g>> \in Seq(F) /\ Len(<<f>>) = 1 /\ Len(<<g>>) = 1
    OBVIOUS
  <2>2. PICK a \in Seq(F), b \in Seq(F) : a = <<f>> /\ b = <<g>>
    BY <2>1
  <2>3. PICK r : r = a \o b
    OBVIOUS
  <2>4. /\ r \in Seq(F) /\ Len(r) = Len(a) + Len(b)
        /\ \A n \in 1..(Len(a) + Len(b)) : r[n] = IF n <= Len(a) THEN a[n] ELSE b[n - Len(a)]
    BY <2>3, ConcatProperties
  <2>5. Len(r) = 2 /\ r[1] = f /\ r[2] = g
    BY <2>1, <2>2, <2>4
  <2>6. <<f, g>> \in Seq(F) /\ Len(<<f, g>>) = 2
    OBVIOUS
  <2>7. \A n \in 1..Len(<<f, g>>) : <<f, g>>[n] = r[n]
    BY <2>5, <2>6
  <2>8. <<f, g>> = r
    BY <2>4, <2>5, <2>6, <2>7, SeqEqual
  <2> QED
    BY <2>2, <2>3, <2>8
<1>3. (<<f>> \o <<g>>) \o Tail(s) = <<f>> \o (<<g>> \o Tail(s))
  <2>1. PICK r \in Seq(F) : r = Tail(s)
    BY <1>1
  <2>2. <<f>> \in Seq(F) /\ <<g>> \in Seq(F)
    OBVIOUS
  <2>3. (<<f>> \o <<g>>) \o r = <<f>> \o (<<g>> \o r)
    BY <2>2, ConcatAssociative
  <2> QED
    BY <2>1, <2>3
<1> QED
  BY <1>1, <1>2, <1>3

(* Positions.                                                              *)
LEMMA PosDef ==
  ASSUME NEW s \in [Contexts -> Seq(FrameSet)]
  PROVE  /\ \A x : x \in PosOf(s) <=> \E c \in Contexts, d \in Nat : x = <<c, d>> /\ d \in 1..Len(s[c])
         /\ \A c \in Contexts, d \in Nat : <<c, d>> \in PosOf(s) <=> d \in 1..Len(s[c])
         /\ \A c \in Contexts, d \in Nat : FrOf(s, <<c, d>>) = s[c][(Len(s[c]) - d) + 1]
         /\ \A x \in PosOf(s) : FrOf(s, x) \in FrameSet /\ x[1] \in Contexts /\ x[2] \in Nat \ {0}
         /\ \A c \in Contexts : s[c] \in Seq(FrameSet) /\ Len(s[c]) \in Nat
<1>1. \A x : x \in PosOf(s) <=> \E c \in Contexts, d \in Nat : x = <<c, d>> /\ d \in 1..Len(s[c])
  BY DEF PosOf
<1>2. \A c \in Contexts, d \in Nat : FrOf(s, <<c, d>>) = s[c][(Len(s[c]) - d) + 1]
  BY DEF FrOf
<1>3. \A c \in Contexts : s[c] \in Seq(FrameSet) /\ Len(s[c]) \in Nat
  BY LenProperties
<1>4. ASSUME NEW c \in Contexts, NEW d \in Nat, d \in 1..Len(s[c])
      PROVE  FrOf(s, <<c, d>>) \in FrameSet /\ d # 0
  <2>1. Len(s[c]) \in Nat /\ s[c] \in Seq(FrameSet)
    BY <1>3
  <2>2. (Len(s[c]) - d) + 1 \in 1..Len(s[c]) /\ d # 0
    BY <1>4, <2>1
  <2>3. s[c][(Len(s[c]) - d) + 1] \in FrameSet
    BY <2>1, <2>2, ElementOfSeq
  <2> QED
    BY <1>2, <2>2, <2>3
<1>5. \A x \in PosOf(s) : FrOf(s, x) \in FrameSet /\ x[1] \in Contexts /\ x[2] \in Nat \ {0}
  <2>1. SUFFICES ASSUME NEW c \in Contexts, NEW d \in Nat, d \in 1..Len(s[c])
                 PROVE  FrOf(s, <<c, d>>) \in FrameSet /\ <<c, d>>[1] \in Contexts /\ <<c, d>>[2] \in Nat \ {0}
    BY <1>1
  <2> QED
    BY <1>4, <2>1
<1>6. \A c \in Contexts, d \in Nat : <<c, d>> \in PosOf(s) <=> d \in 1..Len(s[c])
  BY <1>1
<1> QED
  BY <1>1, <1>2, <1>3, <1>5, <1>6

(* The positions of stacks whose lengths are the same.                     *)
LEMMA SamePos ==
  ASSUME NEW s \in [Contexts -> Seq(FrameSet)], NEW t \in [Contexts -> Seq(FrameSet)],
         \A c \in Contexts : Len(t[c]) = Len(s[c])
  PROVE  PosOf(t) = PosOf(s)
BY DEF PosOf

(* The call a context is in.                                               *)
LEMMA TopOf ==
  ASSUME NEW s \in [Contexts -> Seq(FrameSet)], NEW c \in Contexts, s[c] # <<>>,
         NEW p, p = TopIn(s, c)
  PROVE  /\ p \in PosOf(s) /\ FrOf(s, p) = s[c][1] /\ s[c][1] \in FrameSet /\ p[1] = c
         /\ \A x \in PosOf(s) : x[1] = c /\ x # p => x[2] \in 1..(Len(s[c]) - 1)
         /\ p[2] = Len(s[c]) /\ Len(s[c]) \in Nat \ {0}
<1>0. p = <<c, Len(s[c])>>
  BY DEF TopIn
<1>1. Len(s[c]) \in Nat \ {0} /\ Len(s[c]) \in 1..Len(s[c])
  BY EmptySeq
<1>2. (Len(s[c]) - Len(s[c])) + 1 = 1
  BY <1>1
<1>3. p \in PosOf(s) /\ FrOf(s, p) = s[c][1] /\ p[1] = c /\ p[2] = Len(s[c])
  BY <1>0, <1>1, <1>2, PosDef
<1>4. s[c][1] \in FrameSet
  BY <1>3, PosDef
<1>5. ASSUME NEW e \in Contexts, NEW d \in Nat, d \in 1..Len(s[e]), e = c, <<e, d>> # p
      PROVE  d \in 1..(Len(s[c]) - 1)
  BY <1>0, <1>1, <1>5
<1>6. \A x \in PosOf(s) : x[1] = c /\ x # p => x[2] \in 1..(Len(s[c]) - 1)
  <2>1. SUFFICES ASSUME NEW e \in Contexts, NEW d \in Nat, d \in 1..Len(s[e])
                 PROVE  e = c /\ <<e, d>> # p => d \in 1..(Len(s[c]) - 1)
    BY PosDef
  <2> QED
    BY <1>5, <2>1
<1> QED
  BY <1>1, <1>3, <1>4, <1>6

(* It changes.                                                             *)
LEMMA SwapOf ==
  ASSUME NEW s \in [Contexts -> Seq(FrameSet)], NEW c \in Contexts, s[c] # <<>>,
         NEW g \in FrameSet, NEW t, Swaps(s, c, g, t)
  PROVE  /\ t \in [Contexts -> Seq(FrameSet)] /\ PosOf(t) = PosOf(s)
         /\ \A x \in PosOf(s) : FrOf(t, x) = IF x = TopIn(s, c) THEN g ELSE FrOf(s, x)
         /\ t[c] # <<>> /\ \A e \in Contexts \ {c} : t[e] = s[e]
<1> DEFINE r == [s[c] EXCEPT ![1] = g]
<1>0. t = [s EXCEPT ![c] = r] /\ TopIn(s, c) = <<c, Len(s[c])>>
  BY DEF Swaps, TopIn
<1>1. /\ r \in Seq(FrameSet) /\ Len(r) = Len(s[c]) /\ Len(r) \in Nat \ {0} /\ r[1] = g
      /\ \A n \in 2..Len(r) : r[n] = s[c][n]
  BY HeadExcept
<1>2. t \in [Contexts -> Seq(FrameSet)] /\ t[c] = r /\ \A e \in Contexts \ {c} : t[e] = s[e]
  BY <1>0, <1>1
<1> HIDE DEF r
<1>3. \A e \in Contexts : Len(t[e]) = Len(s[e])
  BY <1>1, <1>2
<1>4. PosOf(t) = PosOf(s)
  BY <1>2, <1>3, SamePos
<1>5. ASSUME NEW e \in Contexts, NEW d \in Nat, d \in 1..Len(s[e])
      PROVE  FrOf(t, <<e, d>>) = IF <<e, d>> = TopIn(s, c) THEN g ELSE FrOf(s, <<e, d>>)
  <2>1. /\ FrOf(s, <<e, d>>) = s[e][(Len(s[e]) - d) + 1]
        /\ FrOf(t, <<e, d>>) = t[e][(Len(t[e]) - d) + 1]
    BY DEF FrOf
  <2>2. CASE e # c
    BY <1>0, <1>2, <2>1, <2>2
  <2>3. CASE e = c /\ d = Len(s[c])
    <3>1. (Len(s[c]) - d) + 1 = 1
      BY <1>1, <2>3
    <3> QED
      BY <1>0, <1>1, <1>2, <2>1, <2>3, <3>1
  <2>4. CASE e = c /\ d # Len(s[c])
    <3>1. (Len(s[c]) - d) + 1 \in 2..Len(r)
      BY <1>1, <1>5, <2>4
    <3> QED
      BY <1>0, <1>1, <1>2, <2>1, <2>4, <3>1
  <2> QED
    BY <2>2, <2>3, <2>4
<1>6. \A x \in PosOf(s) : FrOf(t, x) = IF x = TopIn(s, c) THEN g ELSE FrOf(s, x)
  <2>1. \A x \in PosOf(s) : \E e \in Contexts, d \in Nat : x = <<e, d>> /\ d \in 1..Len(s[e])
    BY PosDef
  <2> QED
    BY <1>5, <2>1
<1>7. t[c] # <<>>
  BY <1>1, <1>2, EmptySeq
<1> QED
  BY <1>2, <1>4, <1>6, <1>7

(* It makes a call.                                                        *)
LEMMA CallOf ==
  ASSUME NEW s \in [Contexts -> Seq(FrameSet)], NEW c \in Contexts, NEW f \in FrameSet,
         NEW t, Calls(s, c, f, t), NEW q, q = NextIn(s, c)
  PROVE  /\ t \in [Contexts -> Seq(FrameSet)]
         /\ PosOf(t) = PosOf(s) \cup {q} /\ q \notin PosOf(s)
         /\ FrOf(t, q) = f /\ \A x \in PosOf(s) : FrOf(t, x) = FrOf(s, x)
         /\ q[1] = c /\ q[2] \in Nat /\ (q[2] = 1 <=> s[c] = <<>>)
         /\ t[c] # <<>> /\ \A e \in Contexts \ {c} : t[e] = s[e]
<1> DEFINE r == <<f>> \o s[c]
<1>0. t = [s EXCEPT ![c] = r] /\ q = <<c, Len(s[c]) + 1>>
  BY DEF Calls, NextIn
<1>1. /\ r \in Seq(FrameSet) /\ Len(s[c]) \in Nat /\ Len(r) = Len(s[c]) + 1 /\ r[1] = f
      /\ \A n \in 1..Len(s[c]) : r[n + 1] = s[c][n]
  BY ConsSeq
<1>2. t \in [Contexts -> Seq(FrameSet)] /\ t[c] = r /\ \A e \in Contexts \ {c} : t[e] = s[e]
  BY <1>0, <1>1
<1> HIDE DEF r
<1>3. Len(s[c]) + 1 \in Nat /\ q \notin PosOf(s)
  BY <1>0, <1>1, PosDef
<1>4. ASSUME NEW e \in Contexts, NEW d \in Nat
      PROVE  d \in 1..Len(t[e]) <=> d \in 1..Len(s[e]) \/ <<e, d>> = q
  <2>1. CASE e = c
    <3>1. d \in 1..Len(r) <=> d \in 1..Len(s[c]) \/ d = Len(s[c]) + 1
      BY <1>1
    <3> QED
      BY <1>0, <1>2, <2>1, <3>1
  <2>2. CASE e # c
    BY <1>0, <1>2, <2>2
  <2> QED
    BY <2>1, <2>2
<1>5. PosOf(t) = PosOf(s) \cup {q}
  <2>1. \E e \in Contexts, d \in Nat : q = <<e, d>>
    BY <1>0, <1>3
  <2>2. ASSUME NEW x, x \in PosOf(t) PROVE x \in PosOf(s) \cup {q}
    BY <1>4, <2>2 DEF PosOf
  <2>3. ASSUME NEW x, x \in PosOf(s) \cup {q} PROVE x \in PosOf(t)
    BY <1>4, <2>1, <2>3 DEF PosOf
  <2> QED
    BY <2>2, <2>3
<1>6. ASSUME NEW e \in Contexts, NEW d \in Nat, d \in 1..Len(s[e])
      PROVE  FrOf(t, <<e, d>>) = FrOf(s, <<e, d>>)
  <2>1. /\ FrOf(s, <<e, d>>) = s[e][(Len(s[e]) - d) + 1]
        /\ FrOf(t, <<e, d>>) = t[e][(Len(t[e]) - d) + 1]
    BY DEF FrOf
  <2>2. CASE e # c
    BY <1>2, <2>1, <2>2
  <2>3. CASE e = c
    <3>1. d \in 1..Len(s[c])
      BY <1>6, <2>3
    <3>2. (Len(s[c]) - d) + 1 \in 1..Len(s[c]) /\ (Len(r) - d) + 1 = ((Len(s[c]) - d) + 1) + 1
      BY <1>1, <3>1
    <3> QED
      BY <1>1, <1>2, <2>1, <2>3, <3>2
  <2> QED
    BY <2>2, <2>3
<1>7. \A x \in PosOf(s) : FrOf(t, x) = FrOf(s, x)
  <2>1. \A x \in PosOf(s) : \E e \in Contexts, d \in Nat : x = <<e, d>> /\ d \in 1..Len(s[e])
    BY PosDef
  <2> QED
    BY <1>6, <2>1
<1>8. FrOf(t, q) = f
  <2>1. FrOf(t, q) = t[c][(Len(t[c]) - (Len(s[c]) + 1)) + 1]
    BY <1>0 DEF FrOf
  <2>2. (Len(r) - (Len(s[c]) + 1)) + 1 = 1
    BY <1>1
  <2> QED
    BY <1>1, <1>2, <2>1, <2>2
<1>9. q[1] = c /\ q[2] \in Nat /\ (q[2] = 1 <=> s[c] = <<>>)
  <2>1. q[1] = c /\ q[2] = Len(s[c]) + 1
    BY <1>0
  <2>2. Len(s[c]) + 1 = 1 <=> Len(s[c]) = 0
    BY <1>1
  <2>3. Len(s[c]) = 0 <=> s[c] = <<>>
    BY EmptySeq
  <2> QED
    BY <1>3, <2>1, <2>2, <2>3
<1>10. t[c] # <<>>
  <2>1. Len(r) # 0
    BY <1>1
  <2> QED
    BY <1>1, <1>2, <2>1, EmptySeq
<1> QED
  BY <1>2, <1>3, <1>5, <1>7, <1>8, <1>9, <1>10

(* It changes and makes a call.                                            *)
LEMMA SwapCallOf ==
  ASSUME NEW s \in [Contexts -> Seq(FrameSet)], NEW c \in Contexts, s[c] # <<>>,
         NEW f \in FrameSet, NEW g \in FrameSet,
         NEW t, SwapsAndCalls(s, c, g, f, t), NEW q, q = NextIn(s, c)
  PROVE  /\ t \in [Contexts -> Seq(FrameSet)]
         /\ PosOf(t) = PosOf(s) \cup {q} /\ q \notin PosOf(s)
         /\ FrOf(t, q) = f
         /\ \A x \in PosOf(s) : FrOf(t, x) = IF x = TopIn(s, c) THEN g ELSE FrOf(s, x)
         /\ q[1] = c /\ q[2] \in Nat /\ q[2] # 1
         /\ t[c] # <<>> /\ \A e \in Contexts \ {c} : t[e] = s[e]
<1>1. PICK r : Swaps(s, c, g, r)
  BY DEF Swaps
<1>2. /\ r \in [Contexts -> Seq(FrameSet)] /\ PosOf(r) = PosOf(s)
      /\ \A x \in PosOf(s) : FrOf(r, x) = IF x = TopIn(s, c) THEN g ELSE FrOf(s, x)
      /\ r[c] # <<>> /\ \A e \in Contexts \ {c} : r[e] = s[e]
  BY <1>1, SwapOf
<1>3. r[c] = [s[c] EXCEPT ![1] = g] /\ Len(r[c]) = Len(s[c])
  BY <1>1, HeadExcept DEF Swaps
<1>4. Calls(r, c, f, t)
  <2>1. t = [r EXCEPT ![c] = <<f>> \o [s[c] EXCEPT ![1] = g]]
    BY <1>1 DEF Swaps, SwapsAndCalls
  <2> QED
    BY <1>3, <2>1 DEF Calls
<1>5. q = NextIn(r, c)
  BY <1>3 DEF NextIn
<1>6. /\ t \in [Contexts -> Seq(FrameSet)]
      /\ PosOf(t) = PosOf(r) \cup {q} /\ q \notin PosOf(r)
      /\ FrOf(t, q) = f /\ \A x \in PosOf(r) : FrOf(t, x) = FrOf(r, x)
      /\ q[1] = c /\ q[2] \in Nat /\ (q[2] = 1 <=> r[c] = <<>>)
      /\ t[c] # <<>> /\ \A e \in Contexts \ {c} : t[e] = r[e]
  BY <1>2, <1>4, <1>5, CallOf
<1> QED
  BY <1>2, <1>6

(* It returns.                                                             *)
LEMMA ReturnOf ==
  ASSUME NEW s \in [Contexts -> Seq(FrameSet)], NEW c \in Contexts, s[c] # <<>>,
         NEW t, Returns(s, c, t), NEW p, p = TopIn(s, c)
  PROVE  /\ t \in [Contexts -> Seq(FrameSet)]
         /\ PosOf(t) = PosOf(s) \ {p}
         /\ \A x \in PosOf(t) : FrOf(t, x) = FrOf(s, x)
         /\ \A e \in Contexts \ {c} : t[e] = s[e]
<1> DEFINE r == Tail(s[c])
<1>0. t = [s EXCEPT ![c] = r] /\ p = <<c, Len(s[c])>>
  BY DEF Returns, TopIn
<1>1. /\ r \in Seq(FrameSet) /\ Len(s[c]) \in Nat \ {0} /\ Len(r) = Len(s[c]) - 1 /\ Len(r) \in Nat
      /\ \A n \in 1..Len(r) : r[n] = s[c][n + 1]
  BY HeadTailProperties, EmptySeq
<1>2. t \in [Contexts -> Seq(FrameSet)] /\ t[c] = r /\ \A e \in Contexts \ {c} : t[e] = s[e]
  BY <1>0, <1>1
<1> HIDE DEF r
<1>3. ASSUME NEW e \in Contexts, NEW d \in Nat
      PROVE  d \in 1..Len(t[e]) <=> d \in 1..Len(s[e]) /\ <<e, d>> # p
  <2>1. CASE e = c
    <3>1. d \in 1..Len(r) <=> d \in 1..Len(s[c]) /\ d # Len(s[c])
      BY <1>1
    <3> QED
      BY <1>0, <1>2, <2>1, <3>1
  <2>2. CASE e # c
    BY <1>0, <1>2, <2>2
  <2> QED
    BY <2>1, <2>2
<1>4. PosOf(t) = PosOf(s) \ {p}
  <2>1. ASSUME NEW x, x \in PosOf(t) PROVE x \in PosOf(s) \ {p}
    BY <1>3, <2>1 DEF PosOf
  <2>2. ASSUME NEW x, x \in PosOf(s) \ {p} PROVE x \in PosOf(t)
    BY <1>3, <2>2 DEF PosOf
  <2> QED
    BY <2>1, <2>2
<1>5. ASSUME NEW e \in Contexts, NEW d \in Nat, d \in 1..Len(t[e])
      PROVE  FrOf(t, <<e, d>>) = FrOf(s, <<e, d>>)
  <2>1. /\ FrOf(s, <<e, d>>) = s[e][(Len(s[e]) - d) + 1]
        /\ FrOf(t, <<e, d>>) = t[e][(Len(t[e]) - d) + 1]
    BY DEF FrOf
  <2>2. CASE e # c
    BY <1>2, <2>1, <2>2
  <2>3. CASE e = c
    <3>1. d \in 1..Len(r)
      BY <1>2, <1>5, <2>3
    <3>2. (Len(r) - d) + 1 \in 1..Len(r) /\ (Len(s[c]) - d) + 1 = ((Len(r) - d) + 1) + 1
      BY <1>1, <3>1
    <3> QED
      BY <1>1, <1>2, <2>1, <2>3, <3>2
  <2> QED
    BY <2>2, <2>3
<1>6. \A x \in PosOf(t) : FrOf(t, x) = FrOf(s, x)
  <2>1. \A x \in PosOf(t) : \E e \in Contexts, d \in Nat : x = <<e, d>> /\ d \in 1..Len(t[e])
    BY DEF PosOf
  <2> QED
    BY <1>5, <2>1
<1> QED
  BY <1>2, <1>4, <1>6

-----------------------------------------------------------------------------
(* What the steps do to the calls                                          *)

(* The frame of the call that a context is in.                             *)
LEMMA TopFrame ==
  ASSUME Typed, NEW c \in Contexts, stack[c] # <<>>
  PROVE  Top(c) \in FrameSet /\ \E p \in Pos : p[1] = c /\ Fr(p) = Top(c)
<1>1. stack \in [Contexts -> Seq(FrameSet)]
  BY DEF Typed
<1>2. PICK p : p = TopIn(stack, c)
  OBVIOUS
<1>3. p \in PosOf(stack) /\ FrOf(stack, p) = stack[c][1] /\ stack[c][1] \in FrameSet /\ p[1] = c
  BY <1>1, <1>2, TopOf
<1> QED
  BY <1>3 DEF Pos, Fr, Top

(* The frames of all the calls.                                            *)
LEMMA AllFrames ==
  ASSUME Typed
  PROVE  \A x \in Pos : Fr(x) \in FrameSet /\ x[1] \in Contexts /\ x[2] \in Nat \ {0}
<1>1. stack \in [Contexts -> Seq(FrameSet)]
  BY DEF Typed
<1> QED
  BY <1>1, PosDef DEF Pos, Fr

(* A change of the frame of context c.                                     *)
LEMMA SwapFrames ==
  ASSUME Typed, NEW c \in Contexts, stack[c] # <<>>, NEW g \in FrameSet,
         Swaps(stack, c, g, stack')
  PROVE  \E p : Swapped(p, c, g)
<1>1. stack \in [Contexts -> Seq(FrameSet)]
  BY DEF Typed
<1>2. PICK p : p = TopIn(stack, c)
  OBVIOUS
<1>3. p \in PosOf(stack) /\ FrOf(stack, p) = stack[c][1] /\ p[1] = c
  BY <1>1, <1>2, TopOf
<1>4. /\ stack' \in [Contexts -> Seq(FrameSet)] /\ PosOf(stack') = PosOf(stack)
      /\ \A x \in PosOf(stack) : FrOf(stack', x) = IF x = TopIn(stack, c) THEN g ELSE FrOf(stack, x)
      /\ stack'[c] # <<>> /\ \A e \in Contexts \ {c} : stack'[e] = stack[e]
  BY <1>1, SwapOf
<1>5. Pos' = Pos /\ \A x \in Pos : Fr(x)' = IF x = p THEN g ELSE Fr(x)
  BY <1>2, <1>4 DEF Pos, Fr
<1>6. Swapped(p, c, g)
  BY <1>3, <1>4, <1>5 DEF Swapped, Pos, Fr, Top
<1> QED
  BY <1>6

(* A call that it makes.                                                   *)
LEMMA CallFrames ==
  ASSUME Typed, NEW c \in Contexts, NEW f \in FrameSet, Calls(stack, c, f, stack')
  PROVE  \E q : Called(q, c, f)
<1>1. stack \in [Contexts -> Seq(FrameSet)]
  BY DEF Typed
<1>2. PICK q : q = NextIn(stack, c)
  OBVIOUS
<1>3. /\ stack' \in [Contexts -> Seq(FrameSet)]
      /\ PosOf(stack') = PosOf(stack) \cup {q} /\ q \notin PosOf(stack)
      /\ FrOf(stack', q) = f /\ \A x \in PosOf(stack) : FrOf(stack', x) = FrOf(stack, x)
      /\ q[1] = c /\ q[2] \in Nat /\ (q[2] = 1 <=> stack[c] = <<>>)
      /\ stack'[c] # <<>> /\ \A e \in Contexts \ {c} : stack'[e] = stack[e]
  BY <1>1, <1>2, CallOf
<1>4. Pos' = Pos \cup {q} /\ \A x \in Pos' : Fr(x)' = IF x = q THEN f ELSE Fr(x)
  BY <1>3 DEF Pos, Fr
<1>5. Called(q, c, f)
  BY <1>3, <1>4 DEF Called, Pos
<1> QED
  BY <1>5

(* A change and a call.                                                    *)
LEMMA SwapCallFrames ==
  ASSUME Typed, NEW c \in Contexts, stack[c] # <<>>, NEW f \in FrameSet, NEW g \in FrameSet,
         SwapsAndCalls(stack, c, g, f, stack')
  PROVE  \E p, q : SwappedAndCalled(p, q, c, g, f)
<1>1. stack \in [Contexts -> Seq(FrameSet)]
  BY DEF Typed
<1>2. PICK p : p = TopIn(stack, c)
  OBVIOUS
<1>3. PICK q : q = NextIn(stack, c)
  OBVIOUS
<1>4. p \in PosOf(stack) /\ FrOf(stack, p) = stack[c][1] /\ p[1] = c
  BY <1>1, <1>2, TopOf
<1>5. /\ stack' \in [Contexts -> Seq(FrameSet)]
      /\ PosOf(stack') = PosOf(stack) \cup {q} /\ q \notin PosOf(stack)
      /\ FrOf(stack', q) = f
      /\ \A x \in PosOf(stack) : FrOf(stack', x) = IF x = TopIn(stack, c) THEN g ELSE FrOf(stack, x)
      /\ q[1] = c /\ q[2] \in Nat /\ q[2] # 1
      /\ stack'[c] # <<>> /\ \A e \in Contexts \ {c} : stack'[e] = stack[e]
  BY <1>1, <1>3, SwapCallOf
<1>6. /\ Pos' = Pos \cup {q}
      /\ \A x \in Pos' : Fr(x)' = IF x = q THEN f ELSE IF x = p THEN g ELSE Fr(x)
  BY <1>2, <1>5 DEF Pos, Fr
<1>7. SwappedAndCalled(p, q, c, g, f)
  BY <1>4, <1>5, <1>6 DEF SwappedAndCalled, Pos, Fr, Top
<1> QED
  BY <1>7

(* The end of a call.                                                      *)
LEMMA ReturnFrames ==
  ASSUME Typed, NEW c \in Contexts, stack[c] # <<>>, Returns(stack, c, stack')
  PROVE  \E p : Returned(p, c)
<1>1. stack \in [Contexts -> Seq(FrameSet)]
  BY DEF Typed
<1>2. PICK p : p = TopIn(stack, c)
  OBVIOUS
<1>3. p \in PosOf(stack) /\ FrOf(stack, p) = stack[c][1] /\ p[1] = c
  BY <1>1, <1>2, TopOf
<1>4. /\ stack' \in [Contexts -> Seq(FrameSet)] /\ PosOf(stack') = PosOf(stack) \ {p}
      /\ \A x \in PosOf(stack') : FrOf(stack', x) = FrOf(stack, x)
      /\ \A e \in Contexts \ {c} : stack'[e] = stack[e]
  BY <1>1, <1>2, ReturnOf
<1>5. Pos' = Pos \ {p} /\ \A x \in Pos' : Fr(x)' = Fr(x)
  BY <1>4 DEF Pos, Fr
<1>6. Returned(p, c)
  BY <1>3, <1>4, <1>5 DEF Returned, Pos, Fr, Top
<1> QED
  BY <1>6

(* The classes of jobs and workers.                                        *)
LEMMA ClassFacts ==
  /\ \A j : JobClass(j) \in Classes
  /\ \A w \in Workers : ClassOf(w) \in Classes /\ w \in WorkersOf(ClassOf(w))
  /\ \A k \in Classes : /\ WorkersOf(k) \subseteq Workers
                        /\ \A w \in WorkersOf(k) : ClassOf(w) = k
                        /\ Cardinality(WorkersOf(k)) \in Nat
                        /\ WorkersOf(k) # {} => Cardinality(WorkersOf(k)) > 0
  /\ Main \notin Workers
<1>1. \A k \in Classes : WorkersOf(k) \subseteq Workers
  BY DEF WorkersOf, Workers
<1>2. \A k \in Classes : IsFiniteSet(WorkersOf(k))
  BY <1>1, FS_Subset, PoolAssumption
<1>3. \A k \in Classes : Cardinality(WorkersOf(k)) \in Nat
  BY <1>2, FS_CardinalityType
<1>4. \A k \in Classes : WorkersOf(k) # {} => Cardinality(WorkersOf(k)) > 0
  BY <1>2, <1>3, FS_EmptySet
<1>5. \A j : JobClass(j) \in Classes
  BY DEF JobClass, Classes
<1>6. \A w \in Workers : ClassOf(w) \in Classes /\ w \in WorkersOf(ClassOf(w))
  BY DEF ClassOf, Classes, WorkersOf, Workers
<1>7. \A k \in Classes : \A w \in WorkersOf(k) : ClassOf(w) = k
  BY PoolAssumption DEF ClassOf, Classes, WorkersOf
<1> QED
  BY <1>1, <1>3, <1>4, <1>5, <1>6, <1>7, PoolAssumption

(* The number of permits that are released for pushed jobs.                *)
LEMMA PermitsFacts ==
  ASSUME Typed, NEW c \in Contexts, stack[c] # <<>>, NEW k \in Classes
  PROVE  /\ Permits(c, k) \in Nat
         /\ WorkersOf(k) # {} /\ Top(c).freed[k] > 0 => Permits(c, k) > 0
<1>1. Top(c).freed[k] \in Nat
  BY TopFrame DEF FrameSet
<1>2. Cardinality(WorkersOf(k)) \in Nat /\ (WorkersOf(k) # {} => Cardinality(WorkersOf(k)) > 0)
  BY ClassFacts
<1> QED
  BY <1>1, <1>2 DEF Permits, Least

(* The frame of run(job), and of submit().                                 *)
LEMMA NewFrame ==
  ASSUME NEW j \in Jobs \cup {None}, NEW pc \in Steps, NEW T \in SUBSET Jobs
  PROVE  /\ FrameIs(Frame(j, pc, T), j, pc, T, {}, None, [k \in Classes |-> 0])
         /\ FrameIs(RunFrame(j), j, "execute", {}, {}, None, [k \in Classes |-> 0])
BY DEF FrameIs, Frame, RunFrame, FrameSet, Steps

(* A context goes on with the next step of its call.                       *)
LEMMA GotoFrames ==
  ASSUME Typed, NEW c \in Contexts, stack[c] # <<>>, NEW w \in Steps, Goto(c, w)
  PROVE  \E p, g : /\ Swapped(p, c, g)
                   /\ FrameIs(g, Top(c).job, w, Top(c).todo, Top(c).ready, Top(c).full, Top(c).freed)
<1>1. PICK h \in FrameSet : h = stack[c][1] /\ h = Top(c)
  BY TopFrame DEF Top
<1>2. PICK g : g = [h EXCEPT !.pc = w]
  OBVIOUS
<1>3. g \in FrameSet /\ FrameIs(g, h.job, w, h.todo, h.ready, h.full, h.freed)
  BY <1>1, <1>2 DEF FrameIs, FrameSet
<1>4. [stack EXCEPT ![c][1].pc = w] = [stack EXCEPT ![c] = [stack[c] EXCEPT ![1] = [stack[c][1] EXCEPT !.pc = w]]]
  OBVIOUS
<1>5. Swaps(stack, c, g, stack')
  BY <1>1, <1>2, <1>4 DEF Goto, Swaps
<1>6. \E p : Swapped(p, c, g)
  BY <1>3, <1>5, SwapFrames
<1> QED
  BY <1>1, <1>3, <1>6

(* signal_edges returns the jobs that process() has to do.                 *)
LEMMA SignalFrames ==
  ASSUME Typed, NEW c \in Contexts, SignalEdges(c)
  PROVE  \E p, g : /\ Swapped(p, c, g)
                   /\ FrameIs(g, Top(c).job, "process",
                        {j \in Dependents(Top(c).job) : state[j] = "submitted" /\ deps'[j] = 0},
                        Top(c).ready, Top(c).full, Top(c).freed)
<1>1. stack[c] # <<>>
  BY DEF SignalEdges, In
<1>2. PICK h \in FrameSet : h = stack[c][1] /\ h = Top(c)
  BY <1>1, TopFrame DEF Top
<1>3. PICK T \in SUBSET Jobs :
        T = {j \in Dependents(Top(c).job) : state[j] = "submitted" /\ deps'[j] = 0}
  BY DEF Dependents
<1>4. PICK g : g = [h EXCEPT !.pc = "process", !.todo = T]
  OBVIOUS
<1>5. g \in FrameSet /\ FrameIs(g, h.job, "process", T, h.ready, h.full, h.freed)
  BY <1>2, <1>4 DEF FrameIs, FrameSet, Steps
<1>6. stack' = [stack EXCEPT ![c][1].pc = "process", ![c][1].todo = T]
  BY <1>3 DEF SignalEdges
<1>7. [stack EXCEPT ![c][1].pc = "process", ![c][1].todo = T]
        = [stack EXCEPT ![c] = [stack[c] EXCEPT ![1] =
             [stack[c][1] EXCEPT !.pc = "process", !.todo = T]]]
  OBVIOUS
<1>8. Swaps(stack, c, g, stack')
  BY <1>2, <1>4, <1>6, <1>7 DEF Swaps
<1>9. \E p : Swapped(p, c, g)
  BY <1>1, <1>5, <1>8, SwapFrames
<1> QED
  BY <1>2, <1>3, <1>5, <1>9

(* process() marks the jobs that are queued.                               *)
LEMMA MarkFrames ==
  ASSUME Typed, NEW c \in Contexts, Mark(c)
  PROVE  \E p, g : /\ Swapped(p, c, g)
                   /\ FrameIs(g, Top(c).job, "process", Top(c).todo \ (Top(c).todo \ SyncJobs),
                        Top(c).todo \ SyncJobs, Top(c).full, Top(c).freed)
<1>1. stack[c] # <<>> /\ Top(c).pc = "process"
  BY DEF Mark, In
<1>2. PICK h \in FrameSet : h = stack[c][1] /\ h = Top(c)
  BY <1>1, TopFrame DEF Top
<1>3. PICK S \in SUBSET Jobs : S = Top(c).todo \ SyncJobs
  BY <1>2 DEF FrameSet
<1>4. PICK g : g = [h EXCEPT !.todo = h.todo \ S, !.ready = S]
  OBVIOUS
<1>5. g \in FrameSet /\ FrameIs(g, h.job, "process", h.todo \ S, S, h.full, h.freed)
  BY <1>1, <1>2, <1>4 DEF FrameIs, FrameSet, Steps
<1>6. stack' = [stack EXCEPT ![c][1].todo = stack[c][1].todo \ S, ![c][1].ready = S]
  BY <1>3 DEF Mark
<1>7. [stack EXCEPT ![c][1].todo = stack[c][1].todo \ S, ![c][1].ready = S]
        = [stack EXCEPT ![c] = [stack[c] EXCEPT ![1] =
             [stack[c][1] EXCEPT !.todo = stack[c][1].todo \ S, !.ready = S]]]
  OBVIOUS
<1>8. Swaps(stack, c, g, stack')
  BY <1>2, <1>4, <1>6, <1>7 DEF Swaps
<1>9. \E p : Swapped(p, c, g)
  BY <1>1, <1>5, <1>8, SwapFrames
<1> QED
  BY <1>2, <1>3, <1>5, <1>9

(* process() runs a job without a functor.                                 *)
LEMMA RunSyncFrames ==
  ASSUME Typed, NEW c \in Contexts, RunSync(c)
  PROVE  \E j \in Top(c).todo : \E p, q, g :
           /\ state' = [state EXCEPT ![j] = "processing"]
           /\ SwappedAndCalled(p, q, c, g, RunFrame(j))
           /\ FrameIs(g, Top(c).job, "process", Top(c).todo \ {j}, Top(c).ready, Top(c).full,
                Top(c).freed)
<1>1. stack[c] # <<>> /\ Top(c).pc = "process"
  BY DEF RunSync, In
<1>2. PICK h \in FrameSet : h = stack[c][1] /\ h = Top(c)
  BY <1>1, TopFrame DEF Top
<1>3. PICK j \in Top(c).todo :
        /\ state' = [state EXCEPT ![j] = "processing"]
        /\ stack' = [stack EXCEPT ![c] =
             <<RunFrame(j), [Top(c) EXCEPT !.todo = Top(c).todo \ {j}]>> \o Tail(stack[c])]
  BY DEF RunSync
<1>4. PICK g : g = [Top(c) EXCEPT !.todo = Top(c).todo \ {j}]
  OBVIOUS
<1>5. j \in Jobs /\ RunFrame(j) \in FrameSet
  BY <1>2, NewFrame DEF FrameSet, FrameIs, Steps
<1>6. g \in FrameSet /\ FrameIs(g, h.job, "process", h.todo \ {j}, h.ready, h.full, h.freed)
  BY <1>1, <1>2, <1>4 DEF FrameIs, FrameSet, Steps
<1>7. SwapsAndCalls(stack, c, g, RunFrame(j), stack')
  <2>1. stack[c] \in Seq(FrameSet)
    BY DEF Typed
  <2>2. <<RunFrame(j), g>> \o Tail(stack[c]) = <<RunFrame(j)>> \o [stack[c] EXCEPT ![1] = g]
    BY <1>1, <1>5, <1>6, <2>1, TwoInFront
  <2> QED
    BY <1>3, <1>4, <2>2 DEF SwapsAndCalls
<1>8. \E p, q : SwappedAndCalled(p, q, c, g, RunFrame(j))
  BY <1>1, <1>5, <1>6, <1>7, SwapCallFrames
<1> QED
  BY <1>2, <1>3, <1>6, <1>8

(* process() has pushed a job to a queue.                                  *)
LEMMA PushFrames ==
  ASSUME Typed, NEW c \in Contexts, stack[c] # <<>>, Top(c).pc = "process",
         NEW j \in Top(c).ready, NEW u, Enqueue(c, j, u)
  PROVE  \E p, g : /\ Swapped(p, c, g)
                   /\ FrameIs(g, Top(c).job, "process", Top(c).todo, Top(c).ready \ {j}, Top(c).full,
                        [Top(c).freed EXCEPT ![JobClass(j)] = Top(c).freed[JobClass(j)] + 1])
<1>1. PICK h \in FrameSet : h = stack[c][1] /\ h = Top(c)
  BY TopFrame DEF Top
<1>2. PICK k \in Classes : k = JobClass(j)
  BY ClassFacts
<1>3. PICK m \in Nat, r \in SUBSET Jobs : m = h.freed[k] + 1 /\ r = h.ready \ {j}
  <2>1. h.freed[k] + 1 \in Nat /\ h.ready \ {j} \in SUBSET Jobs
    BY <1>1 DEF FrameSet
  <2> QED
    BY <2>1
<1>4. PICK g : g = [h EXCEPT !.ready = r, !.freed = [h.freed EXCEPT ![k] = m]]
  OBVIOUS
<1>5. g \in FrameSet /\ FrameIs(g, h.job, "process", h.todo, r, h.full, [h.freed EXCEPT ![k] = m])
  BY <1>1, <1>4 DEF FrameIs, FrameSet, Steps
<1>6. stack' = [stack EXCEPT ![c][1].ready = r, ![c][1].freed[k] = m]
  BY <1>1, <1>2, <1>3 DEF Enqueue
<1>7. [stack EXCEPT ![c][1].ready = r, ![c][1].freed[k] = m]
        = [stack EXCEPT ![c] = [stack[c] EXCEPT ![1] =
             [stack[c][1] EXCEPT !.ready = r, !.freed = [stack[c][1].freed EXCEPT ![k] = m]]]]
  <2>1. 1 \in DOMAIN stack[c] /\ c \in DOMAIN stack /\ "ready" \in DOMAIN h /\ "freed" \in DOMAIN h
    BY EmptySeq DEF Typed, FrameSet
  <2>2. [h EXCEPT !.ready = r].freed = h.freed
    BY <2>1
  <2>3. [stack[c] EXCEPT ![1].ready = r] = [stack[c] EXCEPT ![1] = [h EXCEPT !.ready = r]]
    BY <1>1
  <2>4. [stack EXCEPT ![c][1].ready = r] = [stack EXCEPT ![c] = [stack[c] EXCEPT ![1] = [h EXCEPT !.ready = r]]]
    BY <1>1
  <2>5. [stack EXCEPT ![c][1].ready = r][c][1].freed = h.freed
    BY <2>1, <2>2, <2>4
  <2> QED
    BY <1>1, <2>1, <2>2, <2>4, <2>5
<1>8. Swaps(stack, c, g, stack')
  BY <1>1, <1>4, <1>6, <1>7 DEF Swaps
<1>9. \E p : Swapped(p, c, g)
  BY <1>5, <1>8, SwapFrames
<1> QED
  BY <1>1, <1>2, <1>3, <1>5, <1>9

(* It stops pushing.                                                       *)
LEMMA StopFrames ==
  ASSUME Typed, NEW c \in Contexts, StopPushing(c)
  PROVE  \E j \in Top(c).ready \cup {None} : \E p, g :
           /\ j = None => Top(c).ready = {}
           /\ Swapped(p, c, g)
           /\ FrameIs(g, Top(c).job, "release", Top(c).todo, Top(c).ready, j, Top(c).freed)
<1>1. stack[c] # <<>>
  BY DEF StopPushing, In
<1>2. PICK h \in FrameSet : h = stack[c][1] /\ h = Top(c)
  BY <1>1, TopFrame DEF Top
<1>3. PICK j \in Top(c).ready \cup {None} :
        /\ j = None => Top(c).ready = {}
        /\ stack' = [stack EXCEPT ![c][1].pc = "release", ![c][1].full = j]
  BY DEF StopPushing
<1>4. PICK g : g = [h EXCEPT !.pc = "release", !.full = j]
  OBVIOUS
<1>5. g \in FrameSet /\ FrameIs(g, h.job, "release", h.todo, h.ready, j, h.freed)
  BY <1>2, <1>3, <1>4 DEF FrameIs, FrameSet, Steps
<1>6. [stack EXCEPT ![c][1].pc = "release", ![c][1].full = j]
        = [stack EXCEPT ![c] = [stack[c] EXCEPT ![1] =
             [stack[c][1] EXCEPT !.pc = "release", !.full = j]]]
  OBVIOUS
<1>7. Swaps(stack, c, g, stack')
  BY <1>2, <1>3, <1>4, <1>6 DEF Swaps
<1>8. \E p : Swapped(p, c, g)
  BY <1>1, <1>5, <1>7, SwapFrames
<1> QED
  BY <1>2, <1>3, <1>5, <1>8

(* It ends, runs the job whose queue is full, or goes to help.             *)
LEMMA ReleaseFrames ==
  ASSUME Typed, NEW c \in Contexts, Release(c)
  PROVE  \/ /\ Top(c).full = None /\ Top(c).job = None
            /\ \E p : Returned(p, c)
         \/ /\ Top(c).full = None /\ Top(c).job # None
            /\ \E p, g : /\ Swapped(p, c, g)
                         /\ FrameIs(g, Top(c).job, "event", Top(c).todo, Top(c).ready, None,
                              [k \in Classes |-> 0])
         \/ /\ Top(c).full # None /\ CanRunInline(c, Top(c).full)
            /\ \E p, q, g : /\ SwappedAndCalled(p, q, c, g, RunFrame(Top(c).full))
                            /\ FrameIs(g, Top(c).job, "process", Top(c).todo,
                                 Top(c).ready \ {Top(c).full}, None, [k \in Classes |-> 0])
         \/ /\ Top(c).full # None
            /\ \E p, g : /\ Swapped(p, c, g)
                         /\ FrameIs(g, Top(c).job, "help", Top(c).todo, Top(c).ready, Top(c).full,
                              [k \in Classes |-> 0])
<1> DEFINE j == Top(c).full
           Z == [k \in Classes |-> 0]
<1>1. stack[c] # <<>> /\ stack[c] \in Seq(FrameSet)
  BY DEF Release, In, Typed
<1>2. PICK h \in FrameSet : h = stack[c][1] /\ h = Top(c)
  BY <1>1, TopFrame DEF Top
<1>3. stack' = [stack EXCEPT ![c] =
         IF j = None THEN EndOrReturn(c)
         ELSE IF CanRunInline(c, j)
           THEN <<RunFrame(j), [Pushed(c) EXCEPT !.pc = "process", !.ready = Top(c).ready \ {j}]>> \o Tail(stack[c])
         ELSE HelpFirst(c)]
  <2>1. [Pushed(c) EXCEPT !.pc = "process", !.ready = @ \ {j}]
          = [Pushed(c) EXCEPT !.pc = "process", !.ready = Top(c).ready \ {j}]
    BY <1>2 DEF Pushed, FrameSet
  <2> QED
    BY <2>1 DEF Release, AfterRelease
<1>4. CASE j = None /\ Top(c).job = None
  <2>1. Returns(stack, c, stack')
    BY <1>3, <1>4 DEF Returns, EndOrReturn
  <2>2. \E p : Returned(p, c)
    BY <1>1, <2>1, ReturnFrames
  <2> QED
    BY <1>4, <2>2
<1>5. CASE j = None /\ Top(c).job # None
  <2>1. PICK g : g = [Pushed(c) EXCEPT !.pc = "event"]
    OBVIOUS
  <2>2. g \in FrameSet /\ FrameIs(g, Top(c).job, "event", Top(c).todo, Top(c).ready, None, Z)
    BY <1>2, <2>1 DEF Pushed, FrameIs, FrameSet, Steps
  <2>3. <<g>> \o Tail(stack[c]) = [stack[c] EXCEPT ![1] = g]
    BY <1>1, <2>2, HeadExcept
  <2>4. Swaps(stack, c, g, stack')
    BY <1>3, <1>5, <2>1, <2>3 DEF Swaps, EndOrReturn
  <2>5. \E p : Swapped(p, c, g)
    BY <1>1, <2>2, <2>4, SwapFrames
  <2> QED
    BY <1>5, <2>2, <2>5
<1>6. CASE j # None /\ CanRunInline(c, j)
  <2>1. PICK g : g = [Pushed(c) EXCEPT !.pc = "process", !.ready = Top(c).ready \ {j}]
    OBVIOUS
  <2>2. g \in FrameSet /\ FrameIs(g, Top(c).job, "process", Top(c).todo, Top(c).ready \ {j}, None, Z)
    BY <1>2, <2>1 DEF Pushed, FrameIs, FrameSet, Steps
  <2>3. RunFrame(j) \in FrameSet
    BY <1>2, <1>6, NewFrame DEF FrameSet, FrameIs, Steps
  <2>4. <<RunFrame(j), g>> \o Tail(stack[c]) = <<RunFrame(j)>> \o [stack[c] EXCEPT ![1] = g]
    BY <1>1, <2>2, <2>3, TwoInFront
  <2>5. SwapsAndCalls(stack, c, g, RunFrame(j), stack')
    BY <1>3, <1>6, <2>1, <2>4 DEF SwapsAndCalls
  <2>6. \E p, q : SwappedAndCalled(p, q, c, g, RunFrame(j))
    BY <1>1, <2>2, <2>3, <2>5, SwapCallFrames
  <2> QED
    BY <1>6, <2>2, <2>6
<1>7. CASE j # None /\ ~CanRunInline(c, j)
  <2>1. PICK g : g = [Pushed(c) EXCEPT !.pc = "help", !.full = j]
    OBVIOUS
  <2>2. g \in FrameSet /\ FrameIs(g, Top(c).job, "help", Top(c).todo, Top(c).ready, j, Z)
    BY <1>2, <2>1 DEF Pushed, FrameIs, FrameSet, Steps
  <2>3. <<g>> \o Tail(stack[c]) = [stack[c] EXCEPT ![1] = g]
    BY <1>1, <2>2, HeadExcept
  <2>4. Swaps(stack, c, g, stack')
    BY <1>3, <1>7, <2>1, <2>3 DEF Swaps, HelpFirst
  <2>5. \E p : Swapped(p, c, g)
    BY <1>1, <2>2, <2>4, SwapFrames
  <2> QED
    BY <1>7, <2>2, <2>5
<1> QED
  BY <1>4, <1>5, <1>6, <1>7

(* A job was found, by a context without a call or for a call.             *)
LEMMA FoundFrames ==
  ASSUME Typed, NEW c \in Contexts, NEW j \in Jobs, Found(c, j)
  PROVE  \/ stack[c] = <<>> /\ \E q : Called(q, c, RunFrame(j))
         \/ /\ stack[c] # <<>>
            /\ \E p, q, g :
                 /\ SwappedAndCalled(p, q, c, g, RunFrame(j))
                 /\ FrameIs(g, Top(c).job, "process", Top(c).todo, Top(c).ready, None, Top(c).freed)
<1>1. stack[c] \in Seq(FrameSet)
  BY DEF Typed
<1>2. RunFrame(j) \in FrameSet
  BY NewFrame DEF FrameIs, Steps
<1>3. CASE stack[c] = <<>>
  <2>1. Calls(stack, c, RunFrame(j), stack')
    BY <1>3 DEF Found, Calls
  <2> QED
    BY <1>2, <1>3, <2>1, CallFrames
<1>4. CASE stack[c] # <<>>
  <2>1. PICK h \in FrameSet : h = Top(c)
    BY <1>4, TopFrame
  <2>2. PICK g : g = [Top(c) EXCEPT !.pc = "process", !.full = None]
    OBVIOUS
  <2>3. g \in FrameSet /\ FrameIs(g, Top(c).job, "process", Top(c).todo, Top(c).ready, None, Top(c).freed)
    BY <2>1, <2>2 DEF FrameIs, FrameSet, Steps
  <2>4. Helped(c) = [stack[c] EXCEPT ![1] = g]
    BY <1>1, <1>4, <2>2, <2>3, HeadExcept DEF Helped
  <2>5. SwapsAndCalls(stack, c, g, RunFrame(j), stack')
    BY <1>4, <2>4 DEF Found, SwapsAndCalls
  <2>6. \E p, q : SwappedAndCalled(p, q, c, g, RunFrame(j))
    BY <1>2, <1>4, <2>3, <2>5, SwapCallFrames
  <2> QED
    BY <1>4, <2>3, <2>6
<1> QED
  BY <1>3, <1>4

(* The call that looked for a job tries again to push.                     *)
LEMMA HelpedFrames ==
  ASSUME Typed, NEW c \in Contexts, stack[c] # <<>>, stack' = [stack EXCEPT ![c] = Helped(c)]
  PROVE  \E p, g :
           /\ Swapped(p, c, g)
           /\ FrameIs(g, Top(c).job, "process", Top(c).todo, Top(c).ready, None, Top(c).freed)
<1>1. stack[c] \in Seq(FrameSet)
  BY DEF Typed
<1>2. PICK h \in FrameSet : h = Top(c)
  BY TopFrame
<1>3. PICK g : g = [Top(c) EXCEPT !.pc = "process", !.full = None]
  OBVIOUS
<1>4. g \in FrameSet /\ FrameIs(g, Top(c).job, "process", Top(c).todo, Top(c).ready, None, Top(c).freed)
  BY <1>2, <1>3 DEF FrameIs, FrameSet, Steps
<1>5. Helped(c) = [stack[c] EXCEPT ![1] = g]
  BY <1>1, <1>3, <1>4, HeadExcept DEF Helped
<1>6. Swaps(stack, c, g, stack')
  BY <1>5 DEF Swaps
<1>7. \E p : Swapped(p, c, g)
  BY <1>4, <1>6, SwapFrames
<1> QED
  BY <1>4, <1>7

(* submit() calls process().                                               *)
LEMMA SubmitFrames ==
  ASSUME Typed, NEW S \in SUBSET Jobs, Submit(S)
  PROVE  /\ stack[Main] = <<>>
         /\ \E q, f : /\ Called(q, Main, f)
                      /\ FrameIs(f, None, "process", {j \in S : deps[j] = 0}, {}, None,
                           [k \in Classes |-> 0])
<1>1. stack[Main] = <<>>
  BY DEF Submit, Idle
<1>2. PICK f : f = Frame(None, "process", {j \in S : deps[j] = 0})
  OBVIOUS
<1>3. {j \in S : deps[j] = 0} \in SUBSET Jobs
  OBVIOUS
<1>4. f \in FrameSet /\ FrameIs(f, None, "process", {j \in S : deps[j] = 0}, {}, None, [k \in Classes |-> 0])
  BY <1>2, <1>3, NewFrame DEF FrameIs, Steps
<1>5. Main \in Contexts /\ Calls(stack, Main, f, stack')
  BY <1>2 DEF Submit, Enter, Calls, Contexts
<1>6. \E q : Called(q, Main, f)
  BY <1>4, <1>5, CallFrames
<1> QED
  BY <1>1, <1>4, <1>6

(* The newest job of the worker's queue is run.                            *)
LEMMA LocalFrames ==
  ASSUME Typed, NEW w \in Workers, FetchLocal(w), local[w] # <<>>
  PROVE  /\ stack[w] = <<>>
         /\ \E j \in Jobs : j = local[w][Len(local[w])] /\ \E q : Called(q, w, RunFrame(j))
<1>1. stack[w] = <<>>
  BY DEF FetchLocal, Idle
<1>2. local[w] \in Seq(Jobs) /\ Len(local[w]) \in 1..Len(local[w])
  BY EmptySeq DEF Typed
<1>3. PICK j \in Jobs : j = local[w][Len(local[w])]
  BY <1>2, ElementOfSeq
<1>4. RunFrame(j) \in FrameSet
  BY NewFrame DEF FrameIs, Steps
<1>5. w \in Contexts /\ Calls(stack, w, RunFrame(j), stack')
  BY <1>3 DEF FetchLocal, Enter, Calls, Contexts
<1>6. \E q : Called(q, w, RunFrame(j))
  BY <1>4, <1>5, CallFrames
<1> QED
  BY <1>1, <1>3, <1>6

(* A job returns.                                                          *)
LEMMA EventFrames ==
  ASSUME Typed, NEW c \in Contexts, SetEvent(c)
  PROVE  stack[c] # <<>> /\ Top(c).pc = "event" /\ \E p : Returned(p, c)
<1>1. stack[c] # <<>> /\ Top(c).pc = "event"
  BY DEF SetEvent, In
<1>2. Returns(stack, c, stack')
  BY DEF SetEvent, Returns
<1> QED
  BY <1>1, <1>2, ReturnFrames

-----------------------------------------------------------------------------
(* Types                                                                   *)

(* The steps of the main thread that do not touch jobs and queues.         *)
MainOnly ==
  \/ Look \/ EventCheck \/ EventWait \/ Block \/ Recheck \/ FutexWait \/ NodeCheck
  \/ Awake \/ Unblock \/ WakeAll \/ Join \/ Update \/ RequestStop
  \/ \E j \in Targets : Wait(j)

(* The steps.                                                              *)
LEMMA Cases ==
  ASSUME Next
  PROVE  \/ \E c \in Contexts : CallStep(c) \/ FetchStep(c)
         \/ \E w \in Workers : SemWait(w) \/ FetchLocal(w) \/ CheckStop(w)
         \/ \E S \in Batches : Submit(S)
         \/ MainOnly
BY DEF Next, Program, MainStep, WorkerStep, MainOnly, Contexts

(* What the program gives.                                                 *)
LEMMA ProgFacts ==
  ASSUME Typed
  PROVE  HighJobs \subseteq Jobs /\ SyncJobs \subseteq Jobs /\ Batches \subseteq SUBSET Jobs
         /\ Targets \subseteq Jobs
BY PoolAssumption DEF Typed, HighJobs, SyncJobs, Batches, Targets

(* The steps of the main thread that do not touch jobs and queues: what    *)
(* they leave alone.                                                       *)
LEMMA MainOnlyFacts ==
  ASSUME Typed, MainOnly
  PROVE  /\ Typed'
         /\ UNCHANGED <<state, deps, runner, global, local, stack, looking, prog>>
         /\ \A w \in Workers : at'[w] = at[w]
         /\ \A k \in Classes : sem'[k] >= sem[k]
<1> USE DEF Typed, Places, jobs, queues, sleeping, futex, base, waiting, Idle
<1>1. Main \notin Workers /\ Main \in Contexts
  BY ClassFacts DEF Contexts
<1>2. \A k \in Classes : Cardinality(WorkersOf(k)) \in Nat
  BY ClassFacts
<1>3. CASE Look
  <2>1. at' \in [Contexts -> Places] /\ \A w \in Workers : at'[w] = at[w]
    <3>1. PICK v \in {"program", "global"} : at' = [at EXCEPT ![Main] = v]
      BY <1>3 DEF Look
    <3> QED
      BY <1>1, <3>1
  <2>2. target' \in Jobs \cup {None}
    BY <1>3 DEF Look
  <2> QED
    BY <1>3, <2>1, <2>2 DEF Look
<1>4. CASE EventCheck
  BY <1>1, <1>4 DEF EventCheck
<1>5. CASE EventWait
  <2>1. at' \in [Contexts -> Places] /\ \A w \in Workers : at'[w] = at[w]
    BY <1>1, <1>5 DEF EventWait
  <2>2. event' \in [Workers -> BOOLEAN]
    BY <1>5 DEF EventWait
  <2>3. UNCHANGED <<state, deps, runner, global, local, stack, looking, prog, sem>>
    BY <1>5 DEF EventWait
  <2>4. Typed'
    BY <1>5, <2>1, <2>2, <2>3 DEF EventWait
  <2> QED
    BY <2>1, <2>3, <2>4
<1>6. CASE Block
  <2>1. at' \in [Contexts -> Places] /\ \A w \in Workers : at'[w] = at[w]
    BY <1>1, <1>6 DEF Block
  <2>2. blocked' \in BOOLEAN
    BY <1>6 DEF Block
  <2>3. UNCHANGED <<state, deps, runner, global, local, stack, looking, prog, sem>>
    BY <1>6 DEF Block
  <2>4. Typed'
    BY <1>6, <2>1, <2>2, <2>3 DEF Block
  <2> QED
    BY <2>1, <2>3, <2>4
<1>7. CASE Recheck
  BY <1>1, <1>7 DEF Recheck
<1>8. CASE FutexWait
  BY <1>1, <1>8 DEF FutexWait
<1>9. CASE NodeCheck
  BY <1>1, <1>9 DEF NodeCheck
<1>10. CASE Awake
  <2>1. at' \in [Contexts -> Places] /\ \A w \in Workers : at'[w] = at[w]
    BY <1>1, <1>10 DEF Awake
  <2>2. signalled' \in BOOLEAN
    BY <1>10 DEF Awake
  <2> QED
    BY <1>10, <2>1, <2>2 DEF Awake
<1>11. CASE Unblock
  <2>1. at' \in [Contexts -> Places] /\ \A w \in Workers : at'[w] = at[w]
    BY <1>1, <1>11 DEF Unblock
  <2>2. blocked' \in BOOLEAN
    BY <1>11 DEF Unblock
  <2> QED
    BY <1>11, <2>1, <2>2 DEF Unblock
<1>12. CASE WakeAll
  BY <1>1, <1>2, <1>12 DEF WakeAll
<1>13. CASE Join
  BY <1>1, <1>13 DEF Join
<1>14. CASE Update
  BY <1>1, <1>14 DEF Update
<1>15. CASE RequestStop
  BY <1>1, <1>15 DEF RequestStop
<1>16. CASE \E j \in Targets : Wait(j)
  <2>1. PICK j \in Jobs : Wait(j)
    BY <1>16, ProgFacts
  <2>2. at' \in [Contexts -> Places] /\ \A w \in Workers : at'[w] = at[w]
    BY <1>1, <2>1 DEF Wait
  <2> QED
    BY <2>1, <2>2 DEF Wait
<1> QED
  BY <1>3, <1>4, <1>5, <1>6, <1>7, <1>8, <1>9, <1>10, <1>11, <1>12, <1>13, <1>14, <1>15,
     <1>16 DEF MainOnly

(* The steps of run() and process().                                       *)
LEMMA CallTyped ==
  ASSUME Typed, NEW c \in Contexts, CallStep(c)
  PROVE  Typed'
<1> USE DEF jobs, queues, sleeping, futex, base, waiting, In
<1>1. CASE Execute(c)
  <2>1. stack' \in [Contexts -> Seq(FrameSet)]
    BY <1>1, GotoFrames DEF Execute, Steps, Swapped
  <2>2. state' \in [Jobs -> {"clear", "submitted", "processing", "executing", "done"}]
    BY <1>1 DEF Execute, Typed
  <2>3. deps' \in [Jobs -> Int]
    <3>1. deps' = [deps EXCEPT ![Top(c).job] = 0]
      BY <1>1 DEF Execute
    <3>2. deps \in [Jobs -> Int]
      BY DEF Typed
    <3>3. PICK z \in Int : z = 0
      OBVIOUS
    <3> QED
      BY <3>1, <3>2, <3>3
  <2>4. runner' \in [Jobs -> Contexts \cup {None}]
    BY <1>1 DEF Execute, Typed
  <2> QED
    BY <1>1, <2>1, <2>2, <2>3, <2>4 DEF Execute, Typed
<1>2. CASE WakeBlocked(c)
  <2>1. stack' \in [Contexts -> Seq(FrameSet)]
    BY <1>2, GotoFrames DEF WakeBlocked, Steps, Swapped
  <2> QED
    BY <1>2, <2>1 DEF WakeBlocked, Typed
<1>3. CASE FutexWake(c)
  <2>1. stack' \in [Contexts -> Seq(FrameSet)]
    BY <1>3, GotoFrames DEF FutexWake, Steps, Swapped
  <2> QED
    BY <1>3, <2>1 DEF FutexWake, Typed
<1>4. CASE Finalize(c)
  <2>1. stack' \in [Contexts -> Seq(FrameSet)]
    BY <1>4, GotoFrames DEF Finalize, Steps, Swapped
  <2> QED
    BY <1>4, <2>1 DEF Finalize, Typed
<1>5. CASE SignalEdges(c)
  <2>1. stack' \in [Contexts -> Seq(FrameSet)]
    BY <1>5, SignalFrames DEF Swapped
  <2>2. deps' \in [Jobs -> Int]
    BY <1>5 DEF SignalEdges, Typed
  <2> QED
    BY <1>5, <2>1, <2>2 DEF SignalEdges, Typed
<1>6. CASE SetEvent(c)
  <2>1. stack' \in [Contexts -> Seq(FrameSet)]
    BY <1>6, EventFrames DEF Returned
  <2>2. event' \in [Workers -> BOOLEAN]
    BY <1>6 DEF SetEvent, Typed
  <2> QED
    BY <1>6, <2>1, <2>2 DEF SetEvent, Typed
<1>7. CASE Mark(c)
  <2>1. stack' \in [Contexts -> Seq(FrameSet)]
    BY <1>7, MarkFrames DEF Swapped
  <2> QED
    BY <1>7, <2>1 DEF Mark, Typed
<1>8. CASE RunSync(c)
  <2>1. stack' \in [Contexts -> Seq(FrameSet)]
        /\ \E j \in Top(c).todo : state' = [state EXCEPT ![j] = "processing"]
    BY <1>8, RunSyncFrames DEF SwappedAndCalled
  <2> QED
    BY <1>8, <2>1 DEF RunSync, Typed
<1>9. CASE Push(c)
  <2>1. PICK j \in Top(c).ready : Enqueue(c, j, UsesLocal(c, j))
    BY <1>9 DEF Push
  <2>2. stack' \in [Contexts -> Seq(FrameSet)]
    BY <1>9, <2>1, PushFrames DEF Push, Swapped
  <2>3. j \in Jobs
    BY <1>9, TopFrame DEF FrameSet, Push
  <2>4. global' \in [Classes -> Seq(Jobs)] /\ local' \in [Workers -> Seq(Jobs)]
    <3>1. CASE UsesLocal(c, j)
      <4>1. c \in Workers /\ Append(local[c], j) \in Seq(Jobs)
        BY <2>3, <3>1 DEF Typed, UsesLocal
      <4> QED
        BY <2>1, <3>1, <4>1 DEF Enqueue, Typed
    <3>2. CASE ~UsesLocal(c, j)
      <4>1. JobClass(j) \in Classes
        BY ClassFacts
      <4>2. Append(global[JobClass(j)], j) \in Seq(Jobs)
        BY <2>3, <4>1 DEF Typed
      <4> QED
        BY <2>1, <3>2, <4>1, <4>2 DEF Enqueue, Typed
    <3> QED
      BY <3>1, <3>2
  <2> QED
    BY <1>9, <2>2, <2>4 DEF Push, Typed
<1>10. CASE StopPushing(c)
  <2>1. stack' \in [Contexts -> Seq(FrameSet)]
    BY <1>10, StopFrames DEF Swapped
  <2> QED
    BY <1>10, <2>1 DEF StopPushing, Typed
<1>11. CASE Release(c)
  <2>1. stack' \in [Contexts -> Seq(FrameSet)]
    BY <1>11, ReleaseFrames DEF Swapped, SwappedAndCalled, Returned
  <2>2. \A k \in Classes : Permits(c, k) \in Nat
    BY <1>11, PermitsFacts DEF Release
  <2>3. sem' \in [Classes -> Nat]
    BY <1>11, <2>2 DEF Release, Typed
  <2> QED
    BY <1>11, <2>1, <2>3 DEF Release, Typed
<1>12. CASE HelpWake(c)
  <2>1. stack' \in [Contexts -> Seq(FrameSet)]
    BY <1>12, GotoFrames DEF HelpWake, Steps, Swapped
  <2>2. sem' \in [Classes -> Nat]
    <3>1. PICK k \in Classes :
            sem' = [sem EXCEPT ![k] = IF sem[k] < MaxPermits THEN sem[k] + 1 ELSE sem[k]]
      BY <1>12, ClassFacts DEF HelpWake
    <3>2. sem \in [Classes -> Nat] /\ sem[k] + 1 \in Nat
      BY DEF Typed
    <3> QED
      BY <3>1, <3>2
  <2> QED
    BY <1>12, <2>1, <2>2 DEF HelpWake, Typed
<1> QED
  BY <1>1, <1>2, <1>3, <1>4, <1>5, <1>6, <1>7, <1>8, <1>9, <1>10, <1>11, <1>12 DEF CallStep

(* Looking for a job.                                                      *)
LEMMA FetchTyped ==
  ASSUME Typed, NEW c \in Contexts, FetchStep(c)
  PROVE  Typed'
<1> USE DEF jobs, queues, sleeping, futex, base, waiting, In, Idle
<1>1. ASSUME NEW j \in Jobs, Found(c, j)
      PROVE  /\ stack' \in [Contexts -> Seq(FrameSet)]
             /\ at' \in [Contexts -> Places] /\ looking' \in [Contexts -> Classes]
             /\ UNCHANGED <<jobs, sleeping, stop, waiting>>
  <2>1. stack' \in [Contexts -> Seq(FrameSet)]
    BY <1>1, FoundFrames DEF Called, SwappedAndCalled
  <2>2. Again(c) \in Places
    BY DEF Again, Places
  <2> QED
    BY <1>1, <2>1, <2>2 DEF Found, Typed, Classes
<1>2. ASSUME NEW j \in Jobs, NEW k \in Classes, TakeGlobal(k, j)
      PROVE  global' \in [Classes -> Seq(Jobs)] /\ local' = local
  <2>1. global[k] \in Seq(Jobs) /\ global[k] # <<>>
    BY <1>2 DEF TakeGlobal, Typed
  <2>2. Tail(global[k]) \in Seq(Jobs)
    BY <2>1, HeadTailProperties
  <2> QED
    BY <1>2, <2>2 DEF TakeGlobal, Typed
<1>3. ASSUME NEW j \in Jobs, NEW k \in Classes, TakePeer(c, k, j)
      PROVE  local' \in [Workers -> Seq(Jobs)] /\ global' = global
  <2>1. PICK v \in WorkersOf(k) : local[v] # <<>> /\ local' = [local EXCEPT ![v] = Tail(local[v])]
    BY <1>3 DEF TakePeer
  <2>2. v \in Workers /\ local[v] \in Seq(Jobs)
    BY ClassFacts DEF Typed
  <2>3. Tail(local[v]) \in Seq(Jobs)
    BY <2>1, <2>2, HeadTailProperties
  <2> QED
    BY <1>3, <2>1, <2>2, <2>3 DEF TakePeer, Typed
<1>4. looking[c] \in Classes
  BY DEF Typed
<1>5. CASE FetchGlobal(c)
  <2>1. CASE \E j \in Jobs : TakeGlobal(looking[c], j) /\ Found(c, j)
    BY <1>1, <1>2, <1>4, <2>1 DEF Typed
  <2>2. CASE Search(c, "steal") /\ UNCHANGED <<jobs, queues, sleeping, stop, looking, waiting>>
    <3>1. CASE stack[c] = <<>>
      BY <2>2, <3>1 DEF Search, Typed, Places
    <3>2. CASE stack[c] # <<>>
      <4>1. stack' \in [Contexts -> Seq(FrameSet)]
        BY <2>2, <3>2, GotoFrames DEF Search, Steps, Swapped
      <4> QED
        BY <2>2, <3>2, <4>1 DEF Search, Typed
    <3> QED
      BY <3>1, <3>2
  <2> QED
    BY <1>5, <2>1, <2>2 DEF FetchGlobal
<1>6. CASE FetchPeer(c)
  BY <1>1, <1>3, <1>4, <1>6 DEF FetchPeer, Typed
<1>7. CASE NotFound(c)
  <2>1. CASE stack[c] = <<>>
    <3>1. at' \in [Contexts -> Places]
      <4>1. PICK v \in Places : at' = [at EXCEPT ![c] = v]
        BY <1>7, <2>1 DEF NotFound, Places
      <4> QED
        BY <4>1 DEF Typed
    <3>2. looking' \in [Contexts -> Classes]
      <4>1. PICK v : looking' = [looking EXCEPT ![c] = v] /\ (v = "high" \/ v = "low" \/ v = looking[c])
        BY <1>7, <2>1 DEF NotFound
      <4>2. v \in Classes
        BY <4>1 DEF Typed, Classes
      <4> QED
        BY <4>1, <4>2 DEF Typed
    <3> QED
      BY <1>7, <2>1, <3>1, <3>2 DEF NotFound, Typed
  <2>2. CASE stack[c] # <<>>
    <3>1. stack' \in [Contexts -> Seq(FrameSet)]
      BY <1>7, <2>2, HelpedFrames DEF NotFound, Swapped
    <3> QED
      BY <1>7, <2>2, <3>1 DEF NotFound, Typed
  <2> QED
    BY <2>1, <2>2
<1> QED
  BY <1>5, <1>6, <1>7 DEF FetchStep

(* All steps.                                                              *)
LEMMA TypedStep ==
  ASSUME Typed, [Next]_vars
  PROVE  Typed'
<1> USE DEF jobs, queues, sleeping, futex, base, waiting, Idle
<1>1. CASE UNCHANGED vars
  BY <1>1 DEF vars, Typed
<1>2. ASSUME NEW w \in Workers, SemWait(w) PROVE Typed'
  <2>1. PICK k \in Classes : k = ClassOf(w)
    BY ClassFacts
  <2>2. sem \in [Classes -> Nat] /\ sem[k] > 0 /\ sem' = [sem EXCEPT ![k] = sem[k] - 1]
    BY <1>2, <2>1 DEF SemWait, Typed
  <2>3. sem' \in [Classes -> Nat]
    BY <2>2
  <2> QED
    BY <1>2, <2>3 DEF SemWait, Typed, Places
<1>3. ASSUME NEW w \in Workers, FetchLocal(w) PROVE Typed'
  <2>1. CASE local[w] = <<>>
    BY <1>3, <2>1 DEF FetchLocal, Typed, Places
  <2>2. CASE local[w] # <<>>
    <3>1. stack' \in [Contexts -> Seq(FrameSet)]
      BY <1>3, <2>2, LocalFrames DEF Called
    <3>2. local[w] \in Seq(Jobs) /\ Len(local[w]) - 1 \in Nat
      BY <2>2, EmptySeq DEF Typed
    <3>3. SubSeq(local[w], 1, Len(local[w]) - 1) \in Seq(Jobs)
      BY <3>2
    <3> QED
      BY <1>3, <2>2, <3>1, <3>3 DEF FetchLocal, Typed
  <2> QED
    BY <2>1, <2>2
<1>4. ASSUME NEW w \in Workers, CheckStop(w) PROVE Typed'
  BY <1>4 DEF CheckStop, Typed, Places
<1>5. ASSUME NEW S \in Batches, Submit(S) PROVE Typed'
  <2>1. S \in SUBSET Jobs
    BY ProgFacts
  <2>2. stack' \in [Contexts -> Seq(FrameSet)]
    BY <1>5, <2>1, SubmitFrames DEF Called
  <2> QED
    BY <1>5, <2>1, <2>2 DEF Submit, Typed
<1> QED
  BY <1>1, <1>2, <1>3, <1>4, <1>5, Cases, CallTyped, FetchTyped, MainOnlyFacts

-----------------------------------------------------------------------------
(* Somebody will look at a queue with jobs                                 *)

(* What supports a queue of class k, unless a step takes it away.          *)
LEMMA SupportKept ==
  ASSUME Typed, Typed', NEW k \in Classes, Support(k), sem'[k] >= sem[k],
         \A w \in WorkersOf(k) : at[w] \in {"local", "global"} => at'[w] \in {"local", "global"},
         \A x \in Pos : Fr(x).freed[k] > 0 => x \in Pos' /\ (Fr(x)').freed[k] > 0
  PROVE  Support(k)'
<1>1. sem[k] \in Nat /\ sem'[k] \in Nat
  BY DEF Typed
<1>2. CASE sem[k] > 0
  <2>1. sem'[k] > 0
    BY <1>1, <1>2
  <2> QED
    BY <2>1 DEF Support
<1>3. CASE \E w \in WorkersOf(k) : at[w] \in {"local", "global"}
  <2>1. \E w \in WorkersOf(k) : at'[w] \in {"local", "global"}
    BY <1>3
  <2> QED
    BY <2>1 DEF Support, WorkersOf
<1>4. CASE \E x \in Pos : Fr(x).freed[k] > 0
  <2>1. \E x \in Pos' : (Fr(x)').freed[k] > 0
    BY <1>4
  <2> QED
    BY <2>1 DEF Support
<1> QED
  BY <1>2, <1>3, <1>4 DEF Support

(* The workers other than the context that takes the step.                 *)
LEMMA WorkersKept ==
  ASSUME WorkerInv, NEW c \in Contexts,
         \A e \in Contexts \ {c} : stack'[e] = stack[e] /\ at'[e] = at[e] /\ looking'[e] = looking[e],
         \A w \in Workers \ {c} : local'[w] # <<>> => local[w] # <<>>,
         c \in Workers => /\ looking'[c] = looking[c]
                          /\ stack'[c] # <<>> \/ local'[c] # <<>> => at'[c] = "local"
  PROVE  WorkerInv'
<1>1. ASSUME NEW w \in Workers
      PROVE  looking'[w] = ClassOf(w) /\ (stack'[w] # <<>> => at'[w] = "local")
             /\ (local'[w] # <<>> => at'[w] = "local")
  BY DEF WorkerInv, Contexts
<1> QED
  BY <1>1 DEF WorkerInv, ClassOf

(* A step within a call that pushes nothing.                               *)
LEMMA WakeSwap ==
  ASSUME WakeIInv, Typed', NEW c \in Contexts, stack[c] # <<>>, NEW p, NEW g,
         Swapped(p, c, g), g.freed = Top(c).freed,
         Top(c).pc \in {"process", "release"} => g.pc \in {"process", "release"},
         UNCHANGED <<global, local, at, looking>>, \A k \in Classes : sem'[k] >= sem[k]
  PROVE  WakeIInv'
<1>1. Typed /\ WorkerInv /\ FreedInv /\ WakeInv
  BY DEF WakeIInv
<1>2. WorkerInv'
  BY <1>1, WorkersKept DEF WorkerInv, Swapped
<1>3. FreedInv'
  <2>1. ASSUME NEW x \in Pos', (Fr(x)').pc \notin {"process", "release"}, NEW k \in Classes
        PROVE  (Fr(x)').freed[k] = 0
    BY <1>1, <2>1 DEF Swapped, FreedInv
  <2> QED
    BY <2>1 DEF FreedInv
<1>4. WakeInv'
  <2>1. ASSUME NEW k \in Classes, WorkersOf(k) # {}, global'[k] # <<>> PROVE Support(k)'
    <3>1. \A x \in Pos : Fr(x).freed[k] > 0 => x \in Pos' /\ (Fr(x)').freed[k] > 0
      BY DEF Swapped
    <3> QED
      BY <1>1, <2>1, <3>1, SupportKept DEF WakeInv
  <2> QED
    BY <2>1 DEF WakeInv, WorkersOf
<1> QED
  BY <1>2, <1>3, <1>4 DEF WakeIInv

(* A call of run() for a job that was found, or of process().              *)
LEMMA WakeCall ==
  ASSUME WakeIInv, Typed', NEW c \in Contexts, NEW q, NEW f, Called(q, c, f),
         \A k \in Classes : f.freed[k] = 0,
         c \in Workers => at'[c] = "local", looking'[c] = looking[c] \/ c = Main,
         \A e \in Contexts \ {c} : at'[e] = at[e] /\ looking'[e] = looking[e],
         \A w \in Workers : local'[w] # <<>> => local[w] # <<>>,
         \A k \in Classes : global'[k] # <<>> => global[k] # <<>>,
         \A k \in Classes : sem'[k] >= sem[k]
  PROVE  WakeIInv'
<1>1. Typed /\ WorkerInv /\ FreedInv /\ WakeInv /\ Main \notin Workers
  BY ClassFacts DEF WakeIInv
<1>2. WorkerInv'
  BY <1>1, WorkersKept DEF Called
<1>3. FreedInv'
  <2>1. ASSUME NEW x \in Pos', (Fr(x)').pc \notin {"process", "release"}, NEW k \in Classes
        PROVE  (Fr(x)').freed[k] = 0
    BY <1>1, <2>1 DEF Called, FreedInv
  <2> QED
    BY <2>1 DEF FreedInv
<1>4. WakeInv'
  <2>1. ASSUME NEW k \in Classes, WorkersOf(k) # {}, global'[k] # <<>> PROVE Support(k)'
    <3>1. \A x \in Pos : Fr(x).freed[k] > 0 => x \in Pos' /\ (Fr(x)').freed[k] > 0
      BY DEF Called
    <3>2. \A w \in WorkersOf(k) : at[w] \in {"local", "global"} => at'[w] \in {"local", "global"}
      BY ClassFacts DEF Contexts
    <3> QED
      BY <1>1, <2>1, <3>1, <3>2, SupportKept DEF WakeInv
  <2> QED
    BY <2>1 DEF WakeInv, WorkersOf
<1> QED
  BY <1>2, <1>3, <1>4 DEF WakeIInv

(* The same, made by process().                                            *)
LEMMA WakeSwapCall ==
  ASSUME WakeIInv, Typed', NEW c \in Contexts, stack[c] # <<>>, NEW p, NEW q, NEW g, NEW f,
         SwappedAndCalled(p, q, c, g, f), g.freed = Top(c).freed, g.pc = "process",
         \A k \in Classes : f.freed[k] = 0,
         at' = at, looking'[c] = looking[c] \/ c = Main,
         \A e \in Contexts \ {c} : looking'[e] = looking[e],
         \A w \in Workers : local'[w] # <<>> => local[w] # <<>>,
         \A k \in Classes : global'[k] # <<>> => global[k] # <<>>,
         \A k \in Classes : sem'[k] >= sem[k]
  PROVE  WakeIInv'
<1>1. Typed /\ WorkerInv /\ FreedInv /\ WakeInv /\ Main \notin Workers
  BY ClassFacts DEF WakeIInv
<1>2. WorkerInv'
  <2>1. c \in Workers => at'[c] = "local"
    BY <1>1 DEF WorkerInv
  <2> QED
    BY <1>1, <2>1, WorkersKept DEF SwappedAndCalled
<1>3. FreedInv'
  <2>1. ASSUME NEW x \in Pos', (Fr(x)').pc \notin {"process", "release"}, NEW k \in Classes
        PROVE  (Fr(x)').freed[k] = 0
    BY <1>1, <2>1 DEF SwappedAndCalled, FreedInv
  <2> QED
    BY <2>1 DEF FreedInv
<1>4. WakeInv'
  <2>1. ASSUME NEW k \in Classes, WorkersOf(k) # {}, global'[k] # <<>> PROVE Support(k)'
    <3>1. \A x \in Pos : Fr(x).freed[k] > 0 => x \in Pos' /\ (Fr(x)').freed[k] > 0
      BY DEF SwappedAndCalled
    <3> QED
      BY <1>1, <2>1, <3>1, SupportKept DEF WakeInv
  <2> QED
    BY <2>1 DEF WakeInv, WorkersOf
<1> QED
  BY <1>2, <1>3, <1>4 DEF WakeIInv

(* A step with a pushed job.                                               *)
LEMMA WakePush ==
  ASSUME WakeIInv, Typed', NEW c \in Contexts, Push(c)
  PROVE  WakeIInv'
<1>1. Typed /\ WorkerInv /\ FreedInv /\ WakeInv /\ stack[c] # <<>> /\ Top(c).pc = "process"
  BY DEF WakeIInv, Push, In
<1>2. PICK j \in Top(c).ready : Enqueue(c, j, UsesLocal(c, j))
  BY DEF Push
<1>3. PICK p, g : /\ Swapped(p, c, g)
                  /\ FrameIs(g, Top(c).job, "process", Top(c).todo, Top(c).ready \ {j}, Top(c).full,
                       [Top(c).freed EXCEPT ![JobClass(j)] = Top(c).freed[JobClass(j)] + 1])
  BY <1>1, <1>2, PushFrames
<1>4. UNCHANGED <<at, looking, sem>>
  BY DEF Push, sleeping, base
<1>5. \A w \in Workers \ {c} : local'[w] = local[w]
  BY <1>1, <1>2 DEF Enqueue, Typed
<1>6. WorkerInv'
  <2>1. c \in Workers => at'[c] = "local"
    BY <1>1, <1>4 DEF WorkerInv
  <2> QED
    BY <1>1, <1>3, <1>4, <1>5, <2>1, WorkersKept DEF Swapped
<1>7. FreedInv'
  <2>1. ASSUME NEW x \in Pos', (Fr(x)').pc \notin {"process", "release"}, NEW k \in Classes
        PROVE  (Fr(x)').freed[k] = 0
    BY <1>1, <1>3, <2>1 DEF Swapped, FreedInv, FrameIs
  <2> QED
    BY <2>1 DEF FreedInv
<1>8. ASSUME NEW k \in Classes
      PROVE  /\ Top(c).freed[k] \in Nat
             /\ g.freed[k] = IF k = JobClass(j) THEN Top(c).freed[k] + 1 ELSE Top(c).freed[k]
  BY <1>1, <1>3, TopFrame DEF FrameIs, FrameSet
<1>9. WakeInv'
  <2>1. ASSUME NEW k \in Classes, WorkersOf(k) # {}, global'[k] # <<>> PROVE Support(k)'
    <3>1. CASE k = JobClass(j)
      <4>1. p \in Pos' /\ (Fr(p)').freed[k] > 0
        BY <1>3, <1>8, <3>1 DEF Swapped
      <4> QED
        BY <4>1 DEF Support
    <3>2. CASE k # JobClass(j)
      <4>1. global'[k] = global[k]
        BY <1>1, <1>2, <3>2 DEF Enqueue, Typed
      <4>2. \A x \in Pos : Fr(x).freed[k] > 0 => x \in Pos' /\ (Fr(x)').freed[k] > 0
        BY <1>3, <1>8, <3>2 DEF Swapped
      <4>3. sem'[k] >= sem[k]
        BY <1>1, <1>4 DEF Typed
      <4> QED
        BY <1>1, <1>4, <2>1, <4>1, <4>2, <4>3, SupportKept DEF WakeInv
    <3> QED
      BY <3>1, <3>2
  <2> QED
    BY <2>1 DEF WakeInv, WorkersOf
<1> QED
  BY <1>6, <1>7, <1>9 DEF WakeIInv

(* The permits are released.                                               *)
LEMMA WakeRelease ==
  ASSUME WakeIInv, Typed', NEW c \in Contexts, Release(c)
  PROVE  WakeIInv'
<1>1. Typed /\ WorkerInv /\ FreedInv /\ WakeInv /\ stack[c] # <<>> /\ Top(c).pc = "release"
  BY DEF WakeIInv, Release, In
<1>2. UNCHANGED <<at, looking, global, local>>
  BY DEF Release, queues, base
<1>3. \A k \in Classes : /\ sem[k] \in Nat /\ Top(c).freed[k] \in Nat
                         /\ sem'[k] = sem[k] + Permits(c, k) /\ Permits(c, k) \in Nat
                         /\ WorkersOf(k) # {} /\ Top(c).freed[k] > 0 => Permits(c, k) > 0
  <2>1. \A k \in Classes : /\ Permits(c, k) \in Nat
                           /\ WorkersOf(k) # {} /\ Top(c).freed[k] > 0 => Permits(c, k) > 0
    BY <1>1, PermitsFacts
  <2>2. \A k \in Classes : Top(c).freed[k] \in Nat
    BY <1>1, TopFrame DEF FrameSet
  <2>3. \A k \in Classes : sem[k] \in Nat /\ sem'[k] = sem[k] + Permits(c, k)
    BY <1>1 DEF Release, Typed
  <2> QED
    BY <2>1, <2>2, <2>3
<1>4. \A k \in Classes : /\ sem'[k] >= sem[k]
                         /\ WorkersOf(k) # {} /\ Top(c).freed[k] > 0 => sem'[k] > 0
  BY <1>3
<1>5. PICK p \in Pos :
        /\ Fr(p) = Top(c)
        /\ \A x \in Pos \ {p} : x \in Pos' /\ Fr(x)' = Fr(x)
        /\ \A x \in Pos' : x \notin Pos \ {p} => \A k \in Classes : (Fr(x)').freed[k] = 0
        /\ stack' \in [Contexts -> Seq(FrameSet)]
        /\ \A e \in Contexts \ {c} : stack'[e] = stack[e]
  <2>1. CASE \E p : Returned(p, c)
    BY <2>1 DEF Returned
  <2>2. CASE \E p, g, s : /\ Swapped(p, c, g)
                       /\ FrameIs(g, Top(c).job, s, Top(c).todo, Top(c).ready, None,
                            [k \in Classes |-> 0])
    BY <2>2 DEF Swapped, FrameIs
  <2>3. CASE \E p, q, g, r : /\ SwappedAndCalled(p, q, c, g, RunFrame(Top(c).full))
                       /\ FrameIs(g, Top(c).job, "process", Top(c).todo, r, None,
                            [k \in Classes |-> 0])
    BY <2>3 DEF SwappedAndCalled, FrameIs, RunFrame, Frame
  <2>4. CASE \E p, g : /\ Swapped(p, c, g)
                       /\ FrameIs(g, Top(c).job, "help", Top(c).todo, Top(c).ready, Top(c).full,
                            [k \in Classes |-> 0])
    BY <2>4 DEF Swapped, FrameIs
  <2> QED
    BY <1>1, <2>1, <2>2, <2>3, <2>4, ReleaseFrames
<1>6. WorkerInv'
  <2>1. c \in Workers => at'[c] = "local"
    BY <1>1, <1>2 DEF WorkerInv
  <2> QED
    BY <1>1, <1>2, <1>5, <2>1, WorkersKept
<1>7. FreedInv'
  <2>1. ASSUME NEW x \in Pos', (Fr(x)').pc \notin {"process", "release"}, NEW k \in Classes
        PROVE  (Fr(x)').freed[k] = 0
    BY <1>1, <1>5, <2>1 DEF FreedInv
  <2> QED
    BY <2>1 DEF FreedInv
<1>8. WakeInv'
  <2>1. ASSUME NEW k \in Classes, WorkersOf(k) # {}, global'[k] # <<>> PROVE Support(k)'
    <3>1. CASE Top(c).freed[k] > 0
      BY <1>4, <2>1, <3>1 DEF Support
    <3>2. CASE ~(Top(c).freed[k] > 0)
      <4>1. \A x \in Pos : Fr(x).freed[k] > 0 => x \in Pos' /\ (Fr(x)').freed[k] > 0
        BY <1>5, <3>2
      <4> QED
        BY <1>1, <1>2, <1>4, <2>1, <4>1, SupportKept DEF WakeInv
    <3> QED
      BY <3>1, <3>2
  <2> QED
    BY <2>1 DEF WakeInv, WorkersOf
<1> QED
  BY <1>6, <1>7, <1>8 DEF WakeIInv

(* The end of run().                                                       *)
LEMMA WakeEvent ==
  ASSUME WakeIInv, Typed', NEW c \in Contexts, SetEvent(c)
  PROVE  WakeIInv'
<1>1. Typed /\ WorkerInv /\ FreedInv /\ WakeInv
  BY DEF WakeIInv
<1>2. UNCHANGED <<at, looking, global, local, sem>>
  BY DEF SetEvent, queues, base
<1>3. PICK p : Returned(p, c) /\ stack[c] # <<>> /\ Top(c).pc = "event"
  BY <1>1, EventFrames
<1>4. \A k \in Classes : Fr(p).freed[k] = 0
  BY <1>1, <1>3 DEF FreedInv, Returned
<1>5. WorkerInv'
  <2>1. c \in Workers => at'[c] = "local"
    BY <1>1, <1>2, <1>3 DEF WorkerInv
  <2> QED
    BY <1>1, <1>2, <1>3, <2>1, WorkersKept DEF Returned
<1>6. FreedInv'
  <2>1. ASSUME NEW x \in Pos', (Fr(x)').pc \notin {"process", "release"}, NEW k \in Classes
        PROVE  (Fr(x)').freed[k] = 0
    BY <1>1, <1>3, <2>1 DEF FreedInv, Returned
  <2> QED
    BY <2>1 DEF FreedInv
<1>7. WakeInv'
  <2>1. ASSUME NEW k \in Classes, WorkersOf(k) # {}, global'[k] # <<>> PROVE Support(k)'
    <3>1. \A x \in Pos : Fr(x).freed[k] > 0 => x \in Pos' /\ (Fr(x)').freed[k] > 0
      BY <1>3, <1>4 DEF Returned
    <3>2. sem'[k] >= sem[k]
      BY <1>1, <1>2 DEF Typed
    <3> QED
      BY <1>1, <1>2, <2>1, <3>1, <3>2, SupportKept DEF WakeInv
  <2> QED
    BY <2>1 DEF WakeInv, WorkersOf
<1> QED
  BY <1>5, <1>6, <1>7 DEF WakeIInv

(* The steps of run() and process().                                       *)
LEMMA WakeCallStep ==
  ASSUME WakeIInv, NEW c \in Contexts, CallStep(c)
  PROVE  WakeIInv'
<1>1. Typed /\ Typed' /\ FreedInv
  BY CallTyped DEF WakeIInv
<1>2. \A k \in Classes : sem' = sem => sem'[k] >= sem[k]
  BY <1>1 DEF Typed
<1>3. CASE Execute(c)
  <2>1. UNCHANGED <<global, local, at, looking, sem>> /\ stack[c] # <<>> /\ Top(c).pc = "execute"
    BY <1>3 DEF Execute, queues, sleeping, base, In
  <2> QED
    BY <1>1, <1>2, <1>3, <2>1, GotoFrames, WakeSwap DEF Execute, Steps, FrameIs
<1>4. CASE WakeBlocked(c)
  <2>1. UNCHANGED <<global, local, at, looking, sem>> /\ stack[c] # <<>> /\ Top(c).pc = "wake"
    BY <1>4 DEF WakeBlocked, queues, sleeping, base, In
  <2> QED
    BY <1>1, <1>2, <1>4, <2>1, GotoFrames, WakeSwap DEF WakeBlocked, Steps, FrameIs
<1>5. CASE FutexWake(c)
  <2>1. UNCHANGED <<global, local, at, looking, sem>> /\ stack[c] # <<>> /\ Top(c).pc = "futex"
    BY <1>5 DEF FutexWake, queues, sleeping, base, In
  <2> QED
    BY <1>1, <1>2, <1>5, <2>1, GotoFrames, WakeSwap DEF FutexWake, Steps, FrameIs
<1>6. CASE Finalize(c)
  <2>1. UNCHANGED <<global, local, at, looking, sem>> /\ stack[c] # <<>> /\ Top(c).pc = "body"
    BY <1>6 DEF Finalize, queues, sleeping, base, In
  <2> QED
    BY <1>1, <1>2, <1>6, <2>1, GotoFrames, WakeSwap DEF Finalize, Steps, FrameIs
<1>7. CASE SignalEdges(c)
  <2>1. UNCHANGED <<global, local, at, looking, sem>> /\ stack[c] # <<>>
    BY <1>7 DEF SignalEdges, queues, sleeping, base, In
  <2> QED
    BY <1>1, <1>2, <1>7, <2>1, SignalFrames, WakeSwap DEF FrameIs
<1>8. CASE SetEvent(c)
  BY <1>1, <1>8, WakeEvent
<1>9. CASE Mark(c)
  <2>1. UNCHANGED <<global, local, at, looking, sem>> /\ stack[c] # <<>>
    BY <1>9 DEF Mark, queues, sleeping, base, In
  <2> QED
    BY <1>1, <1>2, <1>9, <2>1, MarkFrames, WakeSwap DEF FrameIs
<1>10. CASE RunSync(c)
  <2>1. UNCHANGED <<global, local, at, looking, sem>> /\ stack[c] # <<>>
    BY <1>10 DEF RunSync, queues, sleeping, base, In
  <2>2. \A j : \A k \in Classes : RunFrame(j).freed[k] = 0
    BY DEF RunFrame, Frame
  <2> QED
    BY <1>1, <1>2, <1>10, <2>1, <2>2, RunSyncFrames, WakeSwapCall DEF FrameIs
<1>11. CASE Push(c)
  BY <1>1, <1>11, WakePush
<1>12. CASE StopPushing(c)
  <2>1. UNCHANGED <<global, local, at, looking, sem>> /\ stack[c] # <<>>
    BY <1>12 DEF StopPushing, queues, sleeping, base, In
  <2> QED
    BY <1>1, <1>2, <1>12, <2>1, StopFrames, WakeSwap DEF FrameIs
<1>13. CASE Release(c)
  BY <1>1, <1>13, WakeRelease
<1>14. CASE HelpWake(c)
  <2>1. UNCHANGED <<global, local, at, looking>> /\ stack[c] # <<>> /\ Top(c).pc = "help"
    BY <1>14 DEF HelpWake, queues, sleeping, base, In
  <2>2. \A k \in Classes : sem'[k] >= sem[k]
    <3>1. PICK m : sem' = [sem EXCEPT ![m] = IF sem[m] < MaxPermits THEN sem[m] + 1 ELSE sem[m]]
      BY <1>14 DEF HelpWake
    <3>2. sem \in [Classes -> Nat]
      BY <1>1 DEF Typed
    <3>3. ASSUME NEW k \in Classes PROVE sem'[k] = sem[k] \/ sem'[k] = sem[k] + 1
      BY <3>1, <3>2
    <3>4. \A k \in Classes : sem[k] \in Nat
      BY <3>2
    <3> QED
      BY <3>3, <3>4
  <2> QED
    BY <1>1, <1>14, <2>1, <2>2, GotoFrames, WakeSwap DEF HelpWake, Steps, FrameIs
<1> QED
  BY <1>3, <1>4, <1>5, <1>6, <1>7, <1>8, <1>9, <1>10, <1>11, <1>12, <1>13, <1>14 DEF CallStep

(* Looking for a job.                                                      *)
LEMMA WakeFetchStep ==
  ASSUME WakeIInv, NEW c \in Contexts, FetchStep(c)
  PROVE  WakeIInv'
<1>1. Typed /\ Typed' /\ FreedInv /\ WorkerInv /\ WakeInv /\ Main \notin Workers
  BY FetchTyped, ClassFacts DEF WakeIInv
<1>2. looking[c] \in Classes
  BY <1>1 DEF Typed
<1>3. \A j : RunFrame(j) \in [job : {j}, pc : {"execute"}, todo : {{}}, ready : {{}}, full : {None}, freed : {[k \in Classes |-> 0]}]
  BY DEF RunFrame, Frame
<1>4. ASSUME NEW j \in Jobs, Found(c, j),
             \A w \in Workers : local'[w] # <<>> => local[w] # <<>>,
             \A k \in Classes : global'[k] # <<>> => global[k] # <<>>
      PROVE  WakeIInv'
  <2>1. /\ \A k \in Classes : RunFrame(j).freed[k] = 0
        /\ looking'[c] = looking[c] \/ c = Main
        /\ \A e \in Contexts \ {c} : at'[e] = at[e] /\ looking'[e] = looking[e]
    BY <1>1, <1>4 DEF RunFrame, Frame, Found, Typed
  <2>2. \A k \in Classes : sem'[k] >= sem[k]
    BY <1>1, <1>4 DEF Found, sleeping, Typed
  <2>3. CASE stack[c] = <<>>
    <3>1. c \in Workers => at'[c] = "local"
      BY <1>1, <1>4, <2>3 DEF Found, Again, Typed
    <3>2. PICK q : Called(q, c, RunFrame(j))
      BY <1>1, <1>4, <2>3, FoundFrames
    <3> QED
      BY <1>1, <1>4, <2>1, <2>2, <3>1, <3>2, WakeCall
  <2>4. CASE stack[c] # <<>>
    <3>1. PICK p, q, g :
            /\ SwappedAndCalled(p, q, c, g, RunFrame(j))
            /\ FrameIs(g, Top(c).job, "process", Top(c).todo, Top(c).ready, None, Top(c).freed)
      BY <1>1, <1>4, <2>4, FoundFrames
    <3>2. at' = at
      BY <1>4, <2>4 DEF Found
    <3> QED
      BY <1>1, <1>4, <2>1, <2>2, <2>4, <3>1, <3>2, WakeSwapCall DEF FrameIs
  <2> QED
    BY <2>3, <2>4
<1>5. CASE \E j \in Jobs : TakeGlobal(looking[c], j) /\ Found(c, j)
  <2>1. PICK j \in Jobs : TakeGlobal(looking[c], j) /\ Found(c, j)
    BY <1>5
  <2>2. \A k \in Classes : global'[k] # <<>> => global[k] # <<>>
    BY <1>1, <2>1 DEF TakeGlobal, Typed
  <2>3. local' = local
    BY <2>1 DEF TakeGlobal
  <2> QED
    BY <1>4, <2>1, <2>2, <2>3
<1>6. CASE FetchPeer(c)
  <2>1. PICK j \in Jobs : TakePeer(c, looking[c], j) /\ Found(c, j)
    BY <1>6 DEF FetchPeer
  <2>2. \A w \in Workers : local'[w] # <<>> => local[w] # <<>>
    BY <1>1, <2>1 DEF TakePeer, Typed
  <2>3. global' = global
    BY <2>1 DEF TakePeer
  <2> QED
    BY <1>4, <2>1, <2>2, <2>3
<1>7. CASE FetchGlobal(c) /\ global[looking[c]] = <<>> /\ Search(c, "steal")
              /\ UNCHANGED <<jobs, queues, sleeping, stop, looking, waiting>>
  <2>1. UNCHANGED <<global, local, sem, looking>> /\ \A k \in Classes : sem'[k] >= sem[k]
    BY <1>1, <1>7 DEF queues, sleeping, Typed
  <2>2. CASE stack[c] # <<>>
    <3>1. Goto(c, "steal") /\ at' = at /\ Top(c).pc = "global"
      BY <1>7, <2>2 DEF Search, FetchGlobal, Searching, Idle, In
    <3> QED
      BY <1>1, <2>1, <2>2, <3>1, GotoFrames, WakeSwap DEF Steps, FrameIs
  <2>3. CASE stack[c] = <<>>
    <3>1. stack' = stack /\ at' = [at EXCEPT ![c] = "steal"] /\ at[c] = "global"
      BY <1>7, <2>3 DEF Search, FetchGlobal, Searching, Idle, In
    <3>2. Pos' = Pos /\ \A x : Fr(x)' = Fr(x)
      BY <3>1 DEF Pos, Fr
    <3>3. FreedInv'
      BY <1>1, <3>2 DEF FreedInv
    <3>4. WorkerInv'
      <4>1. c \in Workers => local[c] = <<>>
        BY <1>1, <3>1 DEF WorkerInv
      <4> QED
        BY <1>1, <2>1, <2>3, <3>1, <4>1, WorkersKept DEF Typed
    <3>5. WakeInv'
      <4>1. ASSUME NEW k \in Classes, WorkersOf(k) # {}, global'[k] # <<>> PROVE Support(k)'
        <5>1. \A w \in WorkersOf(k) : w # c
          BY <1>1, <1>7, <2>1, <4>1, ClassFacts DEF WorkerInv
        <5>2. \A w \in WorkersOf(k) : at'[w] = at[w]
          BY <1>1, <3>1, <5>1, ClassFacts DEF Contexts, Typed
        <5> QED
          BY <1>1, <2>1, <3>2, <4>1, <5>2, SupportKept DEF WakeInv
      <4> QED
        BY <4>1 DEF WakeInv, WorkersOf
    <3> QED
      BY <1>1, <3>3, <3>4, <3>5 DEF WakeIInv
  <2> QED
    BY <2>2, <2>3
<1>8. CASE NotFound(c)
  <2>1. UNCHANGED <<global, local, sem>> /\ \A k \in Classes : sem'[k] >= sem[k]
    BY <1>1, <1>8 DEF NotFound, queues, sleeping, Typed
  <2>2. CASE stack[c] # <<>>
    <3>1. /\ stack' = [stack EXCEPT ![c] = Helped(c)] /\ UNCHANGED <<looking, at>>
          /\ Top(c).pc = "steal"
      BY <1>8, <2>2 DEF NotFound, Searching, Idle, In
    <3> QED
      BY <1>1, <2>1, <2>2, <3>1, HelpedFrames, WakeSwap DEF FrameIs
  <2>3. CASE stack[c] = <<>>
    <3>1. stack' = stack /\ at[c] = "steal" /\ \A e \in Contexts \ {c} : at'[e] = at[e] /\ looking'[e] = looking[e]
      BY <1>1, <1>8, <2>3 DEF NotFound, Searching, Idle, In, Typed
    <3>2. Pos' = Pos /\ \A x : Fr(x)' = Fr(x)
      BY <3>1 DEF Pos, Fr
    <3>3. FreedInv'
      BY <1>1, <3>2 DEF FreedInv
    <3>4. WorkerInv'
      <4>1. c \in Workers => local[c] = <<>> /\ looking'[c] = looking[c]
        BY <1>1, <1>8, <2>3, <3>1 DEF WorkerInv, NotFound, Typed
      <4> QED
        BY <1>1, <2>1, <2>3, <3>1, <4>1, WorkersKept
    <3>5. WakeInv'
      <4>1. ASSUME NEW k \in Classes, WorkersOf(k) # {}, global'[k] # <<>> PROVE Support(k)'
        <5>1. \A w \in WorkersOf(k) : at[w] \in {"local", "global"} => at'[w] \in {"local", "global"}
          BY <3>1, ClassFacts DEF Contexts
        <5> QED
          BY <1>1, <2>1, <3>2, <4>1, <5>1, SupportKept DEF WakeInv
      <4> QED
        BY <4>1 DEF WakeInv, WorkersOf
    <3> QED
      BY <1>1, <3>3, <3>4, <3>5 DEF WakeIInv
  <2> QED
    BY <2>2, <2>3
<1> QED
  BY <1>5, <1>6, <1>7, <1>8 DEF FetchStep, FetchGlobal

(* The steps that only move a context that is in no call.                  *)
LEMMA WakeMove ==
  ASSUME WakeIInv, Typed', UNCHANGED <<global, stack, looking>>, NEW c \in Contexts,
         \A e \in Contexts \ {c} : at'[e] = at[e],
         \A w \in Workers : local'[w] = local[w],
         c \in Workers => stack[c] = <<>> /\ (local[c] # <<>> => at'[c] = "local"),
         \A k \in Classes : WorkersOf(k) # {} /\ global[k] # <<>> =>
           \/ /\ sem'[k] >= sem[k]
              /\ at[c] \in {"local", "global"} /\ c \in WorkersOf(k) => at'[c] \in {"local", "global"}
           \/ c \in WorkersOf(k) /\ at'[c] \in {"local", "global"}
  PROVE  WakeIInv'
<1>1. Typed /\ FreedInv /\ WorkerInv /\ WakeInv
  BY DEF WakeIInv
<1>2. Pos' = Pos /\ \A x : Fr(x)' = Fr(x)
  BY DEF Pos, Fr
<1>3. FreedInv'
  BY <1>1, <1>2 DEF FreedInv
<1>4. WorkerInv'
  BY <1>1, WorkersKept
<1>5. WakeInv'
  <2>1. ASSUME NEW k \in Classes, WorkersOf(k) # {}, global'[k] # <<>> PROVE Support(k)'
    <3>1. CASE c \in WorkersOf(k) /\ at'[c] \in {"local", "global"}
      BY <3>1 DEF Support, WorkersOf
    <3>2. CASE /\ sem'[k] >= sem[k]
               /\ at[c] \in {"local", "global"} /\ c \in WorkersOf(k) => at'[c] \in {"local", "global"}
      <4>1. \A w \in WorkersOf(k) : at[w] \in {"local", "global"} => at'[w] \in {"local", "global"}
        BY <3>2, ClassFacts DEF Contexts
      <4> QED
        BY <1>1, <1>2, <2>1, <3>2, <4>1, SupportKept DEF WakeInv
    <3> QED
      BY <2>1, <3>1, <3>2
  <2> QED
    BY <2>1 DEF WakeInv, WorkersOf
<1> QED
  BY <1>3, <1>4, <1>5 DEF WakeIInv

(* A worker wakes up, and takes one permit.                                *)
LEMMA WakeSemWait ==
  ASSUME WakeIInv, Typed', NEW w \in Workers, SemWait(w)
  PROVE  WakeIInv'
<1>1. Typed /\ FreedInv /\ WorkerInv /\ WakeInv
  BY DEF WakeIInv
<1>2. /\ UNCHANGED <<global, local, stack, looking>> /\ stack[w] = <<>> /\ at[w] = "sem"
      /\ at' = [at EXCEPT ![w] = "local"] /\ w \in Contexts
      /\ sem' = [sem EXCEPT ![ClassOf(w)] = sem[ClassOf(w)] - 1]
  BY DEF SemWait, Idle, queues, Contexts
<1>3. at'[w] = "local" /\ \A e \in Contexts \ {w} : at'[e] = at[e]
  BY <1>1, <1>2 DEF Typed
<1>4. ASSUME NEW k \in Classes, w \notin WorkersOf(k) PROVE sem'[k] >= sem[k]
  <2>1. k # ClassOf(w)
    BY <1>4, ClassFacts
  <2> QED
    BY <1>1, <1>2, <2>1 DEF Typed
<1> QED
  BY <1>2, <1>3, <1>4, WakeMove

(* All steps.                                                              *)
LEMMA WakeStep ==
  ASSUME WakeIInv, [Next]_vars
  PROVE  WakeIInv'
<1>1. Typed /\ Typed' /\ FreedInv /\ WorkerInv /\ WakeInv /\ Main \notin Workers /\ Main \in Contexts
  BY TypedStep, ClassFacts DEF WakeIInv, Contexts
<1>2. CASE UNCHANGED vars
  <2>1. UNCHANGED <<global, local, stack, looking, at, sem>> /\ \A k \in Classes : sem'[k] >= sem[k]
    BY <1>1, <1>2 DEF vars, Typed
  <2> QED
    BY <1>1, <2>1, WakeMove
<1>3. ASSUME NEW w \in Workers, FetchLocal(w) PROVE WakeIInv'
  <2>1. UNCHANGED <<global, sem, looking>> /\ stack[w] = <<>> /\ at[w] = "local" /\ w \in Contexts
        /\ \A k \in Classes : sem'[k] >= sem[k]
    BY <1>1, <1>3 DEF FetchLocal, sleeping, Idle, Contexts, Typed
  <2>2. CASE local[w] = <<>>
    <3>1. stack' = stack /\ local' = local /\ at' = [at EXCEPT ![w] = "global"]
      BY <1>3, <2>2 DEF FetchLocal
    <3>2. at'[w] = "global" /\ \A e \in Contexts \ {w} : at'[e] = at[e]
      BY <1>1, <2>1, <3>1 DEF Typed
    <3> QED
      BY <1>1, <2>1, <2>2, <3>1, <3>2, WakeMove
  <2>3. CASE local[w] # <<>>
    <3>1. PICK j \in Jobs : \E q : Called(q, w, RunFrame(j))
      BY <1>1, <1>3, <2>3, LocalFrames
    <3>2. at' = at /\ \A v \in Workers : local'[v] # <<>> => local[v] # <<>>
      BY <1>1, <1>3, <2>3 DEF FetchLocal, Typed
    <3>3. \A k \in Classes : RunFrame(j).freed[k] = 0
      BY DEF RunFrame, Frame
    <3> QED
      BY <1>1, <2>1, <3>1, <3>2, <3>3, WakeCall
  <2> QED
    BY <2>2, <2>3
<1>4. ASSUME NEW w \in Workers, CheckStop(w) PROVE WakeIInv'
  <2>1. UNCHANGED <<global, local, sem, looking, stack>> /\ stack[w] = <<>> /\ at[w] = "check"
        /\ w \in Contexts /\ \A k \in Classes : sem'[k] >= sem[k]
    BY <1>1, <1>4 DEF CheckStop, queues, sleeping, Idle, Contexts, Typed
  <2>2. local[w] = <<>> /\ \A e \in Contexts \ {w} : at'[e] = at[e]
    BY <1>1, <1>4, <2>1 DEF CheckStop, WorkerInv, Typed
  <2> QED
    BY <1>1, <2>1, <2>2, WakeMove
<1>5. ASSUME NEW S \in Batches, Submit(S) PROVE WakeIInv'
  <2>1. S \in SUBSET Jobs
    BY <1>1, ProgFacts
  <2>2. PICK q, f : /\ Called(q, Main, f)
                    /\ FrameIs(f, None, "process", {j \in S : deps[j] = 0}, {}, None, [k \in Classes |-> 0])
    BY <1>1, <1>5, <2>1, SubmitFrames
  <2>3. \A k \in Classes : f.freed[k] = 0
    BY <2>2 DEF FrameIs
  <2>4. UNCHANGED <<global, local, at, looking, sem>> /\ \A k \in Classes : sem'[k] >= sem[k]
    BY <1>1, <1>5 DEF Submit, queues, sleeping, base, Typed
  <2> QED
    BY <1>1, <2>2, <2>3, <2>4, WakeCall
<1>6. CASE MainOnly
  <2>1. /\ UNCHANGED <<state, deps, runner, global, local, stack, looking, prog>>
        /\ \A w \in Workers : at'[w] = at[w]
        /\ \A k \in Classes : sem'[k] >= sem[k]
    BY <1>1, <1>6, MainOnlyFacts
  <2>2. \A e \in Contexts \ {Main} : at'[e] = at[e]
    BY <2>1 DEF Contexts
  <2>3. \A k \in Classes : Main \notin WorkersOf(k)
    BY <1>1, ClassFacts
  <2> QED
    BY <1>1, <2>1, <2>2, <2>3, WakeMove
<1>7. ASSUME NEW w \in Workers, SemWait(w) PROVE WakeIInv'
  BY <1>1, <1>7, WakeSemWait
<1> QED
  BY <1>2, <1>3, <1>4, <1>5, <1>6, <1>7, Cases, WakeCallStep, WakeFetchStep

(* The initial states.                                                     *)
LEMMA TypedInit ==
  ASSUME Init
  PROVE  Typed /\ Pos = {}
<1>1. \A S \in SUBSET (Jobs \X Jobs), j \in Jobs : {i \in Jobs : <<i, j>> \in S} \in SUBSET Jobs
  OBVIOUS
<1>2. \A j \in Jobs : Cardinality({i \in Jobs : <<i, j>> \in Before}) \in Int
  <2>1. \A j \in Jobs : IsFiniteSet({i \in Jobs : <<i, j>> \in Before})
    BY FS_Subset, PoolAssumption
  <2>2. \A j \in Jobs : Cardinality({i \in Jobs : <<i, j>> \in Before}) \in Nat
    BY <2>1, FS_CardinalityType
  <2> QED
    BY <2>2
<1>3. deps \in [Jobs -> Int]
  BY <1>2 DEF Init
<1>4. looking \in [Contexts -> Classes] /\ at \in [Contexts -> Places]
  BY ClassFacts DEF Init, Contexts, Classes, Places
<1>5. stack \in [Contexts -> Seq(FrameSet)] /\ \A c \in Contexts : stack[c] = <<>>
  BY DEF Init
<1>6. global \in [Classes -> Seq(Jobs)] /\ local \in [Workers -> Seq(Jobs)]
  BY DEF Init
<1>7. Typed
  BY <1>3, <1>4, <1>5, <1>6 DEF Init, Typed
<1>8. Pos = {}
  BY <1>5 DEF Pos, PosOf
<1> QED
  BY <1>7, <1>8

(* They satisfy the invariant.                                             *)
LEMMA WakeInit ==
  ASSUME Init
  PROVE  WakeIInv
<1>1. Typed /\ Pos = {}
  BY TypedInit
<1>2. WorkerInv
  BY ClassFacts DEF Init, WorkerInv, Contexts
<1>3. FreedInv
  BY <1>1 DEF FreedInv
<1>4. WakeInv
  BY DEF WakeInv, Init
<1> QED
  BY <1>1, <1>2, <1>3, <1>4 DEF WakeIInv

(* WakeIInv says that no wake-up is lost.                                  *)
LEMMA WakeEnough ==
  ASSUME WakeIInv
  PROVE  NoLostWakeup
<1>1. Typed /\ WorkerInv /\ WakeInv
  BY DEF WakeIInv
<1>2. SUFFICES ASSUME NEW k \in Classes, WorkersOf(k) # {},
                      global[k] # <<>> \/ \E w \in WorkersOf(k) : local[w] # <<>>
               PROVE  \/ sem[k] > 0
                      \/ \E w \in WorkersOf(k) : at[w] # "sem"
                      \/ \E c \in Contexts : \E f \in Frames(c) : f.freed[k] > 0
  BY DEF NoLostWakeup
<1>3. CASE \E w \in WorkersOf(k) : local[w] # <<>>
  BY <1>1, <1>3, ClassFacts DEF WorkerInv
<1>4. CASE global[k] # <<>>
  <2>1. CASE sem[k] > 0 \/ \E w \in WorkersOf(k) : at[w] \in {"local", "global"}
    BY <2>1
  <2>2. CASE \E x \in Pos : Fr(x).freed[k] > 0
    <3>1. PICK c \in Contexts, d \in Nat : d \in 1..Len(stack[c]) /\ Fr(<<c, d>>).freed[k] > 0
      BY <2>2 DEF Pos, PosOf
    <3>2. Len(stack[c]) \in Nat
      BY <1>1 DEF Typed
    <3>3. (Len(stack[c]) - d) + 1 \in 1..Len(stack[c])
      BY <3>1, <3>2
    <3>4. Fr(<<c, d>>) \in Frames(c)
      BY <3>3 DEF Fr, FrOf, Frames
    <3> QED
      BY <3>1, <3>4
  <2> QED
    BY <1>1, <1>2, <1>4, <2>1, <2>2 DEF WakeInv, Support
<1> QED
  BY <1>2, <1>3, <1>4

(* No wake-up is lost.                                                     *)
THEOREM NoWakeupLost == Spec => []NoLostWakeup
<1>1. Init => WakeIInv
  BY WakeInit
<1>2. WakeIInv /\ [Next]_vars => WakeIInv'
  BY WakeStep
<1>3. WakeIInv => NoLostWakeup
  BY WakeEnough
<1> QED
  BY <1>1, <1>2, <1>3, PTL DEF Spec

-----------------------------------------------------------------------------
(* Where the jobs are                                                      *)

(* The program does not change.                                            *)
LEMMA ProgKept ==
  ASSUME prog' = prog
  PROVE  /\ SyncJobs' = SyncJobs
         /\ \A j : JobClass(j)' = JobClass(j)
         /\ \A c, j : Fits(c, j)' <=> Fits(c, j)
<1>1. SyncJobs' = SyncJobs /\ HighJobs' = HighJobs
  BY DEF SyncJobs, HighJobs
<1>2. \A j : JobClass(j)' = JobClass(j)
  BY <1>1 DEF JobClass
<1>3. \A c, j : Fits(c, j)' <=> Fits(c, j)
  BY <1>1, <1>2 DEF Fits, WorkersOf, ClassOf
<1> QED
  BY <1>1, <1>2, <1>3

(* A job that nobody runs is in no call of run().                          *)
LEMMA NotRunning ==
  ASSUME Typed, FrameInv, NEW j \in Jobs, Held(j),
         state[j] \in {"clear", "submitted"} \/ (state[j] = "processing" /\ RunAt(j) = {})
  PROVE  JobAt(j) = {} /\ RunAt(j) = {} /\ SignalAt(j) = {}
<1>1. j # None
  BY PoolAssumption
<1>2. RunAt(j) = {}
  BY DEF Held
<1>3. ASSUME NEW x \in Pos, Fr(x).job = j PROVE FALSE
  <2>1. Fr(x).pc \in Steps
    BY AllFrames DEF FrameSet
  <2>2. FrameOK(Fr(x), x[2]) /\ Fr(x).pc # "execute"
    BY <1>2, <1>3 DEF FrameInv, RunAt
  <2> QED
    BY <1>1, <1>3, <2>1, <2>2 DEF FrameOK, Steps
<1> QED
  BY <1>2, <1>3 DEF JobAt, SignalAt

(* A job that a step does not touch.                                       *)
LEMMA JobKept ==
  ASSUME NEW j, Once(j), Held(j), state'[j] = state[j], deps'[j] = deps[j],
         JobAt(j)' \subseteq JobAt(j), RunAt(j)' = RunAt(j), ReadyAt(j)' = ReadyAt(j),
         TodoAt(j)' = TodoAt(j), GlobalAt(j)' = GlobalAt(j), LocalAt(j)' = LocalAt(j)
  PROVE  Once(j)' /\ Held(j)'
<1>1. Once(j)'
  BY DEF Once, Unique
<1>2. Held(j)'
  BY DEF Held, Unique, Apart
<1> QED
  BY <1>1, <1>2

(* The queues stay.                                                        *)
LEMMA QueuesKept ==
  ASSUME UNCHANGED <<global, local>>
  PROVE  /\ \A j : GlobalAt(j)' = GlobalAt(j) /\ LocalAt(j)' = LocalAt(j)
         /\ QueueInv => QueueInv'
<1>1. \A j : GlobalAt(j)' = GlobalAt(j) /\ LocalAt(j)' = LocalAt(j)
  BY DEF GlobalAt, LocalAt, Rng
<1>2. QueueInv => QueueInv'
  BY DEF QueueInv, Distinct
<1> QED
  BY <1>1, <1>2

(* Dependencies that a step does not signal.                               *)
LEMMA DepsKept ==
  ASSUME DepsInv, deps' = deps, \A i \in Jobs : SignalAt(i)' = SignalAt(i) \/ state'[i] # "done",
         \A i \in Jobs : state'[i] = "done" <=> state[i] = "done",
         \A k \in Jobs : state'[k] = state[k] \/ deps[k] = 0 \/ state'[k] \in {"clear", "submitted"}
  PROVE  DepsInv'
<1>1. \A i \in Jobs : Signalled(i)' <=> Signalled(i)
  BY DEF Signalled
<1>2. \A k \in Jobs : Unfinished(k)' = Unfinished(k)
  BY <1>1 DEF Unfinished
<1> QED
  BY <1>2 DEF DepsInv

(* What a step within a call keeps of it.                                  *)
Tracks(g, h) ==
  /\ g.job = h.job /\ g.todo = h.todo /\ g.ready = h.ready
  /\ g.pc = "execute" <=> h.pc = "execute"
  /\ g.pc = "signal" <=> h.pc = "signal"

(* A step within a call that handles no job.                               *)
LEMMA QuietSwap ==
  ASSUME Typed, WorkInv, UNCHANGED <<state, deps, runner, global, local, prog>>,
         NEW c \in Contexts, NEW p, NEW g, Swapped(p, c, g), Tracks(g, Top(c)), FrameOK(g, p[2])
  PROVE  WorkInv'
<1>1. FrameInv /\ OnceInv /\ HolderInv /\ QueueInv /\ DepsInv /\ ClassInv
  BY DEF WorkInv
<1>2. Pos' = Pos /\ \A x \in Pos : Tracks(Fr(x)', Fr(x))
  BY DEF Swapped, Tracks
<1>3. \A j : /\ JobAt(j)' = JobAt(j) /\ RunAt(j)' = RunAt(j) /\ ReadyAt(j)' = ReadyAt(j)
             /\ TodoAt(j)' = TodoAt(j) /\ SignalAt(j)' = SignalAt(j)
  BY <1>2 DEF JobAt, RunAt, ReadyAt, TodoAt, SignalAt, Tracks
<1>4. FrameInv'
  <2>1. ASSUME NEW x \in Pos' PROVE FrameOK(Fr(x), x[2])'
    <3>1. FrameOK((Fr(x)'), x[2])
      BY <1>1 DEF Swapped, FrameInv
    <3> QED
      BY <3>1, ProgKept DEF FrameOK
  <2> QED
    BY <2>1 DEF FrameInv
<1>5. OnceInv' /\ HolderInv'
  BY <1>1, <1>3, JobKept, QueuesKept DEF OnceInv, HolderInv
<1>6. QueueInv' /\ DepsInv'
  BY <1>1, <1>3, QueuesKept, DepsKept
<1>7. ClassInv'
  <2>1. /\ \A k \in Classes : \A j \in Rng(global[k])' : JobClass(j)' = k
        /\ \A w \in Workers : \A j \in Rng(local[w])' : JobClass(j)' = ClassOf(w)
    BY <1>1, ProgKept DEF ClassInv, Rng
  <2>2. \A x \in Pos' : (Fr(x)').pc = "execute" => Fits(x[1], Fr(x).job)'
    BY <1>1, <1>2, ProgKept DEF ClassInv, Tracks
  <2>3. \A j \in Jobs : state'[j] = "executing" => Fits(runner[j], j)'
    BY <1>1, ProgKept DEF ClassInv
  <2> QED
    BY <2>1, <2>2, <2>3 DEF ClassInv, ClassOf
<1> QED
  BY <1>4, <1>5, <1>6, <1>7 DEF WorkInv

(* A step that leaves the calls alone too.                                 *)
LEMMA WorkKept ==
  ASSUME WorkInv, UNCHANGED <<state, deps, runner, global, local, prog, stack>>
  PROVE  WorkInv'
<1>1. Pos' = Pos /\ \A x : Fr(x)' = Fr(x)
  BY DEF Pos, Fr
<1>2. SyncJobs' = SyncJobs
  BY ProgKept
<1>3. FrameInv'
  BY <1>1, <1>2 DEF WorkInv, FrameInv, FrameOK
<1>4. \A j : /\ JobAt(j)' = JobAt(j) /\ RunAt(j)' = RunAt(j) /\ ReadyAt(j)' = ReadyAt(j)
             /\ TodoAt(j)' = TodoAt(j) /\ SignalAt(j)' = SignalAt(j)
  BY <1>1 DEF JobAt, RunAt, ReadyAt, TodoAt, SignalAt
<1>5. OnceInv' /\ HolderInv'
  BY <1>4, JobKept, QueuesKept DEF WorkInv, OnceInv, HolderInv
<1>6. QueueInv' /\ DepsInv'
  BY <1>4, QueuesKept, DepsKept DEF WorkInv
<1>7. ClassInv'
  BY <1>1, ProgKept DEF WorkInv, ClassInv, Rng, ClassOf
<1> QED
  BY <1>3, <1>5, <1>6, <1>7 DEF WorkInv

-----------------------------------------------------------------------------
(* The jobs in a queue                                                     *)

(* A job that is pushed.                                                   *)
LEMMA RngAppend ==
  ASSUME NEW s \in Seq(Jobs), NEW j \in Jobs, j \notin Rng(s), Distinct(s)
  PROVE  /\ Append(s, j) \in Seq(Jobs) /\ Len(Append(s, j)) = Len(s) + 1
         /\ Rng(Append(s, j)) = Rng(s) \cup {j} /\ Distinct(Append(s, j))
<1>1. /\ Append(s, j) \in Seq(Jobs) /\ Len(s) \in Nat /\ Len(Append(s, j)) = Len(s) + 1
      /\ \A n \in 1..Len(s) : Append(s, j)[n] = s[n]
      /\ Append(s, j)[Len(s) + 1] = j
  BY AppendProperties
<1>2. PICK t : t = Append(s, j)
  OBVIOUS
<1>3. 1..Len(t) = 1..Len(s) \cup {Len(s) + 1}
  BY <1>1, <1>2
<1>4. Rng(t) = Rng(s) \cup {j}
  BY <1>1, <1>2, <1>3 DEF Rng
<1>5. ASSUME NEW m \in 1..Len(t), NEW n \in 1..Len(t), t[m] = t[n] PROVE m = n
  <2>1. CASE m \in 1..Len(s) /\ n \in 1..Len(s)
    BY <1>1, <1>2, <1>5, <2>1 DEF Distinct
  <2>2. CASE m \in 1..Len(s) /\ n = Len(s) + 1
    BY <1>1, <1>2, <1>5, <2>2 DEF Rng
  <2>3. CASE m = Len(s) + 1 /\ n \in 1..Len(s)
    BY <1>1, <1>2, <1>5, <2>3 DEF Rng
  <2> QED
    BY <1>3, <2>1, <2>2, <2>3
<1> QED
  BY <1>1, <1>2, <1>4, <1>5 DEF Distinct

(* The oldest job is taken.                                                *)
LEMMA RngTail ==
  ASSUME NEW s \in Seq(Jobs), s # <<>>, Distinct(s)
  PROVE  /\ Tail(s) \in Seq(Jobs) /\ Len(Tail(s)) <= Len(s)
         /\ Head(s) \in Rng(s) /\ Rng(Tail(s)) = Rng(s) \ {Head(s)} /\ Distinct(Tail(s))
<1>1. /\ Tail(s) \in Seq(Jobs) /\ Len(Tail(s)) = Len(s) - 1
      /\ \A n \in 1..(Len(s) - 1) : Tail(s)[n] = s[n + 1]
  BY HeadTailProperties
<1>2. PICK t : t = Tail(s)
  OBVIOUS
<1>3. Len(s) \in Nat \ {0} /\ Head(s) = s[1]
  BY EmptySeq
<1>4. \A n \in 1..Len(t) : n + 1 \in 1..Len(s) /\ n + 1 # 1
  BY <1>1, <1>2, <1>3
<1>5. \A n \in 1..Len(s) : n # 1 => n - 1 \in 1..Len(t) /\ (n - 1) + 1 = n
  BY <1>1, <1>2, <1>3
<1>6. 1 \in 1..Len(s)
  BY <1>3
<1>7. ASSUME NEW y \in Rng(t) PROVE y \in Rng(s) \ {s[1]}
  <2>1. PICK n \in 1..Len(t) : y = s[n + 1]
    BY <1>1, <1>2, <1>7 DEF Rng
  <2> QED
    BY <1>4, <1>6, <2>1 DEF Rng, Distinct
<1>8. ASSUME NEW y \in Rng(s) \ {s[1]} PROVE y \in Rng(t)
  <2>1. PICK n \in 1..Len(s) : y = s[n] /\ n # 1
    BY <1>8 DEF Rng
  <2>2. n - 1 \in 1..Len(t) /\ t[n - 1] = s[n]
    BY <1>1, <1>2, <1>5, <2>1
  <2> QED
    BY <2>1, <2>2 DEF Rng
<1>9. ASSUME NEW m \in 1..Len(t), NEW n \in 1..Len(t), t[m] = t[n] PROVE m = n
  <2>1. m + 1 = n + 1
    BY <1>1, <1>2, <1>4, <1>9 DEF Distinct
  <2> QED
    BY <2>1
<1>10. s[1] \in Rng(s)
  BY <1>6 DEF Rng
<1>11. Rng(t) = Rng(s) \ {s[1]}
  BY <1>7, <1>8
<1>12. Distinct(t)
  BY <1>9 DEF Distinct
<1> QED
  BY <1>1, <1>2, <1>3, <1>10, <1>11, <1>12

(* The newest job is taken.                                                *)
LEMMA RngFront ==
  ASSUME NEW s \in Seq(Jobs), s # <<>>, Distinct(s)
  PROVE  /\ SubSeq(s, 1, Len(s) - 1) \in Seq(Jobs) /\ Len(SubSeq(s, 1, Len(s) - 1)) <= Len(s)
         /\ s[Len(s)] \in Rng(s)
         /\ Rng(SubSeq(s, 1, Len(s) - 1)) = Rng(s) \ {s[Len(s)]}
         /\ Distinct(SubSeq(s, 1, Len(s) - 1))
<1>1. Len(s) \in Nat \ {0}
  BY EmptySeq
<1>2. PICK l \in Nat : l = Len(s) - 1
  BY <1>1
<1>3. PICK t : t = SubSeq(s, 1, l)
  OBVIOUS
<1>4. t \in Seq(Jobs) /\ Len(t) = l /\ \A n \in 1..l : t[n] = s[n]
  BY <1>1, <1>2, <1>3
<1>5. 1..Len(s) = 1..l \cup {Len(s)} /\ Len(s) \notin 1..l
  BY <1>1, <1>2
<1>6. ASSUME NEW y \in Rng(t) PROVE y \in Rng(s) \ {s[Len(s)]}
  <2>1. PICK n \in 1..l : y = s[n]
    BY <1>4, <1>6 DEF Rng
  <2> QED
    BY <1>5, <2>1 DEF Rng, Distinct
<1>7. ASSUME NEW y \in Rng(s) \ {s[Len(s)]} PROVE y \in Rng(t)
  BY <1>4, <1>5, <1>7 DEF Rng
<1>8. Rng(t) = Rng(s) \ {s[Len(s)]}
  BY <1>6, <1>7
<1>9. Distinct(t)
  BY <1>4, <1>5 DEF Distinct
<1>10. s[Len(s)] \in Rng(s) /\ Len(t) <= Len(s)
  BY <1>1, <1>2, <1>4, <1>5 DEF Rng
<1> QED
  BY <1>2, <1>3, <1>4, <1>8, <1>9, <1>10

-----------------------------------------------------------------------------
(* The steps that move a job                                               *)

(* The calls that a changed call is counted among.                         *)
LEMMA SwapSets ==
  ASSUME NEW c, NEW p, NEW g, Swapped(p, c, g)
  PROVE  \A j :
           /\ JobAt(j)' = IF g.job = j THEN JobAt(j) \cup {p} ELSE JobAt(j) \ {p}
           /\ RunAt(j)' = IF g.job = j /\ g.pc = "execute" THEN RunAt(j) \cup {p} ELSE RunAt(j) \ {p}
           /\ SignalAt(j)' = IF g.job = j /\ g.pc = "signal" THEN SignalAt(j) \cup {p} ELSE SignalAt(j) \ {p}
           /\ ReadyAt(j)' = IF j \in g.ready THEN ReadyAt(j) \cup {p} ELSE ReadyAt(j) \ {p}
           /\ TodoAt(j)' = IF j \in g.todo THEN TodoAt(j) \cup {p} ELSE TodoAt(j) \ {p}
<1>1. p \in Pos /\ Pos' = Pos /\ \A x \in Pos : Fr(x)' = IF x = p THEN g ELSE Fr(x)
  BY DEF Swapped
<1>2. SUFFICES ASSUME NEW j
               PROVE  /\ JobAt(j)' = IF g.job = j THEN JobAt(j) \cup {p} ELSE JobAt(j) \ {p}
                      /\ RunAt(j)' = IF g.job = j /\ g.pc = "execute" THEN RunAt(j) \cup {p} ELSE RunAt(j) \ {p}
                      /\ SignalAt(j)' = IF g.job = j /\ g.pc = "signal" THEN SignalAt(j) \cup {p} ELSE SignalAt(j) \ {p}
                      /\ ReadyAt(j)' = IF j \in g.ready THEN ReadyAt(j) \cup {p} ELSE ReadyAt(j) \ {p}
                      /\ TodoAt(j)' = IF j \in g.todo THEN TodoAt(j) \cup {p} ELSE TodoAt(j) \ {p}
  OBVIOUS
<1>3. JobAt(j)' = IF g.job = j THEN JobAt(j) \cup {p} ELSE JobAt(j) \ {p}
  BY <1>1 DEF JobAt
<1>4. RunAt(j)' = IF g.job = j /\ g.pc = "execute" THEN RunAt(j) \cup {p} ELSE RunAt(j) \ {p}
  BY <1>1 DEF RunAt
<1>5. SignalAt(j)' = IF g.job = j /\ g.pc = "signal" THEN SignalAt(j) \cup {p} ELSE SignalAt(j) \ {p}
  BY <1>1 DEF SignalAt
<1>6. ReadyAt(j)' = IF j \in g.ready THEN ReadyAt(j) \cup {p} ELSE ReadyAt(j) \ {p}
  BY <1>1 DEF ReadyAt
<1>7. TodoAt(j)' = IF j \in g.todo THEN TodoAt(j) \cup {p} ELSE TodoAt(j) \ {p}
  BY <1>1 DEF TodoAt
<1> QED
  BY <1>3, <1>4, <1>5, <1>6, <1>7

(* The call that a step changes.                                           *)
LEMMA TopOK ==
  ASSUME Typed, FrameInv, NEW c, NEW p \in Pos, Fr(p) = Top(c)
  PROVE  /\ FrameOK(Top(c), p[2]) /\ Top(c) \in FrameSet /\ p \in JobAt(Top(c).job)
         /\ \A j : /\ j \in Top(c).ready <=> p \in ReadyAt(j)
                   /\ j \in Top(c).todo <=> p \in TodoAt(j)
                   /\ Top(c).job = j /\ Top(c).pc = "execute" <=> p \in RunAt(j)
                   /\ Top(c).job = j /\ Top(c).pc = "signal" <=> p \in SignalAt(j)
                   /\ Top(c).job = j <=> p \in JobAt(j)
BY AllFrames DEF FrameInv, JobAt, ReadyAt, TodoAt, RunAt, SignalAt

(* A call of a job whose state stays.                                      *)
LEMMA FrameSame ==
  ASSUME NEW x, NEW h, Fr(x)' = h, FrameOK(h, x[2]), prog' = prog,
         h.job = None \/ state'[h.job] = state[h.job]
  PROVE  FrameOK(Fr(x), x[2])'
<1>1. SyncJobs' = SyncJobs /\ None \notin Jobs
  BY ProgKept, PoolAssumption
<1>2. CASE h.job = None
  BY <1>1, <1>2 DEF FrameOK
<1>3. CASE state'[h.job] = state[h.job]
  BY <1>1, <1>3 DEF FrameOK
<1> QED
  BY <1>2, <1>3

(* The queues and their classes stay.                                      *)
QueueClasses ==
  /\ \A k \in Classes : \A j \in Rng(global[k]) : JobClass(j) = k
  /\ \A w \in Workers : \A j \in Rng(local[w]) : JobClass(j) = ClassOf(w)

(* They are kept by a step that leaves the queues alone.                   *)
LEMMA QueueClassesKept ==
  ASSUME UNCHANGED <<global, local, prog>>, ClassInv
  PROVE  QueueClasses'
BY ProgKept DEF ClassInv, QueueClasses, Rng, ClassOf

(* The class of a job that a context runs, and of the one it is about to   *)
(* run.                                                                    *)
LEMMA ClassParts ==
  ASSUME QueueClasses', ClassInv, prog' = prog,
         \A x \in Pos' : Fr(x)'.pc = "execute" =>
           (x \in Pos /\ Fr(x).pc = "execute" /\ Fr(x)'.job = Fr(x).job) \/ Fits(x[1], Fr(x)'.job),
         \A j \in Jobs : state'[j] = "executing" =>
           (state[j] = "executing" /\ runner'[j] = runner[j]) \/ Fits(runner'[j], j)
  PROVE  ClassInv'
<1>1. \A c, j : Fits(c, j)' <=> Fits(c, j)
  BY ProgKept
<1>2. \A x \in Pos' : Fr(x)'.pc = "execute" => Fits(x[1], Fr(x)'.job)
  BY DEF ClassInv
<1>3. \A x \in Pos' : Fr(x)'.pc = "execute" => Fits(x[1], Fr(x).job)'
  BY <1>1, <1>2
<1>4. \A j \in Jobs : state'[j] = "executing" => Fits(runner'[j], j)
  BY DEF ClassInv
<1>5. \A j \in Jobs : state'[j] = "executing" => Fits(runner[j], j)'
  BY <1>1, <1>4
<1> QED
  BY <1>3, <1>5 DEF ClassInv, QueueClasses

(* run() starts a job.                                                     *)
LEMMA WorkExecute ==
  ASSUME Typed, WorkInv, NEW c \in Contexts, Execute(c)
  PROVE  WorkInv'
<1>1. FrameInv /\ OnceInv /\ HolderInv /\ QueueInv /\ DepsInv /\ ClassInv
  BY DEF WorkInv
<1>2. stack[c] # <<>> /\ Top(c).pc = "execute" /\ UNCHANGED <<global, local, prog>>
  BY DEF Execute, In, queues, waiting
<1>3. PICK p, g : Swapped(p, c, g) /\ FrameIs(g, Top(c).job, "wake", Top(c).todo, Top(c).ready, Top(c).full, Top(c).freed)
  BY <1>2, GotoFrames DEF Execute, Steps
<1>4. PICK j : j = Top(c).job
  OBVIOUS
<1>5. p \in Pos /\ Fr(p) = Top(c) /\ Pos' = Pos /\ p[1] = c
  BY <1>3 DEF Swapped
<1>6. FrameOK(Top(c), p[2]) /\ p \in JobAt(j) /\ p \in RunAt(j)
  BY <1>1, <1>2, <1>4, <1>5, TopOK
<1>7. j \in Jobs /\ state[j] = "processing" /\ Top(c).todo = {} /\ Top(c).ready = {}
  BY <1>2, <1>4, <1>6 DEF FrameOK
<1>8. Once(j) /\ Held(j) /\ deps[j] = 0 /\ Fits(c, j)
  BY <1>1, <1>2, <1>4, <1>5, <1>7 DEF OnceInv, HolderInv, DepsInv, ClassInv
<1>9. /\ RunAt(j) = {p} /\ JobAt(j) = {p} /\ ReadyAt(j) = {} /\ GlobalAt(j) = {} /\ LocalAt(j) = {}
      /\ TodoAt(j) = {}
  BY <1>6, <1>7, <1>8 DEF Held, Once, Unique, Apart
<1>10. /\ state' = [state EXCEPT ![j] = "executing"] /\ runner' = [runner EXCEPT ![j] = c]
       /\ deps' = deps
  <2>1. deps' = [deps EXCEPT ![j] = 0] /\ deps \in [Jobs -> Int]
    BY <1>4 DEF Execute, Typed
  <2> QED
    BY <1>4, <1>7, <1>8, <2>1 DEF Execute
<1>11. \A i : /\ JobAt(i)' = JobAt(i) /\ ReadyAt(i)' = ReadyAt(i) /\ TodoAt(i)' = TodoAt(i)
              /\ SignalAt(i)' = SignalAt(i) /\ (i # j => RunAt(i)' = RunAt(i))
  <2>1. ASSUME NEW i
        PROVE  /\ JobAt(i)' = JobAt(i) /\ ReadyAt(i)' = ReadyAt(i) /\ TodoAt(i)' = TodoAt(i)
               /\ SignalAt(i)' = SignalAt(i) /\ (i # j => RunAt(i)' = RunAt(i))
    <3>1. /\ JobAt(i)' = IF j = i THEN JobAt(i) \cup {p} ELSE JobAt(i) \ {p}
          /\ RunAt(i)' = RunAt(i) \ {p} /\ SignalAt(i)' = SignalAt(i) \ {p}
          /\ ReadyAt(i)' = ReadyAt(i) \ {p} /\ TodoAt(i)' = TodoAt(i) \ {p}
      BY <1>3, <1>4, <1>7, SwapSets DEF FrameIs
    <3>2. p \notin ReadyAt(i) /\ p \notin TodoAt(i) /\ p \notin SignalAt(i)
      BY <1>1, <1>2, <1>5, <1>7, TopOK
    <3>3. (j = i <=> p \in JobAt(i)) /\ (p \in RunAt(i) <=> j = i)
      BY <1>1, <1>2, <1>4, <1>5, TopOK
    <3> QED
      BY <3>1, <3>2, <3>3
  <2> QED
    BY <2>1
<1>12. RunAt(j)' = {}
  BY <1>3, <1>9, SwapSets DEF FrameIs
<1>13. FrameInv'
  <2>1. ASSUME NEW x \in Pos' PROVE FrameOK(Fr(x), x[2])'
    <3>1. CASE x = p
      <4>1. g = Fr(x)'
        BY <1>5, <3>1, <1>3 DEF Swapped
      <4>2. g.job = j /\ g.pc = "wake" /\ g.todo = {} /\ g.ready = {} /\ j # None /\ state'[j] = "executing"
        BY <1>3, <1>4, <1>7, <1>10, PoolAssumption DEF FrameIs, Typed
      <4> QED
        BY <1>7, <4>1, <4>2 DEF FrameOK
    <3>2. CASE x # p
      <4>1. Fr(x)' = Fr(x) /\ FrameOK(Fr(x), x[2]) /\ x \in Pos
        BY <1>1, <1>3, <1>5, <3>2 DEF Swapped, FrameInv
      <4>2. Fr(x).job # j
        BY <1>9, <3>2, <4>1 DEF JobAt
      <4>3. state'[Fr(x).job] = state[Fr(x).job]
        BY <1>10, <4>2 DEF Typed
      <4> QED
        BY <1>2, <4>1, <4>3, FrameSame
    <3> QED
      BY <3>1, <3>2
  <2> QED
    BY <2>1 DEF FrameInv
<1>14. \A i : GlobalAt(i)' = GlobalAt(i) /\ LocalAt(i)' = LocalAt(i)
  BY <1>2, QueuesKept
<1>15. ASSUME NEW i \in Jobs PROVE Once(i)' /\ Held(i)'
  <2>1. CASE i = j
    <3>1. state'[j] = "executing"
      BY <1>7, <1>10 DEF Typed
    <3>2. Held(j)'
      BY <1>9, <1>11, <1>12, <1>14, <3>1 DEF Held, Unique, Apart
    <3>3. Once(j)'
      BY <1>9, <1>11, <3>1 DEF Once, Unique
    <3> QED
      BY <2>1, <3>2, <3>3
  <2>2. CASE i # j
    <3>1. state'[i] = state[i] /\ deps'[i] = deps[i]
      BY <1>10, <2>2 DEF Typed
    <3> QED
      BY <1>1, <1>11, <1>14, <2>2, <3>1, JobKept DEF OnceInv, HolderInv
  <2> QED
    BY <2>1, <2>2
<1>16. OnceInv' /\ HolderInv'
  BY <1>15 DEF OnceInv, HolderInv
<1>17. DepsInv'
  <2>1. \A i \in Jobs : (state'[i] = "done" <=> state[i] = "done") /\ (state'[i] = state[i] \/ deps[i] = 0)
    BY <1>7, <1>8, <1>10 DEF Typed
  <2> QED
    BY <1>1, <1>10, <1>11, <2>1, DepsKept
<1>18. ClassInv'
  <2>1. QueueClasses'
    BY <1>1, <1>2, QueueClassesKept
  <2>2. \A x \in Pos' : Fr(x)'.pc = "execute" => x \in Pos /\ Fr(x).pc = "execute" /\ Fr(x)'.job = Fr(x).job
    BY <1>3, <1>5 DEF Swapped, FrameIs
  <2>3. \A i \in Jobs : state'[i] = "executing" =>
           (state[i] = "executing" /\ runner'[i] = runner[i]) \/ Fits(runner'[i], i)
    BY <1>7, <1>8, <1>10 DEF Typed
  <2> QED
    BY <1>1, <1>2, <2>1, <2>2, <2>3, ClassParts
<1> QED
  BY <1>1, <1>2, <1>13, <1>16, <1>17, <1>18, QueuesKept DEF WorkInv

(* The functor of a job returned.                                          *)
LEMMA WorkFinalize ==
  ASSUME Typed, WorkInv, NEW c \in Contexts, Finalize(c)
  PROVE  WorkInv'
<1>1. FrameInv /\ OnceInv /\ HolderInv /\ QueueInv /\ DepsInv /\ ClassInv
  BY DEF WorkInv
<1>2. stack[c] # <<>> /\ Top(c).pc = "body" /\ UNCHANGED <<global, local, prog, deps>>
  BY DEF Finalize, In, queues, waiting
<1>3. PICK p, g : Swapped(p, c, g) /\ FrameIs(g, Top(c).job, "signal", Top(c).todo, Top(c).ready, Top(c).full, Top(c).freed)
  BY <1>2, GotoFrames DEF Finalize, Steps
<1>4. PICK j : j = Top(c).job
  OBVIOUS
<1>5. p \in Pos /\ Fr(p) = Top(c) /\ Pos' = Pos /\ p[1] = c
  BY <1>3 DEF Swapped
<1>6. FrameOK(Top(c), p[2]) /\ p \in JobAt(j)
  BY <1>1, <1>2, <1>4, <1>5, TopOK
<1>7. j \in Jobs /\ state[j] = "executing" /\ Top(c).todo = {} /\ Top(c).ready = {}
  BY <1>2, <1>4, <1>6 DEF FrameOK
<1>8. Once(j) /\ Held(j)
  BY <1>1, <1>7 DEF OnceInv, HolderInv
<1>9. RunAt(j) = {} /\ JobAt(j) = {p} /\ ReadyAt(j) = {} /\ GlobalAt(j) = {} /\ LocalAt(j) = {} /\ TodoAt(j) = {}
  BY <1>6, <1>7, <1>8 DEF Held, Once, Unique
<1>10. state' = [state EXCEPT ![j] = "done"] /\ runner' = [runner EXCEPT ![j] = None]
  BY <1>4 DEF Finalize
<1>11. \A i : /\ JobAt(i)' = JobAt(i) /\ ReadyAt(i)' = ReadyAt(i) /\ TodoAt(i)' = TodoAt(i)
              /\ RunAt(i)' = RunAt(i) /\ (i # j => SignalAt(i)' = SignalAt(i))
  <2>1. ASSUME NEW i
        PROVE  /\ JobAt(i)' = JobAt(i) /\ ReadyAt(i)' = ReadyAt(i) /\ TodoAt(i)' = TodoAt(i)
               /\ RunAt(i)' = RunAt(i) /\ (i # j => SignalAt(i)' = SignalAt(i))
    <3>1. /\ JobAt(i)' = IF j = i THEN JobAt(i) \cup {p} ELSE JobAt(i) \ {p}
          /\ RunAt(i)' = RunAt(i) \ {p} /\ (i # j => SignalAt(i)' = SignalAt(i) \ {p})
          /\ ReadyAt(i)' = ReadyAt(i) \ {p} /\ TodoAt(i)' = TodoAt(i) \ {p}
      BY <1>3, <1>4, <1>7, SwapSets DEF FrameIs
    <3>2. p \notin ReadyAt(i) /\ p \notin TodoAt(i) /\ p \notin SignalAt(i) /\ p \notin RunAt(i)
      BY <1>1, <1>2, <1>5, <1>7, TopOK
    <3>3. j = i <=> p \in JobAt(i)
      BY <1>1, <1>4, <1>5, TopOK
    <3> QED
      BY <3>1, <3>2, <3>3
  <2> QED
    BY <2>1
<1>12. p \in SignalAt(j)'
  BY <1>3, <1>4, SwapSets DEF FrameIs
<1>13. FrameInv'
  <2>1. ASSUME NEW x \in Pos' PROVE FrameOK(Fr(x), x[2])'
    <3>1. CASE x = p
      <4>1. g = Fr(x)'
        BY <1>5, <3>1, <1>3 DEF Swapped
      <4>2. g.job = j /\ g.pc = "signal" /\ g.todo = {} /\ g.ready = {} /\ j # None /\ state'[j] = "done"
        BY <1>3, <1>4, <1>7, <1>10, PoolAssumption DEF FrameIs, Typed
      <4> QED
        BY <1>7, <4>1, <4>2 DEF FrameOK
    <3>2. CASE x # p
      <4>1. Fr(x)' = Fr(x) /\ FrameOK(Fr(x), x[2]) /\ x \in Pos
        BY <1>1, <1>3, <1>5, <3>2 DEF Swapped, FrameInv
      <4>2. Fr(x).job # j
        BY <1>9, <3>2, <4>1 DEF JobAt
      <4>3. state'[Fr(x).job] = state[Fr(x).job]
        BY <1>10, <4>2 DEF Typed
      <4> QED
        BY <1>2, <4>1, <4>3, FrameSame
    <3> QED
      BY <3>1, <3>2
  <2> QED
    BY <2>1 DEF FrameInv
<1>14. \A i : GlobalAt(i)' = GlobalAt(i) /\ LocalAt(i)' = LocalAt(i)
  BY <1>2, QueuesKept
<1>15. ASSUME NEW i \in Jobs PROVE Once(i)' /\ Held(i)'
  <2>1. CASE i = j
    <3>1. state'[j] = "done"
      BY <1>7, <1>10 DEF Typed
    <3>2. Held(j)'
      BY <1>9, <1>11, <1>14, <3>1 DEF Held, Unique, Apart
    <3>3. Once(j)'
      BY <1>9, <1>11, <3>1 DEF Once, Unique
    <3> QED
      BY <2>1, <3>2, <3>3
  <2>2. CASE i # j
    <3>1. state'[i] = state[i] /\ deps'[i] = deps[i]
      BY <1>2, <1>10, <2>2 DEF Typed
    <3> QED
      BY <1>1, <1>11, <1>14, <2>2, <3>1, JobKept DEF OnceInv, HolderInv
  <2> QED
    BY <2>1, <2>2
<1>16. OnceInv' /\ HolderInv'
  BY <1>15 DEF OnceInv, HolderInv
<1>17. DepsInv'
  <2>1. \A i \in Jobs : i # j => state'[i] = state[i]
    BY <1>10 DEF Typed
  <2>2. \A i \in Jobs : Signalled(i)' <=> Signalled(i)
    BY <1>7, <1>11, <1>12, <2>1 DEF Signalled
  <2>3. \A k \in Jobs : Unfinished(k)' = Unfinished(k)
    BY <2>2 DEF Unfinished
  <2>4. \A k \in Jobs : state'[k] \notin {"clear", "submitted"} => deps[k] = 0
    BY <1>1, <1>7, <2>1 DEF DepsInv
  <2> QED
    BY <1>1, <1>2, <2>3, <2>4 DEF DepsInv
<1>18. ClassInv'
  <2>1. QueueClasses'
    BY <1>1, <1>2, QueueClassesKept
  <2>2. \A x \in Pos' : Fr(x)'.pc = "execute" => x \in Pos /\ Fr(x).pc = "execute" /\ Fr(x)'.job = Fr(x).job
    BY <1>3, <1>5 DEF Swapped, FrameIs
  <2>3. \A i \in Jobs : state'[i] = "executing" => state[i] = "executing" /\ runner'[i] = runner[i]
    BY <1>7, <1>10 DEF Typed
  <2> QED
    BY <1>1, <1>2, <2>1, <2>2, <2>3, ClassParts
<1> QED
  BY <1>1, <1>2, <1>13, <1>16, <1>17, <1>18, QueuesKept DEF WorkInv

(* A call ends.                                                            *)
LEMMA WorkReturn ==
  ASSUME Typed, WorkInv, UNCHANGED <<state, deps, runner, global, local, prog>>,
         NEW c \in Contexts, NEW p, Returned(p, c),
         Top(c).pc \notin {"execute", "signal"}, Top(c).todo = {}, Top(c).ready = {}
  PROVE  WorkInv'
<1>1. FrameInv /\ OnceInv /\ HolderInv /\ QueueInv /\ DepsInv /\ ClassInv
  BY DEF WorkInv
<1>2. p \in Pos /\ Fr(p) = Top(c) /\ Pos' = Pos \ {p} /\ \A x \in Pos' : Fr(x)' = Fr(x)
  BY DEF Returned
<1>3. \A i : /\ JobAt(i)' \subseteq JobAt(i) /\ ReadyAt(i)' = ReadyAt(i) /\ TodoAt(i)' = TodoAt(i)
             /\ RunAt(i)' = RunAt(i) /\ SignalAt(i)' = SignalAt(i)
  BY <1>2 DEF JobAt, ReadyAt, TodoAt, RunAt, SignalAt
<1>4. FrameInv'
  <2>1. ASSUME NEW x \in Pos' PROVE FrameOK(Fr(x), x[2])'
    BY <1>1, <1>2, FrameSame DEF FrameInv
  <2> QED
    BY <2>1 DEF FrameInv
<1>5. OnceInv' /\ HolderInv'
  BY <1>1, <1>3, JobKept, QueuesKept DEF OnceInv, HolderInv
<1>6. QueueInv' /\ DepsInv'
  BY <1>1, <1>3, QueuesKept, DepsKept
<1>7. ClassInv'
  <2>1. QueueClasses'
    BY <1>1, QueueClassesKept
  <2> QED
    BY <1>1, <1>2, <2>1, ClassParts
<1> QED
  BY <1>4, <1>5, <1>6, <1>7 DEF WorkInv

(* The unfinished dependencies of a job are finitely many.                 *)
LEMMA UnfinishedFinite ==
  \A k \in Jobs : /\ IsFiniteSet(Unfinished(k)) /\ Cardinality(Unfinished(k)) \in Nat
                  /\ \A i \in Unfinished(k) : Cardinality(Unfinished(k)) > 0
                  /\ \A i \in Unfinished(k) : Cardinality(Unfinished(k) \ {i}) = Cardinality(Unfinished(k)) - 1
<1>1. ASSUME NEW k \in Jobs
      PROVE  /\ IsFiniteSet(Unfinished(k)) /\ Cardinality(Unfinished(k)) \in Nat
             /\ \A i \in Unfinished(k) : Cardinality(Unfinished(k)) > 0
             /\ \A i \in Unfinished(k) : Cardinality(Unfinished(k) \ {i}) = Cardinality(Unfinished(k)) - 1
  <2>1. Unfinished(k) \subseteq Jobs
    BY DEF Unfinished
  <2>2. IsFiniteSet(Unfinished(k))
    BY <2>1, FS_Subset, PoolAssumption
  <2>3. Cardinality(Unfinished(k)) \in Nat /\ (Cardinality(Unfinished(k)) = 0 <=> Unfinished(k) = {})
    BY <2>2, FS_CardinalityType, FS_EmptySet
  <2>4. \A i \in Unfinished(k) : Cardinality(Unfinished(k) \ {i}) = Cardinality(Unfinished(k)) - 1
    BY <2>2, FS_RemoveElement
  <2> QED
    BY <2>2, <2>3, <2>4
<1> QED
  BY <1>1

(* A job that is done signals its dependents.                              *)
LEMMA WorkSignal ==
  ASSUME Typed, WorkInv, NEW c \in Contexts, SignalEdges(c)
  PROVE  WorkInv'
<1>1. FrameInv /\ OnceInv /\ HolderInv /\ QueueInv /\ DepsInv /\ ClassInv
  BY DEF WorkInv
<1>2. stack[c] # <<>> /\ Top(c).pc = "signal" /\ UNCHANGED <<global, local, prog, state, runner>>
  BY DEF SignalEdges, In, queues, waiting
<1>3. PICK j : j = Top(c).job
  OBVIOUS
<1>4. PICK D : D = Dependents(j)
  OBVIOUS
<1>5. PICK T : T = {i \in D : state[i] = "submitted" /\ deps'[i] = 0}
  OBVIOUS
<1>6. PICK p, g : Swapped(p, c, g) /\ FrameIs(g, j, "process", T, Top(c).ready, Top(c).full, Top(c).freed)
  BY <1>3, <1>4, <1>5, SignalFrames
<1>7. p \in Pos /\ Fr(p) = Top(c) /\ Pos' = Pos /\ p[1] = c
  BY <1>6 DEF Swapped
<1>8. FrameOK(Top(c), p[2]) /\ p \in JobAt(j) /\ p \in SignalAt(j)
  BY <1>1, <1>2, <1>3, <1>7, TopOK
<1>9. j \in Jobs /\ state[j] = "done" /\ Top(c).todo = {} /\ Top(c).ready = {}
  BY <1>2, <1>3, <1>8 DEF FrameOK
<1>10. JobAt(j) = {p}
  BY <1>1, <1>8, <1>9 DEF OnceInv, Once, Unique
<1>11. SignalAt(j) = {p}
  BY <1>8, <1>10 DEF JobAt, SignalAt
<1>12. D = {k \in Jobs : <<j, k>> \in Before}
  BY <1>4 DEF Dependents
<1>13. deps' = [k \in Jobs |-> IF k \in D THEN deps[k] - 1 ELSE deps[k]]
  BY <1>3, <1>4 DEF SignalEdges
<1>14. \A k \in D : j \in Unfinished(k) /\ deps[k] > 0 /\ deps[k] \in Nat
  <2>1. \A k \in D : j \in Unfinished(k)
    BY <1>8, <1>9, <1>12 DEF Unfinished, Signalled
  <2> QED
    BY <1>1, <1>12, <2>1, UnfinishedFinite DEF DepsInv
<1>15. \A i : /\ JobAt(i)' = JobAt(i) /\ ReadyAt(i)' = ReadyAt(i) /\ RunAt(i)' = RunAt(i)
              /\ TodoAt(i)' = IF i \in T THEN TodoAt(i) \cup {p} ELSE TodoAt(i)
              /\ SignalAt(i)' = IF i = j THEN {} ELSE SignalAt(i)
  <2>1. ASSUME NEW i
        PROVE  /\ JobAt(i)' = JobAt(i) /\ ReadyAt(i)' = ReadyAt(i) /\ RunAt(i)' = RunAt(i)
               /\ TodoAt(i)' = IF i \in T THEN TodoAt(i) \cup {p} ELSE TodoAt(i)
               /\ SignalAt(i)' = IF i = j THEN {} ELSE SignalAt(i)
    <3>1. /\ JobAt(i)' = IF j = i THEN JobAt(i) \cup {p} ELSE JobAt(i) \ {p}
          /\ RunAt(i)' = RunAt(i) \ {p} /\ SignalAt(i)' = SignalAt(i) \ {p}
          /\ ReadyAt(i)' = ReadyAt(i) \ {p}
          /\ TodoAt(i)' = IF i \in T THEN TodoAt(i) \cup {p} ELSE TodoAt(i) \ {p}
      BY <1>6, <1>9, SwapSets DEF FrameIs
    <3>2. p \notin ReadyAt(i) /\ p \notin TodoAt(i) /\ p \notin RunAt(i) /\ (p \in SignalAt(i) <=> i = j)
      BY <1>1, <1>2, <1>3, <1>7, <1>9, TopOK
    <3>3. j = i <=> p \in JobAt(i)
      BY <1>1, <1>3, <1>7, TopOK
    <3> QED
      BY <1>11, <3>1, <3>2, <3>3
  <2> QED
    BY <2>1
<1>16. FrameInv'
  <2>1. ASSUME NEW x \in Pos' PROVE FrameOK(Fr(x), x[2])'
    <3>1. CASE x = p
      <4>1. g = Fr(x)'
        BY <1>7, <3>1, <1>6 DEF Swapped
      <4>2. g.job = j /\ g.pc = "process" /\ g.ready = {} /\ j # None /\ state'[j] = "done"
        BY <1>2, <1>6, <1>9, PoolAssumption DEF FrameIs
      <4> QED
        BY <1>9, <4>1, <4>2 DEF FrameOK
    <3>2. CASE x # p
      <4>1. Fr(x)' = Fr(x) /\ FrameOK(Fr(x), x[2]) /\ x \in Pos
        BY <1>1, <1>6, <1>7, <3>2 DEF Swapped, FrameInv
      <4> QED
        BY <1>2, <4>1, FrameSame
    <3> QED
      BY <3>1, <3>2
  <2> QED
    BY <2>1 DEF FrameInv
<1>17. \A i : GlobalAt(i)' = GlobalAt(i) /\ LocalAt(i)' = LocalAt(i)
  BY <1>2, QueuesKept
<1>18. ASSUME NEW i \in Jobs PROVE Once(i)' /\ Held(i)'
  <2>1. Once(i) /\ Held(i)
    BY <1>1 DEF OnceInv, HolderInv
  <2>2. Held(i)'
    BY <1>2, <1>15, <1>17, <2>1 DEF Held, Unique, Apart
  <2>3. CASE i \in T
    <3>1. TodoAt(i) = {}
      BY <1>5, <1>14, <2>1, <2>3 DEF Once
    <3>2. TodoAt(i)' = {p} /\ JobAt(i)' = JobAt(i) /\ state'[i] = "submitted" /\ deps'[i] = 0
      BY <1>2, <1>5, <1>15, <2>3, <3>1
    <3>3. Once(i)'
      BY <2>1, <3>2 DEF Once, Unique
    <3> QED
      BY <2>2, <3>3
  <2>4. CASE i \notin T
    <3>1. TodoAt(i)' = TodoAt(i) /\ JobAt(i)' = JobAt(i)
      BY <1>15, <2>4
    <3>2. TodoAt(i) # {} => state'[i] = "submitted" /\ deps'[i] = 0
      BY <1>2, <1>13, <1>14, <2>1 DEF Once
    <3>3. Once(i)'
      BY <2>1, <3>1, <3>2 DEF Once, Unique
    <3> QED
      BY <2>2, <3>3
  <2> QED
    BY <2>3, <2>4
<1>19. OnceInv' /\ HolderInv'
  BY <1>18 DEF OnceInv, HolderInv
<1>20. DepsInv'
  <2>1. \A i \in Jobs : Signalled(i)' <=> Signalled(i) \/ i = j
    BY <1>2, <1>9, <1>15 DEF Signalled
  <2>2. ASSUME NEW k \in Jobs PROVE deps'[k] = Cardinality(Unfinished(k)')
    <3>1. Unfinished(k)' = Unfinished(k) \ {j}
      BY <2>1 DEF Unfinished
    <3>2. CASE k \in D
      <4>1. deps'[k] = deps[k] - 1 /\ deps[k] = Cardinality(Unfinished(k))
        BY <1>1, <1>13, <3>2 DEF DepsInv
      <4>2. Cardinality(Unfinished(k) \ {j}) = Cardinality(Unfinished(k)) - 1
        BY <1>14, <3>2, UnfinishedFinite
      <4> QED
        BY <3>1, <4>1, <4>2
    <3>3. CASE k \notin D
      <4>1. deps'[k] = deps[k] /\ deps[k] = Cardinality(Unfinished(k))
        BY <1>1, <1>13, <3>3 DEF DepsInv
      <4>2. Unfinished(k) \ {j} = Unfinished(k)
        BY <1>9, <1>12, <3>3 DEF Unfinished
      <4> QED
        BY <3>1, <4>1, <4>2
    <3> QED
      BY <3>2, <3>3
  <2>3. \A k \in Jobs : state'[k] \notin {"clear", "submitted"} => deps'[k] = 0
    BY <1>1, <1>2, <1>13, <1>14 DEF DepsInv
  <2> QED
    BY <2>2, <2>3 DEF DepsInv
<1>21. ClassInv'
  <2>1. QueueClasses'
    BY <1>1, <1>2, QueueClassesKept
  <2>2. \A x \in Pos' : Fr(x)'.pc = "execute" => x \in Pos /\ Fr(x).pc = "execute" /\ Fr(x)'.job = Fr(x).job
    BY <1>6, <1>7 DEF Swapped, FrameIs
  <2> QED
    BY <1>1, <1>2, <2>1, <2>2, ClassParts
<1> QED
  BY <1>1, <1>2, <1>16, <1>19, <1>20, <1>21, QueuesKept DEF WorkInv

(* process() marks the jobs it will queue.                                 *)
LEMMA WorkMark ==
  ASSUME Typed, WorkInv, NEW c \in Contexts, Mark(c)
  PROVE  WorkInv'
<1>1. FrameInv /\ OnceInv /\ HolderInv /\ QueueInv /\ DepsInv /\ ClassInv
  BY DEF WorkInv
<1>2. PICK S : S = Top(c).todo \ SyncJobs
  OBVIOUS
<1>3. /\ stack[c] # <<>> /\ Top(c).pc = "process" /\ S # {}
      /\ UNCHANGED <<global, local, prog, deps, runner>>
      /\ state' = [i \in Jobs |-> IF i \in S THEN "processing" ELSE state[i]]
  BY <1>2 DEF Mark, In, queues, waiting
<1>4. PICK p, g : /\ Swapped(p, c, g)
                  /\ FrameIs(g, Top(c).job, "process", Top(c).todo \ S, S, Top(c).full, Top(c).freed)
  BY <1>2, MarkFrames
<1>5. p \in Pos /\ Fr(p) = Top(c) /\ Pos' = Pos /\ p[1] = c
  BY <1>4 DEF Swapped
<1>6. FrameOK(Top(c), p[2]) /\ Top(c) \in FrameSet
  BY <1>1, <1>5, TopOK
<1>7. /\ Top(c).ready = {} /\ S \subseteq Jobs
      /\ Top(c).job = None \/ (state[Top(c).job] = "done" /\ Top(c).job \in Jobs)
  <2>1. Top(c).ready = {} /\ (Top(c).job = None \/ state[Top(c).job] = "done")
    BY <1>2, <1>3, <1>6 DEF FrameOK
  <2> QED
    BY <1>2, <1>6, <2>1 DEF FrameSet
<1>8. \A i \in S : /\ TodoAt(i) = {p} /\ state[i] = "submitted" /\ deps[i] = 0 /\ JobAt(i) = {}
                   /\ ReadyAt(i) = {} /\ RunAt(i) = {} /\ GlobalAt(i) = {} /\ LocalAt(i) = {}
  <2>1. ASSUME NEW i \in S
        PROVE  /\ TodoAt(i) = {p} /\ state[i] = "submitted" /\ deps[i] = 0 /\ JobAt(i) = {}
               /\ ReadyAt(i) = {} /\ RunAt(i) = {} /\ GlobalAt(i) = {} /\ LocalAt(i) = {}
    <3>1. Once(i) /\ Held(i) /\ i \in Jobs
      BY <1>1, <1>7 DEF OnceInv, HolderInv
    <3>2. p \in TodoAt(i)
      BY <1>1, <1>2, <1>5, TopOK
    <3>3. TodoAt(i) = {p} /\ state[i] = "submitted" /\ deps[i] = 0
      BY <3>1, <3>2 DEF Once, Unique
    <3> QED
      BY <1>1, <3>1, <3>3, NotRunning DEF Held
  <2> QED
    BY <2>1
<1>9. \A i : /\ JobAt(i)' = JobAt(i) /\ RunAt(i)' = RunAt(i) /\ SignalAt(i)' = SignalAt(i)
             /\ i \in S => TodoAt(i)' = {} /\ ReadyAt(i)' = {p}
             /\ i \notin S => TodoAt(i)' = TodoAt(i) /\ ReadyAt(i)' = ReadyAt(i)
  <2>1. ASSUME NEW i
        PROVE  /\ JobAt(i)' = JobAt(i) /\ RunAt(i)' = RunAt(i) /\ SignalAt(i)' = SignalAt(i)
               /\ i \in S => TodoAt(i)' = {} /\ ReadyAt(i)' = {p}
               /\ i \notin S => TodoAt(i)' = TodoAt(i) /\ ReadyAt(i)' = ReadyAt(i)
    <3>1. /\ JobAt(i)' = IF Top(c).job = i THEN JobAt(i) \cup {p} ELSE JobAt(i) \ {p}
          /\ RunAt(i)' = RunAt(i) \ {p} /\ SignalAt(i)' = SignalAt(i) \ {p}
          /\ ReadyAt(i)' = IF i \in S THEN ReadyAt(i) \cup {p} ELSE ReadyAt(i) \ {p}
          /\ TodoAt(i)' = IF i \in Top(c).todo \ S THEN TodoAt(i) \cup {p} ELSE TodoAt(i) \ {p}
      BY <1>4, SwapSets DEF FrameIs
    <3>2. p \notin ReadyAt(i) /\ p \notin RunAt(i) /\ p \notin SignalAt(i) /\ (i \in Top(c).todo <=> p \in TodoAt(i))
      BY <1>1, <1>3, <1>5, <1>7, TopOK
    <3>3. Top(c).job = i <=> p \in JobAt(i)
      BY <1>1, <1>5, TopOK
    <3> QED
      BY <1>8, <3>1, <3>2, <3>3
  <2> QED
    BY <2>1
<1>10. FrameInv'
  <2>1. ASSUME NEW x \in Pos' PROVE FrameOK(Fr(x), x[2])'
    <3>1. CASE x = p
      <4>1. g = Fr(x)'
        BY <1>5, <3>1, <1>4 DEF Swapped
      <4>2. /\ g.job = Top(c).job /\ g.pc = "process" /\ g.todo \subseteq SyncJobs
            /\ g.job = None \/ state'[g.job] = "done"
        BY <1>2, <1>3, <1>4, <1>7, <1>8 DEF FrameIs
      <4>3. g.job = None => p[2] = 1
        BY <1>6, <4>2 DEF FrameOK
      <4> QED
        BY <1>3, <3>1, <4>1, <4>2, <4>3, ProgKept DEF FrameOK
    <3>2. CASE x # p
      <4>1. Fr(x)' = Fr(x) /\ FrameOK(Fr(x), x[2]) /\ x \in Pos
        BY <1>1, <1>4, <1>5, <3>2 DEF Swapped, FrameInv
      <4>2. Fr(x).job = None \/ (Fr(x).job \in Jobs /\ Fr(x).job \notin S)
        BY <1>8, <4>1, AllFrames DEF FrameSet, JobAt
      <4>3. Fr(x).job = None \/ state'[Fr(x).job] = state[Fr(x).job]
        BY <1>3, <4>2
      <4> QED
        BY <1>3, <4>1, <4>3, FrameSame
    <3> QED
      BY <3>1, <3>2
  <2> QED
    BY <2>1 DEF FrameInv
<1>11. \A i : GlobalAt(i)' = GlobalAt(i) /\ LocalAt(i)' = LocalAt(i)
  BY <1>3, QueuesKept
<1>12. ASSUME NEW i \in Jobs PROVE Once(i)' /\ Held(i)'
  <2>1. CASE i \in S
    <3>1. state'[i] = "processing" /\ TodoAt(i)' = {} /\ ReadyAt(i)' = {p} /\ JobAt(i)' = {} /\ RunAt(i)' = {}
          /\ GlobalAt(i)' = {} /\ LocalAt(i)' = {}
      BY <1>3, <1>8, <1>9, <1>11, <2>1
    <3> QED
      BY <3>1 DEF Held, Once, Unique, Apart
  <2>2. CASE i \notin S
    <3>1. state'[i] = state[i] /\ deps'[i] = deps[i]
      BY <1>3, <2>2
    <3> QED
      BY <1>1, <1>9, <1>11, <2>2, <3>1, JobKept DEF OnceInv, HolderInv
  <2> QED
    BY <2>1, <2>2
<1>13. OnceInv' /\ HolderInv'
  BY <1>12 DEF OnceInv, HolderInv
<1>14. DepsInv'
  <2>1. \A i \in Jobs : (state'[i] = "done" <=> state[i] = "done") /\ (state'[i] = state[i] \/ deps[i] = 0)
    BY <1>3, <1>8
  <2> QED
    BY <1>1, <1>3, <1>9, <2>1, DepsKept
<1>15. ClassInv'
  <2>1. QueueClasses'
    BY <1>1, <1>3, QueueClassesKept
  <2>2. \A x \in Pos' : Fr(x)'.pc = "execute" => x \in Pos /\ Fr(x).pc = "execute" /\ Fr(x)'.job = Fr(x).job
    BY <1>4, <1>5 DEF Swapped, FrameIs
  <2>3. \A i \in Jobs : state'[i] = "executing" => state[i] = "executing" /\ runner'[i] = runner[i]
    BY <1>3
  <2> QED
    BY <1>1, <1>3, <2>1, <2>2, <2>3, ClassParts
<1> QED
  BY <1>1, <1>3, <1>10, <1>13, <1>14, <1>15, QueuesKept DEF WorkInv

(* The calls after a call has changed and made a call of run(job).         *)
LEMMA RunCallSets ==
  ASSUME Typed, FrameInv, NEW c, NEW p, NEW q, NEW g, NEW j \in Jobs,
         SwappedAndCalled(p, q, c, g, RunFrame(j)), g.job = Top(c).job, g.pc = "process",
         Top(c).pc \notin {"execute", "signal"}
  PROVE  /\ \A i : /\ JobAt(i)' = IF i = j THEN JobAt(i) \cup {q} ELSE JobAt(i)
                   /\ RunAt(i)' = IF i = j THEN RunAt(i) \cup {q} ELSE RunAt(i)
                   /\ SignalAt(i)' = SignalAt(i)
                   /\ ReadyAt(i)' = IF i \in g.ready THEN ReadyAt(i) \cup {p} ELSE ReadyAt(i) \ {p}
                   /\ TodoAt(i)' = IF i \in g.todo THEN TodoAt(i) \cup {p} ELSE TodoAt(i) \ {p}
         /\ \A x \in Pos' : Fr(x)'.pc = "execute" =>
              \/ x \in Pos /\ Fr(x).pc = "execute" /\ Fr(x)'.job = Fr(x).job
              \/ x[1] = c /\ Fr(x)'.job = j
<1>1. /\ p \in Pos /\ Fr(p) = Top(c) /\ q \notin Pos /\ Pos' = Pos \cup {q} /\ q[1] = c
      /\ \A x \in Pos' : Fr(x)' = IF x = q THEN RunFrame(j) ELSE IF x = p THEN g ELSE Fr(x)
  BY DEF SwappedAndCalled
<1>2. PICK f : f = RunFrame(j)
  OBVIOUS
<1>3. f.job = j /\ f.pc = "execute" /\ f.todo = {} /\ f.ready = {}
  BY <1>2, NewFrame DEF FrameIs, Steps
<1>4. \A x \in Pos' : Fr(x)' = IF x = q THEN f ELSE IF x = p THEN g ELSE Fr(x)
  BY <1>1, <1>2
<1>5. ASSUME NEW i
      PROVE  /\ JobAt(i)' = IF i = j THEN JobAt(i) \cup {q} ELSE JobAt(i)
             /\ RunAt(i)' = IF i = j THEN RunAt(i) \cup {q} ELSE RunAt(i)
             /\ SignalAt(i)' = SignalAt(i)
             /\ ReadyAt(i)' = IF i \in g.ready THEN ReadyAt(i) \cup {p} ELSE ReadyAt(i) \ {p}
             /\ TodoAt(i)' = IF i \in g.todo THEN TodoAt(i) \cup {p} ELSE TodoAt(i) \ {p}
  <2>1. JobAt(i)' = IF i = j THEN JobAt(i) \cup {q} ELSE JobAt(i)
    BY <1>1, <1>3, <1>4 DEF JobAt
  <2>2. RunAt(i)' = IF i = j THEN RunAt(i) \cup {q} ELSE RunAt(i)
    BY <1>1, <1>3, <1>4 DEF RunAt
  <2>3. SignalAt(i)' = SignalAt(i)
    BY <1>1, <1>3, <1>4 DEF SignalAt
  <2>4. ReadyAt(i)' = IF i \in g.ready THEN ReadyAt(i) \cup {p} ELSE ReadyAt(i) \ {p}
    BY <1>1, <1>3, <1>4 DEF ReadyAt
  <2>5. TodoAt(i)' = IF i \in g.todo THEN TodoAt(i) \cup {p} ELSE TodoAt(i) \ {p}
    BY <1>1, <1>3, <1>4 DEF TodoAt
  <2> QED
    BY <2>1, <2>2, <2>3, <2>4, <2>5
<1>6. \A x \in Pos' : Fr(x)'.pc = "execute" =>
        \/ x \in Pos /\ Fr(x).pc = "execute" /\ Fr(x)'.job = Fr(x).job
        \/ x[1] = c /\ Fr(x)'.job = j
  BY <1>1, <1>3, <1>4
<1> QED
  BY <1>5, <1>6

(* They are as run() and process() leave them.                             *)
LEMMA RunCallFrames ==
  ASSUME Typed, FrameInv, NEW c, NEW p, NEW q, NEW g, NEW j \in Jobs,
         SwappedAndCalled(p, q, c, g, RunFrame(j)), g.job = Top(c).job, g.pc = "process",
         Top(c).pc \in {"process", "release", "global", "steal"},
         g.todo \subseteq SyncJobs \/ g.ready = {},
         JobAt(j) = {}, prog' = prog, state'[j] = "processing",
         \A i \in Jobs : i # j => state'[i] = state[i]
  PROVE  FrameInv'
<1>1. /\ p \in Pos /\ Fr(p) = Top(c) /\ q \notin Pos /\ Pos' = Pos \cup {q}
      /\ \A x \in Pos' : Fr(x)' = IF x = q THEN RunFrame(j) ELSE IF x = p THEN g ELSE Fr(x)
  BY DEF SwappedAndCalled
<1>2. SyncJobs' = SyncJobs /\ None \notin Jobs
  BY ProgKept, PoolAssumption
<1>3. ASSUME NEW x \in Pos PROVE Fr(x).job = None \/ state'[Fr(x).job] = state[Fr(x).job]
  <2>1. Fr(x).job = None \/ (Fr(x).job \in Jobs /\ Fr(x).job # j)
    BY <1>3, AllFrames DEF FrameSet, JobAt
  <2> QED
    BY <2>1
<1>4. ASSUME NEW x \in Pos' PROVE FrameOK(Fr(x), x[2])'
  <2>1. CASE x = q
    <3>1. PICK f : f = RunFrame(j)
      OBVIOUS
    <3>2. f.job = j /\ f.pc = "execute" /\ f.todo = {} /\ f.ready = {}
      BY <3>1, NewFrame DEF FrameIs, Steps
    <3>3. Fr(x)' = f
      BY <1>1, <2>1, <3>1
    <3> QED
      BY <1>2, <3>2, <3>3 DEF FrameOK
  <2>2. CASE x = p
    <3>1. Fr(x)' = g
      BY <1>1, <2>2
    <3>2. /\ Top(c).job = None => x[2] = 1
          /\ Top(c).job = None \/ state[Top(c).job] = "done"
      BY <1>1, <2>2, TopOK DEF FrameOK
    <3>3. g.job = None \/ state'[g.job] = "done"
      BY <1>1, <1>3, <3>2
    <3> QED
      BY <1>2, <3>1, <3>2, <3>3 DEF FrameOK
  <2>3. CASE x \in Pos /\ x # p
    <3>1. Fr(x)' = Fr(x) /\ FrameOK(Fr(x), x[2])
      BY <1>1, <2>3 DEF FrameInv
    <3> QED
      BY <1>3, <2>3, <3>1, FrameSame
  <2> QED
    BY <1>1, <2>1, <2>2, <2>3
<1> QED
  BY <1>4 DEF FrameInv

(* process() runs a job without a functor.                                 *)
LEMMA WorkRunSync ==
  ASSUME Typed, WorkInv, NEW c \in Contexts, RunSync(c)
  PROVE  WorkInv'
<1>1. FrameInv /\ OnceInv /\ HolderInv /\ QueueInv /\ DepsInv /\ ClassInv
  BY DEF WorkInv
<1>2. /\ stack[c] # <<>> /\ Top(c).pc = "process" /\ Top(c).todo \subseteq SyncJobs
      /\ UNCHANGED <<global, local, prog, deps, runner>>
  BY DEF RunSync, In, queues, waiting
<1>3. PICK j \in Top(c).todo : \E p, q, g :
           /\ state' = [state EXCEPT ![j] = "processing"]
           /\ SwappedAndCalled(p, q, c, g, RunFrame(j))
           /\ FrameIs(g, Top(c).job, "process", Top(c).todo \ {j}, Top(c).ready, Top(c).full,
                Top(c).freed)
  BY RunSyncFrames
<1>4. PICK p, q, g :
           /\ state' = [state EXCEPT ![j] = "processing"]
           /\ SwappedAndCalled(p, q, c, g, RunFrame(j))
           /\ FrameIs(g, Top(c).job, "process", Top(c).todo \ {j}, Top(c).ready, Top(c).full,
                Top(c).freed)
  BY <1>3
<1>5. p \in Pos /\ Fr(p) = Top(c) /\ g.job = Top(c).job /\ g.pc = "process"
  BY <1>4 DEF SwappedAndCalled, FrameIs
<1>6. FrameOK(Top(c), p[2]) /\ Top(c) \in FrameSet /\ p \in TodoAt(j)
  BY <1>1, <1>3, <1>5, TopOK
<1>7. j \in Jobs /\ j \in SyncJobs
  BY <1>2, <1>3, <1>6 DEF FrameSet
<1>8. Once(j) /\ Held(j)
  BY <1>1, <1>7 DEF OnceInv, HolderInv
<1>9. TodoAt(j) = {p} /\ state[j] = "submitted" /\ deps[j] = 0
  BY <1>6, <1>8 DEF Once, Unique
<1>10. JobAt(j) = {} /\ ReadyAt(j) = {} /\ RunAt(j) = {} /\ GlobalAt(j) = {} /\ LocalAt(j) = {}
  BY <1>1, <1>7, <1>8, <1>9, NotRunning DEF Held
<1>11. state'[j] = "processing" /\ \A i \in Jobs : i # j => state'[i] = state[i]
  BY <1>4, <1>7 DEF Typed
<1>12. /\ \A i : /\ JobAt(i)' = IF i = j THEN JobAt(i) \cup {q} ELSE JobAt(i)
                 /\ RunAt(i)' = IF i = j THEN RunAt(i) \cup {q} ELSE RunAt(i)
                 /\ SignalAt(i)' = SignalAt(i)
                 /\ ReadyAt(i)' = IF i \in g.ready THEN ReadyAt(i) \cup {p} ELSE ReadyAt(i) \ {p}
                 /\ TodoAt(i)' = IF i \in g.todo THEN TodoAt(i) \cup {p} ELSE TodoAt(i) \ {p}
       /\ \A x \in Pos' : Fr(x)'.pc = "execute" =>
            \/ x \in Pos /\ Fr(x).pc = "execute" /\ Fr(x)'.job = Fr(x).job
            \/ x[1] = c /\ Fr(x)'.job = j
  BY <1>1, <1>2, <1>4, <1>5, <1>7, RunCallSets
<1>13. g.ready = Top(c).ready /\ g.todo = Top(c).todo \ {j}
  BY <1>4 DEF FrameIs
<1>14. \A i : ReadyAt(i)' = ReadyAt(i) /\ TodoAt(i)' = IF i = j THEN {} ELSE TodoAt(i)
  <2>1. \A i : (i \in Top(c).ready <=> p \in ReadyAt(i)) /\ (i \in Top(c).todo <=> p \in TodoAt(i))
    BY <1>1, <1>5, TopOK
  <2> QED
    BY <1>9, <1>12, <1>13, <2>1
<1>15. FrameInv'
  <2>1. g.todo \subseteq SyncJobs
    BY <1>2, <1>13
  <2> QED
    BY <1>1, <1>2, <1>4, <1>5, <1>7, <1>10, <1>11, <2>1, RunCallFrames
<1>16. \A i : GlobalAt(i)' = GlobalAt(i) /\ LocalAt(i)' = LocalAt(i)
  BY <1>2, QueuesKept
<1>17. ASSUME NEW i \in Jobs PROVE Once(i)' /\ Held(i)'
  <2>1. CASE i = j
    <3>1. /\ state'[i] = "processing" /\ TodoAt(i)' = {} /\ ReadyAt(i)' = {} /\ JobAt(i)' = {q}
          /\ RunAt(i)' = {q} /\ GlobalAt(i)' = {} /\ LocalAt(i)' = {}
      BY <1>10, <1>11, <1>12, <1>14, <1>16, <2>1
    <3> QED
      BY <3>1 DEF Held, Once, Unique, Apart
  <2>2. CASE i # j
    <3>1. state'[i] = state[i] /\ deps'[i] = deps[i]
      BY <1>2, <1>11, <2>2
    <3>2. JobAt(i)' = JobAt(i) /\ RunAt(i)' = RunAt(i) /\ ReadyAt(i)' = ReadyAt(i) /\ TodoAt(i)' = TodoAt(i)
      BY <1>12, <1>14, <2>2
    <3> QED
      BY <1>1, <1>16, <3>1, <3>2, JobKept DEF OnceInv, HolderInv
  <2> QED
    BY <2>1, <2>2
<1>18. OnceInv' /\ HolderInv'
  BY <1>17 DEF OnceInv, HolderInv
<1>19. DepsInv'
  <2>1. \A i \in Jobs : (state'[i] = "done" <=> state[i] = "done") /\ (state'[i] = state[i] \/ deps[i] = 0)
    BY <1>9, <1>11
  <2> QED
    BY <1>1, <1>2, <1>12, <2>1, DepsKept
<1>20. ClassInv'
  <2>1. QueueClasses'
    BY <1>1, <1>2, QueueClassesKept
  <2>2. Fits(c, j)
    BY <1>7 DEF Fits
  <2>3. \A i \in Jobs : state'[i] = "executing" => state[i] = "executing" /\ runner'[i] = runner[i]
    BY <1>2, <1>11
  <2> QED
    BY <1>1, <1>2, <1>12, <2>1, <2>2, <2>3, ClassParts
<1> QED
  BY <1>1, <1>2, <1>15, <1>18, <1>19, <1>20, QueuesKept DEF WorkInv

(* process() runs a job whose queue is full.                               *)
LEMMA WorkInline ==
  ASSUME Typed, WorkInv, UNCHANGED <<state, deps, runner, global, local, prog>>,
         NEW c \in Contexts, NEW p, NEW q, NEW g, NEW j, j = Top(c).full, j # None,
         Top(c).pc = "release", CanRunInline(c, j), SwappedAndCalled(p, q, c, g, RunFrame(j)),
         FrameIs(g, Top(c).job, "process", Top(c).todo, Top(c).ready \ {j}, None, [k \in Classes |-> 0])
  PROVE  WorkInv'
<1>1. FrameInv /\ OnceInv /\ HolderInv /\ QueueInv /\ DepsInv /\ ClassInv
  BY DEF WorkInv
<1>2. p \in Pos /\ Fr(p) = Top(c) /\ g.job = Top(c).job /\ g.pc = "process"
  BY DEF SwappedAndCalled, FrameIs
<1>3. FrameOK(Top(c), p[2]) /\ Top(c) \in FrameSet
  BY <1>1, <1>2, TopOK
<1>4. j \in Jobs /\ j \in Top(c).ready /\ Top(c).todo = {}
  <2>1. j \in Top(c).ready /\ Top(c).todo = {}
    BY <1>3 DEF FrameOK
  <2> QED
    BY <1>3, <2>1 DEF FrameSet
<1>5. Once(j) /\ Held(j) /\ p \in ReadyAt(j)
  BY <1>1, <1>2, <1>4, TopOK DEF OnceInv, HolderInv
<1>6. ReadyAt(j) = {p} /\ RunAt(j) = {} /\ GlobalAt(j) = {} /\ LocalAt(j) = {} /\ state[j] = "processing"
  BY <1>5 DEF Held, Unique, Apart
<1>7. JobAt(j) = {}
  BY <1>1, <1>4, <1>5, <1>6, NotRunning
<1>8. /\ \A i : /\ JobAt(i)' = IF i = j THEN JobAt(i) \cup {q} ELSE JobAt(i)
                /\ RunAt(i)' = IF i = j THEN RunAt(i) \cup {q} ELSE RunAt(i)
                /\ SignalAt(i)' = SignalAt(i)
                /\ ReadyAt(i)' = IF i \in g.ready THEN ReadyAt(i) \cup {p} ELSE ReadyAt(i) \ {p}
                /\ TodoAt(i)' = IF i \in g.todo THEN TodoAt(i) \cup {p} ELSE TodoAt(i) \ {p}
      /\ \A x \in Pos' : Fr(x)'.pc = "execute" =>
           \/ x \in Pos /\ Fr(x).pc = "execute" /\ Fr(x)'.job = Fr(x).job
           \/ x[1] = c /\ Fr(x)'.job = j
  BY <1>1, <1>2, <1>4, RunCallSets
<1>9. g.ready = Top(c).ready \ {j} /\ g.todo = {}
  BY <1>4 DEF FrameIs
<1>10. \A i : TodoAt(i)' = TodoAt(i) /\ ReadyAt(i)' = IF i = j THEN {} ELSE ReadyAt(i)
  <2>1. \A i : (i \in Top(c).ready <=> p \in ReadyAt(i)) /\ (i \in Top(c).todo <=> p \in TodoAt(i))
    BY <1>1, <1>2, TopOK
  <2>2. \A i : TodoAt(i)' = TodoAt(i)
    <3>1. \A i : p \notin TodoAt(i)
      BY <1>4, <2>1
    <3>2. \A i : TodoAt(i)' = TodoAt(i) \ {p}
      BY <1>8, <1>9
    <3> QED
      BY <3>1, <3>2
  <2>3. ReadyAt(j)' = {}
    BY <1>6, <1>8, <1>9
  <2>4. \A i : i # j => ReadyAt(i)' = ReadyAt(i)
    BY <1>8, <1>9, <2>1
  <2> QED
    BY <2>2, <2>3, <2>4
<1>11. FrameInv'
  BY <1>1, <1>2, <1>4, <1>6, <1>7, <1>9, RunCallFrames
<1>12. \A i : GlobalAt(i)' = GlobalAt(i) /\ LocalAt(i)' = LocalAt(i)
  BY QueuesKept
<1>13. ASSUME NEW i \in Jobs PROVE Once(i)' /\ Held(i)'
  <2>1. CASE i = j
    <3>1. /\ state'[i] = "processing" /\ TodoAt(i)' = TodoAt(i) /\ ReadyAt(i)' = {} /\ JobAt(i)' = {q}
          /\ RunAt(i)' = {q} /\ GlobalAt(i)' = {} /\ LocalAt(i)' = {}
      BY <1>6, <1>7, <1>8, <1>10, <1>12, <2>1
    <3>2. Held(i)'
      BY <3>1 DEF Held, Unique, Apart
    <3>3. Once(i)'
      BY <1>5, <2>1, <3>1 DEF Once, Unique
    <3> QED
      BY <3>2, <3>3
  <2>2. CASE i # j
    <3>1. JobAt(i)' = JobAt(i) /\ RunAt(i)' = RunAt(i) /\ ReadyAt(i)' = ReadyAt(i) /\ TodoAt(i)' = TodoAt(i)
      BY <1>8, <1>10, <2>2
    <3> QED
      BY <1>1, <1>12, <3>1, JobKept DEF OnceInv, HolderInv
  <2> QED
    BY <2>1, <2>2
<1>14. OnceInv' /\ HolderInv'
  BY <1>13 DEF OnceInv, HolderInv
<1>15. DepsInv'
  BY <1>1, <1>8, DepsKept
<1>16. ClassInv'
  <2>1. QueueClasses'
    BY <1>1, QueueClassesKept
  <2>2. Fits(c, j)
    BY ClassFacts DEF Fits, CanRunInline
  <2> QED
    BY <1>1, <1>8, <2>1, <2>2, ClassParts
<1> QED
  BY <1>1, <1>11, <1>14, <1>15, <1>16, QueuesKept DEF WorkInv

(* A job is pushed.                                                        *)
LEMMA PushQueues ==
  ASSUME Typed, WorkInv, NEW c \in Contexts, NEW j \in Jobs, GlobalAt(j) = {}, LocalAt(j) = {},
         Enqueue(c, j, UsesLocal(c, j)), prog' = prog
  PROVE  /\ QueueInv' /\ QueueClasses'
         /\ \A i : i # j => GlobalAt(i)' = GlobalAt(i) /\ LocalAt(i)' = LocalAt(i)
         /\ \/ GlobalAt(j)' = {JobClass(j)} /\ LocalAt(j)' = {}
            \/ GlobalAt(j)' = {} /\ LocalAt(j)' = {c}
<1>1. QueueInv /\ QueueClasses /\ \A i : JobClass(i)' = JobClass(i)
  BY ProgKept DEF WorkInv, ClassInv, QueueClasses
<1>2. CASE UsesLocal(c, j)
  <2>1. c \in Workers /\ ClassOf(c) = JobClass(j)
    BY <1>2 DEF UsesLocal
  <2>2. PICK s \in Seq(Jobs) : s = local[c]
    BY <2>1 DEF Typed
  <2>3. PICK t : t = Append(s, j)
    OBVIOUS
  <2>4. local' = [local EXCEPT ![c] = t] /\ global' = global /\ local \in [Workers -> Seq(Jobs)]
    BY <1>2, <2>2, <2>3 DEF Enqueue, Typed
  <2>5. j \notin Rng(s) /\ Distinct(s)
    BY <1>1, <2>1, <2>2 DEF LocalAt, QueueInv
  <2>6. Rng(t) = Rng(s) \cup {j} /\ Distinct(t)
    BY <2>3, <2>5, RngAppend
  <2>7. local'[c] = t /\ \A w \in Workers \ {c} : local'[w] = local[w]
    BY <2>1, <2>4
  <2>8. QueueInv'
    <3>1. \A w \in Workers : Distinct(local'[w])
      BY <1>1, <2>6, <2>7 DEF QueueInv
    <3>2. \A k \in Classes : Distinct(global'[k])
      BY <1>1, <2>4 DEF QueueInv
    <3> QED
      BY <3>1, <3>2 DEF QueueInv, Distinct
  <2>9. \A w \in Workers : Rng(local[w])' = IF w = c THEN Rng(local[w]) \cup {j} ELSE Rng(local[w])
    <3>1. Rng(local[c])' = Rng(t) /\ Rng(local[c]) = Rng(s)
      BY <2>2, <2>7 DEF Rng
    <3>2. \A w \in Workers \ {c} : Rng(local[w])' = Rng(local[w])
      BY <2>7 DEF Rng
    <3> QED
      BY <2>6, <3>1, <3>2
  <2>10. \A k \in Classes : Rng(global[k])' = Rng(global[k])
    BY <2>4 DEF Rng
  <2>11. QueueClasses'
    BY <1>1, <2>1, <2>9, <2>10 DEF QueueClasses, ClassOf
  <2>12. \A i : GlobalAt(i)' = GlobalAt(i) /\ (i # j => LocalAt(i)' = LocalAt(i))
    BY <2>9, <2>10 DEF GlobalAt, LocalAt
  <2>13. LocalAt(j)' = {c}
    BY <2>1, <2>9 DEF LocalAt
  <2> QED
    BY <2>8, <2>11, <2>12, <2>13
<1>3. CASE ~UsesLocal(c, j)
  <2>1. PICK k \in Classes : k = JobClass(j)
    BY ClassFacts
  <2>2. PICK s \in Seq(Jobs) : s = global[k]
    BY <2>1 DEF Typed
  <2>3. PICK t : t = Append(s, j)
    OBVIOUS
  <2>4. global' = [global EXCEPT ![k] = t] /\ local' = local /\ global \in [Classes -> Seq(Jobs)]
    BY <1>3, <2>1, <2>2, <2>3 DEF Enqueue, Typed
  <2>5. j \notin Rng(s) /\ Distinct(s)
    BY <1>1, <2>1, <2>2 DEF GlobalAt, QueueInv
  <2>6. Rng(t) = Rng(s) \cup {j} /\ Distinct(t)
    BY <2>3, <2>5, RngAppend
  <2>7. global'[k] = t /\ \A h \in Classes \ {k} : global'[h] = global[h]
    BY <2>1, <2>4
  <2>8. QueueInv'
    <3>1. \A h \in Classes : Distinct(global'[h])
      BY <1>1, <2>6, <2>7 DEF QueueInv
    <3>2. \A w \in Workers : Distinct(local'[w])
      BY <1>1, <2>4 DEF QueueInv
    <3> QED
      BY <3>1, <3>2 DEF QueueInv, Distinct
  <2>9. \A h \in Classes : Rng(global[h])' = IF h = k THEN Rng(global[h]) \cup {j} ELSE Rng(global[h])
    <3>1. Rng(global[k])' = Rng(t) /\ Rng(global[k]) = Rng(s)
      BY <2>2, <2>7 DEF Rng
    <3>2. \A h \in Classes \ {k} : Rng(global[h])' = Rng(global[h])
      BY <2>7 DEF Rng
    <3> QED
      BY <2>6, <3>1, <3>2
  <2>10. \A w \in Workers : Rng(local[w])' = Rng(local[w])
    BY <2>4 DEF Rng
  <2>11. QueueClasses'
    BY <1>1, <2>1, <2>9, <2>10 DEF QueueClasses, ClassOf
  <2>12. \A i : LocalAt(i)' = LocalAt(i) /\ (i # j => GlobalAt(i)' = GlobalAt(i))
    BY <2>9, <2>10 DEF GlobalAt, LocalAt
  <2>13. GlobalAt(j)' = {k}
    BY <2>1, <2>9 DEF GlobalAt
  <2> QED
    BY <2>1, <2>8, <2>11, <2>12, <2>13
<1> QED
  BY <1>2, <1>3

(* process() pushes a job to a queue.                                      *)
LEMMA WorkPush ==
  ASSUME Typed, WorkInv, NEW c \in Contexts, Push(c)
  PROVE  WorkInv'
<1>1. FrameInv /\ OnceInv /\ HolderInv /\ QueueInv /\ DepsInv /\ ClassInv
  BY DEF WorkInv
<1>2. stack[c] # <<>> /\ Top(c).pc = "process" /\ Top(c).todo = {} /\ UNCHANGED <<state, deps, runner, prog>>
  BY DEF Push, In, jobs, waiting
<1>3. PICK j \in Top(c).ready : Enqueue(c, j, UsesLocal(c, j))
  BY DEF Push
<1>4. PICK p, g : /\ Swapped(p, c, g)
                  /\ FrameIs(g, Top(c).job, "process", Top(c).todo, Top(c).ready \ {j}, Top(c).full,
                       [Top(c).freed EXCEPT ![JobClass(j)] = Top(c).freed[JobClass(j)] + 1])
  BY <1>2, <1>3, PushFrames
<1>5. p \in Pos /\ Fr(p) = Top(c) /\ Pos' = Pos
  BY <1>4 DEF Swapped
<1>6. FrameOK(Top(c), p[2]) /\ Top(c) \in FrameSet
  BY <1>1, <1>5, TopOK
<1>7. j \in Jobs /\ Held(j) /\ Once(j) /\ p \in ReadyAt(j)
  <2>1. j \in Jobs
    BY <1>3, <1>6 DEF FrameSet
  <2> QED
    BY <1>1, <1>3, <1>5, <2>1, TopOK DEF HolderInv, OnceInv
<1>8. ReadyAt(j) = {p} /\ RunAt(j) = {} /\ GlobalAt(j) = {} /\ LocalAt(j) = {} /\ state[j] = "processing"
  BY <1>7 DEF Held, Unique, Apart
<1>9. /\ QueueInv' /\ QueueClasses'
      /\ \A i : i # j => GlobalAt(i)' = GlobalAt(i) /\ LocalAt(i)' = LocalAt(i)
      /\ \/ GlobalAt(j)' = {JobClass(j)} /\ LocalAt(j)' = {}
         \/ GlobalAt(j)' = {} /\ LocalAt(j)' = {c}
  BY <1>2, <1>3, <1>7, <1>8, PushQueues
<1>10. /\ \A i : /\ JobAt(i)' = JobAt(i) /\ TodoAt(i)' = TodoAt(i) /\ SignalAt(i)' = SignalAt(i)
                 /\ RunAt(i)' = RunAt(i) /\ (i # j => ReadyAt(i)' = ReadyAt(i))
       /\ ReadyAt(j)' = {}
  <2>1. ASSUME NEW i
        PROVE  /\ JobAt(i)' = JobAt(i) /\ TodoAt(i)' = TodoAt(i) /\ SignalAt(i)' = SignalAt(i)
               /\ RunAt(i)' = RunAt(i) /\ (i # j => ReadyAt(i)' = ReadyAt(i))
    <3>1. /\ JobAt(i)' = IF Top(c).job = i THEN JobAt(i) \cup {p} ELSE JobAt(i) \ {p}
          /\ RunAt(i)' = RunAt(i) \ {p} /\ SignalAt(i)' = SignalAt(i) \ {p}
          /\ ReadyAt(i)' = IF i \in Top(c).ready \ {j} THEN ReadyAt(i) \cup {p} ELSE ReadyAt(i) \ {p}
          /\ TodoAt(i)' = TodoAt(i) \ {p}
      BY <1>2, <1>4, SwapSets DEF FrameIs
    <3>2. p \notin TodoAt(i) /\ p \notin RunAt(i) /\ p \notin SignalAt(i) /\ (i \in Top(c).ready <=> p \in ReadyAt(i))
      BY <1>1, <1>2, <1>5, TopOK
    <3>3. Top(c).job = i <=> p \in JobAt(i)
      BY <1>1, <1>5, TopOK
    <3> QED
      BY <3>1, <3>2, <3>3
  <2>2. ReadyAt(j)' = ReadyAt(j) \ {p}
    BY <1>4, SwapSets DEF FrameIs
  <2> QED
    BY <1>8, <2>1, <2>2
<1>11. FrameInv'
  <2>1. ASSUME NEW x \in Pos' PROVE FrameOK(Fr(x), x[2])'
    <3>1. CASE x = p
      <4>1. g = Fr(x)'
        BY <1>5, <3>1, <1>4 DEF Swapped
      <4>2. g.job = Top(c).job /\ g.pc = "process" /\ g.todo = {}
        BY <1>2, <1>4 DEF FrameIs
      <4>3. FrameOK(g, x[2])
        BY <1>2, <1>6, <3>1, <4>2 DEF FrameOK
      <4> QED
        BY <1>2, <4>1, <4>3, FrameSame
    <3>2. CASE x # p
      <4>1. Fr(x)' = Fr(x) /\ FrameOK(Fr(x), x[2])
        BY <1>1, <1>4, <1>5, <3>2 DEF Swapped, FrameInv
      <4> QED
        BY <1>2, <4>1, FrameSame
    <3> QED
      BY <3>1, <3>2
  <2> QED
    BY <2>1 DEF FrameInv
<1>12. ASSUME NEW i \in Jobs PROVE Once(i)' /\ Held(i)'
  <2>1. CASE i = j
    <3>1. Held(j)'
      BY <1>2, <1>8, <1>9, <1>10 DEF Held, Unique, Apart
    <3>2. Once(j)'
      BY <1>2, <1>7, <1>10 DEF Once, Unique
    <3> QED
      BY <2>1, <3>1, <3>2
  <2>2. CASE i # j
    BY <1>1, <1>2, <1>9, <1>10, <2>2, JobKept DEF OnceInv, HolderInv
  <2> QED
    BY <2>1, <2>2
<1>13. OnceInv' /\ HolderInv'
  BY <1>12 DEF OnceInv, HolderInv
<1>14. DepsInv'
  BY <1>1, <1>2, <1>10, DepsKept
<1>15. ClassInv'
  <2>1. \A x \in Pos' : Fr(x)'.pc = "execute" => x \in Pos /\ Fr(x).pc = "execute" /\ Fr(x)'.job = Fr(x).job
    BY <1>4, <1>5 DEF Swapped, FrameIs
  <2> QED
    BY <1>1, <1>2, <1>9, <2>1, ClassParts
<1> QED
  BY <1>9, <1>11, <1>13, <1>14, <1>15 DEF WorkInv

(* A job that a context takes from a queue.                                *)
Taken(c, j) ==
  /\ QueueInv' /\ QueueClasses' /\ Fits(c, j)
  /\ \A i : i # j => GlobalAt(i)' = GlobalAt(i) /\ LocalAt(i)' = LocalAt(i)
  /\ GlobalAt(j)' = {} /\ LocalAt(j)' = {}
  /\ GlobalAt(j) # {} \/ LocalAt(j) # {}

(* From a global queue.                                                    *)
LEMMA GlobalTaken ==
  ASSUME Typed, WorkInv, NEW c, NEW k \in Classes, c \in Workers => k = ClassOf(c),
         NEW j, NEW t, j \in Rng(global[k]), Rng(t) = Rng(global[k]) \ {j}, Distinct(t),
         global' = [global EXCEPT ![k] = t], local' = local, prog' = prog
  PROVE  j \in Jobs /\ Taken(c, j)
<1>1. QueueInv /\ QueueClasses /\ HolderInv /\ \A i : JobClass(i)' = JobClass(i)
  BY ProgKept DEF WorkInv, ClassInv, QueueClasses
<1>2. j \in Jobs
  <2>1. global[k] \in Seq(Jobs)
    BY DEF Typed
  <2>2. \A n \in 1..Len(global[k]) : global[k][n] \in Jobs
    BY <2>1, ElementOfSeq
  <2> QED
    BY <2>2 DEF Rng
<1>3. global'[k] = t /\ \A h \in Classes \ {k} : global'[h] = global[h]
  BY DEF Typed
<1>4. QueueInv'
  <2>1. \A h \in Classes : Distinct(global'[h])
    BY <1>1, <1>3 DEF QueueInv
  <2>2. \A w \in Workers : Distinct(local'[w])
    BY <1>1 DEF QueueInv
  <2> QED
    BY <2>1, <2>2 DEF QueueInv, Distinct
<1>5. \A h \in Classes : Rng(global[h])' = IF h = k THEN Rng(global[h]) \ {j} ELSE Rng(global[h])
  <2>1. Rng(global[k])' = Rng(t)
    BY <1>3 DEF Rng
  <2>2. \A h \in Classes \ {k} : Rng(global[h])' = Rng(global[h])
    BY <1>3 DEF Rng
  <2> QED
    BY <2>1, <2>2
<1>6. \A w \in Workers : Rng(local[w])' = Rng(local[w])
  BY DEF Rng
<1>7. QueueClasses'
  BY <1>1, <1>5, <1>6 DEF QueueClasses, ClassOf
<1>8. \A i : LocalAt(i)' = LocalAt(i) /\ (i # j => GlobalAt(i)' = GlobalAt(i)) /\ GlobalAt(j)' = GlobalAt(j) \ {k}
  BY <1>5, <1>6 DEF GlobalAt, LocalAt
<1>9. k \in GlobalAt(j)
  BY DEF GlobalAt
<1>10. GlobalAt(j) = {k} /\ LocalAt(j) = {}
  BY <1>1, <1>2, <1>9 DEF HolderInv, Held, Unique, Apart
<1>11. JobClass(j) = k
  BY <1>1 DEF QueueClasses
<1> QED
  BY <1>2, <1>4, <1>7, <1>8, <1>10, <1>11 DEF Taken, Fits

(* From the queue of a worker.                                             *)
LEMMA LocalTaken ==
  ASSUME Typed, WorkInv, NEW c, NEW v \in Workers, c \in Workers => ClassOf(v) = ClassOf(c),
         NEW j, NEW t, j \in Rng(local[v]), Rng(t) = Rng(local[v]) \ {j}, Distinct(t),
         local' = [local EXCEPT ![v] = t], global' = global, prog' = prog
  PROVE  j \in Jobs /\ Taken(c, j)
<1>1. QueueInv /\ QueueClasses /\ HolderInv /\ \A i : JobClass(i)' = JobClass(i)
  BY ProgKept DEF WorkInv, ClassInv, QueueClasses
<1>2. j \in Jobs
  <2>1. local[v] \in Seq(Jobs)
    BY DEF Typed
  <2>2. \A n \in 1..Len(local[v]) : local[v][n] \in Jobs
    BY <2>1, ElementOfSeq
  <2> QED
    BY <2>2 DEF Rng
<1>3. local'[v] = t /\ \A w \in Workers \ {v} : local'[w] = local[w]
  BY DEF Typed
<1>4. QueueInv'
  <2>1. \A w \in Workers : Distinct(local'[w])
    BY <1>1, <1>3 DEF QueueInv
  <2>2. \A h \in Classes : Distinct(global'[h])
    BY <1>1 DEF QueueInv
  <2> QED
    BY <2>1, <2>2 DEF QueueInv, Distinct
<1>5. \A w \in Workers : Rng(local[w])' = IF w = v THEN Rng(local[w]) \ {j} ELSE Rng(local[w])
  <2>1. Rng(local[v])' = Rng(t)
    BY <1>3 DEF Rng
  <2>2. \A w \in Workers \ {v} : Rng(local[w])' = Rng(local[w])
    BY <1>3 DEF Rng
  <2> QED
    BY <2>1, <2>2
<1>6. \A k \in Classes : Rng(global[k])' = Rng(global[k])
  BY DEF Rng
<1>7. QueueClasses'
  BY <1>1, <1>5, <1>6 DEF QueueClasses, ClassOf
<1>8. \A i : GlobalAt(i)' = GlobalAt(i) /\ (i # j => LocalAt(i)' = LocalAt(i)) /\ LocalAt(j)' = LocalAt(j) \ {v}
  BY <1>5, <1>6 DEF GlobalAt, LocalAt
<1>9. v \in LocalAt(j)
  BY DEF LocalAt
<1>10. LocalAt(j) = {v} /\ GlobalAt(j) = {}
  BY <1>1, <1>2, <1>9 DEF HolderInv, Held, Unique, Apart
<1>11. JobClass(j) = ClassOf(v)
  BY <1>1 DEF QueueClasses
<1> QED
  BY <1>2, <1>4, <1>7, <1>8, <1>10, <1>11 DEF Taken, Fits

(* The calls after a context without a call has made a call.               *)
LEMMA CalledSets ==
  ASSUME NEW c, NEW q, NEW f, Called(q, c, f)
  PROVE  /\ \A i : /\ JobAt(i)' = IF f.job = i THEN JobAt(i) \cup {q} ELSE JobAt(i)
                   /\ RunAt(i)' = IF f.job = i /\ f.pc = "execute" THEN RunAt(i) \cup {q} ELSE RunAt(i)
                   /\ SignalAt(i)' = IF f.job = i /\ f.pc = "signal" THEN SignalAt(i) \cup {q} ELSE SignalAt(i)
                   /\ ReadyAt(i)' = IF i \in f.ready THEN ReadyAt(i) \cup {q} ELSE ReadyAt(i)
                   /\ TodoAt(i)' = IF i \in f.todo THEN TodoAt(i) \cup {q} ELSE TodoAt(i)
         /\ \A x \in Pos' : Fr(x)'.pc = "execute" =>
              \/ x \in Pos /\ Fr(x).pc = "execute" /\ Fr(x)'.job = Fr(x).job
              \/ x[1] = c /\ Fr(x)' = f
<1>1. /\ q \notin Pos /\ Pos' = Pos \cup {q} /\ q[1] = c
      /\ \A x \in Pos' : Fr(x)' = IF x = q THEN f ELSE Fr(x)
  BY DEF Called
<1>2. ASSUME NEW i
      PROVE  /\ JobAt(i)' = IF f.job = i THEN JobAt(i) \cup {q} ELSE JobAt(i)
             /\ RunAt(i)' = IF f.job = i /\ f.pc = "execute" THEN RunAt(i) \cup {q} ELSE RunAt(i)
             /\ SignalAt(i)' = IF f.job = i /\ f.pc = "signal" THEN SignalAt(i) \cup {q} ELSE SignalAt(i)
             /\ ReadyAt(i)' = IF i \in f.ready THEN ReadyAt(i) \cup {q} ELSE ReadyAt(i)
             /\ TodoAt(i)' = IF i \in f.todo THEN TodoAt(i) \cup {q} ELSE TodoAt(i)
  <2>1. JobAt(i)' = IF f.job = i THEN JobAt(i) \cup {q} ELSE JobAt(i)
    BY <1>1 DEF JobAt
  <2>2. RunAt(i)' = IF f.job = i /\ f.pc = "execute" THEN RunAt(i) \cup {q} ELSE RunAt(i)
    BY <1>1 DEF RunAt
  <2>3. SignalAt(i)' = IF f.job = i /\ f.pc = "signal" THEN SignalAt(i) \cup {q} ELSE SignalAt(i)
    BY <1>1 DEF SignalAt
  <2>4. ReadyAt(i)' = IF i \in f.ready THEN ReadyAt(i) \cup {q} ELSE ReadyAt(i)
    BY <1>1 DEF ReadyAt
  <2>5. TodoAt(i)' = IF i \in f.todo THEN TodoAt(i) \cup {q} ELSE TodoAt(i)
    BY <1>1 DEF TodoAt
  <2> QED
    BY <2>1, <2>2, <2>3, <2>4, <2>5
<1>3. \A x \in Pos' : Fr(x)'.pc = "execute" =>
        \/ x \in Pos /\ Fr(x).pc = "execute" /\ Fr(x)'.job = Fr(x).job
        \/ x[1] = c /\ Fr(x)' = f
  BY <1>1
<1> QED
  BY <1>2, <1>3

(* It is run by a context without a call, or in the call that looked for   *)
(* it.                                                                     *)
Starts(c, j) ==
  \/ stack[c] = <<>> /\ \E q : Called(q, c, RunFrame(j))
  \/ /\ stack[c] # <<>>
     /\ \E p, q, g :
          /\ SwappedAndCalled(p, q, c, g, RunFrame(j))
          /\ FrameIs(g, Top(c).job, "process", Top(c).todo, Top(c).ready, None, Top(c).freed)

(* Then everything is again in one place.                                  *)
LEMMA WorkFound ==
  ASSUME Typed, WorkInv, NEW c \in Contexts, NEW j \in Jobs, Taken(c, j), Starts(c, j),
         UNCHANGED <<state, deps, runner, prog>>,
         stack[c] # <<>> => Top(c).pc \in {"global", "steal"}
  PROVE  WorkInv'
<1>1. FrameInv /\ OnceInv /\ HolderInv /\ QueueInv /\ DepsInv /\ ClassInv
  BY DEF WorkInv
<1>2. UNCHANGED <<state, deps, runner, prog>>
  OBVIOUS
<1>3. Once(j) /\ Held(j)
  BY <1>1 DEF OnceInv, HolderInv
<1>4. ReadyAt(j) = {} /\ RunAt(j) = {} /\ state[j] = "processing"
  BY <1>3 DEF Taken, Held, Apart
<1>5. JobAt(j) = {}
  BY <1>1, <1>3, <1>4, NotRunning
<1>6. \A i \in Jobs : state'[i] = state[i]
  BY <1>2
<1>7. \E q : /\ \A i : /\ JobAt(i)' = IF i = j THEN JobAt(i) \cup {q} ELSE JobAt(i)
                       /\ RunAt(i)' = IF i = j THEN RunAt(i) \cup {q} ELSE RunAt(i)
                       /\ SignalAt(i)' = SignalAt(i) /\ ReadyAt(i)' = ReadyAt(i) /\ TodoAt(i)' = TodoAt(i)
             /\ \A x \in Pos' : Fr(x)'.pc = "execute" =>
                  \/ x \in Pos /\ Fr(x).pc = "execute" /\ Fr(x)'.job = Fr(x).job
                  \/ x[1] = c /\ Fr(x)'.job = j
             /\ FrameInv'
  <2>1. CASE stack[c] = <<>>
    <3>1. PICK q : Called(q, c, RunFrame(j))
      BY <2>1 DEF Starts
    <3>2. PICK f : f = RunFrame(j)
      OBVIOUS
    <3>3. f.job = j /\ f.pc = "execute" /\ f.todo = {} /\ f.ready = {}
      BY <3>2 DEF RunFrame, Frame
    <3>4. Called(q, c, f)
      BY <3>1, <3>2
    <3>5. /\ \A i : /\ JobAt(i)' = IF i = j THEN JobAt(i) \cup {q} ELSE JobAt(i)
                    /\ RunAt(i)' = IF i = j THEN RunAt(i) \cup {q} ELSE RunAt(i)
                    /\ SignalAt(i)' = SignalAt(i) /\ ReadyAt(i)' = ReadyAt(i) /\ TodoAt(i)' = TodoAt(i)
          /\ \A x \in Pos' : Fr(x)'.pc = "execute" =>
               \/ x \in Pos /\ Fr(x).pc = "execute" /\ Fr(x)'.job = Fr(x).job
               \/ x[1] = c /\ Fr(x)'.job = j
      <4>1. /\ \A i : /\ JobAt(i)' = IF f.job = i THEN JobAt(i) \cup {q} ELSE JobAt(i)
                      /\ RunAt(i)' = IF f.job = i /\ f.pc = "execute" THEN RunAt(i) \cup {q} ELSE RunAt(i)
                      /\ SignalAt(i)' = IF f.job = i /\ f.pc = "signal" THEN SignalAt(i) \cup {q} ELSE SignalAt(i)
                      /\ ReadyAt(i)' = IF i \in f.ready THEN ReadyAt(i) \cup {q} ELSE ReadyAt(i)
                      /\ TodoAt(i)' = IF i \in f.todo THEN TodoAt(i) \cup {q} ELSE TodoAt(i)
            /\ \A x \in Pos' : Fr(x)'.pc = "execute" =>
                 \/ x \in Pos /\ Fr(x).pc = "execute" /\ Fr(x)'.job = Fr(x).job
                 \/ x[1] = c /\ Fr(x)' = f
        BY <3>4, CalledSets
      <4> QED
        BY <3>3, <4>1
    <3>6. FrameInv'
      <4>1. ASSUME NEW x \in Pos' PROVE FrameOK(Fr(x), x[2])'
        <5>1. CASE x = q
          <6>1. Fr(x)' = f
            BY <3>4, <5>1 DEF Called
          <6>2. FrameOK(f, x[2])
            BY <1>4, <3>3, PoolAssumption DEF FrameOK
          <6> QED
            BY <1>2, <6>1, <6>2, FrameSame
        <5>2. CASE x # q
          <6>1. Fr(x)' = Fr(x) /\ FrameOK(Fr(x), x[2])
            BY <1>1, <3>4, <5>2 DEF Called, FrameInv
          <6> QED
            BY <1>2, <6>1, FrameSame
        <5> QED
          BY <5>1, <5>2
      <4> QED
        BY <4>1 DEF FrameInv
    <3> QED
      BY <3>5, <3>6
  <2>2. CASE stack[c] # <<>>
    <3>1. PICK p, q, g :
             /\ SwappedAndCalled(p, q, c, g, RunFrame(j))
             /\ FrameIs(g, Top(c).job, "process", Top(c).todo, Top(c).ready, None, Top(c).freed)
      BY <2>2 DEF Starts
    <3>2. /\ p \in Pos /\ Fr(p) = Top(c) /\ g.job = Top(c).job /\ g.pc = "process"
          /\ g.todo = Top(c).todo /\ g.ready = Top(c).ready
      BY <3>1 DEF SwappedAndCalled, FrameIs
    <3>3. Top(c).todo = {}
      BY <1>1, <2>2, <3>2, TopOK DEF FrameOK
    <3>4. /\ \A i : /\ JobAt(i)' = IF i = j THEN JobAt(i) \cup {q} ELSE JobAt(i)
                    /\ RunAt(i)' = IF i = j THEN RunAt(i) \cup {q} ELSE RunAt(i)
                    /\ SignalAt(i)' = SignalAt(i)
                    /\ ReadyAt(i)' = IF i \in g.ready THEN ReadyAt(i) \cup {p} ELSE ReadyAt(i) \ {p}
                    /\ TodoAt(i)' = IF i \in g.todo THEN TodoAt(i) \cup {p} ELSE TodoAt(i) \ {p}
          /\ \A x \in Pos' : Fr(x)'.pc = "execute" =>
               \/ x \in Pos /\ Fr(x).pc = "execute" /\ Fr(x)'.job = Fr(x).job
               \/ x[1] = c /\ Fr(x)'.job = j
      <4>1. Top(c).pc \notin {"execute", "signal"}
        BY <2>2
      <4> QED
        BY <1>1, <3>1, <3>2, <4>1, RunCallSets
    <3>5. \A i : ReadyAt(i)' = ReadyAt(i) /\ TodoAt(i)' = TodoAt(i)
      <4>1. \A i : (i \in g.ready <=> p \in ReadyAt(i)) /\ (i \in g.todo <=> p \in TodoAt(i))
        BY <1>1, <3>2, TopOK
      <4> QED
        BY <3>4, <4>1
    <3>6. FrameInv'
      <4>1. Top(c).pc \in {"process", "release", "global", "steal"} /\ g.todo \subseteq SyncJobs
        BY <2>2, <3>2, <3>3
      <4>2. state'[j] = "processing" /\ \A i \in Jobs : i # j => state'[i] = state[i]
        BY <1>4, <1>6
      <4> QED
        BY <1>1, <1>2, <1>5, <3>1, <3>2, <4>1, <4>2, RunCallFrames
    <3> QED
      BY <3>4, <3>5, <3>6
  <2> QED
    BY <2>1, <2>2
<1>8. PICK q : /\ \A i : /\ JobAt(i)' = IF i = j THEN JobAt(i) \cup {q} ELSE JobAt(i)
                         /\ RunAt(i)' = IF i = j THEN RunAt(i) \cup {q} ELSE RunAt(i)
                         /\ SignalAt(i)' = SignalAt(i) /\ ReadyAt(i)' = ReadyAt(i) /\ TodoAt(i)' = TodoAt(i)
               /\ \A x \in Pos' : Fr(x)'.pc = "execute" =>
                    \/ x \in Pos /\ Fr(x).pc = "execute" /\ Fr(x)'.job = Fr(x).job
                    \/ x[1] = c /\ Fr(x)'.job = j
               /\ FrameInv'
  BY <1>7
<1>9. ASSUME NEW i \in Jobs PROVE Once(i)' /\ Held(i)'
  <2>1. CASE i = j
    <3>1. /\ state'[j] = "processing" /\ TodoAt(j)' = TodoAt(j) /\ ReadyAt(j)' = {} /\ JobAt(j)' = {q}
          /\ RunAt(j)' = {q} /\ GlobalAt(j)' = {} /\ LocalAt(j)' = {} /\ deps'[j] = deps[j]
      BY <1>2, <1>4, <1>5, <1>8 DEF Taken
    <3>2. Held(j)'
      BY <3>1 DEF Held, Unique, Apart
    <3>3. Once(j)'
      BY <1>3, <1>4, <3>1 DEF Once, Unique
    <3> QED
      BY <2>1, <3>2, <3>3
  <2>2. CASE i # j
    <3>1. /\ JobAt(i)' = JobAt(i) /\ RunAt(i)' = RunAt(i) /\ ReadyAt(i)' = ReadyAt(i) /\ TodoAt(i)' = TodoAt(i)
          /\ GlobalAt(i)' = GlobalAt(i) /\ LocalAt(i)' = LocalAt(i)
      BY <1>8, <2>2 DEF Taken
    <3> QED
      BY <1>1, <1>2, <3>1, JobKept DEF OnceInv, HolderInv
  <2> QED
    BY <2>1, <2>2
<1>10. OnceInv' /\ HolderInv'
  BY <1>9 DEF OnceInv, HolderInv
<1>11. DepsInv'
  BY <1>1, <1>2, <1>8, DepsKept
<1>12. ClassInv'
  <2>1. QueueClasses' /\ Fits(c, j)
    BY DEF Taken
  <2> QED
    BY <1>1, <1>2, <1>8, <2>1, ClassParts
<1>13. QueueInv'
  BY DEF Taken
<1> QED
  BY <1>8, <1>10, <1>11, <1>12, <1>13 DEF WorkInv

(* A context found a job in a global queue, in the queue of a peer, or a   *)
(* worker did in its own.                                                  *)
LEMMA WorkFetch ==
  ASSUME Typed, WorkerInv, WorkInv, NEW c \in Contexts
  PROVE  /\ \A j \in Jobs : /\ Searching(c, "global") /\ TakeGlobal(looking[c], j) /\ Found(c, j) => WorkInv'
                            /\ Searching(c, "steal") /\ TakePeer(c, looking[c], j) /\ Found(c, j) => WorkInv'
         /\ c \in Workers /\ FetchLocal(c) => WorkInv'
<1>1. PICK k \in Classes : k = looking[c] /\ (c \in Workers => k = ClassOf(c))
  BY DEF Typed, WorkerInv
<1>2. QueueInv
  BY DEF WorkInv
<1>3. ASSUME NEW j \in Jobs, Searching(c, "global"), TakeGlobal(looking[c], j), Found(c, j)
      PROVE  WorkInv'
  <2>1. /\ global[k] # <<>> /\ j = Head(global[k]) /\ global' = [global EXCEPT ![k] = Tail(global[k])]
        /\ local' = local /\ prog' = prog
    BY <1>1, <1>3 DEF TakeGlobal, Found, waiting
  <2>2. Taken(c, j)
    <3>1. PICK s \in Seq(Jobs) : s = global[k]
      BY DEF Typed
    <3>2. PICK t : t = Tail(s)
      OBVIOUS
    <3>3. Distinct(s) /\ s # <<>> /\ j = Head(s)
      BY <1>2, <2>1, <3>1 DEF QueueInv
    <3>4. j \in Rng(s) /\ Rng(t) = Rng(s) \ {j} /\ Distinct(t)
      BY <3>2, <3>3, RngTail
    <3>5. j \in Rng(global[k]) /\ Rng(t) = Rng(global[k]) \ {j} /\ global' = [global EXCEPT ![k] = t]
      BY <2>1, <3>1, <3>2, <3>4
    <3> QED
      BY <1>1, <2>1, <3>4, <3>5, GlobalTaken
  <2>3. stack[c] # <<>> => Top(c).pc \in {"global", "steal"}
    BY <1>3 DEF Searching, Idle, In
  <2>4. Starts(c, j) /\ UNCHANGED <<state, deps, runner, prog>>
    BY <1>3, FoundFrames DEF Starts, Found, jobs, waiting
  <2> QED
    BY <2>2, <2>3, <2>4, WorkFound
<1>4. ASSUME NEW j \in Jobs, Searching(c, "steal"), TakePeer(c, looking[c], j), Found(c, j)
      PROVE  WorkInv'
  <2>1. PICK v \in WorkersOf(k) : /\ local[v] # <<>> /\ j = Head(local[v])
                                  /\ local' = [local EXCEPT ![v] = Tail(local[v])] /\ global' = global
    BY <1>1, <1>4 DEF TakePeer
  <2>2. v \in Workers /\ ClassOf(v) = k
    BY <2>1, ClassFacts
  <2>3. PICK s \in Seq(Jobs) : s = local[v]
    BY <2>2 DEF Typed
  <2>4. PICK t : t = Tail(s)
    OBVIOUS
  <2>5. Distinct(s) /\ s # <<>> /\ j = Head(s)
    BY <1>2, <2>1, <2>2, <2>3 DEF QueueInv
  <2>6. j \in Rng(s) /\ Rng(t) = Rng(s) \ {j} /\ Distinct(t)
    BY <2>4, <2>5, RngTail
  <2>7. j \in Rng(local[v]) /\ Rng(t) = Rng(local[v]) \ {j} /\ local' = [local EXCEPT ![v] = t]
    BY <2>1, <2>3, <2>4, <2>6
  <2>8. prog' = prog /\ (c \in Workers => ClassOf(v) = ClassOf(c))
    BY <1>1, <1>4, <2>2 DEF Found, waiting
  <2>9. Taken(c, j)
    BY <2>1, <2>2, <2>6, <2>7, <2>8, LocalTaken
  <2>10. stack[c] # <<>> => Top(c).pc \in {"global", "steal"}
    BY <1>4 DEF Searching, Idle, In
  <2>11. Starts(c, j) /\ UNCHANGED <<state, deps, runner, prog>>
    BY <1>4, FoundFrames DEF Starts, Found, jobs, waiting
  <2> QED
    BY <2>9, <2>10, <2>11, WorkFound
<1>5. ASSUME c \in Workers, FetchLocal(c) PROVE WorkInv'
  <2>1. /\ stack[c] = <<>> /\ at[c] = "local"
        /\ UNCHANGED <<state, deps, runner, global, prog>>
    BY <1>5 DEF FetchLocal, Idle, jobs, waiting
  <2>2. CASE local[c] = <<>>
    BY <1>5, <2>1, <2>2, WorkKept DEF FetchLocal
  <2>3. CASE local[c] # <<>>
    <3>1. PICK s \in Seq(Jobs) : s = local[c]
      BY <1>5 DEF Typed
    <3>2. PICK j, t : j = s[Len(s)] /\ t = SubSeq(s, 1, Len(s) - 1)
      OBVIOUS
    <3>3. Distinct(s)
      BY <1>2, <1>5, <3>1 DEF QueueInv
    <3>4. j \in Rng(s) /\ Rng(t) = Rng(s) \ {j} /\ Distinct(t)
      BY <2>3, <3>1, <3>2, <3>3, RngFront
    <3>5. local' = [local EXCEPT ![c] = t]
      BY <1>5, <2>3, <3>1, <3>2 DEF FetchLocal
    <3>6. j \in Jobs /\ Taken(c, j)
      BY <1>5, <2>1, <3>1, <3>4, <3>5, LocalTaken
    <3>7. Starts(c, j)
      BY <1>5, <2>1, <2>3, <3>1, <3>2, LocalFrames DEF Starts
    <3> QED
      BY <2>1, <3>6, <3>7, WorkFound
  <2> QED
    BY <2>2, <2>3
<1> QED
  BY <1>3, <1>4, <1>5

(* submit().                                                               *)
LEMMA WorkSubmit ==
  ASSUME Typed, WorkInv, NEW S \in SUBSET Jobs, Submit(S)
  PROVE  WorkInv'
<1>1. FrameInv /\ OnceInv /\ HolderInv /\ QueueInv /\ DepsInv /\ ClassInv
  BY DEF WorkInv
<1>2. PICK T : T = {j \in S : deps[j] = 0}
  OBVIOUS
<1>3. PICK q, f : Called(q, Main, f) /\ FrameIs(f, None, "process", T, {}, None, [k \in Classes |-> 0])
  BY <1>2, SubmitFrames
<1>4. stack[Main] = <<>> /\ q[2] = 1
  BY <1>3, SubmitFrames DEF Called
<1>5. f.job = None /\ f.pc = "process" /\ f.todo = T /\ f.ready = {} /\ None \notin Jobs
  BY <1>3, PoolAssumption DEF FrameIs
<1>6. /\ UNCHANGED <<deps, runner, global, local, prog>>
      /\ \A j \in S : state[j] = "clear"
      /\ state' = [j \in Jobs |-> IF j \in S THEN "submitted" ELSE state[j]]
  BY DEF Submit, queues, waiting
<1>7. /\ \A i : /\ JobAt(i)' = IF f.job = i THEN JobAt(i) \cup {q} ELSE JobAt(i)
                /\ RunAt(i)' = IF f.job = i /\ f.pc = "execute" THEN RunAt(i) \cup {q} ELSE RunAt(i)
                /\ SignalAt(i)' = IF f.job = i /\ f.pc = "signal" THEN SignalAt(i) \cup {q} ELSE SignalAt(i)
                /\ ReadyAt(i)' = IF i \in f.ready THEN ReadyAt(i) \cup {q} ELSE ReadyAt(i)
                /\ TodoAt(i)' = IF i \in f.todo THEN TodoAt(i) \cup {q} ELSE TodoAt(i)
      /\ \A x \in Pos' : Fr(x)'.pc = "execute" =>
           \/ x \in Pos /\ Fr(x).pc = "execute" /\ Fr(x)'.job = Fr(x).job
           \/ x[1] = Main /\ Fr(x)' = f
  BY <1>3, CalledSets
<1>8. \A i \in Jobs : /\ JobAt(i)' = JobAt(i) /\ RunAt(i)' = RunAt(i) /\ SignalAt(i)' = SignalAt(i)
                      /\ ReadyAt(i)' = ReadyAt(i)
                      /\ TodoAt(i)' = IF i \in T THEN TodoAt(i) \cup {q} ELSE TodoAt(i)
  BY <1>5, <1>7
<1>9. \A i \in S : i \in Jobs /\ JobAt(i) = {} /\ TodoAt(i) = {}
  <2>1. ASSUME NEW i \in S PROVE JobAt(i) = {} /\ TodoAt(i) = {}
    <3>1. Once(i) /\ Held(i) /\ state[i] = "clear"
      BY <1>1, <1>6 DEF OnceInv, HolderInv
    <3> QED
      BY <1>1, <3>1, NotRunning DEF Once
  <2> QED
    BY <2>1
<1>10. FrameInv'
  <2>1. ASSUME NEW x \in Pos' PROVE FrameOK(Fr(x), x[2])'
    <3>1. CASE x = q
      <4>1. Fr(x)' = f
        BY <1>3, <3>1 DEF Called
      <4>2. FrameOK(f, x[2])
        BY <1>4, <1>5, <3>1 DEF FrameOK
      <4> QED
        BY <1>5, <1>6, <4>1, <4>2, FrameSame
    <3>2. CASE x # q
      <4>1. Fr(x)' = Fr(x) /\ FrameOK(Fr(x), x[2]) /\ x \in Pos
        BY <1>1, <1>3, <3>2 DEF Called, FrameInv
      <4>2. Fr(x).job = None \/ (Fr(x).job \in Jobs /\ Fr(x).job \notin S)
        BY <1>9, <4>1, AllFrames DEF FrameSet, JobAt
      <4>3. Fr(x).job = None \/ state'[Fr(x).job] = state[Fr(x).job]
        BY <1>6, <4>2
      <4> QED
        BY <1>6, <4>1, <4>3, FrameSame
    <3> QED
      BY <3>1, <3>2
  <2> QED
    BY <2>1 DEF FrameInv
<1>11. \A i : GlobalAt(i)' = GlobalAt(i) /\ LocalAt(i)' = LocalAt(i)
  BY <1>6, QueuesKept
<1>12. ASSUME NEW i \in Jobs PROVE Once(i)' /\ Held(i)'
  <2>1. Once(i) /\ Held(i)
    BY <1>1 DEF OnceInv, HolderInv
  <2>2. CASE i \in S
    <3>1. state'[i] = "submitted" /\ state[i] = "clear" /\ deps'[i] = deps[i]
      BY <1>6, <2>2
    <3>2. Held(i)'
      BY <1>8, <1>11, <2>1, <3>1 DEF Held, Unique, Apart
    <3>3. Unique(TodoAt(i)') /\ (TodoAt(i)' # {} => deps[i] = 0)
      BY <1>2, <1>8, <1>9, <2>2 DEF Unique
    <3>4. Once(i)'
      BY <1>8, <2>1, <3>1, <3>3 DEF Once, Unique
    <3> QED
      BY <3>2, <3>4
  <2>3. CASE i \notin S
    <3>1. state'[i] = state[i] /\ deps'[i] = deps[i] /\ i \notin T
      BY <1>2, <1>6, <2>3
    <3> QED
      BY <1>8, <1>11, <2>1, <3>1, JobKept
  <2> QED
    BY <2>2, <2>3
<1>13. OnceInv' /\ HolderInv'
  BY <1>12 DEF OnceInv, HolderInv
<1>14. DepsInv'
  <2>1. \A i \in Jobs : (state'[i] = "done" <=> state[i] = "done")
                        /\ (state'[i] = state[i] \/ state'[i] \in {"clear", "submitted"})
    BY <1>6
  <2> QED
    BY <1>1, <1>6, <1>8, <2>1, DepsKept
<1>15. ClassInv'
  <2>1. QueueClasses'
    BY <1>1, <1>6, QueueClassesKept
  <2>2. \A x \in Pos' : Fr(x)'.pc = "execute" => x \in Pos /\ Fr(x).pc = "execute" /\ Fr(x)'.job = Fr(x).job
    BY <1>5, <1>7
  <2>3. \A i \in Jobs : state'[i] = "executing" => state[i] = "executing" /\ runner'[i] = runner[i]
    BY <1>6
  <2> QED
    BY <1>1, <1>6, <2>1, <2>2, <2>3, ClassParts
<1> QED
  BY <1>1, <1>6, <1>10, <1>13, <1>14, <1>15, QueuesKept DEF WorkInv

(* A step within a call that handles no job: the calls of run() and        *)
(* process() that take one.                                                *)
LEMMA WorkGoto ==
  ASSUME Typed, WorkInv, UNCHANGED <<state, deps, runner, global, local, prog>>,
         NEW c \in Contexts, stack[c] # <<>>, NEW w, Goto(c, w),
         \/ Top(c).pc \in {"wake", "futex"} /\ w \in {"futex", "body"}
         \/ Top(c).pc = "help" /\ w = "global"
         \/ Top(c).pc = "global" /\ w = "steal"
  PROVE  WorkInv'
<1>1. PICK p, g : /\ Swapped(p, c, g)
                  /\ FrameIs(g, Top(c).job, w, Top(c).todo, Top(c).ready, Top(c).full, Top(c).freed)
  BY GotoFrames DEF Steps
<1>2. FrameOK(Top(c), p[2])
  BY <1>1, TopOK DEF Swapped, WorkInv
<1>3. /\ g.job = Top(c).job /\ g.pc = w /\ g.todo = Top(c).todo /\ g.ready = Top(c).ready
      /\ g.full = Top(c).full
  BY <1>1 DEF FrameIs
<1>4. FrameOK(g, p[2])
  BY <1>2, <1>3 DEF FrameOK
<1>5. Tracks(g, Top(c))
  BY <1>3 DEF Tracks
<1> QED
  BY <1>1, <1>4, <1>5, QuietSwap

(* The end of process(), or of the attempt.                                *)
LEMMA WorkStop ==
  ASSUME Typed, WorkInv, NEW c \in Contexts, StopPushing(c)
  PROVE  WorkInv'
<1>1. /\ UNCHANGED <<state, deps, runner, global, local, prog>> /\ stack[c] # <<>>
      /\ Top(c).pc = "process" /\ Top(c).todo = {}
  BY DEF StopPushing, In, jobs, queues, waiting
<1>2. PICK j \in Top(c).ready \cup {None} : \E p, g :
           /\ j = None => Top(c).ready = {}
           /\ Swapped(p, c, g)
           /\ FrameIs(g, Top(c).job, "release", Top(c).todo, Top(c).ready, j, Top(c).freed)
  BY StopFrames
<1>3. PICK p, g :
           /\ j = None => Top(c).ready = {}
           /\ Swapped(p, c, g)
           /\ FrameIs(g, Top(c).job, "release", Top(c).todo, Top(c).ready, j, Top(c).freed)
  BY <1>2
<1>4. FrameOK(Top(c), p[2])
  BY <1>3, TopOK DEF Swapped, WorkInv
<1>5. /\ g.job = Top(c).job /\ g.pc = "release" /\ g.todo = Top(c).todo /\ g.ready = Top(c).ready
      /\ g.full = j
  BY <1>3 DEF FrameIs
<1>6. FrameOK(g, p[2])
  BY <1>1, <1>3, <1>4, <1>5 DEF FrameOK
<1>7. Tracks(g, Top(c))
  BY <1>1, <1>5 DEF Tracks
<1> QED
  BY <1>1, <1>3, <1>6, <1>7, QuietSwap

(* process() releases permits, and then ends, runs the job that did not    *)
(* fit, or goes to help.                                                   *)
LEMMA WorkRelease ==
  ASSUME Typed, WorkInv, NEW c \in Contexts, Release(c)
  PROVE  WorkInv'
<1>1. /\ UNCHANGED <<state, deps, runner, global, local, prog>> /\ stack[c] # <<>>
      /\ Top(c).pc = "release"
  BY DEF Release, In, jobs, queues, waiting
<1>2. ASSUME NEW p \in Pos, Fr(p) = Top(c)
      PROVE  /\ Top(c).todo = {} /\ FrameOK(Top(c), p[2]) /\ Top(c) \in FrameSet
             /\ Top(c).full = None => Top(c).ready = {}
             /\ Top(c).job # None => Top(c).job \in Jobs /\ state[Top(c).job] = "done"
  <2>1. FrameOK(Top(c), p[2]) /\ Top(c) \in FrameSet
    BY <1>2, TopOK DEF WorkInv
  <2> QED
    BY <1>1, <2>1 DEF FrameOK, FrameSet
<1>3. CASE Top(c).full = None /\ Top(c).job = None /\ \E p : Returned(p, c)
  <2>1. PICK p : Returned(p, c)
    BY <1>3
  <2>2. Top(c).todo = {} /\ Top(c).ready = {}
    BY <1>2, <1>3, <2>1 DEF Returned
  <2> QED
    BY <1>1, <2>1, <2>2, WorkReturn
<1>4. CASE /\ Top(c).full = None /\ Top(c).job # None
           /\ \E p, g : /\ Swapped(p, c, g)
                        /\ FrameIs(g, Top(c).job, "event", Top(c).todo, Top(c).ready, None,
                             [k \in Classes |-> 0])
  <2>1. PICK p, g : /\ Swapped(p, c, g)
                    /\ FrameIs(g, Top(c).job, "event", Top(c).todo, Top(c).ready, None,
                         [k \in Classes |-> 0])
    BY <1>4
  <2>2. /\ Top(c).todo = {} /\ Top(c).ready = {} /\ Top(c).job \in Jobs /\ state[Top(c).job] = "done"
    BY <1>2, <1>4, <2>1 DEF Swapped
  <2>3. g.job = Top(c).job /\ g.pc = "event" /\ g.todo = Top(c).todo /\ g.ready = Top(c).ready
    BY <2>1 DEF FrameIs
  <2>4. FrameOK(g, p[2])
    BY <1>4, <2>2, <2>3 DEF FrameOK
  <2>5. Tracks(g, Top(c))
    BY <1>1, <2>3 DEF Tracks
  <2> QED
    BY <1>1, <2>1, <2>4, <2>5, QuietSwap
<1>5. CASE /\ Top(c).full # None /\ CanRunInline(c, Top(c).full)
           /\ \E p, q, g : /\ SwappedAndCalled(p, q, c, g, RunFrame(Top(c).full))
                           /\ FrameIs(g, Top(c).job, "process", Top(c).todo,
                                Top(c).ready \ {Top(c).full}, None, [k \in Classes |-> 0])
  BY <1>1, <1>5, WorkInline
<1>6. CASE /\ Top(c).full # None
           /\ \E p, g : /\ Swapped(p, c, g)
                        /\ FrameIs(g, Top(c).job, "help", Top(c).todo, Top(c).ready, Top(c).full,
                             [k \in Classes |-> 0])
  <2>1. PICK p, g : /\ Swapped(p, c, g)
                    /\ FrameIs(g, Top(c).job, "help", Top(c).todo, Top(c).ready, Top(c).full,
                         [k \in Classes |-> 0])
    BY <1>6
  <2>2. FrameOK(Top(c), p[2])
    BY <1>2, <2>1 DEF Swapped
  <2>3. /\ g.job = Top(c).job /\ g.pc = "help" /\ g.todo = Top(c).todo /\ g.ready = Top(c).ready
        /\ g.full = Top(c).full
    BY <2>1 DEF FrameIs
  <2>4. FrameOK(g, p[2])
    BY <1>1, <1>6, <2>2, <2>3 DEF FrameOK
  <2>5. Tracks(g, Top(c))
    BY <1>1, <2>3 DEF Tracks
  <2> QED
    BY <1>1, <2>1, <2>4, <2>5, QuietSwap
<1> QED
  BY <1>3, <1>4, <1>5, <1>6, ReleaseFrames

(* The steps of run() and process().                                       *)
LEMMA WorkCallStep ==
  ASSUME Typed, WorkInv, NEW c \in Contexts, CallStep(c)
  PROVE  WorkInv'
<1> USE DEF In, jobs, queues, waiting
<1>1. CASE WakeBlocked(c)
  <2>1. PICK w : Goto(c, w) /\ w \in {"futex", "body"}
    BY <1>1 DEF WakeBlocked
  <2> QED
    BY <1>1, <2>1, WorkGoto DEF WakeBlocked
<1>2. CASE FutexWake(c)
  BY <1>2, WorkGoto DEF FutexWake
<1>3. CASE HelpWake(c)
  BY <1>3, WorkGoto DEF HelpWake
<1>4. CASE SetEvent(c)
  <2>1. PICK p : Returned(p, c)
    BY <1>4, EventFrames
  <2>2. Top(c).pc = "event" /\ UNCHANGED <<state, deps, runner, global, local, prog>>
    BY <1>4 DEF SetEvent
  <2>3. FrameOK(Top(c), p[2])
    BY <2>1, TopOK DEF Returned, WorkInv
  <2>4. Top(c).todo = {} /\ Top(c).ready = {}
    BY <2>2, <2>3 DEF FrameOK
  <2> QED
    BY <2>1, <2>2, <2>4, WorkReturn
<1> QED
  BY <1>1, <1>2, <1>3, <1>4, WorkExecute, WorkFinalize, WorkSignal, WorkMark, WorkRunSync, WorkPush,
     WorkStop, WorkRelease DEF CallStep

(* Looking for a job.                                                      *)
LEMMA WorkFetchStep ==
  ASSUME Typed, WorkerInv, WorkInv, NEW c \in Contexts, FetchStep(c)
  PROVE  WorkInv'
<1> USE DEF Searching, Idle, In, jobs, queues, waiting
<1>1. CASE FetchGlobal(c)
  <2>1. CASE \E j \in Jobs : TakeGlobal(looking[c], j) /\ Found(c, j)
    BY <1>1, <2>1, WorkFetch DEF FetchGlobal
  <2>2. CASE /\ Search(c, "steal")
             /\ UNCHANGED <<jobs, queues, sleeping, stop, looking, waiting>>
    <3>1. CASE stack[c] = <<>>
      BY <2>2, <3>1, WorkKept DEF Search
    <3>2. CASE stack[c] # <<>>
      BY <1>1, <2>2, <3>2, WorkGoto DEF Search, FetchGlobal
    <3> QED
      BY <3>1, <3>2
  <2> QED
    BY <1>1, <2>1, <2>2 DEF FetchGlobal
<1>2. CASE FetchPeer(c)
  BY <1>2, WorkFetch DEF FetchPeer
<1>3. CASE NotFound(c)
  <2>1. CASE stack[c] = <<>>
    BY <1>3, <2>1, WorkKept DEF NotFound
  <2>2. CASE stack[c] # <<>>
    <3>1. /\ UNCHANGED <<state, deps, runner, global, local, prog>> /\ Top(c).pc = "steal"
          /\ stack' = [stack EXCEPT ![c] = Helped(c)]
      BY <1>3, <2>2 DEF NotFound
    <3>2. PICK p, g :
             /\ Swapped(p, c, g)
             /\ FrameIs(g, Top(c).job, "process", Top(c).todo, Top(c).ready, None, Top(c).freed)
      BY <2>2, <3>1, HelpedFrames
    <3>3. FrameOK(Top(c), p[2])
      BY <3>2, TopOK DEF Swapped, WorkInv
    <3>4. g.job = Top(c).job /\ g.pc = "process" /\ g.todo = Top(c).todo /\ g.ready = Top(c).ready
      BY <3>2 DEF FrameIs
    <3>5. FrameOK(g, p[2])
      BY <3>1, <3>3, <3>4 DEF FrameOK
    <3>6. Tracks(g, Top(c))
      BY <3>1, <3>4 DEF Tracks
    <3> QED
      BY <3>1, <3>2, <3>5, <3>6, QuietSwap
  <2> QED
    BY <2>1, <2>2
<1> QED
  BY <1>1, <1>2, <1>3 DEF FetchStep

(* All steps.                                                              *)
LEMMA WorkStep ==
  ASSUME Typed, WorkerInv, WorkInv, [Next]_vars
  PROVE  WorkInv'
<1> USE DEF jobs, queues, waiting
<1>1. CASE UNCHANGED vars
  BY <1>1, WorkKept DEF vars
<1>2. ASSUME NEW w \in Workers, SemWait(w) PROVE WorkInv'
  BY <1>2, WorkKept DEF SemWait
<1>3. ASSUME NEW w \in Workers, CheckStop(w) PROVE WorkInv'
  BY <1>3, WorkKept DEF CheckStop
<1>4. ASSUME NEW w \in Workers, FetchLocal(w) PROVE WorkInv'
  BY <1>4, WorkFetch DEF Contexts
<1>5. ASSUME NEW S \in Batches, Submit(S) PROVE WorkInv'
  BY <1>5, ProgFacts, WorkSubmit
<1>6. CASE MainOnly
  BY <1>6, MainOnlyFacts, WorkKept
<1> QED
  BY <1>1, <1>2, <1>3, <1>4, <1>5, <1>6, Cases, WorkCallStep, WorkFetchStep

(* The initial states.                                                     *)
LEMMA WorkInit ==
  ASSUME Init
  PROVE  Caps /\ WorkInv
<1>1. Typed /\ Pos = {}
  BY TypedInit
<1>2. /\ \A k \in Classes : global[k] = <<>>
      /\ \A w \in Workers : local[w] = <<>>
      /\ \A j \in Jobs : state[j] = "clear"
  BY DEF Init
<1>3. /\ \A k \in Classes : Len(global[k]) = 0
      /\ \A w \in Workers : Len(local[w]) = 0
  BY <1>2
<1>4. Caps
  BY <1>3, PoolAssumption DEF Caps
<1>5. \A j : JobAt(j) = {} /\ RunAt(j) = {} /\ ReadyAt(j) = {} /\ TodoAt(j) = {} /\ SignalAt(j) = {}
  BY <1>1 DEF JobAt, RunAt, ReadyAt, TodoAt, SignalAt
<1>6. (\A k \in Classes : Rng(global[k]) = {}) /\ (\A w \in Workers : Rng(local[w]) = {})
  BY <1>3 DEF Rng
<1>7. \A j : GlobalAt(j) = {} /\ LocalAt(j) = {}
  BY <1>6 DEF GlobalAt, LocalAt
<1>8. FrameInv
  BY <1>1 DEF FrameInv
<1>9. OnceInv
  BY <1>5 DEF OnceInv, Once, Unique
<1>10. HolderInv
  BY <1>2, <1>5, <1>7 DEF HolderInv, Held, Unique, Apart
<1>11. QueueInv
  BY <1>3 DEF QueueInv, Distinct
<1>12. DepsInv
  <2>1. \A i \in Jobs : ~Signalled(i)
    BY <1>2 DEF Signalled
  <2>2. \A k \in Jobs : Unfinished(k) = {i \in Jobs : <<i, k>> \in Before}
    BY <2>1 DEF Unfinished
  <2> QED
    BY <1>2, <2>2 DEF DepsInv, Init
<1>13. ClassInv
  BY <1>1, <1>2, <1>6 DEF ClassInv
<1> QED
  BY <1>4, <1>8, <1>9, <1>10, <1>11, <1>12, <1>13 DEF WorkInv

(* A queue that got shorter, or had room.                                  *)
LEMMA CapsParts ==
  ASSUME Typed, Caps,
         \/ global' = global
         \/ \E k \in Classes : \E t : global' = [global EXCEPT ![k] = t] /\ Len(t) <= GlobalCap,
         \/ local' = local
         \/ \E w \in Workers : \E t : local' = [local EXCEPT ![w] = t] /\ Len(t) <= LocalCap
  PROVE  Caps'
<1>1. \A k \in Classes : Len(global'[k]) <= GlobalCap
  BY DEF Caps, Typed
<1>2. \A w \in Workers : Len(local'[w]) <= LocalCap
  BY DEF Caps, Typed
<1> QED
  BY <1>1, <1>2 DEF Caps

(* The queues stay within their capacity.                                  *)
LEMMA CapsStep ==
  ASSUME Typed, Caps, [Next]_vars
  PROVE  Caps'
<1> USE DEF queues
<1>1. /\ \A k \in Classes : global[k] \in Seq(Jobs) /\ Len(global[k]) <= GlobalCap
      /\ \A w \in Workers : local[w] \in Seq(Jobs) /\ Len(local[w]) <= LocalCap
      /\ GlobalCap \in Nat /\ LocalCap \in Nat
  BY PoolAssumption DEF Typed, Caps
<1>2. ASSUME NEW s \in Seq(Jobs), NEW N \in Nat, s # <<>>, Len(s) <= N
      PROVE  Len(Tail(s)) <= N /\ Len(SubSeq(s, 1, Len(s) - 1)) <= N
  <2>1. Len(s) \in Nat \ {0} /\ Len(Tail(s)) = Len(s) - 1
    BY <1>2, EmptySeq, HeadTailProperties
  <2>2. PICK l \in Nat : l = Len(s) - 1
    <3>1. Len(s) - 1 \in Nat
      BY <2>1
    <3> QED
      BY <3>1
  <2>3. Len(SubSeq(s, 1, l)) = l
    BY <2>1, <2>2
  <2> QED
    BY <1>2, <2>1, <2>2, <2>3
<1>3. ASSUME NEW s \in Seq(Jobs), NEW N \in Nat, Len(s) < N, NEW j \in Jobs PROVE Len(Append(s, j)) <= N
  <2>1. Len(Append(s, j)) = Len(s) + 1 /\ Len(s) \in Nat
    BY AppendProperties
  <2> QED
    BY <1>3, <2>1
<1>4. ASSUME NEW c \in Contexts, Push(c) PROVE Caps'
  <2>1. PICK j \in Top(c).ready : HasRoom(c, j) /\ Enqueue(c, j, UsesLocal(c, j))
    BY <1>4 DEF Push
  <2>2. j \in Jobs /\ JobClass(j) \in Classes
    BY <1>4, <2>1, TopFrame, ClassFacts DEF FrameSet, Push, In
  <2>3. CASE UsesLocal(c, j)
    <3>1. PICK t : t = Append(local[c], j)
      OBVIOUS
    <3>2. c \in Workers /\ local' = [local EXCEPT ![c] = t] /\ global' = global /\ Len(local[c]) < LocalCap
      BY <2>1, <2>3, <3>1 DEF UsesLocal, Enqueue, HasRoom
    <3>3. Len(t) <= LocalCap
      BY <1>1, <1>3, <2>2, <3>1, <3>2
    <3> QED
      BY <3>2, <3>3, CapsParts
  <2>4. CASE ~UsesLocal(c, j)
    <3>1. PICK k \in Classes : k = JobClass(j)
      BY <2>2
    <3>2. PICK t : t = Append(global[k], j)
      OBVIOUS
    <3>3. global' = [global EXCEPT ![k] = t] /\ local' = local /\ Len(global[k]) < GlobalCap
      BY <2>1, <2>4, <3>1, <3>2 DEF Enqueue, HasRoom
    <3>4. Len(t) <= GlobalCap
      BY <1>1, <1>3, <2>2, <3>2, <3>3
    <3> QED
      BY <3>3, <3>4, CapsParts
  <2> QED
    BY <2>3, <2>4
<1>5. ASSUME NEW c \in Contexts, FetchStep(c) PROVE Caps'
  <2>1. PICK k \in Classes : k = looking[c]
    BY DEF Typed
  <2>2. CASE \E j : TakeGlobal(k, j)
    <3>1. PICK t : t = Tail(global[k])
      OBVIOUS
    <3>2. global' = [global EXCEPT ![k] = t] /\ local' = local /\ global[k] # <<>>
      BY <2>2, <3>1 DEF TakeGlobal
    <3>3. Len(t) <= GlobalCap
      BY <1>1, <1>2, <3>1, <3>2
    <3> QED
      BY <3>2, <3>3, CapsParts
  <2>3. CASE \E j : TakePeer(c, k, j)
    <3>1. PICK v \in WorkersOf(k) : local[v] # <<>> /\ local' = [local EXCEPT ![v] = Tail(local[v])] /\ global' = global
      BY <2>3 DEF TakePeer
    <3>2. v \in Workers
      BY <3>1, ClassFacts
    <3>3. PICK t : t = Tail(local[v])
      OBVIOUS
    <3>4. Len(t) <= LocalCap
      BY <1>1, <1>2, <3>1, <3>2, <3>3
    <3> QED
      BY <3>1, <3>2, <3>3, <3>4, CapsParts
  <2>4. CASE UNCHANGED queues
    BY <2>4, CapsParts
  <2> QED
    BY <1>5, <2>1, <2>2, <2>3, <2>4 DEF FetchStep, FetchGlobal, FetchPeer, NotFound
<1>6. ASSUME NEW w \in Workers, FetchLocal(w) PROVE Caps'
  <2>1. CASE local[w] = <<>>
    BY <1>6, <2>1, CapsParts DEF FetchLocal
  <2>2. CASE local[w] # <<>>
    <3>1. PICK t : t = SubSeq(local[w], 1, Len(local[w]) - 1)
      OBVIOUS
    <3>2. local' = [local EXCEPT ![w] = t] /\ global' = global
      BY <1>6, <2>2, <3>1 DEF FetchLocal
    <3>3. Len(t) <= LocalCap
      BY <1>1, <1>2, <2>2, <3>1
    <3> QED
      BY <3>2, <3>3, CapsParts
  <2> QED
    BY <2>1, <2>2
<1>7. ASSUME NEW c \in Contexts, CallStep(c) PROVE Push(c) \/ UNCHANGED queues
  BY <1>7 DEF CallStep, Execute, WakeBlocked, FutexWake, Finalize, SignalEdges, SetEvent, Mark,
              RunSync, StopPushing, Release, HelpWake
<1>8. CASE UNCHANGED queues
  BY <1>8, CapsParts
<1>9. ASSUME NEW w \in Workers, SemWait(w) \/ CheckStop(w) PROVE UNCHANGED queues
  BY <1>9 DEF SemWait, CheckStop
<1>10. ASSUME NEW S \in Batches, Submit(S) PROVE UNCHANGED queues
  BY <1>10 DEF Submit
<1>11. CASE MainOnly
  BY <1>8, <1>11, MainOnlyFacts
<1> QED
  BY <1>4, <1>5, <1>6, <1>7, <1>8, <1>9, <1>10, <1>11, Cases DEF vars

-----------------------------------------------------------------------------
(* What the invariant says                                                 *)

(* It holds in the initial states.                                         *)
LEMMA InvInit ==
  Init => IInv
BY WakeInit, WorkInit DEF IInv

(* Every step keeps it.                                                    *)
LEMMA InvStep ==
  IInv /\ [Next]_vars => IInv'
<1>1. SUFFICES ASSUME IInv, [Next]_vars PROVE IInv'
  OBVIOUS
<1>2. WakeIInv /\ Typed /\ WorkerInv /\ Caps /\ WorkInv
  BY <1>1 DEF IInv, WakeIInv
<1>3. WakeIInv' /\ Caps' /\ WorkInv'
  BY <1>1, <1>2, WakeStep, CapsStep, WorkStep
<1> QED
  BY <1>3 DEF IInv

(* Only so many calls are made at a time: each runs a different job,       *)
(* except for that of submit().                                            *)
LEMMA Depth ==
  ASSUME Typed, FrameInv, OnceInv, NEW c \in Contexts
  PROVE  Len(stack[c]) \in Nat /\ Len(stack[c]) <= 2 * Cardinality(Jobs) + 1
<1>1. stack \in [Contexts -> Seq(FrameSet)] /\ stack[c] \in Seq(FrameSet) /\ Len(stack[c]) \in Nat
  BY DEF Typed
<1>2. PICK L \in Nat : L = Len(stack[c])
  BY <1>1
<1>3. Cardinality(Jobs) \in Nat
  BY FS_CardinalityType, PoolAssumption
<1>4. CASE L = 0
  BY <1>1, <1>2, <1>3, <1>4
<1>5. CASE L # 0
  <2> DEFINE f == [n \in 2..L |-> Fr(<<c, n>>).job]
  <2>1. ASSUME NEW n \in 2..L
        PROVE  /\ Fr(<<c, n>>).job \in Jobs /\ <<c, n>> \in JobAt(Fr(<<c, n>>).job)
    <3>1. n \in Nat /\ n \in 1..Len(stack[c]) /\ n # 1
      BY <1>2
    <3>2. <<c, n>> \in Pos
      BY <1>1, <3>1, PosDef DEF Pos
    <3>3. Fr(<<c, n>>) \in FrameSet /\ FrameOK(Fr(<<c, n>>), n)
      <4>1. FrameOK(Fr(<<c, n>>), <<c, n>>[2])
        BY <3>2 DEF FrameInv
      <4> QED
        BY <3>2, <4>1, AllFrames
    <3>4. Fr(<<c, n>>).job \in Jobs
      BY <3>1, <3>3 DEF FrameOK, FrameSet
    <3> QED
      BY <3>2, <3>4 DEF JobAt
  <2>2. f \in [2..L -> Jobs]
    BY <2>1
  <2>3. ASSUME NEW m \in 2..L, NEW n \in 2..L, f[m] = f[n] PROVE m = n
    <3>1. PICK j : j = Fr(<<c, m>>).job
      OBVIOUS
    <3>2. j \in Jobs /\ <<c, m>> \in JobAt(j) /\ <<c, n>> \in JobAt(j)
      BY <2>1, <2>3, <3>1
    <3>3. <<c, m>> = <<c, n>>
      BY <3>2 DEF OnceInv, Once, Unique
    <3> QED
      BY <3>3
  <2> HIDE DEF f
  <2>4. f \in Injection(2..L, Jobs)
    BY <2>2, <2>3 DEF Injection, IsInjective
  <2>5. Cardinality(2..L) <= Cardinality(Jobs)
    BY <2>4, FS_Injection, PoolAssumption
  <2>6. Cardinality(2..L) = IF 2 > L THEN 0 ELSE (L - 2) + 1
    BY FS_Interval
  <2> QED
    BY <1>1, <1>2, <1>3, <1>5, <2>5, <2>6
<1> QED
  BY <1>4, <1>5

(* A set whose elements are all the same.                                  *)
LEMMA UniqueCard ==
  ASSUME NEW S, Unique(S)
  PROVE  Cardinality(S) = IF S = {} THEN 0 ELSE 1
<1>1. CASE S = {}
  BY <1>1, FS_EmptySet
<1>2. CASE S # {}
  <2>1. PICK x : S = {x}
    BY <1>2 DEF Unique
  <2> QED
    BY <1>2, <2>1, FS_Singleton
<1> QED
  BY <1>1, <1>2

(* The places of a job, as module ThreadPool counts them.                  *)
LEMMA QueuePlaces ==
  ASSUME Typed, Caps, QueueInv, NEW j \in Jobs, Held(j)
  PROVE  /\ Cardinality(QueueOf(j)) = IF GlobalAt(j) = {} THEN 0 ELSE 1
         /\ Cardinality(LocalOf(j)) = IF LocalAt(j) = {} THEN 0 ELSE 1
<1>1. /\ \A k \in Classes : Len(global[k]) \in Nat /\ Len(global[k]) <= GlobalCap
      /\ \A w \in Workers : Len(local[w]) \in Nat /\ Len(local[w]) <= LocalCap
      /\ GlobalCap \in Nat /\ LocalCap \in Nat
  BY PoolAssumption DEF Typed, Caps
<1>2. Unique(QueueOf(j)) /\ (QueueOf(j) = {} <=> GlobalAt(j) = {})
  <2>1. ASSUME NEW x \in QueueOf(j)
        PROVE  /\ x = <<x[1], x[2]>> /\ x[1] \in GlobalAt(j) /\ x[2] \in 1..Len(global[x[1]])
               /\ global[x[1]][x[2]] = j /\ x[1] \in Classes
    <3>1. /\ x = <<x[1], x[2]>> /\ x[1] \in Classes /\ x[2] \in 1..GlobalCap
          /\ x[2] <= Len(global[x[1]]) /\ global[x[1]][x[2]] = j
      BY DEF QueueOf
    <3>2. x[2] \in 1..Len(global[x[1]])
      BY <1>1, <3>1
    <3> QED
      BY <3>1, <3>2 DEF GlobalAt, Rng
  <2>2. ASSUME NEW x \in QueueOf(j), NEW y \in QueueOf(j) PROVE x = y
    <3>1. x[1] = y[1]
      BY <2>1 DEF Held, Unique
    <3>2. x[2] = y[2]
      BY <2>1, <3>1 DEF QueueInv, Distinct
    <3> QED
      BY <2>1, <3>1, <3>2
  <2>3. ASSUME NEW k \in GlobalAt(j) PROVE QueueOf(j) # {}
    <3>1. PICK n \in 1..Len(global[k]) : global[k][n] = j
      BY DEF GlobalAt, Rng
    <3>2. k \in Classes /\ n \in 1..GlobalCap /\ n <= Len(global[k])
      BY <1>1, <3>1 DEF GlobalAt
    <3>3. <<k, n>> \in QueueOf(j)
      BY <3>1, <3>2 DEF QueueOf
    <3> QED
      BY <3>3
  <2>4. Unique(QueueOf(j))
    BY <2>2 DEF Unique
  <2> QED
    BY <2>1, <2>3, <2>4
<1>3. Unique(LocalOf(j)) /\ (LocalOf(j) = {} <=> LocalAt(j) = {})
  <2>1. ASSUME NEW x \in LocalOf(j)
        PROVE  /\ x = <<x[1], x[2]>> /\ x[1] \in LocalAt(j) /\ x[2] \in 1..Len(local[x[1]])
               /\ local[x[1]][x[2]] = j /\ x[1] \in Workers
    <3>1. /\ x = <<x[1], x[2]>> /\ x[1] \in Workers /\ x[2] \in 1..LocalCap
          /\ x[2] <= Len(local[x[1]]) /\ local[x[1]][x[2]] = j
      BY DEF LocalOf
    <3>2. x[2] \in 1..Len(local[x[1]])
      BY <1>1, <3>1
    <3> QED
      BY <3>1, <3>2 DEF LocalAt, Rng
  <2>2. ASSUME NEW x \in LocalOf(j), NEW y \in LocalOf(j) PROVE x = y
    <3>1. x[1] = y[1]
      BY <2>1 DEF Held, Unique
    <3>2. x[2] = y[2]
      BY <2>1, <3>1 DEF QueueInv, Distinct
    <3> QED
      BY <2>1, <3>1, <3>2
  <2>3. ASSUME NEW w \in LocalAt(j) PROVE LocalOf(j) # {}
    <3>1. PICK n \in 1..Len(local[w]) : local[w][n] = j
      BY DEF LocalAt, Rng
    <3>2. w \in Workers /\ n \in 1..LocalCap /\ n <= Len(local[w])
      BY <1>1, <3>1 DEF LocalAt
    <3>3. <<w, n>> \in LocalOf(j)
      BY <3>1, <3>2 DEF LocalOf
    <3> QED
      BY <3>3
  <2>4. Unique(LocalOf(j))
    BY <2>2 DEF Unique
  <2> QED
    BY <2>1, <2>3, <2>4
<1> QED
  BY <1>2, <1>3, UniqueCard

(* And the calls that have it in hand.                                     *)
LEMMA CallPlaces ==
  ASSUME Typed, FrameInv, OnceInv, NEW j \in Jobs, Held(j)
  PROVE  Cardinality(Pending(j)) = IF ReadyAt(j) = {} /\ RunAt(j) = {} THEN 0 ELSE 1
<1>1. stack \in [Contexts -> Seq(FrameSet)]
  BY DEF Typed
<1>2. \A c \in Contexts : Len(stack[c]) \in Nat /\ Len(stack[c]) <= 2 * Cardinality(Jobs) + 1
  BY Depth
<1>3. Cardinality(Jobs) \in Nat
  BY FS_CardinalityType, PoolAssumption
<1>4. ASSUME NEW x \in Pending(j)
      PROVE  /\ x = <<x[1], x[2]>> /\ x[1] \in Contexts /\ x[2] \in 1..Len(stack[x[1]])
             /\ <<x[1], (Len(stack[x[1]]) - x[2]) + 1>> \in ReadyAt(j) \cup RunAt(j)
  <2>1. PICK c \in Contexts, n \in 1..(2 * Cardinality(Jobs) + 1) :
          x = <<c, n>> /\ n <= Len(stack[c]) /\ Holds(stack[c][n], j)
    BY DEF Pending
  <2>2. PICK d \in Nat : d = (Len(stack[c]) - n) + 1 /\ d \in 1..Len(stack[c])
    <3>1. n \in Nat /\ n >= 1 /\ Len(stack[c]) \in Nat
      BY <1>2, <1>3, <2>1
    <3>2. (Len(stack[c]) - n) + 1 \in Nat /\ (Len(stack[c]) - n) + 1 \in 1..Len(stack[c])
      BY <2>1, <3>1
    <3> QED
      BY <3>2
  <2>3. (Len(stack[c]) - d) + 1 = n /\ n \in 1..Len(stack[c])
    BY <1>2, <2>1, <2>2
  <2>4. <<c, d>> \in Pos /\ Fr(<<c, d>>) = stack[c][n]
    BY <1>1, <2>2, <2>3, PosDef DEF Pos, Fr
  <2>5. <<c, d>> \in ReadyAt(j) \cup RunAt(j)
    BY <2>1, <2>4 DEF Holds, ReadyAt, RunAt
  <2> QED
    BY <2>1, <2>2, <2>3, <2>5
<1>5. ASSUME NEW y \in ReadyAt(j) \cup RunAt(j) PROVE Pending(j) # {}
  <2>1. y \in Pos /\ Holds(Fr(y), j)
    BY DEF ReadyAt, RunAt, Holds
  <2>2. PICK c \in Contexts, d \in Nat : y = <<c, d>> /\ d \in 1..Len(stack[c])
    BY <1>1, <2>1, PosDef DEF Pos
  <2>3. PICK n \in Nat : n = (Len(stack[c]) - d) + 1 /\ n \in 1..Len(stack[c])
    <3>1. (Len(stack[c]) - d) + 1 \in Nat /\ (Len(stack[c]) - d) + 1 \in 1..Len(stack[c])
      BY <1>2, <2>2
    <3> QED
      BY <3>1
  <2>4. Fr(y) = stack[c][n]
    BY <1>1, <2>2, <2>3, PosDef DEF Fr
  <2>5. n \in 1..(2 * Cardinality(Jobs) + 1) /\ n <= Len(stack[c])
    BY <1>2, <1>3, <2>3
  <2>6. <<c, n>> \in Pending(j)
    BY <2>1, <2>4, <2>5 DEF Pending
  <2> QED
    BY <2>6
<1>6. Unique(ReadyAt(j) \cup RunAt(j))
  BY DEF Held, Unique, Apart
<1>7. ASSUME NEW x \in Pending(j), NEW y \in Pending(j) PROVE x = y
  <2>1. <<x[1], (Len(stack[x[1]]) - x[2]) + 1>> = <<y[1], (Len(stack[y[1]]) - y[2]) + 1>>
    BY <1>4, <1>6 DEF Unique
  <2>2. x[1] = y[1] /\ (Len(stack[x[1]]) - x[2]) + 1 = (Len(stack[y[1]]) - y[2]) + 1
    BY <2>1
  <2>3. x[1] \in Contexts /\ x[2] \in 1..Len(stack[x[1]]) /\ y[2] \in 1..Len(stack[x[1]])
    BY <1>4, <2>2
  <2>4. x[2] = y[2]
    BY <1>2, <2>2, <2>3
  <2> QED
    BY <1>4, <2>2, <2>4
<1>8. Unique(Pending(j)) /\ (Pending(j) = {} <=> ReadyAt(j) = {} /\ RunAt(j) = {})
  BY <1>4, <1>5, <1>7 DEF Unique
<1> QED
  BY <1>8, UniqueCard

(* A job is in one place.                                                  *)
LEMMA InvPlaces ==
  ASSUME IInv
  PROVE  InOnePlace
<1>1. Typed /\ Caps /\ FrameInv /\ OnceInv /\ HolderInv /\ QueueInv /\ ClassInv
  BY DEF IInv, WakeIInv, WorkInv
<1>2. ASSUME NEW j \in Jobs
      PROVE  Cardinality(QueueOf(j)) + Cardinality(LocalOf(j)) + Cardinality(Pending(j))
               = IF state[j] = "processing" THEN 1 ELSE 0
  <2>1. Held(j)
    BY <1>1 DEF HolderInv
  <2>2. PICK a, b, d : /\ a = Cardinality(QueueOf(j)) /\ b = Cardinality(LocalOf(j))
                       /\ d = Cardinality(Pending(j))
    OBVIOUS
  <2>3. /\ a = IF GlobalAt(j) = {} THEN 0 ELSE 1
        /\ b = IF LocalAt(j) = {} THEN 0 ELSE 1
        /\ d = IF ReadyAt(j) = {} /\ RunAt(j) = {} THEN 0 ELSE 1
    BY <1>1, <2>1, <2>2, QueuePlaces, CallPlaces
  <2>4. a + b + d = IF state[j] = "processing" THEN 1 ELSE 0
    BY <2>1, <2>3 DEF Held, Apart
  <2> QED
    BY <2>2, <2>4
<1>3. ASSUME NEW w \in Workers, NEW j \in Jobs \ SyncJobs, state[j] = "executing", runner[j] = w
      PROVE  JobClass(j) = ClassOf(w) \/ WorkersOf(JobClass(j)) = {}
  BY <1>1, <1>3 DEF ClassInv, Fits
<1> QED
  BY <1>2, <1>3 DEF InOnePlace

(* Types.                                                                  *)
LEMMA InvTypes ==
  ASSUME IInv
  PROVE  TypeOK
<1>1. Typed /\ Caps /\ FrameInv /\ OnceInv /\ DepsInv
  BY DEF IInv, WakeIInv, WorkInv
<1>2. deps \in [Jobs -> 0..Cardinality(Jobs)]
  <2>1. ASSUME NEW k \in Jobs PROVE deps[k] \in 0..Cardinality(Jobs)
    <3>1. Unfinished(k) \in SUBSET Jobs /\ deps[k] = Cardinality(Unfinished(k))
      BY <1>1 DEF Unfinished, DepsInv
    <3>2. Cardinality(Unfinished(k)) \in Nat /\ Cardinality(Unfinished(k)) <= Cardinality(Jobs)
      BY <3>1, FS_Subset, FS_CardinalityType, PoolAssumption
    <3>3. Cardinality(Jobs) \in Nat
      BY FS_CardinalityType, PoolAssumption
    <3> QED
      BY <3>1, <3>2, <3>3
  <2> QED
    BY <1>1, <2>1 DEF Typed
<1>3. \A c \in Contexts : Len(stack[c]) <= 2 * Cardinality(Jobs) + 1
  BY <1>1, Depth
<1>4. /\ \A k \in Classes : global[k] \in Seq(Jobs) /\ Len(global[k]) <= GlobalCap
      /\ \A w \in Workers : local[w] \in Seq(Jobs) /\ Len(local[w]) <= LocalCap
  BY <1>1 DEF Typed, Caps
<1>5. {blocked, linked, signalled, stop} \subseteq BOOLEAN
  BY <1>1 DEF Typed
<1> QED
  BY <1>1, <1>2, <1>3, <1>4, <1>5 DEF Typed, TypeOK

(* The states, counters and queues of the pool are of their types, the     *)
(* queues within their capacity, and calls are nested at most twice as     *)
(* deep as there are jobs.                                                 *)
THEOREM TypeCorrect == Spec => []TypeOK
<1>1. IInv => TypeOK
  BY InvTypes
<1> QED
  BY <1>1, InvInit, InvStep, PTL DEF Spec

(* A job that is Processing is in one queue or in the hands of one         *)
(* context, and it is run by a worker of its class.                        *)
THEOREM JobsInOnePlace == Spec => []InOnePlace
<1>1. IInv => InOnePlace
  BY InvPlaces
<1> QED
  BY <1>1, InvInit, InvStep, PTL DEF Spec
=============================================================================
