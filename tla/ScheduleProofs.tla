--------------------------- MODULE ScheduleProofs ---------------------------
(***************************************************************************)
(* Theorems about the events of a stream for any modules, paths and number *)
(* of threads.  The parts of IndInv say who holds a reference to which     *)
(* task, where a module and a path are, and that whoever waits for         *)
(* something waits, in the end, for a path.  It is inductive as long as no *)
(* thread is late in looking at a list or a wrapper when an event is over: *)
(* nothing else is carried from one event to the next.  In the first event *)
(* none can be, nor in any event when there is one thread; the last two    *)
(* theorems show so, and need no hypothesis.                               *)
(***************************************************************************)
EXTENDS Schedule, SequenceTheorems, FiniteSetTheorems, TLAPS

-----------------------------------------------------------------------------
(* Tasks and calls. *)

\* The tasks that can wait in a list.
Waiters == {RunTask(m) : m \in Modules} \cup {NextTask(p) : p \in Paths}

\* What can be pushed to a run queue, and all that a thread can be inside.
QueueCalls == [op : {"acquire"}, mod : HasAcquire] \cup [op : {"work", "fail"}, mod : Modules]

Calls == [op : {"handle"}]
    \cup [op : {"paths"}, rest : Seq(Paths)]
    \cup [op : {"filter"}, path : {p \in Paths : PathFilters[p] # <<>>}]
    \cup [op : {"add", "insert"}, mod : Modules, task : Waiters]
    \cup [op : {"recheck", "start", "announce"}, mod : Modules]
    \cup [op : {"prefetch"}, mod : Modules, rest : Seq(Producers)]
    \cup [op : {"tell"}, mod : Modules, batch : (SUBSET Waiters) \ {{}}]
    \cup [op : {"serve"}, queue : Range(RunQueue)]
    \cup QueueCalls

\* The places of calls: the first of a thread is the outermost.
Frames  == {x \in Threads \X (Nat \ {0}) : x[2] <= Len(stack[x[1]])}
Call(x) == stack[x[1]][Len(stack[x[1]]) + 1 - x[2]]

\* Call c has a reference to task t.
Holds(c, t) == \/ c.op \in {"add", "insert"} /\ c.task = t
               \/ c.op = "tell" /\ t \in c.batch
               \/ c.op = "prefetch" /\ t = RunTask(c.mod)

\* Who has: calls, and lists.
Holders(t) == {x \in Frames : Holds(Call(x), t)}
         \cup {x \in Modules \X {0} : t \in listed[x[1]]}

\* Calls by what they do, and those that say where something is.
Having(op)   == {x \in Frames : Call(x).op = op}
FiltersOf(p) == {x \in Having("filter") : Call(x).path = p}
Running(m)   == {x \in Having("acquire") \cup Having("work") \cup Having("fail") : Call(x).mod = m}

\* Where a module that was started is, from its prefetching to its end.
Stages(m) == {s \in {<<"asks", m>>} : refCount[RunTask(m)] > 0}
        \cup {s \in {<<"ready", m>>} : RunTask(m) \in ready}
        \cup {s \in {<<"outside", m>>} : m \in outside}
        \cup {s \in {<<"acquired", m>>} : m \in HasAcquire /\ AfterAcquire(m) \in ready}
        \cup ({"pushed"} \X {c \in pushed : c.mod = m})
        \cup ({"runs"} \X Running(m))

\* Where a path is.
PathPlaces(p) == {s \in {<<"asks", p>>} : refCount[NextTask(p)] > 0}
            \cup {s \in {<<"ready", p>>} : NextTask(p) \in ready}
            \cup ({"begins"} \X FiltersOf(p))

\* Who has a reference to AllPathsDoneTask: the loop of processAsync, and paths.
PathHolders == Having("paths") \cup {x \in Paths \X {0} : PathPlaces(x[1]) # {}}

\* Where the stream is.
StreamPlaces == {s \in {<<"paths", 0>>} : refCount[AllPathsDone] > 0}
           \cup {s \in {<<"ready", 0>>} : AllPathsDone \in ready}
           \cup {s \in {<<"over", 0>>} : RecursiveTask \in ready}
           \cup ({"begins"} \X Having("handle"))

-----------------------------------------------------------------------------
(* The inductive invariant, in parts. *)

\* The types of the variables, and what holds of them without any argument.
Types ==
    /\ m_workStarted \in [Modules -> BOOLEAN]
    /\ m_waiting \in [Modules -> BOOLEAN]
    /\ m_exceptionPtr \in [Modules -> BOOLEAN]
    /\ listed \in [Modules -> SUBSET Waiters]
    /\ m_wasCached \in [Producers -> BOOLEAN]
    /\ m_keep \in [Filters -> BOOLEAN]
    /\ DOMAIN m_index = Paths
    /\ \A p \in Paths : m_index[p] \in 1 .. Len(PathFilters[p]) \cup {1}
    /\ refCount \in [Tasks -> Int]
    /\ except \in [Tasks -> BOOLEAN]
    /\ ready \subseteq Tasks /\ pushed \subseteq QueueCalls /\ outside \subseteq HasAcquire
    /\ fatal \in BOOLEAN /\ open \in BOOLEAN
    /\ m_seenEvents \in 0 .. NEvents + 1
    /\ outcome \in {"none", "done", "failed"}
    /\ stack \in [Threads -> Seq(Calls)]
    /\ runs \in [Modules -> Nat]
    /\ threw \subseteq Modules

\* A task has at least as many references as there are holders of it.
AtLeast(n, s) == IsFiniteSet(s) /\ Cardinality(s) <= n

Counted ==
    /\ \A t \in Waiters : AtLeast(refCount[t], Holders(t))
    /\ \A m \in HasAcquire : refCount[AfterAcquire(m)] = IF m \in outside THEN 1 ELSE 0

\* A module is in one place, from when it is started to when it waits no more.
OneStage ==
    \A m \in Modules :
        /\ \A s, u \in Stages(m) : s = u
        /\ Stages(m) # {} => m_workStarted[m] /\ m_waiting[m]

\* A list is taken when it waits no more; and before a module is started
\* somebody is in its list.
Looks ==
    /\ \A m \in Modules : ~m_waiting[m] => m_workStarted[m]
    /\ \A x \in Frames : Call(x).op \in {"announce", "tell"} => ~m_waiting[Call(x).mod]
    /\ \A x \in Frames : Call(x).op = "start" =>
          \/ m_workStarted[Call(x).mod]
          \/ listed[Call(x).mod] # {}
          \/ LET y == <<x[1], x[2] + 1>>
             IN y \in Frames /\ Call(y).op = "insert" /\ Call(y).mod = Call(x).mod

\* No set of modules waits for itself: somebody else waits for one of them.
Started == {m \in Modules : m_workStarted[m] /\ m_waiting[m]}

NoneInCircle ==
    \A s \in SUBSET Started : s # {} =>
        \E m \in s : \E t \in listed[m] : \A k \in s : t # RunTask(k)

\* A path is in one place, those not yet started in none.
PathsInOrder ==
    /\ \A p \in Paths : \A s, u \in PathPlaces(p) : s = u
    /\ \A p \in Paths : PathPlaces(p) # {} => PathFilters[p] # <<>>
    /\ \A x, y \in Having("paths") : x = y
    /\ \A x \in Having("paths") :
          /\ \A i, j \in 1 .. Len(Call(x).rest) : Call(x).rest[i] = Call(x).rest[j] => i = j
          /\ \A i \in 1 .. Len(Call(x).rest) : \A p \in Paths :
                Call(x).rest[i] = p => PathPlaces(p) = {}

\* The stream is in one place, and asks no more when it has an outcome.
OneEvent ==
    /\ AtLeast(refCount[AllPathsDone], PathHolders)
    /\ \A s, u \in StreamPlaces : s = u
    /\ refCount[RecursiveTask] = IF refCount[AllPathsDone] > 0 \/ AllPathsDone \in ready
                                   THEN 1 ELSE 0
    /\ StreamPlaces # {} => m_seenEvents <= NEvents

\* A producer that waits no more has put its data, or has failed.
Produced == \A n \in Producers : ~m_waiting[n] => m_wasCached[n] \/ m_exceptionPtr[n]

\* Holder x holds the RunModuleTask of m for what m gets from n.
WaitsFor(x, m, n) ==
    \/ /\ x \in Frames
       /\ \/ Call(x).op = "prefetch" /\ Call(x).mod = m /\ n \in Range(Call(x).rest)
          \/ Call(x).op \in {"add", "insert"} /\ Call(x).mod = n /\ Call(x).task = RunTask(m)
          \/ Call(x).op = "tell" /\ Call(x).mod = n /\ RunTask(m) \in Call(x).batch
    \/ x = <<n, 0>> /\ RunTask(m) \in listed[n]

\* n waits no more, and m has what it gets from it, or has been told that there
\* was an exception.
Answered(m, n) == ~m_waiting[n] /\ (m_wasCached[n] \/ except[RunTask(m)])

\* A RunModuleTask that is held still waits for what it has no answer of.
Prefetched ==
    \A m \in Modules : \A n \in Range(Gets[m]) :
        /\ refCount[RunTask(m)] > 0 =>
              Answered(m, n) \/ \E x \in Holders(RunTask(m)) : WaitsFor(x, m, n)
        /\ RunTask(m) \in ready => Answered(m, n)

\* Past its RunModuleTask a module has all its data, unless it only fails.
HasData(m) == \A n \in Range(Gets[m]) : m_wasCached[n]

DataThere ==
    /\ \A x \in Frames : Call(x).op \in {"acquire", "work"} => HasData(Call(x).mod)
    /\ \A c \in pushed : c.op \in {"acquire", "work"} => HasData(c.mod)
    /\ \A m \in outside : HasData(m)
    /\ \A m \in HasAcquire : AfterAcquire(m) \in ready => HasData(m)

IndInv == /\ Types /\ Counted /\ OneStage /\ Looks /\ NoneInCircle /\ PathsInOrder
          /\ OneEvent /\ Produced /\ Prefetched /\ DataThere

\* What a thread can still do to a module of an event that is over.
LateLook(c) == c.op \in {"recheck", "start", "announce"}

NoLateLook == Between => \A x \in Frames : ~LateLook(Call(x))

\* QuietBetweenEvents but for those.
NothingHeld == Between =>
    /\ ready \subseteq {RecursiveTask}
    /\ \A t \in Tasks : refCount[t] = 0
    /\ \A m \in Modules : listed[m] = {}
    /\ pushed = {} /\ outside = {}
    /\ \A x \in Frames : Call(x).op \in {"handle", "serve"} \/ LateLook(Call(x))

-----------------------------------------------------------------------------
(* Facts about tasks, sets that grow and shrink by one, and the stacks. *)

\* Tasks of different kinds, and of different modules and paths, are different.
LEMMA TaskNames ==
    /\ \A m, k : RunTask(m) = RunTask(k) => m = k
    /\ \A m, k : AfterAcquire(m) = AfterAcquire(k) => m = k
    /\ \A p, q : NextTask(p) = NextTask(q) => p = q
    /\ \A m, k : RunTask(m) # AfterAcquire(k)
    /\ \A m, p : RunTask(m) # NextTask(p) /\ AfterAcquire(m) # NextTask(p)
    /\ \A m : RunTask(m) \notin {AllPathsDone, RecursiveTask}
    /\ \A m : AfterAcquire(m) \notin {AllPathsDone, RecursiveTask}
    /\ \A p : NextTask(p) \notin {AllPathsDone, RecursiveTask}
    /\ AllPathsDone # RecursiveTask
  BY DEF RunTask, AfterAcquire, NextTask, AllPathsDone, RecursiveTask

\* Every one of them is a task.
LEMMA TaskTypes ==
    /\ Waiters \subseteq Tasks
    /\ \A m \in Modules : RunTask(m) \in Waiters
    /\ \A p \in Paths : NextTask(p) \in Waiters
    /\ \A m \in HasAcquire : AfterAcquire(m) \in Tasks /\ AfterAcquire(m) \notin Waiters
    /\ AllPathsDone \in Tasks \ Waiters /\ RecursiveTask \in Tasks \ Waiters
<1>1. \A m : RunTask(m) \in Waiters <=> \E k \in Modules : RunTask(m) = RunTask(k)
  BY TaskNames DEF Waiters
<1>2. \A m : AfterAcquire(m) \notin Waiters
  BY TaskNames DEF Waiters
<1>3. AllPathsDone \notin Waiters /\ RecursiveTask \notin Waiters
  BY TaskNames DEF Waiters
<1> QED
  BY <1>1, <1>2, <1>3 DEF Waiters, Tasks

\* Nothing is counted in the empty set.
LEMMA AtLeastNone == AtLeast(0, {})
  BY FS_EmptySet DEF AtLeast

\* A bound of a set is a bound of its parts, and not less than nothing.
LEMMA AtLeastPart ==
    ASSUME NEW n \in Int, NEW s, NEW u, AtLeast(n, s), u \subseteq s
    PROVE  AtLeast(n, u) /\ n >= 0
<1>1. IsFiniteSet(s) /\ Cardinality(s) <= n
  BY DEF AtLeast
<1>2. IsFiniteSet(u) /\ Cardinality(u) <= Cardinality(s) /\ Cardinality(u) \in Nat
  BY <1>1, FS_Subset, FS_CardinalityType
<1>3. Cardinality(s) \in Nat
  BY <1>1, FS_CardinalityType
<1> QED
  BY <1>1, <1>2, <1>3 DEF AtLeast

\* With no reference there is no holder.
LEMMA NobodyHolds ==
    ASSUME NEW n \in Int, n <= 0, NEW s, AtLeast(n, s)
    PROVE  s = {}
<1>1. IsFiniteSet(s) /\ Cardinality(s) <= n /\ Cardinality(s) \in Nat
  BY FS_CardinalityType DEF AtLeast
<1>2. Cardinality(s) = 0
  BY <1>1
<1> QED
  BY <1>1, <1>2, FS_EmptySet

\* One more.
LEMMA AtLeastMore ==
    ASSUME NEW n \in Int, NEW s, NEW u, NEW x, AtLeast(n, s), u \subseteq s \cup {x}
    PROVE  AtLeast(n + 1, u)
<1>1. IsFiniteSet(s) /\ Cardinality(s) <= n /\ Cardinality(s) \in Nat
  BY FS_CardinalityType DEF AtLeast
<1>2. /\ IsFiniteSet(s \cup {x})
      /\ Cardinality(s \cup {x}) \in {Cardinality(s), Cardinality(s) + 1}
  BY <1>1, FS_AddElement
<1>3. AtLeast(n + 1, s \cup {x})
  BY <1>1, <1>2 DEF AtLeast
<1> QED
  BY <1>3, AtLeastPart

\* One less.
LEMMA AtLeastLess ==
    ASSUME NEW n \in Int, NEW s, NEW u, NEW x \in s, AtLeast(n, s), u \subseteq s \ {x}
    PROVE  AtLeast(n - 1, u) /\ n >= 1
<1>1. IsFiniteSet(s) /\ Cardinality(s) <= n /\ Cardinality(s) \in Nat
  BY FS_CardinalityType DEF AtLeast
<1>2. IsFiniteSet(s \ {x}) /\ Cardinality(s \ {x}) = Cardinality(s) - 1
  BY <1>1, FS_RemoveElement
<1>3. AtLeast(n - 1, s \ {x})
  BY <1>1, <1>2 DEF AtLeast
<1>4. n - 1 >= 0
  BY <1>3, AtLeastPart
<1> QED
  BY <1>3, <1>4, AtLeastPart

\* One for another.
LEMMA AtLeastMoved ==
    ASSUME NEW n \in Int, NEW s, NEW u, NEW x \in s, NEW y, AtLeast(n, s),
           u \subseteq (s \ {x}) \cup {y}
    PROVE  AtLeast(n, u)
<1>1. PICK k \in Int : k = n - 1
  OBVIOUS
<1>2. PICK r : r = s \ {x}
  OBVIOUS
<1>3. AtLeast(k, r)
  BY <1>1, <1>2, AtLeastLess
<1>4. AtLeast(k + 1, u)
  BY <1>2, <1>3, AtLeastMore
<1> QED
  BY <1>1, <1>4

\* What a step does to the calls: one ends, one becomes another, that may make
\* one, and one or two begin.
Inner(th) == <<th, Len(stack[th])>>
Above(x)  == <<x[1], x[2] + 1>>
First(th) == <<th, 1>>

Ends(x) == /\ x \in Frames /\ Frames' = Frames \ {x}
           /\ \A y \in Frames \ {x} : Call(y)' = Call(y)

Turns(x, c) == /\ x \in Frames /\ Frames' = Frames
               /\ Call(x)' = c /\ \A y \in Frames \ {x} : Call(y)' = Call(y)

TurnsAndMakes(x, c, d) ==
    /\ x \in Frames /\ Above(x) \notin Frames /\ Frames' = Frames \cup {Above(x)}
    /\ Call(x)' = c /\ Call(Above(x))' = d /\ \A y \in Frames \ {x} : Call(y)' = Call(y)

Begins(x, c) == /\ x \notin Frames /\ Frames' = Frames \cup {x}
                /\ Call(x)' = c /\ \A y \in Frames : Call(y)' = Call(y)

BeginsTwo(x, c, d) ==
    /\ x \notin Frames /\ Above(x) \notin Frames /\ Frames' = Frames \cup {x, Above(x)}
    /\ Call(x)' = c /\ Call(Above(x))' = d /\ \A y \in Frames : Call(y)' = Call(y)

\* The innermost call is in its place, and calls are calls.
LEMMA CallTypes ==
    ASSUME Types
    PROVE  /\ \A x \in Frames : Call(x) \in Calls
           /\ \A th \in Threads : ~Idle(th) =>
                 /\ Inner(th) \in Frames /\ Call(Inner(th)) = Top(th) /\ Top(th) \in Calls
                 /\ Above(Inner(th)) \notin Frames
<1>1. ASSUME NEW x \in Frames PROVE Call(x) \in Calls
  <2>1. x[1] \in Threads /\ x[2] \in Nat \ {0} /\ x[2] <= Len(stack[x[1]])
    BY DEF Frames
  <2>2. stack[x[1]] \in Seq(Calls)
    BY <2>1 DEF Types
  <2>3. Len(stack[x[1]]) + 1 - x[2] \in 1 .. Len(stack[x[1]])
    BY <2>1, <2>2, LenProperties
  <2> QED
    BY <2>2, <2>3, ElementOfSeq DEF Call
<1>2. ASSUME NEW th \in Threads, ~Idle(th)
      PROVE  /\ Inner(th) \in Frames /\ Call(Inner(th)) = Top(th) /\ Top(th) \in Calls
             /\ Above(Inner(th)) \notin Frames
  <2>1. stack[th] \in Seq(Calls) /\ stack[th] # <<>>
    BY <1>2 DEF Types, Idle
  <2>2. Len(stack[th]) \in Nat \ {0}
    BY <2>1, EmptySeq, LenProperties
  <2>3. Inner(th) \in Frames
    BY <2>2 DEF Inner, Frames
  <2>4. Call(Inner(th)) = Top(th)
    BY <2>1, <2>2 DEF Call, Inner, Top
  <2>5. Above(Inner(th)) \notin Frames
    BY <2>2 DEF Above, Inner, Frames
  <2> QED
    BY <1>1, <2>3, <2>4, <2>5
<1> QED
  BY <1>1, <1>2

\* The innermost call ends.
LEMMA CallEnds ==
    ASSUME Types, NEW th \in Threads, ~Idle(th), Become(th, <<>>), NEW f, f = Inner(th)
    PROVE  Ends(f) /\ stack' \in [Threads -> Seq(Calls)]
<1> DEFINE s == stack[th]
<1>1. s \in Seq(Calls) /\ s # <<>> /\ Len(s) \in Nat \ {0}
  BY EmptySeq, LenProperties DEF Types, Idle
<1>2. Tail(s) \in Seq(Calls) /\ Len(Tail(s)) = Len(s) - 1
      /\ \A i \in 1 .. Len(s) - 1 : Tail(s)[i] = s[i + 1]
  BY <1>1
<1>3. stack' = [stack EXCEPT ![th] = Tail(s)]
  <2>1. <<>> \o Tail(s) = Tail(s)
    BY <1>2, ConcatEmptySeq
  <2> QED
    BY <2>1 DEF Become
<1>4. stack' \in [Threads -> Seq(Calls)] /\ stack'[th] = Tail(s)
      /\ \A x \in Threads \ {th} : stack'[x] = stack[x]
  BY <1>2, <1>3 DEF Types
<1>5. Frames' = Frames \ {Inner(th)}
  <2>1. ASSUME NEW x \in Threads \X (Nat \ {0})
        PROVE  x[2] <= Len(stack'[x[1]]) <=> x[2] <= Len(stack[x[1]]) /\ x # Inner(th)
    <3>1. CASE x[1] = th
      <4>1. x = Inner(th) <=> x[2] = Len(s)
        BY <3>1 DEF Inner
      <4> QED
        BY <1>1, <1>2, <1>4, <3>1, <4>1
    <3>2. CASE x[1] # th
      BY <1>4, <3>2 DEF Inner
    <3> QED
      BY <3>1, <3>2
  <2> QED
    BY <2>1 DEF Frames
<1>6. ASSUME NEW y \in Frames \ {Inner(th)} PROVE Call(y)' = Call(y)
  <2>1. y[1] \in Threads /\ y[2] \in Nat \ {0} /\ y[2] <= Len(stack[y[1]]) /\ y = <<y[1], y[2]>>
    BY DEF Frames
  <2>2. CASE y[1] = th
    <3>1. y[2] # Len(s)
      BY <2>1, <2>2 DEF Inner
    <3>2. y[2] \in 1 .. Len(s) - 1 /\ Len(Tail(s)) + 1 - y[2] \in 1 .. Len(s) - 1
          /\ Len(Tail(s)) + 1 - y[2] + 1 = Len(s) + 1 - y[2]
      BY <1>1, <1>2, <2>1, <2>2, <3>1
    <3> QED
      BY <1>2, <1>4, <2>2, <3>2 DEF Call
  <2>3. CASE y[1] # th
    BY <1>4, <2>1, <2>3 DEF Call
  <2> QED
    BY <2>2, <2>3
<1> QED
  BY <1>4, <1>5, <1>6, CallTypes DEF Ends

\* The calls of a thread become those of u, of which the k outermost are old.
Restacks(th, u, k) ==
    /\ u \in Seq(Calls) /\ k \in Nat /\ k <= Len(stack[th]) /\ k <= Len(u)
    /\ stack' = [stack EXCEPT ![th] = u]
    /\ \A j \in 1 .. k : u[Len(u) + 1 - j] = stack[th][Len(stack[th]) + 1 - j]

Restacked(th, u, k) ==
    /\ stack' \in [Threads -> Seq(Calls)]
    /\ \A x \in Threads \X (Nat \ {0}) :
          x \in Frames' <=> IF x[1] = th THEN x[2] <= Len(u) ELSE x \in Frames
    /\ \A x \in Frames : x[1] # th \/ x[2] <= k => Call(x)' = Call(x)
    /\ \A j \in 1 .. Len(u) : Call(<<th, j>>)' = u[Len(u) + 1 - j]

\* Then those stay where they are.
LEMMA OuterStay ==
    ASSUME Types, NEW th \in Threads, NEW u, NEW k, Restacks(th, u, k)
    PROVE  Restacked(th, u, k)
<1> USE DEF Restacks
<1>1. stack' \in [Threads -> Seq(Calls)] /\ stack'[th] = u
      /\ \A x \in Threads \ {th} : stack'[x] = stack[x]
  BY DEF Types
<1>2. ASSUME NEW x \in Threads \X (Nat \ {0})
      PROVE  x \in Frames' <=> IF x[1] = th THEN x[2] <= Len(u) ELSE x \in Frames
  BY <1>1 DEF Frames
<1>3. ASSUME NEW x \in Frames, x[1] # th \/ x[2] <= k
      PROVE  Call(x)' = Call(x)
  <2>1. x[1] \in Threads /\ x[2] \in Nat \ {0} /\ x[2] <= Len(stack[x[1]])
    BY DEF Frames
  <2>2. CASE x[1] # th
    BY <1>1, <2>1, <2>2 DEF Call
  <2>3. CASE x[1] = th
    <3>1. x[2] \in 1 .. k
      BY <1>3, <2>1, <2>3
    <3>2. u[Len(u) + 1 - x[2]] = stack[th][Len(stack[th]) + 1 - x[2]]
      BY <3>1
    <3> QED
      BY <1>1, <2>3, <3>2 DEF Call
  <2> QED
    BY <2>2, <2>3
<1>4. \A j \in 1 .. Len(u) : Call(<<th, j>>)' = u[Len(u) + 1 - j]
  BY <1>1 DEF Call
<1> QED
  BY <1>1, <1>2, <1>3, <1>4 DEF Restacked

\* The innermost call becomes another.
LEMMA CallTurns ==
    ASSUME Types, NEW th \in Threads, ~Idle(th), NEW c \in Calls, Become(th, <<c>>),
           NEW f, f = Inner(th)
    PROVE  Turns(f, c) /\ stack' \in [Threads -> Seq(Calls)]
<1>1. PICK s : s = stack[th]
  OBVIOUS
<1>2. s \in Seq(Calls) /\ s # <<>> /\ Len(s) \in Nat \ {0}
  BY <1>1, EmptySeq, LenProperties DEF Types, Idle
<1>3. PICK r : r = Tail(s)
  OBVIOUS
<1>4. r \in Seq(Calls) /\ Len(r) = Len(s) - 1 /\ \A i \in 1 .. Len(r) : r[i] = s[i + 1]
  BY <1>2, <1>3
<1>5. PICK u : u = <<c>> \o r
  OBVIOUS
<1>6. u \in Seq(Calls) /\ Len(u) = Len(s) /\ u[1] = c /\ \A i \in 2 .. Len(s) : u[i] = s[i]
  <2>1. <<c>> \in Seq(Calls) /\ Len(<<c>>) = 1 /\ <<c>>[1] = c
    OBVIOUS
  <2>2. /\ u \in Seq(Calls) /\ Len(u) = 1 + Len(r)
        /\ \A i \in 1 .. 1 + Len(r) : u[i] = IF i <= 1 THEN <<c>>[i] ELSE r[i - 1]
    BY <1>4, <1>5, <2>1, ConcatProperties
  <2>3. ASSUME NEW i \in 2 .. Len(s) PROVE u[i] = s[i]
    <3>1. i - 1 \in 1 .. Len(r) /\ (i - 1) + 1 = i /\ i \in 1 .. 1 + Len(r) /\ ~(i <= 1)
      BY <1>2, <1>4
    <3> QED
      BY <1>4, <2>2, <3>1
  <2>4. 1 \in 1 .. 1 + Len(r) /\ 1 + Len(r) = Len(s)
    BY <1>2, <1>4
  <2>5. u[1] = c
    BY <2>1, <2>2, <2>4
  <2> QED
    BY <2>2, <2>3, <2>4, <2>5
<1>7. stack' = [stack EXCEPT ![th] = u]
  BY <1>1, <1>3, <1>5 DEF Become
<1>8. \A j \in 1 .. Len(s) - 1 : u[Len(u) + 1 - j] = s[Len(s) + 1 - j]
  BY <1>2, <1>6
<1>9. Restacked(th, u, Len(s) - 1)
  <2>1. Restacks(th, u, Len(s) - 1)
    BY <1>1, <1>2, <1>6, <1>7, <1>8 DEF Restacks
  <2> QED
    BY <2>1, OuterStay
<1>10. Frames' = Frames
  BY <1>1, <1>6, <1>9 DEF Frames, Restacked
<1>11. Call(f)' = c
  <2>1. Len(s) \in 1 .. Len(u) /\ Call(<<th, Len(s)>>)' = u[Len(u) + 1 - Len(s)]
        /\ Len(u) + 1 - Len(s) = 1
    BY <1>2, <1>6, <1>9 DEF Restacked
  <2> QED
    BY <1>1, <1>6, <2>1 DEF Inner
<1>12. ASSUME NEW y \in Frames \ {f} PROVE Call(y)' = Call(y)
  <2>1. y[1] = th => y[2] <= Len(s) - 1
    BY <1>1, <1>2 DEF Frames, Inner
  <2> QED
    BY <1>9, <2>1 DEF Restacked
<1> QED
  BY <1>9, <1>10, <1>11, <1>12, CallTypes DEF Turns, Restacked

\* ... and makes one.
LEMMA CallMakes ==
    ASSUME Types, NEW th \in Threads, ~Idle(th), NEW c \in Calls, NEW d \in Calls,
           Become(th, <<d, c>>), NEW f, f = Inner(th)
    PROVE  TurnsAndMakes(f, c, d) /\ stack' \in [Threads -> Seq(Calls)]
<1>1. PICK s : s = stack[th]
  OBVIOUS
<1>2. s \in Seq(Calls) /\ s # <<>> /\ Len(s) \in Nat \ {0}
  BY <1>1, EmptySeq, LenProperties DEF Types, Idle
<1>3. PICK r : r = Tail(s)
  OBVIOUS
<1>4. r \in Seq(Calls) /\ Len(r) = Len(s) - 1 /\ \A i \in 1 .. Len(r) : r[i] = s[i + 1]
  BY <1>2, <1>3
<1>5. PICK u : u = <<d, c>> \o r
  OBVIOUS
<1>6. /\ u \in Seq(Calls) /\ Len(u) = Len(s) + 1 /\ u[1] = d /\ u[2] = c
      /\ \A i \in 2 .. Len(s) : u[i + 1] = s[i]
  <2>1. <<d, c>> \in Seq(Calls) /\ Len(<<d, c>>) = 2 /\ <<d, c>>[1] = d /\ <<d, c>>[2] = c
    OBVIOUS
  <2>2. /\ u \in Seq(Calls) /\ Len(u) = 2 + Len(r)
        /\ \A i \in 1 .. 2 + Len(r) : u[i] = IF i <= 2 THEN <<d, c>>[i] ELSE r[i - 2]
    BY <1>4, <1>5, <2>1, ConcatProperties
  <2>3. ASSUME NEW i \in 2 .. Len(s) PROVE u[i + 1] = s[i]
    <3>1. i - 1 \in 1 .. Len(r) /\ (i - 1) + 1 = i /\ i + 1 \in 1 .. 2 + Len(r)
          /\ ~(i + 1 <= 2) /\ (i + 1) - 2 = i - 1
      BY <1>2, <1>4
    <3> QED
      BY <1>4, <2>2, <3>1
  <2>4. Len(r) \in Nat
    BY <1>2, <1>4
  <2>5. u[1] = d /\ u[2] = c /\ Len(u) = Len(s) + 1
    BY <1>2, <1>4, <2>1, <2>2, <2>4
  <2> QED
    BY <2>2, <2>3, <2>5
<1>7. stack' = [stack EXCEPT ![th] = u]
  BY <1>1, <1>3, <1>5 DEF Become
<1>8. \A j \in 1 .. Len(s) - 1 : u[Len(u) + 1 - j] = s[Len(s) + 1 - j]
  <2> SUFFICES ASSUME NEW j \in 1 .. Len(s) - 1
               PROVE  u[Len(u) + 1 - j] = s[Len(s) + 1 - j]
    OBVIOUS
  <2>1. Len(s) + 1 - j \in 2 .. Len(s) /\ (Len(s) + 1 - j) + 1 = Len(u) + 1 - j
    BY <1>2, <1>6
  <2> QED
    BY <1>6, <2>1
<1>9. Restacked(th, u, Len(s) - 1)
  <2>1. Restacks(th, u, Len(s) - 1)
    BY <1>1, <1>2, <1>6, <1>7, <1>8 DEF Restacks
  <2> QED
    BY <2>1, OuterStay
<1>10. Frames' = Frames \cup {Above(f)}
  BY <1>1, <1>2, <1>6, <1>9 DEF Frames, Above, Inner, Restacked
<1>11. Call(f)' = c /\ Call(Above(f))' = d
  <2>1. Call(<<th, Len(s)>>)' = u[Len(u) + 1 - Len(s)] /\ Len(u) + 1 - Len(s) = 2
    BY <1>2, <1>6, <1>9 DEF Restacked
  <2>2. PICK k \in 1 .. Len(u) : k = Len(s) + 1 /\ Len(u) + 1 - k = 1
    BY <1>2, <1>6
  <2>3. Call(<<th, k>>)' = u[1]
    BY <2>2, <1>9 DEF Restacked
  <2> QED
    BY <1>1, <1>6, <2>1, <2>2, <2>3 DEF Inner, Above
<1>12. ASSUME NEW y \in Frames \ {f} PROVE Call(y)' = Call(y)
  <2>1. y[1] = th => y[2] <= Len(s) - 1
    BY <1>1, <1>2 DEF Frames, Inner
  <2> QED
    BY <1>9, <2>1 DEF Restacked
<1> QED
  BY <1>9, <1>10, <1>11, <1>12, CallTypes DEF TurnsAndMakes, Restacked

\* An idle thread begins a call ..
LEMMA CallBegins ==
    ASSUME Types, NEW th \in Threads, Idle(th), NEW c \in Calls, Begin(th, <<c>>)
    PROVE  Begins(First(th), c) /\ stack' \in [Threads -> Seq(Calls)]
<1>1. PICK u : u = <<c>>
  OBVIOUS
<1>2. u \in Seq(Calls) /\ Len(u) = 1 /\ u[1] = c /\ Len(stack[th]) = 0
  BY <1>1 DEF Idle
<1>3. stack' = [stack EXCEPT ![th] = u]
  BY <1>1 DEF Begin
<1>4. \A j \in 1 .. 0 : u[Len(u) + 1 - j] = stack[th][Len(stack[th]) + 1 - j]
  OBVIOUS
<1>5. Restacked(th, u, 0)
  <2>1. Restacks(th, u, 0)
    BY <1>2, <1>3, <1>4 DEF Restacks
  <2> QED
    BY <2>1, OuterStay
<1>6. \A x \in Frames : x[1] # th
  BY <1>2 DEF Frames
<1>7. Frames' = Frames \cup {First(th)} /\ First(th) \notin Frames
  BY <1>2, <1>5, <1>6 DEF Frames, First, Restacked
<1>8. Call(First(th))' = c
  <2>1. Call(<<th, 1>>)' = u[Len(u) + 1 - 1] /\ Len(u) + 1 - 1 = 1
    BY <1>2, <1>5 DEF Restacked
  <2> QED
    BY <1>2, <2>1 DEF First, Call
<1> QED
  BY <1>5, <1>6, <1>7, <1>8 DEF Begins, Restacked

\* ... or two.
LEMMA CallsBegin ==
    ASSUME Types, NEW th \in Threads, Idle(th), NEW c \in Calls, NEW d \in Calls,
           Begin(th, <<d, c>>)
    PROVE  BeginsTwo(First(th), c, d) /\ stack' \in [Threads -> Seq(Calls)]
<1>1. PICK u : u = <<d, c>>
  OBVIOUS
<1>2. u \in Seq(Calls) /\ Len(u) = 2 /\ u[1] = d /\ u[2] = c /\ Len(stack[th]) = 0
  BY <1>1 DEF Idle
<1>3. stack' = [stack EXCEPT ![th] = u]
  BY <1>1 DEF Begin
<1>4. \A j \in 1 .. 0 : u[Len(u) + 1 - j] = stack[th][Len(stack[th]) + 1 - j]
  OBVIOUS
<1>5. Restacked(th, u, 0)
  <2>1. Restacks(th, u, 0)
    BY <1>2, <1>3, <1>4 DEF Restacks
  <2> QED
    BY <2>1, OuterStay
<1>6. \A x \in Frames : x[1] # th
  BY <1>2 DEF Frames
<1>7. Frames' = Frames \cup {First(th), Above(First(th))}
      /\ First(th) \notin Frames /\ Above(First(th)) \notin Frames
  BY <1>2, <1>5, <1>6 DEF Frames, First, Above, Restacked
<1>8. Call(First(th))' = c /\ Call(Above(First(th)))' = d
  <2>1. Call(<<th, 1>>)' = u[Len(u) + 1 - 1] /\ Len(u) + 1 - 1 = 2
    BY <1>2, <1>5 DEF Restacked
  <2>2. Call(<<th, 2>>)' = u[Len(u) + 1 - 2] /\ Len(u) + 1 - 2 = 1
    BY <1>2, <1>5 DEF Restacked
  <2> QED
    BY <1>2, <2>1, <2>2 DEF First, Above, Call
<1> QED
  BY <1>5, <1>6, <1>7, <1>8 DEF BeginsTwo, Restacked

-----------------------------------------------------------------------------
(* What the steps that only pass references on have in common. *)

\* The calls that say where a module, a path or the stream is.
Placed == {"acquire", "work", "fail", "filter", "paths", "handle"}

\* The calls that say where something is are the same.
SamePlaces == \A op \in Placed : /\ Having(op)' = Having(op)
                                 /\ \A x \in Having(op) : Call(x)' = Call(x)

\* A step of a call that is in no such place leaves them the same.
LEMMA PlacesStay ==
    ASSUME NEW f, NEW c, NEW d, Call(f).op \notin Placed, c.op \notin Placed, d.op \notin Placed,
           Ends(f) \/ Turns(f, c) \/ TurnsAndMakes(f, c, d)
    PROVE  SamePlaces
<1> SUFFICES ASSUME NEW op \in Placed
             PROVE  /\ \A x : x \in Having(op)' <=> x \in Having(op)
                    /\ \A x \in Having(op) : Call(x)' = Call(x)
  BY DEF SamePlaces
<1>1. CASE Ends(f)
  BY <1>1 DEF Ends, Having
<1>2. CASE Turns(f, c)
  BY <1>2 DEF Turns, Having
<1>3. CASE TurnsAndMakes(f, c, d)
  BY <1>3 DEF TurnsAndMakes, Having
<1> QED
  BY <1>1, <1>2, <1>3

\* What a call of each kind has.
LEMMA CallParts ==
    ASSUME NEW c \in Calls
    PROVE  /\ c.op \in {"add", "insert"} => c.mod \in Modules /\ c.task \in Waiters
           /\ c.op \in {"recheck", "start", "announce"} => c.mod \in Modules
           /\ c.op = "prefetch" => c.mod \in Modules /\ c.rest \in Seq(Producers)
           /\ c.op = "tell" => c.mod \in Modules /\ c.batch \in (SUBSET Waiters) \ {{}}
           /\ c.op \in {"work", "fail"} => c.mod \in Modules
           /\ c.op = "acquire" => c.mod \in HasAcquire
           /\ c.op = "paths" => c.rest \in Seq(Paths)
           /\ c.op = "filter" => c.path \in Paths /\ PathFilters[c.path] # <<>>
  BY DEF Calls, QueueCalls

\* And of what they are made.
LEMMA CallsMade ==
    /\ Handle \in Calls
    /\ \A r \in Seq(Paths) : RunPaths(r) \in Calls
    /\ \A p \in Paths : PathFilters[p] # <<>> => RunFilter(p) \in Calls
    /\ \A m \in Modules, t \in Waiters : Add(m, t) \in Calls /\ Insert(m, t) \in Calls
    /\ \A m \in Modules : Recheck(m) \in Calls /\ Start(m) \in Calls /\ Announce(m) \in Calls
    /\ \A m \in Modules, r \in Seq(Producers) : Prefetch(m, r) \in Calls
    /\ \A m \in Modules, b \in (SUBSET Waiters) \ {{}} : Tell(m, b) \in Calls
    /\ \A q \in Range(RunQueue) : Serve(q) \in Calls
    /\ \A m \in Modules : Work(m) \in QueueCalls /\ Fail(m) \in QueueCalls
    /\ \A m \in HasAcquire : Acquire(m) \in QueueCalls
    /\ QueueCalls \subseteq Calls
  BY DEF Handle, RunPaths, RunFilter, Add, Insert, Recheck, Start, Announce, Prefetch, Tell,
         Serve, Work, Fail, Acquire, Calls, QueueCalls

\* With the same places and tasks everything is where it was.
LEMMA PlacesKept ==
    ASSUME SamePlaces, UNCHANGED <<refCount, ready, pushed, outside>>
    PROVE  /\ \A m \in Modules : Stages(m)' = Stages(m)
           /\ \A p \in Paths : PathPlaces(p)' = PathPlaces(p)
           /\ PathHolders' = PathHolders /\ StreamPlaces' = StreamPlaces
<1>1. \A m \in Modules : Running(m)' = Running(m)
  BY DEF SamePlaces, Placed, Running
<1>2. \A p \in Paths : FiltersOf(p)' = FiltersOf(p)
  BY DEF SamePlaces, Placed, FiltersOf
<1>3. Having("paths")' = Having("paths") /\ Having("handle")' = Having("handle")
  BY DEF SamePlaces, Placed
<1>4. \A p \in Paths : PathPlaces(p)' = PathPlaces(p)
  BY <1>2 DEF PathPlaces
<1>5. PathHolders' = PathHolders
  BY <1>3, <1>4 DEF PathHolders
<1> QED
  BY <1>1, <1>3, <1>4, <1>5 DEF Stages, StreamPlaces

\* The parts about places hold on when places and tasks stay.
LEMMA PlacesInOrder ==
    ASSUME IndInv, SamePlaces, UNCHANGED <<refCount, ready, pushed, outside, m_workStarted,
                                           m_waiting, m_wasCached, m_seenEvents>>
    PROVE  OneStage' /\ PathsInOrder' /\ OneEvent' /\ DataThere'
<1>1. OneStage'
  BY PlacesKept DEF IndInv, OneStage
<1>2. PathsInOrder'
  <2>1. Having("paths")' = Having("paths") /\ \A x \in Having("paths") : Call(x)' = Call(x)
    BY DEF SamePlaces, Placed
  <2> QED
    BY PlacesKept, <2>1 DEF IndInv, PathsInOrder
<1>3. OneEvent'
  BY PlacesKept DEF IndInv, OneEvent
<1>4. DataThere'
  <2>1. \A op \in {"acquire", "work"} : /\ Having(op)' = Having(op)
                                        /\ \A x \in Having(op) : Call(x)' = Call(x)
    BY DEF SamePlaces, Placed
  <2>2. \A m : HasData(m)' = HasData(m)
    BY DEF HasData
  <2> QED
    BY <2>1, <2>2 DEF IndInv, DataThere, Having
<1> QED
  BY <1>1, <1>2, <1>3, <1>4

\* What is in the sets of places.
LEMMA InPlaces ==
    /\ \A m : /\ <<"asks", m>> \in Stages(m) <=> refCount[RunTask(m)] > 0
              /\ <<"ready", m>> \in Stages(m) <=> RunTask(m) \in ready
              /\ <<"outside", m>> \in Stages(m) <=> m \in outside
              /\ <<"acquired", m>> \in Stages(m) <=> m \in HasAcquire /\ AfterAcquire(m) \in ready
              /\ \A c : <<"pushed", c>> \in Stages(m) <=> c \in pushed /\ c.mod = m
              /\ \A x : <<"runs", x>> \in Stages(m) <=> x \in Running(m)
    /\ \A p : /\ <<"asks", p>> \in PathPlaces(p) <=> refCount[NextTask(p)] > 0
              /\ <<"ready", p>> \in PathPlaces(p) <=> NextTask(p) \in ready
              /\ \A x : <<"begins", x>> \in PathPlaces(p) <=> x \in FiltersOf(p)
<1>1. ASSUME NEW m
      PROVE  /\ <<"asks", m>> \in Stages(m) <=> refCount[RunTask(m)] > 0
             /\ <<"ready", m>> \in Stages(m) <=> RunTask(m) \in ready
             /\ <<"outside", m>> \in Stages(m) <=> m \in outside
             /\ <<"acquired", m>> \in Stages(m) <=> m \in HasAcquire /\ AfterAcquire(m) \in ready
             /\ \A c : <<"pushed", c>> \in Stages(m) <=> c \in pushed /\ c.mod = m
             /\ \A x : <<"runs", x>> \in Stages(m) <=> x \in Running(m)
  BY DEF Stages
<1>2. ASSUME NEW p
      PROVE  /\ <<"asks", p>> \in PathPlaces(p) <=> refCount[NextTask(p)] > 0
             /\ <<"ready", p>> \in PathPlaces(p) <=> NextTask(p) \in ready
             /\ \A x : <<"begins", x>> \in PathPlaces(p) <=> x \in FiltersOf(p)
  BY DEF PathPlaces
<1> QED
  BY <1>1, <1>2

\* What is in one place is in no other.
LEMMA OneOfPlaces ==
    /\ \A m : <<"asks", m>> \in Stages(m) /\ (\A s, u \in Stages(m) : s = u) =>
          /\ RunTask(m) \notin ready /\ m \notin outside /\ Running(m) = {}
          /\ \A c \in pushed : c.mod # m
          /\ m \in HasAcquire => AfterAcquire(m) \notin ready
    /\ \A p : <<"asks", p>> \in PathPlaces(p) /\ (\A s, u \in PathPlaces(p) : s = u) =>
          NextTask(p) \notin ready /\ FiltersOf(p) = {}
<1>1. ASSUME NEW m, <<"asks", m>> \in Stages(m), \A s, u \in Stages(m) : s = u
      PROVE  /\ RunTask(m) \notin ready /\ m \notin outside /\ Running(m) = {}
             /\ \A c \in pushed : c.mod # m
             /\ m \in HasAcquire => AfterAcquire(m) \notin ready
  <2>1. \A s \in Stages(m) : s = <<"asks", m>>
    BY <1>1
  <2>2. <<"ready", m>> # <<"asks", m>> /\ <<"outside", m>> # <<"asks", m>>
        /\ <<"acquired", m>> # <<"asks", m>>
        /\ \A x : <<"pushed", x>> # <<"asks", m>> /\ <<"runs", x>> # <<"asks", m>>
    OBVIOUS
  <2>3. <<"ready", m>> \notin Stages(m) /\ <<"outside", m>> \notin Stages(m)
        /\ <<"acquired", m>> \notin Stages(m)
        /\ \A x : <<"pushed", x>> \notin Stages(m) /\ <<"runs", x>> \notin Stages(m)
    BY <2>1, <2>2
  <2> QED
    BY <2>3, InPlaces
<1>2. ASSUME NEW p, <<"asks", p>> \in PathPlaces(p), \A s, u \in PathPlaces(p) : s = u
      PROVE  NextTask(p) \notin ready /\ FiltersOf(p) = {}
  <2>1. \A s \in PathPlaces(p) : s = <<"asks", p>>
    BY <1>2
  <2>2. <<"ready", p>> # <<"asks", p>> /\ \A x : <<"begins", x>> # <<"asks", p>>
    OBVIOUS
  <2>3. <<"ready", p>> \notin PathPlaces(p) /\ \A x : <<"begins", x>> \notin PathPlaces(p)
    BY <2>1, <2>2
  <2> QED
    BY <2>3, InPlaces
<1> QED
  BY <1>1, <1>2

\* Who waits for a producer has the task that will run then.
LEMMA WaitersHold ==
    ASSUME NEW m, NEW n \in Modules, NEW x
    PROVE  /\ WaitsFor(x, m, n) => x \in Holders(RunTask(m))
           /\ (WaitsFor(x, m, n) => x \in Holders(RunTask(m)))'
  BY DEF WaitsFor, Holders, Holds

\* What a module gets, it gets from modules.
LEMMA GetsTypes == \A m \in Modules : Range(Gets[m]) \subseteq Producers
  BY ScheduleAssumption, RangeOfSeq

\* References are passed on: of each task one at most goes from a holder to
\* another.  Nobody stops waiting for a producer.
PassedOn ==
    /\ \A t \in Waiters :
          \/ Holders(t)' \subseteq Holders(t)
          \/ \E x \in Holders(t), y \in Frames' \cup (Modules \X {0}) :
                Holders(t)' \subseteq (Holders(t) \ {x}) \cup {y}
    /\ \A m \in Modules, n \in Producers : \A x \in Holders(RunTask(m)) :
          WaitsFor(x, m, n) => \E y \in Holders(RunTask(m))' : WaitsFor(y, m, n)'

\* Then references are still counted, and what was asked for is still to come.
LEMMA ReferencesPassed ==
    ASSUME IndInv, PassedOn, UNCHANGED <<tasks, outside, m_waiting, m_wasCached>>
    PROVE  Counted' /\ Prefetched'
<1> USE DEF tasks
<1>1. ASSUME NEW t \in Waiters PROVE AtLeast(refCount[t], Holders(t)')
  <2>1. AtLeast(refCount[t], Holders(t)) /\ refCount[t] \in Int
    BY TaskTypes DEF IndInv, Counted, Types
  <2>2. CASE Holders(t)' \subseteq Holders(t)
    BY <2>1, <2>2, AtLeastPart
  <2>3. CASE \E x \in Holders(t), y \in Frames' \cup (Modules \X {0}) :
                Holders(t)' \subseteq (Holders(t) \ {x}) \cup {y}
    <3>1. PICK x \in Holders(t), y \in Frames' \cup (Modules \X {0}) :
             Holders(t)' \subseteq (Holders(t) \ {x}) \cup {y}
      BY <2>3
    <3>2. PICK held : held = Holders(t)
      OBVIOUS
    <3>3. PICK heldThen : heldThen = Holders(t)'
      OBVIOUS
    <3>4. PICK count \in Int : count = refCount[t]
      BY <2>1
    <3>5. AtLeast(count, held) /\ x \in held /\ heldThen \subseteq (held \ {x}) \cup {y}
      BY <2>1, <3>1, <3>2, <3>3, <3>4
    <3>6. AtLeast(count, heldThen)
      BY <3>5, AtLeastMoved
    <3> QED
      BY <3>3, <3>4, <3>6
  <2> QED
    BY <2>2, <2>3 DEF PassedOn
<1>2. Counted'
  BY <1>1 DEF IndInv, Counted, AtLeast
<1>3. Prefetched'
  <2> SUFFICES ASSUME NEW m \in Modules, NEW n \in Range(Gets[m])
               PROVE  (/\ refCount[RunTask(m)] > 0 =>
                             Answered(m, n) \/ \E x \in Holders(RunTask(m)) : WaitsFor(x, m, n)
                       /\ RunTask(m) \in ready => Answered(m, n))'
    BY DEF Prefetched
  <2>1. n \in Producers
    BY GetsTypes
  <2>2. Answered(m, n)' <=> Answered(m, n)
    BY DEF Answered
  <2>3. CASE Answered(m, n)
    BY <2>2, <2>3
  <2>4. CASE ~Answered(m, n)
    <3>1. RunTask(m) \notin ready
      BY <2>4 DEF IndInv, Prefetched
    <3>2. refCount[RunTask(m)] > 0 => \E x \in Holders(RunTask(m)) : WaitsFor(x, m, n)
      BY <2>4 DEF IndInv, Prefetched
    <3>3. refCount[RunTask(m)] > 0 => \E y \in Holders(RunTask(m))' : WaitsFor(y, m, n)'
      BY <2>1, <3>2 DEF PassedOn
    <3> QED
      BY <3>1, <3>3
  <2> QED
    BY <2>3, <2>4
<1> QED
  BY <1>2, <1>3

\* A reference to t goes, and those who waited for it have an answer.
LetsGo(t) ==
    /\ \E x \in Holders(t) : Holders(t)' \subseteq Holders(t) \ {x}
    /\ \A u \in Waiters \ {t} : Holders(u)' \subseteq Holders(u)
    /\ \A m \in Modules, n \in Producers : \A x \in Holders(RunTask(m)) :
          WaitsFor(x, m, n) =>
              \/ t = RunTask(m) /\ Answered(m, n)'
              \/ \E y \in Holders(RunTask(m))' : WaitsFor(y, m, n)'

\* The last reference makes the task ready.
LEMMA Released ==
    ASSUME Types, NEW t \in Tasks, NEW e \in BOOLEAN, Release(t, e)
    PROVE  /\ refCount' \in [Tasks -> Int] /\ except' \in [Tasks -> BOOLEAN] /\ ready' \subseteq Tasks
           /\ refCount'[t] = refCount[t] - 1
           /\ \A u \in Tasks \ {t} : refCount'[u] = refCount[u] /\ except'[u] = except[u]
           /\ e => except'[t]
           /\ \A u \in Tasks : except[u] => except'[u]
           /\ \A u : u \in ready' <=> u \in ready \/ (u = t /\ refCount[t] = 1)
<1>1. refCount' = [refCount EXCEPT ![t] = refCount[t] - 1]
  BY DEF Release
<1>2. refCount \in [Tasks -> Int] /\ ready \subseteq Tasks /\ except \in [Tasks -> BOOLEAN]
  BY DEF Types
<1>3. ready' = IF refCount[t] = 1 THEN ready \cup {t} ELSE ready
  BY DEF Release
<1>4. except' = [except EXCEPT ![t] = except[t] \/ e]
  BY DEF Release
<1>5. PICK b \in BOOLEAN : b <=> (except[t] \/ e)
  OBVIOUS
<1>6. except' = [except EXCEPT ![t] = b]
  <2>1. except[t] \in BOOLEAN
    BY <1>2
  <2>2. b = (except[t] \/ e)
    BY <1>5, <2>1
  <2> QED
    BY <1>4, <2>2
<1>7. except' \in [Tasks -> BOOLEAN] /\ except'[t] = b
      /\ \A u \in Tasks \ {t} : except'[u] = except[u]
  BY <1>2, <1>6
<1> QED
  BY <1>1, <1>2, <1>3, <1>5, <1>7

\* What holds on when a reference to a RunModuleTask or a NextFilterTask goes.
LEMMA ReferenceGone ==
    ASSUME IndInv, NEW t \in Waiters, NEW e \in BOOLEAN, LetsGo(t), Release(t, e), SamePlaces,
           UNCHANGED <<pushed, outside, m_workStarted, m_waiting, m_wasCached, m_seenEvents>>
    PROVE  /\ Counted' /\ OneStage' /\ PathsInOrder' /\ OneEvent' /\ Prefetched' /\ DataThere'
           /\ refCount' \in [Tasks -> Int] /\ except' \in [Tasks -> BOOLEAN] /\ ready' \subseteq Tasks
<1>1. /\ refCount' \in [Tasks -> Int] /\ except' \in [Tasks -> BOOLEAN] /\ ready' \subseteq Tasks
      /\ refCount'[t] = refCount[t] - 1
      /\ \A u \in Tasks \ {t} : refCount'[u] = refCount[u] /\ except'[u] = except[u]
      /\ \A u \in Tasks : except[u] => except'[u]
      /\ \A u : u \in ready' <=> u \in ready \/ (u = t /\ refCount[t] = 1)
  BY Released, TaskTypes DEF IndInv
<1>2. \A u \in Waiters : AtLeast(refCount[u], Holders(u)) /\ refCount[u] \in Int
  BY TaskTypes DEF IndInv, Counted, Types
<1>3. AtLeast(refCount[t] - 1, Holders(t)') /\ refCount[t] >= 1
  BY <1>2, AtLeastLess DEF LetsGo
<1>4. ASSUME NEW u \in Waiters PROVE AtLeast(refCount'[u], Holders(u)')
  <2>1. CASE u = t
    BY <1>1, <1>3, <2>1
  <2>2. CASE u # t
    <3>1. refCount'[u] = refCount[u] /\ Holders(u)' \subseteq Holders(u)
      BY <1>1, <2>2, TaskTypes DEF LetsGo
    <3> QED
      BY <1>2, <3>1, AtLeastPart
  <2> QED
    BY <2>1, <2>2
<1>5. Counted'
  <2>1. \A m \in HasAcquire : AfterAcquire(m) \in Tasks \ {t}
    BY TaskTypes
  <2> QED
    BY <1>1, <1>4, <2>1 DEF IndInv, Counted, AtLeast
<1>6. /\ \A m \in Modules : Running(m)' = Running(m)
      /\ \A p \in Paths : FiltersOf(p)' = FiltersOf(p)
      /\ Having("paths")' = Having("paths") /\ Having("handle")' = Having("handle")
      /\ \A x \in Having("paths") : Call(x)' = Call(x)
  BY DEF SamePlaces, Placed, Running, FiltersOf
<1>7. ASSUME NEW m \in Modules
      PROVE  /\ \A s, u \in Stages(m)' : s = u
             /\ Stages(m)' # {} => Stages(m) # {}
  <2>1. \A s, u \in Stages(m) : s = u
    BY DEF IndInv, OneStage
  <2>2. m \in HasAcquire => (AfterAcquire(m) \in ready' <=> AfterAcquire(m) \in ready)
    BY <1>1, TaskTypes
  <2>3. CASE t # RunTask(m)
    <3>1. refCount'[RunTask(m)] = refCount[RunTask(m)]
      BY <1>1, <2>3, TaskTypes
    <3>2. RunTask(m) \in ready' <=> RunTask(m) \in ready
      BY <1>1, <2>3
    <3>3. Stages(m)' = Stages(m)
      BY <1>6, <2>2, <3>1, <3>2 DEF Stages
    <3> QED
      BY <2>1, <3>3
  <2>4. CASE t = RunTask(m)
    <3>1. <<"asks", m>> \in Stages(m)
      BY <1>2, <1>3, <2>4 DEF Stages
    <3>3. RunTask(m) \notin ready /\ m \notin outside /\ Running(m) = {}
          /\ {c \in pushed : c.mod = m} = {}
          /\ (m \in HasAcquire => AfterAcquire(m) \notin ready)
      BY <2>1, <3>1, OneOfPlaces
    <3>4. RunTask(m) \in ready' <=> refCount'[RunTask(m)] = 0
      BY <1>1, <1>2, <2>4, <3>3
    <3>5. Stages(m)' = {s \in {<<"asks", m>>} : refCount'[RunTask(m)] > 0}
                          \cup {s \in {<<"ready", m>>} : refCount'[RunTask(m)] = 0}
      BY <1>6, <2>2, <3>3, <3>4 DEF Stages
    <3>6. ~(refCount'[RunTask(m)] > 0 /\ refCount'[RunTask(m)] = 0)
      OBVIOUS
    <3> QED
      BY <3>1, <3>5, <3>6
  <2> QED
    BY <2>3, <2>4
<1>8. OneStage'
  BY <1>7 DEF IndInv, OneStage
<1>9. ASSUME NEW p \in Paths
      PROVE  /\ \A s, u \in PathPlaces(p)' : s = u
             /\ PathPlaces(p)' # {} <=> PathPlaces(p) # {}
  <2>1. \A s, u \in PathPlaces(p) : s = u
    BY DEF IndInv, PathsInOrder
  <2>2. CASE t # NextTask(p)
    <3>1. refCount'[NextTask(p)] = refCount[NextTask(p)]
      BY <1>1, <2>2, TaskTypes
    <3>2. NextTask(p) \in ready' <=> NextTask(p) \in ready
      BY <1>1, <2>2
    <3>3. PathPlaces(p)' = PathPlaces(p)
      BY <1>6, <3>1, <3>2 DEF PathPlaces
    <3> QED
      BY <2>1, <3>3
  <2>3. CASE t = NextTask(p)
    <3>1. <<"asks", p>> \in PathPlaces(p)
      BY <1>2, <1>3, <2>3 DEF PathPlaces
    <3>3. NextTask(p) \notin ready /\ FiltersOf(p) = {}
      BY <2>1, <3>1, OneOfPlaces
    <3>4. NextTask(p) \in ready' <=> refCount'[NextTask(p)] = 0
      BY <1>1, <1>2, <2>3, <3>3
    <3>5. PathPlaces(p)' = {s \in {<<"asks", p>>} : refCount'[NextTask(p)] > 0}
                              \cup {s \in {<<"ready", p>>} : refCount'[NextTask(p)] = 0}
      BY <1>6, <3>3, <3>4 DEF PathPlaces
    <3>6. refCount'[NextTask(p)] > 0 \/ refCount'[NextTask(p)] = 0
      BY <1>1, <1>2, <1>3, <2>3
    <3>7. ~(refCount'[NextTask(p)] > 0 /\ refCount'[NextTask(p)] = 0)
      OBVIOUS
    <3> QED
      BY <3>1, <3>5, <3>6, <3>7
  <2> QED
    BY <2>2, <2>3
<1>10. PathsInOrder'
  <2>1. PathsInOrder
    BY DEF IndInv
  <2>2. (\A p \in Paths : PathPlaces(p) # {} => PathFilters[p] # <<>>)'
    BY <1>9, <2>1 DEF PathsInOrder
  <2>3. ASSUME NEW x \in Having("paths"), NEW i \in 1 .. Len(Call(x).rest), NEW p \in Paths,
               Call(x).rest[i] = p
        PROVE  PathPlaces(p)' = {}
    BY <1>9, <2>1, <2>3 DEF PathsInOrder
  <2>4. (\A x \in Having("paths") :
            /\ \A i, j \in 1 .. Len(Call(x).rest) : Call(x).rest[i] = Call(x).rest[j] => i = j
            /\ \A i \in 1 .. Len(Call(x).rest) : \A p \in Paths :
                  Call(x).rest[i] = p => PathPlaces(p) = {})'
    <3> SUFFICES ASSUME NEW x \in Having("paths")'
                 PROVE  (/\ \A i, j \in 1 .. Len(Call(x).rest) : Call(x).rest[i] = Call(x).rest[j] => i = j
                         /\ \A i \in 1 .. Len(Call(x).rest) : \A p \in Paths :
                               Call(x).rest[i] = p => PathPlaces(p) = {})'
      OBVIOUS
    <3>1. x \in Having("paths") /\ Call(x)' = Call(x)
      BY <1>6
    <3>2. \A i, j \in 1 .. Len(Call(x).rest) : Call(x).rest[i] = Call(x).rest[j] => i = j
      BY <2>1, <3>1 DEF PathsInOrder
    <3>3. \A i \in 1 .. Len(Call(x).rest) : \A p \in Paths :
             Call(x).rest[i] = p => PathPlaces(p)' = {}
      BY <2>3, <3>1
    <3> QED
      BY <3>1, <3>2, <3>3
  <2>5. (\A p \in Paths : \A s, u \in PathPlaces(p) : s = u)'
    BY <1>9
  <2>6. (\A x, y \in Having("paths") : x = y)'
    BY <1>6, <2>1 DEF PathsInOrder
  <2> QED
    BY <2>2, <2>4, <2>5, <2>6 DEF PathsInOrder
<1>11. OneEvent'
  <2>1. /\ refCount'[AllPathsDone] = refCount[AllPathsDone]
        /\ refCount'[RecursiveTask] = refCount[RecursiveTask]
    BY <1>1, TaskTypes
  <2>2. /\ AllPathsDone \in ready' <=> AllPathsDone \in ready
        /\ RecursiveTask \in ready' <=> RecursiveTask \in ready
    BY <1>1, TaskTypes
  <2>3. PathHolders' = PathHolders
    BY <1>6, <1>9 DEF PathHolders
  <2>4. StreamPlaces' = StreamPlaces
    BY <1>6, <2>1, <2>2 DEF StreamPlaces
  <2> QED
    BY <2>1, <2>2, <2>3, <2>4 DEF IndInv, OneEvent
<1>12. Prefetched'
  <2> SUFFICES ASSUME NEW m \in Modules, NEW n \in Range(Gets[m])
               PROVE  (/\ refCount[RunTask(m)] > 0 =>
                             Answered(m, n) \/ \E x \in Holders(RunTask(m)) : WaitsFor(x, m, n)
                       /\ RunTask(m) \in ready => Answered(m, n))'
    BY DEF Prefetched
  <2>1. n \in Producers /\ RunTask(m) \in Tasks /\ RunTask(m) \in Waiters
    BY GetsTypes, TaskTypes
  <2>2. Answered(m, n) => Answered(m, n)'
    BY <1>1, <2>1 DEF Answered
  <2>3. RunTask(m) \in ready => Answered(m, n)
    BY DEF IndInv, Prefetched
  <2>4. refCount[RunTask(m)] > 0 =>
           Answered(m, n)' \/ \E y \in Holders(RunTask(m))' : WaitsFor(y, m, n)'
    <3>1. refCount[RunTask(m)] > 0 =>
             Answered(m, n) \/ \E x \in Holders(RunTask(m)) : WaitsFor(x, m, n)
      BY DEF IndInv, Prefetched
    <3> QED
      BY <2>1, <2>2, <3>1 DEF LetsGo
  <2>5. CASE t # RunTask(m)
    <3>1. refCount'[RunTask(m)] = refCount[RunTask(m)]
          /\ (RunTask(m) \in ready' <=> RunTask(m) \in ready)
      BY <1>1, <2>1, <2>5
    <3> QED
      BY <2>2, <2>3, <2>4, <3>1
  <2>6. CASE t = RunTask(m)
    <3>1. refCount[RunTask(m)] > 0
      BY <1>2, <1>3, <2>6
    <3>2. CASE refCount[RunTask(m)] # 1
      BY <1>1, <2>2, <2>3, <2>4, <2>6, <3>1, <3>2
    <3>3. CASE refCount[RunTask(m)] = 1
      <4>1. AtLeast(0, Holders(RunTask(m))')
        BY <1>3, <2>6, <3>3
      <4>2. Holders(RunTask(m))' = {}
        <5>1. PICK h : h = Holders(RunTask(m))'
          OBVIOUS
        <5>2. AtLeast(0, h)
          BY <4>1, <5>1
        <5>3. h = {}
          BY <5>2, NobodyHolds
        <5> QED
          BY <5>1, <5>3
      <4>3. Answered(m, n)'
        BY <2>4, <3>1, <4>2
      <4> QED
        BY <4>3
    <3> QED
      BY <3>2, <3>3
  <2> QED
    BY <2>5, <2>6
<1>13. DataThere'
  <2>1. \A op \in {"acquire", "work"} : /\ Having(op)' = Having(op)
                                        /\ \A x \in Having(op) : Call(x)' = Call(x)
    BY DEF SamePlaces, Placed
  <2>2. \A m : HasData(m)' = HasData(m)
    BY DEF HasData
  <2>3. \A m \in HasAcquire : AfterAcquire(m) \in ready' <=> AfterAcquire(m) \in ready
    BY <1>1, TaskTypes
  <2> QED
    BY <2>1, <2>2, <2>3 DEF IndInv, DataThere, Having
<1> QED
  BY <1>1, <1>5, <1>8, <1>10, <1>11, <1>12, <1>13


-----------------------------------------------------------------------------
(* What a step does to the calls, seen from those it leaves alone. *)

\* All calls but f stay, and new are the calls of s only.
CallsKept(f, s) ==
    /\ \A x \in Frames \ {f} : x \in Frames' /\ Call(x)' = Call(x)
    /\ \A x \in Frames' : Call(x)' \in s \/ (x \in Frames \ {f} /\ Call(x)' = Call(x))

\* It is so whichever way the calls change.
LEMMA KeptCalls ==
    ASSUME NEW f, NEW c, NEW d
    PROVE  /\ Ends(f) => CallsKept(f, {})
           /\ Turns(f, c) => CallsKept(f, {c})
           /\ TurnsAndMakes(f, c, d) => CallsKept(f, {c, d})
           /\ Begins(f, c) => CallsKept(f, {c})
           /\ BeginsTwo(f, c, d) => CallsKept(f, {c, d})
           /\ UNCHANGED stack => CallsKept(f, {Call(f)})
<1>1. Ends(f) => CallsKept(f, {})
  BY DEF Ends, CallsKept
<1>2. Turns(f, c) => CallsKept(f, {c})
  BY DEF Turns, CallsKept
<1>3. TurnsAndMakes(f, c, d) => CallsKept(f, {c, d})
  BY DEF TurnsAndMakes, CallsKept
<1>4. Begins(f, c) => CallsKept(f, {c})
  BY DEF Begins, CallsKept
<1>5. BeginsTwo(f, c, d) => CallsKept(f, {c, d})
  BY DEF BeginsTwo, CallsKept
<1>6. UNCHANGED stack => CallsKept(f, {Call(f)})
  BY DEF CallsKept, Frames, Call
<1> QED
  BY <1>1, <1>2, <1>3, <1>4, <1>5, <1>6

\* Calls of a kind that neither ends nor begins.
LEMMA HavingKept ==
    ASSUME NEW f, NEW s, CallsKept(f, s), NEW op,
           f \in Frames => Call(f).op # op, \A c \in s : c.op # op
    PROVE  Having(op)' = Having(op) /\ \A x \in Having(op) : Call(x)' = Call(x)
<1>1. ASSUME NEW x PROVE x \in Having(op)' <=> x \in Having(op)
  BY DEF CallsKept, Having
<1> QED
  BY <1>1 DEF CallsKept, Having

\* Wrappers go from not started to waiting to not waiting.
GoOn == /\ \A m \in Modules : /\ m_workStarted[m] => m_workStarted'[m]
                              /\ m_waiting'[m] => m_waiting[m]
                              /\ ~m_waiting'[m] => m_workStarted'[m]
        /\ \A m \in Modules : listed'[m] = {} => listed[m] = {} \/ m_workStarted[m]

\* Then whoever is to look at a module still looks, if no insertion is lost.
LEMMA LooksKept ==
    ASSUME IndInv, GoOn, NEW f, NEW s, CallsKept(f, s), f \in Frames => Call(f).op # "insert",
           \A c \in s : /\ c.op = "start" => m_workStarted'[c.mod]
                        /\ c.op \in {"announce", "tell"} => ~m_waiting'[c.mod]
    PROVE  Looks'
<1>1. ASSUME NEW x \in Frames', Call(x)'.op \in {"announce", "tell"}
      PROVE  ~m_waiting'[Call(x)'.mod]
  <2>1. CASE Call(x)' \in s
    BY <1>1, <2>1
  <2>2. CASE Call(x)' \notin s
    <3>1. x \in Frames /\ Call(x)' = Call(x)
      BY <2>2 DEF CallsKept
    <3>2. ~m_waiting[Call(x).mod] /\ Call(x).mod \in Modules
      BY <1>1, <3>1, CallTypes, CallParts DEF IndInv, Looks
    <3> QED
      BY <3>1, <3>2 DEF GoOn
  <2> QED
    BY <2>1, <2>2
<1>2. ASSUME NEW x \in Frames', Call(x)'.op = "start"
      PROVE  \/ m_workStarted'[Call(x)'.mod]
             \/ listed'[Call(x)'.mod] # {}
             \/ LET y == <<x[1], x[2] + 1>>
                IN y \in Frames' /\ Call(y)'.op = "insert" /\ Call(y)'.mod = Call(x)'.mod
  <2> SUFFICES ASSUME Call(x)' \notin s
               PROVE  \/ m_workStarted'[Call(x)'.mod]
                      \/ listed'[Call(x)'.mod] # {}
                      \/ LET y == <<x[1], x[2] + 1>>
                         IN y \in Frames' /\ Call(y)'.op = "insert" /\ Call(y)'.mod = Call(x)'.mod
    BY <1>2
  <2>1. x \in Frames /\ Call(x)' = Call(x)
    BY DEF CallsKept
  <2>2. Call(x).mod \in Modules
    BY <1>2, <2>1, CallTypes, CallParts DEF IndInv
  <2>3. CASE m_workStarted[Call(x).mod] \/ listed[Call(x).mod] # {}
    BY <2>1, <2>2, <2>3 DEF GoOn
  <2>4. CASE ~(m_workStarted[Call(x).mod] \/ listed[Call(x).mod] # {})
    <3>1. PICK y : y = <<x[1], x[2] + 1>>
      OBVIOUS
    <3>2. y \in Frames /\ Call(y).op = "insert" /\ Call(y).mod = Call(x).mod
      BY <1>2, <2>1, <2>4, <3>1 DEF IndInv, Looks
    <3>3. y \in Frames' /\ Call(y)' = Call(y)
      BY <3>2 DEF CallsKept
    <3> QED
      BY <2>1, <3>1, <3>2, <3>3
  <2> QED
    BY <2>3, <2>4
<1> QED
  BY <1>1, <1>2 DEF Looks, GoOn

\* Nothing new is started, and no module that waits loses its list.
LEMMA CircleKept ==
    ASSUME NoneInCircle, Started' \subseteq Started, \A m \in Started' : listed[m] \subseteq listed'[m]
    PROVE  NoneInCircle'
<1> SUFFICES ASSUME NEW s \in SUBSET Started', s # {}
             PROVE  \E m \in s : \E t \in listed'[m] : \A k \in s : t # RunTask(k)
  BY DEF NoneInCircle
<1>1. PICK m \in s : \E t \in listed[m] : \A k \in s : t # RunTask(k)
  BY DEF NoneInCircle
<1> QED
  BY <1>1


\* A task nobody new holds keeps its holders, but for f.
LEMMA HoldersKept ==
    ASSUME NEW t, NEW f, NEW s, CallsKept(f, s), \A c \in s : ~Holds(c, t),
           \A m \in Modules : t \in listed'[m] => t \in listed[m]
    PROVE  Holders(t)' \subseteq Holders(t) /\ (f \in Frames => f \notin Holders(t)')
<1>1. ASSUME NEW x \in Holders(t)' PROVE x \in Holders(t) /\ (f \in Frames => x # f)
  <2>1. CASE x \in Frames' /\ Holds(Call(x), t)'
    <3>1. Holds(Call(x)', t)
      BY <2>1 DEF Holds, RunTask
    <3>2. x \in Frames \ {f} /\ Call(x)' = Call(x)
      BY <2>1, <3>1 DEF CallsKept
    <3> QED
      BY <3>1, <3>2 DEF Holders
  <2>2. CASE x \in Modules \X {0} /\ t \in listed'[x[1]]
    <3>1. x \in Holders(t)
      BY <2>2 DEF Holders
    <3>2. f \in Frames => x # f
      BY <2>2 DEF Frames
    <3> QED
      BY <3>1, <3>2
  <2> QED
    BY <2>1, <2>2 DEF Holders
<1> QED
  BY <1>1

\* Who waits goes on waiting, but for f and who is taken from the list.
LEMMA WaitsKept ==
    ASSUME NEW f, NEW s, CallsKept(f, s), NEW m \in Modules, NEW n \in Modules, NEW x,
           f \in Frames => x # f, WaitsFor(x, m, n),
           RunTask(m) \in listed[n] => RunTask(m) \in listed'[n]
    PROVE  \E y \in Holders(RunTask(m))' : WaitsFor(y, m, n)'
<1>1. CASE x \in Frames
  <2>1. x \in Frames' /\ Call(x)' = Call(x)
    BY <1>1 DEF CallsKept
  <2>2. x # <<n, 0>>
    BY <1>1 DEF Frames
  <2>3. WaitsFor(x, m, n)'
    BY <2>1, <2>2 DEF WaitsFor, RunTask
  <2> QED
    BY <2>3, WaitersHold
<1>2. CASE x \notin Frames
  <2>1. x = <<n, 0>> /\ RunTask(m) \in listed'[n]
    BY <1>2 DEF WaitsFor
  <2>2. WaitsFor(x, m, n)'
    BY <2>1 DEF WaitsFor, RunTask
  <2> QED
    BY <2>2, WaitersHold
<1> QED
  BY <1>1, <1>2

\* Nobody waits who is not a holder: a call that holds no RunModuleTask waits for nothing.
LEMMA WhoWaits ==
    ASSUME NEW f \in Frames, NEW m, NEW n, WaitsFor(f, m, n)
    PROVE  /\ Call(f).op \in {"prefetch", "add", "insert", "tell"}
           /\ Holds(Call(f), RunTask(m))
           /\ Call(f).op = "prefetch" => Call(f).mod = m /\ n \in Range(Call(f).rest)
           /\ Call(f).op \in {"add", "insert"} => Call(f).mod = n /\ Call(f).task = RunTask(m)
           /\ Call(f).op = "tell" => Call(f).mod = n /\ RunTask(m) \in Call(f).batch
<1>1. f # <<n, 0>>
  BY DEF Frames
<1> QED
  BY <1>1 DEF WaitsFor, Holds

-----------------------------------------------------------------------------
(* The steps that pass references on. *)

\* add() finds the list waiting: the reference goes to the insertion.
LEMMA AddWaits ==
    ASSUME IndInv, NEW th \in Threads, AddTask(th), m_waiting[Top(th).mod]
    PROVE  IndInv'
<1>1. Types
  BY DEF IndInv
<1>2. PICK f : f = Inner(th)
  OBVIOUS
<1>3. PICK m, t : m = Top(th).mod /\ t = Top(th).task
  OBVIOUS
<1>4. ~Idle(th) /\ Top(th).op = "add" /\ m_waiting[m]
      /\ Become(th, <<Insert(m, t), Start(m)>>) /\ UNCHANGED tasks
  BY <1>3 DEF AddTask, Inside
<1>5. UNCHANGED <<wrappers, m_index, pushed, outside, fatal, stream, history>>
  BY DEF AddTask
<1>6. f \in Frames /\ Call(f) = Top(th) /\ Top(th) \in Calls
  BY <1>1, <1>2, <1>4, CallTypes
<1>7. m \in Modules /\ t \in Waiters
  BY <1>3, <1>4, <1>6, CallParts
<1>8. PICK c, d : c = Start(m) /\ d = Insert(m, t) /\ c \in Calls /\ d \in Calls
  BY <1>7, CallsMade
<1>9. TurnsAndMakes(f, c, d) /\ stack' \in [Threads -> Seq(Calls)]
  BY <1>1, <1>2, <1>4, <1>8, CallMakes
<1>10. c.op = "start" /\ c.mod = m /\ d.op = "insert" /\ d.mod = m /\ d.task = t
  BY <1>8 DEF Start, Insert
<1>11. CallsKept(f, {c, d})
  BY <1>9, KeptCalls
<1>12. Types'
  BY <1>1, <1>4, <1>5, <1>9 DEF Types, tasks, wrappers, stream, history
<1>13. SamePlaces
  BY <1>4, <1>6, <1>9, <1>10, PlacesStay DEF Placed
<1>14. OneStage' /\ PathsInOrder' /\ OneEvent' /\ DataThere'
  BY <1>4, <1>5, <1>13, PlacesInOrder DEF tasks, wrappers, stream
<1>15. Looks'
  <2>1. \A k \in Modules : ~m_waiting'[k] => m_workStarted'[k]
    BY <1>5 DEF IndInv, Looks, wrappers
  <2>2. ASSUME NEW x \in Frames', Call(x)'.op \in {"announce", "tell"}
        PROVE  ~m_waiting'[Call(x)'.mod]
    <3>1. x \in Frames /\ Call(x)' = Call(x)
      BY <1>10, <1>11, <2>2 DEF CallsKept
    <3> QED
      BY <1>5, <2>2, <3>1 DEF IndInv, Looks, wrappers
  <2>3. ASSUME NEW x \in Frames', Call(x)'.op = "start"
        PROVE  \/ m_workStarted'[Call(x)'.mod]
               \/ listed'[Call(x)'.mod] # {}
               \/ LET y == <<x[1], x[2] + 1>>
                  IN y \in Frames' /\ Call(y)'.op = "insert" /\ Call(y)'.mod = Call(x)'.mod
    <3>1. CASE x = f
      BY <1>9, <1>10, <3>1 DEF TurnsAndMakes, Above
    <3>2. CASE x # f
      <4>1. x # Above(f)
        BY <1>9, <1>10, <2>3 DEF TurnsAndMakes
      <4>2. x \in Frames /\ Call(x)' = Call(x)
        BY <1>9, <3>2, <4>1 DEF TurnsAndMakes
      <4>3. PICK y : y = <<x[1], x[2] + 1>>
        OBVIOUS
      <4>4. CASE m_workStarted[Call(x).mod] \/ listed[Call(x).mod] # {}
        BY <1>5, <4>2, <4>4 DEF wrappers
      <4>5. CASE y \in Frames /\ Call(y).op = "insert" /\ Call(y).mod = Call(x).mod
        <5>1. y \in Frames' /\ Call(y)' = Call(y)
          BY <1>4, <1>6, <1>11, <4>5 DEF CallsKept
        <5> QED
          BY <4>2, <4>3, <4>5, <5>1
      <4> QED
        BY <2>3, <4>2, <4>3, <4>4, <4>5 DEF IndInv, Looks
    <3> QED
      BY <3>1, <3>2
  <2> QED
    BY <2>1, <2>2, <2>3 DEF Looks
<1>16. NoneInCircle' /\ Produced'
  BY <1>5 DEF IndInv, NoneInCircle, Started, Produced, wrappers
<1>17. PassedOn
  <2>1. Holds(Call(f), t)
    BY <1>3, <1>4, <1>6 DEF Holds
  <2>2. \A u : ~Holds(c, u) /\ (Holds(d, u) => u = t)
    BY <1>10 DEF Holds
  <2>3. ASSUME NEW u \in Waiters, u # t PROVE Holders(u)' \subseteq Holders(u)
    <3>1. \A z \in {c, d} : ~Holds(z, u)
      BY <2>2, <2>3
    <3> QED
      BY <1>5, <1>11, <3>1, HoldersKept DEF wrappers
  <2>4. Holders(t)' \subseteq (Holders(t) \ {f}) \cup {Above(f)} /\ f \in Holders(t)
        /\ Above(f) \in Frames'
    <3>1. f \in Holders(t) /\ Above(f) \in Frames'
      BY <1>6, <1>9, <2>1 DEF Holders, TurnsAndMakes
    <3>2. ASSUME NEW x \in Holders(t)' PROVE x \in (Holders(t) \ {f}) \cup {Above(f)}
      <4>1. CASE x \in Frames' /\ Holds(Call(x), t)'
        <5>1. Holds(Call(x)', t)
          BY <4>1 DEF Holds, RunTask
        <5> QED
          BY <1>9, <2>2, <4>1, <5>1 DEF TurnsAndMakes, Holders
      <4>2. CASE x \in Modules \X {0} /\ t \in listed'[x[1]]
        <5>1. x # f
          BY <1>6, <4>2 DEF Frames
        <5> QED
          BY <1>5, <4>2, <5>1 DEF Holders, wrappers
      <4> QED
        BY <3>2, <4>1, <4>2 DEF Holders
    <3> QED
      BY <3>1, <3>2
  <2>5. ASSUME NEW k \in Modules, NEW n \in Producers, NEW x \in Holders(RunTask(k)),
               WaitsFor(x, k, n)
        PROVE  \E y \in Holders(RunTask(k))' : WaitsFor(y, k, n)'
    <3>1. CASE x = f
      <4>1. m = n /\ t = RunTask(k)
        BY <1>3, <1>4, <1>6, <2>5, <3>1, WhoWaits
      <4>2. WaitsFor(Above(f), k, n)'
        BY <1>9, <1>10, <4>1 DEF WaitsFor, TurnsAndMakes, RunTask
      <4> QED
        BY <4>2, WaitersHold DEF Modules
    <3>2. CASE x # f
      BY <1>5, <1>11, <2>5, <3>2, WaitsKept DEF wrappers, Modules
    <3> QED
      BY <3>1, <3>2
  <2> QED
    BY <2>3, <2>4, <2>5 DEF PassedOn
<1>18. Counted' /\ Prefetched'
  BY <1>4, <1>5, <1>17, ReferencesPassed DEF tasks, wrappers
<1> QED
  BY <1>12, <1>14, <1>15, <1>16, <1>18 DEF IndInv


\* The insertion: the reference goes to the list.
LEMMA Inserts ==
    ASSUME IndInv, NEW th \in Threads, InsertTask(th)
    PROVE  IndInv'
<1>1. Types
  BY DEF IndInv
<1>2. PICK f : f = Inner(th)
  OBVIOUS
<1>3. PICK m, t : m = Top(th).mod /\ t = Top(th).task
  OBVIOUS
<1>4. /\ ~Idle(th) /\ Top(th).op = "insert"
      /\ listed' = [listed EXCEPT ![m] = @ \cup {t}]
      /\ Become(th, IF listed[m] = {} THEN <<Recheck(m)>> ELSE <<>>)
  BY <1>3 DEF InsertTask, Inside
<1>5. UNCHANGED <<m_workStarted, m_waiting, m_exceptionPtr, m_wasCached, m_keep,
                   m_index, tasks, pushed, outside, fatal, stream, history>>
  BY DEF InsertTask
<1>6. f \in Frames /\ Call(f) = Top(th) /\ Top(th) \in Calls
  BY <1>1, <1>2, <1>4, CallTypes
<1>7. m \in Modules /\ t \in Waiters
  BY <1>3, <1>4, <1>6, CallParts
<1>8. PICK c : c \in Calls /\ c = Recheck(m) /\ c.op = "recheck"
  <2>1. Recheck(m) \in Calls
    BY <1>7, CallsMade
  <2>2. Recheck(m).op = "recheck"
    BY DEF Recheck
  <2> QED
    BY <2>1, <2>2
<1>9. (Ends(f) \/ Turns(f, c)) /\ stack' \in [Threads -> Seq(Calls)]
  <2>1. CASE listed[m] = {}
    BY <1>1, <1>2, <1>4, <1>8, <2>1, CallTurns
  <2>2. CASE listed[m] # {}
    BY <1>1, <1>2, <1>4, <2>2, CallEnds
  <2> QED
    BY <2>1, <2>2
<1>10. PICK s \in SUBSET {c} : CallsKept(f, s)
  BY <1>9, KeptCalls
<1>11. listed' \in [Modules -> SUBSET Waiters] /\ listed'[m] = listed[m] \cup {t}
       /\ \A k \in Modules \ {m} : listed'[k] = listed[k]
  BY <1>1, <1>4, <1>7 DEF Types
<1>12. Types'
  BY <1>1, <1>5, <1>9, <1>11 DEF Types, tasks, stream, history
<1>13. SamePlaces
  BY <1>4, <1>6, <1>8, <1>9, PlacesStay DEF Placed
<1>14. OneStage' /\ PathsInOrder' /\ OneEvent' /\ DataThere'
  BY <1>5, <1>13, PlacesInOrder DEF tasks, stream
<1>15. Looks'
  <2>1. \A k \in Modules : ~m_waiting'[k] => m_workStarted'[k]
    BY <1>5 DEF IndInv, Looks
  <2>2. ASSUME NEW x \in Frames', Call(x)'.op \in {"announce", "tell"}
        PROVE  ~m_waiting'[Call(x)'.mod]
    <3>1. x \in Frames /\ Call(x)' = Call(x)
      BY <1>8, <1>10, <2>2 DEF CallsKept
    <3> QED
      BY <1>5, <2>2, <3>1 DEF IndInv, Looks
  <2>3. ASSUME NEW x \in Frames', Call(x)'.op = "start"
        PROVE  \/ m_workStarted'[Call(x)'.mod]
               \/ listed'[Call(x)'.mod] # {}
               \/ LET y == <<x[1], x[2] + 1>>
                  IN y \in Frames' /\ Call(y)'.op = "insert" /\ Call(y)'.mod = Call(x)'.mod
    <3>1. x \in Frames /\ Call(x)' = Call(x)
      BY <1>8, <1>10, <2>3 DEF CallsKept
    <3>2. Call(x).mod \in Modules
      BY <1>1, <2>3, <3>1, CallTypes, CallParts
    <3>3. CASE m_workStarted[Call(x).mod] \/ listed[Call(x).mod] # {} \/ Call(x).mod = m
      BY <1>5, <1>7, <1>11, <3>1, <3>2, <3>3
    <3>4. CASE ~(m_workStarted[Call(x).mod] \/ listed[Call(x).mod] # {} \/ Call(x).mod = m)
      <4>1. PICK y : y = <<x[1], x[2] + 1>>
        OBVIOUS
      <4>2. y \in Frames /\ Call(y).op = "insert" /\ Call(y).mod = Call(x).mod
        BY <2>3, <3>1, <3>4, <4>1 DEF IndInv, Looks
      <4>3. y # f
        BY <1>3, <1>6, <3>4, <4>2
      <4>4. y \in Frames' /\ Call(y)' = Call(y)
        BY <1>10, <4>2, <4>3 DEF CallsKept
      <4> QED
        BY <3>1, <4>1, <4>2, <4>4
    <3> QED
      BY <3>3, <3>4
  <2> QED
    BY <2>1, <2>2, <2>3 DEF Looks
<1>16. NoneInCircle' /\ Produced'
  <2>1. Started' = Started
    BY <1>5 DEF Started
  <2>2. \A k \in Modules : listed[k] \subseteq listed'[k]
    BY <1>11
  <2>3. NoneInCircle'
    BY <2>1, <2>2, CircleKept DEF IndInv, Started
  <2> QED
    BY <1>5, <2>3 DEF IndInv, Produced
<1>17. PassedOn
  <2>1. ASSUME NEW u \in Waiters, u # t PROVE Holders(u)' \subseteq Holders(u)
    <3>1. \A z \in s : ~Holds(z, u)
      BY <1>8 DEF Holds
    <3>2. \A k \in Modules : u \in listed'[k] => u \in listed[k]
      BY <1>11, <2>1
    <3> QED
      BY <1>10, <3>1, <3>2, HoldersKept
  <2>2. Holders(t)' \subseteq (Holders(t) \ {f}) \cup {<<m, 0>>} /\ f \in Holders(t)
    <3>1. f \in Holders(t)
      BY <1>3, <1>4, <1>6 DEF Holders, Holds
    <3>2. ASSUME NEW x \in Holders(t)' PROVE x \in (Holders(t) \ {f}) \cup {<<m, 0>>}
      <4>1. CASE x \in Frames' /\ Holds(Call(x), t)'
        <5>1. Holds(Call(x)', t)
          BY <4>1 DEF Holds, RunTask
        <5>2. x # f \/ Call(x)' \notin s
          BY <1>8, <5>1 DEF Holds
        <5>3. x \in Frames \ {f} /\ Call(x)' = Call(x)
          BY <1>8, <1>10, <4>1, <5>1 DEF CallsKept, Holds
        <5> QED
          BY <5>1, <5>3 DEF Holders
      <4>2. CASE x \in Modules \X {0} /\ t \in listed'[x[1]]
        <5>1. x # f
          BY <1>6, <4>2 DEF Frames
        <5>2. x = <<m, 0>> \/ t \in listed[x[1]]
          BY <1>11, <4>2
        <5> QED
          BY <4>2, <5>1, <5>2 DEF Holders
      <4> QED
        BY <3>2, <4>1, <4>2 DEF Holders
    <3> QED
      BY <3>1, <3>2
  <2>3. ASSUME NEW k \in Modules, NEW n \in Producers, NEW x \in Holders(RunTask(k)),
               WaitsFor(x, k, n)
        PROVE  \E y \in Holders(RunTask(k))' : WaitsFor(y, k, n)'
    <3>1. CASE x = f
      <4>1. m = n /\ t = RunTask(k)
        BY <1>3, <1>4, <1>6, <2>3, <3>1, WhoWaits
      <4>2. RunTask(k) \in listed'[n]
        BY <1>11, <4>1
      <4>3. WaitsFor(<<n, 0>>, k, n)'
        BY <4>2 DEF WaitsFor, RunTask
      <4> QED
        BY <4>3, WaitersHold DEF Modules
    <3>2. CASE x # f
      BY <1>10, <1>11, <2>3, <3>2, WaitsKept DEF Modules
    <3> QED
      BY <3>1, <3>2
  <2> QED
    BY <1>7, <2>1, <2>2, <2>3 DEF PassedOn
<1>18. Counted' /\ Prefetched'
  BY <1>5, <1>17, ReferencesPassed
<1> QED
  BY <1>12, <1>14, <1>15, <1>16, <1>18 DEF IndInv

\* announce(): all references of the list go to the one who tells.
LEMMA Takes ==
    ASSUME IndInv, NEW th \in Threads, TakeListed(th)
    PROVE  IndInv'
<1>1. Types
  BY DEF IndInv
<1>2. PICK f : f = Inner(th)
  OBVIOUS
<1>3. PICK m, b : m = Top(th).mod /\ b = listed[m]
  OBVIOUS
<1>4. /\ ~Idle(th) /\ Top(th).op = "announce"
      /\ listed' = [listed EXCEPT ![m] = {}]
      /\ Become(th, IF b = {} THEN <<>> ELSE <<Tell(m, b)>>)
  BY <1>3 DEF TakeListed, Inside
<1>5. UNCHANGED <<m_workStarted, m_waiting, m_exceptionPtr, m_wasCached, m_keep,
                   m_index, tasks, pushed, outside, fatal, stream, history>>
  BY DEF TakeListed
<1>6. f \in Frames /\ Call(f) = Top(th) /\ Top(th) \in Calls
  BY <1>1, <1>2, <1>4, CallTypes
<1>7. m \in Modules /\ b \in SUBSET Waiters
  <2>1. m \in Modules
    BY <1>3, <1>4, <1>6, CallParts
  <2> QED
    BY <1>1, <1>3, <2>1 DEF Types
<1>8. PICK c : /\ b # {} => c \in Calls
               /\ c = Tell(m, b) /\ c.op = "tell" /\ c.mod = m /\ c.batch = b
  <2>1. b # {} => Tell(m, b) \in Calls
    BY <1>7, CallsMade
  <2>2. Tell(m, b).op = "tell" /\ Tell(m, b).mod = m /\ Tell(m, b).batch = b
    BY DEF Tell
  <2> QED
    BY <2>1, <2>2
<1>9. ((b = {} /\ Ends(f)) \/ (b # {} /\ Turns(f, c))) /\ stack' \in [Threads -> Seq(Calls)]
  <2>1. CASE b # {}
    BY <1>1, <1>2, <1>4, <1>8, <2>1, CallTurns
  <2>2. CASE b = {}
    BY <1>1, <1>2, <1>4, <2>2, CallEnds
  <2> QED
    BY <2>1, <2>2
<1>10. PICK s \in SUBSET {c} : CallsKept(f, s)
  BY <1>9, KeptCalls
<1>11. listed' \in [Modules -> SUBSET Waiters] /\ listed'[m] = {}
       /\ \A k \in Modules \ {m} : listed'[k] = listed[k]
  BY <1>1, <1>4, <1>7 DEF Types
<1>12. Types'
  BY <1>1, <1>5, <1>9, <1>11 DEF Types, tasks, stream, history
<1>13. SamePlaces
  BY <1>4, <1>6, <1>8, <1>9, PlacesStay DEF Placed
<1>14. OneStage' /\ PathsInOrder' /\ OneEvent' /\ DataThere'
  BY <1>5, <1>13, PlacesInOrder DEF tasks, stream
<1>15. ~m_waiting[m] /\ m_workStarted[m]
  BY <1>3, <1>4, <1>6, <1>7 DEF IndInv, Looks
<1>16. Looks'
  <2>1. GoOn
    BY <1>5, <1>11, <1>15 DEF GoOn, IndInv, Looks
  <2>2. \A z \in s : /\ z.op = "start" => m_workStarted'[z.mod]
                     /\ z.op \in {"announce", "tell"} => ~m_waiting'[z.mod]
    BY <1>5, <1>8, <1>15
  <2> QED
    BY <1>4, <1>6, <1>10, <2>1, <2>2, LooksKept
<1>17. NoneInCircle' /\ Produced'
  <2>1. Started' = Started /\ m \notin Started
    BY <1>5, <1>15 DEF Started
  <2>2. \A k \in Started' : listed[k] \subseteq listed'[k]
    BY <1>11, <2>1 DEF Started
  <2>3. NoneInCircle'
    BY <2>1, <2>2, CircleKept DEF IndInv
  <2> QED
    BY <1>5, <2>3 DEF IndInv, Produced
<1>18. PassedOn
  <2>1. ASSUME NEW u \in Waiters, u \notin b PROVE Holders(u)' \subseteq Holders(u)
    <3>1. \A z \in s : ~Holds(z, u)
      BY <1>8, <2>1 DEF Holds
    <3>2. \A k \in Modules : u \in listed'[k] => u \in listed[k]
      BY <1>11
    <3> QED
      BY <1>10, <3>1, <3>2, HoldersKept
  <2>2. ASSUME NEW u \in b
        PROVE  Holders(u)' \subseteq (Holders(u) \ {<<m, 0>>}) \cup {f} /\ <<m, 0>> \in Holders(u)
               /\ f \in Frames'
    <3>1. <<m, 0>> \in Holders(u)
      BY <1>3, <1>7 DEF Holders
    <3>2. ASSUME NEW x \in Holders(u)' PROVE x \in (Holders(u) \ {<<m, 0>>}) \cup {f}
      <4>1. CASE x \in Frames' /\ Holds(Call(x), u)' /\ x # f
        <5>1. x \in Frames /\ Call(x)' = Call(x)
          BY <1>9, <4>1 DEF Turns, Ends
        <5>2. x # <<m, 0>>
          BY <5>1 DEF Frames
        <5> QED
          BY <4>1, <5>1, <5>2 DEF Holders, Holds
      <4>2. CASE x \in Modules \X {0} /\ u \in listed'[x[1]]
        <5>1. x[1] # m
          BY <1>11, <4>2
        <5>2. x # <<m, 0>> /\ u \in listed[x[1]]
          BY <1>11, <4>2, <5>1
        <5> QED
          BY <4>2, <5>2 DEF Holders
      <4> QED
        BY <3>2, <4>1, <4>2 DEF Holders
    <3>3. f \in Frames'
      BY <1>9, <2>2 DEF Turns
    <3> QED
      BY <3>1, <3>2, <3>3
  <2>3. ASSUME NEW k \in Modules, NEW n \in Producers, NEW x \in Holders(RunTask(k)),
               WaitsFor(x, k, n)
        PROVE  \E y \in Holders(RunTask(k))' : WaitsFor(y, k, n)'
    <3>0. n \in Modules
      BY DEF Modules
    <3>1. x # f
      BY <1>4, <1>6, <2>3, WhoWaits
    <3>2. CASE RunTask(k) \in listed[n] /\ n = m
      <4>1. f \in Frames' /\ Call(f)' = c
        BY <1>3, <1>9, <3>2 DEF Turns
      <4>2. Call(f)'.op = "tell" /\ Call(f)'.mod = n /\ RunTask(k) \in Call(f)'.batch
        BY <1>3, <1>8, <3>2, <4>1
      <4>3. WaitsFor(f, k, n)'
        BY <4>1, <4>2 DEF WaitsFor, RunTask
      <4> QED
        BY <3>0, <4>3, WaitersHold
    <3>3. CASE ~(RunTask(k) \in listed[n] /\ n = m)
      BY <1>10, <1>11, <2>3, <3>0, <3>1, <3>3, WaitsKept
    <3> QED
      BY <3>2, <3>3
  <2>4. ASSUME NEW u \in Waiters
        PROVE  \/ Holders(u)' \subseteq Holders(u)
               \/ \E x \in Holders(u), y \in Frames' \cup (Modules \X {0}) :
                     Holders(u)' \subseteq (Holders(u) \ {x}) \cup {y}
    BY <2>1, <2>2
  <2> QED
    BY <2>3, <2>4 DEF PassedOn
<1>19. Counted' /\ Prefetched'
  BY <1>5, <1>18, ReferencesPassed
<1> QED
  BY <1>12, <1>14, <1>16, <1>17, <1>19 DEF IndInv


\* Nothing but a call that holds no task, and that may find that a module waits no more.
LEMMA CallGoes ==
    ASSUME IndInv, NEW f \in Frames, Call(f).op \in {"recheck", "serve", "start"},
           NEW c, Ends(f) \/ (Turns(f, c) /\ c.op = "announce" /\ ~m_waiting[c.mod]),
           stack' \in [Threads -> Seq(Calls)],
           UNCHANGED <<wrappers, m_index, tasks, pushed, outside, fatal, stream, history>>
    PROVE  IndInv'
<1>1. PICK s : CallsKept(f, s) /\ \A z \in s : z.op = "announce" /\ ~m_waiting[z.mod]
  <2>1. CASE Ends(f)
    <3>1. CallsKept(f, {})
      BY <2>1, KeptCalls
    <3> QED
      BY <3>1
  <2>2. CASE ~Ends(f)
    <3>1. CallsKept(f, {c})
      BY <2>2, KeptCalls
    <3> QED
      BY <2>2, <3>1
  <2> QED
    BY <2>1, <2>2
<1>2. Types'
  BY DEF IndInv, Types, tasks, wrappers, stream, history
<1>3. SamePlaces
  <2>1. PICK d : d = Call(f)
    OBVIOUS
  <2>2. CASE Ends(f)
    BY <2>1, <2>2, PlacesStay DEF Placed
  <2>3. CASE ~Ends(f)
    BY <2>3, PlacesStay DEF Placed
  <2> QED
    BY <2>2, <2>3
<1>4. OneStage' /\ PathsInOrder' /\ OneEvent' /\ DataThere'
  BY <1>3, PlacesInOrder DEF tasks, wrappers, stream
<1>5. Looks'
  <2>1. GoOn
    BY DEF GoOn, IndInv, Looks, wrappers
  <2>2. \A z \in s : /\ z.op = "start" => m_workStarted'[z.mod]
                     /\ z.op \in {"announce", "tell"} => ~m_waiting'[z.mod]
    BY <1>1 DEF wrappers
  <2> QED
    BY <1>1, <2>1, <2>2, LooksKept
<1>6. NoneInCircle' /\ Produced'
  BY DEF IndInv, NoneInCircle, Started, Produced, wrappers
<1>7. PassedOn
  <2>1. ASSUME NEW u \in Waiters PROVE Holders(u)' \subseteq Holders(u)
    <3>1. \A z \in s : ~Holds(z, u)
      BY <1>1 DEF Holds
    <3> QED
      BY <1>1, <3>1, HoldersKept DEF wrappers
  <2>2. ASSUME NEW k \in Modules, NEW n \in Producers, NEW x \in Holders(RunTask(k)),
               WaitsFor(x, k, n)
        PROVE  \E y \in Holders(RunTask(k))' : WaitsFor(y, k, n)'
    <3>1. x # f
      BY <2>2, WhoWaits
    <3> QED
      BY <1>1, <2>2, <3>1, WaitsKept DEF wrappers, Modules
  <2> QED
    BY <2>1, <2>2 DEF PassedOn
<1>8. Counted' /\ Prefetched'
  BY <1>7, ReferencesPassed DEF tasks, wrappers
<1> QED
  BY <1>2, <1>4, <1>5, <1>6, <1>8 DEF IndInv

\* add()'s second look at m_waiting: no reference moves.
LEMMA Rechecks ==
    ASSUME IndInv, NEW th \in Threads, RecheckWaiting(th)
    PROVE  IndInv'
<1>1. Types
  BY DEF IndInv
<1>2. PICK f : f = Inner(th)
  OBVIOUS
<1>3. PICK m : m = Top(th).mod
  OBVIOUS
<1>4. ~Idle(th) /\ Top(th).op = "recheck" /\ Become(th, IF m_waiting[m] THEN <<>> ELSE <<Announce(m)>>)
  BY <1>3 DEF RecheckWaiting, Inside
<1>5. UNCHANGED <<wrappers, m_index, tasks, pushed, outside, fatal, stream, history>>
  BY DEF RecheckWaiting
<1>6. f \in Frames /\ Call(f) = Top(th) /\ Top(th) \in Calls
  BY <1>1, <1>2, <1>4, CallTypes
<1>7. PICK c : c = Announce(m) /\ c \in Calls
  BY <1>3, <1>4, <1>6, CallParts, CallsMade
<1>8. c.op = "announce" /\ c.mod = m
  BY <1>7 DEF Announce
<1>9. stack' \in [Threads -> Seq(Calls)] /\ (Ends(f) \/ (Turns(f, c) /\ ~m_waiting[m]))
  <2>1. CASE m_waiting[m]
    BY <1>1, <1>2, <1>4, <2>1, CallEnds
  <2>2. CASE ~m_waiting[m]
    BY <1>1, <1>2, <1>4, <1>7, <2>2, CallTurns
  <2> QED
    BY <2>1, <2>2
<1> QED
  BY <1>4, <1>5, <1>6, <1>8, <1>9, CallGoes

\* A run queue is done with a call.
LEMMA Served ==
    ASSUME IndInv, NEW th \in Threads, QueueServed(th)
    PROVE  IndInv'
<1>1. Types
  BY DEF IndInv
<1>2. PICK f : f = Inner(th)
  OBVIOUS
<1>3. ~Idle(th) /\ Top(th).op = "serve" /\ Become(th, <<>>)
      /\ UNCHANGED <<wrappers, m_index, tasks, pushed, outside, fatal, stream, history>>
  BY DEF QueueServed, Inside
<1>4. f \in Frames /\ Call(f) = Top(th)
  BY <1>1, <1>2, <1>3, CallTypes
<1>5. Ends(f) /\ stack' \in [Threads -> Seq(Calls)]
  BY <1>1, <1>2, <1>3, CallEnds
<1> QED
  BY <1>3, <1>4, <1>5, CallGoes

\* doWorkAsync of a module that somebody has started.
LEMMA StartedAlready ==
    ASSUME IndInv, NEW th \in Threads, StartWork(th), m_workStarted[Top(th).mod]
    PROVE  IndInv'
<1>1. Types
  BY DEF IndInv
<1>2. PICK f : f = Inner(th)
  OBVIOUS
<1>3. ~Idle(th) /\ Top(th).op = "start" /\ Become(th, <<>>)
      /\ UNCHANGED <<wrappers, m_index, tasks, pushed, outside, fatal, stream, history>>
  BY DEF StartWork, Inside, wrappers
<1>4. f \in Frames /\ Call(f) = Top(th)
  BY <1>1, <1>2, <1>3, CallTypes
<1>5. Ends(f) /\ stack' \in [Threads -> Seq(Calls)]
  BY <1>1, <1>2, <1>3, CallEnds
<1> QED
  BY <1>3, <1>4, <1>5, CallGoes

-----------------------------------------------------------------------------
(* The steps that let a reference go. *)

\* All of them: call f has a reference to t, and becomes c without it, or ends.
LEMMA CallLetsGo ==
    ASSUME IndInv, NEW f \in Frames, Call(f).op \in {"add", "prefetch", "tell"},
           NEW t \in Waiters, NEW e \in BOOLEAN, Release(t, e), Holds(Call(f), t),
           NEW c,
           \/ Ends(f)
           \/ /\ Turns(f, c)
              /\ c.op \in {"start", "tell"}
              /\ c.op = "start" => m_workStarted[c.mod]
              /\ c.op = "tell" => ~m_waiting[c.mod]
              /\ \A u : Holds(c, u) => u # t /\ Holds(Call(f), u),
           \A m \in Modules, n \in Producers : WaitsFor(f, m, n) =>
              (t = RunTask(m) /\ Answered(m, n)') \/ WaitsFor(f, m, n)',
           stack' \in [Threads -> Seq(Calls)],
           UNCHANGED <<wrappers, m_index, pushed, outside, fatal, stream, history>>
    PROVE  IndInv'
<1>1. PICK s : /\ CallsKept(f, s)
               /\ \A z \in s : /\ z = c /\ Turns(f, c) /\ z.op \in {"start", "tell"}
                               /\ z.op = "start" => m_workStarted[z.mod]
                               /\ z.op = "tell" => ~m_waiting[z.mod]
                               /\ \A u : Holds(z, u) => u # t /\ Holds(Call(f), u)
  <2>1. CASE Ends(f)
    <3>1. CallsKept(f, {})
      BY <2>1, KeptCalls
    <3> QED
      BY <3>1
  <2>2. CASE ~Ends(f)
    <3>1. CallsKept(f, {c})
      BY <2>2, KeptCalls
    <3> QED
      BY <2>2, <3>1
  <2> QED
    BY <2>1, <2>2
<1>2. SamePlaces
  <2>1. PICK d : d = Call(f)
    OBVIOUS
  <2>2. CASE Ends(f)
    BY <2>1, <2>2, PlacesStay DEF Placed
  <2>3. CASE ~Ends(f)
    BY <2>3, PlacesStay DEF Placed
  <2> QED
    BY <2>2, <2>3
<1>3. LetsGo(t)
  <2>1. f \in Holders(t) /\ Holders(t)' \subseteq Holders(t) \ {f}
    <3>1. f \in Holders(t)
      BY DEF Holders
    <3>2. \A z \in s : ~Holds(z, t)
      BY <1>1
    <3> QED
      BY <1>1, <3>1, <3>2, HoldersKept DEF wrappers
  <2>2. ASSUME NEW u \in Waiters \ {t} PROVE Holders(u)' \subseteq Holders(u)
    <3>1. CASE \A z \in s : ~Holds(z, u)
      BY <1>1, <3>1, HoldersKept DEF wrappers
    <3>2. CASE \E z \in s : Holds(z, u)
      <4>1. Turns(f, c) /\ f \in Holders(u)
        BY <1>1, <3>2 DEF Holders
      <4>2. ASSUME NEW x \in Holders(u)', x # f PROVE x \in Holders(u)
        <5>1. CASE x \in Frames' /\ Holds(Call(x), u)'
          <6>1. x \in Frames /\ Call(x)' = Call(x)
            BY <4>1, <4>2, <5>1 DEF Turns
          <6> QED
            BY <5>1, <6>1 DEF Holders, Holds
        <5>2. CASE x \in Modules \X {0} /\ u \in listed'[x[1]]
          BY <5>2 DEF Holders, wrappers
        <5> QED
          BY <4>2, <5>1, <5>2 DEF Holders
      <4> QED
        BY <4>1, <4>2
    <3> QED
      BY <3>1, <3>2
  <2>3. ASSUME NEW k \in Modules, NEW n \in Producers, NEW x \in Holders(RunTask(k)),
               WaitsFor(x, k, n)
        PROVE  \/ t = RunTask(k) /\ Answered(k, n)'
               \/ \E y \in Holders(RunTask(k))' : WaitsFor(y, k, n)'
    <3>0. n \in Modules
      BY DEF Modules
    <3>1. CASE x = f
      BY <2>3, <3>0, <3>1, WaitersHold
    <3>2. CASE x # f
      BY <1>1, <2>3, <3>0, <3>2, WaitsKept DEF wrappers
    <3> QED
      BY <3>1, <3>2
  <2> QED
    BY <2>1, <2>2, <2>3 DEF LetsGo
<1>4. /\ Counted' /\ OneStage' /\ PathsInOrder' /\ OneEvent' /\ Prefetched' /\ DataThere'
      /\ refCount' \in [Tasks -> Int] /\ except' \in [Tasks -> BOOLEAN] /\ ready' \subseteq Tasks
  BY <1>2, <1>3, ReferenceGone DEF wrappers, stream
<1>5. Types'
  BY <1>4 DEF IndInv, Types, wrappers, stream, history
<1>6. Looks'
  <2>1. GoOn
    BY DEF GoOn, IndInv, Looks, wrappers
  <2>2. \A z \in s : /\ z.op = "start" => m_workStarted'[z.mod]
                     /\ z.op \in {"announce", "tell"} => ~m_waiting'[z.mod]
    BY <1>1 DEF wrappers
  <2> QED
    BY <1>1, <2>1, <2>2, LooksKept
<1>7. NoneInCircle' /\ Produced'
  BY DEF IndInv, NoneInCircle, Started, Produced, wrappers
<1> QED
  BY <1>4, <1>5, <1>6, <1>7 DEF IndInv

\* add() finds the list not waiting: the task is let go at once.
LEMMA AddPasses ==
    ASSUME IndInv, NEW th \in Threads, AddTask(th), ~m_waiting[Top(th).mod]
    PROVE  IndInv'
<1>1. Types
  BY DEF IndInv
<1>2. PICK f : f = Inner(th)
  OBVIOUS
<1>3. PICK m, t : m = Top(th).mod /\ t = Top(th).task
  OBVIOUS
<1>4. /\ ~Idle(th) /\ Top(th).op = "add" /\ ~m_waiting[m]
      /\ Become(th, <<Start(m)>>) /\ Release(t, m_exceptionPtr[m])
      /\ UNCHANGED <<wrappers, m_index, pushed, outside, fatal, stream, history>>
  BY <1>3 DEF AddTask, Inside
<1>5. f \in Frames /\ Call(f) = Top(th) /\ Top(th) \in Calls
  BY <1>1, <1>2, <1>4, CallTypes
<1>6. m \in Modules /\ t \in Waiters
  BY <1>3, <1>4, <1>5, CallParts
<1>7. PICK c : c = Start(m) /\ c \in Calls
  BY <1>6, CallsMade
<1>8. c.op = "start" /\ c.mod = m
  BY <1>7 DEF Start
<1>9. Turns(f, c) /\ stack' \in [Threads -> Seq(Calls)]
  BY <1>1, <1>2, <1>4, <1>7, CallTurns
<1>10. PICK e \in BOOLEAN : e = m_exceptionPtr[m]
  BY <1>1, <1>6 DEF Types
<1>11. m_workStarted[m]
  BY <1>4, <1>6 DEF IndInv, Looks
<1>12. Holds(Call(f), t) /\ \A u : ~Holds(c, u)
  BY <1>3, <1>4, <1>5, <1>8 DEF Holds
<1>13. ASSUME NEW k \in Modules, NEW n \in Producers, WaitsFor(f, k, n)
       PROVE  t = RunTask(k) /\ Answered(k, n)'
  <2>1. n = m /\ t = RunTask(k)
    BY <1>3, <1>4, <1>5, <1>13, WhoWaits
  <2>2. m_wasCached[n] \/ e
    BY <1>4, <1>10, <2>1 DEF IndInv, Produced
  <2>3. e => except'[t]
    BY <1>1, <1>4, <1>6, <1>10, Released, TaskTypes
  <2> QED
    BY <1>4, <2>1, <2>2, <2>3 DEF Answered, wrappers, RunTask
<1> QED
  BY <1>4, <1>5, <1>6, <1>8, <1>9, <1>10, <1>11, <1>12, <1>13, CallLetsGo

\* All has been asked for: the holder of prefetchAsync goes.
LEMMA PrefetchEnds ==
    ASSUME IndInv, NEW th \in Threads, PrefetchEnd(th)
    PROVE  IndInv'
<1>1. Types
  BY DEF IndInv
<1>2. PICK f : f = Inner(th)
  OBVIOUS
<1>3. PICK m, t : m = Top(th).mod /\ t = RunTask(m)
  OBVIOUS
<1>4. /\ ~Idle(th) /\ Top(th).op = "prefetch" /\ Top(th).rest = <<>>
      /\ Become(th, <<>>) /\ Release(t, FALSE)
      /\ UNCHANGED <<wrappers, m_index, pushed, outside, fatal, stream, history>>
  BY <1>3 DEF PrefetchEnd, Inside
<1>5. f \in Frames /\ Call(f) = Top(th) /\ Top(th) \in Calls
  BY <1>1, <1>2, <1>4, CallTypes
<1>6. m \in Modules /\ t \in Waiters
  BY <1>3, <1>4, <1>5, CallParts, TaskTypes
<1>7. Ends(f) /\ stack' \in [Threads -> Seq(Calls)]
  BY <1>1, <1>2, <1>4, CallEnds
<1>8. Holds(Call(f), t)
  BY <1>3, <1>4, <1>5 DEF Holds
<1>9. \A k \in Modules, n \in Producers : ~WaitsFor(f, k, n)
  <2>1. \A n : n \notin Range(Call(f).rest)
    BY <1>4, <1>5 DEF Range
  <2> QED
    BY <1>4, <1>5, <2>1, WhoWaits
<1> QED
  BY <1>4, <1>5, <1>6, <1>7, <1>8, <1>9, CallLetsGo

\* announce() tells one task of the result and lets it go.
LEMMA Tells ==
    ASSUME IndInv, NEW th \in Threads, TellOne(th)
    PROVE  IndInv'
<1>1. Types
  BY DEF IndInv
<1>2. PICK f : f = Inner(th)
  OBVIOUS
<1>3. PICK m, b : m = Top(th).mod /\ b = Top(th).batch
  OBVIOUS
<1>4. PICK t \in b : /\ Release(t, m_exceptionPtr[m])
                     /\ Become(th, IF b = {t} THEN <<>> ELSE <<Tell(m, b \ {t})>>)
  BY <1>3 DEF TellOne
<1>5. /\ ~Idle(th) /\ Top(th).op = "tell"
      /\ UNCHANGED <<wrappers, m_index, pushed, outside, fatal, stream, history>>
  BY DEF TellOne, Inside
<1>6. f \in Frames /\ Call(f) = Top(th) /\ Top(th) \in Calls
  BY <1>1, <1>2, <1>5, CallTypes
<1>7. m \in Modules /\ b \in SUBSET Waiters /\ t \in Waiters
  BY <1>3, <1>5, <1>6, CallParts
<1>8. PICK r : r = b \ {t}
  OBVIOUS
<1>9. PICK c : c = Tell(m, r) /\ (r # {} => c \in Calls)
  BY <1>7, <1>8, CallsMade
<1>10. c.op = "tell" /\ c.mod = m /\ c.batch = r
  BY <1>9 DEF Tell
<1>11. stack' \in [Threads -> Seq(Calls)] /\ ((Ends(f) /\ r = {}) \/ Turns(f, c))
  <2>1. CASE b = {t}
    <3>1. Become(th, <<>>)
      BY <1>4, <2>1
    <3> QED
      BY <1>1, <1>2, <1>5, <1>8, <2>1, <3>1, CallEnds
  <2>2. CASE b # {t}
    <3>1. Become(th, <<c>>)
      BY <1>4, <1>8, <1>9, <2>2
    <3>2. r # {}
      BY <1>4, <1>8, <2>2
    <3>3. c \in Calls
      BY <1>9, <3>2
    <3> QED
      BY <1>1, <1>2, <1>5, <3>1, <3>3, CallTurns
  <2> QED
    BY <2>1, <2>2
<1>12. PICK e \in BOOLEAN : e = m_exceptionPtr[m]
  BY <1>1, <1>7 DEF Types
<1>13. ~m_waiting[m]
  BY <1>3, <1>5, <1>6 DEF IndInv, Looks
<1>14. Holds(Call(f), t) /\ \A u : Holds(c, u) => u # t /\ Holds(Call(f), u)
  BY <1>3, <1>4, <1>5, <1>6, <1>8, <1>10 DEF Holds
<1>15. ASSUME NEW k \in Modules, NEW n \in Producers, WaitsFor(f, k, n)
       PROVE  (t = RunTask(k) /\ Answered(k, n)') \/ WaitsFor(f, k, n)'
  <2>1. n = m /\ RunTask(k) \in b
    BY <1>3, <1>5, <1>6, <1>15, WhoWaits
  <2>2. CASE t = RunTask(k)
    <3>1. m_wasCached[n] \/ e
      BY <1>12, <1>13, <2>1 DEF IndInv, Produced
    <3>2. e => except'[t]
      BY <1>1, <1>4, <1>7, <1>12, Released, TaskTypes
    <3> QED
      BY <1>5, <1>13, <2>1, <2>2, <3>1, <3>2 DEF Answered, wrappers, RunTask
  <2>3. CASE t # RunTask(k)
    <3>1. RunTask(k) \in r /\ Turns(f, c)
      BY <1>8, <1>11, <2>1, <2>3
    <3>2. f \in Frames' /\ Call(f)' = c
      BY <3>1 DEF Turns
    <3>3. Call(f)'.op = "tell" /\ Call(f)'.mod = n /\ RunTask(k) \in Call(f)'.batch
      BY <1>10, <2>1, <3>1, <3>2
    <3> QED
      BY <3>2, <3>3 DEF WaitsFor, RunTask
  <2> QED
    BY <2>2, <2>3
<1> QED
  BY <1>4, <1>5, <1>6, <1>7, <1>10, <1>11, <1>12, <1>13, <1>14, <1>15, CallLetsGo


-----------------------------------------------------------------------------
(* What the steps of modules leave alone of the paths, and the other way round. *)

\* The calls of op stay as they are.
Same(op) == Having(op)' = Having(op) /\ \A x \in Having(op) : Call(x)' = Call(x)

\* Task t is in the task group as before, and is held as before.
StaysReady(t) == t \in ready' <=> t \in ready
StaysHeld(t)  == refCount'[t] > 0 <=> refCount[t] > 0

\* No path moves.
LEMMA PathsStay ==
    ASSUME IndInv, Same("filter"), Same("paths"),
           \A p \in Paths : StaysReady(NextTask(p)) /\ StaysHeld(NextTask(p))
    PROVE  PathsInOrder' /\ PathHolders' = PathHolders
<1>1. \A p \in Paths : FiltersOf(p)' = FiltersOf(p)
  BY DEF Same, FiltersOf
<1>2. \A p \in Paths : PathPlaces(p)' = PathPlaces(p)
  BY <1>1 DEF PathPlaces, StaysReady, StaysHeld
<1>3. PathHolders' = PathHolders
  BY <1>2 DEF PathHolders, Same
<1>4. PathsInOrder'
  <2>1. Having("paths")' = Having("paths") /\ \A x \in Having("paths") : Call(x)' = Call(x)
    BY DEF Same
  <2>2. PathsInOrder
    BY DEF IndInv
  <2>3. (\A p \in Paths : \A u, v \in PathPlaces(p) : u = v)'
    BY <1>2, <2>2 DEF PathsInOrder
  <2>4. (\A p \in Paths : PathPlaces(p) # {} => PathFilters[p] # <<>>)'
    BY <1>2, <2>2 DEF PathsInOrder
  <2>5. (\A x, y \in Having("paths") : x = y)'
    BY <2>1, <2>2 DEF PathsInOrder
  <2>6. ASSUME NEW x \in Having("paths")
        PROVE  /\ \A i, j \in 1 .. Len(Call(x).rest) : Call(x).rest[i] = Call(x).rest[j] => i = j
               /\ \A i \in 1 .. Len(Call(x).rest) : \A p \in Paths :
                     Call(x).rest[i] = p => PathPlaces(p)' = {}
    BY <1>2, <2>2 DEF PathsInOrder
  <2> QED
    BY <2>1, <2>3, <2>4, <2>5, <2>6 DEF PathsInOrder
<1> QED
  BY <1>3, <1>4

\* No path moves, nor does the stream.
LEMMA PathsKept ==
    ASSUME IndInv, Same("filter"), Same("paths"), Same("handle"),
           \A p \in Paths : StaysReady(NextTask(p)) /\ StaysHeld(NextTask(p)),
           \A t \in {AllPathsDone, RecursiveTask} : StaysReady(t) /\ refCount'[t] = refCount[t],
           UNCHANGED m_seenEvents
    PROVE  PathsInOrder' /\ OneEvent'
<1>1. PathsInOrder' /\ PathHolders' = PathHolders
  BY PathsStay
<1>2. StreamPlaces' = StreamPlaces
  BY DEF StreamPlaces, Same, StaysReady
<1>3. OneEvent'
  BY <1>1, <1>2 DEF IndInv, OneEvent, StaysReady
<1> QED
  BY <1>1, <1>3

\* No module moves: each is in one place, as before, and has its data.
LEMMA ModulesKept ==
    ASSUME IndInv, Same("acquire"), Same("work"), Same("fail"),
           \A m \in Modules : StaysReady(RunTask(m)) /\ StaysHeld(RunTask(m)),
           \A m \in HasAcquire : StaysReady(AfterAcquire(m)),
           UNCHANGED <<pushed, outside, m_workStarted, m_waiting, m_wasCached>>
    PROVE  OneStage' /\ DataThere'
<1>1. \A m \in Modules : Running(m)' = Running(m)
  BY DEF Same, Running
<1>2. \A m \in Modules : Stages(m)' = Stages(m)
  BY <1>1 DEF Stages, StaysReady, StaysHeld
<1>3. OneStage'
  BY <1>2 DEF IndInv, OneStage
<1>4. DataThere'
  <2>1. \A m : HasData(m)' = HasData(m)
    BY DEF HasData
  <2> QED
    BY <2>1 DEF IndInv, DataThere, Having, Same, StaysReady
<1> QED
  BY <1>3, <1>4

\* A reference more.
LEMMA Retained ==
    ASSUME Types, NEW t \in Tasks, Retain(t)
    PROVE  /\ refCount' \in [Tasks -> Int] /\ refCount'[t] = refCount[t] + 1
           /\ \A u \in Tasks \ {t} : refCount'[u] = refCount[u]
  BY DEF Types, Retain

\* The first of a sequence, and the others.
LEMMA RestOf ==
    ASSUME NEW S, NEW r \in Seq(S), r # <<>>
    PROVE  /\ r[1] \in S /\ Tail(r) \in Seq(S)
           /\ \A n \in Range(r) : n = r[1] \/ n \in Range(Tail(r))
           /\ Len(r) \in Nat \ {0} /\ Len(Tail(r)) = Len(r) - 1
           /\ \A i \in 1 .. Len(Tail(r)) : i + 1 \in 2 .. Len(r) /\ Tail(r)[i] = r[i + 1]
<1>1. Len(r) \in Nat \ {0} /\ r[1] \in S
  BY EmptySeq, LenProperties, ElementOfSeq
<1>2. Tail(r) \in Seq(S) /\ Len(Tail(r)) = Len(r) - 1
      /\ \A i \in 1 .. Len(Tail(r)) : i + 1 \in 2 .. Len(r) /\ Tail(r)[i] = r[i + 1]
  BY <1>1
<1>3. ASSUME NEW n \in Range(r) PROVE n = r[1] \/ n \in Range(Tail(r))
  <2>1. PICK i \in 1 .. Len(r) : n = r[i]
    BY RangeOfSeq, LenProperties DEF Range
  <2>2. CASE i # 1
    <3>1. i - 1 \in 1 .. Len(Tail(r)) /\ Tail(r)[i - 1] = n
      BY <1>1, <1>2, <2>1, <2>2
    <3>2. DOMAIN Tail(r) = 1 .. Len(Tail(r))
      BY <1>2, LenProperties
    <3> QED
      BY <3>1, <3>2 DEF Range
  <2> QED
    BY <2>1, <2>2
<1> QED
  BY <1>1, <1>2, <1>3

\* With at least one holder a task has a reference.
LEMMA HeldIsCounted ==
    ASSUME Types, Counted, NEW t \in Waiters
    PROVE  /\ refCount[t] >= 0 /\ refCount[t] \in Int
           /\ Holders(t) # {} => refCount[t] > 0
<1>1. refCount[t] \in Int /\ AtLeast(refCount[t], Holders(t))
  BY TaskTypes DEF Types, Counted
<1>2. refCount[t] >= 0
  BY <1>1, AtLeastPart
<1>3. ~(refCount[t] > 0) => Holders(t) = {}
  BY <1>1, NobodyHolds
<1> QED
  BY <1>1, <1>2, <1>3

-----------------------------------------------------------------------------
(* Prefetching *)

\* The next producer is asked for, with one more reference.
LEMMA PrefetchGoesOn ==
    ASSUME IndInv, NEW th \in Threads, PrefetchNext(th)
    PROVE  IndInv'
<1>1. Types
  BY DEF IndInv
<1>2. PICK f : f = Inner(th)
  OBVIOUS
<1>3. PICK m, r, t, n1, w : /\ m = Top(th).mod /\ r = Top(th).rest /\ t = RunTask(m)
                            /\ n1 = r[1] /\ w = Tail(r)
  OBVIOUS
<1>4. /\ ~Idle(th) /\ Top(th).op = "prefetch" /\ r # <<>>
      /\ Retain(t) /\ Become(th, <<Add(n1, t), Prefetch(m, w)>>)
      /\ UNCHANGED <<wrappers, m_index, pushed, outside, fatal, stream, history>>
  BY <1>3 DEF PrefetchNext, Inside
<1>5. f \in Frames /\ Call(f) = Top(th) /\ Top(th) \in Calls
  BY <1>1, <1>2, <1>4, CallTypes
<1>6. m \in Modules /\ t \in Waiters /\ t \in Tasks /\ r \in Seq(Producers)
  BY <1>3, <1>4, <1>5, CallParts, TaskTypes
<1>7. n1 \in Modules /\ w \in Seq(Producers) /\ \A n \in Range(r) : n = n1 \/ n \in Range(w)
  BY <1>3, <1>4, <1>6, RestOf DEF Modules
<1>8. PICK c, d : c = Prefetch(m, w) /\ d = Add(n1, t) /\ c \in Calls /\ d \in Calls
  BY <1>6, <1>7, CallsMade
<1>9. /\ c.op = "prefetch" /\ c.mod = m /\ c.rest = w
      /\ d.op = "add" /\ d.mod = n1 /\ d.task = t
  BY <1>8 DEF Prefetch, Add
<1>10. TurnsAndMakes(f, c, d) /\ stack' \in [Threads -> Seq(Calls)]
  BY <1>1, <1>2, <1>4, <1>8, CallMakes
<1>11. CallsKept(f, {c, d})
  BY <1>10, KeptCalls
<1>12. /\ refCount' \in [Tasks -> Int] /\ refCount'[t] = refCount[t] + 1
       /\ \A u \in Tasks \ {t} : refCount'[u] = refCount[u]
       /\ UNCHANGED <<except, ready>>
  BY <1>1, <1>4, <1>6, Retained DEF Retain
<1>13. Types'
  BY <1>1, <1>4, <1>10, <1>12 DEF Types, wrappers, stream, history
<1>14. f \in Holders(t) /\ refCount[t] > 0 /\ refCount[t] \in Int
  <2>1. f \in Holders(t)
    BY <1>3, <1>4, <1>5 DEF Holders, Holds
  <2> QED
    BY <1>1, <1>6, <2>1, HeldIsCounted DEF IndInv
<1>15. \A op \in Placed : Same(op)
  <2>1. SamePlaces
    BY <1>4, <1>5, <1>9, <1>10, PlacesStay DEF Placed
  <2> QED
    BY <2>1 DEF SamePlaces, Same
<1>16. OneStage' /\ DataThere'
  <2>1. \A k \in Modules : StaysReady(RunTask(k)) /\ StaysHeld(RunTask(k))
    BY <1>12, <1>14, TaskTypes DEF StaysReady, StaysHeld
  <2>2. \A k \in HasAcquire : StaysReady(AfterAcquire(k))
    BY <1>12 DEF StaysReady
  <2> QED
    BY <1>4, <1>15, <2>1, <2>2, ModulesKept DEF Placed, wrappers
<1>17. PathsInOrder' /\ OneEvent'
  <2>1. \A p \in Paths : StaysReady(NextTask(p)) /\ StaysHeld(NextTask(p))
    BY <1>12, <1>14, TaskTypes DEF StaysReady, StaysHeld
  <2>2. \A u \in {AllPathsDone, RecursiveTask} : StaysReady(u) /\ refCount'[u] = refCount[u]
    BY <1>6, <1>12, TaskTypes DEF StaysReady
  <2> QED
    BY <1>4, <1>15, <2>1, <2>2, PathsKept DEF Placed, stream
<1>18. Looks'
  <2>1. GoOn
    BY <1>4 DEF GoOn, IndInv, Looks, wrappers
  <2>2. \A z \in {c, d} : /\ z.op = "start" => m_workStarted'[z.mod]
                          /\ z.op \in {"announce", "tell"} => ~m_waiting'[z.mod]
    BY <1>9
  <2> QED
    BY <1>4, <1>5, <1>11, <2>1, <2>2, LooksKept
<1>19. NoneInCircle' /\ Produced'
  BY <1>4 DEF IndInv, NoneInCircle, Started, Produced, wrappers
<1>20. \A u : (Holds(c, u) => u = t) /\ (Holds(d, u) => u = t)
  BY <1>3, <1>9 DEF Holds
<1>21. Counted'
  <2>1. ASSUME NEW u \in Waiters PROVE AtLeast(refCount'[u], Holders(u)')
    <3>1. AtLeast(refCount[u], Holders(u)) /\ refCount[u] \in Int
      BY <1>1, TaskTypes DEF IndInv, Counted, Types
    <3>2. CASE u # t
      <4>1. Holders(u)' \subseteq Holders(u)
        <5>1. \A z \in {c, d} : ~Holds(z, u)
          BY <1>20, <3>2
        <5> QED
          BY <1>4, <1>11, <5>1, HoldersKept DEF wrappers
      <4>2. refCount'[u] = refCount[u]
        BY <1>12, <3>2, TaskTypes
      <4> QED
        BY <3>1, <4>1, <4>2, AtLeastPart
    <3>3. CASE u = t
      <4>1. Holders(u)' \subseteq Holders(u) \cup {Above(f)}
        <5>1. ASSUME NEW x \in Holders(u)', x # Above(f) PROVE x \in Holders(u)
          <6>1. CASE x \in Frames' /\ Holds(Call(x), u)'
            <7>1. CASE x = f
              BY <1>14, <3>3, <7>1
            <7>2. CASE x # f
              BY <1>10, <5>1, <6>1, <7>2 DEF TurnsAndMakes, Holders, Holds
            <7> QED
              BY <7>1, <7>2
          <6>2. CASE x \in Modules \X {0} /\ u \in listed'[x[1]]
            BY <1>4, <6>2 DEF Holders, wrappers
          <6> QED
            BY <5>1, <6>1, <6>2 DEF Holders
        <5> QED
          BY <5>1
      <4>2. AtLeast(refCount[u] + 1, Holders(u)')
        BY <3>1, <4>1, AtLeastMore
      <4> QED
        BY <1>12, <3>3, <4>2
    <3> QED
      BY <3>2, <3>3
  <2>2. \A k \in HasAcquire : refCount'[AfterAcquire(k)] = IF k \in outside' THEN 1 ELSE 0
    <3>1. \A k \in HasAcquire : AfterAcquire(k) \in Tasks \ {t}
      BY <1>6, TaskTypes
    <3>2. \A k \in HasAcquire : refCount[AfterAcquire(k)] = IF k \in outside THEN 1 ELSE 0
      BY DEF IndInv, Counted
    <3> QED
      BY <1>4, <1>12, <3>1, <3>2
  <2> QED
    BY <2>1, <2>2 DEF Counted, AtLeast
<1>22. Prefetched'
  <2> SUFFICES ASSUME NEW k \in Modules, NEW n \in Range(Gets[k])
               PROVE  (/\ refCount[RunTask(k)] > 0 =>
                             Answered(k, n) \/ \E x \in Holders(RunTask(k)) : WaitsFor(x, k, n)
                       /\ RunTask(k) \in ready => Answered(k, n))'
    BY DEF Prefetched
  <2>1. n \in Producers /\ n \in Modules
    BY GetsTypes DEF Modules
  <2>2. Answered(k, n)' <=> Answered(k, n)
    BY <1>4, <1>12 DEF Answered, wrappers
  <2>3. RunTask(k) \in ready => Answered(k, n)
    BY DEF IndInv, Prefetched
  <2>4. refCount[RunTask(k)] > 0 =>
           Answered(k, n) \/ \E x \in Holders(RunTask(k)) : WaitsFor(x, k, n)
    BY DEF IndInv, Prefetched
  <2>5. refCount'[RunTask(k)] > 0 => refCount[RunTask(k)] > 0
    BY <1>12, <1>14, TaskTypes
  <2>6. ASSUME NEW x \in Holders(RunTask(k)), WaitsFor(x, k, n)
        PROVE  \E y \in Holders(RunTask(k))' : WaitsFor(y, k, n)'
    <3>1. CASE x # f
      BY <1>4, <1>11, <2>1, <2>6, <3>1, WaitsKept DEF wrappers
    <3>2. CASE x = f
      <4>1. m = k /\ n \in Range(r)
        BY <1>3, <1>4, <1>5, <2>6, <3>2, WhoWaits
      <4>2. CASE n = n1
        <5>1. WaitsFor(Above(f), k, n)'
          BY <1>3, <1>9, <1>10, <4>1, <4>2 DEF WaitsFor, TurnsAndMakes, RunTask
        <5> QED
          BY <2>1, <5>1, WaitersHold
      <4>3. CASE n \in Range(w)
        <5>1. f \in Frames' /\ Call(f)' = c
          BY <1>10 DEF TurnsAndMakes
        <5>2. Call(f)'.op = "prefetch" /\ Call(f)'.mod = k /\ n \in Range(Call(f)'.rest)
          BY <1>9, <4>1, <4>3, <5>1
        <5>3. WaitsFor(f, k, n)'
          BY <5>1, <5>2 DEF WaitsFor, RunTask, Range
        <5> QED
          BY <2>1, <5>3, WaitersHold
      <4> QED
        BY <1>7, <4>1, <4>2, <4>3
    <3> QED
      BY <3>1, <3>2
  <2> QED
    BY <1>12, <2>2, <2>3, <2>4, <2>5, <2>6
<1> QED
  BY <1>13, <1>16, <1>17, <1>18, <1>19, <1>21, <1>22 DEF IndInv


\* A module that has not been started is nowhere.
LEMMA NotStarted ==
    ASSUME IndInv, NEW m \in Modules, ~m_workStarted[m]
    PROVE  /\ Stages(m) = {} /\ m_waiting[m]
           /\ RunTask(m) \notin ready /\ refCount[RunTask(m)] = 0 /\ Holders(RunTask(m)) = {}
<1>1. Stages(m) = {} /\ m_waiting[m]
  BY DEF IndInv, OneStage, Looks
<1>2. <<"asks", m>> \notin Stages(m) /\ <<"ready", m>> \notin Stages(m)
  BY <1>1
<1>3. ~(refCount[RunTask(m)] > 0) /\ RunTask(m) \notin ready
  BY <1>2, InPlaces
<1>4. RunTask(m) \in Waiters
  BY TaskTypes
<1> QED
  BY <1>1, <1>3, <1>4, HeldIsCounted DEF IndInv

\* The first to exchange m_workStarted makes the RunModuleTask.
LEMMA WorkStarts ==
    ASSUME IndInv, NEW th \in Threads, StartWork(th), ~m_workStarted[Top(th).mod]
    PROVE  IndInv'
<1>1. Types
  BY DEF IndInv
<1>2. PICK f : f = Inner(th)
  OBVIOUS
<1>3. PICK m, t, w : m = Top(th).mod /\ t = RunTask(m) /\ w = Gets[m]
  OBVIOUS
<1>4. /\ ~Idle(th) /\ Top(th).op = "start" /\ ~m_workStarted[m]
      /\ m_workStarted' = [m_workStarted EXCEPT ![m] = TRUE]
      /\ Retain(t) /\ Become(th, <<Prefetch(m, w)>>)
      /\ UNCHANGED <<m_waiting, m_exceptionPtr, listed, m_wasCached, m_keep,
                     m_index, pushed, outside, fatal, stream, history>>
  BY <1>3 DEF StartWork, Inside
<1>5. f \in Frames /\ Call(f) = Top(th) /\ Top(th) \in Calls /\ Above(f) \notin Frames
  BY <1>1, <1>2, <1>4, CallTypes
<1>6. m \in Modules /\ t \in Waiters /\ t \in Tasks /\ w \in Seq(Producers)
  BY <1>3, <1>4, <1>5, CallParts, TaskTypes, ScheduleAssumption
<1>7. PICK c : c = Prefetch(m, w) /\ c \in Calls
  BY <1>6, CallsMade
<1>8. c.op = "prefetch" /\ c.mod = m /\ c.rest = w
  BY <1>7 DEF Prefetch
<1>9. Turns(f, c) /\ stack' \in [Threads -> Seq(Calls)]
  BY <1>1, <1>2, <1>4, <1>7, CallTurns
<1>10. CallsKept(f, {c})
  BY <1>9, KeptCalls
<1>11. /\ refCount' \in [Tasks -> Int] /\ refCount'[t] = refCount[t] + 1
       /\ \A u \in Tasks \ {t} : refCount'[u] = refCount[u]
       /\ UNCHANGED <<except, ready>>
  BY <1>1, <1>4, <1>6, Retained DEF Retain
<1>12. /\ m_workStarted' \in [Modules -> BOOLEAN] /\ m_workStarted'[m]
       /\ \A k \in Modules \ {m} : m_workStarted'[k] = m_workStarted[k]
  BY <1>1, <1>4, <1>6 DEF Types
<1>13. Types'
  BY <1>1, <1>4, <1>9, <1>11, <1>12 DEF Types, stream, history
<1>14. /\ Stages(m) = {} /\ m_waiting[m]
       /\ t \notin ready /\ refCount[t] = 0 /\ Holders(t) = {}
  BY <1>3, <1>4, <1>6, NotStarted
<1>15. \A op \in Placed : Same(op)
  <2>1. SamePlaces
    BY <1>4, <1>5, <1>8, <1>9, PlacesStay DEF Placed
  <2> QED
    BY <2>1 DEF SamePlaces, Same
<1>16. OneStage'
  <2>1. \A k : Running(k)' = Running(k)
    BY <1>15 DEF Same, Placed, Running
  <2>2. \A k \in Modules \ {m} : refCount'[RunTask(k)] = refCount[RunTask(k)]
    BY <1>3, <1>11, TaskTypes, TaskNames
  <2>3. \A k \in Modules \ {m} : Stages(k)' = Stages(k)
    BY <1>4, <1>11, <2>1, <2>2 DEF Stages
  <2>4. Stages(m)' \subseteq {<<"asks", m>>}
    <3>1. Stages(m)' \subseteq Stages(m) \cup {<<"asks", m>>}
      BY <1>4, <1>11, <2>1 DEF Stages
    <3> QED
      BY <1>14, <3>1
  <2>5. ASSUME NEW k \in Modules
        PROVE  /\ \A s, u \in Stages(k)' : s = u
               /\ Stages(k)' # {} => m_workStarted'[k] /\ m_waiting'[k]
    <3>1. CASE k = m
      BY <1>4, <1>12, <1>14, <2>4, <3>1
    <3>2. CASE k # m
      BY <1>4, <1>12, <2>3, <3>2 DEF IndInv, OneStage
    <3> QED
      BY <3>1, <3>2
  <2> QED
    BY <2>5 DEF OneStage
<1>17. DataThere'
  <2>1. \A k : HasData(k)' = HasData(k)
    BY <1>4 DEF HasData
  <2>2. Same("acquire") /\ Same("work")
    BY <1>15 DEF Placed
  <2> QED
    BY <1>4, <1>11, <2>1, <2>2 DEF IndInv, DataThere, Having, Same
<1>18. PathsInOrder' /\ OneEvent'
  <2>1. \A p \in Paths : StaysReady(NextTask(p)) /\ StaysHeld(NextTask(p))
    BY <1>3, <1>11, TaskTypes, TaskNames DEF StaysReady, StaysHeld
  <2>2. \A u \in {AllPathsDone, RecursiveTask} : StaysReady(u) /\ refCount'[u] = refCount[u]
    BY <1>6, <1>11, TaskTypes DEF StaysReady
  <2> QED
    BY <1>4, <1>15, <2>1, <2>2, PathsKept DEF Placed, stream
<1>19. Looks'
  <2>1. GoOn
    BY <1>4, <1>12 DEF GoOn, IndInv, Looks
  <2>2. \A z \in {c} : /\ z.op = "start" => m_workStarted'[z.mod]
                       /\ z.op \in {"announce", "tell"} => ~m_waiting'[z.mod]
    BY <1>8
  <2> QED
    BY <1>4, <1>5, <1>10, <2>1, <2>2, LooksKept
<1>20. \A k \in Modules : t \notin listed[k]
  <2>1. ASSUME NEW k \in Modules, t \in listed[k] PROVE <<k, 0>> \in Holders(t)
    BY <2>1 DEF Holders
  <2> QED
    BY <1>14, <2>1
<1>21. NoneInCircle'
  <2>1. Started' = Started \cup {m} /\ listed' = listed
    BY <1>4, <1>6, <1>12, <1>14 DEF Started
  <2>2. listed[m] # {}
    <3>1. PICK y : y = <<f[1], f[2] + 1>>
      OBVIOUS
    <3>2. y \notin Frames
      BY <1>5, <3>1 DEF Above
    <3> QED
      BY <1>3, <1>4, <1>5, <3>1, <3>2 DEF IndInv, Looks
  <2>3. ASSUME NEW s \in SUBSET (Started \cup {m}), s # {}
        PROVE  \E k \in s : \E u \in listed[k] : \A j \in s : u # RunTask(j)
    <3>1. PICK r : r = s \ {m}
      OBVIOUS
    <3>2. CASE r = {}
      <4>1. s = {m}
        BY <2>3, <3>1, <3>2
      <4>2. PICK u \in listed[m] : TRUE
        BY <2>2
      <4>3. u # t
        BY <1>6, <1>20
      <4> QED
        BY <1>3, <4>1, <4>2, <4>3
    <3>3. CASE r # {}
      <4>1. PICK k \in r : \E u \in listed[k] : \A j \in r : u # RunTask(j)
        BY <3>1, <3>3 DEF IndInv, NoneInCircle
      <4>2. PICK u \in listed[k] : \A j \in r : u # RunTask(j)
        BY <4>1
      <4>3. k \in s /\ k \in Modules
        BY <1>6, <3>1 DEF Started
      <4>4. u # t
        BY <1>20, <4>2, <4>3
      <4> QED
        BY <1>3, <3>1, <4>2, <4>3, <4>4
    <3> QED
      BY <3>2, <3>3
  <2> QED
    BY <2>1, <2>3 DEF NoneInCircle
<1>22. Produced'
  BY <1>4 DEF IndInv, Produced
<1>23. \A u : Holds(c, u) => u = t
  BY <1>3, <1>8 DEF Holds
<1>24. ASSUME NEW u \in Waiters PROVE AtLeast(refCount'[u], Holders(u)')
  <2>1. AtLeast(refCount[u], Holders(u)) /\ refCount[u] \in Int
    BY <1>1, TaskTypes DEF IndInv, Counted, Types
  <2>2. CASE u # t
    <3>1. Holders(u)' \subseteq Holders(u)
      <4>1. \A z \in {c} : ~Holds(z, u)
        BY <1>23, <2>2
      <4> QED
        BY <1>4, <1>10, <4>1, HoldersKept
    <3>2. refCount'[u] = refCount[u]
      BY <1>11, <2>2, TaskTypes
    <3> QED
      BY <2>1, <3>1, <3>2, AtLeastPart
  <2>3. CASE u = t
    <3>1. Holders(u)' \subseteq Holders(u) \cup {f}
      <4>1. ASSUME NEW x \in Holders(u)', x # f PROVE x \in Holders(u)
        <5>1. CASE x \in Frames' /\ Holds(Call(x), u)'
          BY <1>9, <4>1, <5>1 DEF Turns, Holders, Holds
        <5>2. CASE x \in Modules \X {0} /\ u \in listed'[x[1]]
          BY <1>4, <5>2 DEF Holders
        <5> QED
          BY <4>1, <5>1, <5>2 DEF Holders
      <4> QED
        BY <4>1
    <3>2. AtLeast(refCount[u] + 1, Holders(u)')
      BY <2>1, <3>1, AtLeastMore
    <3> QED
      BY <1>11, <2>3, <3>2
  <2> QED
    BY <2>2, <2>3
<1>25. Counted'
  <2>1. \A k \in HasAcquire : AfterAcquire(k) \in Tasks \ {t}
    BY <1>6, TaskTypes
  <2>2. \A k \in HasAcquire : refCount[AfterAcquire(k)] = IF k \in outside THEN 1 ELSE 0
    BY DEF IndInv, Counted
  <2>3. \A k \in HasAcquire : refCount'[AfterAcquire(k)] = IF k \in outside' THEN 1 ELSE 0
    BY <1>4, <1>11, <2>1, <2>2
  <2> QED
    BY <1>24, <2>3 DEF Counted, AtLeast
<1>26. Prefetched'
  <2> SUFFICES ASSUME NEW k \in Modules, NEW n \in Range(Gets[k])
               PROVE  (/\ refCount[RunTask(k)] > 0 =>
                             Answered(k, n) \/ \E x \in Holders(RunTask(k)) : WaitsFor(x, k, n)
                       /\ RunTask(k) \in ready => Answered(k, n))'
    BY DEF Prefetched
  <2>1. n \in Producers /\ n \in Modules
    BY GetsTypes DEF Modules
  <2>2. Answered(k, n)' <=> Answered(k, n)
    BY <1>4, <1>11 DEF Answered
  <2>3. RunTask(k) \in ready => Answered(k, n)
    BY DEF IndInv, Prefetched
  <2>4. CASE k = m
    <3>1. f \in Frames' /\ Call(f)' = c
      BY <1>9 DEF Turns
    <3>2. Call(f)'.op = "prefetch" /\ Call(f)'.mod = k /\ n \in Range(Call(f)'.rest)
      BY <1>3, <1>8, <2>4, <3>1
    <3>3. WaitsFor(f, k, n)'
      BY <3>1, <3>2 DEF WaitsFor, RunTask, Range
    <3>4. \E x \in Holders(RunTask(k))' : WaitsFor(x, k, n)'
      BY <2>1, <3>3, WaitersHold
    <3> QED
      BY <1>11, <2>2, <2>3, <3>4
  <2>5. CASE k # m
    <3>1. refCount'[RunTask(k)] = refCount[RunTask(k)]
      BY <1>3, <1>11, <2>5, TaskTypes, TaskNames
    <3>2. refCount[RunTask(k)] > 0 =>
             Answered(k, n) \/ \E x \in Holders(RunTask(k)) : WaitsFor(x, k, n)
      BY DEF IndInv, Prefetched
    <3>3. ASSUME NEW x \in Holders(RunTask(k)), WaitsFor(x, k, n)
          PROVE  \E y \in Holders(RunTask(k))' : WaitsFor(y, k, n)'
      <4>1. x # f
        BY <1>4, <1>5, <3>3, WhoWaits
      <4> QED
        BY <1>4, <1>10, <2>1, <3>3, <4>1, WaitsKept
    <3> QED
      BY <1>11, <2>2, <2>3, <3>1, <3>2, <3>3
  <2> QED
    BY <2>4, <2>5
<1> QED
  BY <1>13, <1>16, <1>17, <1>18, <1>19, <1>21, <1>22, <1>25, <1>26 DEF IndInv


-----------------------------------------------------------------------------
(* The steps that move a module from one place to the next. *)

\* The calls of a module that runs.
Works == {"acquire", "work", "fail"}

\* What such a step of module m leaves alone.  It may begin the calls of s, and end f.
MovesOnly(m, f, s) ==
    /\ f \in Frames => Call(f).op \in Works /\ Call(f).mod = m
    /\ \A c \in s : \/ c.op = "serve" \/ (c.op \in Works /\ c.mod = m)
                    \/ c.op = "announce" /\ ~m_waiting'[c.mod]
    /\ \A c \in pushed \cup pushed' : c.mod # m => (c \in pushed' <=> c \in pushed)
    /\ \A k \in Modules \ {m} : k \in outside' <=> k \in outside
    /\ \A k \in HasAcquire \ {m} : StaysReady(AfterAcquire(k))
    /\ \A t \in Waiters \ {RunTask(m)} : StaysReady(t)
    /\ RunTask(m) \in ready' => RunTask(m) \in ready
    /\ \A t \in Waiters : refCount'[t] = refCount[t] /\ except'[t] = except[t]
    /\ \A t \in {AllPathsDone, RecursiveTask} : StaysReady(t) /\ refCount'[t] = refCount[t]

\* Wherever the step puts a module that is to work it has its data.
BringsData(s) ==
    /\ \A c \in s : c.op \in {"acquire", "work"} => HasData(c.mod)
    /\ \A c \in pushed' : c.op \in {"acquire", "work"} => HasData(c.mod)
    /\ \A m \in outside' : HasData(m)
    /\ \A m \in HasAcquire : AfterAcquire(m) \in ready' => HasData(m)

\* Nobody who holds a task that can wait, or waits, is concerned.
LEMMA HeldAsBefore ==
    ASSUME IndInv, NEW m \in Modules, NEW f, NEW s, CallsKept(f, s), MovesOnly(m, f, s),
           \A k \in Modules : listed'[k] \subseteq listed[k],
           \A k \in HasAcquire : refCount'[AfterAcquire(k)] = IF k \in outside' THEN 1 ELSE 0
    PROVE  /\ \A t \in Waiters : Holders(t)' \subseteq Holders(t)
           /\ Counted'
<1>1. ASSUME NEW t \in Waiters PROVE Holders(t)' \subseteq Holders(t)
  <2>1. \A c \in s : ~Holds(c, t)
    BY DEF MovesOnly, Works, Holds
  <2> QED
    BY <2>1, HoldersKept
<1>2. ASSUME NEW t \in Waiters PROVE AtLeast(refCount'[t], Holders(t)')
  <2>1. AtLeast(refCount[t], Holders(t)) /\ refCount[t] \in Int
    BY TaskTypes DEF IndInv, Counted, Types
  <2>2. refCount'[t] = refCount[t]
    BY DEF MovesOnly
  <2> QED
    BY <1>1, <2>1, <2>2, AtLeastPart
<1>3. Counted'
  BY <1>2 DEF Counted, AtLeast
<1> QED
  BY <1>1, <1>3

\* What was asked for is still to come, or is there.
LEMMA PrefetchedAsBefore ==
    ASSUME IndInv, NEW m \in Modules, NEW f, NEW s, CallsKept(f, s), MovesOnly(m, f, s),
           \A k \in Modules : listed'[k] = listed[k],
           \A n \in Producers : /\ m_wasCached[n] => m_wasCached'[n]
                                /\ ~m_waiting[n] => ~m_waiting'[n]
    PROVE  Prefetched'
<1> SUFFICES ASSUME NEW k \in Modules, NEW n \in Range(Gets[k])
             PROVE  (/\ refCount[RunTask(k)] > 0 =>
                           Answered(k, n) \/ \E x \in Holders(RunTask(k)) : WaitsFor(x, k, n)
                     /\ RunTask(k) \in ready => Answered(k, n))'
  BY DEF Prefetched
<1>1. n \in Producers /\ n \in Modules /\ RunTask(k) \in Waiters
  BY GetsTypes, TaskTypes DEF Modules
<1>2. Answered(k, n) => Answered(k, n)'
  BY <1>1 DEF Answered, MovesOnly, RunTask
<1>3. RunTask(k) \in ready' => RunTask(k) \in ready
  BY <1>1 DEF MovesOnly, StaysReady
<1>4. refCount'[RunTask(k)] = refCount[RunTask(k)]
  BY <1>1 DEF MovesOnly
<1>5. /\ RunTask(k) \in ready => Answered(k, n)
      /\ refCount[RunTask(k)] > 0 =>
            Answered(k, n) \/ \E x \in Holders(RunTask(k)) : WaitsFor(x, k, n)
  BY DEF IndInv, Prefetched
<1>6. ASSUME NEW x \in Holders(RunTask(k)), WaitsFor(x, k, n)
      PROVE  \E y \in Holders(RunTask(k))' : WaitsFor(y, k, n)'
  <2>1. f \in Frames => x # f
    BY <1>6, WhoWaits DEF MovesOnly, Works
  <2> QED
    BY <1>1, <1>6, <2>1, WaitsKept
<1> QED
  BY <1>2, <1>3, <1>4, <1>5, <1>6

\* The other modules stay where they are.
LEMMA OtherStages ==
    ASSUME NEW m \in Modules, NEW f, NEW s, CallsKept(f, s), MovesOnly(m, f, s),
           NEW k \in Modules, k # m
    PROVE  Stages(k)' = Stages(k)
<1>1. \A x : x \in Running(k)' <=> x \in Running(k)
  BY DEF Running, Having, CallsKept, MovesOnly, Works
<1>2. Running(k)' = Running(k)
  BY <1>1
<1>3. {c \in pushed' : c.mod = k} = {c \in pushed : c.mod = k}
  BY DEF MovesOnly
<1>4. RunTask(k) \in Waiters \ {RunTask(m)}
  BY TaskTypes, TaskNames
<1>5. /\ RunTask(k) \in ready' <=> RunTask(k) \in ready
      /\ refCount'[RunTask(k)] = refCount[RunTask(k)]
      /\ k \in outside' <=> k \in outside
      /\ k \in HasAcquire => (AfterAcquire(k) \in ready' <=> AfterAcquire(k) \in ready)
  BY <1>4 DEF MovesOnly, StaysReady
<1> QED
  BY <1>2, <1>3, <1>5 DEF Stages

\* A module goes from one place to the next: the invariant is kept.
LEMMA ModuleMoves ==
    ASSUME IndInv, NEW m \in Modules, NEW f, NEW s, CallsKept(f, s), MovesOnly(m, f, s),
           BringsData(s),
           NEW p, NEW q \in Stages(m), Stages(m)' \subseteq (Stages(m) \ {q}) \cup {p},
           \A k \in HasAcquire : refCount'[AfterAcquire(k)] = IF k \in outside' THEN 1 ELSE 0,
           UNCHANGED <<wrappers, m_seenEvents>>
    PROVE  /\ Counted' /\ OneStage' /\ Looks' /\ NoneInCircle' /\ PathsInOrder'
           /\ OneEvent' /\ Produced' /\ Prefetched' /\ DataThere'
<1>1. Counted'
  <2>1. \A k \in Modules : listed'[k] \subseteq listed[k]
    BY DEF wrappers
  <2> QED
    BY <2>1, HeldAsBefore
<1>2. Prefetched'
  BY PrefetchedAsBefore DEF wrappers
<1>3. Looks'
  <2>1. GoOn
    BY DEF GoOn, IndInv, Looks, wrappers
  <2>2. \A z \in s : /\ z.op = "start" => m_workStarted'[z.mod]
                     /\ z.op \in {"announce", "tell"} => ~m_waiting'[z.mod]
    BY DEF MovesOnly, Works
  <2>3. f \in Frames => Call(f).op # "insert"
    BY DEF MovesOnly, Works
  <2> QED
    BY <2>1, <2>2, <2>3, LooksKept
<1>4. NoneInCircle' /\ Produced'
  BY DEF IndInv, NoneInCircle, Started, Produced, wrappers
<1>5. PathsInOrder' /\ OneEvent'
  <2>1. Same("filter") /\ Same("paths") /\ Same("handle")
    BY HavingKept DEF Same, MovesOnly, Works
  <2>2. \A r \in Paths : StaysReady(NextTask(r)) /\ StaysHeld(NextTask(r))
    <3>1. \A r \in Paths : NextTask(r) \in Waiters \ {RunTask(m)}
      BY TaskTypes, TaskNames
    <3> QED
      BY <3>1 DEF MovesOnly, StaysHeld
  <2>3. \A t \in {AllPathsDone, RecursiveTask} : StaysReady(t) /\ refCount'[t] = refCount[t]
    BY DEF MovesOnly
  <2> QED
    BY <2>1, <2>2, <2>3, PathsKept
<1>6. OneStage'
  <2>1. ASSUME NEW k \in Modules, k # m PROVE Stages(k)' = Stages(k)
    BY <2>1, OtherStages
  <2>2. \A u \in Stages(m) : u = q
    BY DEF IndInv, OneStage
  <2>3. ASSUME NEW k \in Modules
        PROVE  /\ \A u, v \in Stages(k)' : u = v
               /\ Stages(k)' # {} => m_workStarted'[k] /\ m_waiting'[k]
    <3>1. CASE k = m
      <4>1. Stages(m)' \subseteq {p}
        BY <2>2
      <4>2. m_workStarted[m] /\ m_waiting[m]
        BY DEF IndInv, OneStage
      <4> QED
        BY <3>1, <4>1, <4>2 DEF wrappers
    <3>2. CASE k # m
      BY <2>1, <3>2 DEF IndInv, OneStage, wrappers
    <3> QED
      BY <3>1, <3>2
  <2> QED
    BY <2>3 DEF OneStage
<1>7. DataThere'
  <2>1. \A k : HasData(k)' <=> HasData(k)
    BY DEF HasData, wrappers
  <2>2. ASSUME NEW x \in Frames', Call(x)'.op \in {"acquire", "work"}
        PROVE  HasData(Call(x).mod)'
    <3>1. PICK k : k = Call(x)'.mod
      OBVIOUS
    <3>2. HasData(k)
      <4>1. CASE Call(x)' \in s
        BY <2>2, <3>1, <4>1 DEF BringsData
      <4>2. CASE Call(x)' \notin s
        <5>1. x \in Frames /\ Call(x)' = Call(x)
          BY <4>2 DEF CallsKept
        <5> QED
          BY <2>2, <3>1, <5>1 DEF IndInv, DataThere
      <4> QED
        BY <4>1, <4>2
    <3> QED
      BY <3>1, <3>2 DEF HasData, wrappers, Range
  <2> QED
    BY <2>1, <2>2 DEF DataThere, BringsData
<1> QED
  BY <1>1, <1>2, <1>3, <1>4, <1>5, <1>6, <1>7


\* Without a step of the calls.
LEMMA NoCallMoves ==
    ASSUME NEW f, f \notin Frames, UNCHANGED stack
    PROVE  CallsKept(f, {}) /\ Frames' = Frames
           /\ \A k : Running(k)' = Running(k)
<1>1. Frames' = Frames /\ \A x : Call(x)' = Call(x)
  BY DEF Frames, Call
<1> QED
  BY <1>1 DEF CallsKept, Running, Having

\* A task that a thread takes runs its call, or pushes it to the queue of the module.
LEMMA Dispatched ==
    ASSUME IndInv, NEW th \in Threads, Idle(th), NEW m \in Modules,
           NEW t \in ready, t = RunTask(m) \/ (m \in HasAcquire /\ t = AfterAcquire(m)),
           ready' = ready \ {t},
           NEW c \in QueueCalls, c.mod = m, c.op \in {"acquire", "work"} => HasData(m),
           Dispatch(th, m, c),
           UNCHANGED <<wrappers, m_index, refCount, except, outside, fatal, stream, history>>
    PROVE  IndInv'
<1>1. Types
  BY DEF IndInv
<1>2. PICK f : f = First(th)
  OBVIOUS
<1>3. f \notin Frames
  BY <1>2 DEF Idle, First, Frames
<1>4. c \in Calls /\ c.op \in Works
  BY CallsMade DEF QueueCalls, Works
<1>5. PICK s, p :
        /\ CallsKept(f, s) /\ s \subseteq {c} /\ stack' \in [Threads -> Seq(Calls)]
        /\ \/ /\ p = <<"runs", f>> /\ pushed' = pushed
              /\ \A x : x \in Running(m)' <=> x = f \/ x \in Running(m)
           \/ /\ p = <<"pushed", c>> /\ pushed' = pushed \cup {c} /\ Running(m)' = Running(m)
  <2>1. CASE RunQueue[m] = NoQueue
    <3>1. Begin(th, <<c>>) /\ UNCHANGED pushed
      BY <2>1 DEF Dispatch
    <3>2. Begins(f, c) /\ stack' \in [Threads -> Seq(Calls)]
      BY <1>1, <1>2, <1>4, <3>1, CallBegins
    <3>3. CallsKept(f, {c})
      BY <3>2, KeptCalls
    <3>4. \A x : x \in Running(m)' <=> x = f \/ x \in Running(m)
      BY <1>4, <3>2 DEF Begins, Running, Having, Works
    <3> QED
      BY <3>1, <3>2, <3>3, <3>4
  <2>2. CASE RunQueue[m] # NoQueue
    <3>1. pushed' = pushed \cup {c} /\ UNCHANGED stack
      BY <2>2 DEF Dispatch
    <3>2. CallsKept(f, {}) /\ Running(m)' = Running(m)
      BY <1>3, <3>1, NoCallMoves
    <3> QED
      BY <1>1, <3>1, <3>2 DEF Types
  <2> QED
    BY <2>1, <2>2
<1>6. /\ t \in Tasks /\ t \notin Waiters \ {RunTask(m)}
      /\ \A k \in HasAcquire \ {m} : t # AfterAcquire(k)
      /\ t # AllPathsDone /\ t # RecursiveTask
  BY <1>1, TaskTypes, TaskNames DEF Types
<1>7. Types'
  BY <1>1, <1>5 DEF Types, wrappers, stream, history
<1>8. MovesOnly(m, f, s)
  <2>1. /\ \A k \in HasAcquire \ {m} : StaysReady(AfterAcquire(k))
        /\ \A u \in Waiters \ {RunTask(m)} : StaysReady(u)
        /\ \A u \in {AllPathsDone, RecursiveTask} : StaysReady(u)
    BY <1>6 DEF StaysReady
  <2>2. \A x \in pushed \cup pushed' : x.mod # m => (x \in pushed' <=> x \in pushed)
    BY <1>5
  <2> QED
    BY <1>3, <1>4, <1>5, <2>1, <2>2 DEF MovesOnly
<1>9. BringsData(s)
  <2>1. \A x \in s : x.op \in {"acquire", "work"} => HasData(x.mod)
    BY <1>5
  <2>2. \A x \in pushed' : x.op \in {"acquire", "work"} => HasData(x.mod)
    BY <1>5 DEF IndInv, DataThere
  <2> QED
    BY <2>1, <2>2 DEF BringsData, IndInv, DataThere
<1>10. PICK q : q = IF t = RunTask(m) THEN <<"ready", m>> ELSE <<"acquired", m>>
  OBVIOUS
<1>11. q \in Stages(m)
  <2>1. RunTask(m) \in ready => <<"ready", m>> \in Stages(m)
    BY InPlaces
  <2>2. m \in HasAcquire /\ AfterAcquire(m) \in ready => <<"acquired", m>> \in Stages(m)
    BY InPlaces
  <2> QED
    BY <1>10, <2>1, <2>2
<1>12. Stages(m)' \subseteq (Stages(m) \ {q}) \cup {p}
  <2>1. t = RunTask(m) => t # AfterAcquire(m)
    BY TaskNames
  <2>2. /\ refCount'[RunTask(m)] = refCount[RunTask(m)] /\ (m \in outside' <=> m \in outside)
        /\ RunTask(m) \in ready' <=> RunTask(m) \in ready /\ t # RunTask(m)
        /\ AfterAcquire(m) \in ready' <=> AfterAcquire(m) \in ready /\ t = RunTask(m)
    BY <2>1
  <2>3. \A x \in Stages(m)' : x = p \/ (x \in Stages(m) /\ x # q)
    BY <1>5, <1>10, <2>2 DEF Stages
  <2> QED
    BY <2>3
<1>13. \A k \in HasAcquire : refCount'[AfterAcquire(k)] = IF k \in outside' THEN 1 ELSE 0
  BY DEF IndInv, Counted
<1>14. /\ Counted' /\ OneStage' /\ Looks' /\ NoneInCircle' /\ PathsInOrder'
       /\ OneEvent' /\ Produced' /\ Prefetched' /\ DataThere'
  BY <1>5, <1>8, <1>9, <1>11, <1>12, <1>13, ModuleMoves DEF stream
<1> QED
  BY <1>7, <1>14 DEF IndInv

\* The RunModuleTask has been told of all that was asked for.
LEMMA ModuleRuns ==
    ASSUME IndInv, NEW th \in Threads, NEW m \in Modules, RunModule(th, m)
    PROVE  IndInv'
<1>1. /\ Idle(th) /\ RunTask(m) \in ready /\ ready' = ready \ {RunTask(m)}
      /\ UNCHANGED <<wrappers, m_index, refCount, except, outside, fatal, stream, history>>
  BY DEF RunModule, Take
<1>2. PICK c : c = IF except[RunTask(m)] THEN Fail(m)
                   ELSE IF m \in HasAcquire THEN Acquire(m) ELSE Work(m)
  OBVIOUS
<1>3. c \in QueueCalls
  BY <1>2, CallsMade
<1>4. c.mod = m /\ (except[RunTask(m)] => c.op = "fail")
  BY <1>2 DEF Fail, Acquire, Work
<1>5. ~except[RunTask(m)] => HasData(m)
  BY <1>1 DEF IndInv, Prefetched, Answered, HasData
<1>6. Dispatch(th, m, c)
  BY <1>2 DEF RunModule
<1> QED
  BY <1>1, <1>3, <1>4, <1>5, <1>6, Dispatched

\* So has the functor made for after acquire().
LEMMA AcquiredRuns ==
    ASSUME IndInv, NEW th \in Threads, NEW m \in HasAcquire, RunAfterAcquire(th, m)
    PROVE  IndInv'
<1>1. /\ Idle(th) /\ AfterAcquire(m) \in ready /\ ready' = ready \ {AfterAcquire(m)}
      /\ UNCHANGED <<wrappers, m_index, refCount, except, outside, fatal, stream, history>>
  BY DEF RunAfterAcquire, Take
<1>2. PICK c : c = IF except[AfterAcquire(m)] THEN Fail(m) ELSE Work(m)
  OBVIOUS
<1>3. m \in Modules
  BY ScheduleAssumption
<1>4. c \in QueueCalls
  BY <1>2, <1>3, CallsMade
<1>5. c.mod = m
  BY <1>2 DEF Fail, Work
<1>6. HasData(m)
  BY <1>1 DEF IndInv, DataThere
<1>7. Dispatch(th, m, c)
  BY <1>2 DEF RunAfterAcquire
<1> QED
  BY <1>1, <1>3, <1>4, <1>5, <1>6, <1>7, Dispatched

\* A run queue begins a call that waited there.
LEMMA QueueServes ==
    ASSUME IndInv, NEW th \in Threads, ServeQueue(th)
    PROVE  IndInv'
<1>1. Types
  BY DEF IndInv
<1>2. PICK f : f = First(th)
  OBVIOUS
<1>3. PICK c \in pushed : /\ pushed' = pushed \ {c}
                          /\ Begin(th, <<c, Serve(RunQueue[c.mod])>>)
  BY DEF ServeQueue
<1>4. Idle(th) /\ UNCHANGED <<wrappers, m_index, tasks, outside, fatal, stream, history>>
  BY DEF ServeQueue
<1>5. PICK m : m = c.mod
  OBVIOUS
<1>6. c \in QueueCalls /\ c \in Calls /\ c.op \in Works /\ m \in Modules
  <2>1. c \in QueueCalls
    BY <1>1 DEF Types
  <2> QED
    BY <1>5, <2>1, CallsMade, ScheduleAssumption DEF QueueCalls, Works
<1>7. PICK v : v = Serve(RunQueue[m]) /\ v \in Calls
  <2>1. RunQueue[m] \in Range(RunQueue)
    BY <1>6, ScheduleAssumption DEF Range
  <2> QED
    BY <2>1, CallsMade
<1>8. v.op = "serve"
  BY <1>7 DEF Serve
<1>9. BeginsTwo(f, v, c) /\ stack' \in [Threads -> Seq(Calls)]
  BY <1>1, <1>2, <1>3, <1>4, <1>5, <1>6, <1>7, CallsBegin
<1>10. CallsKept(f, {v, c}) /\ f \notin Frames
  BY <1>9, KeptCalls DEF BeginsTwo
<1>11. Types'
  BY <1>1, <1>3, <1>4, <1>9 DEF Types, wrappers, tasks, stream, history
<1>12. MovesOnly(m, f, {v, c})
  BY <1>3, <1>4, <1>5, <1>6, <1>8, <1>10 DEF MovesOnly, tasks, StaysReady
<1>13. BringsData({v, c})
  BY <1>3, <1>4, <1>8 DEF BringsData, IndInv, DataThere, tasks
<1>14. PICK q, p : q = <<"pushed", c>> /\ p = <<"runs", Above(f)>>
  OBVIOUS
<1>15. q \in Stages(m)
  BY <1>3, <1>5, <1>14, InPlaces
<1>16. Stages(m)' \subseteq (Stages(m) \ {q}) \cup {p}
  <2>1. \A x : x \in Running(m)' <=> x = Above(f) \/ x \in Running(m)
    BY <1>5, <1>6, <1>8, <1>9 DEF BeginsTwo, Running, Having, Works
  <2>2. \A x \in Stages(m)' : x = p \/ (x \in Stages(m) /\ x # q)
    BY <1>3, <1>4, <1>14, <2>1 DEF Stages, tasks
  <2> QED
    BY <2>2
<1>17. \A k \in HasAcquire : refCount'[AfterAcquire(k)] = IF k \in outside' THEN 1 ELSE 0
  BY <1>4 DEF IndInv, Counted, tasks
<1>18. /\ Counted' /\ OneStage' /\ Looks' /\ NoneInCircle' /\ PathsInOrder'
       /\ OneEvent' /\ Produced' /\ Prefetched' /\ DataThere'
  BY <1>4, <1>6, <1>10, <1>12, <1>13, <1>15, <1>16, <1>17, ModuleMoves DEF stream
<1> QED
  BY <1>11, <1>18 DEF IndInv


\* A call of acquire() ends: its module is about to be somewhere else.
LEMMA AcquireOver ==
    ASSUME IndInv, NEW th \in Threads, Inside(th, "acquire"), Become(th, <<>>),
           NEW f, f = Inner(th), NEW m, m = Top(th).mod
    PROVE  /\ m \in HasAcquire /\ m \in Modules
           /\ f \in Frames /\ Call(f).op = "acquire" /\ Call(f).mod = m
           /\ CallsKept(f, {}) /\ stack' \in [Threads -> Seq(Calls)]
           /\ HasData(m)
           /\ <<"runs", f>> \in Stages(m)
           /\ \A x : x \in Running(m)' <=> x \in Running(m) /\ x # f
<1>1. Types /\ ~Idle(th) /\ Top(th).op = "acquire"
  BY DEF IndInv, Inside
<1>2. f \in Frames /\ Call(f) = Top(th) /\ Top(th) \in Calls
  BY <1>1, CallTypes
<1>3. m \in HasAcquire /\ m \in Modules
  BY <1>1, <1>2, CallParts, ScheduleAssumption
<1>4. Ends(f) /\ stack' \in [Threads -> Seq(Calls)]
  BY <1>1, CallEnds
<1>5. CallsKept(f, {})
  BY <1>4, KeptCalls
<1>6. HasData(m)
  BY <1>1, <1>2 DEF IndInv, DataThere
<1>7. f \in Running(m)
  BY <1>1, <1>2 DEF Running, Having
<1>8. <<"runs", f>> \in Stages(m)
  BY <1>7, InPlaces
<1>9. \A x : x \in Running(m)' <=> x \in Running(m) /\ x # f
  BY <1>4 DEF Ends, Running, Having
<1> QED
  BY <1>1, <1>2, <1>3, <1>4, <1>5, <1>6, <1>8, <1>9

\* acquire() gives its holder to somebody else.
LEMMA HandsOver ==
    ASSUME IndInv, NEW th \in Threads, AcquireHandsOver(th)
    PROVE  IndInv'
<1>1. Types
  BY DEF IndInv
<1>2. PICK f, m, t : f = Inner(th) /\ m = Top(th).mod /\ t = AfterAcquire(m)
  OBVIOUS
<1>3. /\ Inside(th, "acquire") /\ Become(th, <<>>)
      /\ outside' = outside \cup {m}
      /\ refCount' = [refCount EXCEPT ![t] = 1]
      /\ except' = [except EXCEPT ![t] = FALSE]
      /\ UNCHANGED <<wrappers, m_index, ready, pushed, fatal, stream, history>>
  BY <1>2 DEF AcquireHandsOver
<1>4. /\ m \in HasAcquire /\ m \in Modules
      /\ f \in Frames /\ Call(f).op = "acquire" /\ Call(f).mod = m
      /\ CallsKept(f, {}) /\ stack' \in [Threads -> Seq(Calls)]
      /\ HasData(m)
      /\ <<"runs", f>> \in Stages(m)
      /\ \A x : x \in Running(m)' <=> x \in Running(m) /\ x # f
  BY <1>2, <1>3, AcquireOver
<1>5. t \in Tasks /\ t \notin Waiters /\ t # AllPathsDone /\ t # RecursiveTask
  BY <1>2, <1>4, TaskTypes, TaskNames
<1>6. /\ refCount' \in [Tasks -> Int] /\ except' \in [Tasks -> BOOLEAN]
      /\ refCount'[t] = 1
      /\ \A u \in Tasks \ {t} : refCount'[u] = refCount[u] /\ except'[u] = except[u]
  BY <1>1, <1>3, <1>5 DEF Types
<1>7. Types'
  BY <1>1, <1>3, <1>4, <1>6 DEF Types, wrappers, stream, history
<1>8. MovesOnly(m, f, {})
  <2>1. \A u \in Waiters : u \in Tasks \ {t}
    BY <1>5, TaskTypes
  <2>2. AllPathsDone \in Tasks \ {t} /\ RecursiveTask \in Tasks \ {t}
    BY <1>5, TaskTypes
  <2> QED
    BY <1>3, <1>4, <1>6, <2>1, <2>2 DEF MovesOnly, StaysReady, Works
<1>9. BringsData({})
  BY <1>3, <1>4 DEF BringsData, IndInv, DataThere
<1>10. Stages(m)' \subseteq (Stages(m) \ {<<"runs", f>>}) \cup {<<"outside", m>>}
  <2>1. refCount'[RunTask(m)] = refCount[RunTask(m)]
    BY <1>4, <1>5, <1>6, TaskTypes
  <2>2. \A x \in Stages(m)' : x = <<"outside", m>> \/ (x \in Stages(m) /\ x # <<"runs", f>>)
    BY <1>3, <1>4, <2>1 DEF Stages
  <2> QED
    BY <2>2
<1>11. \A k \in HasAcquire : refCount'[AfterAcquire(k)] = IF k \in outside' THEN 1 ELSE 0
  <2>1. \A k \in HasAcquire \ {m} : AfterAcquire(k) \in Tasks \ {t}
    BY <1>2, TaskTypes, TaskNames
  <2>2. \A k \in HasAcquire : refCount[AfterAcquire(k)] = IF k \in outside THEN 1 ELSE 0
    BY DEF IndInv, Counted
  <2> QED
    BY <1>2, <1>3, <1>6, <2>1, <2>2
<1>12. /\ Counted' /\ OneStage' /\ Looks' /\ NoneInCircle' /\ PathsInOrder'
       /\ OneEvent' /\ Produced' /\ Prefetched' /\ DataThere'
  <2>1. PICK q, p : q = <<"runs", f>> /\ p = <<"outside", m>>
    OBVIOUS
  <2>2. q \in Stages(m) /\ Stages(m)' \subseteq (Stages(m) \ {q}) \cup {p}
    BY <1>4, <1>10, <2>1
  <2> QED
    BY <1>3, <1>4, <1>8, <1>9, <1>11, <2>2, ModuleMoves DEF stream
<1> QED
  BY <1>7, <1>12 DEF IndInv

\* acquire() ends with its holder.
LEMMA AcquireReturns ==
    ASSUME IndInv, NEW th \in Threads, NEW e \in BOOLEAN, AcquireEnds(th, e)
    PROVE  IndInv'
<1>1. Types
  BY DEF IndInv
<1>2. PICK f, m, t : f = Inner(th) /\ m = Top(th).mod /\ t = AfterAcquire(m)
  OBVIOUS
<1>3. /\ Inside(th, "acquire") /\ Become(th, <<>>)
      /\ except' = [except EXCEPT ![t] = FALSE]
      /\ ready' = ready \cup {t}
      /\ threw' \in {threw, threw \cup {m}}
      /\ UNCHANGED <<wrappers, m_index, refCount, pushed, outside, fatal, stream, runs>>
  BY <1>2 DEF AcquireEnds
<1>4. /\ m \in HasAcquire /\ m \in Modules
      /\ f \in Frames /\ Call(f).op = "acquire" /\ Call(f).mod = m
      /\ CallsKept(f, {}) /\ stack' \in [Threads -> Seq(Calls)]
      /\ HasData(m)
      /\ <<"runs", f>> \in Stages(m)
      /\ \A x : x \in Running(m)' <=> x \in Running(m) /\ x # f
  BY <1>2, <1>3, AcquireOver
<1>5. t \in Tasks /\ t \notin Waiters /\ t # AllPathsDone /\ t # RecursiveTask
  BY <1>2, <1>4, TaskTypes, TaskNames
<1>6. /\ except' \in [Tasks -> BOOLEAN]
      /\ \A u \in Tasks \ {t} : except'[u] = except[u]
  BY <1>1, <1>3, <1>5 DEF Types
<1>7. Types'
  <2>1. ready' \subseteq Tasks /\ threw' \subseteq Modules
    BY <1>1, <1>3, <1>4, <1>5 DEF Types
  <2> QED
    BY <1>1, <1>3, <1>4, <1>6, <2>1 DEF Types, wrappers, stream
<1>8. MovesOnly(m, f, {})
  <2>1. \A u \in Waiters : u \in Tasks \ {t} /\ StaysReady(u)
    BY <1>3, <1>5, TaskTypes DEF StaysReady
  <2>2. \A k \in HasAcquire \ {m} : StaysReady(AfterAcquire(k))
    BY <1>2, <1>3, TaskNames DEF StaysReady
  <2>3. \A u \in {AllPathsDone, RecursiveTask} : StaysReady(u)
    BY <1>3, <1>5 DEF StaysReady
  <2>4. RunTask(m) \in ready' => RunTask(m) \in ready
    BY <1>4, <2>1, TaskTypes DEF StaysReady
  <2> QED
    BY <1>3, <1>4, <1>6, <2>1, <2>2, <2>3, <2>4 DEF MovesOnly, Works
<1>9. BringsData({})
  <2>1. \A k \in HasAcquire : AfterAcquire(k) \in ready' => HasData(k)
    BY <1>2, <1>3, <1>4, TaskNames DEF IndInv, DataThere
  <2> QED
    BY <1>3, <2>1 DEF BringsData, IndInv, DataThere
<1>10. Stages(m)' \subseteq (Stages(m) \ {<<"runs", f>>}) \cup {<<"acquired", m>>}
  <2>1. RunTask(m) \in ready' <=> RunTask(m) \in ready
    BY <1>3, <1>4, <1>5, TaskTypes
  <2>2. \A x \in Stages(m)' : x = <<"acquired", m>> \/ (x \in Stages(m) /\ x # <<"runs", f>>)
    BY <1>3, <1>4, <2>1 DEF Stages
  <2> QED
    BY <2>2
<1>11. \A k \in HasAcquire : refCount'[AfterAcquire(k)] = IF k \in outside' THEN 1 ELSE 0
  BY <1>3 DEF IndInv, Counted
<1>12. /\ Counted' /\ OneStage' /\ Looks' /\ NoneInCircle' /\ PathsInOrder'
       /\ OneEvent' /\ Produced' /\ Prefetched' /\ DataThere'
  BY <1>3, <1>4, <1>8, <1>9, <1>10, <1>11, ModuleMoves DEF stream
<1> QED
  BY <1>7, <1>12 DEF IndInv

\* Somebody else is done with the holder.
LEMMA OutsideFinishes ==
    ASSUME IndInv, NEW m \in outside, NEW e \in BOOLEAN, OutsideDone(m, e)
    PROVE  IndInv'
<1>1. Types
  BY DEF IndInv
<1>2. PICK f, t : f = <<m, 0>> /\ t = AfterAcquire(m)
  OBVIOUS
<1>3. /\ outside' = outside \ {m} /\ Release(t, e)
      /\ threw' \in {threw, threw \cup {m}}
      /\ UNCHANGED <<wrappers, m_index, pushed, fatal, stream, runs, stack>>
  BY <1>2 DEF OutsideDone
<1>4. m \in HasAcquire /\ m \in Modules /\ HasData(m)
  BY <1>1, ScheduleAssumption DEF Types, IndInv, DataThere
<1>5. t \in Tasks /\ t \notin Waiters /\ t # AllPathsDone /\ t # RecursiveTask
  BY <1>2, <1>4, TaskTypes, TaskNames
<1>6. refCount[t] = 1
  BY <1>2, <1>4 DEF IndInv, Counted
<1>7. /\ refCount' \in [Tasks -> Int] /\ except' \in [Tasks -> BOOLEAN] /\ ready' \subseteq Tasks
      /\ refCount'[t] = 0
      /\ \A u \in Tasks \ {t} : refCount'[u] = refCount[u] /\ except'[u] = except[u]
      /\ \A u : u \in ready' <=> u \in ready \/ u = t
  BY <1>1, <1>3, <1>5, <1>6, Released
<1>8. f \notin Frames
  BY <1>2 DEF Frames
<1>9. CallsKept(f, {}) /\ Running(m)' = Running(m)
  BY <1>3, <1>8, NoCallMoves
<1>10. Types'
  <2>1. outside' \subseteq HasAcquire /\ threw' \subseteq Modules
    BY <1>1, <1>3, <1>4 DEF Types
  <2> QED
    BY <1>1, <1>3, <1>7, <2>1 DEF Types, wrappers, stream
<1>11. MovesOnly(m, f, {})
  <2>1. \A u \in Waiters : u \in Tasks \ {t} /\ StaysReady(u)
    BY <1>5, <1>7, TaskTypes DEF StaysReady
  <2>2. \A k \in HasAcquire \ {m} : StaysReady(AfterAcquire(k))
    BY <1>2, <1>7, TaskNames DEF StaysReady
  <2>3. \A u \in {AllPathsDone, RecursiveTask} : StaysReady(u) /\ refCount'[u] = refCount[u]
    BY <1>5, <1>7, TaskTypes DEF StaysReady
  <2>4. RunTask(m) \in ready' => RunTask(m) \in ready
    BY <1>4, <2>1, TaskTypes DEF StaysReady
  <2> QED
    BY <1>3, <1>7, <1>8, <2>1, <2>2, <2>3, <2>4 DEF MovesOnly
<1>12. BringsData({})
  <2>1. \A k \in HasAcquire : AfterAcquire(k) \in ready' => HasData(k)
    BY <1>2, <1>4, <1>7, TaskNames DEF IndInv, DataThere
  <2> QED
    BY <1>3, <2>1 DEF BringsData, IndInv, DataThere
<1>13. <<"outside", m>> \in Stages(m)
  BY InPlaces
<1>14. Stages(m)' \subseteq (Stages(m) \ {<<"outside", m>>}) \cup {<<"acquired", m>>}
  <2>1. /\ RunTask(m) \in ready' <=> RunTask(m) \in ready
        /\ refCount'[RunTask(m)] = refCount[RunTask(m)]
    BY <1>4, <1>5, <1>7, TaskTypes
  <2>2. \A x \in Stages(m)' : x = <<"acquired", m>> \/ (x \in Stages(m) /\ x # <<"outside", m>>)
    BY <1>3, <1>9, <2>1 DEF Stages
  <2> QED
    BY <2>2
<1>15. \A k \in HasAcquire : refCount'[AfterAcquire(k)] = IF k \in outside' THEN 1 ELSE 0
  <2>1. \A k \in HasAcquire \ {m} : AfterAcquire(k) \in Tasks \ {t}
    BY <1>2, TaskTypes, TaskNames
  <2>2. \A k \in HasAcquire : refCount[AfterAcquire(k)] = IF k \in outside THEN 1 ELSE 0
    BY DEF IndInv, Counted
  <2> QED
    BY <1>2, <1>3, <1>7, <2>1, <2>2
<1>16. /\ Counted' /\ OneStage' /\ Looks' /\ NoneInCircle' /\ PathsInOrder'
       /\ OneEvent' /\ Produced' /\ Prefetched' /\ DataThere'
  BY <1>3, <1>4, <1>9, <1>11, <1>12, <1>13, <1>14, <1>15, ModuleMoves DEF stream
<1> QED
  BY <1>10, <1>16 DEF IndInv


\* The work of a module is over, by running or not: its list waits no more.
LEMMA ModuleFinishes ==
    ASSUME IndInv, NEW th \in Threads, ~Idle(th), Top(th).op \in {"work", "fail"},
           NEW m, m = Top(th).mod, NEW e \in BOOLEAN, DoneWaiting(th, m, e),
           m_wasCached' \in [Producers -> BOOLEAN],
           \A n \in Producers : m_wasCached[n] => m_wasCached'[n],
           m \in Producers => m_wasCached'[m] \/ e,
           m_keep' \in [Filters -> BOOLEAN], runs' \in [Modules -> Nat], threw' \subseteq Modules
    PROVE  IndInv'
<1>1. Types
  BY DEF IndInv
<1>2. PICK f : f = Inner(th)
  OBVIOUS
<1>3. /\ m_waiting' = [m_waiting EXCEPT ![m] = FALSE]
      /\ m_exceptionPtr' = [m_exceptionPtr EXCEPT ![m] = e]
      /\ Become(th, <<Announce(m)>>)
      /\ UNCHANGED <<m_workStarted, listed, m_index, tasks, pushed, outside, fatal, stream>>
  BY DEF DoneWaiting
<1>4. f \in Frames /\ Call(f) = Top(th) /\ Top(th) \in Calls
  BY <1>1, <1>2, CallTypes
<1>5. m \in Modules
  BY <1>4, CallParts
<1>6. PICK c : c = Announce(m) /\ c \in Calls
  BY <1>5, CallsMade
<1>7. c.op = "announce" /\ c.mod = m
  BY <1>6 DEF Announce
<1>8. Turns(f, c) /\ stack' \in [Threads -> Seq(Calls)]
  BY <1>1, <1>2, <1>3, <1>6, CallTurns
<1>9. CallsKept(f, {c})
  BY <1>8, KeptCalls
<1>10. /\ m_waiting' \in [Modules -> BOOLEAN] /\ m_exceptionPtr' \in [Modules -> BOOLEAN]
       /\ ~m_waiting'[m] /\ m_exceptionPtr'[m] = e
       /\ \A k \in Modules \ {m} : /\ m_waiting'[k] = m_waiting[k]
                                   /\ m_exceptionPtr'[k] = m_exceptionPtr[k]
  BY <1>1, <1>3, <1>5 DEF Types
<1>11. Types'
  BY <1>1, <1>3, <1>8, <1>10 DEF Types, tasks, stream
<1>12. <<"runs", f>> \in Stages(m)
  <2>1. f \in Running(m)
    BY <1>4 DEF Running, Having
  <2> QED
    BY <2>1, InPlaces
<1>13. MovesOnly(m, f, {c})
  BY <1>3, <1>4, <1>7, <1>10 DEF MovesOnly, Works, tasks, StaysReady
<1>14. Counted'
  <2>1. \A k \in HasAcquire : refCount'[AfterAcquire(k)] = IF k \in outside' THEN 1 ELSE 0
    BY <1>3 DEF IndInv, Counted, tasks
  <2> QED
    BY <1>3, <1>5, <1>9, <1>13, <2>1, HeldAsBefore
<1>15. Prefetched'
  <2>1. \A n \in Producers : ~m_waiting[n] => ~m_waiting'[n]
    BY <1>10 DEF Modules
  <2> QED
    BY <1>3, <1>5, <1>9, <1>13, <2>1, PrefetchedAsBefore
<1>16. m_workStarted[m] /\ m_waiting[m] /\ \A u \in Stages(m) : u = <<"runs", f>>
  BY <1>5, <1>12 DEF IndInv, OneStage
<1>17. Looks'
  <2>1. GoOn
    BY <1>3, <1>10, <1>16 DEF GoOn, IndInv, Looks
  <2>2. \A z \in {c} : /\ z.op = "start" => m_workStarted'[z.mod]
                       /\ z.op \in {"announce", "tell"} => ~m_waiting'[z.mod]
    BY <1>7, <1>10
  <2>3. Call(f).op # "insert"
    BY <1>4
  <2> QED
    BY <1>9, <2>1, <2>2, <2>3, LooksKept
<1>18. NoneInCircle'
  <2>1. Started' \subseteq Started
    BY <1>3, <1>10 DEF Started
  <2> QED
    BY <1>3, <2>1, CircleKept DEF IndInv
<1>19. Produced'
  BY <1>10 DEF IndInv, Produced, Modules
<1>20. PathsInOrder' /\ OneEvent'
  <2>1. Same("filter") /\ Same("paths") /\ Same("handle")
    BY <1>4, <1>7, <1>9, HavingKept DEF Same
  <2> QED
    BY <1>3, <2>1, PathsKept DEF tasks, stream, StaysReady, StaysHeld
<1>21. OneStage'
  <2>1. ASSUME NEW k \in Modules, k # m PROVE Stages(k)' = Stages(k)
    BY <1>5, <1>9, <1>13, <2>1, OtherStages
  <2>2. Stages(m)' = {}
    <3>1. \A x : x \in Running(m)' <=> x \in Running(m) /\ x # f
      BY <1>7, <1>8 DEF Turns, Running, Having
    <3>2. \A x \in Stages(m)' : x \in Stages(m) /\ x # <<"runs", f>>
      BY <1>3, <3>1 DEF Stages, tasks
    <3> QED
      BY <1>16, <3>2
  <2>3. ASSUME NEW k \in Modules
        PROVE  /\ \A u, v \in Stages(k)' : u = v
               /\ Stages(k)' # {} => m_workStarted'[k] /\ m_waiting'[k]
    <3>1. CASE k = m
      BY <2>2, <3>1
    <3>2. CASE k # m
      BY <1>3, <1>10, <2>1, <3>2 DEF IndInv, OneStage
    <3> QED
      BY <3>1, <3>2
  <2> QED
    BY <2>3 DEF OneStage
<1>22. DataThere'
  <2>1. \A k \in Modules : HasData(k) => HasData(k)'
    BY GetsTypes DEF HasData
  <2>2. \A x \in Frames' : Call(x)'.op \in {"acquire", "work"} => x \in Frames /\ Call(x)' = Call(x)
    BY <1>7, <1>9 DEF CallsKept
  <2>3. ASSUME NEW x \in Frames', Call(x)'.op \in {"acquire", "work"}
        PROVE  HasData(Call(x).mod)'
    <3>1. x \in Frames /\ Call(x)' = Call(x)
      BY <2>2, <2>3
    <3>2. PICK k : k = Call(x).mod
      OBVIOUS
    <3>3. HasData(k) /\ k \in Modules
      BY <1>1, <2>3, <3>1, <3>2, CallTypes, CallParts, ScheduleAssumption DEF IndInv, DataThere
    <3>4. HasData(k)'
      BY <2>1, <3>3
    <3> QED
      BY <3>1, <3>2, <3>4 DEF HasData, Range
  <2>4. ASSUME NEW x \in pushed', x.op \in {"acquire", "work"} PROVE HasData(x.mod)'
    <3>1. HasData(x.mod) /\ x.mod \in Modules
      BY <1>1, <1>3, <2>4, ScheduleAssumption DEF IndInv, DataThere, Types, QueueCalls
    <3> QED
      BY <2>1, <3>1
  <2>5. HasAcquire \subseteq Modules /\ outside \subseteq Modules
    BY <1>1, ScheduleAssumption DEF Types
  <2> QED
    BY <1>3, <2>1, <2>3, <2>4, <2>5 DEF IndInv, DataThere, tasks
<1> QED
  BY <1>11, <1>14, <1>15, <1>17, <1>18, <1>19, <1>20, <1>21, <1>22 DEF IndInv

\* The work is done, has thrown, or is skipped.
LEMMA WorkEnds ==
    ASSUME IndInv, NEW th \in Threads,
           WorkThrows(th) \/ WorkSkipped(th) \/ \E keep \in BOOLEAN : WorkDone(th, keep)
    PROVE  IndInv'
<1>1. Types
  BY DEF IndInv
<1>2. PICK m : m = Top(th).mod
  OBVIOUS
<1>3. ~Idle(th) /\ Top(th).op \in {"work", "fail"} /\ m \in Modules
  <2>1. ~Idle(th) /\ Top(th).op \in {"work", "fail"}
    BY DEF WorkThrows, WorkSkipped, WorkDone, Inside
  <2>2. Top(th) \in Calls
    BY <1>1, <2>1, CallTypes
  <2> QED
    BY <1>2, <2>1, <2>2, CallParts
<1>4. CASE WorkThrows(th) \/ WorkSkipped(th)
  <2>1. DoneWaiting(th, m, TRUE) /\ UNCHANGED <<m_wasCached, m_keep, runs>>
        /\ threw' \in {threw, threw \cup {m}}
    BY <1>2, <1>4 DEF WorkThrows, WorkSkipped, history
  <2> QED
    BY <1>1, <1>2, <1>3, <2>1, ModuleFinishes DEF Types
<1>5. ASSUME NEW keep \in BOOLEAN, WorkDone(th, keep) PROVE IndInv'
  <2>1. /\ DoneWaiting(th, m, FALSE) /\ UNCHANGED threw
        /\ IF m \in Producers THEN PutData(m) ELSE KeepResult(m, keep)
        /\ runs' = [runs EXCEPT ![m] = @ + 1]
    BY <1>2, <1>5 DEF WorkDone
  <2>2. runs' \in [Modules -> Nat]
    BY <1>1, <1>3, <2>1 DEF Types
  <2>3. /\ m_wasCached' \in [Producers -> BOOLEAN]
        /\ \A n \in Producers : m_wasCached[n] => m_wasCached'[n]
        /\ m \in Producers => m_wasCached'[m]
    BY <1>1, <2>1 DEF PutData, KeepResult, Types
  <2>4. m_keep' \in [Filters -> BOOLEAN]
    BY <1>1, <2>1 DEF PutData, KeepResult, Types
  <2> QED
    BY <1>1, <1>2, <1>3, <2>1, <2>2, <2>3, <2>4, ModuleFinishes DEF Types
<1> QED
  BY <1>4, <1>5


-----------------------------------------------------------------------------
(* The steps of paths and of the stream. *)

\* What they leave alone of the modules.
PathStep(f, s) ==
    /\ f \in Frames => Call(f).op \in {"filter", "paths", "handle"}
    /\ \A c \in s : \/ c.op \in {"filter", "paths", "handle"}
                    \/ c.op = "add" /\ c.task \in {NextTask(p) : p \in Paths}
    /\ \A m \in Modules : /\ StaysReady(RunTask(m))
                          /\ refCount'[RunTask(m)] = refCount[RunTask(m)]
                          /\ except'[RunTask(m)] = except[RunTask(m)]
    /\ \A m \in HasAcquire : /\ StaysReady(AfterAcquire(m))
                             /\ refCount'[AfterAcquire(m)] = refCount[AfterAcquire(m)]

\* A task that none of the new calls has to tell anything keeps its holders.
LEMMA HeldByModules ==
    ASSUME IndInv, NEW f, NEW s, CallsKept(f, s), UNCHANGED listed,
           NEW t, \A c \in s : c.op \in {"filter", "paths", "handle"} \/ (c.op = "add" /\ c.task # t)
    PROVE  Holders(t)' \subseteq Holders(t)
<1>1. \A c \in s : ~Holds(c, t)
  BY DEF Holds
<1> QED
  BY <1>1, HoldersKept

\* The modules go on as before.
LEMMA ModulesGoOn ==
    ASSUME IndInv, NEW f, NEW s, CallsKept(f, s), PathStep(f, s),
           UNCHANGED <<wrappers, pushed, outside>>
    PROVE  OneStage' /\ Looks' /\ NoneInCircle' /\ Produced' /\ Prefetched' /\ DataThere'
<1>1. Same("acquire") /\ Same("work") /\ Same("fail")
  <2>1. \A c \in s : c.op \notin Works
    BY DEF PathStep, Works
  <2>2. f \in Frames => Call(f).op \notin Works
    BY DEF PathStep, Works
  <2> QED
    BY <2>1, <2>2, HavingKept DEF Same, Works
<1>2. OneStage' /\ DataThere'
  <2>1. \A m \in Modules : StaysReady(RunTask(m)) /\ StaysHeld(RunTask(m))
    BY DEF PathStep, StaysHeld
  <2>2. \A m \in HasAcquire : StaysReady(AfterAcquire(m))
    BY DEF PathStep
  <2> QED
    BY <1>1, <2>1, <2>2, ModulesKept DEF wrappers
<1>3. Looks'
  <2>1. GoOn
    BY DEF GoOn, IndInv, Looks, wrappers
  <2>2. \A z \in s : /\ z.op = "start" => m_workStarted'[z.mod]
                     /\ z.op \in {"announce", "tell"} => ~m_waiting'[z.mod]
    BY DEF PathStep
  <2>3. f \in Frames => Call(f).op # "insert"
    BY DEF PathStep
  <2> QED
    BY <2>1, <2>2, <2>3, LooksKept
<1>4. NoneInCircle' /\ Produced'
  BY DEF IndInv, NoneInCircle, Started, Produced, wrappers
<1>5. Prefetched'
  <2> SUFFICES ASSUME NEW k \in Modules, NEW n \in Range(Gets[k])
               PROVE  (/\ refCount[RunTask(k)] > 0 =>
                             Answered(k, n) \/ \E x \in Holders(RunTask(k)) : WaitsFor(x, k, n)
                       /\ RunTask(k) \in ready => Answered(k, n))'
    BY DEF Prefetched
  <2>1. n \in Modules
    BY GetsTypes DEF Modules
  <2>2. Answered(k, n)' <=> Answered(k, n)
    BY DEF Answered, PathStep, RunTask, wrappers
  <2>3. /\ RunTask(k) \in ready' <=> RunTask(k) \in ready
        /\ refCount'[RunTask(k)] = refCount[RunTask(k)]
    BY DEF PathStep, StaysReady
  <2>4. /\ RunTask(k) \in ready => Answered(k, n)
        /\ refCount[RunTask(k)] > 0 =>
              Answered(k, n) \/ \E x \in Holders(RunTask(k)) : WaitsFor(x, k, n)
    BY DEF IndInv, Prefetched
  <2>5. ASSUME NEW x \in Holders(RunTask(k)), WaitsFor(x, k, n)
        PROVE  \E y \in Holders(RunTask(k))' : WaitsFor(y, k, n)'
    <3>1. f \in Frames => x # f
      BY <2>5, WhoWaits DEF PathStep
    <3> QED
      BY <2>1, <2>5, <3>1, WaitsKept DEF wrappers
  <2> QED
    BY <2>2, <2>3, <2>4, <2>5
<1> QED
  BY <1>2, <1>3, <1>4, <1>5

\* With no more holders and the same references of every task that can wait ...
LEMMA CountedAsBefore ==
    ASSUME IndInv, \A t \in Waiters : Holders(t)' \subseteq Holders(t) /\ refCount'[t] = refCount[t],
           \A m \in HasAcquire : refCount'[AfterAcquire(m)] = refCount[AfterAcquire(m)],
           UNCHANGED outside
    PROVE  Counted'
<1>1. ASSUME NEW t \in Waiters PROVE AtLeast(refCount'[t], Holders(t)')
  <2>1. AtLeast(refCount[t], Holders(t)) /\ refCount[t] \in Int
    BY TaskTypes DEF IndInv, Counted, Types
  <2> QED
    BY <2>1, AtLeastPart
<1> QED
  BY <1>1 DEF IndInv, Counted, AtLeast

\* One path moves, or is over.
LEMMA PathMoves ==
    ASSUME IndInv, NEW p \in Paths, PathPlaces(p) # {}, Same("paths"),
           \A k \in Paths \ {p} : PathPlaces(k)' = PathPlaces(k),
           \A u, v \in PathPlaces(p)' : u = v
    PROVE  /\ PathsInOrder' /\ <<p, 0>> \in PathHolders
           /\ PathPlaces(p)' # {} => PathHolders' = PathHolders
           /\ PathPlaces(p)' = {} => PathHolders' \subseteq PathHolders \ {<<p, 0>>}
<1>1. PathsInOrder
  BY DEF IndInv
<1>2. (\A k \in Paths : \A u, v \in PathPlaces(k) : u = v)'
  <2>1. ASSUME NEW k \in Paths PROVE \A u, v \in PathPlaces(k)' : u = v
    BY <1>1 DEF PathsInOrder
  <2> QED
    BY <2>1
<1>3. (\A k \in Paths : PathPlaces(k) # {} => PathFilters[k] # <<>>)'
  BY <1>1 DEF PathsInOrder
<1>4. (\A x, y \in Having("paths") : x = y)'
  BY <1>1 DEF PathsInOrder, Same
<1>5. ASSUME NEW x \in Having("paths")
      PROVE  /\ \A i, j \in 1 .. Len(Call(x).rest) : Call(x).rest[i] = Call(x).rest[j] => i = j
             /\ \A i \in 1 .. Len(Call(x).rest) : \A k \in Paths :
                   Call(x).rest[i] = k => PathPlaces(k)' = {}
  <2>1. ASSUME NEW i \in 1 .. Len(Call(x).rest), NEW k \in Paths, Call(x).rest[i] = k
        PROVE  PathPlaces(k)' = {}
    <3>1. PathPlaces(k) = {}
      BY <1>1, <2>1 DEF PathsInOrder
    <3> QED
      BY <3>1
  <2> QED
    BY <1>1, <2>1 DEF PathsInOrder
<1>6. PathsInOrder'
  <2>1. (\A x \in Having("paths") :
            /\ \A i, j \in 1 .. Len(Call(x).rest) : Call(x).rest[i] = Call(x).rest[j] => i = j
            /\ \A i \in 1 .. Len(Call(x).rest) : \A k \in Paths :
                  Call(x).rest[i] = k => PathPlaces(k) = {})'
    <3> SUFFICES ASSUME NEW x \in Having("paths")'
                 PROVE  (/\ \A i, j \in 1 .. Len(Call(x).rest) : Call(x).rest[i] = Call(x).rest[j] => i = j
                         /\ \A i \in 1 .. Len(Call(x).rest) : \A k \in Paths :
                               Call(x).rest[i] = k => PathPlaces(k) = {})'
      OBVIOUS
    <3>1. x \in Having("paths") /\ Call(x)' = Call(x)
      BY DEF Same
    <3> QED
      BY <1>5, <3>1
  <2> QED
    BY <1>2, <1>3, <1>4, <2>1 DEF PathsInOrder
<1>7. <<p, 0>> \in PathHolders
  BY DEF PathHolders
<1>8. ASSUME PathPlaces(p)' # {}
      PROVE  PathHolders' = PathHolders
  <2>1. \A k \in Paths : PathPlaces(k)' # {} <=> PathPlaces(k) # {}
    BY <1>8
  <2> QED
    BY <2>1 DEF PathHolders, Same
<1>9. ASSUME PathPlaces(p)' = {}
      PROVE  PathHolders' \subseteq PathHolders \ {<<p, 0>>}
  <2>1. ASSUME NEW x \in PathHolders' PROVE x \in PathHolders /\ x # <<p, 0>>
    <3>1. CASE x \in Having("paths")'
      <4>1. x \in Having("paths")
        BY <3>1 DEF Same
      <4>2. x # <<p, 0>>
        BY <4>1 DEF Having, Frames
      <4> QED
        BY <4>1, <4>2 DEF PathHolders
    <3>2. CASE x \in Paths \X {0} /\ PathPlaces(x[1])' # {}
      <4>1. x[1] # p
        BY <1>9, <3>2
      <4>2. PathPlaces(x[1]) # {}
        BY <3>2, <4>1
      <4> QED
        BY <3>2, <4>1, <4>2 DEF PathHolders
    <3> QED
      BY <2>1, <3>1, <3>2 DEF PathHolders
  <2> QED
    BY <2>1
<1> QED
  BY <1>6, <1>7, <1>8, <1>9

\* A reference to AllPathsDoneTask goes, with who had it.
LEMMA PathReleases ==
    ASSUME IndInv, NEW x \in PathHolders, PathHolders' \subseteq PathHolders \ {x},
           Same("handle"), refCount'[AllPathsDone] = refCount[AllPathsDone] - 1,
           AllPathsDone \in ready' <=> AllPathsDone \in ready \/ refCount[AllPathsDone] = 1,
           refCount'[RecursiveTask] = refCount[RecursiveTask], StaysReady(RecursiveTask),
           UNCHANGED m_seenEvents
    PROVE  OneEvent'
<1>1. AtLeast(refCount[AllPathsDone], PathHolders) /\ refCount[AllPathsDone] \in Int
  BY TaskTypes DEF IndInv, OneEvent, Types
<1>2. AtLeast(refCount[AllPathsDone] - 1, PathHolders') /\ refCount[AllPathsDone] >= 1
  BY <1>1, AtLeastLess
<1>3. \A u \in StreamPlaces : u = <<"paths", 0>>
  <2>1. <<"paths", 0>> \in StreamPlaces
    BY <1>1, <1>2 DEF StreamPlaces
  <2> QED
    BY <2>1 DEF IndInv, OneEvent
<1>4. AllPathsDone \notin ready /\ RecursiveTask \notin ready /\ Having("handle") = {}
  <2>1. <<"ready", 0>> # <<"paths", 0>> /\ <<"over", 0>> # <<"paths", 0>>
    OBVIOUS
  <2>2. \A y : <<"begins", y>> # <<"paths", 0>>
    OBVIOUS
  <2>3. <<"ready", 0>> \notin StreamPlaces /\ <<"over", 0>> \notin StreamPlaces
        /\ \A y : <<"begins", y>> \notin StreamPlaces
    BY <1>3, <2>1, <2>2
  <2> QED
    BY <2>3 DEF StreamPlaces
<1>5. StreamPlaces' = {s \in {<<"paths", 0>>} : refCount'[AllPathsDone] > 0}
                  \cup {s \in {<<"ready", 0>>} : refCount[AllPathsDone] = 1}
  BY <1>4 DEF StreamPlaces, Same, StaysReady
<1>6. refCount'[AllPathsDone] > 0 <=> refCount[AllPathsDone] # 1
  BY <1>1, <1>2
<1>7. (\A s, u \in StreamPlaces : s = u)'
  BY <1>5, <1>6
<1>8. refCount'[RecursiveTask] = 1 /\ m_seenEvents <= NEvents
  <2>1. <<"paths", 0>> \in StreamPlaces
    BY <1>1, <1>2 DEF StreamPlaces
  <2> QED
    BY <1>1, <1>2, <2>1 DEF IndInv, OneEvent
<1>9. refCount'[AllPathsDone] > 0 \/ AllPathsDone \in ready'
  BY <1>6
<1>10. AtLeast(refCount'[AllPathsDone], PathHolders')
  BY <1>2
<1> QED
  BY <1>7, <1>8, <1>9, <1>10 DEF OneEvent, AtLeast

\* No reference to AllPathsDoneTask comes or goes, and no path begins.
LEMMA EventGoesOn ==
    ASSUME IndInv, PathHolders' \subseteq PathHolders, Same("handle"),
           \A t \in {AllPathsDone, RecursiveTask} : StaysReady(t) /\ refCount'[t] = refCount[t],
           UNCHANGED m_seenEvents
    PROVE  OneEvent'
<1>1. AtLeast(refCount[AllPathsDone], PathHolders) /\ refCount[AllPathsDone] \in Int
  BY TaskTypes DEF IndInv, OneEvent, Types
<1>2. AtLeast(refCount[AllPathsDone], PathHolders')
  <2>1. PICK n, h, g : n = refCount[AllPathsDone] /\ h = PathHolders /\ g = PathHolders'
    OBVIOUS
  <2>2. AtLeast(n, g)
    BY <1>1, <2>1, AtLeastPart
  <2> QED
    BY <2>1, <2>2
<1>3. StreamPlaces' = StreamPlaces
  BY DEF StreamPlaces, Same, StaysReady
<1>4. AtLeast(refCount'[AllPathsDone], PathHolders')
  BY <1>2
<1> QED
  BY <1>3, <1>4 DEF IndInv, OneEvent, StaysReady, AtLeast

\* The other paths are where they were.
LEMMA OtherPaths ==
    ASSUME NEW f, NEW s, CallsKept(f, s), NEW p \in Paths,
           f \in Frames => Call(f).op # "filter" \/ Call(f).path = p,
           \A c \in s : c.op # "filter" \/ c.path = p,
           \A k \in Paths \ {p} : StaysReady(NextTask(k)) /\ StaysHeld(NextTask(k))
    PROVE  \A k \in Paths \ {p} : PathPlaces(k)' = PathPlaces(k)
<1> SUFFICES ASSUME NEW k \in Paths \ {p}
             PROVE  PathPlaces(k)' = PathPlaces(k)
  OBVIOUS
<1>1. \A x : x \in FiltersOf(k)' <=> x \in FiltersOf(k)
  BY DEF FiltersOf, Having, CallsKept
<1>2. FiltersOf(k)' = FiltersOf(k)
  BY <1>1
<1> QED
  BY <1>2 DEF PathPlaces, StaysReady, StaysHeld

\* A path in runFilterAsync is nowhere else.
LEMMA PathBegins ==
    ASSUME IndInv, NEW p \in Paths, NEW f \in FiltersOf(p)
    PROVE  /\ refCount[NextTask(p)] = 0 /\ NextTask(p) \notin ready
           /\ \A x \in FiltersOf(p) : x = f
           /\ PathPlaces(p) # {} /\ PathFilters[p] # <<>>
<1>1. <<"begins", f>> \in PathPlaces(p)
  BY InPlaces
<1>2. \A s \in PathPlaces(p) : s = <<"begins", f>>
  BY <1>1 DEF IndInv, PathsInOrder
<1>3. <<"asks", p>> # <<"begins", f>> /\ <<"ready", p>> # <<"begins", f>>
  OBVIOUS
<1>4. <<"asks", p>> \notin PathPlaces(p) /\ <<"ready", p>> \notin PathPlaces(p)
  BY <1>2, <1>3
<1>5. ~(refCount[NextTask(p)] > 0) /\ NextTask(p) \notin ready
  BY <1>4, InPlaces
<1>6. refCount[NextTask(p)] >= 0 /\ refCount[NextTask(p)] \in Int
  BY HeldIsCounted, TaskTypes DEF IndInv
<1>7. ASSUME NEW x \in FiltersOf(p) PROVE x = f
  <2>1. <<"begins", x>> \in PathPlaces(p)
    BY InPlaces
  <2> QED
    BY <1>2, <2>1
<1> QED
  BY <1>1, <1>5, <1>6, <1>7 DEF IndInv, PathsInOrder

\* The job has failed: the path ends before its next filter.
LEMMA PathStops ==
    ASSUME IndInv, NEW th \in Threads, AskFilter(th), fatal
    PROVE  IndInv'
<1>1. Types
  BY DEF IndInv
<1>2. PICK f, p : f = Inner(th) /\ p = Top(th).path
  OBVIOUS
<1>3. /\ ~Idle(th) /\ Top(th).op = "filter"
      /\ Release(AllPathsDone, FALSE) /\ Become(th, <<>>)
      /\ UNCHANGED <<wrappers, m_index, pushed, outside, fatal, stream, history>>
  BY DEF AskFilter, Inside
<1>4. f \in Frames /\ Call(f) = Top(th) /\ Top(th) \in Calls
  BY <1>1, <1>2, <1>3, CallTypes
<1>5. p \in Paths /\ f \in FiltersOf(p)
  BY <1>2, <1>3, <1>4, CallParts DEF FiltersOf, Having
<1>6. Ends(f) /\ stack' \in [Threads -> Seq(Calls)]
  BY <1>1, <1>2, <1>3, CallEnds
<1>7. CallsKept(f, {})
  BY <1>6, KeptCalls
<1>8. /\ refCount' \in [Tasks -> Int] /\ except' \in [Tasks -> BOOLEAN] /\ ready' \subseteq Tasks
      /\ refCount'[AllPathsDone] = refCount[AllPathsDone] - 1
      /\ \A u \in Tasks \ {AllPathsDone} : refCount'[u] = refCount[u] /\ except'[u] = except[u]
      /\ \A u : u \in ready' <=> u \in ready \/ (u = AllPathsDone /\ refCount[AllPathsDone] = 1)
  BY <1>1, <1>3, Released, TaskTypes
<1>9. \A u \in Waiters : u \in Tasks \ {AllPathsDone} /\ StaysReady(u)
  BY <1>8, TaskTypes DEF StaysReady
<1>10. \A m \in HasAcquire : AfterAcquire(m) \in Tasks \ {AllPathsDone}
                             /\ StaysReady(AfterAcquire(m))
  BY <1>8, TaskTypes, TaskNames DEF StaysReady
<1>11. Types'
  BY <1>1, <1>3, <1>6, <1>8 DEF Types, wrappers, stream, history
<1>12. PathStep(f, {})
  BY <1>3, <1>4, <1>8, <1>9, <1>10, TaskTypes DEF PathStep
<1>13. OneStage' /\ Looks' /\ NoneInCircle' /\ Produced' /\ Prefetched' /\ DataThere'
  BY <1>3, <1>7, <1>12, ModulesGoOn
<1>14. Counted'
  <2>1. \A t \in Waiters : Holders(t)' \subseteq Holders(t)
    BY <1>3, <1>7, HeldByModules DEF wrappers
  <2> QED
    BY <1>3, <1>8, <1>9, <1>10, <2>1, CountedAsBefore
<1>15. \A k \in Paths \ {p} : PathPlaces(k)' = PathPlaces(k)
  <2>1. \A k \in Paths \ {p} : StaysReady(NextTask(k)) /\ StaysHeld(NextTask(k))
    BY <1>8, <1>9, TaskTypes DEF StaysHeld
  <2> QED
    BY <1>2, <1>4, <1>5, <1>7, <2>1, OtherPaths
<1>16. PathPlaces(p)' = {}
  <2>1. refCount[NextTask(p)] = 0 /\ NextTask(p) \notin ready /\ \A x \in FiltersOf(p) : x = f
    BY <1>5, PathBegins
  <2>2. refCount'[NextTask(p)] = 0 /\ NextTask(p) \notin ready'
    BY <1>5, <1>8, <1>9, <2>1, TaskTypes DEF StaysReady
  <2>3. \A x : x \notin FiltersOf(p)'
    BY <1>6, <2>1 DEF Ends, FiltersOf, Having
  <2> QED
    BY <2>2, <2>3 DEF PathPlaces
<1>17. Same("paths") /\ Same("handle")
  BY <1>3, <1>4, <1>7, HavingKept DEF Same
<1>18. /\ PathsInOrder' /\ <<p, 0>> \in PathHolders
       /\ PathHolders' \subseteq PathHolders \ {<<p, 0>>}
  BY <1>5, <1>15, <1>16, <1>17, PathBegins, PathMoves
<1>19. OneEvent'
  <2>1. PICK x : x = <<p, 0>>
    OBVIOUS
  <2>2. x \in PathHolders /\ PathHolders' \subseteq PathHolders \ {x}
    BY <1>18, <2>1
  <2>3. refCount'[RecursiveTask] = refCount[RecursiveTask] /\ StaysReady(RecursiveTask)
    BY <1>8, TaskTypes, TaskNames DEF StaysReady
  <2>4. AllPathsDone \in ready' <=> AllPathsDone \in ready \/ refCount[AllPathsDone] = 1
    BY <1>8
  <2> QED
    BY <1>3, <1>8, <1>17, <2>2, <2>3, <2>4, PathReleases DEF stream
<1> QED
  BY <1>11, <1>13, <1>14, <1>18, <1>19 DEF IndInv

\* The path asks for its filter.
LEMMA PathAsks ==
    ASSUME IndInv, NEW th \in Threads, AskFilter(th), ~fatal
    PROVE  IndInv'
<1>1. Types
  BY DEF IndInv
<1>2. PICK f, p, t : f = Inner(th) /\ p = Top(th).path /\ t = NextTask(p)
  OBVIOUS
<1>3. /\ ~Idle(th) /\ Top(th).op = "filter"
      /\ Retain(t) /\ Become(th, <<Add(PathFilters[p][m_index[p]], t)>>)
      /\ UNCHANGED <<wrappers, m_index, pushed, outside, fatal, stream, history>>
  BY <1>2 DEF AskFilter, Inside
<1>4. f \in Frames /\ Call(f) = Top(th) /\ Top(th) \in Calls
  BY <1>1, <1>2, <1>3, CallTypes
<1>5. p \in Paths /\ f \in FiltersOf(p) /\ t \in Waiters
  BY <1>2, <1>3, <1>4, CallParts, TaskTypes DEF FiltersOf, Having
<1>6. refCount[t] = 0 /\ t \notin ready /\ (\A x \in FiltersOf(p) : x = f)
      /\ PathPlaces(p) # {} /\ PathFilters[p] # <<>>
  BY <1>2, <1>5, PathBegins
<1>7. PICK m : m = PathFilters[p][m_index[p]]
  OBVIOUS
<1>8. m \in Modules
  <2>1. PathFilters[p] \in Seq(Filters) /\ m_index[p] \in 1 .. Len(PathFilters[p]) \cup {1}
    BY <1>1, <1>5, ScheduleAssumption DEF Types
  <2>2. Len(PathFilters[p]) \in Nat \ {0}
    BY <1>6, <2>1, EmptySeq, LenProperties
  <2>3. m_index[p] \in 1 .. Len(PathFilters[p])
    BY <2>1, <2>2
  <2> QED
    BY <1>7, <2>1, <2>3, ElementOfSeq DEF Modules
<1>9. PICK c : c = Add(m, t)
  OBVIOUS
<1>10. c \in Calls /\ c.op = "add" /\ c.task = t
  BY <1>5, <1>8, <1>9, CallsMade DEF Add
<1>11. Turns(f, c) /\ stack' \in [Threads -> Seq(Calls)]
  <2>1. Become(th, <<c>>)
    BY <1>3, <1>7, <1>9
  <2> QED
    BY <1>1, <1>2, <1>3, <1>10, <2>1, CallTurns
<1>12. CallsKept(f, {c})
  BY <1>11, KeptCalls
<1>13. /\ refCount' \in [Tasks -> Int] /\ refCount'[t] = 1
       /\ \A u \in Tasks \ {t} : refCount'[u] = refCount[u]
       /\ UNCHANGED <<except, ready>>
  <2>1. t \in Tasks /\ Retain(t)
    BY <1>3, <1>5, TaskTypes
  <2>2. refCount' \in [Tasks -> Int] /\ refCount'[t] = refCount[t] + 1
        /\ \A u \in Tasks \ {t} : refCount'[u] = refCount[u]
    BY <1>1, <2>1, Retained
  <2>3. refCount'[t] = 1
    BY <1>6, <2>2
  <2> QED
    BY <2>1, <2>2, <2>3 DEF Retain
<1>14. Types'
  BY <1>1, <1>3, <1>11, <1>13 DEF Types, wrappers, stream, history
<1>15. \A u : StaysReady(u)
  BY <1>13 DEF StaysReady
<1>16. /\ \A k \in Modules : RunTask(k) \in Tasks \ {t}
       /\ \A k \in HasAcquire : AfterAcquire(k) \in Tasks \ {t}
       /\ AllPathsDone \in Tasks \ {t} /\ RecursiveTask \in Tasks \ {t}
       /\ \A k \in Paths \ {p} : NextTask(k) \in Tasks \ {t}
  BY <1>2, TaskTypes, TaskNames
<1>17. PathStep(f, {c})
  <2>1. c.task \in {NextTask(k) : k \in Paths}
    BY <1>2, <1>5, <1>10
  <2> QED
    BY <1>3, <1>4, <1>10, <1>13, <1>15, <1>16, <2>1 DEF PathStep
<1>18. OneStage' /\ Looks' /\ NoneInCircle' /\ Produced' /\ Prefetched' /\ DataThere'
  BY <1>3, <1>12, <1>17, ModulesGoOn
<1>19. Counted'
  <2>1. \A u \in Waiters \ {t} : Holders(u)' \subseteq Holders(u)
    BY <1>3, <1>10, <1>12, HeldByModules DEF wrappers
  <2>2. Holders(t)' \subseteq Holders(t) \cup {f}
    <3>1. UNCHANGED listed
      BY <1>3 DEF wrappers
    <3>2. t' = t
      BY <1>2 DEF NextTask
    <3> QED
      BY <1>11, <3>1, <3>2 DEF Holders, Turns, Holds, RunTask
  <2>3. ASSUME NEW u \in Waiters PROVE AtLeast(refCount'[u], Holders(u)')
    <3>1. AtLeast(refCount[u], Holders(u)) /\ refCount[u] \in Int
      BY <1>1, TaskTypes DEF IndInv, Counted, Types
    <3>2. CASE u # t
      <4>1. refCount'[u] = refCount[u]
        BY <1>13, <3>2, TaskTypes
      <4> QED
        BY <2>1, <3>1, <3>2, <4>1, AtLeastPart
    <3>3. CASE u = t
      <4>1. AtLeast(0, Holders(t)) /\ refCount'[u] = 0 + 1
        BY <1>6, <1>13, <3>1, <3>3
      <4>2. PICK n, h, g : n \in Int /\ n = 0 /\ h = Holders(t) /\ g = Holders(t)'
        OBVIOUS
      <4>3. AtLeast(n + 1, g)
        <5>1. n \in Int /\ AtLeast(n, h) /\ g \subseteq h \cup {f}
          BY <2>2, <4>1, <4>2
        <5> QED
          BY <5>1, AtLeastMore
      <4>4. n + 1 = refCount'[u] /\ g = Holders(u)'
        BY <1>2, <3>3, <4>1, <4>2 DEF NextTask
      <4> QED
        BY <4>3, <4>4
    <3> QED
      BY <3>2, <3>3
  <2>4. \A k \in HasAcquire : refCount'[AfterAcquire(k)] = refCount[AfterAcquire(k)]
    BY <1>13, <1>16
  <2> QED
    BY <1>3, <2>3, <2>4 DEF IndInv, Counted, AtLeast
<1>20. \A k \in Paths \ {p} : PathPlaces(k)' = PathPlaces(k)
  <2>1. \A k \in Paths \ {p} : StaysReady(NextTask(k)) /\ StaysHeld(NextTask(k))
    BY <1>13, <1>15, <1>16 DEF StaysHeld
  <2> QED
    BY <1>2, <1>4, <1>5, <1>10, <1>12, <2>1, OtherPaths
<1>21. \A s \in PathPlaces(p)' : s = <<"asks", p>>
  <2>1. NextTask(p) \notin ready'
    BY <1>2, <1>6, <1>13
  <2>2. \A x : x \notin FiltersOf(p)'
    BY <1>6, <1>10, <1>11 DEF Turns, FiltersOf, Having
  <2> QED
    BY <2>1, <2>2 DEF PathPlaces
<1>22. PathPlaces(p)' # {}
  <2>1. refCount'[NextTask(p)] > 0
    BY <1>2, <1>13
  <2>2. <<"asks", p>> \in PathPlaces(p)'
    BY <2>1 DEF PathPlaces
  <2> QED
    BY <2>2
<1>23. Same("paths") /\ Same("handle")
  BY <1>3, <1>4, <1>10, <1>12, HavingKept DEF Same
<1>24. PathsInOrder' /\ PathHolders' = PathHolders
  BY <1>5, <1>6, <1>20, <1>21, <1>22, <1>23, PathMoves
<1>25. OneEvent'
  BY <1>3, <1>13, <1>15, <1>16, <1>23, <1>24, EventGoesOn DEF stream
<1> QED
  BY <1>14, <1>18, <1>19, <1>24, <1>25 DEF IndInv

\* A path whose NextFilterTask is ready is nowhere else.
LEMMA PathIsReady ==
    ASSUME IndInv, NEW p \in Paths, NextTask(p) \in ready
    PROVE  refCount[NextTask(p)] = 0 /\ FiltersOf(p) = {} /\ PathPlaces(p) # {}
<1>1. <<"ready", p>> \in PathPlaces(p)
  BY InPlaces
<1>2. \A s \in PathPlaces(p) : s = <<"ready", p>>
  BY <1>1 DEF IndInv, PathsInOrder
<1>3. <<"asks", p>> # <<"ready", p>> /\ \A x : <<"begins", x>> # <<"ready", p>>
  OBVIOUS
<1>4. <<"asks", p>> \notin PathPlaces(p) /\ \A x : <<"begins", x>> \notin PathPlaces(p)
  BY <1>2, <1>3
<1>5. ~(refCount[NextTask(p)] > 0) /\ FiltersOf(p) = {}
  BY <1>4, InPlaces
<1>6. refCount[NextTask(p)] >= 0 /\ refCount[NextTask(p)] \in Int
  BY HeldIsCounted, TaskTypes DEF IndInv
<1> QED
  BY <1>1, <1>5, <1>6

\* The filter has kept the event: the path goes on with the next.
LEMMA PathAdvances ==
    ASSUME IndInv, NEW th \in Threads, NEW p \in Paths, Take(th, NextTask(p)),
           m_index[p] < Len(PathFilters[p]), m_index' = [m_index EXCEPT ![p] = @ + 1],
           Begin(th, <<RunFilter(p)>>),
           UNCHANGED <<wrappers, refCount, except, pushed, outside, fatal, stream, history>>
    PROVE  IndInv'
<1>1. Types
  BY DEF IndInv
<1>2. PICK f, t, c : f = First(th) /\ t = NextTask(p) /\ c = RunFilter(p)
  OBVIOUS
<1>3. Idle(th) /\ t \in ready /\ ready' = ready \ {t}
  BY <1>2 DEF Take
<1>4. refCount[t] = 0 /\ FiltersOf(p) = {} /\ PathPlaces(p) # {}
  BY <1>2, <1>3, PathIsReady
<1>5. c \in Calls /\ c.op = "filter" /\ c.path = p
  <2>1. PathFilters[p] # <<>>
    BY <1>4 DEF IndInv, PathsInOrder
  <2> QED
    BY <1>2, <2>1, CallsMade DEF RunFilter
<1>6. Begins(f, c) /\ stack' \in [Threads -> Seq(Calls)]
  BY <1>1, <1>2, <1>3, <1>5, CallBegins
<1>7. CallsKept(f, {c}) /\ f \notin Frames
  BY <1>6, KeptCalls DEF Begins
<1>8. t \in Waiters
  BY <1>2, TaskTypes
<1>9. Types'
  <2>1. DOMAIN m_index' = Paths /\ \A k \in Paths : m_index'[k] \in 1 .. Len(PathFilters[k]) \cup {1}
    <3>1. PathFilters[p] \in Seq(Filters) /\ m_index[p] \in 1 .. Len(PathFilters[p]) \cup {1}
      BY <1>1, ScheduleAssumption DEF Types
    <3>2. m_index[p] + 1 \in 1 .. Len(PathFilters[p])
      BY <3>1, LenProperties
    <3> QED
      BY <1>1, <3>2 DEF Types
  <2>2. ready' \subseteq Tasks
    BY <1>1, <1>3 DEF Types
  <2> QED
    BY <1>1, <1>6, <2>1, <2>2 DEF Types, wrappers, stream, history
<1>10. \A u : u # t => StaysReady(u)
  BY <1>3 DEF StaysReady
<1>11. /\ \A k \in Modules : RunTask(k) # t
       /\ \A k \in HasAcquire : AfterAcquire(k) # t
       /\ AllPathsDone # t /\ RecursiveTask # t
       /\ \A k \in Paths \ {p} : NextTask(k) # t
  BY <1>2, TaskNames
<1>12. PathStep(f, {c})
  BY <1>5, <1>7, <1>10, <1>11 DEF PathStep
<1>13. OneStage' /\ Looks' /\ NoneInCircle' /\ Produced' /\ Prefetched' /\ DataThere'
  BY <1>7, <1>12, ModulesGoOn
<1>14. Counted'
  <2>1. \A u \in Waiters : Holders(u)' \subseteq Holders(u)
    BY <1>5, <1>7, HeldByModules DEF wrappers
  <2> QED
    BY <2>1, CountedAsBefore
<1>15. \A k \in Paths \ {p} : PathPlaces(k)' = PathPlaces(k)
  <2>1. \A k \in Paths \ {p} : StaysReady(NextTask(k)) /\ StaysHeld(NextTask(k))
    BY <1>10, <1>11 DEF StaysHeld
  <2> QED
    BY <1>5, <1>7, <2>1, OtherPaths
<1>16. \A x : x \in FiltersOf(p)' <=> x = f
  BY <1>4, <1>5, <1>6 DEF Begins, FiltersOf, Having
<1>17. \A s \in PathPlaces(p)' : s = <<"begins", f>>
  <2>1. NextTask(p) \notin ready' /\ ~(refCount'[NextTask(p)] > 0)
    BY <1>2, <1>3, <1>4
  <2> QED
    BY <1>16, <2>1 DEF PathPlaces
<1>18. PathPlaces(p)' # {}
  <2>1. <<"begins", f>> \in PathPlaces(p)'
    BY <1>16 DEF PathPlaces
  <2> QED
    BY <2>1
<1>19. Same("paths") /\ Same("handle")
  BY <1>5, <1>7, HavingKept DEF Same
<1>20. PathsInOrder' /\ PathHolders' = PathHolders
  BY <1>4, <1>15, <1>17, <1>18, <1>19, PathMoves
<1>21. OneEvent'
  BY <1>10, <1>11, <1>19, <1>20, EventGoesOn DEF stream
<1> QED
  BY <1>9, <1>13, <1>14, <1>20, <1>21 DEF IndInv

\* Otherwise the path is done.
LEMMA PathEnds ==
    ASSUME IndInv, NEW p \in Paths, NextTask(p) \in ready,
           except' = [except EXCEPT ![AllPathsDone] = @ \/ except[NextTask(p)]],
           refCount' = [refCount EXCEPT ![AllPathsDone] = @ - 1],
           ready' = (ready \ {NextTask(p)})
                       \cup (IF refCount[AllPathsDone] = 1 THEN {AllPathsDone} ELSE {}),
           UNCHANGED <<m_index, stack, wrappers, pushed, outside, fatal, stream, history>>
    PROVE  IndInv'
<1>1. Types
  BY DEF IndInv
<1>2. PICK f, t : f = <<p, 0>> /\ t = NextTask(p)
  OBVIOUS
<1>3. refCount[t] = 0 /\ FiltersOf(p) = {} /\ PathPlaces(p) # {}
  BY <1>2, PathIsReady
<1>4. f \notin Frames
  BY <1>2 DEF Frames
<1>5. CallsKept(f, {}) /\ Frames' = Frames
  BY <1>4, NoCallMoves
<1>6. t \in Waiters /\ t \in Tasks /\ AllPathsDone \in Tasks /\ t # AllPathsDone
  BY <1>2, TaskTypes, TaskNames
<1>7. /\ refCount' \in [Tasks -> Int] /\ refCount'[AllPathsDone] = refCount[AllPathsDone] - 1
      /\ \A u \in Tasks \ {AllPathsDone} : refCount'[u] = refCount[u]
  BY <1>1, <1>6 DEF Types
<1>8. except' \in [Tasks -> BOOLEAN] /\ \A u \in Tasks \ {AllPathsDone} : except'[u] = except[u]
  <2>1. PICK b \in BOOLEAN : b = (except[AllPathsDone] \/ except[NextTask(p)])
    BY <1>1 DEF Types
  <2>2. except' = [except EXCEPT ![AllPathsDone] = b]
    BY <2>1
  <2> QED
    BY <1>1, <2>2 DEF Types
<1>9. \A u : u \in ready' <=> (u \in ready /\ u # t) \/ (u = AllPathsDone /\ refCount[u] = 1)
  BY <1>2
<1>10. ready' \subseteq Tasks
  BY <1>1, <1>6, <1>9 DEF Types
<1>11. Types'
  BY <1>1, <1>7, <1>8, <1>10 DEF Types, wrappers, stream, history
<1>12. \A u \in Tasks : u # t /\ u # AllPathsDone => StaysReady(u)
  BY <1>9 DEF StaysReady
<1>13. /\ \A k \in Modules : RunTask(k) \in Tasks /\ RunTask(k) # t /\ RunTask(k) # AllPathsDone
       /\ \A k \in HasAcquire : /\ AfterAcquire(k) \in Tasks /\ AfterAcquire(k) # t
                                /\ AfterAcquire(k) # AllPathsDone
       /\ RecursiveTask \in Tasks /\ RecursiveTask # t /\ RecursiveTask # AllPathsDone
       /\ \A k \in Paths \ {p} : /\ NextTask(k) \in Tasks /\ NextTask(k) # t
                                 /\ NextTask(k) # AllPathsDone
  BY <1>2, TaskTypes, TaskNames
<1>14. PathStep(f, {})
  BY <1>4, <1>7, <1>8, <1>12, <1>13 DEF PathStep
<1>15. OneStage' /\ Looks' /\ NoneInCircle' /\ Produced' /\ Prefetched' /\ DataThere'
  BY <1>5, <1>14, ModulesGoOn
<1>16. Counted'
  <2>1. \A u \in Waiters : Holders(u)' \subseteq Holders(u)
    BY <1>5, HeldByModules DEF wrappers
  <2>2. \A u \in Waiters : refCount'[u] = refCount[u]
    BY <1>7, TaskTypes
  <2> QED
    BY <1>7, <1>13, <2>1, <2>2, CountedAsBefore
<1>17. \A k \in Paths \ {p} : PathPlaces(k)' = PathPlaces(k)
  <2>1. \A k \in Paths \ {p} : StaysReady(NextTask(k)) /\ StaysHeld(NextTask(k))
    BY <1>7, <1>12, <1>13 DEF StaysHeld
  <2> QED
    BY <1>4, <1>5, <2>1, OtherPaths
<1>18. PathPlaces(p)' = {}
  <2>1. NextTask(p) \notin ready' /\ ~(refCount'[NextTask(p)] > 0)
    BY <1>2, <1>3, <1>6, <1>7, <1>9
  <2>2. \A x : x \notin FiltersOf(p)'
    BY <1>3, <1>4, <1>5 DEF FiltersOf, Having, CallsKept
  <2> QED
    BY <2>1, <2>2 DEF PathPlaces
<1>19. Same("paths") /\ Same("handle")
  BY <1>4, <1>5, HavingKept DEF Same
<1>20. /\ PathsInOrder' /\ f \in PathHolders
       /\ PathHolders' \subseteq PathHolders \ {f}
  BY <1>2, <1>3, <1>17, <1>18, <1>19, PathMoves
<1>21. OneEvent'
  <2>1. refCount'[RecursiveTask] = refCount[RecursiveTask] /\ StaysReady(RecursiveTask)
    BY <1>7, <1>12, <1>13
  <2>2. AllPathsDone \in ready' <=> AllPathsDone \in ready \/ refCount[AllPathsDone] = 1
    BY <1>6, <1>9
  <2> QED
    BY <1>7, <1>19, <1>20, <2>1, <2>2, PathReleases DEF stream
<1> QED
  BY <1>11, <1>15, <1>16, <1>20, <1>21 DEF IndInv

\* The filter of a path is done.
LEMMA PathGoesOn ==
    ASSUME IndInv, NEW th \in Threads, NEW p \in Paths, FilterFinished(th, p)
    PROVE  IndInv'
<1>1. CASE /\ ~except[NextTask(p)] /\ ~fatal
           /\ m_keep[PathFilters[p][m_index[p]]]
           /\ m_index[p] < Len(PathFilters[p])
  BY <1>1, PathAdvances DEF FilterFinished
<1>2. CASE ~(/\ ~except[NextTask(p)] /\ ~fatal
             /\ m_keep[PathFilters[p][m_index[p]]]
             /\ m_index[p] < Len(PathFilters[p]))
  BY <1>2, PathEnds DEF FilterFinished
<1> QED
  BY <1>1, <1>2

-----------------------------------------------------------------------------
(* The loop of processAsync. *)

\* The loop of processAsync goes on from path p.
LEMMA LoopGoesOn ==
    ASSUME IndInv, NEW f \in Having("paths"), NEW r \in Seq(Paths), r = Call(f).rest, r # <<>>,
           NEW p \in Paths, p = r[1],
           Having("paths")' = Having("paths"), Call(f)'.rest = Tail(r),
           \A k \in Paths \ {p} : PathPlaces(k)' = PathPlaces(k),
           \A s, u \in PathPlaces(p)' : s = u,
           PathPlaces(p)' # {} => PathFilters[p] # <<>>
    PROVE  PathsInOrder'
<1>1. PathsInOrder
  BY DEF IndInv
<1>2. (\A k \in Paths : \A u, v \in PathPlaces(k) : u = v)'
  <2>1. ASSUME NEW k \in Paths PROVE \A u, v \in PathPlaces(k)' : u = v
    BY <1>1 DEF PathsInOrder
  <2> QED
    BY <2>1
<1>3. (\A k \in Paths : PathPlaces(k) # {} => PathFilters[k] # <<>>)'
  <2>1. ASSUME NEW k \in Paths, PathPlaces(k)' # {} PROVE PathFilters[k] # <<>>
    BY <1>1, <2>1 DEF PathsInOrder
  <2> QED
    BY <2>1
<1>4. (\A x, y \in Having("paths") : x = y)'
  BY <1>1 DEF PathsInOrder
<1>5. /\ Len(r) \in Nat \ {0}
      /\ \A i \in 1 .. Len(Tail(r)) : i + 1 \in 2 .. Len(r) /\ Tail(r)[i] = r[i + 1]
  BY RestOf
<1>6. /\ \A i, j \in 1 .. Len(r) : r[i] = r[j] => i = j
      /\ \A i \in 1 .. Len(r) : \A k \in Paths : r[i] = k => PathPlaces(k) = {}
  BY <1>1 DEF PathsInOrder
<1>7. /\ \A i, j \in 1 .. Len(Tail(r)) : Tail(r)[i] = Tail(r)[j] => i = j
      /\ \A i \in 1 .. Len(Tail(r)) : \A k \in Paths : Tail(r)[i] = k => PathPlaces(k)' = {}
  <2>1. ASSUME NEW i \in 1 .. Len(Tail(r)), NEW j \in 1 .. Len(Tail(r)), Tail(r)[i] = Tail(r)[j]
        PROVE  i = j
    <3>1. i + 1 \in 1 .. Len(r) /\ j + 1 \in 1 .. Len(r) /\ r[i + 1] = r[j + 1]
      BY <1>5, <2>1
    <3>2. i + 1 = j + 1
      BY <1>6, <3>1
    <3> QED
      BY <3>2
  <2>2. ASSUME NEW i \in 1 .. Len(Tail(r)), NEW k \in Paths, Tail(r)[i] = k
        PROVE  PathPlaces(k)' = {}
    <3>1. i + 1 \in 1 .. Len(r) /\ 1 \in 1 .. Len(r) /\ r[i + 1] = k /\ i + 1 # 1
      BY <1>5, <2>2
    <3>2. k # p
      BY <1>6, <3>1
    <3>3. PathPlaces(k) = {}
      BY <1>6, <3>1
    <3> QED
      BY <3>2, <3>3
  <2> QED
    BY <2>1, <2>2
<1>8. (\A x \in Having("paths") :
          /\ \A i, j \in 1 .. Len(Call(x).rest) : Call(x).rest[i] = Call(x).rest[j] => i = j
          /\ \A i \in 1 .. Len(Call(x).rest) : \A k \in Paths :
                Call(x).rest[i] = k => PathPlaces(k) = {})'
  <2> SUFFICES ASSUME NEW x \in Having("paths")'
               PROVE  (/\ \A i, j \in 1 .. Len(Call(x).rest) : Call(x).rest[i] = Call(x).rest[j] => i = j
                       /\ \A i \in 1 .. Len(Call(x).rest) : \A k \in Paths :
                             Call(x).rest[i] = k => PathPlaces(k) = {})'
    OBVIOUS
  <2>1. x = f
    BY <1>1 DEF PathsInOrder
  <2>2. Call(x)'.rest = Tail(r)
    BY <2>1
  <2> QED
    BY <1>7, <2>2
<1> QED
  BY <1>2, <1>3, <1>4, <1>8 DEF PathsInOrder

\* A path without filters.
LEMMA PathIsEmpty ==
    ASSUME IndInv, NEW th \in Threads, StartPath(th), PathFilters[Top(th).rest[1]] = <<>>
    PROVE  IndInv'
<1>1. Types
  BY DEF IndInv
<1>2. PICK f, r : f = Inner(th) /\ r = Top(th).rest
  OBVIOUS
<1>3. PICK p : p = r[1]
  OBVIOUS
<1>4. /\ ~Idle(th) /\ Top(th).op = "paths" /\ r # <<>>
      /\ Become(th, <<RunPaths(Tail(r))>>)
      /\ UNCHANGED <<m_index, refCount>>
      /\ UNCHANGED <<wrappers, except, ready, pushed, outside, fatal, stream, history>>
  BY <1>2 DEF StartPath, Inside
<1>5. f \in Frames /\ Call(f) = Top(th) /\ Top(th) \in Calls
  BY <1>1, <1>2, <1>4, CallTypes
<1>6. r \in Seq(Paths) /\ f \in Having("paths")
  BY <1>2, <1>4, <1>5, CallParts DEF Having
<1>7. p \in Paths /\ Tail(r) \in Seq(Paths)
  BY <1>3, <1>4, <1>6, RestOf
<1>8. PICK c : c = RunPaths(Tail(r))
  OBVIOUS
<1>9. c \in Calls /\ c.op = "paths" /\ c.rest = Tail(r)
  BY <1>7, <1>8, CallsMade DEF RunPaths
<1>10. Turns(f, c) /\ stack' \in [Threads -> Seq(Calls)]
  <2>1. Become(th, <<c>>)
    BY <1>4, <1>8
  <2> QED
    BY <1>1, <1>2, <1>4, <1>9, <2>1, CallTurns
<1>11. CallsKept(f, {c})
  BY <1>10, KeptCalls
<1>12. Types'
  BY <1>1, <1>4, <1>10 DEF Types, wrappers, stream, history
<1>13. \A u : StaysReady(u) /\ StaysHeld(u)
  BY <1>4 DEF StaysReady, StaysHeld
<1>14. PathStep(f, {c})
  BY <1>4, <1>5, <1>9, <1>13 DEF PathStep
<1>15. OneStage' /\ Looks' /\ NoneInCircle' /\ Produced' /\ Prefetched' /\ DataThere'
  BY <1>4, <1>11, <1>14, ModulesGoOn
<1>16. Counted'
  <2>1. \A u \in Waiters : Holders(u)' \subseteq Holders(u)
    BY <1>4, <1>9, <1>11, HeldByModules DEF wrappers
  <2> QED
    BY <1>4, <2>1, CountedAsBefore
<1>17. Same("handle") /\ Same("filter")
  BY <1>4, <1>5, <1>9, <1>11, HavingKept DEF Same
<1>18. \A k \in Paths : PathPlaces(k)' = PathPlaces(k)
  <2>1. \A k : FiltersOf(k)' = FiltersOf(k)
    BY <1>17 DEF FiltersOf, Same
  <2> QED
    BY <1>4, <2>1 DEF PathPlaces
<1>19. Having("paths")' = Having("paths")
  BY <1>4, <1>5, <1>9, <1>10 DEF Turns, Having
<1>20. PathHolders' = PathHolders
  BY <1>18, <1>19 DEF PathHolders
<1>21. PathsInOrder'
  <2>1. r = Call(f).rest /\ Call(f)'.rest = Tail(r)
    BY <1>2, <1>5, <1>9, <1>10 DEF Turns
  <2>2. (\A s, u \in PathPlaces(p)' : s = u) /\ (PathPlaces(p)' # {} => PathFilters[p] # <<>>)
    BY <1>7, <1>18 DEF IndInv, PathsInOrder
  <2> QED
    BY <1>3, <1>4, <1>6, <1>7, <1>18, <1>19, <2>1, <2>2, LoopGoesOn
<1>22. OneEvent'
  BY <1>4, <1>13, <1>17, <1>20, EventGoesOn DEF stream
<1> QED
  BY <1>12, <1>15, <1>16, <1>21, <1>22 DEF IndInv

\* A path that asks for its first filter.
LEMMA PathStarts ==
    ASSUME IndInv, NEW th \in Threads, StartPath(th), PathFilters[Top(th).rest[1]] # <<>>
    PROVE  IndInv'
<1>1. Types
  BY DEF IndInv
<1>2. PICK f, r : f = Inner(th) /\ r = Top(th).rest
  OBVIOUS
<1>3. PICK p, x : p = r[1] /\ x = Above(f)
  OBVIOUS
<1>4. /\ ~Idle(th) /\ Top(th).op = "paths" /\ r # <<>> /\ PathFilters[p] # <<>>
      /\ Become(th, <<RunFilter(p), RunPaths(Tail(r))>>)
      /\ m_index' = [m_index EXCEPT ![p] = 1]
      /\ refCount' = [refCount EXCEPT ![AllPathsDone] = @ + 1]
      /\ UNCHANGED <<wrappers, except, ready, pushed, outside, fatal, stream, history>>
  BY <1>2, <1>3 DEF StartPath, Inside
<1>5. f \in Frames /\ Call(f) = Top(th) /\ Top(th) \in Calls
  BY <1>1, <1>2, <1>4, CallTypes
<1>6. r \in Seq(Paths) /\ f \in Having("paths")
  BY <1>2, <1>4, <1>5, CallParts DEF Having
<1>7. p \in Paths /\ Tail(r) \in Seq(Paths) /\ Len(r) \in Nat \ {0}
  BY <1>3, <1>4, <1>6, RestOf
<1>8. PICK c, d : c = RunPaths(Tail(r)) /\ d = RunFilter(p)
  OBVIOUS
<1>9. /\ c \in Calls /\ c.op = "paths" /\ c.rest = Tail(r)
      /\ d \in Calls /\ d.op = "filter" /\ d.path = p
  BY <1>4, <1>7, <1>8, CallsMade DEF RunPaths, RunFilter
<1>10. TurnsAndMakes(f, c, d) /\ stack' \in [Threads -> Seq(Calls)]
  <2>1. Become(th, <<d, c>>)
    BY <1>4, <1>8
  <2> QED
    BY <1>1, <1>2, <1>4, <1>9, <2>1, CallMakes
<1>11. CallsKept(f, {c, d})
  BY <1>10, KeptCalls
<1>12. /\ refCount' \in [Tasks -> Int] /\ refCount'[AllPathsDone] = refCount[AllPathsDone] + 1
       /\ \A u \in Tasks \ {AllPathsDone} : refCount'[u] = refCount[u]
  BY <1>1, <1>4, TaskTypes DEF Types
<1>13. Types'
  <2>1. DOMAIN m_index' = Paths /\ \A k \in Paths : m_index'[k] \in 1 .. Len(PathFilters[k]) \cup {1}
    BY <1>1, <1>4, <1>7 DEF Types
  <2> QED
    BY <1>1, <1>4, <1>10, <1>12, <2>1 DEF Types, wrappers, stream, history
<1>14. \A u : StaysReady(u)
  BY <1>4 DEF StaysReady
<1>15. \A u \in Waiters : u \in Tasks \ {AllPathsDone} /\ refCount'[u] = refCount[u]
  BY <1>12, TaskTypes
<1>16. /\ \A k \in HasAcquire : refCount'[AfterAcquire(k)] = refCount[AfterAcquire(k)]
       /\ refCount'[RecursiveTask] = refCount[RecursiveTask]
  BY <1>12, TaskTypes, TaskNames
<1>17. PathStep(f, {c, d})
  <2>1. \A k \in Modules : RunTask(k) \in Waiters
    BY TaskTypes
  <2> QED
    BY <1>4, <1>5, <1>9, <1>14, <1>15, <1>16, <2>1 DEF PathStep
<1>18. OneStage' /\ Looks' /\ NoneInCircle' /\ Produced' /\ Prefetched' /\ DataThere'
  BY <1>4, <1>11, <1>17, ModulesGoOn
<1>19. Counted'
  <2>1. \A u \in Waiters : Holders(u)' \subseteq Holders(u)
    BY <1>4, <1>9, <1>11, HeldByModules DEF wrappers
  <2> QED
    BY <1>4, <1>15, <1>16, <2>1, CountedAsBefore
<1>20. \A k \in Paths \ {p} : PathPlaces(k)' = PathPlaces(k)
  <2>1. \A k \in Paths \ {p} : StaysReady(NextTask(k)) /\ StaysHeld(NextTask(k))
    BY <1>14, <1>15, TaskTypes DEF StaysHeld
  <2> QED
    BY <1>4, <1>5, <1>7, <1>9, <1>11, <2>1, OtherPaths
<1>21. PathPlaces(p) = {}
  <2>1. 1 \in 1 .. Len(r) /\ r = Call(f).rest
    BY <1>2, <1>5, <1>7
  <2> QED
    BY <1>3, <1>6, <1>7, <2>1 DEF IndInv, PathsInOrder
<1>22. \A s \in PathPlaces(p)' : s = <<"begins", x>>
  <2>1. /\ ~(refCount[NextTask(p)] > 0) /\ NextTask(p) \notin ready
        /\ \A y : y \notin FiltersOf(p)
    BY <1>21, InPlaces
  <2>2. ~(refCount'[NextTask(p)] > 0) /\ NextTask(p) \notin ready'
    BY <1>4, <1>7, <1>15, <2>1, TaskTypes
  <2>3. \A y \in FiltersOf(p)' : y = x
    BY <1>3, <1>9, <1>10, <2>1 DEF TurnsAndMakes, FiltersOf, Having
  <2> QED
    BY <2>2, <2>3 DEF PathPlaces
<1>23. Having("paths")' = Having("paths")
  BY <1>4, <1>5, <1>9, <1>10 DEF TurnsAndMakes, Having
<1>24. PathHolders' \subseteq PathHolders \cup {<<p, 0>>}
  BY <1>20, <1>23 DEF PathHolders
<1>25. PathsInOrder'
  <2>1. r = Call(f).rest /\ Call(f)'.rest = Tail(r)
    BY <1>2, <1>5, <1>9, <1>10 DEF TurnsAndMakes
  <2> QED
    BY <1>3, <1>4, <1>6, <1>7, <1>20, <1>22, <1>23, <2>1, LoopGoesOn
<1>26. OneEvent'
  <2>1. AtLeast(refCount[AllPathsDone], PathHolders) /\ refCount[AllPathsDone] \in Int
    BY <1>1, TaskTypes DEF IndInv, OneEvent, Types
  <2>2. refCount[AllPathsDone] > 0
    <3>1. f \in PathHolders
      BY <1>6 DEF PathHolders
    <3> QED
      BY <2>1, <3>1, NobodyHolds
  <2>3. AtLeast(refCount'[AllPathsDone], PathHolders')
    <3>1. PICK n, h, g, y : /\ n = refCount[AllPathsDone] /\ h = PathHolders
                            /\ g = PathHolders' /\ y = <<p, 0>>
      OBVIOUS
    <3>2. n \in Int /\ AtLeast(n, h) /\ g \subseteq h \cup {y}
      BY <1>24, <2>1, <3>1
    <3>3. AtLeast(n + 1, g)
      BY <3>2, AtLeastMore
    <3>4. n + 1 = refCount'[AllPathsDone]
      BY <1>12, <3>1
    <3> QED
      BY <3>1, <3>3, <3>4
  <2>4. Same("handle")
    <3>1. PICK w : w = {c, d}
      OBVIOUS
    <3>2. CallsKept(f, w) /\ Call(f).op # "handle" /\ \A z \in w : z.op # "handle"
      BY <1>4, <1>5, <1>9, <1>11, <3>1
    <3> QED
      BY <3>2, HavingKept DEF Same
  <2>5. refCount'[AllPathsDone] > 0
    BY <1>12, <2>1, <2>2
  <2>6. StreamPlaces' = StreamPlaces
    BY <2>2, <2>4, <2>5, <1>14 DEF StreamPlaces, Same, StaysReady
  <2>7. /\ \A s, u \in StreamPlaces : s = u
        /\ StreamPlaces # {} => m_seenEvents <= NEvents
        /\ refCount[RecursiveTask] = 1
    BY <2>2 DEF IndInv, OneEvent
  <2> QED
    BY <1>4, <1>16, <2>3, <2>5, <2>6, <2>7 DEF OneEvent, AtLeast, stream
<1> QED
  BY <1>13, <1>18, <1>19, <1>25, <1>26 DEF IndInv

\* All paths have been started, the loop's reference goes.
LEMMA LoopEnds ==
    ASSUME IndInv, NEW th \in Threads, PathsStarted(th)
    PROVE  IndInv'
<1>1. Types
  BY DEF IndInv
<1>2. PICK f : f = Inner(th)
  OBVIOUS
<1>3. /\ ~Idle(th) /\ Top(th).op = "paths" /\ Top(th).rest = <<>>
      /\ Release(AllPathsDone, FALSE) /\ Become(th, <<>>)
      /\ UNCHANGED <<wrappers, m_index, pushed, outside, fatal, stream, history>>
  BY DEF PathsStarted, Inside
<1>4. f \in Frames /\ Call(f) = Top(th)
  BY <1>1, <1>2, <1>3, CallTypes
<1>5. f \in Having("paths") /\ f \in PathHolders
  BY <1>3, <1>4 DEF PathHolders, Having
<1>6. Ends(f) /\ stack' \in [Threads -> Seq(Calls)]
  BY <1>1, <1>2, <1>3, CallEnds
<1>7. CallsKept(f, {})
  BY <1>6, KeptCalls
<1>8. /\ refCount' \in [Tasks -> Int] /\ except' \in [Tasks -> BOOLEAN] /\ ready' \subseteq Tasks
      /\ refCount'[AllPathsDone] = refCount[AllPathsDone] - 1
      /\ \A u \in Tasks \ {AllPathsDone} : refCount'[u] = refCount[u] /\ except'[u] = except[u]
      /\ \A u : u \in ready' <=> u \in ready \/ (u = AllPathsDone /\ refCount[AllPathsDone] = 1)
  BY <1>1, <1>3, Released, TaskTypes
<1>9. \A u \in Waiters : u \in Tasks \ {AllPathsDone} /\ StaysReady(u)
  BY <1>8, TaskTypes DEF StaysReady
<1>10. \A m \in HasAcquire : AfterAcquire(m) \in Tasks \ {AllPathsDone}
                             /\ StaysReady(AfterAcquire(m))
  BY <1>8, TaskTypes, TaskNames DEF StaysReady
<1>11. Types'
  BY <1>1, <1>3, <1>6, <1>8 DEF Types, wrappers, stream, history
<1>12. PathStep(f, {})
  BY <1>3, <1>4, <1>8, <1>9, <1>10, TaskTypes DEF PathStep
<1>13. OneStage' /\ Looks' /\ NoneInCircle' /\ Produced' /\ Prefetched' /\ DataThere'
  BY <1>3, <1>7, <1>12, ModulesGoOn
<1>14. Counted'
  <2>1. \A t \in Waiters : Holders(t)' \subseteq Holders(t)
    BY <1>3, <1>7, HeldByModules DEF wrappers
  <2> QED
    BY <1>3, <1>8, <1>9, <1>10, <2>1, CountedAsBefore
<1>15. Same("filter") /\ Same("handle")
  BY <1>3, <1>4, <1>7, HavingKept DEF Same
<1>16. \A k \in Paths : PathPlaces(k)' = PathPlaces(k)
  <2>1. \A k : FiltersOf(k)' = FiltersOf(k)
    BY <1>15 DEF FiltersOf, Same
  <2>2. \A k \in Paths : /\ NextTask(k) \in ready' <=> NextTask(k) \in ready
                         /\ refCount'[NextTask(k)] = refCount[NextTask(k)]
    BY <1>8, <1>9, TaskTypes DEF StaysReady
  <2> QED
    BY <2>1, <2>2 DEF PathPlaces
<1>17. \A x : x \notin Having("paths")'
  <2>1. \A x \in Having("paths") : x = f
    BY <1>5 DEF IndInv, PathsInOrder
  <2> QED
    BY <1>6, <2>1 DEF Ends, Having
<1>18. PathHolders' \subseteq PathHolders \ {f}
  <2>1. \A k : <<k, 0>> # f
    BY <1>4 DEF Frames
  <2> QED
    BY <1>16, <1>17, <2>1 DEF PathHolders
<1>19. PathsInOrder'
  <2>1. \A k \in Paths : /\ \A s, u \in PathPlaces(k)' : s = u
                         /\ PathPlaces(k)' # {} => PathFilters[k] # <<>>
    BY <1>16 DEF IndInv, PathsInOrder
  <2> QED
    BY <1>17, <2>1 DEF PathsInOrder
<1>20. OneEvent'
  <2>1. refCount'[RecursiveTask] = refCount[RecursiveTask] /\ StaysReady(RecursiveTask)
    BY <1>8, TaskTypes, TaskNames DEF StaysReady
  <2>2. AllPathsDone \in ready' <=> AllPathsDone \in ready \/ refCount[AllPathsDone] = 1
    BY <1>8
  <2> QED
    BY <1>3, <1>5, <1>8, <1>15, <1>18, <2>1, <2>2, PathReleases DEF stream
<1> QED
  BY <1>11, <1>13, <1>14, <1>19, <1>20 DEF IndInv

-----------------------------------------------------------------------------
(* The end of an event. *)

\* The stream is in one place.
LEMMA OneStreamPlace ==
    ASSUME IndInv
    PROVE  /\ refCount[AllPathsDone] >= 0 /\ refCount[AllPathsDone] \in Int
           /\ AllPathsDone \in ready => /\ refCount[AllPathsDone] = 0 /\ RecursiveTask \notin ready
                                        /\ Having("handle") = {} /\ m_seenEvents <= NEvents
           /\ RecursiveTask \in ready => /\ refCount[AllPathsDone] = 0 /\ AllPathsDone \notin ready
                                         /\ Having("handle") = {} /\ m_seenEvents <= NEvents
           /\ \A x \in Having("handle") :
                 /\ refCount[AllPathsDone] = 0 /\ AllPathsDone \notin ready
                 /\ RecursiveTask \notin ready /\ m_seenEvents <= NEvents
                 /\ \A y \in Having("handle") : y = x
<1>1. AtLeast(refCount[AllPathsDone], PathHolders) /\ refCount[AllPathsDone] \in Int
  BY TaskTypes DEF IndInv, OneEvent, Types
<1>2. refCount[AllPathsDone] >= 0
  BY <1>1, AtLeastPart
<1>3. /\ <<"paths", 0>> \in StreamPlaces <=> refCount[AllPathsDone] > 0
      /\ <<"ready", 0>> \in StreamPlaces <=> AllPathsDone \in ready
      /\ <<"over", 0>> \in StreamPlaces <=> RecursiveTask \in ready
      /\ \A x : <<"begins", x>> \in StreamPlaces <=> x \in Having("handle")
  BY DEF StreamPlaces
<1>4. /\ \A s, u \in StreamPlaces : s = u
      /\ StreamPlaces # {} => m_seenEvents <= NEvents
  BY DEF IndInv, OneEvent
<1>5. /\ <<"paths", 0>> # <<"ready", 0>> /\ <<"paths", 0>> # <<"over", 0>>
      /\ <<"ready", 0>> # <<"over", 0>>
      /\ \A x : /\ <<"begins", x>> # <<"paths", 0>> /\ <<"begins", x>> # <<"ready", 0>>
                /\ <<"begins", x>> # <<"over", 0>>
  OBVIOUS
<1>6. ASSUME AllPathsDone \in ready
      PROVE  /\ refCount[AllPathsDone] = 0 /\ RecursiveTask \notin ready
             /\ Having("handle") = {} /\ m_seenEvents <= NEvents
  <2>1. <<"paths", 0>> \notin StreamPlaces /\ <<"over", 0>> \notin StreamPlaces
        /\ \A x : <<"begins", x>> \notin StreamPlaces
    BY <1>3, <1>4, <1>5, <1>6
  <2>2. Having("handle") = {}
    BY <1>3, <2>1
  <2>3. refCount[AllPathsDone] = 0
    BY <1>1, <1>2, <1>3, <2>1
  <2> QED
    BY <1>3, <1>4, <1>6, <2>1, <2>2, <2>3
<1>7. ASSUME RecursiveTask \in ready
      PROVE  /\ refCount[AllPathsDone] = 0 /\ AllPathsDone \notin ready
             /\ Having("handle") = {} /\ m_seenEvents <= NEvents
  <2>1. <<"paths", 0>> \notin StreamPlaces /\ <<"ready", 0>> \notin StreamPlaces
        /\ \A x : <<"begins", x>> \notin StreamPlaces
    BY <1>3, <1>4, <1>5, <1>7
  <2>2. Having("handle") = {}
    BY <1>3, <2>1
  <2>3. refCount[AllPathsDone] = 0
    BY <1>1, <1>2, <1>3, <2>1
  <2> QED
    BY <1>3, <1>4, <1>7, <2>1, <2>2, <2>3
<1>8. ASSUME NEW x \in Having("handle")
      PROVE  /\ refCount[AllPathsDone] = 0 /\ AllPathsDone \notin ready
             /\ RecursiveTask \notin ready /\ m_seenEvents <= NEvents
             /\ \A y \in Having("handle") : y = x
  <2>1. <<"begins", x>> \in StreamPlaces
    BY <1>3
  <2>2. <<"paths", 0>> \notin StreamPlaces /\ <<"ready", 0>> \notin StreamPlaces
        /\ <<"over", 0>> \notin StreamPlaces
    BY <1>4, <1>5, <2>1
  <2>3. ASSUME NEW y \in Having("handle") PROVE y = x
    <3>1. <<"begins", y>> \in StreamPlaces
      BY <1>3
    <3>2. <<"begins", y>> = <<"begins", x>>
      BY <1>4, <2>1, <3>1
    <3> QED
      BY <3>2
  <2> QED
    BY <1>1, <1>2, <1>3, <1>4, <2>1, <2>2, <2>3
<1> QED
  BY <1>1, <1>2, <1>6, <1>7, <1>8

\* AllPathsDoneTask lets go of recursiveTask.
LEMMA PathsAreDone ==
    ASSUME IndInv, NEW th \in Threads, AllPathsDoneExecute(th)
    PROVE  IndInv'
<1>1. Types
  BY DEF IndInv
<1>2. /\ AllPathsDone \in ready
      /\ fatal' = (fatal \/ except[AllPathsDone])
      /\ except' = [except EXCEPT ![RecursiveTask] = @ \/ except[AllPathsDone]]
      /\ refCount' = [refCount EXCEPT ![RecursiveTask] = @ - 1]
      /\ ready' = (ready \ {AllPathsDone})
                     \cup (IF refCount[RecursiveTask] = 1 THEN {RecursiveTask} ELSE {})
      /\ UNCHANGED <<wrappers, m_index, pushed, outside, stream, stack, history>>
  BY DEF AllPathsDoneExecute
<1>3. PICK f : f = <<th, 0>>
  OBVIOUS
<1>4. f \notin Frames
  BY <1>3 DEF Frames
<1>5. CallsKept(f, {}) /\ Frames' = Frames
  BY <1>2, <1>4, NoCallMoves
<1>6. refCount[AllPathsDone] = 0 /\ RecursiveTask \notin ready
      /\ Having("handle") = {} /\ m_seenEvents <= NEvents
  BY <1>2, OneStreamPlace
<1>7. refCount[RecursiveTask] = 1
  BY <1>2 DEF IndInv, OneEvent
<1>8. AllPathsDone \in Tasks /\ RecursiveTask \in Tasks /\ AllPathsDone # RecursiveTask
  BY TaskTypes, TaskNames
<1>9. /\ refCount' \in [Tasks -> Int] /\ refCount'[RecursiveTask] = 0
      /\ \A u \in Tasks \ {RecursiveTask} : refCount'[u] = refCount[u]
  BY <1>1, <1>2, <1>7, <1>8 DEF Types
<1>10. except' \in [Tasks -> BOOLEAN] /\ \A u \in Tasks \ {RecursiveTask} : except'[u] = except[u]
  <2>1. PICK b \in BOOLEAN : b = (except[RecursiveTask] \/ except[AllPathsDone])
    BY <1>1, <1>8 DEF Types
  <2>2. except' = [except EXCEPT ![RecursiveTask] = b]
    BY <1>2, <2>1
  <2> QED
    BY <1>1, <2>2 DEF Types
<1>11. \A u : u \in ready' <=> (u \in ready /\ u # AllPathsDone) \/ u = RecursiveTask
  BY <1>2, <1>7
<1>12. ready' \subseteq Tasks
  BY <1>1, <1>8, <1>11 DEF Types
<1>13. fatal' \in BOOLEAN
  <2>1. fatal \in BOOLEAN /\ except[AllPathsDone] \in BOOLEAN
    BY <1>1, <1>8 DEF Types
  <2> QED
    BY <1>2, <2>1
<1>14. Types'
  BY <1>1, <1>2, <1>9, <1>10, <1>12, <1>13 DEF Types, wrappers, stream, history
<1>15. \A u : u # AllPathsDone /\ u # RecursiveTask => StaysReady(u)
  BY <1>11 DEF StaysReady
<1>16. /\ \A u \in Waiters : u \in Tasks /\ u # AllPathsDone /\ u # RecursiveTask
       /\ \A k \in HasAcquire : /\ AfterAcquire(k) \in Tasks
                                /\ AfterAcquire(k) \notin {AllPathsDone, RecursiveTask}
  BY TaskTypes, TaskNames
<1>17. /\ \A k \in Modules : RunTask(k) \in Waiters
       /\ \A k \in Paths : NextTask(k) \in Waiters
  BY TaskTypes
<1>18. PathStep(f, {})
  BY <1>4, <1>9, <1>10, <1>15, <1>16, <1>17 DEF PathStep
<1>19. OneStage' /\ Looks' /\ NoneInCircle' /\ Produced' /\ Prefetched' /\ DataThere'
  BY <1>2, <1>5, <1>18, ModulesGoOn
<1>20. Counted'
  <2>1. \A u \in Waiters : Holders(u)' \subseteq Holders(u)
    BY <1>2, <1>5, HeldByModules DEF wrappers
  <2> QED
    BY <1>2, <1>9, <1>16, <2>1, CountedAsBefore
<1>21. Same("paths") /\ Same("filter") /\ Same("handle")
  BY <1>4, <1>5, HavingKept DEF Same
<1>22. PathsInOrder' /\ PathHolders' = PathHolders
  <2>1. \A k \in Paths : StaysReady(NextTask(k)) /\ StaysHeld(NextTask(k))
    BY <1>9, <1>15, <1>16, <1>17 DEF StaysHeld
  <2> QED
    BY <1>21, <2>1, PathsStay
<1>23. OneEvent'
  <2>1. refCount'[AllPathsDone] = refCount[AllPathsDone] /\ ~(refCount'[AllPathsDone] > 0)
    BY <1>6, <1>8, <1>9
  <2>2. AllPathsDone \notin ready' /\ RecursiveTask \in ready'
    BY <1>8, <1>11
  <2>3. Having("handle")' = {}
    BY <1>6, <1>21 DEF Same
  <2>4. \A s \in StreamPlaces' : s = <<"over", 0>>
    BY <2>1, <2>2, <2>3 DEF StreamPlaces
  <2>5. AtLeast(refCount'[AllPathsDone], PathHolders')
    BY <1>22, <2>1 DEF IndInv, OneEvent
  <2> QED
    BY <1>2, <1>6, <1>9, <2>1, <2>2, <2>4, <2>5 DEF OneEvent, AtLeast, stream
<1> QED
  BY <1>14, <1>19, <1>20, <1>22, <1>23 DEF IndInv

\* recursiveTask begins the next event, or tells lastTask of the exception.
LEMMA EventIsDone ==
    ASSUME IndInv, NEW th \in Threads, EventDone(th)
    PROVE  IndInv'
<1>1. Types
  BY DEF IndInv
<1>2. /\ Idle(th) /\ RecursiveTask \in ready /\ ready' = ready \ {RecursiveTask}
      /\ open' = FALSE
      /\ \/ outcome' = "failed" /\ UNCHANGED stack
         \/ Begin(th, <<Handle>>) /\ UNCHANGED outcome
      /\ UNCHANGED <<wrappers, m_index, refCount, except, pushed, outside, fatal,
                     m_seenEvents, history>>
  BY DEF EventDone, Take
<1>3. PICK f, c : f = First(th) /\ c = Handle
  OBVIOUS
<1>4. c \in Calls /\ c.op = "handle"
  BY <1>3, CallsMade DEF Handle
<1>5. f \notin Frames
  BY <1>2, <1>3 DEF Frames, First, Idle
<1>6. /\ stack' \in [Threads -> Seq(Calls)] /\ CallsKept(f, {c})
      /\ \A x, y \in Having("handle")' : x = y
  <2>1. Having("handle") = {}
    BY <1>2, OneStreamPlace
  <2>2. CASE UNCHANGED stack
    <3>1. CallsKept(f, {}) /\ Frames' = Frames
      BY <1>5, <2>2, NoCallMoves
    <3>2. CallsKept(f, {c})
      BY <3>1 DEF CallsKept
    <3>3. \A x : x \notin Having("handle")'
      BY <2>1, <3>1 DEF Having, CallsKept
    <3> QED
      BY <1>1, <2>2, <3>2, <3>3 DEF Types
  <2>3. CASE Begin(th, <<Handle>>)
    <3>1. Begins(f, c) /\ stack' \in [Threads -> Seq(Calls)]
      BY <1>1, <1>2, <1>3, <1>4, <2>3, CallBegins
    <3>2. CallsKept(f, {c})
      BY <3>1, KeptCalls
    <3>3. \A x \in Having("handle")' : x = f
      BY <2>1, <3>1 DEF Begins, Having
    <3> QED
      BY <3>1, <3>2, <3>3
  <2> QED
    BY <1>2, <2>2, <2>3
<1>7. /\ refCount[AllPathsDone] = 0 /\ AllPathsDone \notin ready
      /\ m_seenEvents <= NEvents
  BY <1>2, OneStreamPlace
<1>8. Types'
  BY <1>1, <1>2, <1>6 DEF Types, wrappers, history
<1>9. \A u : u # RecursiveTask => StaysReady(u)
  BY <1>2 DEF StaysReady
<1>10. /\ \A u \in Waiters : u # RecursiveTask
       /\ \A k \in HasAcquire : AfterAcquire(k) # RecursiveTask
       /\ \A k \in Modules : RunTask(k) \in Waiters
       /\ \A k \in Paths : NextTask(k) \in Waiters
  BY TaskTypes, TaskNames
<1>11. PathStep(f, {c})
  BY <1>2, <1>4, <1>5, <1>9, <1>10 DEF PathStep
<1>12. OneStage' /\ Looks' /\ NoneInCircle' /\ Produced' /\ Prefetched' /\ DataThere'
  BY <1>2, <1>6, <1>11, ModulesGoOn
<1>13. Counted'
  <2>1. \A u \in Waiters : Holders(u)' \subseteq Holders(u)
    BY <1>2, <1>4, <1>6, HeldByModules DEF wrappers
  <2> QED
    BY <1>2, <2>1, CountedAsBefore
<1>14. Same("paths") /\ Same("filter")
  BY <1>4, <1>5, <1>6, HavingKept DEF Same
<1>15. PathsInOrder' /\ PathHolders' = PathHolders
  <2>1. \A k \in Paths : StaysReady(NextTask(k)) /\ StaysHeld(NextTask(k))
    BY <1>2, <1>9, <1>10 DEF StaysHeld
  <2> QED
    BY <1>14, <2>1, PathsStay
<1>16. OneEvent'
  <2>1. ~(refCount'[AllPathsDone] > 0) /\ AllPathsDone \notin ready' /\ RecursiveTask \notin ready'
    BY <1>2, <1>7
  <2>2. \A s, u \in StreamPlaces' : s = u
    <3>1. ASSUME NEW s \in StreamPlaces' PROVE \E x \in Having("handle")' : s = <<"begins", x>>
      BY <2>1 DEF StreamPlaces
    <3> QED
      BY <1>6, <3>1
  <2>3. AtLeast(refCount'[AllPathsDone], PathHolders')
    BY <1>2, <1>15 DEF IndInv, OneEvent
  <2>4. refCount'[RecursiveTask] = 0
    BY <1>2, <1>7 DEF IndInv, OneEvent
  <2> QED
    BY <1>2, <1>7, <2>1, <2>2, <2>3, <2>4 DEF OneEvent, AtLeast
<1> QED
  BY <1>8, <1>12, <1>13, <1>15, <1>16 DEF IndInv

\* Another stream has failed.
LEMMA OthersFail ==
    ASSUME IndInv, OtherStreamFails
    PROVE  IndInv'
<1>1. Types'
  BY DEF IndInv, Types, OtherStreamFails, wrappers, tasks, stream, history
<1>2. /\ UNCHANGED <<wrappers, tasks, pushed, outside, stack, m_seenEvents>>
  BY DEF OtherStreamFails, stream
<1>3. Frames' = Frames /\ \A x : Call(x)' = Call(x)
  BY <1>2 DEF Frames, Call
<1>4. \A op : Having(op)' = Having(op)
  BY <1>3 DEF Having
<1>5. SamePlaces
  BY <1>3, <1>4 DEF SamePlaces
<1>6. OneStage' /\ PathsInOrder' /\ OneEvent' /\ DataThere'
  BY <1>2, <1>5, PlacesInOrder DEF wrappers, tasks
<1>7. \A t : Holders(t)' = Holders(t)
  BY <1>2, <1>3 DEF Holders, wrappers, Holds
<1>8. Counted'
  BY <1>2, <1>7, CountedAsBefore DEF tasks
<1>9. Looks'
  BY <1>2, <1>3 DEF IndInv, Looks, wrappers
<1>10. NoneInCircle' /\ Produced'
  BY <1>2 DEF IndInv, NoneInCircle, Started, Produced, wrappers
<1>11. Prefetched'
  <2>1. \A x, m, n : WaitsFor(x, m, n)' <=> WaitsFor(x, m, n)
    BY <1>2, <1>3 DEF WaitsFor, wrappers, RunTask
  <2>2. \A m, n : Answered(m, n)' <=> Answered(m, n)
    BY <1>2 DEF Answered, wrappers, tasks, RunTask
  <2> QED
    BY <1>2, <1>7, <2>1, <2>2 DEF IndInv, Prefetched, tasks
<1> QED
  BY <1>1, <1>6, <1>8, <1>9, <1>10, <1>11 DEF IndInv

-----------------------------------------------------------------------------
(* Between two events. *)

\* When no path is left no module works or waits, and no task is held: who
\* waits for a module is a module that waits itself, or a path, and no set of
\* modules waits for itself alone.
LEMMA NothingIsHeld ==
    ASSUME IndInv
    PROVE  NothingHeld
<1> SUFFICES ASSUME Between
             PROVE  /\ ready \subseteq {RecursiveTask}
                    /\ \A t \in Tasks : refCount[t] = 0
                    /\ \A m \in Modules : listed[m] = {}
                    /\ pushed = {} /\ outside = {}
                    /\ \A x \in Frames : Call(x).op \in {"handle", "serve"} \/ LateLook(Call(x))
  BY DEF NothingHeld
<1>1. Types /\ Counted
  BY DEF IndInv
<1>2. refCount[AllPathsDone] = 0 /\ AllPathsDone \notin ready
  <2>1. CASE RecursiveTask \in ready
    BY <2>1, OneStreamPlace
  <2>2. CASE \E th \in Threads : Inside(th, "handle")
    <3>1. PICK th \in Threads : Inside(th, "handle")
      BY <2>2
    <3>2. Inner(th) \in Having("handle")
      BY <1>1, <3>1, CallTypes DEF Having, Inside
    <3> QED
      BY <3>2, OneStreamPlace
  <2> QED
    BY <2>1, <2>2 DEF Between
<1>3. refCount[RecursiveTask] = 0
  BY <1>2 DEF IndInv, OneEvent
<1>4. PathHolders = {}
  BY <1>2, NobodyHolds DEF IndInv, OneEvent
<1>5. Having("paths") = {} /\ \A p \in Paths : PathPlaces(p) = {}
  <2>1. ASSUME NEW p \in Paths PROVE PathPlaces(p) = {}
    <3>1. <<p, 0>> \notin PathHolders
      BY <1>4
    <3> QED
      BY <3>1 DEF PathHolders
  <2> QED
    BY <1>4, <2>1 DEF PathHolders
<1>6. \A p \in Paths : /\ ~(refCount[NextTask(p)] > 0) /\ NextTask(p) \notin ready
                       /\ \A x : x \notin FiltersOf(p)
  BY <1>5, InPlaces
<1>7. \A p \in Paths : Holders(NextTask(p)) = {} /\ refCount[NextTask(p)] = 0
  <2> SUFFICES ASSUME NEW p \in Paths
               PROVE  Holders(NextTask(p)) = {} /\ refCount[NextTask(p)] = 0
    OBVIOUS
  <2>1. /\ refCount[NextTask(p)] >= 0 /\ refCount[NextTask(p)] \in Int
        /\ Holders(NextTask(p)) # {} => refCount[NextTask(p)] > 0
    BY <1>1, HeldIsCounted, TaskTypes
  <2> QED
    BY <1>6, <2>1
<1>8. Started = {}
  <2> SUFFICES ASSUME Started # {}
               PROVE  FALSE
    OBVIOUS
  <2>1. PICK m \in Started : \E t \in listed[m] : \A k \in Started : t # RunTask(k)
    BY DEF IndInv, NoneInCircle
  <2>2. PICK t \in listed[m] : \A k \in Started : t # RunTask(k)
    BY <2>1
  <2>3. m \in Modules /\ t \in Waiters
    BY <1>1 DEF Types, Started
  <2>4. <<m, 0>> \in Holders(t)
    BY <2>3 DEF Holders
  <2>5. CASE \E p \in Paths : t = NextTask(p)
    BY <1>7, <2>4, <2>5
  <2>6. ASSUME NEW k \in Modules, t = RunTask(k) PROVE FALSE
    <3>1. refCount[t] > 0
      BY <1>1, <2>3, <2>4, HeldIsCounted
    <3>2. <<"asks", k>> \in Stages(k)
      BY <2>6, <3>1, InPlaces
    <3>3. k \in Started
      BY <3>2 DEF IndInv, OneStage, Started
    <3> QED
      BY <2>2, <2>6, <3>3
  <2> QED
    BY <2>3, <2>5, <2>6 DEF Waiters
<1>9. \A m \in Modules : Stages(m) = {}
  BY <1>8 DEF IndInv, OneStage, Started
<1>10. \A m \in Modules : /\ ~(refCount[RunTask(m)] > 0) /\ RunTask(m) \notin ready /\ m \notin outside
                          /\ m \in HasAcquire => AfterAcquire(m) \notin ready
                          /\ \A c \in pushed : c.mod # m
                          /\ \A x : x \notin Running(m)
  BY <1>9, InPlaces
<1>11. HasAcquire \subseteq Modules
  BY ScheduleAssumption
<1>12. outside = {} /\ pushed = {}
  <2>1. \A c \in pushed : c.mod \in Modules
    BY <1>1, <1>11 DEF Types, QueueCalls
  <2> QED
    BY <1>1, <1>10, <1>11, <2>1 DEF Types
<1>13. \A t \in Waiters : Holders(t) = {} /\ refCount[t] = 0
  <2> SUFFICES ASSUME NEW t \in Waiters PROVE Holders(t) = {} /\ refCount[t] = 0
    OBVIOUS
  <2>1. ~(refCount[t] > 0)
    BY <1>6, <1>10 DEF Waiters
  <2>2. /\ refCount[t] >= 0 /\ refCount[t] \in Int
        /\ Holders(t) # {} => refCount[t] > 0
    BY <1>1, HeldIsCounted
  <2> QED
    BY <2>1, <2>2
<1>14. \A m \in Modules : listed[m] = {}
  <2> SUFFICES ASSUME NEW m \in Modules, NEW t \in listed[m] PROVE FALSE
    OBVIOUS
  <2>1. t \in Waiters
    BY <1>1 DEF Types
  <2>2. <<m, 0>> \in Holders(t)
    BY DEF Holders
  <2> QED
    BY <1>13, <2>1, <2>2
<1>15. \A t \in Tasks : refCount[t] = 0
  <2>1. \A m \in HasAcquire : refCount[AfterAcquire(m)] = 0
    BY <1>1, <1>12 DEF Counted
  <2> QED
    BY <1>2, <1>3, <1>13, <2>1 DEF Tasks, Waiters
<1>16. ready \subseteq {RecursiveTask}
  <2>1. ready \subseteq Tasks
    BY <1>1 DEF Types
  <2> QED
    BY <1>2, <1>6, <1>10, <1>11, <2>1 DEF Tasks
<1>17. \A x \in Frames : Call(x).op \in {"handle", "serve"} \/ LateLook(Call(x))
  <2> SUFFICES ASSUME NEW x \in Frames
               PROVE  Call(x).op \in {"handle", "serve"} \/ LateLook(Call(x))
    OBVIOUS
  <2>1. PICK c : c = Call(x) /\ c \in Calls
    BY <1>1, CallTypes
  <2>2. \A t : Holds(c, t) => t \notin Waiters
    <3>1. ASSUME NEW t \in Waiters, Holds(c, t) PROVE x \in Holders(t)
      BY <2>1, <3>1 DEF Holders
    <3> QED
      BY <1>13, <3>1
  <2>3. CASE c.op \in {"add", "insert"}
    BY <2>1, <2>2, <2>3, CallParts DEF Holds
  <2>4. CASE c.op = "prefetch"
    BY <2>1, <2>2, <2>4, CallParts, TaskTypes DEF Holds
  <2>5. CASE c.op = "tell"
    <3>1. c.batch \in (SUBSET Waiters) \ {{}}
      BY <2>1, <2>5, CallParts
    <3>2. PICK t \in c.batch : t \in Waiters
      BY <3>1
    <3> QED
      BY <2>2, <2>5, <3>2 DEF Holds
  <2>6. CASE c.op \in {"acquire", "work", "fail"}
    <3>1. c.mod \in Modules
      BY <1>11, <2>1, <2>6, CallParts
    <3>2. x \in Running(c.mod)
      BY <2>1, <2>6 DEF Running, Having
    <3> QED
      BY <1>10, <3>1, <3>2
  <2>7. CASE c.op = "filter"
    <3>1. c.path \in Paths /\ x \in FiltersOf(c.path)
      BY <2>1, <2>7, CallParts DEF FiltersOf, Having
    <3> QED
      BY <1>6, <3>1
  <2>8. CASE c.op = "paths"
    BY <1>5, <2>1, <2>8 DEF Having
  <2>9. CASE c.op \in {"handle", "serve", "recheck", "start", "announce"}
    BY <2>1, <2>9 DEF LateLook
  <2> QED
    BY <2>1, <2>3, <2>4, <2>5, <2>6, <2>7, <2>8, <2>9 DEF Calls, QueueCalls
<1> QED
  BY <1>12, <1>14, <1>15, <1>16, <1>17

\* Nothing is to be found but the call in which the stream begins an event.
LEMMA OnlyHandle ==
    ASSUME IndInv, NoLateLook, NEW th \in Threads, Inside(th, "handle"), NEW f, f = Inner(th)
    PROVE  /\ f \in Frames /\ Call(f).op = "handle" /\ m_seenEvents <= NEvents
           /\ \A x \in Frames : Call(x).op = "serve" \/ x = f
           /\ ready = {} /\ pushed = {} /\ outside = {}
           /\ \A t \in Tasks : refCount[t] = 0
           /\ \A m \in Modules : listed[m] = {}
<1>1. Between
  BY DEF Between
<1>2. f \in Frames /\ Call(f).op = "handle" /\ f \in Having("handle")
  BY CallTypes DEF IndInv, Inside, Having
<1>3. RecursiveTask \notin ready /\ m_seenEvents <= NEvents /\ \A y \in Having("handle") : y = f
  BY <1>2, OneStreamPlace
<1>4. /\ ready \subseteq {RecursiveTask}
      /\ \A t \in Tasks : refCount[t] = 0
      /\ \A m \in Modules : listed[m] = {}
      /\ pushed = {} /\ outside = {}
      /\ \A x \in Frames : Call(x).op \in {"handle", "serve"} \/ LateLook(Call(x))
  BY <1>1, NothingIsHeld DEF NothingHeld
<1>5. \A x \in Frames : ~LateLook(Call(x))
  BY <1>1 DEF NoLateLook
<1>6. ASSUME NEW x \in Frames PROVE Call(x).op = "serve" \/ x = f
  BY <1>3, <1>4, <1>5 DEF Having
<1> QED
  BY <1>2, <1>3, <1>4, <1>6

\* A step after which no module has anything to do.
LEMMA AllIsQuiet ==
    ASSUME IndInv, \A x \in Frames' : Call(x)'.op \in {"serve", "paths"},
           ready' \subseteq {RecursiveTask}, pushed' = {}, outside' = {},
           \A t \in Tasks \ {AllPathsDone, RecursiveTask} : refCount'[t] = 0,
           \A m \in Modules : listed'[m] = {} /\ (m_waiting'[m] \/ m_workStarted'[m])
    PROVE  /\ Counted' /\ OneStage' /\ Looks' /\ Prefetched' /\ DataThere'
           /\ \A p \in Paths : PathPlaces(p)' = {}
<1>1. \A t \in Waiters : t \in Tasks \ {AllPathsDone, RecursiveTask} /\ refCount'[t] = 0 /\ t \notin ready'
  BY TaskTypes
<1>2. /\ \A m \in Modules : RunTask(m) \in Waiters
      /\ \A p \in Paths : NextTask(p) \in Waiters
      /\ \A m \in HasAcquire : AfterAcquire(m) \in Tasks \ {AllPathsDone, RecursiveTask}
                               /\ AfterAcquire(m) \notin ready'
  BY TaskTypes, TaskNames
<1>3. ASSUME NEW t PROVE \A x : x \notin Holders(t)'
  <2>1. \A x \in Frames' : ~Holds(Call(x), t)'
    BY DEF Holds
  <2>2. \A x \in Modules \X {0} : t \notin listed'[x[1]]
    OBVIOUS
  <2> QED
    BY <2>1, <2>2 DEF Holders
<1>4. Counted'
  <2>1. ASSUME NEW t \in Waiters PROVE AtLeast(refCount'[t], Holders(t)')
    <3>1. Holders(t)' = {}
      BY <1>3
    <3> QED
      BY <1>1, <3>1, AtLeastNone
  <2> QED
    BY <1>2, <2>1 DEF Counted, AtLeast
<1>5. OneStage'
  <2>1. ASSUME NEW m \in Modules PROVE \A s : s \notin Stages(m)'
    <3>1. \A x : x \notin Running(m)'
      BY DEF Running, Having
    <3> QED
      BY <1>1, <1>2, <3>1 DEF Stages
  <2> QED
    BY <2>1 DEF OneStage
<1>6. Looks'
  BY DEF Looks
<1>7. Prefetched'
  <2>1. \A m \in Modules : refCount'[RunTask(m)] = 0 /\ RunTask(m) \notin ready'
    BY <1>1, <1>2
  <2> QED
    BY <2>1 DEF Prefetched
<1>8. DataThere'
  BY <1>2 DEF DataThere
<1>9. ASSUME NEW p \in Paths PROVE PathPlaces(p)' = {}
  <2>1. \A x : x \notin FiltersOf(p)'
    BY DEF FiltersOf, Having
  <2>2. refCount'[NextTask(p)] = 0 /\ NextTask(p) \notin ready'
    BY <1>1, <1>2
  <2> QED
    BY <2>1, <2>2 DEF PathPlaces
<1> QED
  BY <1>4, <1>5, <1>6, <1>7, <1>8, <1>9

\* The stream ends.
LEMMA StreamEnds ==
    ASSUME IndInv, NoLateLook, NEW th \in Threads, NoMoreEvents(th)
    PROVE  IndInv'
<1>1. Types
  BY DEF IndInv
<1>2. PICK f : f = Inner(th)
  OBVIOUS
<1>3. /\ Inside(th, "handle") /\ ~Idle(th) /\ m_seenEvents' = m_seenEvents + 1
      /\ ResetModules(Producers) /\ outcome' = "done" /\ Become(th, <<>>)
      /\ UNCHANGED <<m_index, tasks, pushed, outside, fatal, open, history>>
  BY DEF NoMoreEvents, CountEvent, Inside
<1>4. /\ f \in Frames /\ Call(f).op = "handle" /\ m_seenEvents <= NEvents
      /\ \A x \in Frames : Call(x).op = "serve" \/ x = f
      /\ ready = {} /\ pushed = {} /\ outside = {}
      /\ \A t \in Tasks : refCount[t] = 0
      /\ \A m \in Modules : listed[m] = {}
  BY <1>2, <1>3, OnlyHandle
<1>5. Ends(f) /\ stack' \in [Threads -> Seq(Calls)]
  BY <1>1, <1>2, <1>3, CallEnds
<1>6. \A x \in Frames' : Call(x)'.op = "serve"
  BY <1>4, <1>5 DEF Ends
<1>7. /\ m_workStarted' \in [Modules -> BOOLEAN] /\ m_waiting' \in [Modules -> BOOLEAN]
      /\ m_exceptionPtr' \in [Modules -> BOOLEAN] /\ m_wasCached' \in [Producers -> BOOLEAN]
      /\ m_keep' \in [Filters -> BOOLEAN] /\ UNCHANGED listed
      /\ \A m \in Modules : /\ m_workStarted'[m] <=> m_workStarted[m] /\ m \notin Producers
                            /\ m_waiting'[m] <=> m_waiting[m] \/ m \in Producers
  BY <1>1, <1>3 DEF Types, ResetModules
<1>8. Types'
  <2>1. m_seenEvents' \in 0 .. NEvents + 1
    BY <1>1, <1>3, <1>4, ScheduleAssumption DEF Types
  <2> QED
    BY <1>1, <1>3, <1>5, <1>7, <2>1 DEF Types, tasks, history
<1>9. \A m \in Modules : m_waiting'[m] \/ m_workStarted'[m]
  BY <1>7 DEF IndInv, Looks
<1>10. /\ Counted' /\ OneStage' /\ Looks' /\ Prefetched' /\ DataThere'
       /\ \A p \in Paths : PathPlaces(p)' = {}
  BY <1>3, <1>4, <1>6, <1>7, <1>9, AllIsQuiet DEF tasks
<1>11. NoneInCircle'
  <2>1. Started' \subseteq Started
    BY <1>7 DEF Started
  <2> QED
    BY <1>7, <2>1, CircleKept DEF IndInv
<1>12. Produced'
  BY <1>7 DEF Produced, Modules
<1>13. (\A x : x \notin Having("paths")') /\ (\A x : x \notin Having("handle")')
  BY <1>6 DEF Having
<1>14. PathsInOrder'
  BY <1>10, <1>13 DEF PathsInOrder
<1>15. OneEvent'
  <2>1. PathHolders' = {}
    BY <1>10, <1>13 DEF PathHolders
  <2>2. refCount'[AllPathsDone] = 0 /\ refCount'[RecursiveTask] = 0 /\ ready' = {}
    BY <1>3, <1>4, TaskTypes DEF tasks
  <2>3. StreamPlaces' = {}
    BY <1>13, <2>2 DEF StreamPlaces
  <2>4. AtLeast(refCount'[AllPathsDone], PathHolders')
    BY <2>1, <2>2, AtLeastNone
  <2> QED
    BY <2>2, <2>3, <2>4 DEF OneEvent, AtLeast
<1> QED
  BY <1>8, <1>10, <1>11, <1>12, <1>14, <1>15 DEF IndInv

\* The next event begins.
LEMMA EventBegins ==
    ASSUME IndInv, NoLateLook, NEW th \in Threads, NextEvent(th)
    PROVE  IndInv'
<1>1. Types
  BY DEF IndInv
<1>2. PICK f, c : f = Inner(th) /\ c = RunPaths(m_paths)
  OBVIOUS
<1>3. /\ Inside(th, "handle") /\ ~Idle(th) /\ m_seenEvents' = m_seenEvents + 1
      /\ m_seenEvents < NEvents /\ ResetModules(Modules)
      /\ except' = [except EXCEPT ![RecursiveTask] = FALSE]
      /\ open' = TRUE /\ runs' = [m \in Modules |-> 0] /\ threw' = {}
      /\ UNCHANGED <<m_index, pushed, outside, fatal, outcome>>
  BY DEF NextEvent, HasNextEvent, CountEvent, Inside
<1>4. /\ f \in Frames /\ Call(f).op = "handle" /\ m_seenEvents <= NEvents
      /\ \A x \in Frames : Call(x).op = "serve" \/ x = f
      /\ ready = {} /\ pushed = {} /\ outside = {}
      /\ \A t \in Tasks : refCount[t] = 0
      /\ \A m \in Modules : listed[m] = {}
  BY <1>2, <1>3, OnlyHandle
<1>5. AllPathsDone \in Tasks /\ RecursiveTask \in Tasks /\ AllPathsDone # RecursiveTask
  BY TaskTypes, TaskNames
<1>6. m_paths \in Seq(Paths) /\ c \in Calls /\ c.op = "paths" /\ c.rest = m_paths
  BY <1>2, ScheduleAssumption, CallsMade DEF RunPaths
<1>7. \/ /\ Ends(f) /\ ready' = {RecursiveTask} /\ UNCHANGED refCount
      \/ /\ Turns(f, c) /\ ready' = {} /\ refCount'[RecursiveTask] = 1 /\ refCount'[AllPathsDone] = 1
  <2>1. CASE m_paths = <<>>
    <3>1. Become(th, <<>>) /\ ready' = ready \cup {RecursiveTask} /\ UNCHANGED refCount
      BY <2>1 DEF NextEvent
    <3>2. Ends(f)
      BY <1>1, <1>2, <1>3, <3>1, CallEnds
    <3> QED
      BY <1>4, <3>1, <3>2
  <2>2. CASE m_paths # <<>>
    <3>1. /\ Become(th, <<c>>) /\ UNCHANGED ready
          /\ refCount' = [refCount EXCEPT ![RecursiveTask] = 1, ![AllPathsDone] = 1]
      BY <1>2, <2>2 DEF NextEvent
    <3>2. Turns(f, c)
      BY <1>1, <1>2, <1>3, <1>6, <3>1, CallTurns
    <3> QED
      BY <1>1, <1>4, <1>5, <3>1, <3>2 DEF Types
  <2> QED
    BY <2>1, <2>2
<1>8. /\ stack' \in [Threads -> Seq(Calls)] /\ refCount' \in [Tasks -> Int]
      /\ \A t \in Tasks \ {AllPathsDone, RecursiveTask} : refCount'[t] = 0
  <2>1. CASE m_paths = <<>>
    <3>1. Become(th, <<>>) /\ UNCHANGED refCount
      BY <2>1 DEF NextEvent
    <3>2. stack' \in [Threads -> Seq(Calls)]
      BY <1>1, <1>2, <1>3, <3>1, CallEnds
    <3> QED
      BY <1>1, <1>4, <3>1, <3>2 DEF Types
  <2>2. CASE m_paths # <<>>
    <3>1. /\ Become(th, <<c>>)
          /\ refCount' = [refCount EXCEPT ![RecursiveTask] = 1, ![AllPathsDone] = 1]
      BY <1>2, <2>2 DEF NextEvent
    <3>2. stack' \in [Threads -> Seq(Calls)]
      BY <1>1, <1>2, <1>3, <1>6, <3>1, CallTurns
    <3> QED
      BY <1>1, <1>4, <1>5, <3>1, <3>2 DEF Types
  <2> QED
    BY <2>1, <2>2
<1>9. \A x \in Frames' : Call(x)'.op = "serve" \/ (x = f /\ Turns(f, c) /\ Call(x)' = c)
  BY <1>4, <1>7 DEF Ends, Turns
<1>10. /\ m_workStarted' \in [Modules -> BOOLEAN] /\ m_waiting' \in [Modules -> BOOLEAN]
       /\ m_exceptionPtr' \in [Modules -> BOOLEAN] /\ m_wasCached' \in [Producers -> BOOLEAN]
       /\ m_keep' \in [Filters -> BOOLEAN] /\ UNCHANGED listed
       /\ \A m \in Modules : ~m_workStarted'[m] /\ m_waiting'[m]
  BY <1>1, <1>3 DEF Types, ResetModules
<1>11. Types'
  <2>1. m_seenEvents' \in 0 .. NEvents + 1
    BY <1>1, <1>3, ScheduleAssumption DEF Types
  <2>2. ready' \subseteq Tasks
    BY <1>5, <1>7
  <2>3. except' \in [Tasks -> BOOLEAN] /\ runs' \in [Modules -> Nat] /\ threw' \subseteq Modules
    BY <1>1, <1>3 DEF Types
  <2> QED
    BY <1>1, <1>3, <1>8, <1>10, <2>1, <2>2, <2>3 DEF Types
<1>12. /\ Counted' /\ OneStage' /\ Looks' /\ Prefetched' /\ DataThere'
       /\ \A p \in Paths : PathPlaces(p)' = {}
  <2>1. \A x \in Frames' : Call(x)'.op \in {"serve", "paths"}
    BY <1>6, <1>9
  <2>2. ready' \subseteq {RecursiveTask} /\ pushed' = {} /\ outside' = {}
    BY <1>3, <1>4, <1>7
  <2> QED
    BY <1>4, <1>8, <1>10, <2>1, <2>2, AllIsQuiet
<1>13. NoneInCircle' /\ Produced'
  <2>1. Started' = {}
    BY <1>10 DEF Started
  <2> QED
    BY <1>10, <2>1 DEF NoneInCircle, Produced, Modules
<1>14. /\ \A x \in Having("paths")' : x = f /\ Turns(f, c) /\ Call(x)' = c
       /\ \A x : x \notin Having("handle")'
  BY <1>6, <1>9 DEF Having
<1>15. PathsInOrder'
  <2>1. \A i, j \in 1 .. Len(m_paths) : m_paths[i] = m_paths[j] => i = j
    BY <1>6, ScheduleAssumption, LenProperties
  <2>2. (\A x \in Having("paths") :
            /\ \A i, j \in 1 .. Len(Call(x).rest) : Call(x).rest[i] = Call(x).rest[j] => i = j
            /\ \A i \in 1 .. Len(Call(x).rest) : \A p \in Paths :
                  Call(x).rest[i] = p => PathPlaces(p) = {})'
    <3> SUFFICES ASSUME NEW x \in Having("paths")'
                 PROVE  (/\ \A i, j \in 1 .. Len(Call(x).rest) : Call(x).rest[i] = Call(x).rest[j] => i = j
                         /\ \A i \in 1 .. Len(Call(x).rest) : \A p \in Paths :
                               Call(x).rest[i] = p => PathPlaces(p) = {})'
      OBVIOUS
    <3>1. Call(x)'.rest = m_paths
      BY <1>6, <1>14
    <3> QED
      BY <1>12, <2>1, <3>1
  <2> QED
    BY <1>12, <1>14, <2>2 DEF PathsInOrder
<1>16. OneEvent'
  <2>1. CASE Ends(f) /\ ready' = {RecursiveTask} /\ UNCHANGED refCount
    <3>1. \A x : x \notin Having("paths")'
      BY <1>4, <2>1 DEF Ends, Having
    <3>2. PathHolders' = {}
      BY <1>12, <3>1 DEF PathHolders
    <3>3. refCount'[AllPathsDone] = 0 /\ refCount'[RecursiveTask] = 0
      BY <1>4, <1>5, <2>1
    <3>4. AtLeast(refCount'[AllPathsDone], PathHolders')
      BY <3>2, <3>3, AtLeastNone
    <3>5. \A s \in StreamPlaces' : s = <<"over", 0>>
      BY <1>5, <1>14, <2>1, <3>3 DEF StreamPlaces
    <3>6. m_seenEvents' <= NEvents /\ AllPathsDone \notin ready'
      BY <1>1, <1>3, <1>5, <2>1, ScheduleAssumption DEF Types
    <3> QED
      BY <3>3, <3>4, <3>5, <3>6 DEF OneEvent, AtLeast
  <2>2. CASE Turns(f, c) /\ ready' = {} /\ refCount'[RecursiveTask] = 1 /\ refCount'[AllPathsDone] = 1
    <3>1. PathHolders' \subseteq {} \cup {f}
      BY <1>12, <1>14 DEF PathHolders
    <3>2. AtLeast(refCount'[AllPathsDone], PathHolders')
      <4>1. PICK n, g : n = 0 /\ n \in Int /\ g = PathHolders'
        OBVIOUS
      <4>2. AtLeast(n, {}) /\ g \subseteq {} \cup {f}
        BY <3>1, <4>1, AtLeastNone
      <4>3. AtLeast(n + 1, g)
        BY <4>1, <4>2, AtLeastMore
      <4> QED
        BY <2>2, <4>1, <4>3
    <3>3. \A s \in StreamPlaces' : s = <<"paths", 0>>
      BY <1>14, <2>2 DEF StreamPlaces
    <3>4. m_seenEvents' <= NEvents
      BY <1>1, <1>3, ScheduleAssumption DEF Types
    <3> QED
      BY <2>2, <3>2, <3>3, <3>4 DEF OneEvent, AtLeast
  <2> QED
    BY <1>7, <2>1, <2>2
<1> QED
  BY <1>11, <1>12, <1>13, <1>15, <1>16 DEF IndInv

-----------------------------------------------------------------------------
(* The invariant holds in the beginning, and steps keep it. *)

\* In the beginning the stream is about to ask for its first event.
LEMMA InitInv == Init => IndInv
<1> SUFFICES ASSUME Init
             PROVE  IndInv
  OBVIOUS
<1>1. PICK th \in Threads : stack = [x \in Threads |-> IF x = th THEN <<Handle>> ELSE <<>>]
  BY DEF Init
<1>2. stack \in [Threads -> Seq(Calls)]
  <2>1. <<Handle>> \in Seq(Calls) /\ <<>> \in Seq(Calls)
    BY CallsMade
  <2> QED
    BY <1>1, <2>1
<1>3. \A x \in Frames : x = <<th, 1>> /\ Call(x) = Handle
  <2> SUFFICES ASSUME NEW x \in Frames PROVE x = <<th, 1>> /\ Call(x) = Handle
    OBVIOUS
  <2>1. x[1] \in Threads /\ x[2] \in Nat \ {0} /\ x[2] <= Len(stack[x[1]]) /\ x = <<x[1], x[2]>>
    BY DEF Frames
  <2>2. x[1] = th
    BY <1>1, <2>1
  <2>3. stack[x[1]] = <<Handle>> /\ x[2] = 1
    BY <1>1, <2>1, <2>2
  <2> QED
    BY <2>1, <2>2, <2>3 DEF Call
<1>4. \A x \in Frames : Call(x).op = "handle"
  BY <1>3 DEF Handle
<1>5. Types
  <2>1. /\ m_workStarted \in [Modules -> BOOLEAN] /\ m_waiting \in [Modules -> BOOLEAN]
        /\ m_exceptionPtr \in [Modules -> BOOLEAN] /\ listed \in [Modules -> SUBSET Waiters]
        /\ m_wasCached \in [Producers -> BOOLEAN] /\ m_keep \in [Filters -> BOOLEAN]
        /\ except \in [Tasks -> BOOLEAN]
    BY DEF Init
  <2>2. /\ refCount \in [Tasks -> Int] /\ runs \in [Modules -> Nat]
        /\ m_seenEvents \in 0 .. NEvents + 1
        /\ DOMAIN m_index = Paths
        /\ \A p \in Paths : m_index[p] \in 1 .. Len(PathFilters[p]) \cup {1}
    BY ScheduleAssumption DEF Init
  <2>3. /\ ready \subseteq Tasks /\ pushed \subseteq QueueCalls /\ outside \subseteq HasAcquire
        /\ fatal \in BOOLEAN /\ open \in BOOLEAN /\ outcome \in {"none", "done", "failed"}
        /\ threw \subseteq Modules
    BY DEF Init
  <2> QED
    BY <1>2, <2>1, <2>2, <2>3 DEF Types
<1>6. \A t \in Tasks : refCount[t] = 0
  BY DEF Init
<1>7. \A t : Holders(t) = {}
  <2>1. ASSUME NEW t, NEW x \in Holders(t) PROVE FALSE
    <3>1. x \notin Frames
      BY <1>4 DEF Holders, Holds, Init
    <3>2. x \in Modules \X {0} /\ t \in listed[x[1]]
      BY <3>1 DEF Holders
    <3> QED
      BY <3>2 DEF Init
  <2> QED
    BY <2>1
<1>8. Counted
  BY <1>6, <1>7, AtLeastNone, TaskTypes DEF Counted, Init
<1>9. \A m \in Modules : Stages(m) = {}
  <2> SUFFICES ASSUME NEW m \in Modules, NEW s \in Stages(m) PROVE FALSE
    OBVIOUS
  <2>1. \A x : x \notin Running(m)
    BY <1>4 DEF Running, Having
  <2>2. refCount[RunTask(m)] = 0
    BY <1>6, TaskTypes
  <2> QED
    BY <2>1, <2>2 DEF Stages, Init
<1>10. OneStage
  BY <1>9 DEF OneStage
<1>11. Looks
  BY <1>4 DEF Looks, Init
<1>12. NoneInCircle
  BY DEF NoneInCircle, Started, Init
<1>13. \A p \in Paths : PathPlaces(p) = {}
  <2> SUFFICES ASSUME NEW p \in Paths, NEW s \in PathPlaces(p) PROVE FALSE
    OBVIOUS
  <2>1. \A x : x \notin FiltersOf(p)
    BY <1>4 DEF FiltersOf, Having
  <2>2. refCount[NextTask(p)] = 0
    BY <1>6, TaskTypes
  <2> QED
    BY <2>1, <2>2 DEF PathPlaces, Init
<1>14. \A x : x \notin Having("paths")
  BY <1>4 DEF Having
<1>15. PathsInOrder
  BY <1>13, <1>14 DEF PathsInOrder
<1>16. OneEvent
  <2>1. PathHolders = {}
    BY <1>13, <1>14 DEF PathHolders
  <2>2. refCount[AllPathsDone] = 0 /\ refCount[RecursiveTask] = 0
    BY <1>6, TaskTypes
  <2>3. \A s \in StreamPlaces : s = <<"begins", <<th, 1>>>>
    BY <1>3, <2>2 DEF StreamPlaces, Having, Init
  <2>4. m_seenEvents <= NEvents
    BY ScheduleAssumption DEF Init
  <2>5. AtLeast(refCount[AllPathsDone], PathHolders)
    BY <2>1, <2>2, AtLeastNone
  <2> QED
    BY <2>2, <2>3, <2>4, <2>5 DEF OneEvent, Init
<1>17. Produced
  BY DEF Produced, Init, Modules
<1>18. Prefetched
  <2>1. \A m \in Modules : refCount[RunTask(m)] = 0 /\ RunTask(m) \notin ready
    BY <1>6, TaskTypes DEF Init
  <2> QED
    BY <2>1 DEF Prefetched
<1>19. DataThere
  BY <1>4 DEF DataThere, Init
<1> QED
  BY <1>5, <1>8, <1>10, <1>11, <1>12, <1>15, <1>16, <1>17, <1>18, <1>19 DEF IndInv

\* The steps inside a call.
LEMMA ProceedInv ==
    ASSUME IndInv, NEW th \in Threads, Proceed(th),
           NextEvent(th) \/ NoMoreEvents(th) => NoLateLook
    PROVE  IndInv'
<1>1. CASE AddTask(th)
  BY <1>1, AddWaits, AddPasses
<1>2. CASE InsertTask(th)
  BY <1>2, Inserts
<1>3. CASE RecheckWaiting(th)
  BY <1>3, Rechecks
<1>4. CASE StartWork(th)
  BY <1>4, StartedAlready, WorkStarts
<1>5. CASE PrefetchNext(th)
  BY <1>5, PrefetchGoesOn
<1>6. CASE PrefetchEnd(th)
  BY <1>6, PrefetchEnds
<1>7. CASE QueueServed(th)
  BY <1>7, Served
<1>8. CASE AcquireHandsOver(th)
  BY <1>8, HandsOver
<1>9. CASE \E exception \in BOOLEAN : AcquireEnds(th, exception)
  BY <1>9, AcquireReturns
<1>10. CASE WorkThrows(th) \/ WorkSkipped(th) \/ \E keep \in BOOLEAN : WorkDone(th, keep)
  BY <1>10, WorkEnds
<1>11. CASE TakeListed(th)
  BY <1>11, Takes
<1>12. CASE TellOne(th)
  BY <1>12, Tells
<1>13. CASE AskFilter(th)
  BY <1>13, PathStops, PathAsks
<1>14. CASE StartPath(th)
  BY <1>14, PathIsEmpty, PathStarts
<1>15. CASE PathsStarted(th)
  BY <1>15, LoopEnds
<1>16. CASE NextEvent(th)
  BY <1>16, EventBegins
<1>17. CASE NoMoreEvents(th)
  BY <1>17, StreamEnds
<1> QED
  BY <1>1, <1>2, <1>3, <1>4, <1>5, <1>6, <1>7, <1>8, <1>9, <1>10, <1>11, <1>12, <1>13,
     <1>14, <1>15, <1>16, <1>17 DEF Proceed

\* What an idle thread begins.
LEMMA ExecuteInv ==
    ASSUME IndInv, NEW th \in Threads, Execute(th)
    PROVE  IndInv'
<1>1. CASE \E m \in Modules : RunModule(th, m)
  BY <1>1, ModuleRuns
<1>2. CASE \E m \in HasAcquire : RunAfterAcquire(th, m)
  BY <1>2, AcquiredRuns
<1>3. CASE \E p \in Paths : FilterFinished(th, p)
  BY <1>3, PathGoesOn
<1>4. CASE ServeQueue(th)
  BY <1>4, QueueServes
<1>5. CASE AllPathsDoneExecute(th)
  BY <1>5, PathsAreDone
<1>6. CASE EventDone(th)
  BY <1>6, EventIsDone
<1> QED
  BY <1>1, <1>2, <1>3, <1>4, <1>5, <1>6 DEF Execute, TakeReady

\* A step that changes nothing.
LEMMA StutterInv == ASSUME IndInv, UNCHANGED vars PROVE IndInv'
<1> USE DEF vars, wrappers, tasks, stream, history
<1>1. Frames' = Frames /\ \A x : Call(x)' = Call(x)
  BY DEF Frames, Call
<1>2. \A op : Having(op)' = Having(op)
  BY <1>1 DEF Having
<1>3. SamePlaces
  BY <1>1, <1>2 DEF SamePlaces
<1>4. OneStage' /\ PathsInOrder' /\ OneEvent' /\ DataThere'
  BY <1>3, PlacesInOrder
<1>5. \A t : Holders(t)' = Holders(t)
  BY <1>1 DEF Holders, Holds
<1>6. Counted'
  BY <1>5, CountedAsBefore
<1>7. Looks'
  BY <1>1 DEF IndInv, Looks
<1>8. NoneInCircle' /\ Produced'
  BY DEF IndInv, NoneInCircle, Started, Produced
<1>9. Prefetched'
  <2>1. \A x, m, n : WaitsFor(x, m, n)' <=> WaitsFor(x, m, n)
    BY <1>1 DEF WaitsFor, RunTask
  <2>2. \A m, n : Answered(m, n)' <=> Answered(m, n)
    BY DEF Answered, RunTask
  <2> QED
    BY <1>5, <2>1, <2>2 DEF IndInv, Prefetched
<1>10. Types'
  BY DEF IndInv, Types
<1> QED
  BY <1>4, <1>6, <1>7, <1>8, <1>9, <1>10 DEF IndInv

\* All steps.
LEMMA NextInv ==
    ASSUME IndInv, [Next]_vars,
           \A th \in Threads : NextEvent(th) \/ NoMoreEvents(th) => NoLateLook
    PROVE  IndInv'
<1>1. CASE \E th \in Threads : Proceed(th)
  BY <1>1, ProceedInv
<1>2. CASE \E th \in Threads : Execute(th)
  BY <1>2, ExecuteInv
<1>3. CASE Finish
  BY <1>3, OutsideFinishes DEF Finish
<1>4. CASE OtherStreamFails
  BY <1>4, OthersFail
<1>5. CASE UNCHANGED vars
  BY <1>5, StutterInv
<1> QED
  BY <1>1, <1>2, <1>3, <1>4, <1>5 DEF Next

-----------------------------------------------------------------------------
(* What follows from the invariant. *)

\* No task has less than no reference.
LEMMA TypesFollow == IndInv => TypeOK
<1> SUFFICES ASSUME IndInv
             PROVE  TypeOK
  OBVIOUS
<1>1. Types /\ Counted
  BY DEF IndInv
<1>2. refCount \in [Tasks -> Nat]
  <2>1. \A t \in Waiters : refCount[t] \in Nat
    BY <1>1, HeldIsCounted
  <2>2. \A m \in HasAcquire : refCount[AfterAcquire(m)] \in Nat
    BY <1>1 DEF Counted
  <2>3. refCount[AllPathsDone] \in Nat
    BY OneStreamPlace
  <2>4. refCount[RecursiveTask] \in Nat
    BY DEF IndInv, OneEvent
  <2>5. \A t \in Tasks : refCount[t] \in Nat
    BY <2>1, <2>2, <2>3, <2>4 DEF Tasks, Waiters
  <2> QED
    BY <1>1, <2>5 DEF Types
<1>3. listed \in [Modules -> SUBSET Tasks]
  <2>1. listed \in [Modules -> SUBSET Waiters] /\ Waiters \subseteq Tasks
    BY <1>1, TaskTypes DEF Types
  <2> QED
    BY <2>1
<1>4. \A call \in pushed : call.op \in {"acquire", "work", "fail"}
  BY <1>1 DEF Types, QueueCalls
<1> QED
  BY <1>1, <1>2, <1>3, <1>4 DEF Types, TypeOK

\* A module that works has its data.
LEMMA DataFollow == IndInv => GetsItsData
<1> SUFFICES ASSUME IndInv, NEW th \in Threads, Inside(th, "work")
             PROVE  \A n \in Range(Gets[Top(th).mod]) : m_wasCached[n]
  BY DEF GetsItsData
<1>1. Inner(th) \in Frames /\ Call(Inner(th)) = Top(th) /\ Top(th).op = "work"
  BY CallTypes DEF IndInv, Inside
<1>2. HasData(Top(th).mod)
  BY <1>1 DEF IndInv, DataThere
<1> QED
  BY <1>2 DEF HasData

\* The calls of a thread are in their places.
LEMMA CallsHavePlaces ==
    ASSUME Types, NEW th \in Threads, NEW call \in Range(stack[th])
    PROVE  \E x \in Frames : Call(x) = call
<1>1. PICK i \in 1 .. Len(stack[th]) : call = stack[th][i]
  BY LenProperties DEF Types, Range
<1>2. Len(stack[th]) \in Nat
  BY LenProperties DEF Types
<1>3. PICK j : j = Len(stack[th]) + 1 - i
  OBVIOUS
<1>4. j \in Nat \ {0} /\ j <= Len(stack[th]) /\ Len(stack[th]) + 1 - j = i
  BY <1>2, <1>3
<1>5. <<th, j>> \in Frames /\ Call(<<th, j>>) = call
  BY <1>1, <1>4 DEF Frames, Call
<1> QED
  BY <1>5

\* Nothing is left between two events.
LEMMA QuietFollows == IndInv /\ NoLateLook => QuietBetweenEvents
<1> SUFFICES ASSUME IndInv, NoLateLook, Between
             PROVE  /\ ready \subseteq {RecursiveTask}
                    /\ \A t \in Tasks : refCount[t] = 0
                    /\ \A m \in Modules : listed[m] = {}
                    /\ pushed = {} /\ outside = {}
                    /\ \A th \in Threads : \A call \in Range(stack[th]) :
                          call.op \in {"handle", "serve"}
  BY DEF QuietBetweenEvents
<1>1. /\ ready \subseteq {RecursiveTask}
      /\ \A t \in Tasks : refCount[t] = 0
      /\ \A m \in Modules : listed[m] = {}
      /\ pushed = {} /\ outside = {}
      /\ \A x \in Frames : Call(x).op \in {"handle", "serve"} \/ LateLook(Call(x))
  BY NothingIsHeld DEF NothingHeld
<1>2. \A x \in Frames : ~LateLook(Call(x))
  BY DEF NoLateLook
<1>3. ASSUME NEW th \in Threads, NEW call \in Range(stack[th])
      PROVE  call.op \in {"handle", "serve"}
  BY <1>1, <1>2, CallsHavePlaces DEF IndInv
<1> QED
  BY <1>1, <1>3

-----------------------------------------------------------------------------
(* Theorems. *)

\* While no thread is late, the invariant holds.
LEMMA InvariantHolds == Spec /\ []NoLateLook => []IndInv
<1>1. IndInv /\ NoLateLook /\ [Next]_vars => IndInv'
  BY NextInv
<1> QED
  BY InitInv, <1>1, PTL DEF Spec

\* Type correctness: in particular no task is told more often than it has
\* references.
THEOREM TypeCorrectness == Spec /\ []NoLateLook => []TypeOK
  BY InvariantHolds, TypesFollow, PTL

\* Event::get never asserts: a module works when all it gets has been put.
THEOREM DataInTime == Spec /\ []NoLateLook => []GetsItsData
  BY InvariantHolds, DataFollow, PTL

\* What is reset between two events is nobody's any more, as long as no thread
\* is late: there is no other way into the next event.
THEOREM QuietResets == Spec /\ []NoLateLook => []QuietBetweenEvents
<1>1. IndInv /\ NoLateLook => QuietBetweenEvents
  BY QuietFollows
<1> QED
  BY InvariantHolds, <1>1, PTL

-----------------------------------------------------------------------------
(* The first event, on any number of threads. *)

\* Before its first event the stream has nothing but the call that begins it.
Untouched ==
    /\ ready = {} /\ pushed = {} /\ outside = {}
    /\ \A th \in Threads : Idle(th) \/ Inside(th, "handle")
    /\ \A x \in Frames : Call(x).op = "handle"

\* The invariant of the first event.
FirstInv == /\ m_seenEvents \in Nat
            /\ m_seenEvents <= 1 => IndInv
            /\ m_seenEvents = 0 => Untouched

\* Events are counted when the stream asks for one.
LEMMA EventsCounted ==
    ASSUME [Next]_vars, \A th \in Threads : ~NextEvent(th) /\ ~NoMoreEvents(th)
    PROVE  m_seenEvents' = m_seenEvents
<1>1. ASSUME NEW th \in Threads, Proceed(th) PROVE m_seenEvents' = m_seenEvents
  BY <1>1 DEF Proceed, AddTask, InsertTask, RecheckWaiting, StartWork, PrefetchNext, PrefetchEnd,
     QueueServed, AcquireHandsOver, AcquireEnds, WorkDone, WorkThrows, WorkSkipped, DoneWaiting,
     TakeListed, TellOne, AskFilter, StartPath, PathsStarted, stream
<1>2. ASSUME NEW th \in Threads, Execute(th) PROVE m_seenEvents' = m_seenEvents
  BY <1>2 DEF Execute, TakeReady, RunModule, RunAfterAcquire, FilterFinished, ServeQueue,
     AllPathsDoneExecute, EventDone, stream
<1>3. Finish \/ OtherStreamFails \/ UNCHANGED vars => m_seenEvents' = m_seenEvents
  BY DEF Finish, OutsideDone, OtherStreamFails, vars, stream
<1> QED
  BY <1>1, <1>2, <1>3 DEF Next

\* Inside handleNextEventAsync nothing else is to be done ...
LEMMA InsideHandle ==
    ASSUME NEW th \in Threads, Proceed(th), \A op : Inside(th, op) => op = "handle"
    PROVE  NextEvent(th) \/ NoMoreEvents(th)
<1>1. ~(AddTask(th) \/ InsertTask(th) \/ RecheckWaiting(th) \/ StartWork(th))
  BY DEF AddTask, InsertTask, RecheckWaiting, StartWork
<1>2. ~(PrefetchNext(th) \/ PrefetchEnd(th) \/ QueueServed(th) \/ AcquireHandsOver(th))
  BY DEF PrefetchNext, PrefetchEnd, QueueServed, AcquireHandsOver
<1>3. ~(\E exception \in BOOLEAN : AcquireEnds(th, exception))
  BY DEF AcquireEnds
<1>4. ~(\E keep \in BOOLEAN : WorkDone(th, keep)) /\ ~(WorkThrows(th) \/ WorkSkipped(th))
  BY DEF WorkDone, WorkThrows, WorkSkipped
<1>5. ~(TakeListed(th) \/ TellOne(th) \/ AskFilter(th) \/ StartPath(th) \/ PathsStarted(th))
  BY DEF TakeListed, TellOne, AskFilter, StartPath, PathsStarted
<1> QED
  BY <1>1, <1>2, <1>3, <1>4, <1>5 DEF Proceed

\* ... and before the first event there is nothing else.
LEMMA NothingElse ==
    ASSUME Untouched, NEW th \in Threads, Proceed(th) \/ Execute(th)
    PROVE  NextEvent(th) \/ NoMoreEvents(th)
<1>1. \A op : Inside(th, op) => op = "handle"
  BY DEF Untouched, Inside
<1>2. CASE Execute(th)
  BY <1>2 DEF Untouched, Execute, TakeReady, RunModule, RunAfterAcquire, FilterFinished, ServeQueue,
     AllPathsDoneExecute, EventDone, Take
<1> QED
  BY <1>1, <1>2, InsideHandle

\* That holds at the start ...
LEMMA FirstInvInit == Init => FirstInv
<1> SUFFICES ASSUME Init
             PROVE  FirstInv
  OBVIOUS
<1>1. PICK th \in Threads : stack = [x \in Threads |-> IF x = th THEN <<Handle>> ELSE <<>>]
  BY DEF Init
<1>2. \A x \in Threads : stack[x] = <<Handle>> \/ stack[x] = <<>>
  BY <1>1
<1>3. \A x \in Threads : Idle(x) \/ Inside(x, "handle")
  <2> SUFFICES ASSUME NEW x \in Threads PROVE Idle(x) \/ Inside(x, "handle")
    OBVIOUS
  <2>1. CASE stack[x] = <<>>
    BY <2>1 DEF Idle
  <2>2. CASE stack[x] = <<Handle>>
    <3>1. Head(stack[x]) = Handle
      BY <2>2
    <3> QED
      BY <3>1 DEF Idle, Inside, Top, Handle
  <2> QED
    BY <1>2, <2>1, <2>2
<1>4. ASSUME NEW x \in Frames PROVE Call(x).op = "handle"
  <2>1. x[1] \in Threads /\ x[2] \in Nat \ {0} /\ x[2] <= Len(stack[x[1]])
    BY DEF Frames
  <2>2. PICK w : w = stack[x[1]]
    OBVIOUS
  <2>3. CASE w = <<>>
    <3>1. Len(w) = 0
      BY <2>3
    <3> QED
      BY <2>1, <2>2, <3>1
  <2>4. CASE w = <<Handle>>
    <3>1. Len(w) = 1 /\ w[1] = Handle
      BY <2>4
    <3>2. x[2] = 1 /\ Call(x) = Handle
      BY <2>1, <2>2, <3>1 DEF Call
    <3> QED
      BY <3>2 DEF Handle
  <2> QED
    BY <1>2, <2>1, <2>2, <2>3, <2>4
<1> QED
  BY <1>3, <1>4, InitInv DEF FirstInv, Untouched, Init

\* ... and after every step.
LEMMA FirstInvNext == ASSUME FirstInv, [Next]_vars PROVE FirstInv'
<1>1. CASE \E th \in Threads : NextEvent(th) \/ NoMoreEvents(th)
  <2>1. PICK th \in Threads : NextEvent(th) \/ NoMoreEvents(th)
    BY <1>1
  <2>2. m_seenEvents' = m_seenEvents + 1
    BY <2>1 DEF NextEvent, NoMoreEvents, CountEvent
  <2>3. CASE m_seenEvents # 0
    BY <2>2, <2>3 DEF FirstInv
  <2>4. CASE m_seenEvents = 0
    <3>1. IndInv /\ NoLateLook
      BY <2>4 DEF FirstInv, Untouched, NoLateLook, LateLook
    <3>2. IndInv'
      BY <3>1, NextInv
    <3> QED
      BY <2>2, <2>4, <3>2 DEF FirstInv
  <2> QED
    BY <2>3, <2>4
<1>2. CASE ~\E th \in Threads : NextEvent(th) \/ NoMoreEvents(th)
  <2>1. m_seenEvents' = m_seenEvents
    BY <1>2, EventsCounted
  <2>2. m_seenEvents <= 1 => IndInv'
    BY <1>2, NextInv DEF FirstInv
  <2>3. ASSUME m_seenEvents = 0 PROVE Untouched'
    <3>1. Untouched
      BY <2>3 DEF FirstInv
    <3>2. ~\E th \in Threads : Proceed(th) \/ Execute(th)
      BY <1>2, <3>1, NothingElse
    <3>3. ~Finish
      BY <3>1 DEF Untouched, Finish
    <3>4. UNCHANGED <<ready, pushed, outside, stack>>
      BY <3>2, <3>3 DEF Next, OtherStreamFails, vars, tasks
    <3> QED
      BY <3>1, <3>4 DEF Untouched, Idle, Inside, Top, Frames, Call
  <2> QED
    BY <2>1, <2>2, <2>3 DEF FirstInv
<1> QED
  BY <1>1, <1>2

\* In the first event nothing can be late: on any number of threads every
\* module has its data, and nothing is held when the event is over.
THEOREM FirstEvent ==
    Spec => [](m_seenEvents <= 1 => TypeOK /\ GetsItsData /\ NothingHeld)
<1>1. FirstInv /\ [Next]_vars => FirstInv'
  BY FirstInvNext
<1>2. FirstInv => (m_seenEvents <= 1 => TypeOK /\ GetsItsData /\ NothingHeld)
  BY TypesFollow, DataFollow, NothingIsHeld DEF FirstInv
<1> QED
  BY FirstInvInit, <1>1, <1>2, PTL DEF Spec

-----------------------------------------------------------------------------
(* All events, on one thread. *)

\* When an event is over the thread is in nothing but the call that begins the
\* next one: recursiveTask gets ready when the thread has left everything else.
HandleAlone ==
    RecursiveTask \in ready \/ Having("handle") # {} =>
        \A x \in Frames : Call(x).op = "handle"

\* No thread is in handleNextEventAsync.
NoHandle == \A y \in Threads : \A i \in 1 .. Len(stack[y]) : stack[y][i].op # "handle"

\* Thread th goes on, or begins, with calls other than it.
Moves(th) ==
    \/ UNCHANGED stack
    \/ \E c, d : /\ c.op # "handle" /\ d.op # "handle"
                 /\ \/ ~Idle(th) /\ \E s \in {<<>>, <<c>>, <<d, c>>} : Become(th, s)
                    \/ \E s \in {<<c>>, <<d, c>>} : Begin(th, s)

\* Seen from the places of calls it is the same.
LEMMA NoHandlePlaces == Types => (NoHandle <=> Having("handle") = {})
<1> SUFFICES ASSUME Types
             PROVE  NoHandle <=> Having("handle") = {}
  OBVIOUS
<1>1. ASSUME NEW x \in Having("handle")
      PROVE  ~NoHandle
  <2>1. x[1] \in Threads /\ x[2] \in Nat \ {0} /\ x[2] <= Len(stack[x[1]]) /\ Call(x).op = "handle"
    BY DEF Having, Frames
  <2>2. PICK i : i = Len(stack[x[1]]) + 1 - x[2]
    OBVIOUS
  <2>3. Len(stack[x[1]]) \in Nat
    BY <2>1, LenProperties DEF Types
  <2>4. i \in 1 .. Len(stack[x[1]]) /\ stack[x[1]][i].op = "handle"
    BY <2>1, <2>2, <2>3 DEF Call
  <2> QED
    BY <2>1, <2>4 DEF NoHandle
<1>2. ASSUME NEW y \in Threads, NEW i \in 1 .. Len(stack[y]), stack[y][i].op = "handle"
      PROVE  Having("handle") # {}
  <2>1. Len(stack[y]) \in Nat
    BY LenProperties DEF Types
  <2>2. stack[y][i] \in Range(stack[y])
    BY LenProperties DEF Types, Range
  <2>3. PICK x \in Frames : Call(x) = stack[y][i]
    BY <2>2, CallsHavePlaces
  <2> QED
    BY <1>2, <2>3 DEF Having
<1> QED
  BY <1>1, <1>2 DEF NoHandle

\* A thread that goes on with other calls comes to none that begins an event.
LEMMA GoesOnWith ==
    ASSUME NEW S, stack \in [Threads -> Seq(S)], NoHandle, NEW th \in Threads, NEW w \in Seq(S),
           \A i \in 1 .. Len(w) : w[i].op # "handle",
           (~Idle(th) /\ Become(th, w)) \/ Begin(th, w)
    PROVE  NoHandle'
<1>1. ASSUME NEW u, \A i \in 1 .. Len(u) : u[i].op # "handle", stack' = [stack EXCEPT ![th] = u]
      PROVE  NoHandle'
  BY <1>1 DEF NoHandle
<1>2. CASE Begin(th, w)
  BY <1>1, <1>2 DEF Begin
<1>3. CASE ~Idle(th) /\ Become(th, w)
  <2>1. PICK s : s = stack[th]
    OBVIOUS
  <2>2. s \in Seq(S) /\ s # <<>> /\ Len(s) \in Nat \ {0}
    BY <1>3, <2>1, EmptySeq, LenProperties DEF Idle
  <2>3. PICK r : r = Tail(s)
    OBVIOUS
  <2>4. r \in Seq(S) /\ Len(r) = Len(s) - 1 /\ \A i \in 1 .. Len(r) : r[i] = s[i + 1]
    BY <2>2, <2>3
  <2>5. PICK u : u = w \o r
    OBVIOUS
  <2>6. /\ Len(u) = Len(w) + Len(r) /\ Len(w) \in Nat
        /\ \A i \in 1 .. Len(w) + Len(r) : u[i] = IF i <= Len(w) THEN w[i] ELSE r[i - Len(w)]
    BY <2>4, <2>5, ConcatProperties, LenProperties
  <2>7. ASSUME NEW i \in 1 .. Len(r) PROVE r[i].op # "handle"
    <3>1. i + 1 \in 1 .. Len(s) /\ r[i] = s[i + 1]
      BY <2>2, <2>4
    <3> QED
      BY <2>1, <3>1 DEF NoHandle
  <2>8. ASSUME NEW i \in 1 .. Len(u) PROVE u[i].op # "handle"
    <3>1. Len(r) \in Nat
      BY <2>2, <2>4
    <3>2. CASE i <= Len(w)
      BY <2>6, <3>1, <3>2
    <3>3. CASE ~(i <= Len(w))
      <4>1. i - Len(w) \in 1 .. Len(r) /\ u[i] = r[i - Len(w)]
        BY <2>6, <3>1, <3>3
      <4> QED
        BY <2>7, <4>1
    <3> QED
      BY <3>2, <3>3
  <2>9. stack' = [stack EXCEPT ![th] = u]
    BY <1>3, <2>1, <2>3, <2>5 DEF Become
  <2> QED
    BY <1>1, <2>8, <2>9
<1> QED
  BY <1>2, <1>3

\* So none is made by a thread that moves like that.
LEMMA NoHandleMade ==
    ASSUME Types, NoHandle, NEW th \in Threads, Moves(th)
    PROVE  NoHandle'
<1>1. CASE UNCHANGED stack
  BY <1>1 DEF NoHandle
<1>2. ASSUME NEW c, NEW d, c.op # "handle", d.op # "handle", NEW w \in {<<>>, <<c>>, <<d, c>>},
             (~Idle(th) /\ Become(th, w)) \/ Begin(th, w)
      PROVE  NoHandle'
  <2>1. PICK S : S = Calls \cup {c, d}
    OBVIOUS
  <2>2. stack \in [Threads -> Seq(S)]
    <3>1. ASSUME NEW y \in Threads PROVE stack[y] \in Seq(S)
      <4>1. stack[y] \in Seq(Calls) /\ \A z \in Calls : z \in S
        BY <2>1 DEF Types
      <4>2. Len(stack[y]) \in Nat /\ DOMAIN stack[y] = 1 .. Len(stack[y])
            /\ \A i \in 1 .. Len(stack[y]) : stack[y][i] \in S
        BY <4>1, LenProperties, ElementOfSeq
      <4>3. stack[y] \in [1 .. Len(stack[y]) -> S]
        BY <4>1, <4>2
      <4> QED
        BY <4>2, <4>3, SeqDef
    <3> QED
      BY <3>1 DEF Types
  <2>3. w \in Seq(S) /\ \A i \in 1 .. Len(w) : w[i].op # "handle"
    <3>1. CASE w = <<>>
      BY <3>1
    <3>2. CASE w = <<c>>
      <4>1. <<c>> \in Seq(S) /\ Len(<<c>>) = 1 /\ <<c>>[1] = c
        BY <2>1
      <4> QED
        BY <1>2, <3>2, <4>1
    <3>3. CASE w = <<d, c>>
      <4>1. <<d, c>> \in Seq(S) /\ Len(<<d, c>>) = 2 /\ <<d, c>>[1] = d /\ <<d, c>>[2] = c
        BY <2>1
      <4> QED
        BY <1>2, <3>3, <4>1
    <3> QED
      BY <3>1, <3>2, <3>3
  <2> QED
    BY <1>2, <2>2, <2>3, GoesOnWith
<1> QED
  BY <1>1, <1>2 DEF Moves


\* No other call begins an event.
LEMMA OtherCalls ==
    /\ \A m : /\ Recheck(m).op # "handle" /\ Start(m).op # "handle" /\ Acquire(m).op # "handle"
              /\ Work(m).op # "handle" /\ Fail(m).op # "handle" /\ Announce(m).op # "handle"
    /\ \A m, t : Add(m, t).op # "handle" /\ Insert(m, t).op # "handle"
    /\ \A m, s : Prefetch(m, s).op # "handle" /\ Tell(m, s).op # "handle"
    /\ \A p : RunFilter(p).op # "handle"
    /\ \A s : RunPaths(s).op # "handle" /\ Serve(s).op # "handle"
<1>1. \A m : /\ Recheck(m).op # "handle" /\ Start(m).op # "handle" /\ Acquire(m).op # "handle"
             /\ Work(m).op # "handle" /\ Fail(m).op # "handle" /\ Announce(m).op # "handle"
  BY DEF Recheck, Start, Acquire, Work, Fail, Announce
<1>2. \A m, t : Add(m, t).op # "handle" /\ Insert(m, t).op # "handle"
  BY DEF Add, Insert
<1>3. \A m, s : Prefetch(m, s).op # "handle" /\ Tell(m, s).op # "handle"
  BY DEF Prefetch, Tell
<1>4. (\A p : RunFilter(p).op # "handle")
      /\ (\A s : RunPaths(s).op # "handle" /\ Serve(s).op # "handle")
  BY DEF RunFilter, RunPaths, Serve
<1> QED
  BY <1>1, <1>2, <1>3, <1>4

\* The ways to go on: with nothing, with a call, or with a call that made one.
LEMMA WaysToMove ==
    ASSUME NEW th \in Threads, NEW c, NEW d, c.op # "handle", d.op # "handle",
           \/ UNCHANGED stack
           \/ ~Idle(th) /\ (Become(th, <<>>) \/ Become(th, <<c>>) \/ Become(th, <<d, c>>))
           \/ Begin(th, <<c>>) \/ Begin(th, <<d, c>>)
    PROVE  Moves(th)
<1>1. CASE UNCHANGED stack
  BY <1>1 DEF Moves
<1>2. CASE ~Idle(th) /\ (Become(th, <<>>) \/ Become(th, <<c>>) \/ Become(th, <<d, c>>))
  <2>1. \E s \in {<<>>, <<c>>, <<d, c>>} : Become(th, s)
    BY <1>2
  <2> QED
    BY <1>2, <2>1 DEF Moves
<1>3. CASE Begin(th, <<c>>) \/ Begin(th, <<d, c>>)
  <2>1. \E s \in {<<c>>, <<d, c>>} : Begin(th, s)
    BY <1>3
  <2> QED
    BY <2>1 DEF Moves
<1> QED
  BY <1>1, <1>2, <1>3

\* A task that gets ready when a waiter is let go is not the end of an event.
LEMMA NotTheLast ==
    ASSUME RecursiveTask \notin ready, NEW t, NEW e, Release(t, e), t # RecursiveTask
    PROVE  RecursiveTask \notin ready'
  BY DEF Release

\* Inside another call no step begins an event or ends one.
LEMMA OthersProceed ==
    ASSUME Types, NEW th \in Threads, Proceed(th), ~NextEvent(th), ~NoMoreEvents(th),
           RecursiveTask \notin ready
    PROVE  Moves(th) /\ RecursiveTask \notin ready'
<1> USE DEF tasks
<1>1. \A op : Inside(th, op) => ~Idle(th)
  BY DEF Inside
<1>2. AllPathsDone # RecursiveTask /\ \A m : RunTask(m) # RecursiveTask /\ AfterAcquire(m) # RecursiveTask
  BY TaskNames
<1>3. ~Idle(th) => Top(th) \in Calls
  BY CallTypes
<1>4. \A t \in Waiters : t # RecursiveTask
  BY TaskTypes
<1>5. PICK m, c, d : m = Top(th).mod /\ c = Start(m) /\ d = Insert(m, Top(th).task)
  OBVIOUS
<1>6. c.op # "handle" /\ d.op # "handle"
  BY <1>5, OtherCalls
<1>7. CASE AddTask(th)
  <2>1. Top(th).task \in Waiters /\ ~Idle(th)
    BY <1>1, <1>3, <1>7, CallParts DEF AddTask, Inside
  <2>2. \/ Become(th, <<d, c>>) /\ UNCHANGED ready
        \/ Become(th, <<c>>) /\ Release(Top(th).task, m_exceptionPtr[m])
    BY <1>5, <1>7 DEF AddTask
  <2>3. Moves(th)
    BY <1>6, <2>1, <2>2, WaysToMove
  <2> QED
    BY <1>4, <2>1, <2>2, <2>3, NotTheLast
<1>8. CASE InsertTask(th) \/ RecheckWaiting(th) \/ TakeListed(th)
  <2>1. PICK b, r, k : b = Tell(m, listed[m]) /\ r = Recheck(m) /\ k = Announce(m)
    OBVIOUS
  <2>2. b.op # "handle" /\ r.op # "handle" /\ k.op # "handle"
    BY <2>1, OtherCalls
  <2>3. UNCHANGED ready /\ ~Idle(th)
        /\ (Become(th, <<>>) \/ Become(th, <<b>>) \/ Become(th, <<r>>) \/ Become(th, <<k>>))
    BY <1>1, <1>5, <1>8, <2>1 DEF InsertTask, RecheckWaiting, TakeListed
  <2> QED
    BY <2>2, <2>3, WaysToMove
<1>9. CASE StartWork(th) \/ PrefetchNext(th)
  <2>1. PICK b, r, k : /\ b = Prefetch(m, Gets[m]) /\ r = Prefetch(m, Tail(Top(th).rest))
                       /\ k = Add(Top(th).rest[1], RunTask(m))
    OBVIOUS
  <2>2. b.op # "handle" /\ r.op # "handle" /\ k.op # "handle"
    BY <2>1, OtherCalls
  <2>3. UNCHANGED ready /\ ~Idle(th)
        /\ (Become(th, <<>>) \/ Become(th, <<b>>) \/ Become(th, <<k, r>>))
    BY <1>1, <1>5, <1>9, <2>1 DEF StartWork, PrefetchNext, Retain
  <2> QED
    BY <2>2, <2>3, WaysToMove
<1>10. CASE PrefetchEnd(th)
  <2>1. Become(th, <<>>) /\ ~Idle(th) /\ Release(RunTask(m), FALSE)
    BY <1>1, <1>5, <1>10 DEF PrefetchEnd
  <2> QED
    BY <1>2, <1>6, <2>1, WaysToMove, NotTheLast
<1>11. CASE QueueServed(th) \/ AcquireHandsOver(th)
  <2>1. Become(th, <<>>) /\ ~Idle(th) /\ UNCHANGED ready
    BY <1>1, <1>11 DEF QueueServed, AcquireHandsOver
  <2> QED
    BY <1>6, <2>1, WaysToMove
<1>12. CASE \E exception \in BOOLEAN : AcquireEnds(th, exception)
  <2>1. Become(th, <<>>) /\ ~Idle(th) /\ ready' = ready \cup {AfterAcquire(m)}
    BY <1>1, <1>5, <1>12 DEF AcquireEnds
  <2> QED
    BY <1>2, <1>6, <2>1, WaysToMove
<1>13. CASE WorkThrows(th) \/ WorkSkipped(th) \/ \E keep \in BOOLEAN : WorkDone(th, keep)
  <2>1. PICK k : k = Announce(m)
    OBVIOUS
  <2>2. Become(th, <<k>>) /\ ~Idle(th) /\ UNCHANGED ready
    BY <1>1, <1>5, <1>13, <2>1 DEF WorkThrows, WorkSkipped, WorkDone, DoneWaiting
  <2>3. k.op # "handle"
    BY <2>1, OtherCalls
  <2> QED
    BY <2>2, <2>3, WaysToMove
<1>14. CASE TellOne(th)
  <2>1. PICK t \in Top(th).batch :
           /\ Release(t, m_exceptionPtr[m])
           /\ Become(th, IF Top(th).batch = {t} THEN <<>> ELSE <<Tell(m, Top(th).batch \ {t})>>)
    BY <1>5, <1>14 DEF TellOne
  <2>2. ~Idle(th) /\ Top(th).batch \subseteq Waiters
    BY <1>1, <1>3, <1>14, CallParts DEF TellOne, Inside
  <2>3. PICK b : b = Tell(m, Top(th).batch \ {t})
    OBVIOUS
  <2>4. b.op # "handle" /\ (Become(th, <<>>) \/ Become(th, <<b>>))
    BY <2>1, <2>3, OtherCalls
  <2>5. Moves(th)
    BY <2>2, <2>4, WaysToMove
  <2> QED
    BY <1>4, <2>1, <2>2, <2>5, NotTheLast
<1>15. CASE AskFilter(th)
  <2>1. PICK p, b : p = Top(th).path /\ b = Add(PathFilters[p][m_index[p]], NextTask(p))
    OBVIOUS
  <2>2. /\ ~Idle(th)
        /\ \/ Release(AllPathsDone, FALSE) /\ Become(th, <<>>)
           \/ UNCHANGED ready /\ Become(th, <<b>>)
    BY <1>1, <1>15, <2>1 DEF AskFilter, Retain
  <2>3. b.op # "handle"
    BY <2>1, OtherCalls
  <2>4. Moves(th)
    BY <2>2, <2>3, WaysToMove
  <2> QED
    BY <1>2, <2>2, <2>4, NotTheLast
<1>16. CASE StartPath(th)
  <2>1. PICK b, r : b = RunFilter(Top(th).rest[1]) /\ r = RunPaths(Tail(Top(th).rest))
    OBVIOUS
  <2>2. b.op # "handle" /\ r.op # "handle"
    BY <2>1, OtherCalls
  <2>3. UNCHANGED ready /\ ~Idle(th) /\ (Become(th, <<r>>) \/ Become(th, <<b, r>>))
    BY <1>1, <1>16, <2>1 DEF StartPath
  <2> QED
    BY <2>2, <2>3, WaysToMove
<1>17. CASE PathsStarted(th)
  <2>1. Become(th, <<>>) /\ ~Idle(th) /\ Release(AllPathsDone, FALSE)
    BY <1>1, <1>17 DEF PathsStarted
  <2> QED
    BY <1>2, <1>6, <2>1, WaysToMove, NotTheLast
<1> QED
  BY <1>7, <1>8, <1>9, <1>10, <1>11, <1>12, <1>13, <1>14, <1>15, <1>16, <1>17 DEF Proceed

\* Nor is one begun or ended by what an idle thread takes, but by the two last
\* tasks of an event.
LEMMA OthersBegin ==
    ASSUME Types, NEW th \in Threads, Execute(th), ~AllPathsDoneExecute(th),
           RecursiveTask \notin ready
    PROVE  Moves(th) /\ RecursiveTask \notin ready'
<1>1. ASSUME NEW m, NEW call, call.op # "handle", Dispatch(th, m, call), ready' \subseteq ready
      PROVE  Moves(th) /\ RecursiveTask \notin ready'
  <2>1. UNCHANGED stack \/ Begin(th, <<call>>)
    BY <1>1 DEF Dispatch
  <2> QED
    BY <1>1, <2>1, WaysToMove
<1>2. ASSUME NEW m \in Modules, RunModule(th, m)
      PROVE  Moves(th) /\ RecursiveTask \notin ready'
  <2>1. PICK call : call = IF except[RunTask(m)] THEN Fail(m)
                           ELSE IF m \in HasAcquire THEN Acquire(m) ELSE Work(m)
    OBVIOUS
  <2>2. call.op # "handle" /\ Dispatch(th, m, call) /\ ready' \subseteq ready
    BY <1>2, <2>1, OtherCalls DEF RunModule, Take
  <2> QED
    BY <1>1, <2>2
<1>3. ASSUME NEW m \in HasAcquire, RunAfterAcquire(th, m)
      PROVE  Moves(th) /\ RecursiveTask \notin ready'
  <2>1. PICK call : call = IF except[AfterAcquire(m)] THEN Fail(m) ELSE Work(m)
    OBVIOUS
  <2>2. call.op # "handle" /\ Dispatch(th, m, call) /\ ready' \subseteq ready
    BY <1>3, <2>1, OtherCalls DEF RunAfterAcquire, Take
  <2> QED
    BY <1>1, <2>2
<1>4. ASSUME NEW p \in Paths, FilterFinished(th, p)
      PROVE  Moves(th) /\ RecursiveTask \notin ready'
  <2>1. PICK c : c = RunFilter(p)
    OBVIOUS
  <2>2. /\ c.op # "handle" /\ AllPathsDone # RecursiveTask
        /\ UNCHANGED stack \/ Begin(th, <<c>>)
        /\ ready' \subseteq ready \cup {AllPathsDone}
    BY <1>4, <2>1, OtherCalls, TaskNames DEF FilterFinished, Take
  <2> QED
    BY <2>2, WaysToMove
<1>5. CASE ServeQueue(th)
  <2>1. PICK call \in pushed : Begin(th, <<call, Serve(RunQueue[call.mod])>>) /\ UNCHANGED ready
    BY <1>5 DEF ServeQueue, tasks
  <2>2. PICK c : c = Serve(RunQueue[call.mod])
    OBVIOUS
  <2>3. call.op # "handle" /\ c.op # "handle"
    BY <2>2, OtherCalls DEF Types, QueueCalls
  <2> QED
    BY <2>1, <2>2, <2>3, WaysToMove
<1>6. ~EventDone(th)
  BY DEF EventDone, Take
<1> QED
  BY <1>2, <1>3, <1>4, <1>5, <1>6 DEF Execute, TakeReady

\* Then the next event is still to come.
LEMMA StaysAlone ==
    ASSUME Types, Types', Having("handle") = {}, NEW th \in Threads, Moves(th),
           RecursiveTask \notin ready'
    PROVE  HandleAlone'
<1>1. NoHandle
  BY NoHandlePlaces
<1>2. NoHandle'
  BY <1>1, NoHandleMade
<1>3. Types' => (NoHandle <=> Having("handle") = {})'
  BY NoHandlePlaces, PTL
<1> QED
  BY <1>2, <1>3 DEF HandleAlone



\* A thread that has nothing else to do is not late.
LEMMA OneIsNotLate == ASSUME IndInv, HandleAlone PROVE NoLateLook
<1>1. \A th \in Threads : Inside(th, "handle") => Having("handle") # {}
  BY CallTypes DEF IndInv, Inside, Having
<1> QED
  BY <1>1 DEF HandleAlone, NoLateLook, Between, LateLook

\* When an event is over the thread is alone with it.
LEMMA BothAlone ==
    ASSUME IndInv, NEW th, Threads = {th}, HandleAlone, [Next]_vars
    PROVE  HandleAlone'
<1> USE DEF HandleAlone
<1>1. Types /\ th \in Threads
  BY DEF IndInv
<1>2. Inside(th, "handle") => Having("handle") # {}
  BY <1>1, CallTypes DEF Inside, Having
<1>3. NoLateLook
  BY OneIsNotLate
<1>4. IndInv' /\ Types'
  BY <1>3, NextInv DEF IndInv
<1>5. CASE UNCHANGED <<ready, stack>>
  <2>1. Frames' = Frames /\ \A x : Call(x)' = Call(x)
    BY <1>5 DEF Frames, Call
  <2>2. Having("handle")' = Having("handle")
    BY <2>1 DEF Having
  <2> QED
    BY <1>5, <2>1, <2>2
<1>6. CASE NextEvent(th) \/ NoMoreEvents(th)
  <2>1. PICK f, c : f = Inner(th) /\ c = RunPaths(m_paths)
    OBVIOUS
  <2>2. Inside(th, "handle") /\ ~Idle(th)
    BY <1>6 DEF NextEvent, NoMoreEvents, Inside
  <2>3. ready = {} /\ \A x \in Frames : x = f
    <3>1. ready = {} /\ \A x \in Frames : Call(x).op = "serve" \/ x = f
      BY <1>1, <1>3, <2>1, <2>2, OnlyHandle
    <3>2. \A x \in Frames : Call(x).op = "handle"
      BY <1>2, <2>2
    <3> QED
      BY <3>1, <3>2
  <2>4. CASE Become(th, <<>>)
    <3>1. Ends(f)
      BY <1>1, <2>1, <2>2, <2>4, CallEnds
    <3>2. \A x : x \notin Frames'
      BY <2>3, <3>1 DEF Ends
    <3> QED
      BY <3>2
  <2>5. CASE Become(th, <<c>>) /\ UNCHANGED ready
    <3>1. c \in Calls /\ c.op # "handle"
      BY <2>1, ScheduleAssumption, CallsMade, OtherCalls DEF RunPaths
    <3>2. Having("handle")' = {}
      <4>1. Turns(f, c)
        BY <1>1, <2>1, <2>2, <2>5, <3>1, CallTurns
      <4>2. Frames' = Frames /\ Call(f)'.op # "handle"
        BY <3>1, <4>1 DEF Turns
      <4>3. \A x \in Frames' : Call(x)'.op # "handle"
        BY <2>3, <4>2
      <4> QED
        BY <4>3 DEF Having
    <3> QED
      BY <2>3, <2>5, <3>2
  <2> QED
    BY <1>6, <2>1, <2>4, <2>5 DEF NextEvent, NoMoreEvents
<1>7. CASE /\ Proceed(th) \/ Execute(th)
           /\ ~NextEvent(th) /\ ~NoMoreEvents(th)
           /\ RecursiveTask \notin ready /\ Having("handle") = {}
  <2>1. CASE ~AllPathsDoneExecute(th)
    <3>1. Moves(th) /\ RecursiveTask \notin ready'
      BY <1>1, <1>7, <2>1, OthersProceed, OthersBegin
    <3> QED
      BY <1>1, <1>4, <1>7, <3>1, StaysAlone
  <2>2. CASE AllPathsDoneExecute(th)
    <3>1. Idle(th) /\ UNCHANGED stack
      BY <2>2 DEF AllPathsDoneExecute
    <3>2. \A x : x \notin Frames'
      <4>1. stack'[th] = <<>> /\ Len(<<>>) = 0
        BY <3>1 DEF Idle
      <4> QED
        BY <4>1 DEF Frames
    <3> QED
      BY <3>2
  <2> QED
    BY <2>1, <2>2
<1>8. CASE Having("handle") # {} /\ (Proceed(th) \/ Execute(th))
  <2>1. PICK x \in Having("handle") : TRUE
    BY <1>8
  <2>2. x \in Frames /\ x[1] = th /\ x[2] \in Nat \ {0} /\ x[2] <= Len(stack[th])
    BY DEF Having, Frames
  <2>3. ~Idle(th)
    BY <2>2 DEF Idle
  <2>4. Inside(th, "handle")
    BY <1>1, <1>8, <2>3, CallTypes DEF Inside
  <2>5. Proceed(th)
    BY <1>8, <2>3 DEF Execute, TakeReady, RunModule, RunAfterAcquire, FilterFinished, ServeQueue,
       AllPathsDoneExecute, EventDone, Take
  <2>6. \A op : Inside(th, op) => op = "handle"
    BY <2>4 DEF Inside
  <2>7. NextEvent(th) \/ NoMoreEvents(th)
    BY <1>1, <2>5, <2>6, InsideHandle
  <2> QED
    BY <1>6, <2>7
<1>9. CASE RecursiveTask \in ready /\ Execute(th)
  <2>1. ready = {RecursiveTask} /\ pushed = {}
    BY <1>9, NothingIsHeld DEF NothingHeld, Between
  <2>2. EventDone(th)
    <3>1. \A m \in Modules : ~RunModule(th, m)
      BY <2>1, TaskNames DEF RunModule, Take
    <3>2. \A m \in HasAcquire : ~RunAfterAcquire(th, m)
      BY <2>1, TaskNames DEF RunAfterAcquire, Take
    <3>3. \A p \in Paths : ~FilterFinished(th, p)
      BY <2>1, TaskNames DEF FilterFinished
    <3>4. ~ServeQueue(th) /\ ~AllPathsDoneExecute(th)
      BY <2>1, TaskNames DEF ServeQueue, AllPathsDoneExecute
    <3> QED
      BY <1>9, <3>1, <3>2, <3>3, <3>4 DEF Execute, TakeReady
  <2>3. Idle(th) /\ ready' = {} /\ (UNCHANGED stack \/ Begin(th, <<Handle>>))
    BY <2>1, <2>2 DEF EventDone, Take
  <2>4. stack'[th] = <<>> \/ stack'[th] = <<Handle>>
    BY <1>1, <2>3 DEF Idle, Begin, Types
  <2>5. ASSUME NEW x \in Frames' PROVE Call(x)'.op = "handle"
    <3>1. x[1] = th /\ x[2] \in Nat \ {0} /\ x[2] <= Len(stack'[th])
      BY DEF Frames
    <3>2. Len(<<>>) = 0 /\ Len(<<Handle>>) = 1 /\ <<Handle>>[1] = Handle
      OBVIOUS
    <3>3. stack'[th] # <<>>
      BY <3>1, <3>2
    <3>4. stack'[th] = <<Handle>> /\ x[2] = 1
      BY <2>4, <3>1, <3>2, <3>3
    <3> QED
      BY <3>1, <3>4 DEF Call, Handle
  <2> QED
    BY <2>5
<1>10. CASE RecursiveTask \in ready /\ Proceed(th)
  <2>1. ~Idle(th)
    BY <1>10 DEF Proceed, AddTask, InsertTask, RecheckWaiting, StartWork, PrefetchNext, PrefetchEnd,
       QueueServed, AcquireHandsOver, AcquireEnds, WorkDone, WorkThrows, WorkSkipped,
       TakeListed, TellOne, AskFilter, StartPath, PathsStarted, NextEvent, NoMoreEvents, Inside
  <2>2. Inner(th) \in Having("handle")
    BY <1>1, <1>10, <2>1, CallTypes DEF Having
  <2> QED
    BY <1>8, <1>10, <2>2
<1>11. CASE Finish
  <2>1. PICK m \in outside, exception \in BOOLEAN : OutsideDone(m, exception)
    BY <1>11 DEF Finish
  <2>2. ~Between
    BY <2>1, NothingIsHeld DEF NothingHeld
  <2>3. RecursiveTask \notin ready
    BY <2>2 DEF Between
  <2>4. RecursiveTask \notin ready' /\ UNCHANGED stack
    BY <2>1, <2>3, NotTheLast, TaskNames DEF OutsideDone
  <2>5. \A x : x \in Frames' <=> x \in Frames
    BY <2>4 DEF Frames
  <2>6. Having("handle")' = Having("handle") /\ \A x \in Frames : Call(x)' = Call(x)
    BY <2>4 DEF Having, Frames, Call
  <2> QED
    BY <2>3, <2>4, <2>5, <2>6
<1>12. CASE OtherStreamFails \/ UNCHANGED vars
  BY <1>5, <1>12 DEF OtherStreamFails, vars, tasks
<1>13. CASE \E x \in Threads : Proceed(x) \/ Execute(x)
  BY <1>6, <1>7, <1>8, <1>9, <1>10, <1>13
<1> QED
  BY <1>11, <1>12, <1>13 DEF Next

\* With one thread there is nobody who could be late: every module has its data
\* and nothing is left when an event is over, in every event and for any
\* modules, paths and queues.
THEOREM OneThread ==
    ASSUME NEW CONSTANT th, Threads = {th}
    PROVE  Spec => [](TypeOK /\ GetsItsData /\ QuietBetweenEvents)
<1> DEFINE Inv == IndInv /\ HandleAlone
<1>1. Init => Inv
  <2> SUFFICES ASSUME Init
               PROVE  HandleAlone
    BY InitInv
  <2>1. Untouched
    BY FirstInvInit DEF FirstInv, Init
  <2> QED
    BY <2>1 DEF Untouched, HandleAlone
<1>2. Inv /\ [Next]_vars => Inv'
  <2> SUFFICES ASSUME IndInv, HandleAlone, [Next]_vars
               PROVE  IndInv' /\ HandleAlone'
    OBVIOUS
  <2>1. NoLateLook
    BY OneIsNotLate
  <2> QED
    BY <2>1, NextInv, BothAlone
<1>3. Inv => TypeOK /\ GetsItsData /\ QuietBetweenEvents
  BY OneIsNotLate, TypesFollow, DataFollow, QuietFollows
<1> QED
  BY <1>1, <1>2, <1>3, PTL DEF Spec

=============================================================================
