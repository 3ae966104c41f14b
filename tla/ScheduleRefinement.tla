------------------------- MODULE ScheduleRefinement -------------------------
(***************************************************************************)
(* Schedule implements EventStream, for any modules, paths and number of   *)
(* threads.  The parts of StreamInv say what the wrappers' flags mean in   *)
(* an event, where tasks are and how far paths have come, and that no      *)
(* exception gets lost on its way from the module that failed to the task  *)
(* that ends the event.  Like IndInv of ScheduleProofs it needs NoLateLook *)
(* from one event to the next, which with one thread always holds.         *)
(***************************************************************************)
EXTENDS ScheduleProofs

-----------------------------------------------------------------------------
(* The invariant, in parts. *)

\* A module that waits no more has run or has an exception; a filter has kept
\* the event, or a producer put its data, only after running without one.
Marks ==
    /\ \A m \in Modules : m_waiting[m] => ~m_exceptionPtr[m]
    /\ \A m \in Modules : ~m_waiting[m] /\ ~m_exceptionPtr[m] => runs[m] > 0
    /\ \A m \in Modules : open /\ m_waiting[m] => runs[m] = 0
    /\ \A f \in Filters : m_keep[f] => ~m_waiting[f] /\ ~m_exceptionPtr[f] /\ f \notin Producers
    /\ \A n \in Producers : m_wasCached[n] => ~m_waiting[n] /\ ~m_exceptionPtr[n]

\* Between events there is nothing but handleNextEventAsync, and it comes after
\* an event without exceptions, all modules of which have run.
Closed ==
    /\ ready = {} /\ pushed = {} /\ outside = {}
    /\ \A t \in Tasks : refCount[t] = 0
    /\ \A x \in Frames : Call(x).op \in {"handle", "serve"}

Opened ==
    /\ open => outcome = "none" /\ Having("handle") = {}
    /\ ~open => Closed
    /\ Having("handle") # {} =>
          /\ outcome = "none"
          /\ \A m \in Modules : /\ ~m_exceptionPtr[m]
                                /\ m_workStarted[m] => ~m_waiting[m]

\* Tasks are where they have to be told: a RunModuleTask at the producers that
\* its module gets from, a NextFilterTask at the filter that its path is at.
FilterOf(p) == PathFilters[p][m_index[p]]

Wants(t, n) ==
    \/ \E a \in Modules : t = RunTask(a) /\ n \in Range(Gets[a])
    \/ \E p \in Paths : t = NextTask(p) /\ PathFilters[p] # <<>> /\ n = FilterOf(p)

Meets(c) ==
    /\ c.op \in {"add", "insert"} => Wants(c.task, c.mod)
    /\ c.op = "tell" => \A t \in c.batch : Wants(t, c.mod)
    /\ c.op = "prefetch" => Range(c.rest) \subseteq Range(Gets[c.mod])

MetAt ==
    /\ \A x \in Frames : Meets(Call(x))
    /\ \A n \in Modules : \A t \in listed[n] : Wants(t, n)

\* A path that has come to a filter has been kept by those before; one that is
\* to be started, is under way or is over, and the filter has been told of.
Before(p, i) == \A j \in 1 .. i - 1 : m_keep[PathFilters[p][j]]

PathIsOver(p) ==
    \/ fatal
    \/ Before(p, Len(PathFilters[p]) + 1)
    \/ \E i \in DOMAIN PathFilters[p] :
          /\ Before(p, i)
          /\ ~m_waiting[PathFilters[p][i]] /\ ~m_keep[PathFilters[p][i]]

ToStart(p) == \E x \in Having("paths") : p \in Range(Call(x).rest)

OnPaths ==
    /\ \A p \in Paths : PathPlaces(p) # {} => Before(p, m_index[p])
    /\ \A p \in Paths : NextTask(p) \in ready =>
          /\ ~m_waiting[FilterOf(p)]
          /\ m_exceptionPtr[FilterOf(p)] => except[NextTask(p)]
    /\ \A p \in Paths : open => PathPlaces(p) # {} \/ ToStart(p) \/ PathIsOver(p)

\* No task is told of an exception without a reason, and no module fails
\* without one.
FailedGet(m) == \E n \in Range(Gets[m]) : m_exceptionPtr[n]

MayFail(m) == /\ \A n \in Range(Gets[m]) : ~m_waiting[n]
              /\ m \in MayThrow \/ FailedGet(m)

Excepted ==
    /\ \A m \in Modules : except[RunTask(m)] => FailedGet(m)
    /\ \A m \in HasAcquire : except[AfterAcquire(m)] => m \in MayThrow
    /\ \A p \in Paths : except[NextTask(p)] =>
          ~ToStart(p) /\ PathFilters[p] # <<>> /\ m_exceptionPtr[FilterOf(p)]
    /\ except[AllPathsDone] => \E m \in Modules : m_exceptionPtr[m]
    /\ except[RecursiveTask] => fatal /\ \E m \in Modules : m_exceptionPtr[m]
    /\ \A x \in Frames : Call(x).op = "fail" => MayFail(Call(x).mod)
    /\ \A c \in pushed : c.op = "fail" => MayFail(c.mod)

\* An exception is on its way: to a module that has been started, to a path, to
\* the end of the paths or of the event.
AtPath(p) == /\ refCount[NextTask(p)] > 0 \/ NextTask(p) \in ready
             /\ m_exceptionPtr[FilterOf(p)]

OnItsWay ==
    \/ \E m \in Started : FailedGet(m)
    \/ \E p \in Paths : AtPath(p)
    \/ except[AllPathsDone] /\ RecursiveTask \notin ready
    \/ except[RecursiveTask]

Noticed == open /\ (\E m \in Modules : m_exceptionPtr[m]) => OnItsWay

StreamInv == /\ Marks /\ Opened /\ MetAt /\ OnPaths /\ Excepted /\ Noticed

-----------------------------------------------------------------------------
(* What lasts as long as an event. *)

\* A module that waits no more has been told of an exception or not, and a
\* filter has kept the event or not, once and for all.
Onward ==
    /\ \A m \in Modules : ~m_waiting[m] =>
          ~m_waiting'[m] /\ m_exceptionPtr'[m] = m_exceptionPtr[m]
    /\ \A f \in Filters : ~m_waiting[f] => m_keep'[f] = m_keep[f]
    /\ fatal => fatal'

\* The filters of a path, by their index, are filters.
LEMMA FiltersAre ==
    /\ \A p \in Paths : \A i \in DOMAIN PathFilters[p] : PathFilters[p][i] \in Filters
    /\ \A p \in Paths : DOMAIN PathFilters[p] = 1 .. Len(PathFilters[p]) /\ Len(PathFilters[p]) \in Nat
    /\ Filters \subseteq Modules /\ Producers \subseteq Modules /\ HasAcquire \subseteq Modules
<1>1. ASSUME NEW p \in Paths
      PROVE  /\ DOMAIN PathFilters[p] = 1 .. Len(PathFilters[p]) /\ Len(PathFilters[p]) \in Nat
             /\ \A i \in DOMAIN PathFilters[p] : PathFilters[p][i] \in Filters
  <2>1. PathFilters[p] \in Seq(Filters)
    BY ScheduleAssumption
  <2> QED
    BY <2>1
<1> QED
  BY <1>1, ScheduleAssumption DEF Modules

\* The filter that a path is at, if it has any.
LEMMA FilterIs ==
    ASSUME Types, NEW p \in Paths, PathFilters[p] # <<>>
    PROVE  m_index[p] \in DOMAIN PathFilters[p] /\ FilterOf(p) \in Filters /\ FilterOf(p) \in Modules
<1>1. PathFilters[p] \in Seq(Filters)
  BY ScheduleAssumption
<1>2. Len(PathFilters[p]) \in Nat \ {0}
  BY <1>1, EmptySeq, LenProperties
<1>3. m_index[p] \in 1 .. Len(PathFilters[p]) \cup {1}
  BY DEF Types
<1>4. m_index[p] \in DOMAIN PathFilters[p]
  BY <1>2, <1>3, FiltersAre
<1> QED
  BY <1>4, FiltersAre DEF FilterOf

\* How far a path has come is not taken back.
LEMMA PathsLast ==
    ASSUME Types, Marks, Onward, NEW p \in Paths
    PROVE  /\ \A i \in 1 .. Len(PathFilters[p]) + 1 : Before(p, i) => Before(p, i)'
           /\ PathIsOver(p) => PathIsOver(p)'
<1>1. ASSUME NEW i \in 1 .. Len(PathFilters[p]) + 1, Before(p, i) PROVE Before(p, i)'
  <2>1. ASSUME NEW j \in 1 .. i - 1 PROVE m_keep'[PathFilters[p][j]]
    <3>1. j \in DOMAIN PathFilters[p]
      BY FiltersAre
    <3>2. PathFilters[p][j] \in Filters
      BY <3>1, FiltersAre
    <3>3. m_keep[PathFilters[p][j]]
      BY <1>1 DEF Before
    <3> QED
      BY <3>2, <3>3 DEF Marks, Onward
  <2> QED
    BY <2>1 DEF Before
<1>2. ASSUME PathIsOver(p) PROVE PathIsOver(p)'
  <2>1. CASE fatal
    BY <2>1 DEF PathIsOver, Onward
  <2>2. CASE Before(p, Len(PathFilters[p]) + 1)
    <3>1. Len(PathFilters[p]) + 1 \in 1 .. Len(PathFilters[p]) + 1
      BY FiltersAre
    <3> QED
      BY <1>1, <2>2, <3>1 DEF PathIsOver
  <2>3. CASE \E i \in DOMAIN PathFilters[p] :
               /\ Before(p, i)
               /\ ~m_waiting[PathFilters[p][i]] /\ ~m_keep[PathFilters[p][i]]
    <3>1. PICK i \in DOMAIN PathFilters[p] :
             /\ Before(p, i)
             /\ ~m_waiting[PathFilters[p][i]] /\ ~m_keep[PathFilters[p][i]]
      BY <2>3
    <3>2. i \in 1 .. Len(PathFilters[p]) + 1 /\ PathFilters[p][i] \in Filters
          /\ PathFilters[p][i] \in Modules
      BY FiltersAre
    <3>3. Before(p, i)'
      BY <1>1, <3>1, <3>2
    <3>4. ~m_waiting'[PathFilters[p][i]] /\ ~m_keep'[PathFilters[p][i]]
      BY <3>1, <3>2 DEF Onward
    <3> QED
      BY <3>3, <3>4 DEF PathIsOver
  <2> QED
    BY <1>2, <2>1, <2>2, <2>3 DEF PathIsOver
<1> QED
  BY <1>1, <1>2

\* Nor is a failure.
LEMMA FailuresLast ==
    ASSUME Marks, Onward
    PROVE  /\ \A m \in Modules : m_exceptionPtr[m] => m_exceptionPtr'[m]
           /\ \A m \in Modules : FailedGet(m) => FailedGet(m)'
           /\ \A m \in Modules : MayFail(m) => MayFail(m)'
<1>1. \A m \in Modules : m_exceptionPtr[m] => m_exceptionPtr'[m]
  BY DEF Marks, Onward
<1>2. \A m \in Modules : \A n \in Range(Gets[m]) : n \in Modules
  BY GetsTypes, FiltersAre
<1>3. ASSUME NEW m \in Modules, FailedGet(m) PROVE FailedGet(m)'
  BY <1>1, <1>2, <1>3 DEF FailedGet
<1>4. ASSUME NEW m \in Modules, MayFail(m) PROVE MayFail(m)'
  BY <1>2, <1>3, <1>4 DEF MayFail, Onward
<1> QED
  BY <1>1, <1>3, <1>4

\* Whoever does something does it in an event.
LEMMA OpenWhile ==
    ASSUME Opened
    PROVE  /\ \A x \in Frames : Call(x).op \notin {"handle", "serve"} => open
           /\ \A t \in ready : open
           /\ \A c \in pushed : open
           /\ \A m \in outside : open
           /\ \A t \in Tasks : refCount[t] # 0 => open
  BY DEF Opened, Closed

-----------------------------------------------------------------------------
(* When each part of the invariant holds on. *)

LEMMA MarksKept ==
    ASSUME Marks, UNCHANGED <<m_waiting, m_exceptionPtr, m_keep, m_wasCached, runs, open>>
    PROVE  Marks'
  BY DEF Marks

\* Within an event that neither ends nor has its next one begun.
LEMMA OpenedKept ==
    ASSUME Opened, open, UNCHANGED <<open, outcome>>, Having("handle")' = {}
    PROVE  Opened'
  BY DEF Opened

\* Tasks stay where they have to be told as long as new calls and lists meet that.
LEMMA MetKept ==
    ASSUME MetAt, UNCHANGED m_index, NEW f, NEW s, CallsKept(f, s), \A c \in s : Meets(c),
           \A n \in Modules : \A t \in listed'[n] : t \in listed[n] \/ Wants(t, n)
    PROVE  MetAt'
<1>1. \A t, n : Wants(t, n) => Wants(t, n)'
  BY DEF Wants, FilterOf, RunTask, NextTask
<1>2. ASSUME NEW c, Meets(c) PROVE Meets(c)'
  BY <1>1, <1>2 DEF Meets
<1>3. ASSUME NEW x \in Frames' PROVE Meets(Call(x))'
  <2>1. PICK c : c = Call(x)'
    OBVIOUS
  <2>2. Meets(c)
    BY <2>1 DEF CallsKept, MetAt
  <2>3. Meets(c)'
    BY <1>2, <2>2
  <2> QED
    BY <2>1, <2>3 DEF Meets, Wants, FilterOf, RunTask, NextTask, Range
<1>4. \A n \in Modules : \A t \in listed'[n] : Wants(t, n)'
  BY <1>1 DEF MetAt
<1> QED
  BY <1>3, <1>4 DEF MetAt

\* One path, which stays where it is.
OnPath(p) ==
    /\ PathPlaces(p) # {} => Before(p, m_index[p])
    /\ NextTask(p) \in ready =>
          /\ ~m_waiting[FilterOf(p)]
          /\ m_exceptionPtr[FilterOf(p)] => except[NextTask(p)]
    /\ open => PathPlaces(p) # {} \/ ToStart(p) \/ PathIsOver(p)

\* OnPaths, path by path.
LEMMA OnEveryPath == (OnPaths <=> \A p \in Paths : OnPath(p)) /\ (OnPaths <=> \A p \in Paths : OnPath(p))'
  BY DEF OnPaths, OnPath

\* Where a path can be.
LEMMA SomePlace ==
    /\ \A p : PathPlaces(p) # {} <=>
          (refCount[NextTask(p)] > 0 \/ NextTask(p) \in ready \/ FiltersOf(p) # {})
    /\ \A p : PathPlaces(p)' # {} <=>
          (refCount'[NextTask(p)] > 0 \/ NextTask(p) \in ready' \/ FiltersOf(p)' # {})
<1>1. \A p : PathPlaces(p) # {} <=>
          (refCount[NextTask(p)] > 0 \/ NextTask(p) \in ready \/ FiltersOf(p) # {})
  <2> SUFFICES ASSUME NEW p
               PROVE  PathPlaces(p) # {} <=>
                         (refCount[NextTask(p)] > 0 \/ NextTask(p) \in ready \/ FiltersOf(p) # {})
    OBVIOUS
  <2>1. ASSUME NEW s \in PathPlaces(p)
        PROVE  refCount[NextTask(p)] > 0 \/ NextTask(p) \in ready \/ FiltersOf(p) # {}
    BY <2>1 DEF PathPlaces
  <2>2. refCount[NextTask(p)] > 0 \/ NextTask(p) \in ready => PathPlaces(p) # {}
    BY InPlaces
  <2>3. ASSUME NEW x \in FiltersOf(p) PROVE PathPlaces(p) # {}
    BY <2>3, InPlaces
  <2> QED
    BY <2>1, <2>2, <2>3
<1>2. (\A p : PathPlaces(p) # {} <=>
          (refCount[NextTask(p)] > 0 \/ NextTask(p) \in ready \/ FiltersOf(p) # {}))'
  BY <1>1, PTL
<1> QED
  BY <1>1, <1>2 DEF NextTask

\* A path that is somewhere is not one to be started.
LEMMA UnderWay ==
    ASSUME IndInv, NEW p \in Paths, PathPlaces(p) # {}
    PROVE  ~ToStart(p) /\ PathFilters[p] # <<>>
<1>1. Types /\ PathsInOrder
  BY DEF IndInv
<1>2. ASSUME NEW x \in Having("paths"), p \in Range(Call(x).rest) PROVE FALSE
  <2>1. Call(x).rest \in Seq(Paths)
    BY <1>1, CallTypes, CallParts DEF Having
  <2>2. PICK i \in DOMAIN Call(x).rest : Call(x).rest[i] = p
    BY <1>2 DEF Range
  <2>3. i \in 1 .. Len(Call(x).rest)
    BY <2>1, <2>2
  <2> QED
    BY <1>1, <2>2, <2>3 DEF PathsInOrder
<1> QED
  BY <1>1, <1>2 DEF ToStart, PathsInOrder

\* A task that is told of the filter, the last time, is told of its exception.
ToldOf(p) == /\ ~m_waiting[FilterOf(p)]
             /\ m_exceptionPtr[FilterOf(p)] => except'[NextTask(p)]

\* A path that does not move, in a step that takes nothing from under it.
LEMMA OnPathKept ==
    ASSUME IndInv, Marks, Onward, NEW p \in Paths, OnPath(p), m_index'[p] = m_index[p], UNCHANGED open,
           PathPlaces(p)' # {} <=> PathPlaces(p) # {}, ToStart(p) => ToStart(p)',
           except[NextTask(p)] => except'[NextTask(p)],
           NextTask(p) \in ready' => NextTask(p) \in ready \/ ToldOf(p)
    PROVE  OnPath(p)'
<1>1. Types
  BY DEF IndInv
<1>2. ASSUME PathPlaces(p)' # {} PROVE Before(p, m_index[p])'
  <2>1. PathFilters[p] # <<>>
    BY <1>2 DEF IndInv, PathsInOrder
  <2>2. m_index[p] \in 1 .. Len(PathFilters[p]) + 1
    BY <1>1, <2>1, FilterIs, FiltersAre
  <2>3. PICK i : i = m_index[p]
    OBVIOUS
  <2>4. Before(p, i)'
    BY <1>1, <1>2, <2>2, <2>3, PathsLast DEF OnPath
  <2> QED
    BY <2>3, <2>4 DEF Before
<1>3. ASSUME NextTask(p) \in ready'
      PROVE  ~m_waiting'[FilterOf(p)] /\ (m_exceptionPtr'[FilterOf(p)] => except'[NextTask(p)])
  <2>1. PathPlaces(p)' # {}
    BY <1>3 DEF PathPlaces
  <2>2. PathFilters[p] # <<>>
    BY <2>1 DEF IndInv, PathsInOrder
  <2>3. PICK g \in Modules : g = FilterOf(p)
    BY <1>1, <2>2, FilterIs
  <2>4. ~m_waiting[g] /\ (m_exceptionPtr[g] => except'[NextTask(p)])
    BY <1>3, <2>3 DEF OnPath, ToldOf
  <2> QED
    BY <2>3, <2>4 DEF Onward
<1>4. open => PathPlaces(p)' # {} \/ ToStart(p)' \/ PathIsOver(p)'
  BY <1>1, PathsLast DEF OnPath
<1>5. FilterOf(p)' = FilterOf(p)
  BY DEF FilterOf
<1>6. (PathPlaces(p) # {} => Before(p, m_index[p]))'
  BY <1>2 DEF Before
<1> QED
  BY <1>3, <1>4, <1>5, <1>6 DEF OnPath, NextTask

\* Who is told of an exception, is told of one that there is.
LEMMA ExceptedKept ==
    ASSUME Types, Marks, Excepted, Onward, NEW f, NEW s, CallsKept(f, s),
           \A m \in Modules : except'[RunTask(m)] => except[RunTask(m)] \/ FailedGet(m),
           \A m \in HasAcquire : except'[AfterAcquire(m)] => except[AfterAcquire(m)] \/ m \in MayThrow,
           \A p \in Paths : except'[NextTask(p)] =>
              /\ m_index'[p] = m_index[p] /\ ~ToStart(p)' /\ PathFilters[p] # <<>>
              /\ m_exceptionPtr[FilterOf(p)],
           except'[AllPathsDone] => except[AllPathsDone] \/ \E m \in Modules : m_exceptionPtr[m],
           except'[RecursiveTask] => \/ except[RecursiveTask]
                                     \/ fatal' /\ \E m \in Modules : m_exceptionPtr[m],
           \A c \in s \cup pushed' : c.op = "fail" => c \in pushed \/ (c.mod \in Modules /\ MayFail(c.mod))
    PROVE  Excepted'
<1> USE FailuresLast
<1>1. \A m \in Modules : except'[RunTask(m)] => FailedGet(m)'
  BY DEF Excepted
<1>2. \A m \in HasAcquire : except'[AfterAcquire(m)] => m \in MayThrow
  BY DEF Excepted
<1>3. ASSUME NEW p \in Paths, except'[NextTask(p)]
      PROVE  ~ToStart(p)' /\ PathFilters[p] # <<>> /\ m_exceptionPtr'[FilterOf(p)']
  <2>1. m_index'[p] = m_index[p] /\ ~ToStart(p)' /\ PathFilters[p] # <<>>
        /\ m_exceptionPtr[FilterOf(p)]
    BY <1>3
  <2>2. FilterOf(p)' = FilterOf(p) /\ FilterOf(p) \in Modules
    BY <2>1, FilterIs DEF FilterOf
  <2> QED
    BY <2>1, <2>2
<1>4. except'[AllPathsDone] => \E m \in Modules : m_exceptionPtr'[m]
  BY DEF Excepted
<1>5. except'[RecursiveTask] => fatal' /\ \E m \in Modules : m_exceptionPtr'[m]
  BY DEF Excepted, Onward
<1>6. \A c \in pushed : c.op = "fail" => c.mod \in Modules
  BY DEF Types, QueueCalls
<1>7. \A x \in Frames : Call(x).op = "fail" => Call(x).mod \in Modules
  BY CallTypes, CallParts
<1>8. ASSUME NEW c, c.op = "fail", c \in s \cup pushed' \/ \E x \in Frames : c = Call(x)
      PROVE  MayFail(c.mod)'
  <2>1. PICK m \in Modules : m = c.mod /\ MayFail(m)
    BY <1>6, <1>7, <1>8 DEF Excepted
  <2>2. MayFail(m)'
    BY <2>1
  <2> QED
    BY <2>1, <2>2 DEF MayFail, FailedGet
<1>9. ASSUME NEW x \in Frames', Call(x)'.op = "fail" PROVE MayFail(Call(x).mod)'
  <2>1. PICK c : c = Call(x)'
    OBVIOUS
  <2>2. c \in s \/ \E y \in Frames : c = Call(y)
    BY <2>1 DEF CallsKept
  <2>3. MayFail(c.mod)'
    BY <1>8, <1>9, <2>1, <2>2
  <2> QED
    BY <2>1, <2>3 DEF MayFail, FailedGet
<1>10. \A c \in pushed' : c.op = "fail" => MayFail(c.mod)'
  BY <1>8
<1> QED
  BY <1>1, <1>2, <1>3, <1>4, <1>5, <1>9, <1>10
     DEF Excepted, RunTask, AfterAcquire, NextTask, AllPathsDone, RecursiveTask

\* An exception that is on its way gets no further and is not lost.
LEMMA NoticedKept ==
    ASSUME Noticed, UNCHANGED <<m_waiting, m_exceptionPtr, open>>,
           \A m \in Modules : m_workStarted[m] => m_workStarted'[m],
           \A p \in Paths : AtPath(p) => AtPath(p)' \/ (except'[AllPathsDone] /\ RecursiveTask \notin ready'),
           except[AllPathsDone] /\ RecursiveTask \notin ready =>
              (except'[AllPathsDone] /\ RecursiveTask \notin ready') \/ except'[RecursiveTask],
           except[RecursiveTask] => except'[RecursiveTask]
    PROVE  Noticed'
<1> SUFFICES ASSUME open, \E m \in Modules : m_exceptionPtr[m]
             PROVE  OnItsWay'
  BY DEF Noticed
<1>1. OnItsWay
  BY DEF Noticed
<1>2. CASE \E m \in Started : FailedGet(m)
  BY <1>2 DEF OnItsWay, Started, FailedGet
<1>3. CASE \E p \in Paths : AtPath(p)
  BY <1>3 DEF OnItsWay, AllPathsDone, RecursiveTask
<1>4. CASE except[AllPathsDone] /\ RecursiveTask \notin ready
  BY <1>4 DEF OnItsWay, AllPathsDone, RecursiveTask
<1>5. CASE except[RecursiveTask]
  BY <1>5 DEF OnItsWay, AllPathsDone, RecursiveTask
<1> QED
  BY <1>1, <1>2, <1>3, <1>4, <1>5 DEF OnItsWay

-----------------------------------------------------------------------------
(* The steps of modules, up to when their work is done. *)

\* What such a step does to tasks: those of paths stay in their places, and
\* none is told of an exception of nobody.
TasksGoOn ==
    /\ \A p \in Paths :
          /\ refCount'[NextTask(p)] > 0 \/ NextTask(p) \in ready'
                <=> refCount[NextTask(p)] > 0 \/ NextTask(p) \in ready
          /\ except[NextTask(p)] => except'[NextTask(p)]
          /\ NextTask(p) \in ready' => NextTask(p) \in ready \/ ToldOf(p)
          /\ except'[NextTask(p)] =>
                except[NextTask(p)] \/ (PathPlaces(p) # {} /\ m_exceptionPtr[FilterOf(p)])
    /\ \A m \in Modules : except'[RunTask(m)] => except[RunTask(m)] \/ FailedGet(m)
    /\ \A m \in HasAcquire : except'[AfterAcquire(m)] => except[AfterAcquire(m)] \/ m \in MayThrow
    /\ \A t \in {AllPathsDone, RecursiveTask} : StaysReady(t) /\ except'[t] = except[t]

\* The calls that are not of a module.
OfStream == {"filter", "paths", "handle"}

\* A step of the calls of modules, by which no module gets done and no path moves.
LEMMA GoesOn ==
    ASSUME IndInv, StreamInv, Opened', NEW f, NEW s, CallsKept(f, s),
           f \in Frames => Call(f).op \notin OfStream, \A c \in s : c.op \notin OfStream,
           UNCHANGED <<m_waiting, m_exceptionPtr, m_keep, m_wasCached, m_index, stream, runs>>,
           fatal => fatal',
           \A m \in Modules : m_workStarted[m] => m_workStarted'[m],
           \A n \in Modules : \A t \in listed'[n] : t \in listed[n] \/ Wants(t, n),
           \A c \in s : Meets(c),
           \A c \in s \cup pushed' : c.op = "fail" => c \in pushed \/ (c.mod \in Modules /\ MayFail(c.mod)),
           TasksGoOn
    PROVE  StreamInv'
<1> USE DEF stream
<1>1. Types /\ Marks /\ Opened /\ MetAt /\ OnPaths /\ Excepted /\ Noticed
  BY DEF IndInv, StreamInv
<1>2. Onward
  BY DEF Onward
<1>3. Same("filter") /\ Same("paths") /\ Same("handle")
  BY HavingKept DEF Same, OfStream
<1>4. Marks'
  BY <1>1, MarksKept
<1>6. MetAt'
  BY <1>1, MetKept
<1>7. \A p \in Paths : PathPlaces(p)' # {} <=> PathPlaces(p) # {}
  <2> SUFFICES ASSUME NEW p \in Paths
               PROVE  PathPlaces(p)' # {} <=> PathPlaces(p) # {}
    OBVIOUS
  <2>1. FiltersOf(p)' = FiltersOf(p)
    BY <1>3 DEF Same, FiltersOf
  <2> QED
    BY <2>1, SomePlace DEF TasksGoOn
<1>8. \A p \in Paths : ToStart(p)' <=> ToStart(p)
  BY <1>3 DEF Same, ToStart, Range
<1>9. OnPaths'
  <2>1. ASSUME NEW p \in Paths PROVE OnPath(p)'
    BY <1>1, <1>2, <1>7, <1>8, OnEveryPath, OnPathKept DEF TasksGoOn
  <2> QED
    BY <2>1, OnEveryPath
<1>10. Excepted'
  <2>1. ASSUME NEW p \in Paths, except'[NextTask(p)]
        PROVE  m_index'[p] = m_index[p] /\ ~ToStart(p)' /\ PathFilters[p] # <<>>
               /\ m_exceptionPtr[FilterOf(p)]
    <3>1. CASE except[NextTask(p)]
      BY <1>1, <1>8, <3>1 DEF Excepted
    <3>2. CASE PathPlaces(p) # {} /\ m_exceptionPtr[FilterOf(p)]
      BY <1>8, <3>2, UnderWay
    <3> QED
      BY <2>1, <3>1, <3>2 DEF TasksGoOn
  <2>2. except'[AllPathsDone] => except[AllPathsDone]
    BY DEF TasksGoOn
  <2>3. except'[RecursiveTask] => except[RecursiveTask]
    BY DEF TasksGoOn
  <2> QED
    BY <1>1, <1>2, <2>1, <2>2, <2>3, ExceptedKept DEF TasksGoOn
<1>11. Noticed'
  <2>1. \A p \in Paths : AtPath(p) => AtPath(p)'
    BY DEF AtPath, TasksGoOn, FilterOf, NextTask
  <2>2. except[AllPathsDone] /\ RecursiveTask \notin ready =>
           except'[AllPathsDone] /\ RecursiveTask \notin ready'
    BY DEF TasksGoOn, StaysReady
  <2>3. except[RecursiveTask] => except'[RecursiveTask]
    BY DEF TasksGoOn
  <2> QED
    BY <1>1, <2>1, <2>2, <2>3, NoticedKept
<1> QED
  BY <1>4, <1>6, <1>9, <1>10, <1>11 DEF StreamInv

\* In an event.
LEMMA ModuleGoesOn ==
    ASSUME IndInv, StreamInv, open, NEW f, NEW s, CallsKept(f, s),
           f \in Frames => Call(f).op \notin OfStream, \A c \in s : c.op \notin OfStream,
           UNCHANGED <<m_waiting, m_exceptionPtr, m_keep, m_wasCached, m_index, fatal, stream, runs>>,
           \A m \in Modules : m_workStarted[m] => m_workStarted'[m],
           \A n \in Modules : \A t \in listed'[n] : t \in listed[n] \/ Wants(t, n),
           \A c \in s : Meets(c),
           \A c \in s \cup pushed' : c.op = "fail" => c \in pushed \/ (c.mod \in Modules /\ MayFail(c.mod)),
           TasksGoOn
    PROVE  StreamInv'
<1>1. Having("handle")' = {}
  BY HavingKept DEF StreamInv, Opened, OfStream
<1>2. Opened'
  BY <1>1, OpenedKept DEF StreamInv, stream
<1> QED
  BY <1>2, GoesOn

\* Nothing happens, but that another stream fails or a queue has been served.
LEMMA NothingGoesOn ==
    ASSUME IndInv, StreamInv, NEW f, CallsKept(f, {}), f \in Frames => Call(f).op = "serve",
           UNCHANGED <<wrappers, m_index, tasks, pushed, outside, stream, history>>, fatal => fatal'
    PROVE  StreamInv'
<1> USE DEF stream, wrappers, tasks, history
<1>1. Having("handle")' = Having("handle")
  BY HavingKept
<1>2. \A x \in Frames' : x \in Frames /\ Call(x)' = Call(x)
  BY DEF CallsKept
<1>3. Opened
  BY DEF StreamInv
<1>4. Opened'
  BY <1>1, <1>2, <1>3 DEF Opened, Closed
<1>5. TasksGoOn
  BY DEF TasksGoOn, StaysReady
<1> QED
  BY <1>4, <1>5, GoesOn DEF OfStream

\* With no change of the tasks nothing is to be shown.
LEMMA SameTasks == UNCHANGED tasks => TasksGoOn
  BY DEF tasks, TasksGoOn, StaysReady

\* A reference to a task goes at a module that waits no more.
LEMMA TaskIsTold ==
    ASSUME IndInv, StreamInv, NEW t \in Waiters, NEW n \in Modules, NEW e \in BOOLEAN,
           Wants(t, n), ~m_waiting[n], e = m_exceptionPtr[n], refCount[t] > 0, Release(t, e)
    PROVE  TasksGoOn
<1>1. Types
  BY DEF IndInv
<1>2. /\ refCount'[t] = refCount[t] - 1
      /\ \A u \in Tasks \ {t} : refCount'[u] = refCount[u] /\ except'[u] = except[u]
      /\ e => except'[t]
      /\ \A u \in Tasks : except[u] => except'[u]
      /\ \A u : u \in ready' <=> u \in ready \/ (u = t /\ refCount[t] = 1)
  BY <1>1, TaskTypes, Released
<1>3. except'[t] => except[t] \/ e
  BY <1>1, TaskTypes DEF Release, Types
<1>4. refCount[t] \in Int
  BY <1>1, TaskTypes DEF Types
<1>5. ASSUME NEW p \in Paths
      PROVE  /\ refCount'[NextTask(p)] > 0 \/ NextTask(p) \in ready'
                   <=> refCount[NextTask(p)] > 0 \/ NextTask(p) \in ready
             /\ except[NextTask(p)] => except'[NextTask(p)]
             /\ NextTask(p) \in ready' => NextTask(p) \in ready \/ ToldOf(p)
             /\ except'[NextTask(p)] =>
                   except[NextTask(p)] \/ (PathPlaces(p) # {} /\ m_exceptionPtr[FilterOf(p)])
  <2>1. NextTask(p) \in Tasks
    BY TaskTypes
  <2>2. CASE NextTask(p) # t
    BY <1>2, <2>1, <2>2
  <2>3. CASE NextTask(p) = t
    <3>1. n = FilterOf(p)
      BY <2>3, TaskNames DEF Wants
    <3>2. PathPlaces(p) # {}
      BY <2>3 DEF PathPlaces
    <3>3. ToldOf(p)
      BY <1>2, <2>3, <3>1 DEF ToldOf
    <3>4. refCount'[t] > 0 \/ t \in ready'
      BY <1>2, <1>4
    <3> QED
      BY <1>2, <1>3, <2>1, <2>3, <3>1, <3>2, <3>3, <3>4
  <2> QED
    BY <2>2, <2>3
<1>6. ASSUME NEW m \in Modules, except'[RunTask(m)]
      PROVE  except[RunTask(m)] \/ FailedGet(m)
  <2>1. RunTask(m) \in Tasks
    BY TaskTypes
  <2>2. CASE RunTask(m) # t
    BY <1>2, <1>6, <2>1, <2>2
  <2>3. CASE RunTask(m) = t
    <3>1. n \in Range(Gets[m])
      BY <2>3, TaskNames DEF Wants
    <3> QED
      BY <1>3, <1>6, <2>3, <3>1 DEF FailedGet
  <2> QED
    BY <2>2, <2>3
<1>7. \A m \in HasAcquire : except'[AfterAcquire(m)] = except[AfterAcquire(m)]
  BY <1>2, TaskTypes
<1>8. \A u \in {AllPathsDone, RecursiveTask} : StaysReady(u) /\ except'[u] = except[u]
  BY <1>2, TaskTypes DEF StaysReady
<1> QED
  BY <1>5, <1>6, <1>7, <1>8 DEF TasksGoOn

\* No task of a path is concerned, and nothing is told of an exception.
LEMMA OtherTasks ==
    ASSUME NEW t \in Tasks, \A p \in Paths : t # NextTask(p), t \notin {AllPathsDone, RecursiveTask},
           \A u \in Tasks \ {t} : StaysReady(u) /\ refCount'[u] = refCount[u] /\ except'[u] = except[u],
           except'[t] => except[t] \/ \E m \in HasAcquire : t = AfterAcquire(m) /\ m \in MayThrow
    PROVE  TasksGoOn
<1>1. \A p \in Paths : NextTask(p) \in Tasks \ {t}
  BY TaskTypes
<1>2. \A u \in {AllPathsDone, RecursiveTask} : u \in Tasks \ {t}
  BY TaskTypes
<1>3. ASSUME NEW m \in Modules, except'[RunTask(m)] PROVE except[RunTask(m)] \/ FailedGet(m)
  BY <1>3, TaskTypes, TaskNames
<1>4. ASSUME NEW m \in HasAcquire, except'[AfterAcquire(m)]
      PROVE  except[AfterAcquire(m)] \/ m \in MayThrow
  BY <1>4, TaskTypes, TaskNames
<1> QED
  BY <1>1, <1>2, <1>3, <1>4 DEF TasksGoOn, StaysReady

\* What a call that is not of the stream, nor of a run queue, has in common.
LEMMA InnerCall ==
    ASSUME IndInv, StreamInv, NEW th \in Threads, ~Idle(th), Top(th).op \notin {"handle", "serve"}
    PROVE  /\ open /\ Types /\ Top(th) \in Calls /\ Meets(Top(th))
           /\ Inner(th) \in Frames /\ Call(Inner(th)) = Top(th)
<1>1. Types /\ Opened /\ MetAt
  BY DEF IndInv, StreamInv
<1>2. Inner(th) \in Frames /\ Call(Inner(th)) = Top(th) /\ Top(th) \in Calls
  BY <1>1, CallTypes
<1> QED
  BY <1>1, <1>2, OpenWhile DEF MetAt

\* What calls are about.
LEMMA CallsAre ==
    /\ \A m : /\ Recheck(m).op = "recheck" /\ Start(m).op = "start" /\ Announce(m).op = "announce"
              /\ Fail(m) = [op |-> "fail", mod |-> m]
              /\ Acquire(m).op = "acquire" /\ Work(m).op = "work"
    /\ \A m, t : Add(m, t) = [op |-> "add", mod |-> m, task |-> t]
    /\ \A m, t : Insert(m, t) = [op |-> "insert", mod |-> m, task |-> t]
    /\ \A m, r : Prefetch(m, r) = [op |-> "prefetch", mod |-> m, rest |-> r]
    /\ \A m, b : Tell(m, b) = [op |-> "tell", mod |-> m, batch |-> b]
    /\ \A p : RunFilter(p) = [op |-> "filter", path |-> p]
    /\ \A r : RunPaths(r) = [op |-> "paths", rest |-> r]
    /\ \A q : Serve(q).op = "serve"
  BY DEF Recheck, Start, Announce, Fail, Acquire, Work, Add, Insert, Prefetch, Tell, RunFilter,
         RunPaths, Serve

\* Those whose insertion and telling is right.
LEMMA MetCalls ==
    /\ \A m : /\ Meets(Recheck(m)) /\ Meets(Start(m)) /\ Meets(Announce(m)) /\ Meets(Fail(m))
              /\ Meets(Acquire(m)) /\ Meets(Work(m))
    /\ \A m, t : Wants(t, m) => Meets(Add(m, t)) /\ Meets(Insert(m, t))
    /\ \A m, r : Range(r) \subseteq Range(Gets[m]) => Meets(Prefetch(m, r))
    /\ \A m, b : (\A t \in b : Wants(t, m)) => Meets(Tell(m, b))
    /\ \A p : Meets(RunFilter(p))
    /\ \A r : Meets(RunPaths(r))
    /\ \A q : Meets(Serve(q))
  BY CallsAre DEF Meets

\* add()
LEMMA AddGoesOn ==
    ASSUME IndInv, StreamInv, NEW th \in Threads, AddTask(th)
    PROVE  StreamInv'
<1> USE DEF wrappers, stream, history
<1>1. ~Idle(th) /\ Top(th).op = "add"
  BY DEF AddTask, Inside
<1>2. PICK f : f = Inner(th)
  OBVIOUS
<1>3. PICK m, t : m = Top(th).mod /\ t = Top(th).task
  OBVIOUS
<1>4. open /\ Types /\ f \in Frames /\ Call(f).op = "add" /\ Call(f) = Top(th)
  BY <1>1, <1>2, InnerCall
<1>5. m \in Modules /\ t \in Waiters /\ Wants(t, m)
  BY <1>1, <1>3, InnerCall, CallParts DEF Meets
<1>6. UNCHANGED <<wrappers, m_index, pushed, outside, fatal, stream, history>>
  BY DEF AddTask
<1>7. CASE m_waiting[m]
  <2>1. Become(th, <<Insert(m, t), Start(m)>>) /\ UNCHANGED tasks
    BY <1>3, <1>7 DEF AddTask
  <2>2. CallsKept(f, {Start(m), Insert(m, t)})
    BY <1>1, <1>2, <1>4, <1>5, <2>1, CallsMade, CallMakes, KeptCalls
  <2>3. TasksGoOn
    BY <2>1, SameTasks
  <2>4. PICK s : s = {Start(m), Insert(m, t)}
    OBVIOUS
  <2>5. \A c \in s : c.op \notin OfStream /\ Meets(c) /\ c.op # "fail"
    BY <1>5, <2>4, CallsAre, MetCalls DEF OfStream
  <2> QED
    BY <1>4, <1>6, <2>2, <2>3, <2>4, <2>5, ModuleGoesOn DEF OfStream
<1>8. CASE ~m_waiting[m]
  <2>1. Become(th, <<Start(m)>>) /\ Release(t, m_exceptionPtr[m])
    BY <1>3, <1>8 DEF AddTask
  <2>2. CallsKept(f, {Start(m)})
    BY <1>1, <1>2, <1>4, <1>5, <2>1, CallsMade, CallTurns, KeptCalls
  <2>3. f \in Holders(t)
    BY <1>3, <1>4 DEF Holders, Holds
  <2>4. refCount[t] > 0
    BY <1>4, <1>5, <2>3, HeldIsCounted DEF IndInv
  <2>5. m_exceptionPtr[m] \in BOOLEAN
    BY <1>4, <1>5 DEF Types
  <2>6. TasksGoOn
    BY <1>5, <1>8, <2>1, <2>4, <2>5, TaskIsTold
  <2>7. PICK s : s = {Start(m)}
    OBVIOUS
  <2>8. \A c \in s : c.op \notin OfStream /\ Meets(c) /\ c.op # "fail"
    BY <2>7, CallsAre, MetCalls DEF OfStream
  <2> QED
    BY <1>4, <1>6, <2>2, <2>6, <2>7, <2>8, ModuleGoesOn DEF OfStream
<1> QED
  BY <1>7, <1>8

\* The step of such a call, which makes none that fails.
LEMMA CallGoesOn ==
    ASSUME IndInv, StreamInv, NEW th \in Threads, ~Idle(th), Top(th).op \notin {"handle", "serve", "filter", "paths"},
           NEW s, CallsKept(Inner(th), s), \A c \in s : c.op \notin {"fail", "filter", "paths", "handle"} /\ Meets(c),
           UNCHANGED <<m_waiting, m_exceptionPtr, m_keep, m_wasCached, m_index, pushed, fatal, stream, runs>>,
           \A m \in Modules : m_workStarted[m] => m_workStarted'[m],
           \A n \in Modules : \A t \in listed'[n] : t \in listed[n] \/ Wants(t, n),
           TasksGoOn
    PROVE  StreamInv'
<1>1. PICK f : f = Inner(th)
  OBVIOUS
<1>2. open /\ Call(f).op \notin OfStream
  BY <1>1, InnerCall DEF OfStream
<1>3. \A c \in s : c.op \notin OfStream /\ Meets(c)
  BY DEF OfStream
<1>4. \A c \in s \cup pushed' : c.op = "fail" => c \in pushed
  OBVIOUS
<1> QED
  BY <1>1, <1>2, <1>3, <1>4, ModuleGoesOn

\* The insertion, and the second look.
LEMMA InsertGoesOn ==
    ASSUME IndInv, StreamInv, NEW th \in Threads, InsertTask(th)
    PROVE  StreamInv'
<1> USE DEF wrappers, stream, history
<1>1. ~Idle(th) /\ Top(th).op = "insert"
  BY DEF InsertTask, Inside
<1>2. PICK m, t : m = Top(th).mod /\ t = Top(th).task
  OBVIOUS
<1>3. Types /\ m \in Modules /\ Wants(t, m)
  BY <1>1, <1>2, InnerCall, CallParts DEF Meets
<1>4. /\ listed' = [listed EXCEPT ![m] = @ \cup {t}]
      /\ Become(th, IF listed[m] = {} THEN <<Recheck(m)>> ELSE <<>>)
      /\ UNCHANGED <<m_workStarted, m_waiting, m_exceptionPtr, m_wasCached, m_keep,
                     m_index, tasks, pushed, outside, fatal, stream, history>>
  BY <1>2 DEF InsertTask
<1>5. PICK s : s \in {{}, {Recheck(m)}} /\ CallsKept(Inner(th), s)
  <2>1. PICK f : f = Inner(th)
    OBVIOUS
  <2>2. CASE listed[m] = {}
    BY <1>1, <1>3, <1>4, <2>1, <2>2, CallsMade, CallTurns, KeptCalls
  <2>3. CASE listed[m] # {}
    BY <1>1, <1>3, <1>4, <2>1, <2>3, CallEnds, KeptCalls
  <2> QED
    BY <2>2, <2>3
<1>6. \A c \in s : c.op \notin {"fail", "filter", "paths", "handle"} /\ Meets(c)
  BY <1>5, CallsAre, MetCalls
<1>7. \A n \in Modules : \A u \in listed'[n] : u \in listed[n] \/ Wants(u, n)
  BY <1>3, <1>4 DEF Types
<1>8. TasksGoOn
  BY <1>4, SameTasks
<1> QED
  BY <1>1, <1>4, <1>5, <1>6, <1>7, <1>8, CallGoesOn

\* RecheckWaiting: the second look at m_waiting in add.
LEMMA RecheckGoesOn ==
    ASSUME IndInv, StreamInv, NEW th \in Threads, RecheckWaiting(th)
    PROVE  StreamInv'
<1> USE DEF wrappers, stream, history
<1>1. ~Idle(th) /\ Top(th).op = "recheck"
  BY DEF RecheckWaiting, Inside
<1>2. PICK m : m = Top(th).mod
  OBVIOUS
<1>3. Types /\ m \in Modules
  BY <1>1, <1>2, InnerCall, CallParts
<1>4. /\ Become(th, IF m_waiting[m] THEN <<>> ELSE <<Announce(m)>>)
      /\ UNCHANGED <<wrappers, m_index, tasks, pushed, outside, fatal, stream, history>>
  BY <1>2 DEF RecheckWaiting
<1>5. PICK s : s \in {{}, {Announce(m)}} /\ CallsKept(Inner(th), s)
  <2>1. PICK f : f = Inner(th)
    OBVIOUS
  <2>2. CASE ~m_waiting[m]
    BY <1>1, <1>3, <1>4, <2>1, <2>2, CallsMade, CallTurns, KeptCalls
  <2>3. CASE m_waiting[m]
    BY <1>1, <1>3, <1>4, <2>1, <2>3, CallEnds, KeptCalls
  <2> QED
    BY <2>2, <2>3
<1>6. \A c \in s : c.op \notin {"fail", "filter", "paths", "handle"} /\ Meets(c)
  BY <1>5, CallsAre, MetCalls
<1>7. TasksGoOn
  BY <1>4, SameTasks
<1> QED
  BY <1>1, <1>4, <1>5, <1>6, <1>7, CallGoesOn

\* A module is started, or has been.
LEMMA StartGoesOn ==
    ASSUME IndInv, StreamInv, NEW th \in Threads, StartWork(th)
    PROVE  StreamInv'
<1> USE DEF stream, history
<1>1. ~Idle(th) /\ Top(th).op = "start"
  BY DEF StartWork, Inside
<1>2. PICK m, f : m = Top(th).mod /\ f = Inner(th)
  OBVIOUS
<1>3. Types /\ m \in Modules
  BY <1>1, <1>2, InnerCall, CallParts
<1>4. UNCHANGED <<m_waiting, m_exceptionPtr, listed, m_wasCached, m_keep,
                  m_index, pushed, outside, fatal, stream, history>>
  BY DEF StartWork
<1>5. CASE m_workStarted[m]
  <2>1. Become(th, <<>>) /\ UNCHANGED <<m_workStarted, tasks>>
    BY <1>2, <1>5 DEF StartWork
  <2>2. CallsKept(f, {})
    BY <1>1, <1>2, <1>3, <2>1, CallEnds, KeptCalls
  <2>3. TasksGoOn
    BY <2>1, SameTasks
  <2> QED
    BY <1>1, <1>2, <1>4, <2>1, <2>2, <2>3, CallGoesOn
<1>6. CASE ~m_workStarted[m]
  <2>1. /\ m_workStarted' = [m_workStarted EXCEPT ![m] = TRUE]
        /\ Retain(RunTask(m)) /\ Become(th, <<Prefetch(m, Gets[m])>>)
    BY <1>2, <1>6 DEF StartWork
  <2>2. Gets[m] \in Seq(Producers)
    BY <1>3, ScheduleAssumption
  <2>3. CallsKept(f, {Prefetch(m, Gets[m])})
    BY <1>1, <1>2, <1>3, <2>1, <2>2, CallsMade, CallTurns, KeptCalls
  <2>4. TasksGoOn
    <3>1. RunTask(m) \in Tasks
      BY <1>3, TaskTypes
    <3>2. \A u \in Tasks \ {RunTask(m)} :
             StaysReady(u) /\ refCount'[u] = refCount[u] /\ except'[u] = except[u]
      BY <1>3, <2>1, <3>1, Retained DEF StaysReady, Retain
    <3>3. except'[RunTask(m)] => except[RunTask(m)]
      BY <2>1 DEF Retain
    <3> QED
      BY <3>1, <3>2, <3>3, TaskNames, OtherTasks
  <2>5. PICK s : s = {Prefetch(m, Gets[m])}
    OBVIOUS
  <2>6. \A c \in s : c.op \notin {"fail", "filter", "paths", "handle"} /\ Meets(c)
    BY <2>5, CallsAre, MetCalls
  <2>7. \A k \in Modules : m_workStarted[k] => m_workStarted'[k]
    BY <1>3, <2>1 DEF Types
  <2> QED
    BY <1>1, <1>2, <1>4, <2>3, <2>4, <2>5, <2>6, <2>7, CallGoesOn
<1> QED
  BY <1>5, <1>6

\* The reference to a RunModuleTask or a functor made for after acquire() that
\* comes or goes is not of a path.
LEMMA ModulesTask ==
    ASSUME NEW t \in Tasks, (\E m \in Modules : t = RunTask(m)) \/ (\E m \in HasAcquire : t = AfterAcquire(m)),
           \A u \in Tasks \ {t} : StaysReady(u) /\ refCount'[u] = refCount[u] /\ except'[u] = except[u],
           except'[t] => except[t] \/ \E m \in HasAcquire : t = AfterAcquire(m) /\ m \in MayThrow
    PROVE  TasksGoOn
  BY TaskNames, OtherTasks

\* The next producer is asked for.
LEMMA PrefetchNextGoesOn ==
    ASSUME IndInv, StreamInv, NEW th \in Threads, PrefetchNext(th)
    PROVE  StreamInv'
<1> USE DEF wrappers, stream, history
<1>1. ~Idle(th) /\ Top(th).op = "prefetch"
  BY DEF PrefetchNext, Inside
<1>2. PICK m, r, f : m = Top(th).mod /\ r = Top(th).rest /\ f = Inner(th)
  OBVIOUS
<1>3. Types /\ m \in Modules /\ r \in Seq(Producers) /\ Range(r) \subseteq Range(Gets[m])
  BY <1>1, <1>2, InnerCall, CallParts DEF Meets
<1>4. /\ r # <<>> /\ Retain(RunTask(m))
      /\ Become(th, <<Add(r[1], RunTask(m)), Prefetch(m, Tail(r))>>)
      /\ UNCHANGED <<wrappers, m_index, pushed, outside, fatal, stream, history>>
  BY <1>2 DEF PrefetchNext
<1>5. r[1] \in Modules /\ Tail(r) \in Seq(Producers) /\ RunTask(m) \in Waiters /\ RunTask(m) \in Tasks
  BY <1>3, <1>4, RestOf, FiltersAre, TaskTypes
<1>6. /\ r[1] \in Range(Gets[m])
      /\ Range(Tail(r)) \subseteq Range(Gets[m])
  <2>1. r[1] \in Range(r)
    BY <1>3, <1>4, RestOf DEF Range
  <2>2. \A i \in 1 .. Len(Tail(r)) : Tail(r)[i] \in Range(r)
    BY <1>3, <1>4, RestOf DEF Range
  <2>3. Range(Tail(r)) \subseteq Range(r)
    BY <1>5, <2>2 DEF Range
  <2> QED
    BY <1>3, <2>1, <2>3
<1>7. PICK s : s = {Prefetch(m, Tail(r)), Add(r[1], RunTask(m))}
  OBVIOUS
<1>8. CallsKept(f, s)
  BY <1>1, <1>2, <1>3, <1>4, <1>5, <1>7, CallsMade, CallMakes, KeptCalls
<1>9. \A c \in s : c.op \notin {"fail", "filter", "paths", "handle"} /\ Meets(c)
  <2>1. Wants(RunTask(m), r[1])
    BY <1>3, <1>6 DEF Wants
  <2> QED
    BY <1>6, <1>7, <2>1, CallsAre, MetCalls
<1>10. TasksGoOn
  <2>1. \A u \in Tasks \ {RunTask(m)} :
           StaysReady(u) /\ refCount'[u] = refCount[u] /\ except'[u] = except[u]
    BY <1>3, <1>4, <1>5, Retained DEF StaysReady, Retain
  <2>2. except'[RunTask(m)] => except[RunTask(m)]
    BY <1>4 DEF Retain
  <2> QED
    BY <1>3, <1>5, <2>1, <2>2, ModulesTask
<1> QED
  BY <1>1, <1>2, <1>4, <1>8, <1>9, <1>10, CallGoesOn

\* All have been asked for.
LEMMA PrefetchEndGoesOn ==
    ASSUME IndInv, StreamInv, NEW th \in Threads, PrefetchEnd(th)
    PROVE  StreamInv'
<1> USE DEF wrappers, stream, history
<1>1. ~Idle(th) /\ Top(th).op = "prefetch"
  BY DEF PrefetchEnd, Inside
<1>2. PICK m, f, t, e : m = Top(th).mod /\ f = Inner(th) /\ t = RunTask(m) /\ e = FALSE
  OBVIOUS
<1>3. Types /\ m \in Modules /\ t \in Tasks
  BY <1>1, <1>2, InnerCall, CallParts, TaskTypes
<1>4. /\ Release(t, e) /\ Become(th, <<>>)
      /\ UNCHANGED <<wrappers, m_index, pushed, outside, fatal, stream, history>>
  BY <1>2 DEF PrefetchEnd
<1>5. CallsKept(f, {})
  BY <1>1, <1>2, <1>3, <1>4, CallEnds, KeptCalls
<1>6. TasksGoOn
  <2>1. \A u \in Tasks \ {t} : StaysReady(u) /\ refCount'[u] = refCount[u] /\ except'[u] = except[u]
    BY <1>2, <1>3, <1>4, Released DEF StaysReady
  <2>2. except'[t] => except[t]
    BY <1>2, <1>3, <1>4 DEF Release, Types
  <2> QED
    BY <1>2, <1>3, <2>1, <2>2, ModulesTask
<1> QED
  BY <1>1, <1>2, <1>4, <1>5, <1>6, CallGoesOn

\* A run queue has served a call.
LEMMA ServedGoesOn ==
    ASSUME IndInv, StreamInv, NEW th \in Threads, QueueServed(th)
    PROVE  StreamInv'
<1>1. PICK f : f = Inner(th)
  OBVIOUS
<1>2. /\ ~Idle(th) /\ Top(th).op = "serve" /\ Become(th, <<>>)
      /\ UNCHANGED <<wrappers, m_index, tasks, pushed, outside, fatal, stream, history>>
  BY DEF QueueServed, Inside
<1>3. CallsKept(f, {}) /\ Call(f).op = "serve"
  BY <1>1, <1>2, CallEnds, CallTypes, KeptCalls DEF IndInv
<1> QED
  BY <1>2, <1>3, NothingGoesOn

\* announce() takes the list ...
LEMMA TakeGoesOn ==
    ASSUME IndInv, StreamInv, NEW th \in Threads, TakeListed(th)
    PROVE  StreamInv'
<1> USE DEF wrappers, stream, history
<1>1. ~Idle(th) /\ Top(th).op = "announce"
  BY DEF TakeListed, Inside
<1>2. PICK m, b : m = Top(th).mod /\ b = listed[m]
  OBVIOUS
<1>3. Types /\ m \in Modules
  BY <1>1, <1>2, InnerCall, CallParts
<1>4. /\ listed' = [listed EXCEPT ![m] = {}]
      /\ Become(th, IF b = {} THEN <<>> ELSE <<Tell(m, b)>>)
      /\ UNCHANGED <<m_workStarted, m_waiting, m_exceptionPtr, m_wasCached, m_keep,
                     m_index, tasks, pushed, outside, fatal, stream, history>>
  BY <1>2 DEF TakeListed
<1>5. b \subseteq Waiters /\ \A t \in b : Wants(t, m)
  BY <1>2, <1>3 DEF Types, StreamInv, MetAt
<1>6. PICK s : s \in {{}, {Tell(m, b)}} /\ CallsKept(Inner(th), s)
  <2>1. PICK f : f = Inner(th)
    OBVIOUS
  <2>2. CASE b # {}
    BY <1>1, <1>3, <1>4, <1>5, <2>1, <2>2, CallsMade, CallTurns, KeptCalls
  <2>3. CASE b = {}
    BY <1>1, <1>3, <1>4, <2>1, <2>3, CallEnds, KeptCalls
  <2> QED
    BY <2>2, <2>3
<1>7. \A c \in s : c.op \notin {"fail", "filter", "paths", "handle"} /\ Meets(c)
  BY <1>5, <1>6, CallsAre, MetCalls
<1>8. \A n \in Modules : \A u \in listed'[n] : u \in listed[n]
  BY <1>3, <1>4 DEF Types
<1>9. TasksGoOn
  BY <1>4, SameTasks
<1> QED
  BY <1>1, <1>4, <1>6, <1>7, <1>8, <1>9, CallGoesOn

\* ... and tells one after the other.
LEMMA TellGoesOn ==
    ASSUME IndInv, StreamInv, NEW th \in Threads, TellOne(th)
    PROVE  StreamInv'
<1> USE DEF wrappers, stream, history
<1>1. ~Idle(th) /\ Top(th).op = "tell"
  BY DEF TellOne, Inside
<1>2. PICK m, b, f : m = Top(th).mod /\ b = Top(th).batch /\ f = Inner(th)
  OBVIOUS
<1>3. PICK t \in b :
        /\ Release(t, m_exceptionPtr[m])
        /\ Become(th, IF b = {t} THEN <<>> ELSE <<Tell(m, b \ {t})>>)
  BY <1>2 DEF TellOne
<1>4. UNCHANGED <<wrappers, m_index, pushed, outside, fatal, stream, history>>
  BY DEF TellOne
<1>5. Types /\ f \in Frames /\ Call(f) = Top(th) /\ m \in Modules /\ b \in (SUBSET Waiters) \ {{}}
      /\ \A u \in b : Wants(u, m)
  BY <1>1, <1>2, InnerCall, CallParts DEF Meets
<1>6. ~m_waiting[m]
  BY <1>1, <1>2, <1>5 DEF IndInv, Looks
<1>7. PICK s : s \in {{}, {Tell(m, b \ {t})}} /\ CallsKept(f, s)
  <2>1. CASE b # {t}
    <3>1. b \ {t} \in (SUBSET Waiters) \ {{}}
      BY <1>3, <1>5, <2>1
    <3>2. Become(th, <<Tell(m, b \ {t})>>)
      BY <1>3, <2>1
    <3>3. PICK c : c = Tell(m, b \ {t})
      OBVIOUS
    <3> QED
      BY <1>1, <1>2, <1>5, <3>1, <3>2, <3>3, CallsMade, CallTurns, KeptCalls
  <2>2. CASE b = {t}
    BY <1>1, <1>2, <1>3, <1>5, <2>2, CallEnds, KeptCalls
  <2> QED
    BY <2>1, <2>2
<1>8. \A c \in s : c.op \notin {"fail", "filter", "paths", "handle"} /\ Meets(c)
  BY <1>5, <1>7, CallsAre, MetCalls
<1>9. TasksGoOn
  <2>1. t \in Waiters /\ f \in Holders(t)
    BY <1>1, <1>2, <1>5 DEF Holders, Holds
  <2>2. refCount[t] > 0
    BY <1>5, <2>1, HeldIsCounted DEF IndInv
  <2>3. m_exceptionPtr[m] \in BOOLEAN
    BY <1>5 DEF Types
  <2> QED
    BY <1>3, <1>5, <1>6, <2>1, <2>2, <2>3, TaskIsTold
<1> QED
  BY <1>1, <1>2, <1>4, <1>7, <1>8, <1>9, CallGoesOn

\* acquire() is over, and its holder is somebody else's or gone.
LEMMA AcquireGoesOn ==
    ASSUME IndInv, StreamInv, NEW th \in Threads, AcquireHandsOver(th) \/ \E e \in BOOLEAN : AcquireEnds(th, e)
    PROVE  StreamInv'
<1> USE DEF wrappers, stream, history
<1>1. ~Idle(th) /\ Top(th).op = "acquire" /\ Become(th, <<>>)
  BY DEF AcquireHandsOver, AcquireEnds, Inside
<1>2. PICK m, f, t : m = Top(th).mod /\ f = Inner(th) /\ t = AfterAcquire(m)
  OBVIOUS
<1>3. Types /\ m \in HasAcquire /\ t \in Tasks
  BY <1>1, <1>2, InnerCall, CallParts, TaskTypes
<1>4. CallsKept(f, {})
  BY <1>1, <1>2, <1>3, CallEnds, KeptCalls
<1>5. UNCHANGED <<wrappers, m_index, pushed, fatal, stream, runs>>
  BY DEF AcquireHandsOver, AcquireEnds
<1>6. /\ \A u \in Tasks \ {t} : StaysReady(u) /\ refCount'[u] = refCount[u] /\ except'[u] = except[u]
      /\ ~except'[t]
  <2>1. except' = [except EXCEPT ![t] = FALSE]
    BY <1>2 DEF AcquireHandsOver, AcquireEnds
  <2>2. refCount' = [refCount EXCEPT ![t] = 1] \/ refCount' = refCount
    BY <1>2 DEF AcquireHandsOver, AcquireEnds
  <2>3. ready' = ready \/ ready' = ready \cup {t}
    BY <1>2 DEF AcquireHandsOver, AcquireEnds
  <2> QED
    BY <1>3, <2>1, <2>2, <2>3 DEF Types, StaysReady
<1>7. TasksGoOn
  BY <1>2, <1>3, <1>6, ModulesTask
<1> QED
  BY <1>1, <1>2, <1>4, <1>5, <1>7, CallGoesOn

\* Somebody else lets go of it.
LEMMA OutsideGoesOn ==
    ASSUME IndInv, StreamInv, NEW m \in outside, NEW e \in BOOLEAN, OutsideDone(m, e)
    PROVE  StreamInv'
<1> USE DEF wrappers, stream, history
<1>1. Types /\ m \in HasAcquire /\ open
  BY OpenWhile DEF IndInv, Types, StreamInv
<1>2. PICK f, t : f = <<m, 0>> /\ t = AfterAcquire(m)
  OBVIOUS
<1>3. /\ e => m \in MayThrow
      /\ Release(t, e)
      /\ UNCHANGED <<wrappers, m_index, pushed, fatal, stream, runs, stack>>
  BY <1>2 DEF OutsideDone
<1>4. f \notin Frames
  BY <1>2 DEF Frames
<1>5. CallsKept(f, {})
  BY <1>3, <1>4, NoCallMoves
<1>6. t \in Tasks
  BY <1>1, <1>2, TaskTypes
<1>7. \A u \in Tasks \ {t} : StaysReady(u) /\ refCount'[u] = refCount[u] /\ except'[u] = except[u]
  BY <1>1, <1>3, <1>6, Released DEF StaysReady
<1>8. except'[t] => except[t] \/ m \in MayThrow
  BY <1>1, <1>3, <1>6 DEF Release, Types
<1>9. TasksGoOn
  BY <1>1, <1>2, <1>6, <1>7, <1>8, ModulesTask
<1> QED
  BY <1>1, <1>3, <1>4, <1>5, <1>9, ModuleGoesOn

\* A thread that takes the task of a module runs its call, or pushes it.
LEMMA DispatchGoesOn ==
    ASSUME IndInv, StreamInv, NEW th \in Threads, Idle(th), NEW m \in Modules,
           NEW t \in ready, t = RunTask(m) \/ (m \in HasAcquire /\ t = AfterAcquire(m)),
           ready' = ready \ {t},
           NEW c \in QueueCalls, c.mod = m, c.op = "fail" => MayFail(m), Meets(c),
           Dispatch(th, m, c),
           UNCHANGED <<wrappers, m_index, refCount, except, outside, fatal, stream, history>>
    PROVE  StreamInv'
<1> USE DEF wrappers, stream, history
<1>1. Types /\ open
  BY OpenWhile DEF IndInv, StreamInv
<1>2. PICK f : f = First(th)
  OBVIOUS
<1>3. f \notin Frames
  BY <1>2 DEF Idle, First, Frames
<1>4. c \in Calls /\ c.op \notin OfStream
  BY CallsMade DEF QueueCalls, OfStream
<1>5. PICK s : /\ CallsKept(f, s) /\ s \subseteq {c}
               /\ pushed' \subseteq pushed \cup {c}
  <2>1. CASE RunQueue[m] = NoQueue
    <3>1. Begin(th, <<c>>) /\ UNCHANGED pushed
      BY <2>1 DEF Dispatch
    <3>2. CallsKept(f, {c})
      BY <1>1, <1>2, <1>4, <3>1, CallBegins, KeptCalls
    <3> QED
      BY <3>1, <3>2
  <2>2. CASE RunQueue[m] # NoQueue
    <3>1. pushed' = pushed \cup {c} /\ UNCHANGED stack
      BY <2>2 DEF Dispatch
    <3>2. CallsKept(f, {})
      BY <1>3, <3>1, NoCallMoves
    <3> QED
      BY <3>1, <3>2
  <2> QED
    BY <2>1, <2>2
<1>6. \A d \in s \cup pushed' : d.op = "fail" => d \in pushed \/ (d.mod \in Modules /\ MayFail(d.mod))
  BY <1>5
<1>7. TasksGoOn
  <2>1. t \in Tasks
    BY <1>1 DEF Types
  <2>2. \A u \in Tasks \ {t} : StaysReady(u) /\ refCount'[u] = refCount[u] /\ except'[u] = except[u]
    BY DEF StaysReady
  <2> QED
    BY <2>1, <2>2, ModulesTask
<1> QED
  BY <1>1, <1>3, <1>4, <1>5, <1>6, <1>7, ModuleGoesOn

\* A module has been told of all that it gets.
LEMMA RunGoesOn ==
    ASSUME IndInv, StreamInv, NEW th \in Threads, NEW m \in Modules, RunModule(th, m)
    PROVE  StreamInv'
<1>1. /\ Idle(th) /\ RunTask(m) \in ready /\ ready' = ready \ {RunTask(m)}
      /\ UNCHANGED <<wrappers, m_index, refCount, except, outside, fatal, stream, history>>
  BY DEF RunModule, Take
<1>2. PICK c : c = IF except[RunTask(m)] THEN Fail(m)
                   ELSE IF m \in HasAcquire THEN Acquire(m) ELSE Work(m)
  OBVIOUS
<1>3. c \in QueueCalls /\ Meets(c)
  BY <1>2, CallsMade, MetCalls
<1>4. c.mod = m /\ (c.op = "fail" => except[RunTask(m)])
  BY <1>2 DEF Fail, Acquire, Work
<1>5. except[RunTask(m)] => MayFail(m)
  BY <1>1 DEF IndInv, Prefetched, Answered, StreamInv, Excepted, MayFail
<1>6. Dispatch(th, m, c)
  BY <1>2 DEF RunModule
<1> QED
  BY <1>1, <1>3, <1>4, <1>5, <1>6, DispatchGoesOn

\* RunAfterAcquire: the module is given to its queue, or fails as acquire() did.
LEMMA AfterAcquireGoesOn ==
    ASSUME IndInv, StreamInv, NEW th \in Threads, NEW m \in HasAcquire, RunAfterAcquire(th, m)
    PROVE  StreamInv'
<1>1. /\ Idle(th) /\ AfterAcquire(m) \in ready /\ ready' = ready \ {AfterAcquire(m)}
      /\ UNCHANGED <<wrappers, m_index, refCount, except, outside, fatal, stream, history>>
  BY DEF RunAfterAcquire, Take
<1>2. PICK c : c = IF except[AfterAcquire(m)] THEN Fail(m) ELSE Work(m)
  OBVIOUS
<1>3. m \in Modules
  BY FiltersAre
<1>4. c \in QueueCalls /\ Meets(c)
  BY <1>2, <1>3, CallsMade, MetCalls
<1>5. c.mod = m /\ (c.op = "fail" => except[AfterAcquire(m)])
  BY <1>2 DEF Fail, Work
<1>6. except[AfterAcquire(m)] => MayFail(m)
  <2>1. \A n \in Range(Gets[m]) : n \in Producers /\ m_wasCached[n]
    BY <1>1, <1>3, GetsTypes DEF IndInv, DataThere, HasData
  <2> QED
    BY <2>1 DEF StreamInv, Excepted, Marks, MayFail
<1>7. Dispatch(th, m, c)
  BY <1>2 DEF RunAfterAcquire
<1> QED
  BY <1>1, <1>3, <1>4, <1>5, <1>6, <1>7, DispatchGoesOn

\* A run queue begins a call.
LEMMA QueueGoesOn ==
    ASSUME IndInv, StreamInv, NEW th \in Threads, ServeQueue(th)
    PROVE  StreamInv'
<1> USE DEF wrappers, stream, history
<1>1. PICK c \in pushed : /\ pushed' = pushed \ {c}
                          /\ Begin(th, <<c, Serve(RunQueue[c.mod])>>)
  BY DEF ServeQueue
<1>2. Idle(th) /\ UNCHANGED <<wrappers, m_index, tasks, outside, fatal, stream, history>>
  BY DEF ServeQueue
<1>3. Types /\ open
  BY <1>1, OpenWhile DEF IndInv, StreamInv
<1>4. PICK d : d = Serve(RunQueue[c.mod])
  OBVIOUS
<1>5. c \in QueueCalls /\ c \in Calls /\ c.mod \in Modules
  BY <1>3, CallsMade, FiltersAre DEF Types, QueueCalls
<1>6. d \in Calls
  <2>1. DOMAIN RunQueue = Modules
    BY ScheduleAssumption
  <2>2. RunQueue[c.mod] \in Range(RunQueue)
    BY <1>5, <2>1 DEF Range
  <2> QED
    BY <1>4, <2>2, CallsMade
<1>7. PICK f : f = First(th)
  OBVIOUS
<1>8. f \notin Frames
  BY <1>2, <1>7 DEF Idle, First, Frames
<1>9. PICK s : s = {d, c}
  OBVIOUS
<1>10. CallsKept(f, s)
  BY <1>1, <1>2, <1>3, <1>4, <1>5, <1>6, <1>7, <1>9, CallsBegin, KeptCalls
<1>11. \A x \in s : x.op \notin OfStream /\ Meets(x)
  BY <1>4, <1>5, <1>9, CallsAre, MetCalls DEF OfStream, QueueCalls, Meets
<1>12. \A x \in s \cup pushed' : x.op = "fail" => x \in pushed
  BY <1>1, <1>4, <1>9, CallsAre
<1>13. TasksGoOn
  BY <1>2, SameTasks
<1> QED
  BY <1>2, <1>3, <1>8, <1>10, <1>11, <1>12, <1>13, ModuleGoesOn

-----------------------------------------------------------------------------
(* The end of a module's work. *)

\* A module that runs has been started and waits, and all it gets waits no more;
\* it works if none of that has failed, and else it may fail.
LEMMA ModuleAtEnd ==
    ASSUME IndInv, StreamInv, NEW th \in Threads, ~Idle(th), Top(th).op \in {"work", "fail"},
           NEW m, m = Top(th).mod
    PROVE  /\ open /\ Types /\ m \in Modules /\ m \in Started
           /\ ~m_exceptionPtr[m] /\ runs[m] = 0
           /\ \A n \in Range(Gets[m]) : n \in Modules /\ ~m_waiting[n]
           /\ Top(th).op = "work" => ~FailedGet(m)
           /\ Top(th).op = "fail" => MayFail(m)
<1>1. PICK f : f = Inner(th)
  OBVIOUS
<1>2. Types /\ open /\ f \in Frames /\ Call(f) = Top(th) /\ m \in Modules
  BY <1>1, InnerCall, CallParts
<1>3. m_workStarted[m] /\ m_waiting[m]
  <2>1. f \in Running(m)
    BY <1>2 DEF Running, Having
  <2>2. <<"runs", f>> \in Stages(m)
    BY <2>1, InPlaces
  <2> QED
    BY <1>2, <2>2 DEF IndInv, OneStage
<1>4. ~m_exceptionPtr[m] /\ runs[m] = 0
  BY <1>2, <1>3 DEF StreamInv, Marks
<1>5. \A n \in Range(Gets[m]) : n \in Modules /\ n \in Producers
  BY <1>2, GetsTypes, FiltersAre
<1>6. ASSUME Top(th).op = "work"
      PROVE  \A n \in Range(Gets[m]) : ~m_waiting[n] /\ ~m_exceptionPtr[n]
  <2>1. \A n \in Range(Gets[m]) : m_wasCached[n]
    BY <1>2, <1>6 DEF IndInv, DataThere, HasData
  <2> QED
    BY <1>5, <2>1 DEF StreamInv, Marks
<1>7. Top(th).op = "fail" => MayFail(m)
  BY <1>2 DEF StreamInv, Excepted
<1> QED
  BY <1>2, <1>3, <1>4, <1>5, <1>6, <1>7 DEF Started, MayFail, FailedGet

\* What its end does to the wrappers.
OverBy(m, e) ==
    /\ m_waiting' = [m_waiting EXCEPT ![m] = FALSE]
    /\ m_exceptionPtr' = [m_exceptionPtr EXCEPT ![m] = e]
    /\ \A n \in Producers : m_wasCached'[n] => m_wasCached[n] \/ (n = m /\ ~e)
    /\ \A f \in Filters : m_keep'[f] = m_keep[f] \/ (f = m /\ ~e /\ m \notin Producers)
    /\ \A k \in Modules \ {m} : runs'[k] = runs[k]
    /\ ~e => runs'[m] > 0

\* Who waits for a module is a module that has been started, or a path.
LEMMA WaiterIsThere ==
    ASSUME IndInv, StreamInv, NEW m \in Started
    PROVE  \/ \E a \in Started : a # m /\ m \in Range(Gets[a])
           \/ \E p \in Paths : refCount[NextTask(p)] > 0 /\ m = FilterOf(p)
<1>1. Types /\ Counted /\ OneStage /\ NoneInCircle /\ MetAt
  BY DEF IndInv, StreamInv
<1>2. m \in Modules /\ {m} \in SUBSET Started /\ {m} # {}
  BY DEF Started
<1>3. PICK t \in listed[m] : t # RunTask(m)
  <2>1. PICK s : s = {m}
    OBVIOUS
  <2>2. \E k \in s : \E t \in listed[k] : \A a \in s : t # RunTask(a)
    BY <1>1, <1>2, <2>1 DEF NoneInCircle
  <2> QED
    BY <2>1, <2>2
<1>4. t \in Waiters /\ Wants(t, m)
  BY <1>1, <1>2, <1>3 DEF Types, MetAt
<1>5. <<m, 0>> \in Holders(t)
  BY <1>2, <1>3 DEF Holders
<1>6. refCount[t] > 0
  BY <1>1, <1>4, <1>5, HeldIsCounted
<1>7. ASSUME NEW a \in Modules, t = RunTask(a), m \in Range(Gets[a])
      PROVE  a \in Started /\ a # m
  <2>1. Stages(a) # {}
    BY <1>6, <1>7, InPlaces
  <2> QED
    BY <1>1, <1>3, <1>7, <2>1 DEF OneStage, Started
<1> QED
  BY <1>4, <1>6, <1>7 DEF Wants

\* A module that has run or failed: from here on it waits no more.
LEMMA ModuleOver ==
    ASSUME IndInv, StreamInv, NEW th \in Threads, ~Idle(th), Top(th).op \in {"work", "fail"},
           NEW m, m = Top(th).mod, NEW e \in BOOLEAN, ~e => Top(th).op = "work", OverBy(m, e),
           Become(th, <<Announce(m)>>),
           UNCHANGED <<m_workStarted, listed, m_index, tasks, pushed, outside, fatal, stream>>
    PROVE  StreamInv' /\ Onward
<1> USE DEF stream, tasks
<1>1. /\ open /\ Types /\ m \in Modules /\ m \in Started /\ ~m_exceptionPtr[m] /\ runs[m] = 0
      /\ Top(th).op = "work" => ~FailedGet(m)
  BY ModuleAtEnd
<1>2. /\ Marks /\ Opened /\ MetAt /\ OnPaths /\ Excepted /\ Noticed
      /\ m_waiting[m] /\ m_workStarted[m]
  BY <1>1 DEF StreamInv, Started
<1>3. PICK f : f = Inner(th)
  OBVIOUS
<1>4. Call(f) = Top(th) /\ f \in Frames
  BY <1>3, InnerCall
<1>5. PICK s : s = {Announce(m)}
  OBVIOUS
<1>6. CallsKept(f, s)
  BY <1>1, <1>3, <1>5, CallsMade, CallTurns, KeptCalls
<1>7. \A c \in s : c.op \notin OfStream /\ Meets(c) /\ c.op # "fail"
  BY <1>5, CallsAre, MetCalls DEF OfStream
<1>8. /\ ~m_waiting'[m] /\ m_exceptionPtr'[m] = e
      /\ \A k \in Modules \ {m} : m_waiting'[k] = m_waiting[k] /\ m_exceptionPtr'[k] = m_exceptionPtr[k]
  BY <1>1 DEF OverBy, Types
<1>9. Onward
  BY <1>2, <1>8, FiltersAre DEF OverBy, Onward
<1>10. Marks'
  <2>1. \A k \in Modules : m_waiting'[k] => ~m_exceptionPtr'[k]
    BY <1>2, <1>8 DEF Marks
  <2>2. \A k \in Modules : ~m_waiting'[k] /\ ~m_exceptionPtr'[k] => runs'[k] > 0
    BY <1>2, <1>8 DEF Marks, OverBy
  <2>3. \A k \in Modules : open' /\ m_waiting'[k] => runs'[k] = 0
    BY <1>2, <1>8 DEF Marks, OverBy
  <2>4. ASSUME NEW k \in Filters, m_keep'[k]
        PROVE  ~m_waiting'[k] /\ ~m_exceptionPtr'[k] /\ k \notin Producers
    BY <1>2, <1>8, <2>4, FiltersAre DEF Marks, OverBy
  <2>5. ASSUME NEW n \in Producers, m_wasCached'[n]
        PROVE  ~m_waiting'[n] /\ ~m_exceptionPtr'[n]
    BY <1>2, <1>8, <2>5, FiltersAre DEF Marks, OverBy
  <2> QED
    BY <2>1, <2>2, <2>3, <2>4, <2>5 DEF Marks
<1>11. Same("filter") /\ Same("paths") /\ Same("handle")
  BY <1>4, <1>6, <1>7, HavingKept DEF Same, OfStream
<1>12. Opened'
  BY <1>1, <1>2, <1>11, OpenedKept DEF Same, Opened
<1>13. MetAt'
  BY <1>2, <1>6, <1>7, MetKept
<1>14. \A p \in Paths : ToStart(p)' <=> ToStart(p)
  BY <1>11 DEF Same, ToStart, Range
<1>15. OnPaths'
  <2>1. \A p \in Paths : FiltersOf(p)' = FiltersOf(p)
    BY <1>11 DEF Same, FiltersOf
  <2>2. \A p \in Paths : PathPlaces(p)' # {} <=> PathPlaces(p) # {}
    BY <2>1, SomePlace
  <2>3. ASSUME NEW p \in Paths PROVE OnPath(p)'
    BY <1>2, <1>9, <1>14, <2>2, OnEveryPath, OnPathKept
  <2> QED
    BY <2>3, OnEveryPath
<1>16. Excepted'
  BY <1>1, <1>2, <1>6, <1>7, <1>9, <1>14, ExceptedKept DEF Excepted
<1>17. Noticed'
  <2> SUFFICES ASSUME \E k \in Modules : m_exceptionPtr'[k]
               PROVE  OnItsWay'
    BY DEF Noticed
  <2>1. ASSUME NEW k \in Started, k # m, FailedGet(k)' PROVE OnItsWay'
    BY <1>8, <2>1 DEF OnItsWay, Started
  <2>2. ASSUME NEW p \in Paths, refCount[NextTask(p)] > 0 \/ NextTask(p) \in ready,
               m_exceptionPtr'[FilterOf(p)]
        PROVE  OnItsWay'
    BY <2>2 DEF OnItsWay, AtPath, FilterOf, NextTask
  <2>3. CASE e
    <3>1. m_exceptionPtr'[m]
      BY <1>8, <2>3
    <3>2. \A a \in Modules : m \in Range(Gets[a]) => FailedGet(a)'
      BY <3>1 DEF FailedGet
    <3> QED
      BY <1>1, <2>1, <2>2, <3>1, <3>2, WaiterIsThere DEF Started
  <2>4. CASE ~e
    <3>1. OnItsWay
      BY <1>1, <1>2, <1>8, <2>4 DEF Noticed
    <3>2. ASSUME NEW k \in Started, FailedGet(k) PROVE OnItsWay'
      <4>1. k # m /\ k \in Modules
        BY <1>1, <2>4, <3>2 DEF Started
      <4>2. FailedGet(k)'
        BY <1>2, <1>9, <3>2, <4>1, FailuresLast
      <4> QED
        BY <2>1, <3>2, <4>1, <4>2
    <3>3. ASSUME NEW p \in Paths, AtPath(p) PROVE OnItsWay'
      <4>1. PathPlaces(p) # {}
        BY <3>3, SomePlace DEF AtPath
      <4>2. FilterOf(p) \in Modules
        BY <1>1, <4>1, UnderWay, FilterIs
      <4>3. m_exceptionPtr'[FilterOf(p)]
        BY <1>2, <1>9, <3>3, <4>2, FailuresLast DEF AtPath
      <4> QED
        BY <2>2, <3>3, <4>3 DEF AtPath
    <3>4. CASE (except[AllPathsDone] /\ RecursiveTask \notin ready) \/ except[RecursiveTask]
      BY <3>4 DEF OnItsWay, AllPathsDone, RecursiveTask
    <3> QED
      BY <3>1, <3>2, <3>3, <3>4 DEF OnItsWay
  <2> QED
    BY <2>3, <2>4
<1> QED
  BY <1>9, <1>10, <1>12, <1>13, <1>15, <1>16, <1>17 DEF StreamInv

\* The work is done, has thrown, or is skipped.
LEMMA OverByAll ==
    ASSUME IndInv, StreamInv, NEW th \in Threads,
           WorkThrows(th) \/ WorkSkipped(th) \/ \E keep \in BOOLEAN : WorkDone(th, keep)
    PROVE  StreamInv' /\ Onward
<1>1. ~Idle(th) /\ Top(th).op \in {"work", "fail"}
  BY DEF WorkThrows, WorkSkipped, WorkDone, Inside
<1>2. PICK m : m = Top(th).mod
  OBVIOUS
<1>3. PICK e \in BOOLEAN : e <=> ~\E keep \in BOOLEAN : WorkDone(th, keep)
  OBVIOUS
<1>4. ~e => Top(th).op = "work"
  BY <1>3 DEF WorkDone, Inside
<1>5. DoneWaiting(th, m, e)
  <2>1. CASE e
    <3>1. WorkThrows(th) \/ WorkSkipped(th)
      BY <1>3, <2>1
    <3>2. DoneWaiting(th, m, TRUE)
      BY <1>2, <3>1 DEF WorkThrows, WorkSkipped
    <3>3. e = TRUE
      BY <2>1
    <3> QED
      BY <3>2, <3>3
  <2>2. CASE ~e
    <3>1. DoneWaiting(th, m, FALSE)
      BY <1>2, <1>3, <2>2 DEF WorkDone
    <3>2. e = FALSE
      BY <2>2
    <3> QED
      BY <3>1, <3>2
  <2> QED
    BY <2>1, <2>2
<1>6. Types /\ m \in Modules
  BY <1>1, <1>2, ModuleAtEnd
<1>7. OverBy(m, e)
  <2>1. CASE e
    <3>1. UNCHANGED <<m_wasCached, m_keep, runs>>
      BY <1>3, <2>1 DEF WorkThrows, WorkSkipped, history
    <3> QED
      BY <1>5, <2>1, <3>1 DEF OverBy, DoneWaiting
  <2>2. CASE ~e
    <3>1. PICK keep \in BOOLEAN : WorkDone(th, keep)
      BY <1>3, <2>2
    <3>2. /\ IF m \in Producers THEN PutData(m) ELSE KeepResult(m, keep)
          /\ runs' = [runs EXCEPT ![m] = @ + 1]
      BY <1>2, <3>1 DEF WorkDone
    <3>3. \A n \in Producers : m_wasCached'[n] => m_wasCached[n] \/ n = m
      BY <1>6, <3>2 DEF PutData, KeepResult, Types
    <3>4. \A f \in Filters : m_keep'[f] = m_keep[f] \/ (f = m /\ m \notin Producers)
      BY <1>6, <3>2 DEF PutData, KeepResult, Types
    <3>5. (\A k \in Modules \ {m} : runs'[k] = runs[k]) /\ runs'[m] > 0
      BY <1>6, <3>2 DEF Types
    <3> QED
      BY <1>5, <2>2, <3>3, <3>4, <3>5 DEF OverBy, DoneWaiting
  <2> QED
    BY <2>1, <2>2
<1> QED
  BY <1>1, <1>2, <1>4, <1>5, <1>7, ModuleOver DEF DoneWaiting

-----------------------------------------------------------------------------
(* The steps of paths. *)

\* What is told of a path's filter is not disturbed by a path that nobody has to
\* tell anything.
LEMMA MetMoved ==
    ASSUME MetAt, NEW P, \A k \in Paths \ P : m_index'[k] = m_index[k],
           \A k \in P : Holders(NextTask(k)) = {},
           NEW f, NEW s, CallsKept(f, s), \A c \in s : Meets(c)', UNCHANGED listed
    PROVE  MetAt'
<1>1. ASSUME NEW t, NEW n, Wants(t, n), \A k \in P : t # NextTask(k)
      PROVE  Wants(t, n)'
  BY <1>1 DEF Wants, FilterOf, RunTask, NextTask
<1>2. ASSUME NEW x \in Frames' PROVE Meets(Call(x))'
  <2>1. PICK c : c = Call(x)'
    OBVIOUS
  <2>2. CASE c \in s
    <3>1. Meets(c)'
      BY <2>2
    <3> QED
      BY <2>1, <3>1 DEF Meets, Wants, FilterOf, RunTask, NextTask, Range
  <2>3. CASE c \notin s
    <3>1. x \in Frames /\ c = Call(x)
      BY <2>1, <2>3 DEF CallsKept
    <3>2. Meets(c)
      BY <3>1 DEF MetAt
    <3>3. \A t, k : k \in P /\ t = NextTask(k) => ~Holds(c, t)
      BY <3>1 DEF Holders
    <3>4. c.op \in {"add", "insert"} => Wants(c.task, c.mod)'
      BY <1>1, <3>2, <3>3 DEF Meets, Holds
    <3>5. c.op = "tell" => \A t \in c.batch : Wants(t, c.mod)'
      BY <1>1, <3>2, <3>3 DEF Meets, Holds
    <3>6. Meets(c)'
      BY <3>2, <3>4, <3>5 DEF Meets
    <3> QED
      BY <2>1, <3>6 DEF Meets, Wants, FilterOf, RunTask, NextTask, Range
  <2> QED
    BY <2>2, <2>3
<1>3. ASSUME NEW n \in Modules, NEW t \in listed'[n] PROVE Wants(t, n)'
  <2>1. t \in listed[n] /\ Wants(t, n)
    BY <1>3 DEF MetAt
  <2>2. <<n, 0>> \in Holders(t)
    BY <1>3, <2>1 DEF Holders
  <2>3. \A k \in P : t # NextTask(k)
    BY <2>2
  <2> QED
    BY <1>1, <2>1, <2>3
<1> QED
  BY <1>2, <1>3 DEF MetAt

\* The paths of P move, or are over.
LEMMA PathsGoOn ==
    ASSUME IndInv, StreamInv, open, NEW P, P \subseteq Paths, NEW f, NEW s, CallsKept(f, s),
           f \in Frames => Call(f).op # "handle", \A c \in s : c.op \notin {"handle", "fail"},
           UNCHANGED <<wrappers, pushed, outside, fatal, stream, history>>,
           MetAt', \A p \in P : OnPath(p)',
           \A k \in Paths \ P :
              /\ m_index'[k] = m_index[k] /\ (ToStart(k)' <=> ToStart(k))
              /\ PathPlaces(k)' # {} <=> PathPlaces(k) # {}
              /\ refCount'[NextTask(k)] = refCount[NextTask(k)] /\ StaysReady(NextTask(k)),
           \A t \in Tasks \ {AllPathsDone} : except'[t] = except[t],
           except[AllPathsDone] => except'[AllPathsDone],
           except'[AllPathsDone] => except[AllPathsDone] \/ \E m \in Modules : m_exceptionPtr[m],
           StaysReady(RecursiveTask),
           \A p \in P : except[NextTask(p)] => m_index'[p] = m_index[p] /\ ~ToStart(p)',
           \A p \in P : AtPath(p) =>
              AtPath(p)' \/ (except'[AllPathsDone] /\ RecursiveTask \notin ready')
    PROVE  StreamInv'
<1> USE DEF wrappers, stream, history
<1>1. Types /\ Marks /\ Opened /\ MetAt /\ OnPaths /\ Excepted /\ Noticed
  BY DEF IndInv, StreamInv
<1>2. Onward
  BY DEF Onward
<1>3. Marks'
  BY <1>1, MarksKept
<1>4. Having("handle")' = {}
  BY <1>1, HavingKept DEF Opened
<1>5. Opened'
  BY <1>1, <1>4, OpenedKept
<1>6. /\ \A m \in Modules : except'[RunTask(m)] = except[RunTask(m)]
      /\ \A m \in HasAcquire : except'[AfterAcquire(m)] = except[AfterAcquire(m)]
      /\ \A p \in Paths : except'[NextTask(p)] = except[NextTask(p)]
      /\ except'[RecursiveTask] = except[RecursiveTask]
  BY TaskTypes, TaskNames
<1>7. OnPaths'
  <2>1. ASSUME NEW k \in Paths \ P PROVE OnPath(k)'
    BY <1>1, <1>2, <1>6, OnEveryPath, OnPathKept DEF StaysReady
  <2> QED
    BY <2>1, OnEveryPath
<1>8. Excepted'
  <2>1. \A p \in Paths : except'[NextTask(p)] =>
           /\ m_index'[p] = m_index[p] /\ ~ToStart(p)' /\ PathFilters[p] # <<>>
           /\ m_exceptionPtr[FilterOf(p)]
    BY <1>1, <1>6 DEF Excepted
  <2> QED
    BY <1>1, <1>2, <1>6, <2>1, ExceptedKept
<1>9. Noticed'
  <2>1. \A k \in Paths \ P : AtPath(k) => AtPath(k)'
    BY DEF AtPath, FilterOf, NextTask, StaysReady
  <2>2. except[AllPathsDone] /\ RecursiveTask \notin ready =>
           except'[AllPathsDone] /\ RecursiveTask \notin ready'
    BY DEF StaysReady
  <2> QED
    BY <1>1, <1>6, <2>1, <2>2, NoticedKept
<1> QED
  BY <1>3, <1>5, <1>7, <1>8, <1>9, <1>1, <1>2 DEF StreamInv

\* One path moves, or is over.
LEMMA OnePathGoesOn ==
    ASSUME IndInv, StreamInv, open, NEW p \in Paths, NEW f, NEW s, CallsKept(f, s),
           f \in Frames => Call(f).op # "handle", \A c \in s : c.op \notin {"handle", "fail"},
           UNCHANGED <<wrappers, pushed, outside, fatal, stream, history>>,
           MetAt', OnPath(p)',
           \A k \in Paths \ {p} :
              /\ m_index'[k] = m_index[k] /\ (ToStart(k)' <=> ToStart(k))
              /\ PathPlaces(k)' # {} <=> PathPlaces(k) # {}
              /\ refCount'[NextTask(k)] = refCount[NextTask(k)] /\ StaysReady(NextTask(k)),
           \A t \in Tasks \ {AllPathsDone} : except'[t] = except[t],
           except[AllPathsDone] => except'[AllPathsDone],
           except'[AllPathsDone] => except[AllPathsDone] \/ \E m \in Modules : m_exceptionPtr[m],
           StaysReady(RecursiveTask),
           except[NextTask(p)] => m_index'[p] = m_index[p] /\ ~ToStart(p)',
           AtPath(p) => AtPath(p)' \/ (except'[AllPathsDone] /\ RecursiveTask \notin ready')
    PROVE  StreamInv'
<1>1. PICK P : P = {p}
  OBVIOUS
<1>2. P \subseteq Paths /\ \A k : k \in P <=> k = p
  BY <1>1
<1>3. \A k \in P : OnPath(k)'
  BY <1>2 DEF OnPath
<1>4. \A k \in P : except[NextTask(k)] => m_index'[k] = m_index[k] /\ ~ToStart(k)'
  BY <1>2
<1>5. \A k \in P : AtPath(k) => AtPath(k)' \/ (except'[AllPathsDone] /\ RecursiveTask \notin ready')
  BY <1>2
<1> QED
  BY <1>1, <1>2, <1>3, <1>4, <1>5, PathsGoOn

\* A path that is somewhere has a reference to AllPathsDoneTask, so the event is
\* not over.
LEMMA PathHeld ==
    ASSUME IndInv, NEW p \in Paths, PathPlaces(p) # {}
    PROVE  refCount[AllPathsDone] > 0 /\ RecursiveTask \notin ready /\ AllPathsDone \notin ready
<1>1. <<p, 0>> \in PathHolders
  BY DEF PathHolders
<1>2. refCount[AllPathsDone] \in Int /\ AtLeast(refCount[AllPathsDone], PathHolders)
  BY OneStreamPlace DEF IndInv, OneEvent
<1>3. refCount[AllPathsDone] > 0
  BY <1>1, <1>2, NobodyHolds
<1> QED
  BY <1>3, OneStreamPlace

\* The tasks are told apart.
LEMMA OtherThan ==
    ASSUME NEW p \in Paths
    PROVE  /\ NextTask(p) \in Tasks /\ AllPathsDone \in Tasks /\ RecursiveTask \in Tasks
           /\ NextTask(p) # AllPathsDone /\ NextTask(p) # RecursiveTask
           /\ AllPathsDone # RecursiveTask
           /\ \A k \in Paths \ {p} : NextTask(k) # NextTask(p)
  BY TaskTypes, TaskNames

\* runFilterAsync: the job has failed ...
LEMMA StopGoesOn ==
    ASSUME IndInv, StreamInv, NEW th \in Threads, AskFilter(th), fatal
    PROVE  StreamInv'
<1> USE DEF wrappers, stream, history
<1>1. /\ ~Idle(th) /\ Top(th).op = "filter"
      /\ Release(AllPathsDone, FALSE) /\ Become(th, <<>>)
      /\ UNCHANGED <<wrappers, m_index, pushed, outside, fatal, stream, history>>
  BY DEF AskFilter, Inside
<1>2. PICK f, p, e : f = Inner(th) /\ p = Top(th).path /\ e = FALSE
  OBVIOUS
<1>3. open /\ Types /\ f \in Frames /\ Call(f) = Top(th) /\ p \in Paths /\ f \in FiltersOf(p)
  BY <1>1, <1>2, InnerCall, CallParts DEF FiltersOf, Having
<1>4. Ends(f) /\ CallsKept(f, {})
  BY <1>1, <1>2, <1>3, CallEnds, KeptCalls
<1>5. /\ \A u \in Tasks \ {AllPathsDone} : refCount'[u] = refCount[u] /\ except'[u] = except[u]
      /\ \A u \in Tasks : except[u] => except'[u]
      /\ \A u \in Tasks \ {AllPathsDone} : StaysReady(u)
  BY <1>1, <1>3, Released, TaskTypes DEF StaysReady
<1>6. except'[AllPathsDone] => except[AllPathsDone]
  BY <1>1, <1>3, TaskTypes DEF Release, Types
<1>7. refCount[NextTask(p)] = 0 /\ NextTask(p) \notin ready /\ \A x \in FiltersOf(p) : x = f
  BY <1>3, PathBegins
<1>8. PathPlaces(p)' = {}
  <2>1. ~(refCount'[NextTask(p)] > 0) /\ NextTask(p) \notin ready'
    BY <1>3, <1>5, <1>7, OtherThan DEF StaysReady
  <2>2. FiltersOf(p)' = {}
    BY <1>4, <1>7 DEF Ends, FiltersOf, Having
  <2> QED
    BY <2>1, <2>2, SomePlace
<1>9. \A k \in Paths \ {p} : PathPlaces(k)' = PathPlaces(k)
  <2>1. \A k \in Paths \ {p} : StaysReady(NextTask(k)) /\ StaysHeld(NextTask(k))
    BY <1>5, OtherThan DEF StaysHeld
  <2> QED
    BY <1>2, <1>3, <1>4, <2>1, OtherPaths
<1>10. \A k \in Paths : ToStart(k)' <=> ToStart(k)
  BY <1>1, <1>3, <1>4, HavingKept DEF ToStart, Range
<1>11. OnPath(p)'
  BY <1>1, <1>3, <1>5, <1>7, <1>8, OtherThan DEF OnPath, PathIsOver, StaysReady, NextTask
<1>12. MetAt'
  BY <1>1, <1>4, MetKept DEF StreamInv
<1>13. ~AtPath(p)
  BY <1>7 DEF AtPath
<1>14. except[NextTask(p)] => ~ToStart(p)'
  BY <1>3, <1>10 DEF StreamInv, Excepted
<1>15. \A k \in Paths \ {p} : /\ PathPlaces(k)' # {} <=> PathPlaces(k) # {}
                              /\ refCount'[NextTask(k)] = refCount[NextTask(k)]
                              /\ StaysReady(NextTask(k))
  BY <1>3, <1>5, <1>9, OtherThan
<1>16. Call(f).op # "handle" /\ StaysReady(RecursiveTask)
  BY <1>1, <1>3, <1>5, OtherThan
<1>17. PICK s : s = {} /\ CallsKept(f, s)
  BY <1>4
<1>18. \A k \in Paths \ {p} :
              /\ m_index'[k] = m_index[k] /\ (ToStart(k)' <=> ToStart(k))
              /\ PathPlaces(k)' # {} <=> PathPlaces(k) # {}
              /\ refCount'[NextTask(k)] = refCount[NextTask(k)] /\ StaysReady(NextTask(k))
  BY <1>1, <1>10, <1>15
<1>19. except[NextTask(p)] => m_index'[p] = m_index[p] /\ ~ToStart(p)'
  BY <1>1, <1>14
<1>20. /\ f \in Frames => Call(f).op # "handle"
       /\ \A c \in s : c.op \notin {"handle", "fail"}
  BY <1>16, <1>17
<1>21. UNCHANGED <<wrappers, pushed, outside, fatal, stream, history>>
  BY <1>1
<1>22. /\ \A t \in Tasks \ {AllPathsDone} : except'[t] = except[t]
       /\ except[AllPathsDone] => except'[AllPathsDone]
       /\ except'[AllPathsDone] => except[AllPathsDone] \/ \E m \in Modules : m_exceptionPtr[m]
  BY <1>3, <1>5, <1>6, OtherThan
<1> QED
  BY <1>3, <1>11, <1>12, <1>13, <1>16, <1>17, <1>18, <1>19, <1>20, <1>21, <1>22,
     OnePathGoesOn

\* ... or the filter is asked for.
LEMMA AskGoesOn ==
    ASSUME IndInv, StreamInv, NEW th \in Threads, AskFilter(th), ~fatal
    PROVE  StreamInv'
<1> USE DEF wrappers, stream, history
<1>1. PICK f, p, t, c : /\ f = Inner(th) /\ p = Top(th).path /\ t = NextTask(p)
                        /\ c = Add(FilterOf(p), t)
  OBVIOUS
<1>2. /\ ~Idle(th) /\ Top(th).op = "filter"
      /\ Retain(t) /\ Become(th, <<c>>)
      /\ UNCHANGED <<wrappers, m_index, pushed, outside, fatal, stream, history>>
  BY <1>1 DEF AskFilter, Inside, FilterOf
<1>3. open /\ Types /\ f \in Frames /\ Call(f) = Top(th) /\ p \in Paths /\ f \in FiltersOf(p)
  BY <1>1, <1>2, InnerCall, CallParts DEF FiltersOf, Having
<1>4. /\ refCount[t] = 0 /\ t \notin ready /\ (\A x \in FiltersOf(p) : x = f)
      /\ PathPlaces(p) # {} /\ PathFilters[p] # <<>>
  BY <1>1, <1>3, PathBegins
<1>5. FilterOf(p) \in Modules /\ t \in Waiters /\ t \in Tasks
  BY <1>1, <1>3, <1>4, FilterIs, TaskTypes
<1>6. c \in Calls
  BY <1>1, <1>5, CallsMade
<1>7. PICK s : s = {c} /\ CallsKept(f, s)
  BY <1>1, <1>2, <1>3, <1>6, CallTurns, KeptCalls
<1>8. \A d \in s : d.op = "add" /\ Meets(d)
  <2>1. Wants(t, FilterOf(p))
    BY <1>1, <1>3, <1>4 DEF Wants
  <2> QED
    BY <1>1, <1>7, <2>1, CallsAre, MetCalls
<1>9. MetAt'
  BY <1>2, <1>7, <1>8, MetKept DEF StreamInv
<1>10. /\ refCount'[t] = 1 /\ except' = except /\ ready' = ready
       /\ \A u \in Tasks \ {t} : refCount'[u] = refCount[u]
  BY <1>2, <1>3, <1>4, <1>5 DEF Retain, Types
<1>11. \A k \in Paths \ {p} : PathPlaces(k)' = PathPlaces(k)
  <2>1. \A k \in Paths \ {p} : StaysReady(NextTask(k)) /\ StaysHeld(NextTask(k))
    BY <1>1, <1>3, <1>10, OtherThan DEF StaysHeld, StaysReady
  <2>2. \A d \in s : d.op # "filter" \/ d.path = p
    BY <1>8
  <2> QED
    BY <1>1, <1>3, <1>7, <2>1, <2>2, OtherPaths
<1>12. PathPlaces(p)' # {}
  BY <1>1, <1>10, SomePlace
<1>13. \A k \in Paths : ToStart(k)' <=> ToStart(k)
  BY <1>2, <1>3, <1>7, <1>8, HavingKept DEF ToStart, Range
<1>14. OnPath(p)'
  <2>1. Marks /\ OnPath(p) /\ Onward
    BY <1>2, <1>3, OnEveryPath DEF StreamInv, Onward
  <2> QED
    BY <1>2, <1>3, <1>4, <1>10, <1>12, <1>13, <2>1, OnPathKept
<1>15. \A k \in Paths \ {p} :
              /\ m_index'[k] = m_index[k] /\ (ToStart(k)' <=> ToStart(k))
              /\ PathPlaces(k)' # {} <=> PathPlaces(k) # {}
              /\ refCount'[NextTask(k)] = refCount[NextTask(k)] /\ StaysReady(NextTask(k))
  BY <1>1, <1>2, <1>3, <1>10, <1>11, <1>13, OtherThan DEF StaysReady
<1>16. except[NextTask(p)] => m_index'[p] = m_index[p] /\ ~ToStart(p)'
  BY <1>2, <1>3, <1>13 DEF StreamInv, Excepted
<1>17. /\ f \in Frames => Call(f).op # "handle"
       /\ \A d \in s : d.op \notin {"handle", "fail"}
  BY <1>2, <1>3, <1>8
<1>18. UNCHANGED <<wrappers, pushed, outside, fatal, stream, history>>
  BY <1>2
<1>19. /\ \A u \in Tasks \ {AllPathsDone} : except'[u] = except[u]
       /\ except[AllPathsDone] => except'[AllPathsDone]
       /\ except'[AllPathsDone] => except[AllPathsDone]
       /\ StaysReady(RecursiveTask)
  BY <1>10 DEF StaysReady
<1>20. ~AtPath(p)
  BY <1>1, <1>4 DEF AtPath
<1> QED
  BY <1>3, <1>7, <1>9, <1>14, <1>15, <1>16, <1>17, <1>18, <1>19, <1>20, OnePathGoesOn

\* NextFilterTask: the filter has kept the event, the next is to be asked for ...
LEMMA AdvanceGoesOn ==
    ASSUME IndInv, StreamInv, NEW th \in Threads, NEW p \in Paths, Take(th, NextTask(p)),
           ~except[NextTask(p)], m_keep[FilterOf(p)],
           m_index[p] < Len(PathFilters[p]), m_index' = [m_index EXCEPT ![p] = @ + 1],
           Begin(th, <<RunFilter(p)>>),
           UNCHANGED <<wrappers, refCount, except, pushed, outside, fatal, stream, history>>
    PROVE  StreamInv'
<1> USE DEF wrappers, stream, history
<1>1. PICK f, t, c : f = First(th) /\ t = NextTask(p) /\ c = RunFilter(p)
  OBVIOUS
<1>2. Idle(th) /\ t \in ready /\ ready' = ready \ {t}
  BY <1>1 DEF Take
<1>3. Types /\ open
  BY <1>2, OpenWhile DEF IndInv, StreamInv
<1>4. refCount[t] = 0 /\ FiltersOf(p) = {} /\ PathPlaces(p) # {} /\ PathFilters[p] # <<>>
  BY <1>1, <1>2, PathIsReady, UnderWay
<1>5. c \in Calls /\ c.op = "filter" /\ c.path = p /\ Meets(c)'
  BY <1>1, <1>4, CallsMade, CallsAre DEF Meets
<1>6. f \notin Frames
  BY <1>1, <1>2 DEF Idle, First, Frames
<1>7. Begins(f, c)
  BY <1>1, <1>2, <1>3, <1>5, CallBegins
<1>8. PICK s : s = {c} /\ CallsKept(f, s)
  BY <1>7, KeptCalls
<1>9. t \in Waiters /\ t \in Tasks /\ Holders(t) = {}
  <2>1. t \in Waiters /\ t \in Tasks
    BY <1>1, TaskTypes
  <2> QED
    BY <1>3, <1>4, <2>1, HeldIsCounted DEF IndInv
<1>10. \A k \in Paths \ {p} : m_index'[k] = m_index[k]
  BY <1>3 DEF Types
<1>11. MetAt'
  <2>1. PICK P : P = {p}
    OBVIOUS
  <2>2. /\ \A k \in Paths \ P : m_index'[k] = m_index[k]
        /\ \A k \in P : Holders(NextTask(k)) = {}
    BY <1>1, <1>9, <1>10, <2>1
  <2>3. \A d \in s : Meets(d)'
    BY <1>5, <1>8
  <2> QED
    BY <1>8, <2>2, <2>3, MetMoved DEF StreamInv
<1>12. \A k \in Paths \ {p} : PathPlaces(k)' = PathPlaces(k)
  <2>1. \A k \in Paths \ {p} : StaysReady(NextTask(k)) /\ StaysHeld(NextTask(k))
    BY <1>1, <1>2, OtherThan DEF StaysHeld, StaysReady
  <2>2. \A d \in s : d.op # "filter" \/ d.path = p
    BY <1>5, <1>8
  <2> QED
    BY <1>6, <1>8, <2>1, <2>2, OtherPaths
<1>13. PathPlaces(p)' # {}
  <2>1. f \in FiltersOf(p)'
    BY <1>5, <1>7 DEF Begins, FiltersOf, Having
  <2> QED
    BY <2>1, SomePlace
<1>14. \A k \in Paths : ToStart(k)' <=> ToStart(k)
  BY <1>5, <1>6, <1>8, HavingKept DEF ToStart, Range
<1>15. OnPath(p)'
  <2>1. m_index[p] \in DOMAIN PathFilters[p] /\ FilterOf(p) \in Filters
    BY <1>3, <1>4, FilterIs
  <2>2. PICK i : i = m_index[p]
    OBVIOUS
  <2>3. i \in Nat /\ m_index'[p] = i + 1 /\ Before(p, i) /\ m_keep[PathFilters[p][i]]
    BY <1>3, <1>4, <2>1, <2>2, FiltersAre, OnEveryPath DEF Types, OnPath, FilterOf, StreamInv
  <2>4. \A j \in 1 .. (i + 1) - 1 : j \in 1 .. i - 1 \/ j = i
    BY <2>3
  <2>5. Before(p, i + 1)
    BY <2>3, <2>4 DEF Before
  <2>6. Before(p, m_index[p])'
    BY <2>3, <2>5 DEF Before
  <2>7. NextTask(p) \notin ready'
    BY <1>1, <1>2
  <2> QED
    BY <1>13, <2>6, <2>7 DEF OnPath, NextTask
<1>16. \A k \in Paths \ {p} :
              /\ m_index'[k] = m_index[k] /\ (ToStart(k)' <=> ToStart(k))
              /\ PathPlaces(k)' # {} <=> PathPlaces(k) # {}
              /\ refCount'[NextTask(k)] = refCount[NextTask(k)] /\ StaysReady(NextTask(k))
  BY <1>1, <1>2, <1>10, <1>12, <1>14, OtherThan DEF StaysReady
<1>17. /\ f \in Frames => Call(f).op # "handle"
       /\ \A d \in s : d.op \notin {"handle", "fail"}
  BY <1>5, <1>6, <1>8
<1>18. /\ \A u \in Tasks \ {AllPathsDone} : except'[u] = except[u]
       /\ except[AllPathsDone] => except'[AllPathsDone]
       /\ except'[AllPathsDone] => except[AllPathsDone]
       /\ StaysReady(RecursiveTask)
  BY <1>1, <1>2, OtherThan DEF StaysReady
<1>19. ~AtPath(p)
  BY <1>1, <1>2, OnEveryPath DEF AtPath, StreamInv, OnPath
<1> QED
  BY <1>3, <1>8, <1>11, <1>15, <1>16, <1>17, <1>18, <1>19, OnePathGoesOn

\* ... or the path is over: by an exception, by what the filter decided, or
\* because it was the last.
LEMMA EndGoesOn ==
    ASSUME IndInv, StreamInv, NEW p \in Paths, NextTask(p) \in ready,
           \/ except[NextTask(p)] \/ fatal \/ ~m_keep[FilterOf(p)]
           \/ ~(m_index[p] < Len(PathFilters[p])),
           except' = [except EXCEPT ![AllPathsDone] = @ \/ except[NextTask(p)]],
           refCount' = [refCount EXCEPT ![AllPathsDone] = @ - 1],
           ready' = (ready \ {NextTask(p)})
                       \cup (IF refCount[AllPathsDone] = 1 THEN {AllPathsDone} ELSE {}),
           UNCHANGED <<m_index, stack, wrappers, pushed, outside, fatal, stream, history>>
    PROVE  StreamInv'
<1> USE DEF wrappers, stream, history
<1>1. PICK f, t : f = <<p, 0>> /\ t = NextTask(p)
  OBVIOUS
<1>2. Types /\ open /\ Marks /\ OnPath(p) /\ Excepted
  BY OpenWhile, OnEveryPath DEF IndInv, StreamInv
<1>3. /\ refCount[t] = 0 /\ FiltersOf(p) = {} /\ PathPlaces(p) # {} /\ PathFilters[p] # <<>>
      /\ RecursiveTask \notin ready
  BY <1>1, PathIsReady, UnderWay, PathHeld
<1>4. f \notin Frames
  BY <1>1 DEF Frames
<1>5. PICK s : s = {} /\ CallsKept(f, s)
  BY <1>4, NoCallMoves
<1>6. t \in Tasks /\ AllPathsDone \in Tasks /\ t # AllPathsDone /\ RecursiveTask # AllPathsDone
  BY <1>1, OtherThan
<1>7. /\ \A u \in Tasks \ {AllPathsDone} : refCount'[u] = refCount[u]
      /\ \A u : u \in ready' <=> (u \in ready /\ u # t) \/ (u = AllPathsDone /\ refCount[u] = 1)
  BY <1>1, <1>2, <1>6 DEF Types
<1>8. /\ \A u \in Tasks \ {AllPathsDone} : except'[u] = except[u]
      /\ except'[AllPathsDone] <=> except[AllPathsDone] \/ except[t]
  <2>1. PICK b \in BOOLEAN : b = (except[AllPathsDone] \/ except[NextTask(p)])
    BY <1>2 DEF Types
  <2>2. except' = [except EXCEPT ![AllPathsDone] = b]
    BY <2>1
  <2> QED
    BY <1>1, <1>2, <1>6, <2>1, <2>2 DEF Types
<1>9. PathPlaces(p)' = {}
  <2>1. NextTask(p) \notin ready' /\ ~(refCount'[NextTask(p)] > 0)
    BY <1>1, <1>3, <1>6, <1>7
  <2>2. FiltersOf(p)' = {}
    BY <1>3, <1>4, <1>5 DEF FiltersOf, Having, CallsKept
  <2> QED
    BY <2>1, <2>2, SomePlace
<1>10. \A k \in Paths \ {p} : PathPlaces(k)' = PathPlaces(k)
  <2>1. \A k \in Paths \ {p} : StaysReady(NextTask(k)) /\ StaysHeld(NextTask(k))
    BY <1>1, <1>7, OtherThan DEF StaysHeld, StaysReady
  <2> QED
    BY <1>4, <1>5, <2>1, OtherPaths
<1>11. \A k \in Paths : ToStart(k)' <=> ToStart(k)
  BY <1>4, <1>5, HavingKept DEF ToStart, Range
<1>12. MetAt'
  BY <1>5, MetKept DEF StreamInv
<1>13. PathIsOver(p)
  <2>1. PICK i : i = m_index[p]
    OBVIOUS
  <2>2. /\ i \in DOMAIN PathFilters[p] /\ i \in 1 .. Len(PathFilters[p]) /\ Len(PathFilters[p]) \in Nat
        /\ FilterOf(p) = PathFilters[p][i] /\ FilterOf(p) \in Filters /\ FilterOf(p) \in Modules
    BY <1>2, <1>3, <2>1, FilterIs, FiltersAre DEF FilterOf
  <2>3. Before(p, i) /\ ~m_waiting[FilterOf(p)]
    BY <1>2, <1>3, <2>1 DEF OnPath
  <2>4. CASE ~m_keep[FilterOf(p)]
    BY <2>2, <2>3, <2>4 DEF PathIsOver
  <2>5. CASE fatal
    BY <2>5 DEF PathIsOver
  <2>6. CASE m_keep[FilterOf(p)] /\ except[NextTask(p)]
    BY <1>2, <2>2, <2>6 DEF Excepted, Marks
  <2>7. CASE m_keep[FilterOf(p)] /\ ~(m_index[p] < Len(PathFilters[p]))
    <3>1. i = Len(PathFilters[p])
      BY <2>1, <2>2, <2>7
    <3>2. \A j \in 1 .. (Len(PathFilters[p]) + 1) - 1 : j \in 1 .. i - 1 \/ j = i
      BY <2>2, <3>1
    <3>3. Before(p, Len(PathFilters[p]) + 1)
      BY <2>2, <2>3, <2>7, <3>2 DEF Before
    <3> QED
      BY <3>3 DEF PathIsOver
  <2> QED
    BY <2>4, <2>5, <2>6, <2>7
<1>14. OnPath(p)'
  <2>1. PathIsOver(p)'
    BY <1>2, <1>13, PathsLast DEF Onward
  <2>2. NextTask(p) \notin ready'
    BY <1>1, <1>6, <1>7
  <2> QED
    BY <1>9, <2>1, <2>2 DEF OnPath, NextTask
<1>15. \A k \in Paths \ {p} :
              /\ m_index'[k] = m_index[k] /\ (ToStart(k)' <=> ToStart(k))
              /\ PathPlaces(k)' # {} <=> PathPlaces(k) # {}
              /\ refCount'[NextTask(k)] = refCount[NextTask(k)] /\ StaysReady(NextTask(k))
  BY <1>1, <1>7, <1>10, <1>11, OtherThan DEF StaysReady
<1>16. except[NextTask(p)] => m_index'[p] = m_index[p] /\ ~ToStart(p)'
  BY <1>2, <1>11 DEF Excepted
<1>17. /\ f \in Frames => Call(f).op # "handle"
       /\ \A d \in s : d.op \notin {"handle", "fail"}
  BY <1>4, <1>5
<1>18. UNCHANGED <<wrappers, pushed, outside, fatal, stream, history>>
  OBVIOUS
<1>19. except'[AllPathsDone] => except[AllPathsDone] \/ \E m \in Modules : m_exceptionPtr[m]
  <2>1. FilterOf(p) \in Modules
    BY <1>2, <1>3, FilterIs
  <2>2. except[t] => m_exceptionPtr[FilterOf(p)]
    BY <1>1, <1>2 DEF Excepted
  <2> QED
    BY <1>8, <2>1, <2>2
<1>20. StaysReady(RecursiveTask)
  BY <1>1, <1>6, <1>7, OtherThan DEF StaysReady
<1>21. AtPath(p) => except'[AllPathsDone] /\ RecursiveTask \notin ready'
  BY <1>1, <1>2, <1>3, <1>8, <1>20 DEF AtPath, OnPath, StaysReady
<1>22. except[AllPathsDone] => except'[AllPathsDone]
  BY <1>8
<1> QED
  BY <1>2, <1>5, <1>8, <1>12, <1>14, <1>15, <1>16, <1>17, <1>18, <1>19, <1>20, <1>21, <1>22,
     OnePathGoesOn

\* FilterFinished: the path goes to its next filter or ends.
LEMMA FilterFinishedGoesOn ==
    ASSUME IndInv, StreamInv, NEW th \in Threads, NEW p \in Paths, FilterFinished(th, p)
    PROVE  StreamInv'
<1>1. CASE /\ ~except[NextTask(p)] /\ ~fatal
           /\ m_keep[PathFilters[p][m_index[p]]]
           /\ m_index[p] < Len(PathFilters[p])
  <2>1. m_keep[FilterOf(p)]
    BY <1>1 DEF FilterOf
  <2> QED
    BY <1>1, <2>1, AdvanceGoesOn DEF FilterFinished
<1>2. CASE ~(/\ ~except[NextTask(p)] /\ ~fatal
             /\ m_keep[PathFilters[p][m_index[p]]]
             /\ m_index[p] < Len(PathFilters[p]))
  <2>1. \/ except[NextTask(p)] \/ fatal \/ ~m_keep[FilterOf(p)]
        \/ ~(m_index[p] < Len(PathFilters[p]))
    BY <1>2 DEF FilterOf
  <2> QED
    BY <1>2, <2>1, EndGoesOn DEF FilterFinished
<1> QED
  BY <1>1, <1>2

\* What is in a sequence.
LEMMA InRange ==
    ASSUME NEW S, NEW q \in Seq(S)
    PROVE  \A k : k \in Range(q) <=> \E i \in 1 .. Len(q) : q[i] = k
<1>1. DOMAIN q = 1 .. Len(q)
  OBVIOUS
<1> QED
  BY <1>1 DEF Range

\* The loop of processAsync goes on from its next path.
LEMMA LoopMoves ==
    ASSUME IndInv, NEW f \in Having("paths"), NEW r, r = Call(f).rest, r # <<>>, NEW p, p = r[1],
           Having("paths")' = Having("paths"), Call(f)'.rest = Tail(r)
    PROVE  /\ p \in Paths /\ ToStart(p) /\ ~ToStart(p)' /\ PathPlaces(p) = {}
           /\ \A k \in Paths \ {p} : ToStart(k)' <=> ToStart(k)
<1>1. Types /\ PathsInOrder
  BY DEF IndInv
<1>2. r \in Seq(Paths)
  BY <1>1, CallTypes, CallParts DEF Having
<1>3. /\ p \in Paths /\ Tail(r) \in Seq(Paths)
      /\ Len(r) \in Nat \ {0} /\ Len(Tail(r)) = Len(r) - 1
      /\ \A i \in 1 .. Len(Tail(r)) : i + 1 \in 2 .. Len(r) /\ Tail(r)[i] = r[i + 1]
  BY <1>2, RestOf
<1>4. /\ \A i, j \in 1 .. Len(r) : r[i] = r[j] => i = j
      /\ \A i \in 1 .. Len(r) : \A k \in Paths : r[i] = k => PathPlaces(k) = {}
  BY <1>1 DEF PathsInOrder
<1>5. 1 \in 1 .. Len(r)
  BY <1>3
<1>6. PathPlaces(p) = {}
  BY <1>3, <1>4, <1>5
<1>7. \A x \in Having("paths") : x = f
  BY <1>1 DEF PathsInOrder
<1>8. \A k : ToStart(k) <=> k \in Range(r)
  <2>1. ASSUME NEW k, NEW x \in Having("paths"), k \in Range(Call(x).rest)
        PROVE  k \in Range(r)
    BY <1>7, <2>1
  <2> QED
    BY <2>1 DEF ToStart
<1>9. PICK u : u = Tail(r)
  OBVIOUS
<1>10. \A k : ToStart(k)' <=> k \in Range(u)
  <2>1. ASSUME NEW x \in Having("paths")' PROVE Call(x)'.rest = u
    BY <1>7, <1>9, <2>1
  <2>2. f \in Having("paths")'
    OBVIOUS
  <2>3. ASSUME NEW k PROVE ToStart(k)' <=> k \in Range(u)
    <3>1. ToStart(k)' <=> \E x \in Having("paths")' : k \in Range(Call(x)'.rest)
      BY DEF ToStart, Range
    <3> QED
      BY <2>1, <2>2, <3>1
  <2> QED
    BY <2>3
<1>11. /\ \A k : k \in Range(r) <=> \E i \in 1 .. Len(r) : r[i] = k
       /\ \A k : k \in Range(u) <=> \E i \in 1 .. Len(u) : u[i] = k
  <2>1. r \in Seq(Paths) /\ u \in Seq(Paths)
    BY <1>2, <1>3, <1>9
  <2>2. \A q \in Seq(Paths) : \A k : k \in Range(q) <=> \E i \in 1 .. Len(q) : q[i] = k
    BY InRange
  <2> QED
    BY <2>1, <2>2
<1>12. p \in Range(r)
  BY <1>5, <1>11
<1>13. p \notin Range(u)
  <2>1. ASSUME NEW i \in 1 .. Len(u), u[i] = p PROVE FALSE
    <3>1. i + 1 \in 2 .. Len(r) /\ r[i + 1] = r[1]
      BY <1>3, <1>9, <2>1
    <3>2. i + 1 = 1
      BY <1>3, <1>4, <1>5, <3>1
    <3> QED
      BY <2>1, <3>2
  <2> QED
    BY <1>11, <2>1
<1>14. \A k \in Range(u) : k \in Range(r)
  <2>1. ASSUME NEW i \in 1 .. Len(u) PROVE u[i] \in Range(r)
    <3>1. i + 1 \in 1 .. Len(r) /\ u[i] = r[i + 1]
      BY <1>3, <1>9, <2>1
    <3> QED
      BY <1>11, <3>1
  <2> QED
    BY <1>11, <2>1
<1>15. \A k \in Range(r) : k = p \/ k \in Range(u)
  BY <1>2, <1>9, RestOf
<1> QED
  BY <1>3, <1>6, <1>8, <1>10, <1>12, <1>13, <1>14, <1>15

\* A path without filters is over at once.
LEMMA EmptyGoesOn ==
    ASSUME IndInv, StreamInv, NEW th \in Threads, StartPath(th), PathFilters[Top(th).rest[1]] = <<>>
    PROVE  StreamInv'
<1> USE DEF wrappers, stream, history
<1>1. PICK f, r, p, c : f = Inner(th) /\ r = Top(th).rest /\ p = r[1] /\ c = RunPaths(Tail(r))
  OBVIOUS
<1>2. /\ ~Idle(th) /\ Top(th).op = "paths" /\ r # <<>> /\ PathFilters[p] = <<>>
      /\ Become(th, <<c>>) /\ UNCHANGED <<m_index, refCount>>
      /\ UNCHANGED <<wrappers, except, ready, pushed, outside, fatal, stream, history>>
  BY <1>1 DEF StartPath, Inside
<1>3. /\ open /\ Types /\ f \in Frames /\ Call(f) = Top(th) /\ r \in Seq(Paths)
      /\ f \in Having("paths")
  BY <1>1, <1>2, InnerCall, CallParts DEF Having
<1>4. c \in Calls /\ c.op = "paths" /\ c.rest = Tail(r) /\ Meets(c)
  BY <1>1, <1>2, <1>3, RestOf, CallsMade, CallsAre, MetCalls
<1>5. Turns(f, c)
  BY <1>1, <1>2, <1>3, <1>4, CallTurns
<1>6. PICK s : s = {c} /\ CallsKept(f, s)
  BY <1>5, KeptCalls
<1>7. /\ p \in Paths /\ ToStart(p) /\ ~ToStart(p)' /\ PathPlaces(p) = {}
      /\ \A k \in Paths \ {p} : ToStart(k)' <=> ToStart(k)
  <2>1. r = Call(f).rest /\ Call(f)'.rest = Tail(r) /\ Having("paths")' = Having("paths")
    BY <1>1, <1>2, <1>3, <1>4, <1>5 DEF Turns, Having
  <2> QED
    BY <1>1, <1>2, <1>3, <2>1, LoopMoves
<1>8. \A k \in Paths : PathPlaces(k)' # {} <=> PathPlaces(k) # {}
  <2>1. \A k \in Paths : FiltersOf(k)' = FiltersOf(k)
    BY <1>2, <1>3, <1>4, <1>6, HavingKept DEF FiltersOf
  <2> QED
    BY <1>2, <2>1, SomePlace
<1>9. OnPath(p)'
  <2>1. \A j \in 1 .. (0 + 1) - 1 : FALSE
    OBVIOUS
  <2>2. Len(PathFilters[p]) = 0
    BY <1>2
  <2>3. Before(p, Len(PathFilters[p]) + 1)'
    BY <2>1, <2>2 DEF Before
  <2>4. PathIsOver(p)'
    BY <2>3 DEF PathIsOver
  <2>5. NextTask(p) \notin ready'
    BY <1>2, <1>7, SomePlace
  <2> QED
    BY <1>7, <1>8, <2>4, <2>5 DEF OnPath, NextTask
<1>10. MetAt'
  BY <1>2, <1>4, <1>6, MetKept DEF StreamInv
<1>11. \A k \in Paths \ {p} :
              /\ m_index'[k] = m_index[k] /\ (ToStart(k)' <=> ToStart(k))
              /\ PathPlaces(k)' # {} <=> PathPlaces(k) # {}
              /\ refCount'[NextTask(k)] = refCount[NextTask(k)] /\ StaysReady(NextTask(k))
  BY <1>2, <1>7, <1>8 DEF StaysReady
<1>12. except[NextTask(p)] => m_index'[p] = m_index[p] /\ ~ToStart(p)'
  BY <1>2, <1>7
<1>13. /\ f \in Frames => Call(f).op # "handle"
       /\ \A d \in s : d.op \notin {"handle", "fail"}
  BY <1>2, <1>3, <1>4, <1>6
<1>14. /\ \A u \in Tasks \ {AllPathsDone} : except'[u] = except[u]
       /\ except[AllPathsDone] => except'[AllPathsDone]
       /\ except'[AllPathsDone] => except[AllPathsDone]
       /\ StaysReady(RecursiveTask)
  BY <1>2 DEF StaysReady
<1>15. ~AtPath(p)
  BY <1>7, SomePlace DEF AtPath
<1>16. UNCHANGED <<wrappers, pushed, outside, fatal, stream, history>>
  BY <1>2
<1> QED
  BY <1>3, <1>6, <1>7, <1>9, <1>10, <1>11, <1>12, <1>13, <1>14, <1>15, <1>16, OnePathGoesOn


\* A path begins, from its first filter, with a reference to AllPathsDoneTask.
LEMMA BeginGoesOn ==
    ASSUME IndInv, StreamInv, NEW th \in Threads, StartPath(th), PathFilters[Top(th).rest[1]] # <<>>
    PROVE  StreamInv'
<1> USE DEF wrappers, stream, history
<1>1. PICK f, r, p, c, d : /\ f = Inner(th) /\ r = Top(th).rest /\ p = r[1]
                           /\ c = RunPaths(Tail(r)) /\ d = RunFilter(p)
  OBVIOUS
<1>2. /\ ~Idle(th) /\ Top(th).op = "paths" /\ r # <<>> /\ PathFilters[p] # <<>>
      /\ Become(th, <<d, c>>) /\ m_index' = [m_index EXCEPT ![p] = 1]
      /\ refCount' = [refCount EXCEPT ![AllPathsDone] = @ + 1]
      /\ UNCHANGED <<wrappers, except, ready, pushed, outside, fatal, stream, history>>
  BY <1>1 DEF StartPath, Inside
<1>3. /\ open /\ Types /\ f \in Frames /\ Call(f) = Top(th) /\ r \in Seq(Paths)
      /\ f \in Having("paths")
  BY <1>1, <1>2, InnerCall, CallParts DEF Having
<1>4. /\ c \in Calls /\ c.op = "paths" /\ c.rest = Tail(r)
      /\ d \in Calls /\ d.op = "filter" /\ d.path = p
  BY <1>1, <1>2, <1>3, RestOf, CallsMade DEF RunPaths, RunFilter
<1>5. TurnsAndMakes(f, c, d)
  BY <1>1, <1>2, <1>3, <1>4, CallMakes
<1>6. PICK s : s = {c, d} /\ CallsKept(f, s)
  BY <1>5, KeptCalls
<1>7. /\ p \in Paths /\ ToStart(p) /\ ~ToStart(p)' /\ PathPlaces(p) = {}
      /\ \A k \in Paths \ {p} : ToStart(k)' <=> ToStart(k)
  <2>1. r = Call(f).rest /\ Call(f)'.rest = Tail(r)
    BY <1>1, <1>3, <1>4, <1>5 DEF TurnsAndMakes
  <2>2. Having("paths")' = Having("paths")
    BY <1>2, <1>3, <1>4, <1>5 DEF TurnsAndMakes, Having
  <2> QED
    BY <1>1, <1>2, <1>3, <2>1, <2>2, LoopMoves
<1>8. /\ \A t \in Tasks \ {AllPathsDone} : refCount'[t] = refCount[t]
      /\ \A t : StaysReady(t)
  BY <1>2, <1>3 DEF Types, StaysReady
<1>9. \A k \in Paths \ {p} : PathPlaces(k)' = PathPlaces(k)
  <2>1. \A k \in Paths \ {p} : StaysReady(NextTask(k)) /\ StaysHeld(NextTask(k))
    BY <1>8, OtherThan DEF StaysHeld
  <2>2. /\ p \in Paths /\ CallsKept(f, s)
        /\ f \in Frames => Call(f).op # "filter" \/ Call(f).path = p
        /\ \A e \in s : e.op # "filter" \/ e.path = p
    BY <1>2, <1>3, <1>4, <1>6, <1>7
  <2> QED
    BY <2>1, <2>2, OtherPaths
<1>10. refCount[NextTask(p)] = 0 /\ NextTask(p) \notin ready /\ Holders(NextTask(p)) = {}
  <2>1. ~(refCount[NextTask(p)] > 0) /\ NextTask(p) \notin ready
    BY <1>7, SomePlace
  <2>2. NextTask(p) \in Waiters
    BY <1>7, TaskTypes
  <2> QED
    BY <1>3, <2>1, <2>2, HeldIsCounted DEF IndInv
<1>11. m_index'[p] = 1 /\ \A k \in Paths \ {p} : m_index'[k] = m_index[k]
  BY <1>2, <1>3, <1>7 DEF Types
<1>12. OnPath(p)'
  <2>1. \A j \in 1 .. 1 - 1 : FALSE
    OBVIOUS
  <2>2. Before(p, m_index[p])'
    BY <1>11, <2>1 DEF Before
  <2>3. NextTask(p) \notin ready'
    BY <1>8, <1>10 DEF StaysReady
  <2>4. Above(f) \in FiltersOf(p)'
    BY <1>4, <1>5 DEF TurnsAndMakes, FiltersOf, Having
  <2>5. PathPlaces(p)' # {}
    BY <2>4, SomePlace
  <2> QED
    BY <2>2, <2>3, <2>5 DEF OnPath, NextTask
<1>13. MetAt'
  <2>1. PICK P : P = {p}
    OBVIOUS
  <2>2. /\ \A k \in Paths \ P : m_index'[k] = m_index[k]
        /\ \A k \in P : Holders(NextTask(k)) = {}
    BY <1>10, <1>11, <2>1
  <2>3. \A e \in s : Meets(e)'
    BY <1>4, <1>6 DEF Meets
  <2>4. UNCHANGED listed
    BY <1>2
  <2>5. MetAt
    BY DEF StreamInv
  <2> QED
    BY <1>6, <2>2, <2>3, <2>4, <2>5, MetMoved
<1>14. \A k \in Paths \ {p} :
              /\ m_index'[k] = m_index[k] /\ (ToStart(k)' <=> ToStart(k))
              /\ PathPlaces(k)' # {} <=> PathPlaces(k) # {}
              /\ refCount'[NextTask(k)] = refCount[NextTask(k)] /\ StaysReady(NextTask(k))
  BY <1>7, <1>8, <1>9, <1>11, OtherThan
<1>15. except[NextTask(p)] => m_index'[p] = m_index[p] /\ ~ToStart(p)'
  BY <1>7 DEF StreamInv, Excepted
<1>16. /\ f \in Frames => Call(f).op # "handle"
       /\ \A e \in s : e.op \notin {"handle", "fail"}
  BY <1>2, <1>3, <1>4, <1>6
<1>17. /\ \A u \in Tasks \ {AllPathsDone} : except'[u] = except[u]
       /\ except[AllPathsDone] => except'[AllPathsDone]
       /\ except'[AllPathsDone] => except[AllPathsDone] \/ \E m \in Modules : m_exceptionPtr[m]
       /\ StaysReady(RecursiveTask)
  BY <1>2 DEF StaysReady
<1>18. ~AtPath(p)
  BY <1>10 DEF AtPath
<1>19. UNCHANGED <<wrappers, pushed, outside, fatal, stream, history>>
  BY <1>2
<1> QED
  BY <1>3, <1>6, <1>7, <1>12, <1>13, <1>14, <1>15, <1>16, <1>17, <1>18, <1>19, OnePathGoesOn

\* All paths have been started.
LEMMA LoopEndGoesOn ==
    ASSUME IndInv, StreamInv, NEW th \in Threads, PathsStarted(th)
    PROVE  StreamInv'
<1> USE DEF wrappers, stream, history
<1>1. PICK f, e : f = Inner(th) /\ e = FALSE
  OBVIOUS
<1>2. /\ ~Idle(th) /\ Top(th).op = "paths" /\ Top(th).rest = <<>>
      /\ Release(AllPathsDone, FALSE) /\ Become(th, <<>>)
      /\ UNCHANGED <<wrappers, m_index, pushed, outside, fatal, stream, history>>
  BY DEF PathsStarted, Inside
<1>3. open /\ Types /\ f \in Frames /\ Call(f) = Top(th) /\ f \in Having("paths")
  BY <1>1, <1>2, InnerCall DEF Having
<1>4. Ends(f)
  BY <1>1, <1>2, <1>3, CallEnds
<1>5. PICK s : s = {} /\ CallsKept(f, s)
  BY <1>4, KeptCalls
<1>6. /\ \A u \in Tasks \ {AllPathsDone} : refCount'[u] = refCount[u] /\ except'[u] = except[u]
      /\ \A u \in Tasks : except[u] => except'[u]
      /\ \A u \in Tasks \ {AllPathsDone} : StaysReady(u)
  BY <1>2, <1>3, Released, TaskTypes DEF StaysReady
<1>7. except'[AllPathsDone] => except[AllPathsDone]
  BY <1>2, <1>3, TaskTypes DEF Release, Types
<1>8. \A k : ~ToStart(k) /\ ~ToStart(k)'
  <2>1. \A x \in Having("paths") : x = f
    BY <1>3 DEF IndInv, PathsInOrder
  <2>2. \A k : k \notin Range(Call(f).rest)
    BY <1>2, <1>3 DEF Range
  <2>3. \A x : x \notin Having("paths")'
    BY <1>4, <2>1 DEF Ends, Having
  <2> QED
    BY <2>1, <2>2, <2>3 DEF ToStart
<1>9. \A k \in Paths : PathPlaces(k)' # {} <=> PathPlaces(k) # {}
  <2>1. \A k \in Paths : FiltersOf(k)' = FiltersOf(k)
    BY <1>2, <1>3, <1>5, HavingKept DEF FiltersOf
  <2> QED
    BY <1>6, <2>1, SomePlace, OtherThan DEF StaysReady
<1>10. MetAt'
  BY <1>2, <1>5, MetKept DEF StreamInv
<1>11. PICK P : P = {}
  OBVIOUS
<1>12. \A k \in Paths \ P :
              /\ m_index'[k] = m_index[k] /\ (ToStart(k)' <=> ToStart(k))
              /\ PathPlaces(k)' # {} <=> PathPlaces(k) # {}
              /\ refCount'[NextTask(k)] = refCount[NextTask(k)] /\ StaysReady(NextTask(k))
  BY <1>2, <1>6, <1>8, <1>9, OtherThan
<1>13. /\ f \in Frames => Call(f).op # "handle"
       /\ \A d \in s : d.op \notin {"handle", "fail"}
  BY <1>2, <1>3, <1>5
<1>14. /\ \A t \in Tasks \ {AllPathsDone} : except'[t] = except[t]
       /\ except[AllPathsDone] => except'[AllPathsDone]
       /\ except'[AllPathsDone] => except[AllPathsDone] \/ \E m \in Modules : m_exceptionPtr[m]
       /\ StaysReady(RecursiveTask)
  BY <1>6, <1>7, TaskTypes, TaskNames
<1>15. UNCHANGED <<wrappers, pushed, outside, fatal, stream, history>>
  BY <1>2
<1>16. /\ P \subseteq Paths /\ \A k \in P : OnPath(k)'
       /\ \A k \in P : except[NextTask(k)] => m_index'[k] = m_index[k] /\ ~ToStart(k)'
       /\ \A k \in P : AtPath(k) =>
              AtPath(k)' \/ (except'[AllPathsDone] /\ RecursiveTask \notin ready')
  BY <1>11
<1> QED
  BY <1>3, <1>5, <1>10, <1>11, <1>12, <1>13, <1>14, <1>15, <1>16, PathsGoOn


-----------------------------------------------------------------------------
(* The steps of the stream. *)

\* All paths are over: the exception gets to the end of the event, and the job
\* has failed.
LEMMA AllDoneGoesOn ==
    ASSUME IndInv, StreamInv, NEW th \in Threads, AllPathsDoneExecute(th)
    PROVE  StreamInv'
<1> USE DEF wrappers, stream, history
<1>1. /\ AllPathsDone \in ready
      /\ fatal' = (fatal \/ except[AllPathsDone])
      /\ except' = [except EXCEPT ![RecursiveTask] = @ \/ except[AllPathsDone]]
      /\ refCount' = [refCount EXCEPT ![RecursiveTask] = @ - 1]
      /\ ready' = (ready \ {AllPathsDone})
                     \cup (IF refCount[RecursiveTask] = 1 THEN {RecursiveTask} ELSE {})
      /\ UNCHANGED <<wrappers, m_index, pushed, outside, stream, stack, history>>
  BY DEF AllPathsDoneExecute
<1>2. /\ Types /\ Marks /\ Opened /\ OnPaths /\ Excepted /\ Noticed /\ MetAt
      /\ open /\ Having("handle") = {}
  BY <1>1, OpenWhile, OneStreamPlace DEF IndInv, StreamInv
<1>3. PICK f : f = <<th, 0>>
  OBVIOUS
<1>4. f \notin Frames
  BY <1>3 DEF Frames
<1>5. PICK s : s = {} /\ CallsKept(f, s)
  BY <1>1, <1>4, NoCallMoves
<1>6. AllPathsDone \in Tasks /\ RecursiveTask \in Tasks /\ AllPathsDone # RecursiveTask
  BY TaskTypes, TaskNames
<1>7. /\ \A u \in Tasks \ {RecursiveTask} : refCount'[u] = refCount[u]
      /\ \A u : u # AllPathsDone /\ u # RecursiveTask => StaysReady(u)
  BY <1>1, <1>2, <1>6 DEF Types, StaysReady
<1>8. /\ \A u \in Tasks \ {RecursiveTask} : except'[u] = except[u]
      /\ except'[RecursiveTask] <=> except[RecursiveTask] \/ except[AllPathsDone]
  <2>1. PICK b \in BOOLEAN : b = (except[RecursiveTask] \/ except[AllPathsDone])
    BY <1>2, <1>6 DEF Types
  <2>2. except' = [except EXCEPT ![RecursiveTask] = b]
    BY <1>1, <2>1
  <2> QED
    BY <1>2, <1>6, <2>1, <2>2 DEF Types
<1>9. fatal' <=> fatal \/ except[AllPathsDone]
  BY <1>1, <1>2, <1>6 DEF Types
<1>10. Onward
  BY <1>1, <1>9 DEF Onward
<1>11. Same("filter") /\ Same("paths") /\ Same("handle")
  BY <1>4, <1>5, HavingKept DEF Same
<1>12. Marks' /\ Opened'
  <2>1. Having("handle")' = {}
    BY <1>2, <1>11 DEF Same
  <2> QED
    BY <1>1, <1>2, <2>1, MarksKept, OpenedKept
<1>13. MetAt'
  BY <1>1, <1>2, <1>5, MetKept
<1>14. /\ \A k \in Modules : except'[RunTask(k)] = except[RunTask(k)]
       /\ \A k \in HasAcquire : except'[AfterAcquire(k)] = except[AfterAcquire(k)]
       /\ \A k \in Paths : /\ except'[NextTask(k)] = except[NextTask(k)]
                           /\ refCount'[NextTask(k)] = refCount[NextTask(k)]
                           /\ StaysReady(NextTask(k))
       /\ except'[AllPathsDone] = except[AllPathsDone]
  BY <1>6, <1>7, <1>8, TaskTypes, TaskNames
<1>15. \A k \in Paths : ToStart(k)' <=> ToStart(k)
  BY <1>11 DEF Same, ToStart, Range
<1>16. OnPaths'
  <2>1. ASSUME NEW k \in Paths PROVE OnPath(k)'
    <3>1. PathPlaces(k)' # {} <=> PathPlaces(k) # {}
      <4>1. FiltersOf(k)' = FiltersOf(k)
        BY <1>11 DEF Same, FiltersOf
      <4> QED
        BY <1>14, <4>1, SomePlace DEF StaysReady
    <3>2. OnPath(k) /\ m_index'[k] = m_index[k] /\ UNCHANGED open
      BY <1>1, <1>2, OnEveryPath
    <3>3. NextTask(k) \in ready' => NextTask(k) \in ready
      BY <1>14 DEF StaysReady
    <3> QED
      BY <1>2, <1>10, <1>14, <1>15, <3>1, <3>2, <3>3, OnPathKept
  <2> QED
    BY <2>1, OnEveryPath
<1>17. Excepted'
  <2>1. \A p \in Paths : except'[NextTask(p)] =>
              /\ m_index'[p] = m_index[p] /\ ~ToStart(p)' /\ PathFilters[p] # <<>>
              /\ m_exceptionPtr[FilterOf(p)]
    BY <1>1, <1>2, <1>14, <1>15 DEF Excepted
  <2>2. except'[RecursiveTask] => \/ except[RecursiveTask]
                                  \/ fatal' /\ \E m \in Modules : m_exceptionPtr[m]
    BY <1>2, <1>8, <1>9 DEF Excepted
  <2>3. except'[AllPathsDone] => except[AllPathsDone] \/ \E m \in Modules : m_exceptionPtr[m]
    BY <1>14
  <2>4. /\ \A m \in Modules : except'[RunTask(m)] => except[RunTask(m)] \/ FailedGet(m)
        /\ \A m \in HasAcquire : except'[AfterAcquire(m)] => except[AfterAcquire(m)] \/ m \in MayThrow
    BY <1>14
  <2>5. \A c \in s \cup pushed' : c.op = "fail" => c \in pushed \/ (c.mod \in Modules /\ MayFail(c.mod))
    BY <1>1, <1>5
  <2> QED
    BY <1>2, <1>5, <1>10, <2>1, <2>2, <2>3, <2>4, <2>5, ExceptedKept
<1>18. Noticed'
  <2>1. \A p \in Paths : AtPath(p) => AtPath(p)' \/ (except'[AllPathsDone] /\ RecursiveTask \notin ready')
    BY <1>1, <1>14 DEF AtPath, FilterOf, NextTask, StaysReady
  <2>2. /\ except[AllPathsDone] /\ RecursiveTask \notin ready =>
              (except'[AllPathsDone] /\ RecursiveTask \notin ready') \/ except'[RecursiveTask]
        /\ except[RecursiveTask] => except'[RecursiveTask]
    BY <1>8
  <2>3. UNCHANGED <<m_waiting, m_exceptionPtr, open>> /\ \A m \in Modules : m_workStarted[m] => m_workStarted'[m]
    BY <1>1
  <2> QED
    BY <1>2, <2>1, <2>2, <2>3, NoticedKept
<1> QED
  BY <1>12, <1>13, <1>16, <1>17, <1>18 DEF StreamInv

\* Another stream fails, or nothing happens at all.
LEMMA OthersGoOn ==
    ASSUME IndInv, StreamInv, OtherStreamFails \/ UNCHANGED vars
    PROVE  StreamInv'
<1>1. /\ UNCHANGED <<wrappers, m_index, tasks, pushed, outside, stream, stack, history>>
      /\ fatal => fatal'
  BY DEF OtherStreamFails, vars, wrappers, tasks, stream, history
<1>2. PICK f : f = <<0, 0>>
  OBVIOUS
<1>3. f \notin Frames
  BY <1>2 DEF Frames
<1>4. CallsKept(f, {}) /\ (f \in Frames => Call(f).op = "serve")
  BY <1>1, <1>3, NoCallMoves
<1>5. /\ UNCHANGED <<wrappers, m_index, tasks, pushed, outside, stream, history>>
      /\ fatal => fatal'
  BY <1>1
<1> QED
  BY <1>4, <1>5, NothingGoesOn

\* Before the next event is begun no task is told of an exception.
LEMMA HandleIsQuiet ==
    ASSUME IndInv, StreamInv, NoLateLook, NEW th \in Threads, Inside(th, "handle"),
           NEW f, f = Inner(th)
    PROVE  /\ ~open /\ outcome = "none" /\ f \in Frames /\ f \in Having("handle")
           /\ \A x \in Frames : Call(x).op = "serve" \/ x = f
           /\ ready = {} /\ pushed = {} /\ outside = {}
           /\ \A t \in Tasks : refCount[t] = 0
           /\ \A m \in Modules : listed[m] = {}
           /\ \A m \in Modules : ~m_exceptionPtr[m] /\ (m_workStarted[m] => ~m_waiting[m])
           /\ \A m \in Modules : ~except[RunTask(m)]
           /\ \A p \in Paths : ~except[NextTask(p)]
           /\ ~except[AllPathsDone] /\ ~except[RecursiveTask]
<1>1. /\ f \in Frames /\ Call(f).op = "handle"
      /\ \A x \in Frames : Call(x).op = "serve" \/ x = f
      /\ ready = {} /\ pushed = {} /\ outside = {}
      /\ \A t \in Tasks : refCount[t] = 0
      /\ \A m \in Modules : listed[m] = {}
  BY OnlyHandle
<1>2. f \in Having("handle") /\ Opened /\ Excepted /\ Types
  BY <1>1 DEF Having, StreamInv, IndInv
<1>3. /\ ~open /\ outcome = "none"
      /\ \A m \in Modules : ~m_exceptionPtr[m] /\ (m_workStarted[m] => ~m_waiting[m])
  BY <1>2 DEF Opened
<1>4. \A m \in Modules : ~FailedGet(m)
  BY <1>3, GetsTypes, FiltersAre DEF FailedGet
<1>5. \A p \in Paths : PathFilters[p] # <<>> => ~m_exceptionPtr[FilterOf(p)]
  BY <1>2, <1>3, FilterIs
<1> QED
  BY <1>1, <1>2, <1>3, <1>4, <1>5 DEF Excepted


\* Between events there is nothing to be said of tasks and paths.
LEMMA NothingThen ==
    ASSUME Closed, ~open, \A m \in Modules : listed[m] = {}
    PROVE  /\ MetAt /\ OnPaths /\ Noticed
           /\ \A p \in Paths : ~ToStart(p)
           /\ \A x \in Frames : Call(x).op # "fail"
<1>1. \A op : op \notin {"handle", "serve"} => Having(op) = {}
  BY DEF Closed, Having
<1>2. \A p \in Paths : ~ToStart(p)
  BY <1>1 DEF ToStart
<1>3. \A p \in Paths : PathPlaces(p) = {} /\ NextTask(p) \notin ready
  <2>1. \A p \in Paths : ~(refCount[NextTask(p)] > 0) /\ NextTask(p) \notin ready
    BY TaskTypes DEF Closed
  <2>2. \A p \in Paths : FiltersOf(p) = {}
    BY <1>1 DEF FiltersOf
  <2> QED
    BY <2>1, <2>2, SomePlace
<1>4. \A x \in Frames : Call(x).op \in {"handle", "serve"}
  BY DEF Closed
<1>5. MetAt
  BY <1>4 DEF MetAt, Meets
<1> QED
  BY <1>2, <1>3, <1>4, <1>5 DEF OnPaths, Noticed

\* When the event is over and was not failed, nothing in it has failed.
LEMMA NoneFailed ==
    ASSUME IndInv, StreamInv, RecursiveTask \in ready, NoLateLook
    PROVE  /\ open /\ outcome = "none" /\ Having("handle") = {}
           /\ ready = {RecursiveTask} /\ pushed = {} /\ outside = {}
           /\ \A t \in Tasks : refCount[t] = 0
           /\ \A m \in Modules : listed[m] = {}
           /\ \A x \in Frames : Call(x).op = "serve"
           /\ Started = {}
           /\ ~except[RecursiveTask] => \A m \in Modules : ~m_exceptionPtr[m]
<1>1. NothingHeld /\ Between
  BY NothingIsHeld DEF Between
<1>2. open /\ outcome = "none" /\ Having("handle") = {}
  BY OpenWhile, OneStreamPlace DEF StreamInv, Opened
<1>3. /\ ready = {RecursiveTask} /\ pushed = {} /\ outside = {}
      /\ \A t \in Tasks : refCount[t] = 0
      /\ \A m \in Modules : listed[m] = {}
      /\ \A x \in Frames : Call(x).op \in {"handle", "serve"}
  BY <1>1 DEF NothingHeld, NoLateLook
<1>4. \A x \in Frames : Call(x).op = "serve"
  BY <1>2, <1>3 DEF Having
<1>5. Started = {}
  <2>1. ASSUME NEW a \in Started PROVE FALSE
    <3>1. PICK s : s = Started
      OBVIOUS
    <3>2. \E m \in s : \E t \in listed[m] : \A k \in s : t # RunTask(k)
      BY <2>1, <3>1 DEF IndInv, NoneInCircle
    <3> QED
      BY <1>3, <3>1, <3>2 DEF Started
  <2> QED
    BY <2>1
<1>6. ASSUME ~except[RecursiveTask], NEW m \in Modules, m_exceptionPtr[m] PROVE FALSE
  <2>1. OnItsWay
    BY <1>2, <1>6 DEF StreamInv, Noticed
  <2>2. \A p \in Paths : ~AtPath(p)
    BY <1>3, OtherThan DEF AtPath
  <2> QED
    BY <1>5, <1>6, <2>1, <2>2 DEF OnItsWay
<1> QED
  BY <1>2, <1>3, <1>4, <1>5, <1>6

\* The event is over.
LEMMA EventDoneGoesOn ==
    ASSUME IndInv, StreamInv, NoLateLook, NEW th \in Threads, EventDone(th)
    PROVE  StreamInv'
<1> USE DEF wrappers, stream, history
<1>1. /\ Idle(th) /\ RecursiveTask \in ready /\ ready' = ready \ {RecursiveTask}
      /\ open' = FALSE
      /\ \/ except[RecursiveTask] /\ outcome' = "failed" /\ UNCHANGED stack
         \/ ~except[RecursiveTask] /\ Begin(th, <<Handle>>) /\ UNCHANGED outcome
      /\ UNCHANGED <<wrappers, m_index, refCount, except, pushed, outside, fatal,
                     m_seenEvents, history>>
  BY DEF EventDone, Take
<1>2. /\ open /\ outcome = "none" /\ Having("handle") = {}
      /\ ready = {RecursiveTask} /\ pushed = {} /\ outside = {}
      /\ \A t \in Tasks : refCount[t] = 0
      /\ \A m \in Modules : listed[m] = {}
      /\ \A x \in Frames : Call(x).op = "serve"
      /\ Started = {}
      /\ ~except[RecursiveTask] => \A m \in Modules : ~m_exceptionPtr[m]
  BY <1>1, NoneFailed
<1>3. Types /\ Marks /\ Excepted
  BY DEF IndInv, StreamInv
<1>4. PICK f, c : f = First(th) /\ c = Handle
  OBVIOUS
<1>5. c \in Calls /\ c.op = "handle" /\ f \notin Frames
  BY <1>1, <1>4, CallsMade DEF Handle, Frames, First, Idle
<1>6. /\ \A x \in Frames' : Call(x)'.op \in {"handle", "serve"}
      /\ except[RecursiveTask] => Having("handle")' = {}
  <2>1. CASE except[RecursiveTask]
    <3>1. CallsKept(f, {}) /\ Frames' = Frames
      BY <1>1, <1>5, <2>1, NoCallMoves
    <3> QED
      BY <1>2, <3>1 DEF CallsKept, Having
  <2>2. CASE ~except[RecursiveTask]
    <3>1. Begin(th, <<c>>)
      BY <1>1, <1>4, <2>2
    <3>2. Begins(f, c)
      BY <1>1, <1>3, <1>4, <1>5, <3>1, CallBegins
    <3> QED
      BY <1>2, <1>5, <2>2, <3>2 DEF Begins
  <2> QED
    BY <2>1, <2>2
<1>7. Closed'
  BY <1>1, <1>2, <1>6 DEF Closed
<1>8. /\ MetAt' /\ OnPaths' /\ Noticed'
      /\ \A p \in Paths : ~ToStart(p)'
      /\ \A x \in Frames' : Call(x)'.op # "fail"
  <2>1. (Closed /\ ~open /\ (\A m \in Modules : listed[m] = {}) =>
           /\ MetAt /\ OnPaths /\ Noticed
           /\ \A p \in Paths : ~ToStart(p)
           /\ \A x \in Frames : Call(x).op # "fail")'
    BY NothingThen, PTL
  <2> QED
    BY <1>1, <1>2, <1>7, <2>1
<1>9. Marks'
  BY <1>1, <1>3 DEF Marks
<1>10. Opened'
  <2>1. Having("handle")' # {} =>
          /\ outcome' = "none"
          /\ \A m \in Modules : ~m_exceptionPtr'[m] /\ (m_workStarted'[m] => ~m_waiting'[m])
    BY <1>1, <1>2, <1>6 DEF Started
  <2> QED
    BY <1>1, <1>7, <2>1 DEF Opened
<1>11. Excepted'
  <2>1. /\ \A m : FailedGet(m)' <=> FailedGet(m)
        /\ \A p : FilterOf(p)' = FilterOf(p)
        /\ UNCHANGED <<except, fatal, m_exceptionPtr>> /\ pushed' = {}
    BY <1>1, <1>2 DEF FailedGet, FilterOf
  <2> QED
    BY <1>3, <1>8, <2>1 DEF Excepted, RunTask, NextTask, AfterAcquire, AllPathsDone, RecursiveTask
<1> QED
  BY <1>8, <1>9, <1>10, <1>11 DEF StreamInv

\* There is no other event.
LEMMA StreamEndGoesOn ==
    ASSUME IndInv, StreamInv, NoLateLook, NEW th \in Threads, NoMoreEvents(th)
    PROVE  StreamInv'
<1> USE DEF wrappers, stream, history, tasks
<1>1. PICK f : f = Inner(th)
  OBVIOUS
<1>2. /\ Inside(th, "handle") /\ ~Idle(th) /\ ResetModules(Producers) /\ outcome' = "done"
      /\ Become(th, <<>>)
      /\ UNCHANGED <<m_index, tasks, pushed, outside, fatal, open, history>>
  BY DEF NoMoreEvents, Inside
<1>3. /\ ~open /\ outcome = "none" /\ f \in Frames /\ f \in Having("handle")
      /\ \A x \in Frames : Call(x).op = "serve" \/ x = f
      /\ ready = {} /\ pushed = {} /\ outside = {}
      /\ \A t \in Tasks : refCount[t] = 0
      /\ \A m \in Modules : listed[m] = {}
      /\ \A m \in Modules : ~m_exceptionPtr[m] /\ (m_workStarted[m] => ~m_waiting[m])
      /\ \A m \in Modules : ~except[RunTask(m)]
      /\ \A p \in Paths : ~except[NextTask(p)]
      /\ ~except[AllPathsDone] /\ ~except[RecursiveTask]
  BY <1>1, <1>2, HandleIsQuiet
<1>4. Types /\ Marks /\ Excepted
  BY DEF IndInv, StreamInv
<1>5. Ends(f)
  BY <1>1, <1>2, <1>4, CallEnds
<1>6. \A x \in Frames' : Call(x)'.op = "serve"
  BY <1>3, <1>5 DEF Ends
<1>7. Closed'
  BY <1>2, <1>3, <1>6 DEF Closed
<1>8. UNCHANGED listed
  BY <1>2 DEF ResetModules
<1>9. /\ MetAt' /\ OnPaths' /\ Noticed'
      /\ \A p \in Paths : ~ToStart(p)'
      /\ \A x \in Frames' : Call(x)'.op # "fail"
  <2>1. (Closed /\ ~open /\ (\A m \in Modules : listed[m] = {}) =>
           /\ MetAt /\ OnPaths /\ Noticed
           /\ \A p \in Paths : ~ToStart(p)
           /\ \A x \in Frames : Call(x).op # "fail")'
    BY NothingThen, PTL
  <2> QED
    BY <1>2, <1>3, <1>7, <1>8, <2>1
<1>10. Marks'
  <2>1. /\ \A m \in Modules : /\ m_waiting'[m] <=> m_waiting[m] \/ m \in Producers
                              /\ ~m_exceptionPtr'[m]
        /\ \A g \in Filters : m_keep'[g] <=> m_keep[g] /\ g \notin Producers
        /\ \A n \in Producers : ~m_wasCached'[n]
        /\ runs' = runs /\ ~open'
    BY <1>2, <1>3, <1>4 DEF ResetModules, Types
  <2> QED
    BY <1>3, <1>4, <2>1, FiltersAre DEF Marks
<1>11. Opened'
  BY <1>3, <1>2, <1>6, <1>7 DEF Opened, Having
<1>12. Excepted'
  BY <1>2, <1>3, <1>4, <1>9 DEF Excepted, RunTask, NextTask, AfterAcquire, AllPathsDone, RecursiveTask
<1> QED
  BY <1>9, <1>10, <1>11, <1>12 DEF StreamInv


\* The next event begins: all wrappers are fresh, all paths are to be started.
LEMMA EventBeginGoesOn ==
    ASSUME IndInv, StreamInv, NoLateLook, NEW th \in Threads, NextEvent(th)
    PROVE  StreamInv'
<1>1. PICK f, c : f = Inner(th) /\ c = RunPaths(m_paths)
  OBVIOUS
<1>2. /\ Inside(th, "handle") /\ ~Idle(th) /\ ResetModules(Modules)
      /\ except' = [except EXCEPT ![RecursiveTask] = FALSE]
      /\ open' = TRUE /\ runs' = [m \in Modules |-> 0] /\ threw' = {}
      /\ UNCHANGED <<m_index, pushed, outside, fatal, outcome>>
  BY DEF NextEvent, Inside
<1>3. /\ ~open /\ outcome = "none" /\ f \in Frames /\ f \in Having("handle")
      /\ \A x \in Frames : Call(x).op = "serve" \/ x = f
      /\ ready = {} /\ pushed = {} /\ outside = {}
      /\ \A t \in Tasks : refCount[t] = 0
      /\ \A m \in Modules : listed[m] = {}
      /\ \A m \in Modules : ~m_exceptionPtr[m] /\ (m_workStarted[m] => ~m_waiting[m])
      /\ \A m \in Modules : ~except[RunTask(m)]
      /\ \A p \in Paths : ~except[NextTask(p)]
      /\ ~except[AllPathsDone] /\ ~except[RecursiveTask]
  BY <1>1, <1>2, HandleIsQuiet
<1>4. Types /\ Excepted
  BY DEF IndInv, StreamInv
<1>5. m_paths \in Seq(Paths) /\ c \in Calls /\ c.op = "paths" /\ c.rest = m_paths
  BY <1>1, ScheduleAssumption, CallsMade DEF RunPaths
<1>6. /\ AllPathsDone \in Tasks /\ RecursiveTask \in Tasks /\ AllPathsDone # RecursiveTask
      /\ \A p \in Paths : NextTask(p) \in Tasks /\ NextTask(p) \notin {AllPathsDone, RecursiveTask}
  BY TaskTypes, TaskNames
<1>7. \/ Ends(f) /\ ready' = {RecursiveTask} /\ UNCHANGED refCount /\ Paths = {}
      \/ /\ Turns(f, c) /\ ready' = {}
         /\ \A t \in Tasks \ {AllPathsDone, RecursiveTask} : refCount'[t] = 0
  <2>1. CASE m_paths = <<>>
    <3>1. Become(th, <<>>) /\ ready' = ready \cup {RecursiveTask} /\ UNCHANGED refCount
      BY <2>1 DEF NextEvent
    <3>2. Ends(f)
      BY <1>1, <1>2, <1>4, <3>1, CallEnds
    <3>3. Paths = {}
      BY <2>1, ScheduleAssumption DEF Range
    <3> QED
      BY <1>3, <3>1, <3>2, <3>3
  <2>2. CASE m_paths # <<>>
    <3>1. /\ Become(th, <<c>>) /\ UNCHANGED ready
          /\ refCount' = [refCount EXCEPT ![RecursiveTask] = 1, ![AllPathsDone] = 1]
      BY <1>1, <2>2 DEF NextEvent
    <3>2. Turns(f, c)
      BY <1>1, <1>2, <1>4, <1>5, <3>1, CallTurns
    <3> QED
      BY <1>3, <1>4, <1>6, <3>1, <3>2 DEF Types
  <2> QED
    BY <2>1, <2>2
<1>8. \A x \in Frames' : Call(x)'.op = "serve" \/ (x = f /\ Turns(f, c) /\ Call(x)' = c)
  BY <1>3, <1>7 DEF Ends, Turns
<1>9. /\ \A m \in Modules : /\ ~m_workStarted'[m] /\ m_waiting'[m] /\ ~m_exceptionPtr'[m]
                            /\ runs'[m] = 0
      /\ \A g \in Filters : ~m_keep'[g]
      /\ \A n \in Producers : ~m_wasCached'[n]
      /\ UNCHANGED listed
  BY <1>2, <1>4, FiltersAre DEF ResetModules, Types
<1>10. Marks'
  BY <1>9, FiltersAre DEF Marks
<1>11. \A x \in Frames' : Call(x)'.op \in {"serve", "paths"}
  BY <1>5, <1>8
<1>12. Opened'
  <2>1. Having("handle")' = {}
    BY <1>11 DEF Having
  <2> QED
    BY <1>2, <1>3, <2>1 DEF Opened
<1>13. MetAt'
  <2>1. \A n \in Modules : listed'[n] = {}
    BY <1>3, <1>9
  <2> QED
    BY <1>11, <2>1 DEF MetAt, Meets
<1>14. \A p \in Paths : PathPlaces(p)' = {} /\ NextTask(p) \notin ready'
  <2>1. \A p \in Paths : ~(refCount'[NextTask(p)] > 0) /\ NextTask(p) \notin ready'
    BY <1>3, <1>6, <1>7
  <2>2. \A p \in Paths : FiltersOf(p)' = {}
    BY <1>11 DEF FiltersOf, Having
  <2> QED
    BY <2>1, <2>2, SomePlace
<1>15. ASSUME NEW p \in Paths PROVE ToStart(p)'
  <2>1. Turns(f, c)
    BY <1>7
  <2>2. f \in Having("paths")' /\ Call(f)'.rest = m_paths
    BY <1>5, <2>1 DEF Turns, Having
  <2>3. p \in Range(m_paths)
    BY ScheduleAssumption
  <2> QED
    BY <2>2, <2>3 DEF ToStart, Range
<1>16. OnPaths'
  <2>1. ASSUME NEW p \in Paths PROVE OnPath(p)'
    BY <1>14, <1>15 DEF OnPath, NextTask
  <2> QED
    BY <2>1, OnEveryPath
<1>17. \A t \in Tasks \ {RecursiveTask} : except'[t] = except[t]
  BY <1>2, <1>4, <1>6 DEF Types
<1>18. /\ \A m \in Modules : ~except'[RunTask(m)]
       /\ \A m \in HasAcquire : except'[AfterAcquire(m)] = except[AfterAcquire(m)]
       /\ \A p \in Paths : ~except'[NextTask(p)]
       /\ ~except'[AllPathsDone] /\ ~except'[RecursiveTask]
  <2>1. ~except'[RecursiveTask]
    BY <1>2, <1>4, <1>6 DEF Types
  <2> QED
    BY <1>3, <1>6, <1>17, <2>1, TaskTypes, TaskNames
<1>19. Excepted'
  BY <1>2, <1>3, <1>4, <1>11, <1>18
     DEF Excepted, RunTask, NextTask, AfterAcquire, AllPathsDone, RecursiveTask
<1>20. Noticed'
  BY <1>9 DEF Noticed
<1> QED
  BY <1>10, <1>12, <1>13, <1>16, <1>19, <1>20 DEF StreamInv

-----------------------------------------------------------------------------
(* The invariant holds. *)

\* Before the first event nothing is there.
LEMMA InitStreamInv == Init => StreamInv
<1> SUFFICES ASSUME Init PROVE StreamInv
  OBVIOUS
<1>1. Types
  BY InitInv DEF IndInv
<1>2. PICK th \in Threads : stack = [x \in Threads |-> IF x = th THEN <<Handle>> ELSE <<>>]
  BY DEF Init
<1>3. ASSUME NEW x \in Frames PROVE Call(x).op = "handle"
  <2>1. x[1] = th /\ x[2] = 1
    BY <1>2 DEF Frames
  <2> QED
    BY <1>2, <2>1 DEF Call, Handle
<1>4. ~open /\ Closed /\ \A m \in Modules : listed[m] = {}
  BY <1>3 DEF Init, Closed
<1>5. /\ MetAt /\ OnPaths /\ Noticed
      /\ \A x \in Frames : Call(x).op # "fail"
  BY <1>4, NothingThen
<1>6. /\ \A m \in Modules : m_waiting[m] /\ ~m_exceptionPtr[m] /\ ~m_workStarted[m]
      /\ \A g \in Filters : ~m_keep[g]
      /\ \A n \in Producers : ~m_wasCached[n]
      /\ \A t \in Tasks : ~except[t]
      /\ outcome = "none" /\ pushed = {}
  BY DEF Init
<1>7. Marks /\ Opened
  BY <1>4, <1>6 DEF Marks, Opened
<1>8. Excepted
  <2>1. /\ \A m \in Modules : RunTask(m) \in Tasks
        /\ \A m \in HasAcquire : AfterAcquire(m) \in Tasks
        /\ \A p \in Paths : NextTask(p) \in Tasks
        /\ AllPathsDone \in Tasks /\ RecursiveTask \in Tasks
    BY TaskTypes
  <2> QED
    BY <1>5, <1>6, <2>1 DEF Excepted
<1> QED
  BY <1>5, <1>7, <1>8 DEF StreamInv

\* Every step keeps it, those at the end of an event if nobody is late.
LEMMA NextStreamInv ==
    ASSUME IndInv, StreamInv, NoLateLook, [Next]_vars
    PROVE  StreamInv'
<1>1. ASSUME NEW th \in Threads, Proceed(th) PROVE StreamInv'
  <2>1. CASE AddTask(th)
    BY <2>1, AddGoesOn
  <2>2. CASE InsertTask(th)
    BY <2>2, InsertGoesOn
  <2>3. CASE RecheckWaiting(th)
    BY <2>3, RecheckGoesOn
  <2>4. CASE StartWork(th)
    BY <2>4, StartGoesOn
  <2>5. CASE PrefetchNext(th)
    BY <2>5, PrefetchNextGoesOn
  <2>6. CASE PrefetchEnd(th)
    BY <2>6, PrefetchEndGoesOn
  <2>7. CASE QueueServed(th)
    BY <2>7, ServedGoesOn
  <2>8. CASE AcquireHandsOver(th) \/ \E e \in BOOLEAN : AcquireEnds(th, e)
    BY <2>8, AcquireGoesOn
  <2>9. CASE WorkThrows(th) \/ WorkSkipped(th) \/ \E keep \in BOOLEAN : WorkDone(th, keep)
    BY <2>9, OverByAll
  <2>10. CASE TakeListed(th)
    BY <2>10, TakeGoesOn
  <2>11. CASE TellOne(th)
    BY <2>11, TellGoesOn
  <2>12. CASE AskFilter(th)
    BY <2>12, StopGoesOn, AskGoesOn
  <2>13. CASE StartPath(th)
    BY <2>13, EmptyGoesOn, BeginGoesOn
  <2>14. CASE PathsStarted(th)
    BY <2>14, LoopEndGoesOn
  <2>15. CASE NextEvent(th)
    BY <2>15, EventBeginGoesOn
  <2>16. CASE NoMoreEvents(th)
    BY <2>16, StreamEndGoesOn
  <2> QED
    BY <1>1, <2>1, <2>2, <2>3, <2>4, <2>5, <2>6, <2>7, <2>8,
       <2>9, <2>10, <2>11, <2>12, <2>13, <2>14, <2>15, <2>16 DEF Proceed
<1>2. ASSUME NEW th \in Threads, Execute(th) PROVE StreamInv'
  <2>1. CASE \E m \in Modules : RunModule(th, m)
    BY <2>1, RunGoesOn
  <2>2. CASE \E m \in HasAcquire : RunAfterAcquire(th, m)
    BY <2>2, AfterAcquireGoesOn
  <2>3. CASE \E p \in Paths : FilterFinished(th, p)
    BY <2>3, FilterFinishedGoesOn
  <2>4. CASE ServeQueue(th)
    BY <2>4, QueueGoesOn
  <2>5. CASE AllPathsDoneExecute(th)
    BY <2>5, AllDoneGoesOn
  <2>6. CASE EventDone(th)
    BY <2>6, EventDoneGoesOn
  <2> QED
    BY <1>2, <2>1, <2>2, <2>3, <2>4, <2>5, <2>6 DEF Execute, TakeReady
<1>3. ASSUME Finish PROVE StreamInv'
  BY <1>3, OutsideGoesOn DEF Finish
<1>4. ASSUME OtherStreamFails \/ UNCHANGED vars PROVE StreamInv'
  BY <1>4, OthersGoOn
<1> QED
  BY <1>1, <1>2, <1>3, <1>4 DEF Next


-----------------------------------------------------------------------------
(* The abstract steps. *)

\* What EventStream sees of the stream.
EventsBegun == IF m_seenEvents <= NEvents THEN m_seenEvents ELSE NEvents
Asked  == {m \in Modules : m_workStarted[m] \/ runs[m] > 0}
Kept   == {f \in Filters : m_keep[f]}
Broken == {m \in Modules : ~m_waiting[m] /\ m_exceptionPtr[m]}

StreamStep == [Stream!Progress \/ Stream!JobFails]_(Stream!vars)

\* A step after which EventStream sees what it saw before.
LEMMA SameStream ==
    ASSUME EventsBegun' = EventsBegun, Asked' = Asked, Kept' = Kept, Broken' = Broken,
           (outcome' = "failed") <=> (outcome = "failed"), UNCHANGED <<open, runs, fatal>>
    PROVE  StreamStep
  BY DEF StreamStep, Stream!vars, EventsBegun, Asked, Kept, Broken

\* In an event a module is settled when it waits no more, and a path is over
\* as it is in the code.
LEMMA StreamView ==
    ASSUME IndInv, StreamInv, open
    PROVE  /\ \A m \in Modules : Stream!Settled(m) <=> ~m_waiting[m]
           /\ \A m \in Modules : m \in Asked <=> m_workStarted[m]
           /\ \A m \in Modules : /\ ~m_waiting[m] /\ ~m_exceptionPtr[m] => runs[m] > 0
                                 /\ m_waiting[m] => runs[m] = 0
           /\ \A p \in Paths : \A i \in 1 .. Len(PathFilters[p]) + 1 :
                 Before(p, i) => Stream!Reached(p, i)
           /\ \A p \in Paths : PathIsOver(p) => Stream!PathOver(p)
<1>1. Types /\ Looks /\ Marks
  BY DEF IndInv, StreamInv
<1>2. ASSUME NEW m \in Modules
      PROVE  /\ runs[m] > 0 => ~m_waiting[m]
             /\ ~m_waiting[m] /\ ~m_exceptionPtr[m] => runs[m] > 0
             /\ m_waiting[m] => runs[m] = 0
             /\ ~m_waiting[m] => m_workStarted[m]
  BY <1>1 DEF Looks, Marks, Types
<1>3. \A m \in Modules : Stream!Settled(m) <=> ~m_waiting[m]
  BY <1>2 DEF Stream!Settled
<1>4. \A m \in Modules : m \in Asked <=> m_workStarted[m]
  BY <1>2 DEF Asked
<1>5. ASSUME NEW p \in Paths, NEW i \in 1 .. Len(PathFilters[p]) + 1, Before(p, i)
      PROVE  Stream!Reached(p, i)
  <2>1. ASSUME NEW j \in 1 .. i - 1 PROVE PathFilters[p][j] \in Kept
    <3>1. j \in DOMAIN PathFilters[p]
      BY FiltersAre
    <3> QED
      BY <1>5, <3>1, FiltersAre DEF Before, Kept
  <2> QED
    BY <2>1 DEF Stream!Reached, Kept
<1>6. ASSUME NEW p \in Paths, PathIsOver(p) PROVE Stream!PathOver(p)
  <2>1. CASE fatal
    BY <2>1 DEF Stream!PathOver
  <2>2. CASE Before(p, Len(PathFilters[p]) + 1)
    <3>1. Len(PathFilters[p]) + 1 \in 1 .. Len(PathFilters[p]) + 1
      BY FiltersAre
    <3>2. Stream!Reached(p, Len(PathFilters[p]) + 1)
      BY <1>5, <2>2, <3>1
    <3> QED
      BY <3>2 DEF Stream!PathOver
  <2>3. CASE \E i \in DOMAIN PathFilters[p] :
               Before(p, i) /\ ~m_waiting[PathFilters[p][i]] /\ ~m_keep[PathFilters[p][i]]
    <3>1. PICK i \in DOMAIN PathFilters[p] :
             Before(p, i) /\ ~m_waiting[PathFilters[p][i]] /\ ~m_keep[PathFilters[p][i]]
      BY <2>3
    <3>2. i \in 1 .. Len(PathFilters[p]) + 1 /\ PathFilters[p][i] \in Modules
      BY FiltersAre
    <3>3. Stream!Reached(p, i) /\ Stream!Settled(PathFilters[p][i])
      BY <1>3, <1>5, <3>1, <3>2
    <3> QED
      BY <3>1, <3>3 DEF Stream!PathOver, Kept
  <2> QED
    BY <1>6, <2>1, <2>2, <2>3 DEF PathIsOver
<1> QED
  BY <1>2, <1>3, <1>4, <1>5, <1>6


\* doWorkAsync of a module asks for it: somebody who wants it is in its list.
LEMMA StartAsks ==
    ASSUME IndInv, StreamInv, NEW th \in Threads, StartWork(th)
    PROVE  StreamStep
<1> USE DEF stream, history
<1>1. PICK f, m : f = Inner(th) /\ m = Top(th).mod
  OBVIOUS
<1>2. /\ ~Idle(th) /\ Top(th).op = "start"
      /\ UNCHANGED <<m_waiting, m_exceptionPtr, listed, m_wasCached, m_keep,
                     m_index, pushed, outside, fatal, stream, history>>
  BY DEF StartWork, Inside
<1>3. Types /\ open /\ f \in Frames /\ Above(f) \notin Frames /\ Call(f) = Top(th) /\ m \in Modules
  BY <1>1, <1>2, InnerCall, CallTypes, CallParts DEF IndInv
<1>4. CASE m_workStarted[m]
  <2>1. UNCHANGED m_workStarted
    BY <1>1, <1>4 DEF StartWork
  <2> QED
    BY <1>2, <2>1, SameStream DEF EventsBegun, Asked, Kept, Broken
<1>5. CASE ~m_workStarted[m]
  <2>1. m_workStarted' = [m_workStarted EXCEPT ![m] = TRUE]
    BY <1>1, <1>5 DEF StartWork
  <2>2. m \notin Asked
    BY <1>3, <1>5, StreamView
  <2>3. Asked' = Asked \cup {m}
    BY <1>2, <1>3, <2>1 DEF Types, Asked
  <2>4. PICK t \in listed[m] : Wants(t, m)
    <3>1. listed[m] # {}
      BY <1>1, <1>2, <1>3, <1>5 DEF IndInv, Looks, Above
    <3> QED
      BY <1>3, <3>1 DEF StreamInv, MetAt
  <2>5. t \in Waiters /\ refCount[t] > 0
    <3>1. t \in Waiters /\ <<m, 0>> \in Holders(t)
      BY <1>3 DEF Types, Holders
    <3> QED
      BY <1>3, <3>1, HeldIsCounted DEF IndInv
  <2>6. \/ \E p \in Paths : \E i \in DOMAIN PathFilters[p] :
               PathFilters[p][i] = m /\ Stream!Reached(p, i)
        \/ \E a \in Asked : m \in Stream!Range(Gets[a]) /\ ~Stream!Settled(a)
    <3>1. CASE \E a \in Modules : t = RunTask(a) /\ m \in Range(Gets[a])
      <4>1. PICK a \in Modules : t = RunTask(a) /\ m \in Range(Gets[a])
        BY <3>1
      <4>2. Stages(a) # {}
        BY <2>5, <4>1, InPlaces
      <4>3. m_workStarted[a] /\ m_waiting[a]
        BY <4>1, <4>2 DEF IndInv, OneStage
      <4>4. a \in Asked /\ ~Stream!Settled(a)
        BY <1>3, <4>1, <4>3, StreamView
      <4>5. m \in Stream!Range(Gets[a])
        BY <4>1 DEF Stream!Range, Range
      <4> QED
        BY <4>4, <4>5
    <3>2. CASE \E p \in Paths : t = NextTask(p) /\ PathFilters[p] # <<>> /\ m = FilterOf(p)
      <4>1. PICK p \in Paths : t = NextTask(p) /\ PathFilters[p] # <<>> /\ m = FilterOf(p)
        BY <3>2
      <4>2. PICK i : i = m_index[p]
        OBVIOUS
      <4>3. i \in DOMAIN PathFilters[p] /\ PathFilters[p][i] = m
        BY <1>3, <4>1, <4>2, FilterIs DEF FilterOf
      <4>4. i \in 1 .. Len(PathFilters[p]) + 1
        BY <4>3, FiltersAre
      <4>5. PathPlaces(p) # {}
        BY <2>5, <4>1, SomePlace
      <4>6. Before(p, i)
        BY <4>2, <4>5 DEF StreamInv, OnPaths
      <4>7. Stream!Reached(p, i)
        BY <1>3, <4>4, <4>6, StreamView
      <4> QED
        BY <4>3, <4>7
    <3> QED
      BY <2>4, <3>1, <3>2 DEF Wants
  <2>7. Stream!Ask(m)
    BY <1>2, <1>3, <2>2, <2>3, <2>6 DEF Stream!Ask, Asked
  <2>8. m \in Stream!Modules
    BY <1>3 DEF Stream!Modules, Modules
  <2>9. Stream!Progress
    BY <2>7, <2>8 DEF Stream!Progress
  <2> QED
    BY <2>9 DEF StreamStep
<1> QED
  BY <1>4, <1>5

\* The work of a module is done when everything it gets has run.
LEMMA WorkRuns ==
    ASSUME IndInv, StreamInv, NEW th \in Threads, NEW keep \in BOOLEAN, WorkDone(th, keep)
    PROVE  StreamStep
<1> USE DEF stream
<1>1. PICK f, m : f = Inner(th) /\ m = Top(th).mod
  OBVIOUS
<1>2. /\ ~Idle(th) /\ Top(th).op = "work" /\ DoneWaiting(th, m, FALSE)
      /\ m \in Producers => PutData(m)
      /\ m \notin Producers => KeepResult(m, keep)
      /\ runs' = [runs EXCEPT ![m] = @ + 1]
  BY <1>1 DEF WorkDone, Inside
<1>3. /\ m_waiting' = [m_waiting EXCEPT ![m] = FALSE]
      /\ m_exceptionPtr' = [m_exceptionPtr EXCEPT ![m] = FALSE]
      /\ UNCHANGED <<m_workStarted, fatal, m_seenEvents, outcome, open>>
  BY <1>2 DEF DoneWaiting
<1>4. Types /\ Marks /\ open /\ f \in Frames /\ Call(f) = Top(th) /\ m \in Modules
  BY <1>1, <1>2, InnerCall, CallParts DEF IndInv, StreamInv
<1>5. m_workStarted[m] /\ m_waiting[m]
  BY <1>1, <1>2, ModuleAtEnd DEF Started
<1>6. m \in Asked /\ ~Stream!Settled(m) /\ runs[m] = 0
  BY <1>4, <1>5, StreamView
<1>7. ASSUME NEW n \in Stream!Range(Gets[m]) PROVE runs[n] > 0
  <2>1. n \in Range(Gets[m])
    BY DEF Stream!Range, Range
  <2>2. n \in Producers /\ n \in Modules
    BY <1>4, <2>1, GetsTypes, FiltersAre
  <2>3. m_wasCached[n]
    BY <1>1, <1>2, <1>4, <2>1 DEF IndInv, DataThere, HasData
  <2> QED
    BY <1>4, <2>2, <2>3 DEF Marks
<1>8. runs' = [runs EXCEPT ![m] = 1]
  BY <1>2, <1>4, <1>6 DEF Types
<1>9. Asked' = Asked
  BY <1>3, <1>4, <1>5, <1>8 DEF Asked, Types
<1>10. Broken' = Broken
  BY <1>3, <1>4, <1>5 DEF Broken, Types
<1>11. PICK k \in BOOLEAN : Kept' = IF k /\ m \in Filters THEN Kept \cup {m} ELSE Kept
  <2>1. CASE m \in Producers
    <3>1. Kept' = Kept
      BY <1>2, <2>1 DEF PutData, Kept
    <3>2. FALSE \in BOOLEAN
      OBVIOUS
    <3> QED
      BY <3>1, <3>2
  <2>2. CASE m \notin Producers
    <3>1. m \in Filters /\ m_keep' = [m_keep EXCEPT ![m] = keep]
      BY <1>2, <1>4, <2>2 DEF KeepResult, Modules
    <3>2. m \notin Kept
      BY <1>4, <1>5, <3>1 DEF Kept, Marks
    <3>3. Kept' = IF keep /\ m \in Filters THEN Kept \cup {m} ELSE Kept
      BY <1>4, <3>1, <3>2 DEF Kept, Types
    <3> QED
      BY <3>3
  <2> QED
    BY <2>1, <2>2
<1>12. Stream!Run(m, k)
  BY <1>3, <1>4, <1>6, <1>7, <1>8, <1>9, <1>10, <1>11 DEF Stream!Run, Asked, Kept, Broken
<1>13. m \in Stream!Modules
  BY <1>4 DEF Stream!Modules, Modules
<1>14. Stream!Progress
  BY <1>12, <1>13 DEF Stream!Progress
<1> QED
  BY <1>14 DEF StreamStep


\* A module fails that throws, or that gets from one that has failed.
LEMMA WorkBreaks ==
    ASSUME IndInv, StreamInv, NEW th \in Threads, WorkThrows(th) \/ WorkSkipped(th)
    PROVE  StreamStep
<1> USE DEF stream
<1>1. PICK m : m = Top(th).mod
  OBVIOUS
<1>2. /\ ~Idle(th) /\ Top(th).op \in {"work", "fail"} /\ DoneWaiting(th, m, TRUE)
      /\ Top(th).op = "work" => m \in MayThrow
      /\ UNCHANGED <<m_keep, runs>>
  BY <1>1 DEF WorkThrows, WorkSkipped, Inside, history
<1>3. /\ m_waiting' = [m_waiting EXCEPT ![m] = FALSE]
      /\ m_exceptionPtr' = [m_exceptionPtr EXCEPT ![m] = TRUE]
      /\ UNCHANGED <<m_workStarted, fatal, m_seenEvents, outcome, open>>
  BY <1>2 DEF DoneWaiting
<1>4. /\ open /\ Types /\ m \in Modules /\ m_workStarted[m] /\ m_waiting[m]
      /\ \A n \in Range(Gets[m]) : n \in Modules /\ ~m_waiting[n]
      /\ Top(th).op = "fail" => MayFail(m)
  BY <1>1, <1>2, ModuleAtEnd DEF Started
<1>5. m \in Asked /\ ~Stream!Settled(m)
  BY <1>4, StreamView
<1>6. \A n \in Stream!Range(Gets[m]) : Stream!Settled(n)
  <2>1. Stream!Range(Gets[m]) = Range(Gets[m])
    BY DEF Stream!Range, Range
  <2> QED
    BY <1>4, <2>1, StreamView
<1>7. m \in MayThrow \cup AcquireThrows \/ Stream!Range(Gets[m]) \cap Broken # {}
  <2>1. CASE Top(th).op = "work"
    BY <1>2, <2>1
  <2>2. CASE Top(th).op = "fail"
    <3>1. m \in MayThrow \/ \E n \in Range(Gets[m]) : m_exceptionPtr[n]
      BY <1>4, <2>2 DEF MayFail, FailedGet
    <3>2. \A n \in Range(Gets[m]) : m_exceptionPtr[n] => n \in Broken
      BY <1>4 DEF Broken
    <3>3. Stream!Range(Gets[m]) = Range(Gets[m])
      BY DEF Stream!Range, Range
    <3> QED
      BY <3>1, <3>2, <3>3
  <2> QED
    BY <1>2, <2>1, <2>2
<1>8. Broken' = Broken \cup {m}
  BY <1>3, <1>4 DEF Broken, Types
<1>9. Asked' = Asked /\ Kept' = Kept
  BY <1>2, <1>3 DEF Asked, Kept
<1>10. Stream!Break(m)
  BY <1>2, <1>3, <1>4, <1>5, <1>6, <1>7, <1>8, <1>9 DEF Stream!Break, Asked, Kept, Broken
<1>11. m \in Stream!Modules
  BY <1>4 DEF Stream!Modules, Modules
<1>12. Stream!Progress
  BY <1>10, <1>11 DEF Stream!Progress
<1> QED
  BY <1>12 DEF StreamStep

\* The next event.
LEMMA EventIsBegun ==
    ASSUME IndInv, StreamInv, NoLateLook, NEW th \in Threads, NextEvent(th)
    PROVE  StreamStep
<1>1. /\ Inside(th, "handle") /\ m_seenEvents < NEvents /\ m_seenEvents' = m_seenEvents + 1
      /\ ResetModules(Modules)
      /\ open' = TRUE /\ runs' = [m \in Modules |-> 0]
      /\ UNCHANGED <<fatal, outcome>>
  BY DEF NextEvent, HasNextEvent, CountEvent
<1>2. Types /\ ~open /\ outcome = "none"
  BY <1>1, HandleIsQuiet DEF IndInv
<1>3. EventsBegun < NEvents /\ EventsBegun' = EventsBegun + 1
  <2>1. m_seenEvents \in Nat /\ NEvents \in Nat
    BY <1>2, ScheduleAssumption DEF Types
  <2> QED
    BY <1>1, <2>1 DEF EventsBegun
<1>4. Asked' = {} /\ Kept' = {} /\ Broken' = {}
  BY <1>1, <1>2, FiltersAre DEF ResetModules, Asked, Kept, Broken, Types
<1>5. Stream!Modules = Modules
  BY DEF Stream!Modules, Modules
<1>6. Stream!Begin
  BY <1>1, <1>2, <1>3, <1>4, <1>5 DEF Stream!Begin, EventsBegun, Asked, Kept, Broken
<1>7. Stream!Progress
  BY <1>6 DEF Stream!Progress
<1> QED
  BY <1>7 DEF StreamStep

\* That there is none more is nothing that an event sees.
LEMMA StreamRests ==
    ASSUME IndInv, StreamInv, NoLateLook, NEW th \in Threads, NoMoreEvents(th)
    PROVE  StreamStep
<1>1. /\ Inside(th, "handle") /\ ~(m_seenEvents < NEvents) /\ m_seenEvents' = m_seenEvents + 1
      /\ ResetModules(Producers) /\ outcome' = "done"
      /\ UNCHANGED <<fatal, open, runs>>
  BY DEF NoMoreEvents, HasNextEvent, CountEvent, history
<1>2. Types /\ Marks /\ m_seenEvents <= NEvents /\ outcome = "none"
      /\ \A m \in Modules : ~m_exceptionPtr[m] /\ (m_workStarted[m] => ~m_waiting[m])
  BY <1>1, OnlyHandle, HandleIsQuiet DEF IndInv, StreamInv
<1>3. EventsBegun' = EventsBegun
  <2>1. m_seenEvents \in Nat /\ NEvents \in Nat
    BY <1>2, ScheduleAssumption DEF Types
  <2> QED
    BY <1>1, <1>2, <2>1 DEF EventsBegun
<1>4. Asked' = Asked
  <2>1. \A m \in Modules : m_workStarted[m] => runs[m] > 0
    BY <1>2 DEF Marks
  <2>2. \A m \in Modules : m_workStarted'[m] => m_workStarted[m]
    BY <1>1 DEF ResetModules
  <2> QED
    BY <1>1, <2>1, <2>2 DEF Asked
<1>5. Kept' = Kept
  <2>1. \A g \in Filters : m_keep[g] => g \notin Producers
    BY <1>2 DEF Marks
  <2>2. \A g \in Filters : m_keep'[g] <=> m_keep[g] /\ g \notin Producers
    BY <1>1, <1>2 DEF ResetModules, Types
  <2> QED
    BY <2>1, <2>2 DEF Kept
<1>6. Broken' = Broken
  BY <1>1, <1>2 DEF ResetModules, Broken, Types
<1> QED
  BY <1>1, <1>2, <1>3, <1>4, <1>5, <1>6, SameStream

\* The event is over when all paths are, and it is failed when a module is.
LEMMA EventIsOver ==
    ASSUME IndInv, StreamInv, NoLateLook, NEW th \in Threads, EventDone(th)
    PROVE  StreamStep
<1>1. /\ RecursiveTask \in ready /\ open' = FALSE
      /\ \/ except[RecursiveTask] /\ outcome' = "failed"
         \/ ~except[RecursiveTask] /\ UNCHANGED outcome
      /\ UNCHANGED <<wrappers, fatal, m_seenEvents, runs>>
  BY DEF EventDone, Take, history
<1>2. /\ open /\ outcome = "none"
      /\ ready = {RecursiveTask}
      /\ \A t \in Tasks : refCount[t] = 0
      /\ \A x \in Frames : Call(x).op = "serve"
      /\ Started = {}
      /\ ~except[RecursiveTask] => \A m \in Modules : ~m_exceptionPtr[m]
  BY <1>1, NoneFailed
<1>3. Types /\ Marks /\ OnPaths /\ Excepted
  BY DEF IndInv, StreamInv
<1>4. except[RecursiveTask] => Broken # {} /\ fatal
  BY <1>3 DEF Excepted, Marks, Broken
<1>5. Broken # {} => except[RecursiveTask]
  BY <1>2 DEF Broken
<1>6. \A m \in Asked : Stream!Settled(m)
  <2>1. \A m \in Asked : m \in Modules /\ m_workStarted[m]
    BY <1>2, StreamView DEF Asked
  <2>2. \A m \in Asked : ~m_waiting[m]
    BY <1>2, <2>1 DEF Started
  <2> QED
    BY <1>2, <2>1, <2>2, StreamView
<1>7. ASSUME NEW p \in Paths PROVE Stream!PathOver(p)
  <2>1. FiltersOf(p) = {} /\ ~ToStart(p)
    BY <1>2 DEF FiltersOf, Having, ToStart
  <2>2. ~(refCount[NextTask(p)] > 0) /\ NextTask(p) \notin ready
    BY <1>2, OtherThan
  <2>3. PathPlaces(p) = {}
    BY <2>1, <2>2, SomePlace
  <2>4. PathIsOver(p)
    BY <1>2, <1>3, <2>1, <2>3 DEF OnPaths
  <2> QED
    BY <1>2, <2>4, StreamView
<1>8. EventsBegun' = EventsBegun /\ Asked' = Asked /\ Kept' = Kept /\ Broken' = Broken
  BY <1>1 DEF wrappers, EventsBegun, Asked, Kept, Broken
<1>9. (outcome' = "failed") = (Broken # {})
  BY <1>1, <1>2, <1>4, <1>5
<1>10. Stream!End
  BY <1>1, <1>2, <1>4, <1>5, <1>6, <1>7, <1>8, <1>9
     DEF Stream!End, EventsBegun, Asked, Kept, Broken
<1>11. Stream!Progress
  BY <1>10 DEF Stream!Progress
<1> QED
  BY <1>11 DEF StreamStep

\* The job fails with an event, or with another stream.
LEMMA JobIsFailed ==
    ASSUME IndInv, OtherStreamFails \/ \E th \in Threads : AllPathsDoneExecute(th)
    PROVE  StreamStep
<1>1. /\ fatal' = fatal \/ fatal' = TRUE
      /\ UNCHANGED <<wrappers, stream, runs>>
  <2>1. CASE OtherStreamFails
    BY <2>1 DEF OtherStreamFails, history
  <2>2. CASE \E th \in Threads : AllPathsDoneExecute(th)
    <3>1. /\ fatal' = (fatal \/ except[AllPathsDone])
          /\ UNCHANGED <<wrappers, stream, runs>>
      BY <2>2 DEF AllPathsDoneExecute, history
    <3>2. fatal \in BOOLEAN /\ except[AllPathsDone] \in BOOLEAN
      BY TaskTypes DEF IndInv, Types
    <3> QED
      BY <3>1, <3>2
  <2> QED
    BY <2>1, <2>2
<1>2. EventsBegun' = EventsBegun /\ Asked' = Asked /\ Kept' = Kept /\ Broken' = Broken
  BY <1>1 DEF wrappers, stream, EventsBegun, Asked, Kept, Broken
<1>3. UNCHANGED <<open, runs, outcome>>
  BY <1>1 DEF stream
<1>4. CASE fatal' = fatal
  BY <1>2, <1>3, <1>4, SameStream
<1>5. CASE fatal' = TRUE
  <2>1. Stream!JobFails
    BY <1>2, <1>3, <1>5 DEF Stream!JobFails, EventsBegun, Asked, Kept, Broken
  <2> QED
    BY <2>1 DEF StreamStep
<1> QED
  BY <1>1, <1>4, <1>5

\* All other steps change nothing of what an event sees.
LEMMA OthersStutter ==
    ASSUME UNCHANGED <<m_workStarted, m_waiting, m_exceptionPtr, m_keep, fatal, stream, runs>>
    PROVE  StreamStep
<1>1. EventsBegun' = EventsBegun /\ Asked' = Asked /\ Kept' = Kept /\ Broken' = Broken
  BY DEF stream, EventsBegun, Asked, Kept, Broken
<1> QED
  BY <1>1, SameStream DEF stream

\* Every step of the Schedule is one of EventStream or changes nothing it sees.
LEMMA NextStreamStep ==
    ASSUME IndInv, StreamInv, NoLateLook, [Next]_vars
    PROVE  StreamStep
<1> USE DEF wrappers, history
<1>1. ASSUME NEW th \in Threads, Proceed(th) PROVE StreamStep
  <2>1. CASE AddTask(th) \/ InsertTask(th) \/ RecheckWaiting(th)
    BY <2>1, OthersStutter DEF AddTask, InsertTask, RecheckWaiting
  <2>2. CASE StartWork(th)
    BY <2>2, StartAsks
  <2>3. CASE PrefetchNext(th) \/ PrefetchEnd(th) \/ QueueServed(th)
    BY <2>3, OthersStutter DEF PrefetchNext, PrefetchEnd, QueueServed
  <2>4. CASE AcquireHandsOver(th) \/ \E e \in BOOLEAN : AcquireEnds(th, e)
    BY <2>4, OthersStutter DEF AcquireHandsOver, AcquireEnds
  <2>5. CASE \E keep \in BOOLEAN : WorkDone(th, keep)
    BY <2>5, WorkRuns
  <2>6. CASE WorkThrows(th) \/ WorkSkipped(th)
    BY <2>6, WorkBreaks
  <2>7. CASE TakeListed(th) \/ TellOne(th)
    BY <2>7, OthersStutter DEF TakeListed, TellOne
  <2>8. CASE AskFilter(th) \/ StartPath(th) \/ PathsStarted(th)
    BY <2>8, OthersStutter DEF AskFilter, StartPath, PathsStarted
  <2>9. CASE NextEvent(th)
    BY <2>9, EventIsBegun
  <2>10. CASE NoMoreEvents(th)
    BY <2>10, StreamRests
  <2> QED
    BY <1>1, <2>1, <2>2, <2>3, <2>4, <2>5, <2>6, <2>7, <2>8, <2>9, <2>10 DEF Proceed
<1>2. ASSUME NEW th \in Threads, Execute(th) PROVE StreamStep
  <2>1. CASE \E m \in Modules : RunModule(th, m)
    BY <2>1, OthersStutter DEF RunModule
  <2>2. CASE \E m \in HasAcquire : RunAfterAcquire(th, m)
    BY <2>2, OthersStutter DEF RunAfterAcquire
  <2>3. CASE (\E p \in Paths : FilterFinished(th, p)) \/ ServeQueue(th)
    BY <2>3, OthersStutter DEF FilterFinished, ServeQueue
  <2>4. CASE AllPathsDoneExecute(th)
    BY <2>4, JobIsFailed
  <2>5. CASE EventDone(th)
    BY <2>5, EventIsOver
  <2> QED
    BY <1>2, <2>1, <2>2, <2>3, <2>4, <2>5 DEF Execute, TakeReady
<1>3. ASSUME Finish PROVE StreamStep
  BY <1>3, OthersStutter DEF Finish, OutsideDone
<1>4. ASSUME OtherStreamFails PROVE StreamStep
  BY <1>4, JobIsFailed
<1>5. ASSUME UNCHANGED vars PROVE StreamStep
  BY <1>5, OthersStutter DEF vars
<1> QED
  BY <1>1, <1>2, <1>3, <1>4, <1>5 DEF Next

\* The stream begins as EventStream does.
LEMMA InitStream == Init => Stream!Init
<1> SUFFICES ASSUME Init PROVE Stream!Init
  OBVIOUS
<1>1. NEvents \in Nat /\ Filters \subseteq Modules
  BY ScheduleAssumption, FiltersAre
<1>2. EventsBegun = 0 /\ Asked = {} /\ Kept = {} /\ Broken = {}
  BY <1>1 DEF Init, EventsBegun, Asked, Kept, Broken
<1>3. Stream!Modules = Modules
  BY DEF Stream!Modules, Modules
<1>4. ~open /\ ~fatal /\ outcome = "none" /\ runs = [m \in Modules |-> 0]
  BY DEF Init
<1> QED
  BY <1>2, <1>3, <1>4 DEF Init, Stream!Init, EventsBegun, Asked, Kept, Broken

-----------------------------------------------------------------------------
(* Theorems. *)

\* While no thread is late, the Schedule with its paths, wrappers and tasks
\* implements EventStream: in every event modules run once and when they are
\* asked for, after what they get from, and the event is over when every path
\* is, with nothing left, and failed exactly if a module was.
THEOREM ScheduleImplementsStream == Spec /\ []NoLateLook => StreamSpec
<1>1. IndInv /\ StreamInv /\ NoLateLook /\ [Next]_vars => IndInv' /\ StreamInv'
  BY NextInv, NextStreamInv
<1>2. IndInv /\ StreamInv /\ NoLateLook /\ [Next]_vars => [Stream!Progress \/ Stream!JobFails]_(Stream!vars)
  BY NextStreamStep DEF StreamStep
<1>3. Init => IndInv /\ StreamInv /\ Stream!Init
  BY InitInv, InitStreamInv, InitStream
<1> QED
  BY <1>1, <1>2, <1>3, PTL DEF Spec, StreamSpec, Stream!Spec

\* With one thread there is nobody who could be late.
THEOREM OneThreadImplementsStream ==
    ASSUME NEW CONSTANT th, Threads = {th}
    PROVE  Spec => StreamSpec
<1>1. Init => IndInv /\ HandleAlone /\ StreamInv /\ Stream!Init
  <2> SUFFICES ASSUME Init
               PROVE  HandleAlone
    BY InitInv, InitStreamInv, InitStream
  <2>1. Untouched
    BY FirstInvInit DEF FirstInv, Init
  <2> QED
    BY <2>1 DEF Untouched, HandleAlone
<1>2. IndInv /\ HandleAlone /\ StreamInv /\ [Next]_vars =>
        /\ IndInv' /\ HandleAlone' /\ StreamInv'
        /\ [Stream!Progress \/ Stream!JobFails]_(Stream!vars)
  <2> SUFFICES ASSUME IndInv, HandleAlone, StreamInv, [Next]_vars
               PROVE  IndInv' /\ HandleAlone' /\ StreamInv' /\ StreamStep
    BY DEF StreamStep
  <2>1. NoLateLook
    BY OneIsNotLate
  <2> QED
    BY <2>1, NextInv, BothAlone, NextStreamInv, NextStreamStep
<1> QED
  BY <1>1, <1>2, PTL DEF Spec, StreamSpec, Stream!Spec

=============================================================================
