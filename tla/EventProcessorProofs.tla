------------------------ MODULE EventProcessorProofs ------------------------
(***************************************************************************)
(* Theorems about the event loop for any number of streams, of events and  *)
(* of threads, and for any configuration.  IndInv is inductive: Counted,   *)
(* the reference count of lastTask, is what the others rest on.  The       *)
(* second part is about what main builds from any configuration, and about *)
(* the copies of it that processAll makes for the other streams: who       *)
(* shares a run queue, and that no Schedule reaches into another one.  The *)
(* parts of Built are inductive relative to IndInv, which says when        *)
(* m_schedules has how many elements.                                      *)
(***************************************************************************)
EXTENDS EventProcessor, SequenceTheorems, FiniteSetTheorems, WellFoundedInduction, TLAPS

Places == {"none", "work", "queued", "serve", "served", "next", "broken", "ended"}

SetupPhases == {"filters", "producers", "paths", "finish"}
LoopPhases  == {"loop", "clone", "start", "drop", "dangling"}
EndPhases   == {"returned", "threw", "missing_wait"}

\* Streams that hold lastTask, and streams that have let it go.
Active == {s \in Streams : place[s] \notin {"none", "ended"}}
Over   == {s \in Streams : place[s] = "ended"}

\* The holders h of the main thread: one, from where it is made to the end of
\* the turn.
Mine == IF phase \in {"clone", "start", "drop"} THEN 1 ELSE 0

-----------------------------------------------------------------------------
(* The inductive invariant, in parts. *)

\* The types of the variables, and the bounds that need no argument.
Types ==
    /\ pConfig \in Configurations
    /\ phase \in SetupPhases \cup {"reserve"} \cup LoopPhases \cup {"wait", "exit"} \cup EndPhases
    /\ m_schedules \in Seq(Range(m_schedules))
    /\ capacity \in Nat /\ buffer \in 0 .. 1
    /\ nEvents \in 0 .. iNumConcurrentEvents
    /\ m_seenEvents \in Nat
    /\ place \in [Streams -> Places]
    /\ pushed \in Seq(Streams)
    /\ serving \in Streams \cup {None}
    /\ m_fatalJobErrorOccured \in BOOLEAN
    /\ holders \in Nat
    /\ failed \in BOOLEAN
    /\ lastTask \in [at : {"held", "spawned", "done", "gone"}, group : Streams \cup {None}]
    /\ handled \in [Events -> Nat]

\* Which streams the main thread has started, at each point of its loop.
Reached(s) ==
    \/ phase \in {"wait"} \cup EndPhases
    \/ phase \in LoopPhases /\ s \in 1 .. nEvents - 1
    \/ phase = "drop" /\ s = Current

StartedInOrder ==
    /\ \A s \in Streams : place[s] # "none" <=> Reached(s)
    /\ phase \in LoopPhases => nEvents \in 1 .. iNumConcurrentEvents
    /\ phase = "clone" => nEvents < iNumConcurrentEvents

\* Before the loop nothing has happened that the loop works with.
Untouched ==
    phase \in SetupPhases \cup {"reserve"} =>
        /\ capacity = 1 /\ buffer = 0 /\ Len(m_schedules) = 1
        /\ nEvents = 0

\* There is a Schedule for each stream that has been started, and room for all.
RoomForAll ==
    /\ Len(m_schedules) >= 1
    /\ phase \notin SetupPhases \cup {"reserve", "exit"} => capacity = iNumConcurrentEvents
    /\ phase \in {"loop", "clone", "dangling"} => Len(m_schedules) = nEvents
    /\ phase \in {"start", "drop"} =>
          Len(m_schedules) = IF nEvents < iNumConcurrentEvents THEN nEvents + 1 ELSE nEvents
    /\ Len(m_schedules) <= capacity

\* The reference count of lastTask is that of the holders there are: one for
\* each stream that goes on, one in the turn of the loop.  At zero it is spawned.
Counted ==
    /\ holders = Cardinality(Active) + Mine
    /\ lastTask.at # "held" => holders = 0
    /\ phase \in {"dangling"} \cup EndPhases => lastTask.at # "held"

\* Whoever is in a queue or has his call run is where it says.
Agrees(queue, where, who) ==
    /\ \A s \in Streams : where[s] = "queued" <=> \E i \in 1 .. Len(queue) : queue[i] = s
    /\ \A i, j \in 1 .. Len(queue) : queue[i] = queue[j] => i = j
    /\ \A s \in Streams : where[s] = "serve" <=> who = s

\* A stream is in the run queue, or its call is run, as its place says.
QueueAgrees ==
    /\ Agrees(pushed, place, serving)
    /\ ~ShareQueue => \A s \in Streams : place[s] # "queued"

\* The source gives out its events in order, each of them once; it is asked once
\* too often by each stream that ends.
GivenOut ==
    /\ \A i \in Events : handled[i] = IF i < m_seenEvents THEN 1 ELSE 0
    /\ m_seenEvents <= pConfig.iterations + Cardinality(Over)
    /\ \A s \in Streams : place[s] = "ended" => failed \/ m_seenEvents >= pConfig.iterations

\* An exception is on its way to lastTask, or has come there.
FailureKept ==
    /\ m_fatalJobErrorOccured <=> (failed \/ \E s \in Streams : place[s] = "broken")
    /\ phase = "threw" => failed
    /\ phase \in {"returned", "missing_wait"} => ~failed

\* If no stream can be in a queue, a group that has been waited for stays empty.
WaitedStayEmpty ==
    ~ShareQueue =>
        /\ phase = "wait" => \A s \in Streams : s < nEvents => ~Busy(s)
        /\ phase # "missing_wait"

IndInv == /\ Types /\ StartedInOrder /\ Untouched /\ RoomForAll /\ Counted
          /\ QueueAgrees /\ GivenOut /\ FailureKept /\ WaitedStayEmpty

-----------------------------------------------------------------------------
(* Facts that the steps below share. *)

\* There is at least one stream, and the numbers of a configuration are numbers.
LEMMA Sizes ==
    ASSUME Types
    PROVE  /\ iNumConcurrentEvents \in Nat \ {0}
           /\ pConfig.iterations \in Nat
           /\ 0 \in Streams
           /\ None \notin Streams
           /\ IsFiniteSet(Streams)
           /\ Cardinality(Streams) = iNumConcurrentEvents
<1>1. iNumConcurrentEvents \in Nat \ {0} /\ pConfig.iterations \in Nat
  BY EventProcessorAssumption DEF Types, iNumConcurrentEvents
<1>2. IsFiniteSet(Streams) /\ Cardinality(Streams) = iNumConcurrentEvents
  BY <1>1, FS_Interval DEF Streams
<1> QED
  BY <1>1, <1>2 DEF Streams, None

\* A step of the setup: the first Schedule is filled, and of the event loop
\* nothing is touched.
LEMMA SetupSteps ==
    ASSUME SetupStep
    PROVE  /\ phase \in SetupPhases
           /\ phase' \in SetupPhases \cup {"reserve", "exit"}
           /\ m_schedules' = m_schedules \/ \E x : m_schedules' = <<x>>
           /\ UNCHANGED <<pConfig, capacity, buffer, nEvents, streams, ending>>
<1> USE DEF SetupPhases
<1>1. UNCHANGED <<capacity, buffer, nEvents, streams, ending>> /\ Setup
  BY DEF SetupStep
<1>2. CASE AddFilter
  BY <1>1, <1>2 DEF AddFilter, GiveUp, Becomes, KeepFilter
<1>3. CASE AddProducer
  BY <1>1, <1>3 DEF AddProducer, GiveUp, Becomes, KeepProducer
<1>4. CASE AddPath
  BY <1>1, <1>4 DEF AddPath, GiveUp, Becomes, KeepPath
<1>5. CASE NextList
  BY <1>1, <1>5 DEF NextList, Becomes
<1>6. CASE finishSetup
  BY <1>1, <1>6 DEF finishSetup
<1> QED
  BY <1>1, <1>2, <1>3, <1>4, <1>5, <1>6 DEF Setup

\* The configuration stays, and after the setup the modules do too.
LEMMA Fixed ==
    ASSUME [Next]_vars
    PROVE  /\ pConfig' = pConfig
           /\ Streams' = Streams /\ Events' = Events
           /\ iNumConcurrentEvents' = iNumConcurrentEvents
           /\ phase \notin SetupPhases => (ShareQueue' <=> ShareQueue)
<1>1. CASE SetupStep
  BY <1>1, SetupSteps DEF Streams, Events, iNumConcurrentEvents
<1>2. CASE UNCHANGED constructed
  BY <1>2 DEF constructed, setup, Streams, Events, iNumConcurrentEvents, ShareQueue
<1>3. SetupStep \/ UNCHANGED constructed
  BY DEF Next, MainThread, StreamStep, vars, Reserve, MakeHolder, CloneSchedule, StartStream,
         EndTurn, WaitReturns, Leave, NextEvent, StreamFails, Push, Served, PickLate, EventEnds,
         LastTask, LastTaskGone
<1> QED
  BY <1>1, <1>2, <1>3

\* How many streams are active and how many are over, when one of them moves.
LEMMA Moves ==
    ASSUME Types, Streams' = Streams, NEW s \in Streams,
           \A x \in Streams \ {s} : place'[x] = place[x]
    PROVE  /\ Cardinality(Active') = Cardinality(Active)
                 + (IF place'[s] \notin {"none", "ended"} THEN 1 ELSE 0)
                 - (IF place[s] \notin {"none", "ended"} THEN 1 ELSE 0)
           /\ Cardinality(Over') = Cardinality(Over)
                 + (IF place'[s] = "ended" THEN 1 ELSE 0) - (IF place[s] = "ended" THEN 1 ELSE 0)
<1>1. IsFiniteSet(Active) /\ IsFiniteSet(Over)
  BY Sizes, FS_Subset DEF Active, Over
<1>2. Cardinality(Active) \in Nat /\ Cardinality(Over) \in Nat
  BY <1>1, FS_CardinalityType
<1>3. Active' = IF place'[s] \notin {"none", "ended"} THEN Active \cup {s} ELSE Active \ {s}
  BY DEF Active
<1>4. Over' = IF place'[s] = "ended" THEN Over \cup {s} ELSE Over \ {s}
  BY DEF Over
<1>5. s \in Active <=> place[s] \notin {"none", "ended"}
  BY DEF Active
<1>6. s \in Over <=> place[s] = "ended"
  BY DEF Over
<1>7. /\ Cardinality(Active \cup {s}) = IF s \in Active THEN Cardinality(Active) ELSE Cardinality(Active) + 1
      /\ Cardinality(Active \ {s}) = IF s \in Active THEN Cardinality(Active) - 1 ELSE Cardinality(Active)
  BY <1>1, FS_AddElement, FS_RemoveElement
<1>8. /\ Cardinality(Over \cup {s}) = IF s \in Over THEN Cardinality(Over) ELSE Cardinality(Over) + 1
      /\ Cardinality(Over \ {s}) = IF s \in Over THEN Cardinality(Over) - 1 ELSE Cardinality(Over)
  BY <1>1, FS_AddElement, FS_RemoveElement
<1>9. Cardinality(Active') = Cardinality(Active)
         + (IF place'[s] \notin {"none", "ended"} THEN 1 ELSE 0)
         - (IF place[s] \notin {"none", "ended"} THEN 1 ELSE 0)
  BY <1>2, <1>3, <1>5, <1>7
<1>10. Cardinality(Over') = Cardinality(Over)
         + (IF place'[s] = "ended" THEN 1 ELSE 0) - (IF place[s] = "ended" THEN 1 ELSE 0)
  BY <1>2, <1>4, <1>6, <1>8
<1> QED
  BY <1>9, <1>10

\* As many streams as there are can be active, or over.  None is active if the
\* number is zero.
LEMMA Counts ==
    ASSUME Types
    PROVE  /\ Cardinality(Active) \in 0 .. iNumConcurrentEvents
           /\ Cardinality(Over) \in 0 .. iNumConcurrentEvents
           /\ Cardinality(Active) = 0 <=> Active = {}
<1>1. /\ IsFiniteSet(Active) /\ Cardinality(Active) <= iNumConcurrentEvents
      /\ IsFiniteSet(Over) /\ Cardinality(Over) <= iNumConcurrentEvents
  BY Sizes, FS_Subset DEF Active, Over
<1>2. Cardinality(Active) \in Nat /\ Cardinality(Over) \in Nat
  BY <1>1, FS_CardinalityType
<1> QED
  BY <1>1, <1>2, FS_EmptySet, Sizes

\* A sequence with one more element is one of what it has.
LEMMA AppendOwnRange ==
    ASSUME NEW s, s \in Seq(Range(s)), NEW e
    PROVE  /\ Append(s, e) \in Seq(Range(Append(s, e)))
           /\ Len(Append(s, e)) = Len(s) + 1
<1> DEFINE S == Range(s) \cup {e}
           t == Append(s, e)
<1>1. s \in Seq(S)
  BY SeqMonotonic
<1>2. t \in Seq(S) /\ Len(t) = Len(s) + 1
  BY <1>1, AppendProperties
<1> QED
  BY <1>2, SeqOfRange

\* The last holder is not gone while a stream is active.
LEMMA StreamHolds ==
    ASSUME Types, Counted, NEW s \in Streams, place[s] \notin {"none", "ended"}
    PROVE  holders \in Nat \ {0} /\ lastTask.at = "held"
<1>1. Cardinality(Active) \in Nat \ {0}
  BY Counts DEF Active
<1> QED
  BY <1>1 DEF Counted, Mine

\* Nor is it while the main thread has one.
LEMMA MainHolds ==
    ASSUME Types, Counted, phase \in {"clone", "start", "drop"}
    PROVE  holders \in Nat \ {0} /\ lastTask.at = "held"
<1>1. Cardinality(Active) \in Nat
  BY Counts
<1> QED
  BY <1>1 DEF Counted, Mine

-----------------------------------------------------------------------------
(* IndInv holds initially. *)

\* The initial states satisfy the inductive invariant.
LEMMA InitInv == EPInit => IndInv
<1> SUFFICES ASSUME EPInit PROVE IndInv
  OBVIOUS
<1>1. /\ pConfig \in Configurations /\ phase = "filters"
      /\ m_schedules = <<EmptySchedule>>
  BY DEF EPInit, Init
<1>2. /\ capacity = 1 /\ buffer = 0 /\ nEvents = 0 /\ m_seenEvents = 0
      /\ place = [s \in Streams |-> "none"] /\ pushed = <<>> /\ serving = None
      /\ m_fatalJobErrorOccured = FALSE /\ holders = 0 /\ failed = FALSE
      /\ lastTask = NotSpawned /\ handled = [i \in Events |-> 0]
  BY DEF EPInit
<1>3. m_schedules \in Seq(Range(m_schedules)) /\ Len(m_schedules) = 1
  BY <1>1 DEF Range
<1>4. iNumConcurrentEvents \in Nat \ {0} /\ pConfig.iterations \in Nat
  BY <1>1, EventProcessorAssumption DEF iNumConcurrentEvents
<1>5. Types
  <2>1. m_schedules \in Seq(Range(m_schedules))
    BY <1>3
  <2>2. place \in [Streams -> Places] /\ handled \in [Events -> Nat]
    BY <1>2 DEF Places
  <2>3. /\ lastTask \in [at : {"held", "spawned", "done", "gone"}, group : Streams \cup {None}]
        /\ serving \in Streams \cup {None}
    BY <1>2 DEF NotSpawned
  <2>4. pushed \in Seq(Streams)
    BY <1>2, EmptySeq
  <2>5. m_fatalJobErrorOccured \in BOOLEAN /\ failed \in BOOLEAN
    BY <1>2, Zenon
  <2>6. /\ capacity \in Nat /\ buffer \in 0 .. 1 /\ m_seenEvents \in Nat /\ holders \in Nat
        /\ nEvents \in 0 .. iNumConcurrentEvents
    BY <1>2, <1>4
  <2> QED
    BY <1>1, <2>1, <2>2, <2>3, <2>4, <2>5, <2>6 DEF Types, SetupPhases
<1>6. \A s \in Streams : place[s] = "none"
  BY <1>2
<1>7. Active = {} /\ Over = {}
  BY <1>6 DEF Active, Over
<1>8. StartedInOrder /\ Untouched /\ RoomForAll
  BY <1>1, <1>2, <1>3, <1>6
     DEF StartedInOrder, Reached, Untouched, RoomForAll, LoopPhases, EndPhases, SetupPhases
<1>9. Counted
  BY <1>1, <1>2, <1>7, FS_EmptySet DEF Counted, Mine, NotSpawned, EndPhases
<1>10. QueueAgrees
  BY <1>2, <1>5, <1>6, Sizes DEF QueueAgrees
<1>11. GivenOut
  BY <1>2, <1>4, <1>6, <1>7, FS_EmptySet DEF GivenOut, Events
<1>12. FailureKept /\ WaitedStayEmpty
  BY <1>1, <1>2, <1>6 DEF FailureKept, WaitedStayEmpty
<1> QED
  BY <1>5, <1>8, <1>9, <1>10, <1>11, <1>12 DEF IndInv

-----------------------------------------------------------------------------
(* Every step preserves it. *)

\* What a step of a stream takes from the source, and what it does then.
LEMMA CountedEvent ==
    ASSUME Types, NEW s \in Streams, CountEvent(s)
    PROVE  /\ m_seenEvents' = m_seenEvents + 1
           /\ HasNextEvent <=> m_seenEvents < pConfig.iterations
           /\ place' = [place EXCEPT ![s] = IF HasNextEvent THEN "work" ELSE "ended"]
           /\ handled' \in [Events -> Nat]
           /\ \A i \in Events : handled'[i] =
                 IF i = m_seenEvents THEN handled[i] + 1 ELSE handled[i]
<1>1. m_seenEvents \in Nat /\ pConfig.iterations \in Nat /\ handled \in [Events -> Nat]
  BY Sizes DEF Types
<1>2. HasNextEvent <=> m_seenEvents < pConfig.iterations
  BY <1>1 DEF HasNextEvent
<1>3. HasNextEvent => m_seenEvents \in Events
  BY <1>1, <1>2 DEF Events
<1>4. \A i \in Events : ~HasNextEvent => i # m_seenEvents
  BY <1>1, <1>2 DEF Events
<1> QED
  BY <1>1, <1>2, <1>3, <1>4 DEF CountEvent

\* A call joins the run queue, the first one is picked, or one ends.
QueueStep == PickLate \/ \E s \in Streams : Push(s) \/ Served(s)

\* The first stream in the run queue is there by its place.
LEMMA QueueHead ==
    ASSUME NEW queue \in Seq(Streams), NEW where, NEW who,
           Agrees(queue, where, who), queue # <<>>
    PROVE  /\ Len(queue) \in Nat \ {0} /\ Head(queue) = queue[1]
           /\ Head(queue) \in Streams /\ where[Head(queue)] = "queued"
           /\ Tail(queue) \in Seq(Streams) /\ Len(Tail(queue)) = Len(queue) - 1
           /\ \A i \in 1 .. Len(Tail(queue)) : Tail(queue)[i] = queue[i + 1]
<1>1. Len(queue) \in Nat \ {0} /\ Head(queue) = queue[1] /\ queue[1] \in Streams
  BY EmptySeq, ElementOfSeq
<1>2. where[Head(queue)] = "queued"
  BY <1>1 DEF Agrees
<1> QED
  BY <1>1, <1>2, HeadTailProperties

\* Who joins the queue is the last in it.
LEMMA Joins ==
    ASSUME NEW queue \in Seq(Streams), NEW where \in [Streams -> Places], NEW who,
           Agrees(queue, where, who), NEW s \in Streams, where[s] = "work"
    PROVE  Agrees(Append(queue, s), [where EXCEPT ![s] = "queued"], who)
<1> DEFINE more == Append(queue, s)
           then == [where EXCEPT ![s] = "queued"]
<1> USE DEF Agrees
<1>1. /\ Len(queue) \in Nat /\ Len(more) = Len(queue) + 1 /\ more[Len(queue) + 1] = s
      /\ \A i \in 1 .. Len(queue) : more[i] = queue[i]
  BY LenProperties, AppendProperties
<1>2. \A x \in Streams : then[x] = IF x = s THEN "queued" ELSE where[x]
  OBVIOUS
<1>3. \A i \in 1 .. Len(queue) : queue[i] \in Streams /\ queue[i] # s
  BY ElementOfSeq
<1> HIDE DEF more, then
<1>4. \A x \in Streams : then[x] = "queued" <=> \E i \in 1 .. Len(more) : more[i] = x
  <2> SUFFICES ASSUME NEW x \in Streams
               PROVE  then[x] = "queued" <=> \E i \in 1 .. Len(more) : more[i] = x
    OBVIOUS
  <2>1. CASE x = s
    BY <1>1, <1>2, <2>1
  <2>2. CASE x # s
    <3>1. (\E i \in 1 .. Len(more) : more[i] = x) <=> \E i \in 1 .. Len(queue) : queue[i] = x
      BY <1>1, <2>2
    <3> QED
      BY <1>2, <2>2, <3>1
  <2> QED
    BY <2>1, <2>2
<1>5. \A i, j \in 1 .. Len(more) : more[i] = more[j] => i = j
  BY <1>1, <1>3
<1>6. \A x \in Streams : then[x] = "serve" <=> who = x
  BY <1>2
<1>7. Agrees(more, then, who)
  BY <1>4, <1>5, <1>6
<1> QED
  BY <1>7 DEF more, then

\* The first one leaves the queue, and its call is run.
LEMMA Picks ==
    ASSUME NEW queue \in Seq(Streams), NEW where \in [Streams -> Places], None \notin Streams,
           Agrees(queue, where, None), queue # <<>>, pickNextTask(queue, where)
    PROVE  /\ Agrees(pushed', place', serving')
           /\ pushed' \in Seq(Streams) /\ place' \in [Streams -> Places] /\ serving' \in Streams
           /\ \A x \in Streams : place'[x] = where[x]
                                \/ (where[x] = "queued" /\ place'[x] = "serve")
<1> DEFINE h == Head(queue)
           rest1 == Tail(queue)
<1>1. /\ Len(queue) \in Nat \ {0} /\ h = queue[1]
      /\ h \in Streams /\ where[h] = "queued"
      /\ rest1 \in Seq(Streams) /\ Len(rest1) = Len(queue) - 1
      /\ \A i \in 1 .. Len(rest1) : rest1[i] = queue[i + 1]
  BY QueueHead
<1>2. /\ pushed' = rest1 /\ serving' = h /\ place' \in [Streams -> Places]
      /\ \A x \in Streams : place'[x] = IF x = h THEN "serve" ELSE where[x]
  BY <1>1 DEF pickNextTask, Places
<1> HIDE DEF h, rest1
<1> USE DEF Agrees
<1>3. \A x \in Streams : place'[x] = "queued" <=> \E i \in 1 .. Len(rest1) : rest1[i] = x
  <2> SUFFICES ASSUME NEW x \in Streams
               PROVE  place'[x] = "queued" <=> \E i \in 1 .. Len(rest1) : rest1[i] = x
    OBVIOUS
  <2>1. place'[x] = "queued" <=> where[x] = "queued" /\ x # h
    BY <1>1, <1>2
  <2>2. ASSUME NEW i \in 1 .. Len(queue), queue[i] = x, x # h
        PROVE  \E k \in 1 .. Len(rest1) : rest1[k] = x
    <3>1. i - 1 \in 1 .. Len(rest1) /\ rest1[i - 1] = x
      BY <1>1, <2>2
    <3> QED
      BY <3>1
  <2>3. ASSUME NEW i \in 1 .. Len(rest1), rest1[i] = x
        PROVE  where[x] = "queued" /\ x # h
    <3>1. i + 1 \in 1 .. Len(queue) /\ queue[i + 1] = x /\ i + 1 # 1
      BY <1>1, <2>3
    <3> QED
      BY <1>1, <3>1
  <2> QED
    BY <2>1, <2>2, <2>3
<1>4. \A i, j \in 1 .. Len(rest1) : rest1[i] = rest1[j] => i = j
  <2> SUFFICES ASSUME NEW i \in 1 .. Len(rest1), NEW j \in 1 .. Len(rest1), rest1[i] = rest1[j]
               PROVE  i = j
    OBVIOUS
  <2>1. i + 1 \in 1 .. Len(queue) /\ j + 1 \in 1 .. Len(queue) /\ queue[i + 1] = queue[j + 1]
    BY <1>1
  <2> QED
    BY <2>1
<1>5. \A x \in Streams : place'[x] = "serve" <=> serving' = x
  BY <1>1, <1>2
<1> QED
  BY <1>1, <1>2, <1>3, <1>4, <1>5

\* A step of the queue moves streams between the places they have to do with it,
\* and changes nothing else.
LEMMA QueueMoves ==
    ASSUME Types, QueueAgrees, QueueStep
    PROVE  /\ UNCHANGED <<phase, constructed, memory, nEvents, m_seenEvents,
                          m_fatalJobErrorOccured, handled, ending>>
           /\ Agrees(pushed', place', serving')
           /\ pushed' \in Seq(Streams) /\ place' \in [Streams -> Places]
           /\ serving' \in Streams \cup {None}
           /\ \A x \in Streams :
                 \/ place'[x] = place[x]
                 \/ {place[x], place'[x]} \subseteq {"work", "queued", "serve", "served"}
           /\ \A x \in Streams : place'[x] = "queued" => ShareQueue \/ place[x] = "queued"
<1> DEFINE four == {"work", "queued", "serve", "served"}
           Moved == /\ Agrees(pushed', place', serving')
                    /\ pushed' \in Seq(Streams) /\ place' \in [Streams -> Places]
                    /\ serving' \in Streams \cup {None}
                    /\ \A x \in Streams : \/ place'[x] = place[x]
                                           \/ {place[x], place'[x]} \subseteq four
                    /\ \A x \in Streams : place'[x] = "queued" => ShareQueue \/ place[x] = "queued"
<1>1. /\ pushed \in Seq(Streams) /\ place \in [Streams -> Places] /\ serving \in Streams \cup {None}
      /\ None \notin Streams /\ Agrees(pushed, place, serving)
  BY Sizes DEF Types, QueueAgrees
<1>2. ASSUME NEW s \in Streams, Push(s) PROVE Moved
  <2> DEFINE queue == Append(pushed, s)
             where == [place EXCEPT ![s] = "queued"]
  <2>1. place[s] = "work" /\ ShareQueue
    BY <1>2 DEF Push
  <2>2. /\ queue \in Seq(Streams) /\ queue # <<>> /\ where \in [Streams -> Places]
        /\ \A x \in Streams : where[x] = IF x = s THEN "queued" ELSE place[x]
    BY <1>1, AppendProperties DEF Places
  <2>3. Agrees(queue, where, serving)
    BY <1>1, <2>1, Joins
  <2>4. \/ serving = None /\ pickNextTask(queue, where)
        \/ pushed' = queue /\ place' = where /\ serving' = serving
    BY <1>2 DEF Push
  <2> HIDE DEF queue, where
  <2>5. CASE serving = None /\ pickNextTask(queue, where)
    BY <1>1, <2>1, <2>2, <2>3, <2>5, Picks
  <2>6. CASE pushed' = queue /\ place' = where /\ serving' = serving
    BY <1>1, <2>1, <2>2, <2>3, <2>6
  <2> QED
    BY <2>4, <2>5, <2>6
<1>3. ASSUME NEW s \in Streams, Served(s) PROVE Moved
  <2> DEFINE where == [place EXCEPT ![s] = "served"]
  <2>1. place[s] = "serve"
    BY <1>3 DEF Served
  <2>2. /\ where \in [Streams -> Places]
        /\ \A x \in Streams : where[x] = IF x = s THEN "served" ELSE place[x]
    BY <1>1 DEF Places
  <2>3. \/ pushed = <<>> /\ serving' = None /\ place' = where /\ pushed' = pushed
        \/ pushed # <<>> /\ pickNextTask(pushed, where)
    BY <1>3 DEF Served
  <2> HIDE DEF where
  <2>4. Agrees(pushed, where, None)
    BY <1>1, <2>1, <2>2 DEF Agrees
  <2>5. CASE pushed = <<>> /\ serving' = None /\ place' = where /\ pushed' = pushed
    BY <1>1, <2>1, <2>2, <2>4, <2>5
  <2>6. CASE pushed # <<>> /\ pickNextTask(pushed, where)
    BY <1>1, <2>1, <2>2, <2>4, <2>6, Picks
  <2> QED
    BY <2>3, <2>5, <2>6
<1>4. CASE PickLate
  BY <1>1, <1>4, Picks DEF PickLate
<1>5. Moved
  BY <1>2, <1>3, <1>4 DEF QueueStep
<1>6. UNCHANGED <<phase, constructed, memory, nEvents, m_seenEvents,
                  m_fatalJobErrorOccured, handled, ending>>
  BY DEF QueueStep, PickLate, Push, Served
<1> QED
  BY <1>5, <1>6

\* Every variable keeps its type in every step.
LEMMA TypesStep ==
    ASSUME IndInv, [Next]_vars
    PROVE  Types'
<1> USE DEF IndInv, streams, ending, memory, constructed
<1>1. Types
  OBVIOUS
<1>2. UNCHANGED <<pConfig, Streams, Events, iNumConcurrentEvents>>
  BY Fixed
<1>3. iNumConcurrentEvents \in Nat \ {0}
  BY Sizes
<1> USE <1>1, <1>2, <1>3 DEF Types, SetupPhases, LoopPhases, EndPhases, Places
<1>4. CASE SetupStep
  <2>1. m_schedules' \in Seq(Range(m_schedules'))
    BY <1>4, SetupSteps DEF Range
  <2> QED
    BY <1>4, <2>1, SetupSteps
<1>5. CASE Reserve
  BY <1>5 DEF Reserve, Grows, Untouched
<1>6. CASE MakeHolder
  BY <1>6 DEF MakeHolder
<1>7. CASE CloneSchedule
  <2>1. /\ m_schedules' = Append(m_schedules, Clone(m_schedules[1], nEvents + 1))
        /\ buffer' = buffer
    BY <1>7 DEF CloneSchedule, Grows, RoomForAll, StartedInOrder
  <2>2. m_schedules' \in Seq(Range(m_schedules'))
    BY <2>1, AppendOwnRange
  <2>3. capacity' \in Nat
    BY <1>7 DEF CloneSchedule
  <2> QED
    BY <1>7, <2>1, <2>2, <2>3 DEF CloneSchedule
<1>8. CASE StartStream
  <2>1. Current \in Streams
    BY DEF Current, Streams
  <2>2. CountEvent(Current) /\ UNCHANGED <<memory, nEvents, pushed, serving,
               m_fatalJobErrorOccured, failed, lastTask>> /\ phase' = "drop" /\ holders' \in Nat
    BY <1>8 DEF StartStream
  <2> QED
    BY <2>1, <2>2, CountedEvent
<1>9. CASE EndTurn
  <2>1. phase = "drop" /\ holders \in Nat \ {0}
    BY <1>9, MainHolds DEF EndTurn
  <2>2. Current \in Streams
    BY DEF Current, Streams
  <2>3. /\ holders' \in Nat
        /\ lastTask' \in [at : {"held", "spawned", "done", "gone"}, group : Streams \cup {None}]
    BY <1>9, <2>1, <2>2 DEF EndTurn, DropHolder
  <2> QED
    BY <1>9, <2>3 DEF EndTurn
<1>10. CASE WaitReturns
  BY <1>10 DEF WaitReturns
<1>11. CASE Leave
  BY <1>11 DEF Leave
<1>12. ASSUME NEW s \in Streams, NextEvent(s) PROVE Types'
  <2>1. holders \in Nat \ {0}
    BY <1>12, StreamHolds DEF NextEvent
  <2>2. /\ holders' \in Nat
        /\ lastTask' \in [at : {"held", "spawned", "done", "gone"}, group : Streams \cup {None}]
    BY <1>12, <2>1 DEF NextEvent, DropHolder
  <2> QED
    BY <1>12, <2>2, CountedEvent DEF NextEvent
<1>13. ASSUME NEW s \in Streams, StreamFails(s) PROVE Types'
  <2>1. holders \in Nat \ {0}
    BY <1>13, StreamHolds DEF StreamFails
  <2>2. /\ holders' \in Nat
        /\ lastTask' \in [at : {"held", "spawned", "done", "gone"}, group : Streams \cup {None}]
    BY <1>13, <2>1 DEF StreamFails, DropHolder
  <2> QED
    BY <1>13, <2>2 DEF StreamFails
<1>14. CASE QueueStep
  BY <1>14, QueueMoves
<1>16. ASSUME NEW s \in Streams, NEW exception \in BOOLEAN, EventEnds(s, exception) PROVE Types'
  BY <1>16 DEF EventEnds
<1>17. CASE LastTask
  BY <1>17 DEF LastTask
<1>18. CASE LastTaskGone
  BY <1>18 DEF LastTaskGone
<1>19. CASE UNCHANGED vars
  BY <1>19 DEF vars
<1> QED
  BY <1>4, <1>5, <1>6, <1>7, <1>8, <1>9, <1>10, <1>11, <1>12, <1>13, <1>14,
     <1>16, <1>17, <1>18, <1>19 DEF Next, MainThread, StreamStep, QueueStep

\* When processAll has left its loop, every stream is over.
LEMMA AllOver ==
    ASSUME IndInv, phase \in EndPhases
    PROVE  \A s \in Streams : place[s] = "ended"
<1> USE DEF IndInv
<1>1. Active = {}
  BY Counts DEF Counted, Mine, EndPhases
<1> QED
  BY <1>1 DEF Active, StartedInOrder, Reached

\* A task of a stream, or lastTask: the main thread and the Schedules stay where
\* they are, and no stream is started.
Tasks == (\E s \in Streams : StreamStep(s)) \/ PickLate \/ LastTask \/ LastTaskGone

\* Tasks leave the main thread's state and the memory of the Schedules alone.
LEMMA TasksLeave ==
    ASSUME IndInv, Tasks
    PROVE  /\ UNCHANGED <<phase, constructed, memory, nEvents>>
           /\ \A s \in Streams : place'[s] = "none" <=> place[s] = "none"
<1> USE DEF IndInv, streams, ending, memory
<1>1. place \in [Streams -> Places] /\ pushed \in Seq(Streams)
  BY DEF Types
<1>2. CASE LastTask \/ LastTaskGone
  BY <1>2 DEF LastTask, LastTaskGone
<1>3. ASSUME NEW s \in Streams, NextEvent(s)
      PROVE  /\ UNCHANGED <<phase, constructed, memory, nEvents>>
             /\ \A x \in Streams : place'[x] = "none" <=> place[x] = "none"
  BY <1>1, <1>3 DEF NextEvent, CountEvent
<1>4. ASSUME NEW s \in Streams, StreamFails(s)
      PROVE  /\ UNCHANGED <<phase, constructed, memory, nEvents>>
             /\ \A x \in Streams : place'[x] = "none" <=> place[x] = "none"
  BY <1>1, <1>4 DEF StreamFails
<1>5. CASE QueueStep
  BY <1>5, QueueMoves
<1>7. ASSUME NEW s \in Streams, NEW exception \in BOOLEAN, EventEnds(s, exception)
      PROVE  /\ UNCHANGED <<phase, constructed, memory, nEvents>>
             /\ \A x \in Streams : place'[x] = "none" <=> place[x] = "none"
  BY <1>1, <1>7 DEF EventEnds
<1> QED
  BY <1>2, <1>3, <1>4, <1>5, <1>7 DEF Tasks, StreamStep, QueueStep

\* The main thread starts one stream after the other, each with its Schedule,
\* for which there is room.
LEMMA LoopStep ==
    ASSUME IndInv, [Next]_vars
    PROVE  StartedInOrder' /\ Untouched' /\ RoomForAll'
<1> USE DEF IndInv
<1>1. UNCHANGED <<pConfig, Streams, Events, iNumConcurrentEvents>>
  BY Fixed
<1>2. /\ iNumConcurrentEvents \in Nat \ {0} /\ nEvents \in 0 .. iNumConcurrentEvents
      /\ place \in [Streams -> Places] /\ m_schedules \in Seq(Range(m_schedules))
      /\ capacity \in Nat /\ Len(m_schedules) \in Nat
  BY Sizes, LenProperties DEF Types
<1>3. Streams = 0 .. iNumConcurrentEvents - 1
  BY DEF Streams
<1> USE <1>1, <1>2, <1>3 DEF StartedInOrder, Reached, Untouched, RoomForAll, SetupPhases,
                             LoopPhases, EndPhases, Current, memory, streams
<1>4. CASE SetupStep
  <2>1. Len(m_schedules') = 1
    BY <1>4, SetupSteps
  <2> QED
    BY <1>4, <2>1, SetupSteps
<1>5. CASE Reserve
  BY <1>5 DEF Reserve
<1>6. CASE MakeHolder
  BY <1>6 DEF MakeHolder
<1>7. CASE CloneSchedule
  <2>1. Len(m_schedules') = Len(m_schedules) + 1
    BY <1>7, AppendOwnRange DEF CloneSchedule
  <2> QED
    BY <1>7, <2>1 DEF CloneSchedule
<1>8. CASE StartStream
  <2>1. UNCHANGED <<memory, nEvents>> /\ phase = "start" /\ phase' = "drop"
    BY <1>8 DEF StartStream
  <2>2. \A s \in Streams : place'[s] # "none" <=> place[s] # "none" \/ s = Current
    BY <1>8 DEF StartStream, CountEvent
  <2> QED
    BY <2>1, <2>2
<1>9. CASE EndTurn
  BY <1>9 DEF EndTurn
<1>10. CASE WaitReturns
  BY <1>10 DEF WaitReturns
<1>11. CASE Leave
  BY <1>11 DEF Leave
<1>12. CASE Tasks
  BY <1>12, TasksLeave
<1>13. CASE UNCHANGED vars
  BY <1>13 DEF vars
<1> QED
  BY <1>4, <1>5, <1>6, <1>7, <1>8, <1>9, <1>10, <1>11, <1>12, <1>13
     DEF Next, MainThread, Tasks

\* Whoever makes a holder counts it, and whoever drops one counts it off.
LEMMA CountedStep ==
    ASSUME IndInv, [Next]_vars
    PROVE  Counted'
<1> USE DEF IndInv, streams, ending
<1>1. UNCHANGED <<pConfig, Streams>>
  BY Fixed
<1>2. /\ place \in [Streams -> Places] /\ holders \in Nat
      /\ Cardinality(Active) \in Nat
      /\ lastTask \in [at : {"held", "spawned", "done", "gone"}, group : Streams \cup {None}]
  BY Counts DEF Types
<1> USE <1>1, <1>2 DEF Counted, Mine, EndPhases
<1>3. CASE SetupStep
  <2>1. Active' = Active /\ UNCHANGED <<holders, lastTask>>
    BY <1>3, SetupSteps DEF Active
  <2>2. /\ phase \in SetupPhases /\ phase' \in SetupPhases \cup {"reserve", "exit"}
    BY <1>3, SetupSteps
  <2> QED
    BY <2>1, <2>2 DEF SetupPhases
<1>4. CASE Reserve \/ MakeHolder \/ CloneSchedule \/ WaitReturns \/ Leave
  <2>1. Active' = Active
    BY <1>4 DEF Reserve, MakeHolder, CloneSchedule, WaitReturns, Leave, Active
  <2>2. CASE Reserve \/ CloneSchedule \/ WaitReturns
    BY <2>1, <2>2 DEF Reserve, CloneSchedule, WaitReturns
  <2>3. CASE MakeHolder
    BY <2>1, <2>3 DEF MakeHolder
  <2>4. CASE Leave
    BY <2>1, <2>4 DEF Leave, done
  <2> QED
    BY <1>4, <2>2, <2>3, <2>4
<1>5. CASE StartStream
  <2>1. Current \in Streams /\ phase = "start" /\ phase' = "drop"
    BY <1>5, Sizes DEF StartStream, Current, Streams, Types
  <2>2. place[Current] = "none"
    BY <2>1, Sizes DEF StartedInOrder, Reached, Current, EndPhases, Types
  <2>3. /\ \A x \in Streams \ {Current} : place'[x] = place[x]
        /\ place'[Current] = IF HasNextEvent THEN "work" ELSE "ended"
    BY <1>5, <2>1 DEF StartStream, CountEvent
  <2>4. Cardinality(Active') = Cardinality(Active) + IF HasNextEvent THEN 1 ELSE 0
    BY <2>1, <2>2, <2>3, Moves
  <2>5. lastTask.at = "held"
    BY <2>1, MainHolds
  <2> QED
    BY <1>5, <2>1, <2>4, <2>5 DEF StartStream
<1>6. CASE EndTurn
  <2>1. Active' = Active /\ phase = "drop" /\ phase' \in {"loop", "wait"}
    BY <1>6 DEF EndTurn, Active
  <2>2. holders \in Nat \ {0} /\ lastTask.at = "held"
    BY <2>1, MainHolds
  <2> QED
    BY <1>6, <2>1, <2>2 DEF EndTurn, DropHolder
<1>7. ASSUME NEW s \in Streams, NextEvent(s) PROVE Counted'
  <2>1. place[s] = "next" /\ UNCHANGED phase
    BY <1>7 DEF NextEvent
  <2>2. /\ \A x \in Streams \ {s} : place'[x] = place[x]
        /\ place'[s] = IF HasNextEvent THEN "work" ELSE "ended"
    BY <1>7 DEF NextEvent, CountEvent
  <2>3. Cardinality(Active') = Cardinality(Active) - IF HasNextEvent THEN 0 ELSE 1
    BY <2>1, <2>2, Moves
  <2>4. holders \in Nat \ {0} /\ lastTask.at = "held"
    BY <2>1, StreamHolds
  <2> QED
    BY <1>7, <2>1, <2>3, <2>4 DEF NextEvent, DropHolder
<1>8. ASSUME NEW s \in Streams, StreamFails(s) PROVE Counted'
  <2>1. place[s] = "broken" /\ UNCHANGED phase
    BY <1>8 DEF StreamFails
  <2>2. /\ \A x \in Streams \ {s} : place'[x] = place[x]
        /\ place'[s] = "ended"
    BY <1>8 DEF StreamFails
  <2>3. Cardinality(Active') = Cardinality(Active) - 1
    BY <2>1, <2>2, Moves
  <2>4. holders \in Nat \ {0} /\ lastTask.at = "held"
    BY <2>1, StreamHolds
  <2> QED
    BY <1>8, <2>1, <2>3, <2>4 DEF StreamFails, DropHolder
<1>9. CASE QueueStep
  <2>1. Active' = Active /\ UNCHANGED <<phase, ending>>
    BY <1>9, QueueMoves DEF Active
  <2> QED
    BY <2>1
<1>11. ASSUME NEW s \in Streams, NEW exception \in BOOLEAN, EventEnds(s, exception) PROVE Counted'
  <2>1. Active' = Active
    BY <1>11 DEF EventEnds, Active
  <2> QED
    BY <1>11, <2>1 DEF EventEnds
<1>12. CASE LastTask \/ LastTaskGone
  <2>1. Active' = Active
    BY <1>12 DEF LastTask, LastTaskGone, Active
  <2> QED
    BY <1>12, <2>1 DEF LastTask, LastTaskGone
<1>13. CASE UNCHANGED vars
  <2>1. Active' = Active
    BY <1>13 DEF vars, Active
  <2> QED
    BY <1>13, <2>1 DEF vars
<1> QED
  BY <1>3, <1>4, <1>5, <1>6, <1>7, <1>8, <1>9, <1>11, <1>12, <1>13
     DEF Next, MainThread, StreamStep, QueueStep

\* The run queue and the places of the streams go together.
LEMMA QueueAgreesStep ==
    ASSUME IndInv, [Next]_vars
    PROVE  QueueAgrees'
<1> USE DEF IndInv, streams, ending
<1>1. UNCHANGED <<pConfig, Streams>> /\ (phase \notin SetupPhases => (ShareQueue' <=> ShareQueue))
  BY Fixed
<1>2. /\ place \in [Streams -> Places] /\ pushed \in Seq(Streams) /\ Len(pushed) \in Nat
      /\ serving \in Streams \cup {None} /\ None \notin Streams
  BY Sizes, LenProperties DEF Types
<1>3. \A s \in Streams : place[s] # "none" => phase \notin SetupPhases
  BY DEF StartedInOrder, Reached, SetupPhases, LoopPhases, EndPhases
<1> USE <1>1, <1>2 DEF QueueAgrees, Agrees
<1>4. CASE SetupStep
  <2>1. UNCHANGED <<place, pushed, serving>> /\ phase \in SetupPhases
    BY <1>4, SetupSteps
  <2> QED
    BY <1>3, <2>1
<1>5. CASE UNCHANGED <<place, pushed, serving>> /\ phase \notin SetupPhases
  BY <1>5
<1>6. CASE Reserve \/ MakeHolder \/ CloneSchedule \/ WaitReturns \/ Leave \/ EndTurn
  BY <1>5, <1>6 DEF Reserve, MakeHolder, CloneSchedule, WaitReturns, Leave, EndTurn, SetupPhases
<1>7. CASE StartStream
  <2>1. Current \in Streams /\ phase = "start"
    BY <1>7, Sizes DEF StartStream, Current, Streams, Types
  <2>2. place[Current] = "none"
    BY <2>1, Sizes DEF StartedInOrder, Reached, Current, EndPhases, Types
  <2>3. UNCHANGED <<pushed, serving>> /\ \A s \in Streams :
           place'[s] = IF s = Current THEN IF HasNextEvent THEN "work" ELSE "ended" ELSE place[s]
    BY <1>7, <2>1 DEF StartStream, CountEvent
  <2> QED
    BY <2>1, <2>2, <2>3 DEF SetupPhases
<1>8. ASSUME NEW s \in Streams, NextEvent(s) PROVE QueueAgrees'
  <2>1. place[s] = "next" /\ UNCHANGED <<pushed, serving>> /\ \A x \in Streams :
           place'[x] = IF x = s THEN IF HasNextEvent THEN "work" ELSE "ended" ELSE place[x]
    BY <1>8 DEF NextEvent, CountEvent
  <2> QED
    BY <1>3, <2>1
<1>9. ASSUME NEW s \in Streams, StreamFails(s) PROVE QueueAgrees'
  BY <1>3, <1>9 DEF StreamFails
<1>10. CASE QueueStep
  <2>1. /\ Agrees(pushed', place', serving') /\ UNCHANGED <<phase, constructed>>
        /\ \A x \in Streams : place'[x] = "queued" => ShareQueue \/ place[x] = "queued"
    BY <1>10, QueueMoves
  <2>2. ShareQueue' <=> ShareQueue
    BY <2>1 DEF constructed, setup, ShareQueue
  <2>3. Agrees(pushed, place, serving)'
    BY <2>1
  <2>4. (~ShareQueue => \A s \in Streams : place[s] # "queued")'
    BY <2>1, <2>2
  <2> HIDE DEF Agrees
  <2> QED
    BY <2>3, <2>4
<1>12. ASSUME NEW s \in Streams, NEW exception \in BOOLEAN, EventEnds(s, exception)
       PROVE  QueueAgrees'
  BY <1>3, <1>12 DEF EventEnds
<1>13. CASE LastTask \/ LastTaskGone
  <2>1. UNCHANGED <<place, pushed, serving, constructed>>
    BY <1>13 DEF LastTask, LastTaskGone
  <2> QED
    BY <2>1 DEF constructed, setup, ShareQueue
<1>14. CASE UNCHANGED vars
  BY <1>14 DEF vars, constructed, setup, ShareQueue
<1> QED
  BY <1>4, <1>6, <1>7, <1>8, <1>9, <1>10, <1>12, <1>13, <1>14
     DEF Next, MainThread, StreamStep, QueueStep

\* A stream takes the event that the source counts, or ends because there is none.
LEMMA GivenOutStep ==
    ASSUME IndInv, [Next]_vars
    PROVE  GivenOut'
<1> USE DEF IndInv, streams, ending
<1>1. UNCHANGED <<pConfig, Streams, Events>>
  BY Fixed
<1>2. /\ pConfig.iterations \in Nat /\ m_seenEvents \in Nat /\ Cardinality(Over) \in Nat
      /\ place \in [Streams -> Places] /\ handled \in [Events -> Nat] /\ failed \in BOOLEAN
      /\ pushed \in Seq(Streams)
  BY Sizes, Counts DEF Types
<1> USE <1>1, <1>2
<1>3. ASSUME UNCHANGED <<m_seenEvents, handled, failed>>,
             \A s \in Streams : place'[s] = "ended" <=> place[s] = "ended"
      PROVE  GivenOut'
  <2>1. Over' = Over
    BY <1>3 DEF Over
  <2> QED
    BY <1>3, <2>1 DEF GivenOut
<1>4. ASSUME NEW s \in Streams, CountEvent(s), place[s] # "ended", UNCHANGED failed
      PROVE  GivenOut'
  <2>1. /\ m_seenEvents' = m_seenEvents + 1
        /\ HasNextEvent <=> m_seenEvents < pConfig.iterations
        /\ \A i \in Events : handled'[i] = IF i = m_seenEvents THEN handled[i] + 1 ELSE handled[i]
    BY <1>4, CountedEvent
  <2>2. /\ \A x \in Streams \ {s} : place'[x] = place[x]
        /\ place'[s] = IF HasNextEvent THEN "work" ELSE "ended"
    BY <1>4 DEF CountEvent
  <2>3. Cardinality(Over') = Cardinality(Over) + IF HasNextEvent THEN 0 ELSE 1
    BY <1>4, <2>2, Moves
  <2>4. \A i \in Events : handled'[i] = IF i < m_seenEvents' THEN 1 ELSE 0
    BY <2>1 DEF GivenOut, Events
  <2>5. m_seenEvents' <= pConfig.iterations + Cardinality(Over')
    BY <2>1, <2>3 DEF GivenOut
  <2>6. \A x \in Streams : place'[x] = "ended" => failed' \/ m_seenEvents' >= pConfig.iterations
    BY <1>4, <2>1, <2>2 DEF GivenOut
  <2> QED
    BY <2>4, <2>5, <2>6 DEF GivenOut
<1>5. CASE SetupStep
  BY <1>3, <1>5, SetupSteps
<1>6. CASE Reserve \/ MakeHolder \/ CloneSchedule \/ WaitReturns \/ Leave \/ EndTurn
  BY <1>3, <1>6 DEF Reserve, MakeHolder, CloneSchedule, WaitReturns, Leave, EndTurn
<1>7. CASE StartStream
  <2>1. Current \in Streams /\ phase = "start"
    BY <1>7, Sizes DEF StartStream, Current, Streams, Types
  <2>2. place[Current] = "none"
    BY <2>1, Sizes DEF StartedInOrder, Reached, Current, EndPhases, Types
  <2> QED
    BY <1>4, <1>7, <2>1, <2>2 DEF StartStream
<1>8. ASSUME NEW s \in Streams, NextEvent(s) PROVE GivenOut'
  BY <1>4, <1>8 DEF NextEvent
<1>9. ASSUME NEW s \in Streams, StreamFails(s) PROVE GivenOut'
  <2>1. failed' /\ UNCHANGED <<m_seenEvents, handled>>
    BY <1>9 DEF StreamFails
  <2>2. /\ \A x \in Streams \ {s} : place'[x] = place[x]
        /\ place'[s] = "ended" /\ place[s] # "ended"
    BY <1>9 DEF StreamFails
  <2>3. Cardinality(Over') = Cardinality(Over) + 1
    BY <2>2, Moves
  <2> QED
    BY <2>1, <2>3 DEF GivenOut
<1>10. CASE QueueStep
  BY <1>3, <1>10, QueueMoves
<1>12. ASSUME NEW s \in Streams, NEW exception \in BOOLEAN, EventEnds(s, exception)
       PROVE  GivenOut'
  BY <1>3, <1>12 DEF EventEnds
<1>13. CASE LastTask \/ LastTaskGone
  BY <1>3, <1>13 DEF LastTask, LastTaskGone
<1>14. CASE UNCHANGED vars
  BY <1>3, <1>14 DEF vars
<1> QED
  BY <1>5, <1>6, <1>7, <1>8, <1>9, <1>10, <1>12, <1>13, <1>14
     DEF Next, MainThread, StreamStep, QueueStep

\* The job has failed when a stream has told lastTask so, or is about to.
LEMMA FailureStep ==
    ASSUME IndInv, [Next]_vars
    PROVE  FailureKept'
<1> USE DEF IndInv, streams, ending
<1>1. UNCHANGED <<pConfig, Streams>>
  BY Fixed
<1>2. /\ place \in [Streams -> Places] /\ failed \in BOOLEAN /\ m_fatalJobErrorOccured \in BOOLEAN
      /\ pushed \in Seq(Streams)
  BY DEF Types
<1> USE <1>1, <1>2 DEF FailureKept
<1>3. \A s \in Streams : phase \in EndPhases => place[s] = "ended"
  BY AllOver
<1>4. ASSUME UNCHANGED <<failed, m_fatalJobErrorOccured>>,
             phase' \in EndPhases => phase' = phase,
             \A s \in Streams : place'[s] = "broken" <=> place[s] = "broken"
      PROVE  FailureKept'
  BY <1>4 DEF EndPhases
<1>5. CASE SetupStep
  BY <1>4, <1>5, SetupSteps DEF SetupPhases, EndPhases
<1>6. CASE Reserve \/ MakeHolder \/ CloneSchedule \/ WaitReturns \/ EndTurn
  BY <1>4, <1>6 DEF Reserve, MakeHolder, CloneSchedule, WaitReturns, EndTurn, EndPhases
<1>7. CASE StartStream
  <2>1. Current \in Streams /\ phase = "start"
    BY <1>7, Sizes DEF StartStream, Current, Streams, Types
  <2>2. place[Current] = "none"
    BY <2>1, Sizes DEF StartedInOrder, Reached, Current, EndPhases, Types
  <2> QED
    BY <1>4, <1>7, <2>1, <2>2 DEF StartStream, CountEvent, EndPhases
<1>8. CASE Leave
  BY <1>8 DEF Leave
<1>9. ASSUME NEW s \in Streams, NextEvent(s) PROVE FailureKept'
  BY <1>4, <1>9 DEF NextEvent, CountEvent
<1>10. ASSUME NEW s \in Streams, StreamFails(s) PROVE FailureKept'
  <2>1. phase \notin EndPhases /\ UNCHANGED phase
    BY <1>3, <1>10 DEF StreamFails
  <2>2. m_fatalJobErrorOccured /\ m_fatalJobErrorOccured' /\ failed'
    BY <1>10 DEF StreamFails
  <2> QED
    BY <2>1, <2>2 DEF EndPhases
<1>11. CASE QueueStep
  BY <1>4, <1>11, QueueMoves
<1>13. ASSUME NEW s \in Streams, EventEnds(s, FALSE) PROVE FailureKept'
  BY <1>4, <1>13 DEF EventEnds
<1>14. ASSUME NEW s \in Streams, EventEnds(s, TRUE) PROVE FailureKept'
  <2>1. phase \notin EndPhases /\ UNCHANGED phase
    BY <1>3, <1>14 DEF EventEnds
  <2>2. m_fatalJobErrorOccured' /\ place'[s] = "broken"
    BY <1>14 DEF EventEnds
  <2> QED
    BY <2>1, <2>2 DEF EndPhases
<1>15. CASE LastTask \/ LastTaskGone
  BY <1>4, <1>15 DEF LastTask, LastTaskGone
<1>16. CASE UNCHANGED vars
  BY <1>4, <1>16 DEF vars
<1> QED
  BY <1>5, <1>6, <1>7, <1>8, <1>9, <1>10, <1>11, <1>13, <1>14, <1>15, <1>16
     DEF Next, MainThread, StreamStep, QueueStep

\* Where no stream can be in a queue, a group without a task is done with: its
\* stream has ended, and lastTask goes to the group of one that has not.
LEMMA WaitedStep ==
    ASSUME IndInv, [Next]_vars
    PROVE  WaitedStayEmpty'
<1> USE DEF IndInv, streams, ending
<1>1. UNCHANGED <<pConfig, Streams, iNumConcurrentEvents>>
  BY Fixed
<1>2. CASE phase' \notin {"wait", "missing_wait"}
  BY <1>2 DEF WaitedStayEmpty
<1>3. CASE SetupStep
  BY <1>2, <1>3, SetupSteps DEF SetupPhases
<1>4. CASE Reserve \/ MakeHolder \/ CloneSchedule \/ StartStream
  BY <1>2, <1>4 DEF Reserve, MakeHolder, CloneSchedule, StartStream
<1>5. CASE EndTurn
  <2>1. phase' # "missing_wait" /\ (phase' = "wait" => nEvents' = 0)
    BY <1>5 DEF EndTurn
  <2> QED
    BY <1>1, <2>1 DEF WaitedStayEmpty, Streams
<1>6. CASE phase \in {"wait", "missing_wait"} /\ UNCHANGED phase /\ Next
  <2> SUFFICES ASSUME ~ShareQueue'
               PROVE  /\ phase' = "wait" => \A s \in Streams : s < nEvents' => ~Busy(s)'
                      /\ phase' # "missing_wait"
    BY <1>1 DEF WaitedStayEmpty
  <2>1. ~ShareQueue /\ phase = "wait" /\ phase' = "wait"
    BY <1>6, Fixed DEF SetupPhases, WaitedStayEmpty
  <2>2. /\ \A s \in Streams : place[s] \notin {"none", "queued"}
        /\ place \in [Streams -> Places] /\ nEvents \in 0 .. iNumConcurrentEvents
        /\ lastTask \in [at : {"held", "spawned", "done", "gone"}, group : Streams \cup {None}]
        /\ Streams = 0 .. iNumConcurrentEvents - 1 /\ iNumConcurrentEvents \in Nat
        /\ holders \in Nat
    BY <2>1, Sizes DEF QueueAgrees, StartedInOrder, Reached, Types, Streams
  <2>3. \A s \in Streams : s < nEvents =>
           /\ place[s] = "ended"
           /\ lastTask.at \in {"spawned", "done"} => lastTask.group # s
    BY <2>1, <2>2 DEF WaitedStayEmpty, Busy, Places
  <2> SUFFICES ASSUME NEW s \in Streams, s < nEvents' PROVE ~Busy(s)'
    BY <2>1
  <2>4. CASE WaitReturns
    <3>1. UNCHANGED <<place, lastTask>> /\ ~Busy(nEvents) /\ nEvents' = nEvents + 1
      BY <2>4 DEF WaitReturns
    <3>2. s < nEvents \/ s = nEvents
      BY <2>2, <3>1
    <3>3. ~Busy(s)
      BY <2>1, <3>1, <3>2 DEF WaitedStayEmpty
    <3> QED
      BY <3>1, <3>3 DEF Busy
  <2>5. CASE Leave
    BY <2>1, <2>2, <2>5 DEF Leave
  <2>6. ASSUME UNCHANGED <<nEvents, lastTask>>, place'[s] = place[s]
        PROVE  ~Busy(s)'
    BY <2>3, <2>6 DEF Busy
  <2>7. ASSUME NEW x \in Streams, UNCHANGED nEvents, DropHolder(x), place[x] # "ended",
               place'[s] = place[s]
        PROVE  ~Busy(s)'
    <3>1. s # x
      BY <2>3, <2>7
    <3>2. lastTask' = lastTask \/ lastTask' = [at |-> "spawned", group |-> x]
      BY <2>7 DEF DropHolder
    <3> QED
      BY <2>3, <2>7, <3>1, <3>2 DEF Busy
  <2>8. ASSUME NEW x \in Streams, NextEvent(x) PROVE ~Busy(s)'
    <3>1. s < nEvents /\ s # x /\ place'[s] = place[s] /\ UNCHANGED nEvents
      BY <2>2, <2>3, <2>8 DEF NextEvent, CountEvent
    <3> QED
      BY <2>6, <2>7, <2>8, <3>1 DEF NextEvent
  <2>9. ASSUME NEW x \in Streams, StreamFails(x) PROVE ~Busy(s)'
    <3>1. s < nEvents /\ s # x /\ place'[s] = place[s] /\ UNCHANGED nEvents
      BY <2>2, <2>3, <2>9 DEF StreamFails
    <3> QED
      BY <2>7, <2>9, <3>1 DEF StreamFails
  <2>10. CASE QueueStep
    <3>1. place'[s] = place[s] /\ UNCHANGED <<nEvents, lastTask>>
      BY <2>2, <2>3, <2>10, QueueMoves
    <3> QED
      BY <2>6, <3>1
  <2>12. ASSUME NEW x \in Streams, NEW exception \in BOOLEAN, EventEnds(x, exception)
         PROVE  ~Busy(s)'
    <3>1. s < nEvents /\ s # x /\ place'[s] = place[s] /\ UNCHANGED <<nEvents, lastTask>>
      BY <2>2, <2>3, <2>12 DEF EventEnds
    <3> QED
      BY <2>6, <3>1
  <2>13. CASE LastTask \/ LastTaskGone
    <3>1. UNCHANGED <<nEvents, place>> /\ lastTask' \in {[lastTask EXCEPT !.at = "done"], [lastTask EXCEPT !.at = "gone"]}
          /\ lastTask.at \in {"spawned", "done"}
      BY <2>13 DEF LastTask, LastTaskGone
    <3>2. lastTask'.group = lastTask.group
      BY <2>2, <3>1
    <3> QED
      BY <2>3, <3>1, <3>2 DEF Busy
  <2>14. ~SetupStep /\ ~Reserve /\ ~MakeHolder /\ ~CloneSchedule /\ ~StartStream /\ ~EndTurn
    BY <2>1, SetupSteps DEF SetupPhases, Reserve, MakeHolder, CloneSchedule, StartStream, EndTurn
  <2> QED
    BY <1>6, <2>4, <2>5, <2>8, <2>9, <2>10, <2>12, <2>13, <2>14
       DEF Next, MainThread, StreamStep, QueueStep
<1>7. CASE Leave /\ phase' # phase
  <2>1. phase = "wait" /\ nEvents = iNumConcurrentEvents /\ phase' # "wait"
        /\ (phase' = "missing_wait" => \E s \in Streams : Busy(s))
    BY <1>7 DEF Leave
  <2>2. ~ShareQueue => \A s \in Streams : ~Busy(s)
    BY <2>1, Sizes DEF WaitedStayEmpty, Streams
  <2>3. ShareQueue' <=> ShareQueue
    BY <2>1, Fixed DEF SetupPhases
  <2> QED
    BY <2>1, <2>2, <2>3 DEF WaitedStayEmpty
<1>8. CASE UNCHANGED vars
  <2>1. UNCHANGED <<phase, nEvents, place, lastTask, modules>>
    BY <1>8 DEF vars, constructed, setup
  <2> QED
    BY <1>1, <2>1 DEF WaitedStayEmpty, Busy, ShareQueue
<1>9. CASE Next /\ (WaitReturns \/ Tasks \/ (Leave /\ phase' = phase))
  <2>1. UNCHANGED phase /\ Next
    BY <1>9, TasksLeave DEF WaitReturns
  <2> QED
    BY <1>2, <1>6, <2>1
<1> QED
  BY <1>3, <1>4, <1>5, <1>7, <1>8, <1>9 DEF Next, MainThread, Tasks

-----------------------------------------------------------------------------
(* The theorems. *)

\* IndInv holds in every reachable state.
THEOREM Invariance == Spec => []IndInv
<1>1. IndInv /\ [Next]_vars => IndInv'
  BY TypesStep, LoopStep, CountedStep, QueueAgreesStep, GivenOutStep, FailureStep, WaitedStep
     DEF IndInv
<1> QED
  BY InitInv, <1>1, PTL DEF Spec

\* The variables have their types, and the counts stay in their bounds: no
\* stream asks the source more than once too often, and no more hold lastTask
\* than there are streams and the main thread.
THEOREM TypeCorrect == Spec => []TypeOK
<1>1. IndInv => TypeOK
  <2> SUFFICES ASSUME IndInv PROVE TypeOK
    OBVIOUS
  <2> USE DEF IndInv
  <2>1. /\ phase \in Ended \cup {"filters", "producers", "paths", "finish", "reserve", "loop",
                                 "clone", "start", "drop", "wait", "dangling"}
        /\ buffer \in 0 .. 1 /\ nEvents \in 0 .. iNumConcurrentEvents
        /\ place \in [Streams -> {"none", "work", "queued", "serve", "served", "next",
                                  "broken", "ended"}]
        /\ m_fatalJobErrorOccured \in BOOLEAN /\ failed \in BOOLEAN
        /\ lastTask \in [at : {"held", "spawned", "done", "gone"}, group : Streams \cup {None}]
    BY DEF Types, SetupPhases, LoopPhases, EndPhases, Ended, Places
  <2>2. Len(m_schedules) \in 1 .. capacity
    <3>1. Len(m_schedules) \in Nat /\ capacity \in Nat
      BY LenProperties DEF Types
    <3> QED
      BY <3>1 DEF RoomForAll
  <2>3. m_seenEvents \in 0 .. pConfig.iterations + iNumConcurrentEvents
    BY Sizes, Counts DEF GivenOut, Types
  <2>4. holders \in 0 .. iNumConcurrentEvents + 1
    BY Sizes, Counts DEF Counted, Mine, Types
  <2>5. Range(pushed) = {s \in Streams : place[s] = "queued"}
    <3>1. pushed \in Seq(Streams)
      BY DEF Types
    <3>2. Range(pushed) = {pushed[i] : i \in 1 .. Len(pushed)} /\ Range(pushed) \subseteq Streams
      BY <3>1, RangeEquality, RangeOfSeq
    <3> QED
      BY <3>2 DEF QueueAgrees, Agrees
  <2>6. {s \in Streams : place[s] = "serve"} = {serving} \ {None}
    BY Sizes DEF QueueAgrees, Agrees, Types
  <2> QED
    BY <2>1, <2>2, <2>3, <2>4, <2>5, <2>6 DEF TypeOK
<1> QED
  BY Invariance, <1>1, PTL

\* lastTask, which ends the job, runs when all streams that were started have
\* ended; and the main thread makes a holder of a task that has run only where it
\* has more streams to start after that.
THEOREM LastIsLast == Spec => []LastTaskIsLast
<1>1. IndInv => LastTaskIsLast
  <2> SUFFICES ASSUME IndInv PROVE LastTaskIsLast
    OBVIOUS
  <2> USE DEF IndInv
  <2>1. lastTask.at # "held" => holders = 0 /\ Active = {}
    BY Counts DEF Counted, Mine
  <2>2. Active = {} => \A s \in Started : place[s] = "ended"
    BY DEF Active, Started
  <2>3. phase = "dangling" => Started # Streams
    <3>1. phase = "dangling" => place[0] = "none"
      BY Sizes DEF StartedInOrder, Reached, EndPhases, Types
    <3> QED
      BY <3>1, Sizes DEF Started
  <2> QED
    BY <2>1, <2>2, <2>3 DEF LastTaskIsLast, Counted, EndPhases
<1> QED
  BY Invariance, <1>1, PTL

\* No event is taken twice, by whatever streams in whatever order, and a job that
\* ends without exception has taken them all.
THEOREM OnceEach == Spec => []EveryEventOnce
<1>1. IndInv => EveryEventOnce
  <2> SUFFICES ASSUME IndInv PROVE EveryEventOnce
    OBVIOUS
  <2> USE DEF IndInv
  <2>1. \A i \in Events : handled[i] <= 1
    BY DEF GivenOut
  <2>2. phase \in {"returned", "missing_wait"} => m_seenEvents >= pConfig.iterations
    BY AllOver, Sizes DEF EndPhases, FailureKept, GivenOut
  <2>3. m_seenEvents >= pConfig.iterations => \A i \in Events : handled[i] = 1
    BY Sizes DEF GivenOut, Events, Types
  <2> QED
    BY <2>1, <2>2, <2>3 DEF EveryEventOnce
<1> QED
  BY Invariance, <1>1, PTL

\* processAll leaves its loop after all streams have ended and nobody is in the
\* run queue; it throws if and only if one of them failed; and a task group has a
\* task left then only if a stream can have been in the queue meanwhile.
THEOREM AllReturned == Spec => []ReturnsAfterAll
<1>1. IndInv => ReturnsAfterAll
  <2> SUFFICES ASSUME IndInv, phase \in Ended \ {"exit"}
               PROVE  /\ \A s \in Streams : place[s] = "ended"
                      /\ pushed = <<>> /\ serving = None
                      /\ (phase = "threw") <=> m_fatalJobErrorOccured
                      /\ phase = "missing_wait" => ShareQueue
    BY DEF ReturnsAfterAll
  <2> USE DEF IndInv
  <2>1. phase \in EndPhases /\ \A s \in Streams : place[s] = "ended"
    BY AllOver DEF Ended, EndPhases
  <2>2. serving = None
    BY <2>1 DEF QueueAgrees, Agrees, Types
  <2>3. pushed = <<>>
    <3>1. CASE pushed # <<>>
      BY <2>1, <3>1, QueueHead DEF QueueAgrees, Types
    <3> QED
      BY <3>1
  <2>4. (phase = "threw") <=> m_fatalJobErrorOccured
    BY <2>1 DEF FailureKept, EndPhases
  <2> QED
    BY <2>1, <2>2, <2>3, <2>4 DEF WaitedStayEmpty
<1> QED
  BY Invariance, <1>1, PTL

\* m_schedules is moved in memory, if at all, before the first stream starts: the
\* room that is reserved is enough for every Schedule that is cloned.
THEOREM SchedulesStay == Spec => SchedulesStayPut
<1>1. IndInv /\ [Next]_vars => [buffer' # buffer => Started = {}]_vars
  <2> SUFFICES ASSUME IndInv, Next, buffer' # buffer PROVE Started = {}
    OBVIOUS
  <2>1. CASE Reserve
    BY <2>1 DEF Reserve, IndInv, StartedInOrder, Reached, Started, LoopPhases, EndPhases
  <2>2. CASE CloneSchedule
    <3>1. Len(m_schedules) + 1 <= capacity
      BY <2>2, Sizes DEF CloneSchedule, IndInv, RoomForAll, StartedInOrder, Types, LoopPhases,
                         SetupPhases
    <3> QED
      BY <2>2, <3>1 DEF CloneSchedule, Grows
  <2>3. CASE SetupStep
    BY <2>3, SetupSteps
  <2>4. CASE MakeHolder \/ StartStream \/ EndTurn \/ WaitReturns \/ Leave
    BY <2>4 DEF MakeHolder, StartStream, EndTurn, WaitReturns, Leave, memory
  <2>5. CASE Tasks
    BY <2>5, TasksLeave DEF memory
  <2> QED
    BY <2>1, <2>2, <2>3, <2>4, <2>5 DEF Next, MainThread, Tasks
<1> QED
  BY Invariance, <1>1, PTL DEF Spec, SchedulesStayPut

-----------------------------------------------------------------------------
(* What main builds, and its copies. *)

\* The wrapper of a module in the s-th Schedule, if the one that was made from
\* the module is the n-th of all.
WrapperOf(id, n, s) ==
    [m_module |-> id, m_event |-> s, m_runQueue |-> choseQueue(modules[id].threadType, n),
     owner |-> n]

\* What has not been read yet of a list of the file.
IsRestOf(list) ==
    /\ rest \in Seq(Range(list))
    /\ Len(rest) <= Len(list)
    /\ \A i \in 1 .. Len(rest) : rest[i] = list[Len(list) - Len(rest) + i]

-----------------------------------------------------------------------------
(* The invariant, in parts. *)

\* Modules have been made from the part of the file that has been read, and
\* paths from that of theirs.
ReadSoFar ==
    /\ phase = "filters" =>
          /\ rest \in Seq(Range(pConfig.filters))
          /\ \A id \in DOMAIN modules : modules[id].base # "producer"
    /\ phase = "producers" =>
          /\ IsRestOf(pConfig.producers)
          /\ \A id \in DOMAIN modules : modules[id].base = "producer" =>
                \E i \in 1 .. Len(pConfig.producers) - Len(rest) :
                    /\ modules[id] = CreateProducer(pConfig.producers[i])
                    /\ modules[id] # NoModule
    /\ phase \in {"filters", "producers"} => m_schedules[1].m_paths = <<>>
    /\ phase = "paths" =>
          /\ IsRestOf(pConfig.paths)
          /\ Len(m_schedules[1].m_paths) = Len(pConfig.paths) - Len(rest)

\* What the variables of the setup are, as far as steps depend on it.
IsSchedule(sch) ==
    /\ sch = [m_filters |-> sch.m_filters, m_lookupMap |-> sch.m_lookupMap,
              m_producers |-> sch.m_producers, m_paths |-> sch.m_paths]
    /\ sch.m_filters \in Seq(Range(sch.m_filters))
    /\ sch.m_paths \in Seq(Range(sch.m_paths))

Shapes ==
    /\ modules \in Seq(Range(modules))
    /\ \A id \in DOMAIN modules : modules[id].threadType \in ThreadType
    /\ constructions \in Nat
    /\ IsSchedule(m_schedules[1])

\* Every wrapper belongs to the Event of its Schedule and has the run queue that
\* was chosen for its owner, the wrapper made from the module ...
WrappersAreOf(s) ==
    \A w \in Wrappers(m_schedules[s]) :
        /\ w.m_module \in DOMAIN modules
        /\ w.owner \in 1 .. constructions
        /\ w = WrapperOf(w.m_module, w.owner, s)

\* ... of which there is one for each module.
OneOwner == \A v, w \in AllWrappers : v.m_module = w.m_module <=> v.owner = w.owner

\* A Schedule finds a producer that made what it looks for.
LookupIsRight(s) ==
    LET sch == m_schedules[s]
    IN /\ \A key \in DOMAIN sch.m_lookupMap :
             LET n == modules[sch.m_lookupMap[key].m_module]
             IN n.base = "producer" /\ key \in {n.label} \X n.m_products
       /\ \A id \in DOMAIN modules : modules[id].base = "producer" =>
             /\ id \in DOMAIN sch.m_producers
             /\ sch.m_producers[id] \in DOMAIN sch.m_lookupMap
             /\ sch.m_lookupMap[sch.m_producers[id]].m_module = id

\* Its paths go through filters of its own with the names of the configuration.
LeadsTo(f, s, name) ==
    /\ f.schedule = s
    /\ f.filter \in DOMAIN m_schedules[s].m_filters
    /\ modules[m_schedules[s].m_filters[f.filter].m_module].label = name

PathsAreRight(s) ==
    LET paths == m_schedules[s].m_paths
    IN \A p \in DOMAIN paths : \A i \in DOMAIN paths[p] :
          LeadsTo(paths[p][i], s, pConfig.paths[p][i])

Built == /\ ReadSoFar /\ Shapes /\ OneOwner
         /\ \A s \in DOMAIN m_schedules :
               WrappersAreOf(s) /\ LookupIsRight(s) /\ PathsAreRight(s)

-----------------------------------------------------------------------------
(* Facts about the operators. *)

\* A filter that was created is one, whatever its class.
LEMMA CreatedFilter ==
    ASSUME NEW c, CreateFilter(c) # NoModule
    PROVE  CreateFilter(c).base = "filter"
<1> DEFINE f == CreateFilter(c)
<1>1. \/ f = EventTimesPassFilterBase(c) \/ f = EventTimesSyncGetPassFilterBase(c)
      \/ f = BusyWaitPassFilter(c)       \/ f = SleepingPassFilter(c)
      \/ f = FastPassFilter(c)           \/ f = PassFilter(c)
      \/ f = ThreadSaferGetterFilter(c)  \/ f = ThrowingFilter(c)
  BY DEF CreateFilter, EventTimesBusyWaitPassFilter, EventTimesSleepingPassFilter,
         EventTimesBusyWaitParallelForPassFilter, EventTimesSleepingParallelForPassFilter,
         EventTimesBusyWaitTaskStealingParallelForPassFilter,
         EventTimesSleepingTaskStealingParallelForPassFilter,
         EventTimesSyncGetSleepingPassFilter
<1> HIDE DEF f
<1> USE DEF Filter, Constructed
<1>2. f = EventTimesPassFilterBase(c) => f.base = "filter"
  BY DEF EventTimesPassFilterBase
<1>3. f = EventTimesSyncGetPassFilterBase(c) => f.base = "filter"
  BY DEF EventTimesSyncGetPassFilterBase
<1>4. f = BusyWaitPassFilter(c) \/ f = SleepingPassFilter(c) => f.base = "filter"
  BY DEF BusyWaitPassFilter, SleepingPassFilter
<1>5. f = FastPassFilter(c) \/ f = PassFilter(c) => f.base = "filter"
  <2>1. f = FastPassFilter(c) => f.base = "filter"
    BY DEF FastPassFilter
  <2>2. \A keep : [Filter(c, "kThreadSafeBetweenModules") EXCEPT !.keep = keep].base = "filter"
    OBVIOUS
  <2>3. f = PassFilter(c) => f.base = "filter"
    BY <2>2 DEF PassFilter
  <2> QED
    BY <2>1, <2>3
<1>6. f = ThreadSaferGetterFilter(c) \/ f = ThrowingFilter(c) => f.base = "filter"
  BY DEF ThreadSaferGetterFilter, ThrowingFilter
<1> QED
  BY <1>1, <1>2, <1>3, <1>4, <1>5, <1>6 DEF f

\* A producer that was created is one, and makes one datum.
LEMMA CreatedProducer ==
    ASSUME NEW c, CreateProducer(c) # NoModule
    PROVE  /\ CreateProducer(c).base = "producer"
           /\ \E x : CreateProducer(c).m_products = {x}
<1> DEFINE n == CreateProducer(c)
           Good == n.base = "producer" /\ \E x : n.m_products = {x}
<1>1. \/ n = EventTimesProducerBase(c) \/ n = EventTimesSyncGetProducerBase(c)
      \/ n = BusyWaitProducer(c)       \/ n = SleepingProducer(c)
      \/ n = FastProducer(c)           \/ n = SleepingWithAcquireProducer(c)
      \/ n = ThrowingProducer(c)       \/ n = ThreadSafeProducer(c)
  BY DEF CreateProducer, EventTimesBusyWaitProducer, EventTimesSleepingProducer,
         EventTimesSyncGetSleepingProducer
<1> HIDE DEF n
<1> USE DEF Producer, Constructed
<1>2. n = EventTimesProducerBase(c) => Good
  BY DEF EventTimesProducerBase
<1>3. n = EventTimesSyncGetProducerBase(c) => Good
  BY DEF EventTimesSyncGetProducerBase
<1>4. n = BusyWaitProducer(c) \/ n = SleepingProducer(c) => Good
  BY DEF BusyWaitProducer, SleepingProducer
<1>5. n = FastProducer(c) \/ n = SleepingWithAcquireProducer(c) => Good
  BY DEF FastProducer, SleepingWithAcquireProducer
<1>6. n = ThrowingProducer(c) \/ n = ThreadSafeProducer(c) => Good
  BY DEF ThrowingProducer, ThreadSafeProducer
<1> QED
  BY <1>1, <1>2, <1>3, <1>4, <1>5, <1>6 DEF n

\* A set of numbers has a smallest one.
LEMMA Smallest ==
    ASSUME NEW I \in SUBSET Nat, I # {}
    PROVE  Min(I) \in I
<1>1. IsWellFoundedOn(OpToRel(<, Nat), Nat)
  BY NatLessThanWellFounded
<1>2. \E x \in I : \A y \in I : ~(<<y, x>> \in OpToRel(<, Nat))
  BY <1>1, WFMin, Zenon
<1>3. PICK x \in I : \A y \in I : ~(<<y, x>> \in OpToRel(<, Nat))
  BY <1>2
<1>4. \A y \in I : ~(y < x)
  BY <1>3 DEF OpToRel
<1>5. \A y \in I : x =< y
  BY <1>4
<1> QED
  BY <1>5 DEF Min

\* There is one way to put one key into a sequence.
LEMMA OneKey ==
    ASSUME NEW k
    PROVE  SetToSeq({k}) = <<k>>
<1>1. IsFiniteSet({k}) /\ Cardinality({k}) = 1
  BY FS_Singleton
<1> DEFINE s == <<k>>
<1>2. s \in [1 .. 1 -> {k}] /\ IsInjective(s)
  BY DEF IsInjective
<1>3. \A f, g \in [1 .. 1 -> {k}] : f = g
  OBVIOUS
<1>4. SetToSeq({k}) \in [1 .. 1 -> {k}]
  BY <1>1, <1>2 DEF SetToSeq
<1> QED
  BY <1>2, <1>3, <1>4

\* findFilter gives the place of a filter with the label.
LEMMA FoundFilter ==
    ASSUME NEW sch, IsSchedule(sch), NEW label,
           findFilter(sch, label) # 0
    PROVE  /\ findFilter(sch, label) \in DOMAIN sch.m_filters
           /\ modules[sch.m_filters[findFilter(sch, label)].m_module].label = label
<1> DEFINE I == {i \in 1 .. Len(sch.m_filters) : modules[sch.m_filters[i].m_module].label = label}
<1>1. I # {} /\ findFilter(sch, label) = Min(I)
  BY DEF findFilter, SelectInSeq
<1>2. Len(sch.m_filters) \in Nat /\ DOMAIN sch.m_filters = 1 .. Len(sch.m_filters)
  BY DEF IsSchedule
<1>3. I \in SUBSET Nat
  BY <1>2
<1>4. Min(I) \in I
  BY <1>1, <1>3, Smallest
<1> QED
  BY <1>1, <1>2, <1>4

\* A wrapper that is made from the module that gets the next ID.
LEMMA MadeWrapper ==
    ASSUME NEW id, NEW module, NEW n, modules'[id] = module
    PROVE  /\ FilterWrapper(id, module, 1, n) = WrapperOf(id, n, 1)'
           /\ DataCache(id, module, 1, n) = WrapperOf(id, n, 1)'
<1>1. ASSUME NEW q
      PROVE  Join([m_module |-> id, m_event |-> 1, m_runQueue |-> q], [owner |-> n]) =
                [m_module |-> id, m_event |-> 1, m_runQueue |-> q, owner |-> n]
  <2> DEFINE r == [m_module |-> id, m_event |-> 1, m_runQueue |-> q]
             o == [owner |-> n]
             w == [m_module |-> id, m_event |-> 1, m_runQueue |-> q, owner |-> n]
  <2>1. /\ DOMAIN r = {"m_module", "m_event", "m_runQueue"} /\ DOMAIN o = {"owner"}
        /\ DOMAIN w = {"m_module", "m_event", "m_runQueue", "owner"}
    OBVIOUS
  <2>2. DOMAIN r \cup DOMAIN o = DOMAIN w
    BY <2>1
  <2>3. \A x \in DOMAIN w : w[x] = IF x \in DOMAIN o THEN o[x] ELSE r[x]
    BY <2>1
  <2>4. w = [x \in DOMAIN w |-> w[x]]
    OBVIOUS
  <2> QED
    BY <2>2, <2>3, <2>4, Zenon DEF Join
<1> QED
  BY <1>1 DEF FilterWrapper, DataCache, ProducerWrapper, ModuleWrapper, WrapperOf, choseQueue

\* A copy of a wrapper has the run queue that was chosen for the owner.
LEMMA CopiedWrapper ==
    ASSUME NEW id, NEW n, NEW s, NEW e, modules[id].threadType \in ThreadType
    PROVE  CopyWrapper(WrapperOf(id, n, s), e) = WrapperOf(id, n, e)
<1> DEFINE type == modules[id].threadType
           q == choseQueue(type, n)
           w == WrapperOf(id, n, s)
<1>1. type = "kThreadSafeBetweenInstances" => q = NoQueue
  BY DEF choseQueue
<1>2. w = [m_module |-> id, m_event |-> s, m_runQueue |-> q, owner |-> n]
  BY DEF WrapperOf
<1> HIDE DEF q, type, w
<1> DEFINE r == [m_module |-> id, m_event |-> s, m_runQueue |-> q, owner |-> n]
           c == [m_module |-> id, m_event |-> e, m_runQueue |-> q, owner |-> n]
<1>3. [w EXCEPT !.m_event = e, !.m_runQueue = q] = c
  <2>1. [r EXCEPT !.m_event = e] = c
    OBVIOUS
  <2>2. [c EXCEPT !.m_runQueue = q] = c
    OBVIOUS
  <2> QED
    BY <1>2, <2>1, <2>2, Zenon
<1>4. w.m_runQueue = q /\ w.m_module = id
  BY <1>2
<1>5. CASE type = "kThreadSafeBetweenInstances"
  <2>1. CopyWrapper(w, e) = [w EXCEPT !.m_event = e, !.m_runQueue = NoQueue]
    BY <1>4, <1>5 DEF CopyWrapper, type
  <2> QED
    BY <1>1, <1>2, <1>3, <1>5, <2>1 DEF WrapperOf, q, type, w
<1>6. CASE type # "kThreadSafeBetweenInstances"
  <2>1. CopyWrapper(w, e) = [w EXCEPT !.m_event = e, !.m_runQueue = w.m_runQueue]
    BY <1>4, <1>6 DEF CopyWrapper, type
  <2> QED
    BY <1>2, <1>3, <1>4, <2>1 DEF WrapperOf, q, type, w
<1> QED
  BY <1>5, <1>6

-----------------------------------------------------------------------------
(* While main reads the configuration there is one Schedule. *)

\* It is the first of the EventProcessor, and all wrappers are in it.
LEMMA OneSchedule ==
    ASSUME IndInv, phase \in SetupPhases
    PROVE  DOMAIN m_schedules = {1} /\ AllWrappers = Wrappers(m_schedules[1])
<1>1. m_schedules \in Seq(Range(m_schedules)) /\ Len(m_schedules) = 1
  BY DEF IndInv, Types, Untouched
<1>2. DOMAIN m_schedules = {1}
  BY <1>1
<1> QED
  BY <1>2 DEF AllWrappers

\* A sequence with one element more.
LEMMA OneMore ==
    ASSUME NEW s, s \in Seq(Range(s)), NEW e
    PROVE  /\ Append(s, e) \in Seq(Range(Append(s, e)))
           /\ Len(s) \in Nat /\ Len(Append(s, e)) = Len(s) + 1
           /\ DOMAIN s = 1 .. Len(s) /\ DOMAIN Append(s, e) = 1 .. Len(s) + 1
           /\ \A i \in 1 .. Len(s) : Append(s, e)[i] = s[i]
           /\ Append(s, e)[Len(s) + 1] = e
           /\ Range(Append(s, e)) = Range(s) \cup {e}
<1>1. /\ Len(s) \in Nat /\ DOMAIN s = 1 .. Len(s)
      /\ Len(Append(s, e)) = Len(s) + 1 /\ DOMAIN Append(s, e) = 1 .. Len(s) + 1
      /\ \A i \in 1 .. Len(s) : Append(s, e)[i] = s[i]
      /\ Append(s, e)[Len(s) + 1] = e
  OBVIOUS
<1>2. Range(Append(s, e)) = Range(s) \cup {e}
  <2>1. 1 .. Len(s) + 1 = 1 .. Len(s) \cup {Len(s) + 1}
    BY <1>1
  <2> QED
    BY <1>1, <2>1 DEF Range
<1> QED
  BY <1>1, <1>2, AppendOwnRange

\* What has not been read yet, when one element more has been.
LEMMA RestGetsShorter ==
    ASSUME NEW list, list \in Seq(Range(list)), IsRestOf(list), rest # <<>>, rest' = Tail(rest)
    PROVE  /\ Len(list) - Len(rest) + 1 \in DOMAIN list
           /\ Head(rest) = list[Len(list) - Len(rest) + 1]
           /\ IsRestOf(list)' /\ Len(rest') = Len(rest) - 1
<1>1. /\ rest \in Seq(Range(list)) /\ Len(list) \in Nat /\ Len(rest) \in Nat \ {0}
      /\ DOMAIN list = 1 .. Len(list) /\ Len(rest) <= Len(list)
  BY DEF IsRestOf
<1>2. /\ rest' \in Seq(Range(list)) /\ Len(rest') = Len(rest) - 1
      /\ \A i \in 1 .. Len(rest') : rest'[i] = rest[i + 1]
  BY <1>1
<1>3. \A i \in 1 .. Len(rest') : rest'[i] = list[Len(list) - Len(rest') + i]
  <2> SUFFICES ASSUME NEW i \in 1 .. Len(rest')
               PROVE  rest'[i] = list[Len(list) - Len(rest') + i]
    OBVIOUS
  <2>1. i + 1 \in 1 .. Len(rest)
    BY <1>1, <1>2
  <2>2. rest[i + 1] = list[Len(list) - Len(rest) + (i + 1)]
    BY <2>1 DEF IsRestOf
  <2>3. Len(list) - Len(rest) + (i + 1) = Len(list) - Len(rest') + i
    BY <1>1, <1>2
  <2> QED
    BY <1>2, <2>2, <2>3
<1>4. Head(rest) = rest[1] /\ rest[1] = list[Len(list) - Len(rest) + 1]
  BY <1>1 DEF IsRestOf
<1> QED
  BY <1>1, <1>2, <1>3, <1>4 DEF IsRestOf

\* Nothing of a list has been read at first.
LEMMA RestAtFirst ==
    ASSUME NEW list, list \in Seq(Range(list)), rest' = list
    PROVE  IsRestOf(list)'
<1>1. Len(list) \in Nat
  OBVIOUS
<1>2. \A i \in 1 .. Len(list) : Len(list) - Len(list) + i = i
  BY <1>1
<1> QED
  BY <1>1, <1>2 DEF IsRestOf

-----------------------------------------------------------------------------
(* Each step of the setup preserves the parts. *)

\* A Schedule that is left alone stays right.
LEMMA LeftAlone ==
    ASSUME NEW s, UNCHANGED <<pConfig, modules, constructions, m_schedules[s]>>,
           WrappersAreOf(s), LookupIsRight(s), PathsAreRight(s)
    PROVE  WrappersAreOf(s)' /\ LookupIsRight(s)' /\ PathsAreRight(s)'
<1>1. WrappersAreOf(s)'
  BY DEF WrappersAreOf, Wrappers, WrapperOf
<1>2. LookupIsRight(s)'
  BY DEF LookupIsRight
<1>3. PathsAreRight(s)'
  <2>1. ASSUME NEW f, NEW name PROVE LeadsTo(f, s, name)' <=> LeadsTo(f, s, name)
    BY DEF LeadsTo
  <2>2. UNCHANGED <<m_schedules[s].m_paths, pConfig.paths>>
    OBVIOUS
  <2> QED
    BY <2>1, <2>2, Zenon DEF PathsAreRight
<1> QED
  BY <1>1, <1>2, <1>3

\* Only ReadSoFar depends on what main is at.
LEMMA StillBuilt ==
    ASSUME Built, ReadSoFar', UNCHANGED <<pConfig, modules, m_schedules, constructions>>
    PROVE  Built'
<1>1. Shapes' /\ OneOwner'
  BY DEF Built, Shapes, OneOwner, AllWrappers, Wrappers
<1>2. ASSUME NEW s \in DOMAIN m_schedules
      PROVE  WrappersAreOf(s)' /\ LookupIsRight(s)' /\ PathsAreRight(s)'
  BY LeftAlone DEF Built
<1> QED
  BY <1>1, <1>2 DEF Built

\* A module more: it has the next ID, and the others stay.
LEMMA ModuleMade ==
    ASSUME Shapes, NEW module, module.threadType \in ThreadType,
           modules' = Append(modules, module)
    PROVE  /\ Len(modules) \in Nat
           /\ DOMAIN modules = 1 .. Len(modules)
           /\ DOMAIN modules' = 1 .. Len(modules) + 1
           /\ Len(modules') = Len(modules) + 1
           /\ \A i \in DOMAIN modules : modules'[i] = modules[i]
           /\ modules'[Len(modules) + 1] = module
           /\ modules' \in Seq(Range(modules'))
           /\ \A i \in DOMAIN modules' : modules'[i].threadType \in ThreadType
           /\ \A i \in DOMAIN modules : \A n, s : WrapperOf(i, n, s)' = WrapperOf(i, n, s)
<1>1. modules \in Seq(Range(modules)) /\ \A i \in DOMAIN modules : modules[i].threadType \in ThreadType
  BY DEF Shapes
<1>2. /\ Len(modules) \in Nat
      /\ DOMAIN modules = 1 .. Len(modules)
      /\ DOMAIN modules' = 1 .. Len(modules) + 1
      /\ Len(modules') = Len(modules) + 1
      /\ \A i \in DOMAIN modules : modules'[i] = modules[i]
      /\ modules'[Len(modules) + 1] = module
      /\ modules' \in Seq(Range(modules'))
  BY <1>1, OneMore
<1>3. \A i \in DOMAIN modules' : modules'[i].threadType \in ThreadType
  <2> SUFFICES ASSUME NEW i \in DOMAIN modules' PROVE modules'[i].threadType \in ThreadType
    OBVIOUS
  <2>1. i \in DOMAIN modules \/ i = Len(modules) + 1
    BY <1>2
  <2> QED
    BY <1>1, <1>2, <2>1
<1>4. \A i \in DOMAIN modules : \A n, s : WrapperOf(i, n, s)' = WrapperOf(i, n, s)
  BY <1>2 DEF WrapperOf
<1> QED
  BY <1>2, <1>3, <1>4

\* One wrapper more, for a new module and with a new owner.
LEMMA WrapperMade ==
    ASSUME IndInv, Built, phase \in SetupPhases, Shapes',
           NEW module, module.threadType \in ThreadType, modules' = Append(modules, module),
           constructions' = constructions + 1,
           NEW u, u = WrapperOf(Len(modules), constructions, 1)',
           NEW x, m_schedules' = <<x>>, Wrappers(x) = Wrappers(m_schedules[1]) \cup {u}
    PROVE  OneOwner' /\ WrappersAreOf(1)' /\ DOMAIN m_schedules' = {1}
<1> DEFINE W == Wrappers(m_schedules[1])
<1>1. /\ DOMAIN m_schedules = {1} /\ AllWrappers = W
      /\ DOMAIN m_schedules' = {1} /\ m_schedules'[1] = x
  BY OneSchedule
<1>2. AllWrappers' = W \cup {u} /\ Wrappers(m_schedules'[1]) = W \cup {u}
  BY <1>1 DEF AllWrappers, Wrappers
<1>3. /\ constructions \in Nat /\ Len(modules) \in Nat /\ Len(modules') = Len(modules) + 1
      /\ DOMAIN modules = 1 .. Len(modules) /\ DOMAIN modules' = 1 .. Len(modules) + 1
      /\ \A i \in DOMAIN modules : \A n, s : WrapperOf(i, n, s)' = WrapperOf(i, n, s)
  BY ModuleMade DEF Built, Shapes
<1>4. u.m_module = Len(modules) + 1 /\ u.owner = constructions + 1 /\ u = WrapperOf(u.m_module, u.owner, 1)'
  <2>1. u.m_module = Len(modules') /\ u.owner = constructions'
    BY DEF WrapperOf
  <2> QED
    BY <1>3, <2>1
<1> HIDE DEF W
<1>5. \A w \in W : /\ w.m_module \in 1 .. Len(modules) /\ w.owner \in 1 .. constructions
                   /\ w = WrapperOf(w.m_module, w.owner, 1)
  BY <1>1, <1>3 DEF Built, WrappersAreOf, W
<1>6. WrappersAreOf(1)'
  <2> SUFFICES ASSUME NEW w \in W \cup {u}
               PROVE  /\ w.m_module \in DOMAIN modules' /\ w.owner \in 1 .. constructions'
                      /\ w = WrapperOf(w.m_module, w.owner, 1)'
    BY <1>2 DEF WrappersAreOf, Wrappers
  <2>1. CASE w \in W
    <3>1. w.m_module \in DOMAIN modules' /\ w.owner \in 1 .. constructions'
      BY <1>3, <1>5, <2>1
    <3>2. WrapperOf(w.m_module, w.owner, 1)' = WrapperOf(w.m_module, w.owner, 1)
      BY <1>3, <1>5, <2>1
    <3>3. w = WrapperOf(w.m_module, w.owner, 1)
      BY <1>5, <2>1
    <3> QED
      BY <3>1, <3>2, <3>3
  <2>2. CASE w = u
    BY <1>3, <1>4, <2>2
  <2> QED
    BY <2>1, <2>2
<1>7. OneOwner'
  <2>1. \A v, w \in W : v.m_module = w.m_module <=> v.owner = w.owner
    BY <1>1 DEF Built, OneOwner
  <2>2. \A w \in W : w.m_module # u.m_module /\ w.owner # u.owner
    BY <1>3, <1>4, <1>5
  <2>3. \A v, w \in W \cup {u} : v.m_module = w.m_module <=> v.owner = w.owner
    BY <2>1, <2>2
  <2> QED
    BY <1>2, <2>3 DEF OneOwner
<1> QED
  BY <1>1, <1>6, <1>7

\* What the parts say of the one Schedule there is then.
LEMMA OneBuilt ==
    ASSUME IndInv, Built, phase \in SetupPhases
    PROVE  WrappersAreOf(1) /\ LookupIsRight(1) /\ PathsAreRight(1)
  BY OneSchedule DEF Built

\* The next filter of the file: its wrapper is the last one.
LEMMA FilterStep ==
    ASSUME IndInv, Built, AddFilter
    PROVE  Built'
<1> DEFINE c == Head(rest)
           f == CreateFilter(c)
           sch == m_schedules[1]
<1>1. phase = "filters" /\ phase \in SetupPhases /\ rest # <<>> /\ UNCHANGED pConfig
  BY DEF AddFilter, SetupPhases
<1>2. CASE f = NoModule
  <2>1. phase' = "exit" /\ UNCHANGED <<pConfig, modules, m_schedules, constructions>>
    BY <1>2 DEF AddFilter, GiveUp, Becomes
  <2>2. ReadSoFar'
    BY <2>1 DEF ReadSoFar
  <2> QED
    BY <2>1, <2>2, StillBuilt
<1>3. CASE f # NoModule
  <2>1. /\ phase' = "filters" /\ rest' = Tail(rest)
        /\ modules' = Append(modules, f)
        /\ m_schedules' = <<addFilter(sch, Len(modules'), f)>>
        /\ constructions' = constructions + 1
    BY <1>3 DEF AddFilter, Becomes, KeepFilter
  <2>2. rest \in Seq(Range(pConfig.filters)) /\ c \in Range(pConfig.filters)
        /\ rest' \in Seq(Range(pConfig.filters))
    <3>1. rest \in Seq(Range(pConfig.filters))
      BY <1>1 DEF Built, ReadSoFar
    <3> QED
      BY <1>1, <2>1, <3>1
  <2>3. f.base = "filter" /\ f.threadType \in ThreadType
    BY <1>3, <2>2, CreatedFilter, ConfigurationAssumption DEF IndInv, Types
  <2>4. Shapes
    BY DEF Built
  <2> DEFINE id == Len(modules) + 1
  <2> HIDE DEF f
  <2>5. /\ Len(modules) \in Nat /\ Len(modules') = id
        /\ DOMAIN modules = 1 .. Len(modules) /\ DOMAIN modules' = 1 .. id
        /\ \A i \in DOMAIN modules : modules'[i] = modules[i]
        /\ modules'[id] = f
        /\ modules' \in Seq(Range(modules'))
        /\ \A i \in DOMAIN modules' : modules'[i].threadType \in ThreadType
    BY <2>1, <2>3, <2>4, ModuleMade
  <2>6. PICK u : u = FilterWrapper(id, f, 1, constructions + 1)
    OBVIOUS
  <2>7. u = WrapperOf(Len(modules), constructions, 1)'
    <3>1. PICK k, n : k = Len(modules') /\ n = constructions'
      OBVIOUS
    <3>2. modules'[k] = f /\ u = FilterWrapper(k, f, 1, n)
      BY <2>1, <2>5, <2>6, <3>1
    <3>3. u = WrapperOf(k, n, 1)'
      BY <3>2, MadeWrapper
    <3> QED
      BY <3>1, <3>3 DEF WrapperOf
  <2>8. PICK x : x = addFilter(sch, id, f)
    OBVIOUS
  <2>9. m_schedules' = <<x>> /\ m_schedules'[1] = x
    BY <2>1, <2>5, <2>8
  <2>10. IsSchedule(sch) /\ constructions \in Nat
    BY <2>4 DEF Shapes
  <2>11. /\ x.m_filters = Append(sch.m_filters, u) /\ x.m_lookupMap = sch.m_lookupMap
         /\ x.m_producers = sch.m_producers /\ x.m_paths = sch.m_paths
         /\ Range(x.m_filters) = Range(sch.m_filters) \cup {u}
         /\ IsSchedule(x)
    <3>1. x = [sch EXCEPT !.m_filters = Append(sch.m_filters, u)]
      BY <2>6, <2>8 DEF addFilter
    <3> HIDE DEF sch
    <3>2. PICK a, b, d, e : sch = [m_filters |-> a, m_lookupMap |-> b, m_producers |-> d, m_paths |-> e]
      BY <2>10 DEF IsSchedule
    <3>3. x = [m_filters |-> Append(a, u), m_lookupMap |-> b, m_producers |-> d, m_paths |-> e]
      BY <3>1, <3>2
    <3>4. a \in Seq(Range(a)) /\ e \in Seq(Range(e))
      BY <2>10, <3>2 DEF IsSchedule
    <3>5. /\ Append(a, u) \in Seq(Range(Append(a, u)))
          /\ Range(Append(a, u)) = Range(a) \cup {u}
      BY <3>4, OneMore
    <3> QED
      BY <3>2, <3>3, <3>4, <3>5 DEF IsSchedule
  <2>12. Shapes'
    BY <2>1, <2>5, <2>9, <2>10, <2>11 DEF Shapes
  <2>13. Wrappers(x) = Wrappers(sch) \cup {u}
    BY <2>11 DEF Wrappers
  <2>14. OneOwner' /\ WrappersAreOf(1)' /\ DOMAIN m_schedules' = {1}
    BY <1>1, <2>1, <2>3, <2>7, <2>9, <2>12, <2>13, WrapperMade
  <2>15. LookupIsRight(1) /\ sch.m_paths = <<>> /\ \A i \in DOMAIN modules : modules[i].base # "producer"
    BY <1>1, OneBuilt DEF Built, ReadSoFar
  <2>16. LookupIsRight(1)'
    <3>1. \A i \in DOMAIN modules' : modules'[i].base # "producer"
      BY <2>3, <2>5, <2>15
    <3>2. \A key \in DOMAIN sch.m_lookupMap : sch.m_lookupMap[key] \in Wrappers(sch)
      BY DEF Wrappers, Range
    <3>3. \A key \in DOMAIN sch.m_lookupMap : sch.m_lookupMap[key].m_module \in DOMAIN modules
      BY <1>1, <3>2, OneBuilt DEF WrappersAreOf
    <3>4. DOMAIN sch.m_lookupMap = {}
      BY <2>15, <3>3 DEF LookupIsRight
    <3> QED
      BY <2>9, <2>11, <3>1, <3>4 DEF LookupIsRight
  <2>17. PathsAreRight(1)'
    BY <2>9, <2>11, <2>15 DEF PathsAreRight
  <2>18. ReadSoFar'
    <3>1. \A i \in DOMAIN modules' : modules'[i].base # "producer"
      BY <2>3, <2>5, <2>15
    <3> QED
      BY <1>1, <2>1, <2>2, <2>9, <2>11, <2>15, <3>1 DEF ReadSoFar
  <2> QED
    BY <2>12, <2>14, <2>16, <2>17, <2>18 DEF Built
<1> QED
  BY <1>2, <1>3

\* Schedule x has an entry more in the lookup than sch: at key k, for the
\* producer with this ID.
HasOneMore(x, sch, id, k, u) ==
    /\ IsSchedule(x) /\ x.m_filters = sch.m_filters /\ x.m_paths = sch.m_paths
    /\ DOMAIN x.m_lookupMap = DOMAIN sch.m_lookupMap \cup {k}
    /\ x.m_lookupMap[k] = u
    /\ \A key \in DOMAIN sch.m_lookupMap : x.m_lookupMap[key] = sch.m_lookupMap[key]
    /\ DOMAIN x.m_producers = DOMAIN sch.m_producers \cup {id}
    /\ x.m_producers[id] = k
    /\ \A i \in DOMAIN sch.m_producers \ {id} : x.m_producers[i] = sch.m_producers[i]

\* What a producer of one datum adds to a Schedule that has none of that key.
LEMMA ProducerAdded ==
    ASSUME NEW sch, IsSchedule(sch), NEW id, NEW module, NEW product,
           module.m_products = {product},
           <<module.label, product>> \notin DOMAIN sch.m_lookupMap
    PROVE  HasOneMore(addProducer(sch, id, module), sch, id, <<module.label, product>>,
                      DataCache(id, module, 1, constructions + 1))
<1> SUFFICES ASSUME NEW k, k = <<module.label, product>>,
                    NEW u, u = DataCache(id, module, 1, constructions + 1),
                    NEW x, x = addProducer(sch, id, module)
             PROVE  HasOneMore(x, sch, id, k, u)
  OBVIOUS
<1> DEFINE keys == SetToSeq({module.label} \X module.m_products)
           made == [key \in Range(keys) |->
                       DataCache(id, module, 1, constructions + SelectInSeq(keys, LAMBDA j : j = key))]
           byID == [i \in {id} |-> Last(keys)]
<1>1. {module.label} \X module.m_products = {k}
  OBVIOUS
<1>2. keys = <<k>>
  BY <1>1, OneKey
<1> HIDE DEF keys
<1>3. Len(keys) = 1 /\ keys[1] = k /\ Range(keys) = {k} /\ Last(keys) = k /\ keys # <<>>
  <2>1. \A v : /\ Len(<<v>>) = 1 /\ <<v>>[1] = v /\ Range(<<v>>) = {v} /\ Last(<<v>>) = v
               /\ <<v>> # <<>>
    BY DEF Range, Last
  <2> QED
    BY <1>2, <2>1, Zenon
<1>4. SelectInSeq(keys, LAMBDA j : j = k) = 1
  <2> DEFINE I == {i \in 1 .. Len(keys) : keys[i] = k}
  <2>1. I = {1}
    BY <1>3
  <2>2. Min(I) = 1
    BY <2>1, Smallest
  <2> QED
    BY <2>1, <2>2 DEF SelectInSeq
<1>5. made = [key \in {k} |-> u]
  <2>1. made[k] = DataCache(id, module, 1, constructions + SelectInSeq(keys, LAMBDA j : j = k))
    BY <1>3
  <2>2. made[k] = u
    BY <1>4, <2>1
  <2>3. DOMAIN made = {k} /\ made = [key \in DOMAIN made |-> made[key]]
    BY <1>3
  <2> QED
    BY <2>2, <2>3
<1>6. byID = [i \in {id} |-> k]
  BY <1>3
<1>7. x = [sch EXCEPT !.m_lookupMap = Join(made, sch.m_lookupMap),
                      !.m_producers = Join(sch.m_producers, byID)]
  BY <1>3 DEF addProducer, keys
<1> HIDE DEF made, byID
<1>8. PICK a, b, d, e : sch = [m_filters |-> a, m_lookupMap |-> b, m_producers |-> d, m_paths |-> e]
  BY DEF IsSchedule
<1>9. x = [m_filters |-> a, m_lookupMap |-> Join(made, b), m_producers |-> Join(d, byID), m_paths |-> e]
  BY <1>7, <1>8
<1>10. IsSchedule(x) /\ x.m_filters = sch.m_filters /\ x.m_paths = sch.m_paths
  BY <1>8, <1>9 DEF IsSchedule
<1>11. /\ DOMAIN x.m_lookupMap = DOMAIN sch.m_lookupMap \cup {k}
       /\ x.m_lookupMap[k] = u
       /\ \A key \in DOMAIN sch.m_lookupMap : x.m_lookupMap[key] = sch.m_lookupMap[key]
  <2>1. x.m_lookupMap = Join(made, sch.m_lookupMap)
    BY <1>8, <1>9
  <2>2. DOMAIN made = {k} /\ made[k] = u
    BY <1>5
  <2> QED
    BY <2>1, <2>2 DEF Join
<1>12. /\ DOMAIN x.m_producers = DOMAIN sch.m_producers \cup {id}
       /\ x.m_producers[id] = k
       /\ \A i \in DOMAIN sch.m_producers \ {id} : x.m_producers[i] = sch.m_producers[i]
  <2>1. x.m_producers = Join(sch.m_producers, byID)
    BY <1>8, <1>9
  <2>2. DOMAIN byID = {id} /\ byID[id] = k
    BY <1>6
  <2> QED
    BY <2>1, <2>2 DEF Join
<1> QED
  BY <1>10, <1>11, <1>12 DEF HasOneMore

\* The next producer of the file: its datum has no entry in the lookup yet.
LEMMA ProducerStep ==
    ASSUME IndInv, Built, AddProducer
    PROVE  Built'
<1> DEFINE P == pConfig.producers
           j == Len(P) - Len(rest) + 1
           c == Head(rest)
           f == CreateProducer(c)
           sch == m_schedules[1]
<1>1. phase = "producers" /\ phase \in SetupPhases /\ rest # <<>> /\ UNCHANGED pConfig
  BY DEF AddProducer, SetupPhases
<1>2. CASE f = NoModule
  <2>1. phase' = "exit" /\ UNCHANGED <<pConfig, modules, m_schedules, constructions>>
    BY <1>2 DEF AddProducer, GiveUp, Becomes
  <2>2. ReadSoFar'
    BY <2>1 DEF ReadSoFar
  <2> QED
    BY <2>1, <2>2, StillBuilt
<1>3. CASE f # NoModule
  <2>1. /\ phase' = "producers" /\ rest' = Tail(rest)
        /\ modules' = Append(modules, f)
        /\ m_schedules' = <<addProducer(sch, Len(modules'), f)>>
        /\ constructions' = constructions + Cardinality(f.m_products)
    BY <1>3 DEF AddProducer, Becomes, KeepProducer
  <2>2. pConfig \in Configurations /\ P \in Seq(Range(P)) /\ IsRestOf(P)
    BY <1>1, ConfigurationAssumption DEF IndInv, Types, Built, ReadSoFar
  <2>3. /\ j \in DOMAIN P /\ c = P[j] /\ Len(rest') = Len(rest) - 1 /\ IsRestOf(P)'
        /\ Len(P) \in Nat /\ Len(rest) \in Nat \ {0} /\ DOMAIN P = 1 .. Len(P)
    <3>1. Len(P) \in Nat /\ Len(rest) \in Nat \ {0} /\ DOMAIN P = 1 .. Len(P)
      BY <1>1, <2>2 DEF IsRestOf
    <3>2. PICK list : list = P
      OBVIOUS
    <3>3. /\ Len(list) - Len(rest) + 1 \in DOMAIN list
          /\ Head(rest) = list[Len(list) - Len(rest) + 1]
          /\ IsRestOf(list)' /\ Len(rest') = Len(rest) - 1
      BY <1>1, <2>1, <2>2, <3>2, RestGetsShorter
    <3>4. pConfig'.producers = list
      BY <1>1, <3>2
    <3> QED
      BY <3>1, <3>2, <3>3, <3>4
  <2>4. f.threadType \in ThreadType /\ f.base = "producer" /\ \E p : f.m_products = {p}
    <3>1. c \in Range(P)
      BY <2>3 DEF Range
    <3> QED
      BY <1>3, <2>2, <3>1, CreatedProducer, ConfigurationAssumption
  <2>5. PICK p : f.m_products = {p}
    BY <2>4
  <2>6. constructions' = constructions + 1
    BY <2>1, <2>5, FS_Singleton
  <2>7. PICK k : k = <<f.label, p>>
    OBVIOUS
  <2>8. Shapes
    BY DEF Built
  <2> DEFINE id == Len(modules) + 1
  <2>9. /\ Len(modules) \in Nat /\ Len(modules') = id
        /\ DOMAIN modules = 1 .. Len(modules) /\ DOMAIN modules' = 1 .. id
        /\ \A i \in DOMAIN modules : modules'[i] = modules[i]
        /\ modules'[id] = f
        /\ modules' \in Seq(Range(modules'))
        /\ \A i \in DOMAIN modules' : modules'[i].threadType \in ThreadType
    BY <2>1, <2>4, <2>8, ModuleMade
  <2>10. LookupIsRight(1) /\ WrappersAreOf(1) /\ sch.m_paths = <<>>
    BY <1>1, OneBuilt DEF Built, ReadSoFar
  <2>11. \A key \in DOMAIN sch.m_lookupMap : sch.m_lookupMap[key].m_module \in DOMAIN modules
    <3>1. \A key \in DOMAIN sch.m_lookupMap : sch.m_lookupMap[key] \in Wrappers(sch)
      BY DEF Wrappers, Range
    <3> QED
      BY <2>10, <3>1 DEF WrappersAreOf
  <2>12. k \notin DOMAIN sch.m_lookupMap
    <3> SUFFICES ASSUME k \in DOMAIN sch.m_lookupMap PROVE FALSE
      OBVIOUS
    <3>1. PICK m \in DOMAIN modules : m = sch.m_lookupMap[k].m_module
      BY <2>11
    <3>2. modules[m].base = "producer" /\ k \in {modules[m].label} \X modules[m].m_products
      BY <2>10, <3>1 DEF LookupIsRight
    <3>3. PICK i \in 1 .. Len(P) - Len(rest) :
             modules[m] = CreateProducer(P[i]) /\ modules[m] # NoModule
      BY <1>1, <3>1, <3>2 DEF Built, ReadSoFar
    <3>4. k \in DataKeys(P[i])
      BY <3>2, <3>3 DEF DataKeys
    <3>5. k \in DataKeys(P[j])
      BY <1>3, <2>3, <2>5, <2>7 DEF DataKeys
    <3>6. i \in DOMAIN P /\ i # j
      BY <2>3
    <3> QED
      BY <2>2, <2>3, <3>4, <3>5, <3>6, ConfigurationAssumption
  <2> HIDE DEF f
  <2>13. PICK u : u = DataCache(id, f, 1, constructions + 1)
    OBVIOUS
  <2>14. u = WrapperOf(Len(modules), constructions, 1)'
    <3>1. PICK m, n : m = Len(modules') /\ n = constructions'
      OBVIOUS
    <3>2. modules'[m] = f /\ u = DataCache(m, f, 1, n)
      BY <2>6, <2>9, <2>13, <3>1
    <3>3. u = WrapperOf(m, n, 1)'
      BY <3>2, MadeWrapper
    <3> QED
      BY <3>1, <3>3 DEF WrapperOf
  <2>15. PICK x : x = addProducer(sch, id, f)
    OBVIOUS
  <2>16. m_schedules' = <<x>> /\ m_schedules'[1] = x
    BY <2>1, <2>9, <2>15
  <2>17. IsSchedule(sch) /\ constructions \in Nat
    BY <2>8 DEF Shapes
  <2>18. HasOneMore(x, sch, id, k, u)
    <3>1. PICK s, i, g : s = sch /\ i = id /\ g = f
      OBVIOUS
    <3>2. IsSchedule(s) /\ g.m_products = {p} /\ <<g.label, p>> \notin DOMAIN s.m_lookupMap
      BY <2>5, <2>7, <2>12, <2>17, <3>1
    <3>3. HasOneMore(addProducer(s, i, g), s, i, <<g.label, p>>, DataCache(i, g, 1, constructions + 1))
      BY <3>2, ProducerAdded
    <3>4. x = addProducer(s, i, g) /\ k = <<g.label, p>> /\ u = DataCache(i, g, 1, constructions + 1)
      BY <2>7, <2>13, <2>15, <3>1
    <3> QED
      BY <3>1, <3>3, <3>4, Zenon
  <2>19. Shapes'
    BY <2>6, <2>9, <2>16, <2>17, <2>18 DEF Shapes, HasOneMore
  <2>20. Wrappers(x) = Wrappers(sch) \cup {u}
    <3>1. Range(x.m_lookupMap) = Range(sch.m_lookupMap) \cup {u}
      BY <2>12, <2>18 DEF Range, HasOneMore
    <3> QED
      BY <2>18, <3>1 DEF Wrappers, HasOneMore
  <2>21. OneOwner' /\ WrappersAreOf(1)' /\ DOMAIN m_schedules' = {1}
    BY <1>1, <2>1, <2>4, <2>6, <2>14, <2>16, <2>19, <2>20, WrapperMade
  <2>22. u.m_module = id
    BY <2>9, <2>14 DEF WrapperOf
  <2>23. LookupIsRight(1)'
    <3>1. ASSUME NEW key \in DOMAIN x.m_lookupMap,
                 NEW n, n = modules'[x.m_lookupMap[key].m_module]
          PROVE  n.base = "producer" /\ key \in {n.label} \X n.m_products
      <4>1. CASE key = k
        BY <2>4, <2>5, <2>7, <2>9, <2>18, <2>22, <3>1, <4>1 DEF HasOneMore
      <4>2. CASE key \in DOMAIN sch.m_lookupMap
        <5>1. n = modules[sch.m_lookupMap[key].m_module]
          BY <2>9, <2>11, <2>18, <3>1, <4>2 DEF HasOneMore
        <5> QED
          BY <2>10, <4>2, <5>1 DEF LookupIsRight
      <4> QED
        BY <2>18, <4>1, <4>2 DEF HasOneMore
    <3>2. ASSUME NEW i \in DOMAIN modules', modules'[i].base = "producer"
          PROVE  /\ i \in DOMAIN x.m_producers
                 /\ x.m_producers[i] \in DOMAIN x.m_lookupMap
                 /\ x.m_lookupMap[x.m_producers[i]].m_module = i
      <4>1. CASE i = id
        BY <2>18, <2>22, <4>1 DEF HasOneMore
      <4>2. CASE i # id
        <5>1. i \in DOMAIN modules /\ modules[i].base = "producer"
          BY <2>9, <3>2, <4>2
        <5>2. /\ i \in DOMAIN sch.m_producers
              /\ sch.m_producers[i] \in DOMAIN sch.m_lookupMap
              /\ sch.m_lookupMap[sch.m_producers[i]].m_module = i
          BY <2>10, <5>1 DEF LookupIsRight
        <5> QED
          BY <2>18, <4>2, <5>2 DEF HasOneMore
      <4> QED
        BY <4>1, <4>2
    <3> QED
      BY <2>16, <3>1, <3>2 DEF LookupIsRight
  <2>24. PathsAreRight(1)'
    BY <2>10, <2>16, <2>18 DEF PathsAreRight, HasOneMore
  <2>25. ReadSoFar'
    <3>1. ASSUME NEW i \in DOMAIN modules', modules'[i].base = "producer"
          PROVE  \E h \in 1 .. Len(P) - Len(rest') :
                    modules'[i] = CreateProducer(P[h]) /\ modules'[i] # NoModule
      <4>1. CASE i = id
        <5>1. j \in 1 .. Len(P) - Len(rest')
          BY <2>3
        <5>2. modules'[i] = CreateProducer(P[j]) /\ modules'[i] # NoModule
          BY <1>3, <2>3, <2>9, <4>1 DEF f
        <5> QED
          BY <5>1, <5>2
      <4>2. CASE i # id
        <5>1. i \in DOMAIN modules /\ modules[i].base = "producer" /\ modules'[i] = modules[i]
          BY <2>9, <3>1, <4>2
        <5>2. PICK h \in 1 .. Len(P) - Len(rest) :
                 modules[i] = CreateProducer(P[h]) /\ modules[i] # NoModule
          BY <1>1, <5>1 DEF Built, ReadSoFar
        <5>3. h \in 1 .. Len(P) - Len(rest')
          BY <2>3
        <5> QED
          BY <5>1, <5>2, <5>3
      <4> QED
        BY <4>1, <4>2
    <3> QED
      BY <1>1, <2>1, <2>3, <2>10, <2>16, <2>18, <3>1 DEF ReadSoFar, HasOneMore
  <2> QED
    BY <2>19, <2>21, <2>23, <2>24, <2>25 DEF Built
<1> QED
  BY <1>2, <1>3

\* The next path of the file: its filters have been found.
LEMMA PathStep ==
    ASSUME IndInv, Built, AddPath
    PROVE  Built'
<1> DEFINE P == pConfig.paths
           names == Head(rest)
           sch == m_schedules[1]
           found == [i \in DOMAIN names |-> FilterOnPathWrapper(1, findFilter(sch, names[i]))]
           giveUp == \E i \in DOMAIN names : findFilter(sch, names[i]) = 0
<1>1. /\ phase = "paths" /\ phase \in SetupPhases /\ rest # <<>>
      /\ UNCHANGED <<pConfig, modules, constructions>>
  BY DEF AddPath, SetupPhases
<1>2. CASE giveUp
  <2>1. phase' = "exit" /\ UNCHANGED m_schedules
    BY <1>2 DEF AddPath, GiveUp, Becomes
  <2>2. ReadSoFar'
    BY <2>1 DEF ReadSoFar
  <2> QED
    BY <1>1, <2>1, <2>2, StillBuilt
<1>3. CASE ~giveUp
  <2>1. phase' = "paths" /\ rest' = Tail(rest) /\ m_schedules' = <<addPath(sch, names)>>
    BY <1>3 DEF AddPath, Becomes, KeepPath
  <2>2. /\ P \in Seq(Range(P)) /\ IsRestOf(P) /\ Len(sch.m_paths) = Len(P) - Len(rest)
    <3>1. P \in Seq(Seq(STRING))
      BY ConfigurationAssumption DEF IndInv, Types
    <3>2. P \in Seq(Range(P))
      BY <3>1, SeqOfRange DEF Range
    <3> QED
      BY <1>1, <3>2 DEF Built, ReadSoFar
  <2> DEFINE j == Len(sch.m_paths) + 1
  <2>3. /\ names = P[j] /\ IsRestOf(P)' /\ j = Len(P) - Len(rest')
    <3>1. PICK list : list = P
      OBVIOUS
    <3>2. /\ Len(list) - Len(rest) + 1 \in DOMAIN list
          /\ Head(rest) = list[Len(list) - Len(rest) + 1]
          /\ IsRestOf(list)' /\ Len(rest') = Len(rest) - 1
      BY <1>1, <2>1, <2>2, <3>1, RestGetsShorter
    <3>3. pConfig'.paths = list
      BY <1>1, <3>1
    <3>4. Len(list) \in Nat /\ Len(rest) \in Nat
      BY <2>2, <3>1 DEF IsRestOf
    <3> QED
      BY <2>2, <3>1, <3>2, <3>3, <3>4
  <2>4. PICK path : path = found
    OBVIOUS
  <2>5. PICK x : x = addPath(sch, names)
    OBVIOUS
  <2>6. IsSchedule(sch)
    BY DEF Built, Shapes
  <2>7. /\ x.m_filters = sch.m_filters /\ x.m_lookupMap = sch.m_lookupMap
        /\ x.m_producers = sch.m_producers /\ x.m_paths = Append(sch.m_paths, path)
        /\ sch.m_paths \in Seq(Range(sch.m_paths))
        /\ IsSchedule(x)
    <3>1. x = [sch EXCEPT !.m_paths = Append(sch.m_paths, path)]
      BY <2>4, <2>5 DEF addPath
    <3> HIDE DEF sch
    <3>2. PICK a, b, d, e : sch = [m_filters |-> a, m_lookupMap |-> b, m_producers |-> d, m_paths |-> e]
      BY <2>6 DEF IsSchedule
    <3>3. x = [m_filters |-> a, m_lookupMap |-> b, m_producers |-> d, m_paths |-> Append(e, path)]
      BY <3>1, <3>2
    <3>4. a \in Seq(Range(a)) /\ e \in Seq(Range(e))
      BY <2>6, <3>2 DEF IsSchedule
    <3>5. Append(e, path) \in Seq(Range(Append(e, path)))
      BY <3>4, OneMore
    <3> QED
      BY <3>2, <3>3, <3>4, <3>5 DEF IsSchedule
  <2>8. m_schedules' = <<x>> /\ m_schedules'[1] = x /\ DOMAIN m_schedules' = {1}
    BY <2>1, <2>5
  <2>9. Shapes'
    BY <1>1, <2>7, <2>8 DEF Built, Shapes
  <2>10. WrappersAreOf(1) /\ LookupIsRight(1) /\ PathsAreRight(1)
    BY <1>1, OneBuilt
  <2>11. Wrappers(x) = Wrappers(sch)
    BY <2>7 DEF Wrappers
  <2>12. WrappersAreOf(1)'
    <3>1. Wrappers(m_schedules[1])' = Wrappers(sch)
      BY <2>8, <2>11 DEF Wrappers
    <3>2. \A w : WrapperOf(w.m_module, w.owner, 1)' = WrapperOf(w.m_module, w.owner, 1)
      BY <1>1 DEF WrapperOf
    <3> QED
      BY <1>1, <2>10, <3>1, <3>2 DEF WrappersAreOf
  <2>13. OneOwner'
    <3>1. AllWrappers = Wrappers(sch) /\ AllWrappers' = Wrappers(sch)
      BY <1>1, <2>8, <2>11, OneSchedule DEF AllWrappers, Wrappers
    <3> QED
      BY <3>1 DEF Built, OneOwner
  <2>14. LookupIsRight(1)'
    BY <1>1, <2>7, <2>8, <2>10 DEF LookupIsRight
  <2>15. PathsAreRight(1)'
    <3>1. ASSUME NEW f, NEW name, LeadsTo(f, 1, name) PROVE LeadsTo(f, 1, name)'
      BY <1>1, <2>7, <2>8, <3>1 DEF LeadsTo
    <3>2. /\ DOMAIN x.m_paths = 1 .. j /\ DOMAIN sch.m_paths = 1 .. Len(sch.m_paths)
          /\ \A q \in 1 .. Len(sch.m_paths) : x.m_paths[q] = sch.m_paths[q]
          /\ x.m_paths[j] = path /\ Len(sch.m_paths) \in Nat
      BY <2>7, OneMore
    <3> SUFFICES ASSUME NEW q \in DOMAIN x.m_paths, NEW i \in DOMAIN x.m_paths[q],
                        NEW f, f = x.m_paths[q][i], NEW name, name = P[q][i]
                 PROVE  LeadsTo(f, 1, name)'
      BY <1>1, <2>8 DEF PathsAreRight
    <3>3. CASE q \in 1 .. Len(sch.m_paths)
      <4>1. LeadsTo(f, 1, name)
        BY <2>10, <3>2, <3>3 DEF PathsAreRight
      <4> QED
        BY <3>1, <4>1
    <3>4. CASE q = j
      <4>1. /\ i \in DOMAIN names /\ name = names[i]
            /\ f = FilterOnPathWrapper(1, findFilter(sch, names[i]))
        BY <2>3, <2>4, <3>2, <3>4
      <4>2. findFilter(sch, name) # 0 /\ f.schedule = 1 /\ f.filter = findFilter(sch, name)
        BY <1>3, <4>1 DEF FilterOnPathWrapper
      <4>3. LeadsTo(f, 1, name)
        BY <2>6, <4>2, FoundFilter DEF LeadsTo
      <4> QED
        BY <3>1, <4>3
    <3> QED
      BY <3>2, <3>3, <3>4
  <2>16. ReadSoFar'
    <3>1. Len(x.m_paths) = j
      BY <2>7, OneMore
    <3> QED
      BY <1>1, <2>1, <2>3, <2>8, <3>1 DEF ReadSoFar
  <2> QED
    BY <2>8, <2>9, <2>12, <2>13, <2>14, <2>15, <2>16 DEF Built
<1> QED
  BY <1>2, <1>3

\* The next list of the file, or the search that ends the setup.
LEMMA ListStep ==
    ASSUME IndInv, Built, NextList \/ finishSetup
    PROVE  Built'
<1>1. UNCHANGED <<pConfig, modules, m_schedules, constructions>>
  BY DEF NextList, finishSetup
<1>2. /\ pConfig.producers \in Seq(Range(pConfig.producers))
      /\ pConfig.paths \in Seq(Range(pConfig.paths))
  <2>1. /\ pConfig.producers \in Seq(Range(pConfig.producers))
        /\ pConfig.paths \in Seq(Seq(STRING))
    BY ConfigurationAssumption DEF IndInv, Types
  <2> QED
    BY <2>1, SeqOfRange DEF Range
<1>3. ReadSoFar'
  <2>1. CASE NextList /\ phase = "filters"
    <3>1. phase' = "producers" /\ rest' = pConfig.producers
      BY <2>1 DEF NextList, Becomes
    <3>2. IsRestOf(pConfig.producers)'
      <4>1. PICK list : list = pConfig.producers
        OBVIOUS
      <4>2. IsRestOf(list)'
        BY <1>2, <3>1, <4>1, RestAtFirst
      <4> QED
        BY <1>1, <4>1, <4>2
    <3> QED
      BY <1>1, <2>1, <3>1, <3>2 DEF Built, ReadSoFar
  <2>2. CASE NextList /\ phase = "producers"
    <3>1. phase' = "paths" /\ rest' = pConfig.paths
      BY <2>2 DEF NextList, Becomes
    <3>2. IsRestOf(pConfig.paths)'
      <4>1. PICK list : list = pConfig.paths
        OBVIOUS
      <4>2. IsRestOf(list)'
        BY <1>2, <3>1, <4>1, RestAtFirst
      <4> QED
        BY <1>1, <4>1, <4>2
    <3>3. m_schedules[1].m_paths = <<>> /\ Len(pConfig.paths) - Len(rest') = 0
      BY <1>2, <2>2, <3>1 DEF Built, ReadSoFar
    <3> QED
      BY <1>1, <3>1, <3>2, <3>3 DEF ReadSoFar
  <2>3. CASE finishSetup \/ (NextList /\ phase = "paths")
    <3>1. phase' \in {"finish", "reserve"}
      BY <2>3 DEF NextList, Becomes, finishSetup
    <3> QED
      BY <3>1 DEF ReadSoFar
  <2>4. \/ NextList /\ phase = "filters"
        \/ NextList /\ phase = "producers"
        \/ finishSetup
        \/ NextList /\ phase = "paths"
    <3>1. NextList => phase \in {"filters", "producers", "paths"}
      <4> SUFFICES ASSUME phase \notin {"filters", "producers", "paths"}, NextList PROVE FALSE
        OBVIOUS
      <4> QED
        BY DEF NextList, Becomes
    <3> QED
      BY <3>1
  <2> QED
    BY <2>1, <2>2, <2>3, <2>4, Zenon
<1> QED
  BY <1>1, <1>3, StillBuilt

-----------------------------------------------------------------------------
(* And so do the steps of processAll. *)

\* A Schedule is cloned: its wrappers are copied, the paths go through the copies.
LEMMA CloneStep ==
    ASSUME IndInv, Built, CloneSchedule
    PROVE  Built'
<1> DEFINE sch == m_schedules[1]
<1>0. PICK e : e = nEvents + 1
  OBVIOUS
<1>1. /\ phase = "clone" /\ phase' = "start"
      /\ m_schedules' = Append(m_schedules, Clone(sch, e))
      /\ UNCHANGED <<pConfig, modules, constructions>>
  BY <1>0 DEF CloneSchedule, constructed, setup
<1>2. /\ m_schedules \in Seq(Range(m_schedules)) /\ Len(m_schedules) = nEvents
      /\ nEvents \in Nat \ {0}
  BY <1>1 DEF IndInv, Types, RoomForAll, StartedInOrder, LoopPhases
<1>3. PICK x : x = Clone(sch, e)
  OBVIOUS
<1>4. /\ DOMAIN m_schedules = 1 .. nEvents /\ DOMAIN m_schedules' = 1 .. e
      /\ \A s \in 1 .. nEvents : m_schedules'[s] = m_schedules[s]
      /\ m_schedules'[e] = x
  BY <1>0, <1>1, <1>2, <1>3, OneMore
<1>5. 1 \in DOMAIN m_schedules /\ e \in DOMAIN m_schedules' /\ m_schedules'[1] = sch
  BY <1>0, <1>2, <1>4
<1>6. Shapes /\ WrappersAreOf(1) /\ LookupIsRight(1) /\ PathsAreRight(1)
  BY <1>5 DEF Built
<1> DEFINE wrappers == [i \in DOMAIN sch.m_filters |-> CopyWrapper(sch.m_filters[i], e)]
           map == [key \in DOMAIN sch.m_lookupMap |-> CopyWrapper(sch.m_lookupMap[key], e)]
           ids == {map[key].m_module : key \in DOMAIN map}
           byID == [id \in ids |-> CHOOSE key \in DOMAIN map : map[key].m_module = id]
           paths == [p \in DOMAIN sch.m_paths |-> ClonePath(sch.m_paths[p], wrappers, e)]
\* The fields of the new Schedule.
<1>7. /\ x.m_filters = wrappers /\ x.m_lookupMap = map
      /\ x.m_producers = byID /\ x.m_paths = paths
  <2>1. PICK ws : ws = wrappers
    OBVIOUS
  <2>2. PICK ma : ma = map
    OBVIOUS
  <2>3. PICK by : by = byID
    OBVIOUS
  <2>4. PICK pa : pa = paths
    OBVIOUS
  <2>5. CopyLookup(sch, e) = [sch EXCEPT !.m_lookupMap = ma, !.m_producers = by]
    BY <2>2, <2>3 DEF CopyLookup
  <2>6. x = [CopyLookup(sch, e) EXCEPT !.m_filters = ws, !.m_paths = pa]
    BY <1>3, <2>1, <2>4 DEF Clone
  <2> HIDE DEF sch
  <2>7. PICK a, b, c, d : sch = [m_filters |-> a, m_lookupMap |-> b, m_producers |-> c, m_paths |-> d]
    BY <1>6 DEF Shapes, IsSchedule, sch
  <2>8. CopyLookup(sch, e) = [m_filters |-> a, m_lookupMap |-> ma, m_producers |-> by, m_paths |-> d]
    BY <2>5, <2>7
  <2>9. x = [m_filters |-> ws, m_lookupMap |-> ma, m_producers |-> by, m_paths |-> pa]
    <3> DEFINE r == [m_filters |-> a, m_lookupMap |-> ma, m_producers |-> by, m_paths |-> d]
               s == [m_filters |-> ws, m_lookupMap |-> ma, m_producers |-> by, m_paths |-> d]
    <3>1. [r EXCEPT !.m_filters = ws] = s
      OBVIOUS
    <3>2. [s EXCEPT !.m_paths = pa] =
             [m_filters |-> ws, m_lookupMap |-> ma, m_producers |-> by, m_paths |-> pa]
      OBVIOUS
    <3> QED
      BY <2>6, <2>8, <3>1, <3>2, Zenon
  <2> QED
    BY <2>1, <2>2, <2>3, <2>4, <2>9
\* Its wrappers.
<1>8. ASSUME NEW w \in Wrappers(sch)
      PROVE  /\ CopyWrapper(w, e) = WrapperOf(w.m_module, w.owner, e)
             /\ w.m_module \in DOMAIN modules /\ w.owner \in 1 .. constructions
  <2>1. /\ w.m_module \in DOMAIN modules /\ w.owner \in 1 .. constructions
        /\ w = WrapperOf(w.m_module, w.owner, 1)
    BY <1>6 DEF WrappersAreOf
  <2>2. PICK id, n : id = w.m_module /\ n = w.owner
    OBVIOUS
  <2>3. modules[id].threadType \in ThreadType
    BY <1>6, <2>1, <2>2 DEF Shapes
  <2>4. CopyWrapper(WrapperOf(id, n, 1), e) = WrapperOf(id, n, e)
    BY <2>3, CopiedWrapper
  <2> QED
    BY <2>1, <2>2, <2>4
<1>9. \A i \in DOMAIN sch.m_filters : sch.m_filters[i] \in Wrappers(sch)
  BY DEF Wrappers, Range
<1>10. \A key \in DOMAIN sch.m_lookupMap : sch.m_lookupMap[key] \in Wrappers(sch)
  BY DEF Wrappers, Range
<1>11. /\ DOMAIN x.m_filters = DOMAIN sch.m_filters
       /\ \A i \in DOMAIN sch.m_filters : x.m_filters[i] = CopyWrapper(sch.m_filters[i], e)
  BY <1>7
<1>12. /\ DOMAIN x.m_lookupMap = DOMAIN sch.m_lookupMap
       /\ \A key \in DOMAIN sch.m_lookupMap : x.m_lookupMap[key] = CopyWrapper(sch.m_lookupMap[key], e)
  BY <1>7
<1>13. \A w : /\ WrapperOf(w.m_module, w.owner, e).m_module = w.m_module
              /\ WrapperOf(w.m_module, w.owner, e).owner = w.owner
  BY DEF WrapperOf
<1>14. ASSUME NEW w \in Wrappers(x)
       PROVE  \E v \in Wrappers(sch) : /\ w.m_module = v.m_module /\ w.owner = v.owner
                                       /\ w = WrapperOf(v.m_module, v.owner, e)
  <2>1. \E v \in Wrappers(sch) : w = CopyWrapper(v, e)
    BY <1>9, <1>10, <1>11, <1>12 DEF Wrappers, Range
  <2> QED
    BY <1>8, <1>13, <2>1
<1>15. \A id, n, s : WrapperOf(id, n, s)' = WrapperOf(id, n, s)
  BY <1>1 DEF WrapperOf
<1>16. WrappersAreOf(e)'
  <2>1. Wrappers(m_schedules[e])' = Wrappers(x)
    BY <1>4 DEF Wrappers
  <2>2. ASSUME NEW w \in Wrappers(x)
        PROVE  /\ w.m_module \in DOMAIN modules /\ w.owner \in 1 .. constructions
               /\ w = WrapperOf(w.m_module, w.owner, e)
    BY <1>8, <1>14
  <2> QED
    BY <1>1, <1>15, <2>1, <2>2 DEF WrappersAreOf
<1>17. OneOwner'
  <2>1. ASSUME NEW w \in AllWrappers'
        PROVE  \E v \in AllWrappers : w.m_module = v.m_module /\ w.owner = v.owner
    <3>1. PICK s \in 1 .. e : w \in Wrappers(m_schedules'[s])
      BY <1>4 DEF AllWrappers, Wrappers
    <3>2. CASE s = e
      <4>1. PICK v \in Wrappers(sch) : w.m_module = v.m_module /\ w.owner = v.owner
        BY <1>4, <1>14, <3>1, <3>2
      <4> QED
        BY <1>5, <4>1 DEF AllWrappers
    <3>3. CASE s # e
      <4>1. s \in 1 .. nEvents
        BY <1>0, <1>2, <3>3
      <4> QED
        BY <1>4, <3>1, <4>1 DEF AllWrappers
    <3> QED
      BY <3>2, <3>3
  <2>2. \A v, w \in AllWrappers : v.m_module = w.m_module <=> v.owner = w.owner
    BY DEF Built, OneOwner
  <2> SUFFICES ASSUME NEW v \in AllWrappers', NEW w \in AllWrappers'
               PROVE  v.m_module = w.m_module <=> v.owner = w.owner
    BY DEF OneOwner
  <2>3. PICK a \in AllWrappers : v.m_module = a.m_module /\ v.owner = a.owner
    BY <2>1
  <2>4. PICK b \in AllWrappers : w.m_module = b.m_module /\ w.owner = b.owner
    BY <2>1
  <2> QED
    BY <2>2, <2>3, <2>4
\* Its lookup.
<1>18. LookupIsRight(e)'
  <2>1. \A key \in DOMAIN sch.m_lookupMap : x.m_lookupMap[key].m_module = sch.m_lookupMap[key].m_module
    BY <1>8, <1>10, <1>12, <1>13
  <2>2. ASSUME NEW key \in DOMAIN x.m_lookupMap, NEW n, n = modules[x.m_lookupMap[key].m_module]
        PROVE  n.base = "producer" /\ key \in {n.label} \X n.m_products
    BY <1>6, <1>12, <2>1, <2>2 DEF LookupIsRight
  <2>3. ASSUME NEW id \in DOMAIN modules, modules[id].base = "producer"
        PROVE  /\ id \in DOMAIN x.m_producers
               /\ x.m_producers[id] \in DOMAIN x.m_lookupMap
               /\ x.m_lookupMap[x.m_producers[id]].m_module = id
    <3>1. PICK k \in DOMAIN sch.m_lookupMap : sch.m_lookupMap[k].m_module = id
      BY <1>6, <2>3 DEF LookupIsRight
    <3>2. k \in DOMAIN map /\ map[k].m_module = id /\ map = x.m_lookupMap
      BY <1>7, <1>12, <2>1, <3>1
    <3> HIDE DEF map
    <3>3. id \in ids
      BY <3>2
    <3>4. byID[id] \in DOMAIN map /\ map[byID[id]].m_module = id /\ id \in DOMAIN byID
      BY <3>2, <3>3
    <3> QED
      BY <1>7, <3>2, <3>4
  <2> QED
    BY <1>1, <1>4, <2>2, <2>3 DEF LookupIsRight
\* Its paths.
<1>19. PathsAreRight(e)'
  <2>1. \A i \in DOMAIN sch.m_filters : x.m_filters[i].m_module = sch.m_filters[i].m_module
    BY <1>8, <1>9, <1>11, <1>13
  <2>2. ASSUME NEW p \in DOMAIN x.m_paths, NEW i \in DOMAIN x.m_paths[p]
        PROVE  LeadsTo(x.m_paths[p][i], e, pConfig.paths[p][i])'
    <3> DEFINE path == sch.m_paths[p]
               f == path[i]
               name == pConfig.paths[p][i]
    <3>1. p \in DOMAIN sch.m_paths /\ x.m_paths[p] = ClonePath(path, wrappers, e)
      BY <1>7, <2>2
    <3>2. i \in DOMAIN path
      BY <2>2, <3>1 DEF ClonePath
    <3>3. /\ f.schedule = 1 /\ f.filter \in DOMAIN sch.m_filters
          /\ modules[sch.m_filters[f.filter].m_module].label = name
      BY <1>6, <3>1, <3>2 DEF PathsAreRight, LeadsTo
    <3>4. PICK ws : ws = wrappers
      OBVIOUS
    <3>5. Len(ws) \in Nat /\ DOMAIN ws = 1 .. Len(ws) /\ DOMAIN ws = DOMAIN sch.m_filters
      <4>1. DOMAIN sch.m_filters = 1 .. Len(sch.m_filters) /\ Len(sch.m_filters) \in Nat
        BY <1>6 DEF Shapes, IsSchedule
      <4>2. PICK l : l = Len(sch.m_filters)
        OBVIOUS
      <4>3. DOMAIN ws = 1 .. l /\ l \in Nat
        BY <3>4, <4>1, <4>2
      <4>4. Len(ws) = l
        BY <4>3
      <4> QED
        BY <3>4, <4>3, <4>4
    <3> DEFINE label == modules[m_schedules[f.schedule].m_filters[f.filter].m_module].label
               I == {q \in 1 .. Len(ws) : modules[ws[q].m_module].label = label}
    <3>6. x.m_paths[p][i] = FilterOnPathWrapper(e, IF I # {} THEN Min(I) ELSE 0)
      <4>1. x.m_paths[p] = ClonePath(path, ws, e)
        BY <3>1, <3>4
      <4> HIDE DEF wrappers, path
      <4>2. x.m_paths[p][i] = FilterOnPathWrapper(e, SelectInSeq(ws, LAMBDA w :
                 modules[w.m_module].label =
                    modules[m_schedules[path[i].schedule].m_filters[path[i].filter].m_module].label))
        BY <3>2, <4>1 DEF ClonePath
      <4> QED
        BY <4>2, Zenon DEF SelectInSeq
    <3>7. label = name
      BY <3>3
    <3>8. f.filter \in I
      <4>1. modules[ws[f.filter].m_module].label = label
        BY <1>7, <2>1, <3>3, <3>4, <3>7, Zenon
      <4>2. PICK q : q = f.filter
        OBVIOUS
      <4>3. q \in 1 .. Len(ws)
        BY <3>3, <3>5, <4>2
      <4>4. modules[ws[q].m_module].label = label
        BY <4>1, <4>2
      <4> HIDE DEF label
      <4>5. q \in I
        BY <4>3, <4>4
      <4> HIDE DEF I, f
      <4> QED
        BY <4>2, <4>5
    <3>9. I \in SUBSET Nat
      <4> HIDE DEF label
      <4>1. I \subseteq 1 .. Len(ws)
        OBVIOUS
      <4> QED
        BY <3>5, <4>1
    <3>10. Min(I) \in I
      <4> HIDE DEF I
      <4> QED
        BY <3>8, <3>9, Smallest
    <3>11. Min(I) \in DOMAIN ws /\ modules[ws[Min(I)].m_module].label = name
      <4>1. PICK m : m = Min(I)
        OBVIOUS
      <4> QED
        BY <3>5, <3>7, <3>10, <4>1
    <3>12. PICK m : m = Min(I) /\ x.m_paths[p][i] = FilterOnPathWrapper(e, m)
      BY <3>6, <3>8
    <3>13. m \in DOMAIN x.m_filters /\ modules[x.m_filters[m].m_module].label = name
      BY <1>7, <3>4, <3>11, <3>12
    <3> HIDE DEF name, I
    <3>14. LeadsTo(FilterOnPathWrapper(e, m), e, name)'
      BY <1>1, <1>4, <3>13 DEF LeadsTo, FilterOnPathWrapper, name
    <3> QED
      BY <3>12, <3>14 DEF name
  <2> QED
    BY <1>1, <1>4, <2>2 DEF PathsAreRight
<1>20. Shapes'
  BY <1>1, <1>5, <1>6 DEF Shapes
<1>21. ReadSoFar'
  BY <1>1 DEF ReadSoFar
<1>22. ASSUME NEW s \in 1 .. nEvents
       PROVE  WrappersAreOf(s)' /\ LookupIsRight(s)' /\ PathsAreRight(s)'
  <2>1. WrappersAreOf(s) /\ LookupIsRight(s) /\ PathsAreRight(s)
    BY <1>4 DEF Built
  <2>2. UNCHANGED <<pConfig, modules, constructions, m_schedules[s]>>
    BY <1>1, <1>4
  <2> QED
    BY <2>1, <2>2, LeftAlone
<1>23. \A s \in DOMAIN m_schedules' : s \in 1 .. nEvents \/ s = e
  BY <1>0, <1>2, <1>4
<1> QED
  BY <1>16, <1>17, <1>18, <1>19, <1>20, <1>21, <1>22, <1>23 DEF Built

\* The other steps of processAll, and those that change nothing, leave all of it
\* alone.
LEMMA OtherSteps ==
    ASSUME IndInv, Built,
           \/ Reserve \/ MakeHolder \/ StartStream \/ EndTurn \/ WaitReturns \/ Leave
           \/ Tasks \/ UNCHANGED vars
    PROVE  Built'
<1>1. UNCHANGED <<pConfig, rest, modules, m_schedules, constructions>>
  <2>1. CASE Tasks
    BY <2>1, TasksLeave DEF constructed, setup, memory
  <2> QED
    BY <2>1 DEF Reserve, MakeHolder, StartStream, EndTurn, WaitReturns, Leave, vars,
                constructed, setup, memory
<1>2. phase' = phase \/ phase' \notin {"filters", "producers", "paths"}
  <2>1. CASE Tasks
    BY <2>1, TasksLeave
  <2> QED
    BY <2>1 DEF Reserve, MakeHolder, StartStream, EndTurn, WaitReturns, Leave, vars
<1>3. ReadSoFar'
  <2>1. CASE phase' = phase
    BY <1>1, <2>1 DEF Built, ReadSoFar, IsRestOf
  <2>2. CASE phase' \notin {"filters", "producers", "paths"}
    BY <2>2 DEF ReadSoFar
  <2> QED
    BY <1>2, <2>1, <2>2
<1> QED
  BY <1>1, <1>3, StillBuilt

\* Nothing has been built initially: there is one Schedule, and it is empty.
LEMMA InitBuilt == EPInit => Built
<1> SUFFICES ASSUME EPInit PROVE Built
  OBVIOUS
<1>1. /\ pConfig \in Configurations /\ phase = "filters" /\ rest = pConfig.filters
      /\ modules = <<>> /\ m_schedules = <<EmptySchedule>> /\ constructions = 0
  BY DEF EPInit, Init
<1>2. m_schedules[1] = EmptySchedule /\ DOMAIN m_schedules = {1}
  BY <1>1
<1>3. /\ EmptySchedule.m_filters = <<>> /\ EmptySchedule.m_lookupMap = <<>>
      /\ EmptySchedule.m_producers = <<>> /\ EmptySchedule.m_paths = <<>>
      /\ Range(<<>>) = {} /\ DOMAIN <<>> = {}
  BY DEF EmptySchedule, Range
<1>4. AllWrappers = {} /\ Wrappers(m_schedules[1]) = {}
  BY <1>2, <1>3 DEF AllWrappers, Wrappers
<1>5. ReadSoFar
  <2>1. rest \in Seq(Range(pConfig.filters))
    BY <1>1, ConfigurationAssumption
  <2> QED
    BY <1>1, <1>2, <1>3, <2>1 DEF ReadSoFar
<1>6. Shapes
  <2>1. IsSchedule(EmptySchedule)
    BY <1>3, EmptySeq DEF IsSchedule, EmptySchedule
  <2> QED
    BY <1>1, <1>2, <1>3, <2>1, EmptySeq DEF Shapes
<1>7. OneOwner
  BY <1>4 DEF OneOwner
<1>8. WrappersAreOf(1) /\ LookupIsRight(1) /\ PathsAreRight(1)
  BY <1>1, <1>2, <1>3, <1>4 DEF WrappersAreOf, LookupIsRight, PathsAreRight
<1> QED
  BY <1>2, <1>5, <1>6, <1>7, <1>8 DEF Built

-----------------------------------------------------------------------------
(* The theorems. *)

\* In every reachable state main has built what the part of the file says that it
\* has read, and processAll has copied it for the other streams.
THEOREM BuiltAsConfigured == Spec => []Built
<1>1. IndInv /\ Built /\ [Next]_vars => Built'
  BY FilterStep, ProducerStep, PathStep, ListStep, CloneStep, OtherSteps
     DEF Next, MainThread, SetupStep, Setup, Tasks
<1> QED
  BY Invariance, InitBuilt, <1>1, PTL DEF Spec

\* All wrappers of a module, in whatever Schedule, run it through one queue and
\* share its ownership; the queue is nobody else's, or that of all modules that
\* are not thread safe, or there is none, as the module's kind asks.
THEOREM OneQueue == Spec => []ModuleHasOneQueue
<1>1. Built => ModuleHasOneQueue
  <2> SUFFICES ASSUME Built, NEW v \in AllWrappers, NEW w \in AllWrappers,
                      NEW type, type = modules[v.m_module].threadType
               PROVE  /\ v.m_module = w.m_module => v.owner = w.owner
                      /\ CASE type = "kThreadSafeBetweenModules" ->
                                /\ v.m_runQueue \notin {NoQueue, s_non_thread_safe_queue}
                                /\ (v.m_runQueue = w.m_runQueue) <=> (v.m_module = w.m_module)
                           [] type = "kThreadUnsafe" -> v.m_runQueue = s_non_thread_safe_queue
                           [] OTHER -> v.m_runQueue = NoQueue
    BY DEF ModuleHasOneQueue
  <2>1. ASSUME NEW x \in AllWrappers
        PROVE  /\ x.m_module \in DOMAIN modules /\ x.owner \in Nat \ {0}
               /\ x.m_runQueue = choseQueue(modules[x.m_module].threadType, x.owner)
               /\ modules[x.m_module].threadType \in ThreadType
    <3>1. PICK s \in DOMAIN m_schedules : x \in Wrappers(m_schedules[s])
      BY DEF AllWrappers
    <3>2. /\ x.m_module \in DOMAIN modules /\ x.owner \in 1 .. constructions
          /\ x = WrapperOf(x.m_module, x.owner, s)
      BY <3>1 DEF Built, WrappersAreOf
    <3>3. constructions \in Nat /\ modules[x.m_module].threadType \in ThreadType
      BY <3>2 DEF Built, Shapes
    <3> QED
      BY <3>2, <3>3 DEF WrapperOf
  <2>2. v.m_module = w.m_module <=> v.owner = w.owner
    BY DEF Built, OneOwner
  <2>3. CASE type = "kThreadSafeBetweenModules"
    <3>1. v.m_runQueue = v.owner
      BY <2>1, <2>3 DEF choseQueue
    <3>2. v.m_runQueue \notin {NoQueue, s_non_thread_safe_queue}
      BY <2>1, <3>1 DEF NoQueue, s_non_thread_safe_queue
    <3>3. w.m_runQueue \in {w.owner, s_non_thread_safe_queue, NoQueue}
      BY <2>1 DEF choseQueue, ThreadType
    <3>4. w.m_module = v.m_module => w.m_runQueue = w.owner
      BY <2>1, <2>3 DEF choseQueue
    <3>5. (v.m_runQueue = w.m_runQueue) <=> (v.m_module = w.m_module)
      BY <2>2, <3>1, <3>2, <3>3, <3>4
    <3> QED
      BY <2>2, <2>3, <3>2, <3>5
  <2>4. CASE type = "kThreadUnsafe"
    BY <2>1, <2>2, <2>4 DEF choseQueue
  <2>5. CASE type = "kThreadSafeBetweenInstances"
    BY <2>1, <2>2, <2>5 DEF choseQueue
  <2> QED
    BY <2>1, <2>3, <2>4, <2>5 DEF ThreadType
<1> QED
  BY BuiltAsConfigured, <1>1, PTL

\* A Schedule, the first one or a copy, reaches wrappers of its own only: those of
\* its Event, and on its paths those with the names of the configuration; and a
\* lookup finds the producer of what is looked for, by key and by ID.
THEOREM ApartAlways == Spec => []SchedulesAreApart
<1>1. Built => SchedulesAreApart
  <2> SUFFICES ASSUME Built, NEW s \in DOMAIN m_schedules, NEW sch, sch = m_schedules[s]
               PROVE  /\ \A w \in Wrappers(sch) : w.m_event = s
                      /\ \A p \in DOMAIN sch.m_paths : \A i \in DOMAIN sch.m_paths[p] :
                            /\ sch.m_paths[p][i].schedule = s
                            /\ modules[sch.m_filters[sch.m_paths[p][i].filter].m_module].label
                                   = pConfig.paths[p][i]
                      /\ \A key \in DOMAIN sch.m_lookupMap :
                            modules[sch.m_lookupMap[key].m_module].label = key[1]
                      /\ \A id \in DOMAIN modules : modules[id].base = "producer" =>
                            sch.m_lookupMap[sch.m_producers[id]].m_module = id
    BY DEF SchedulesAreApart
  <2>1. WrappersAreOf(s) /\ LookupIsRight(s) /\ PathsAreRight(s)
    BY DEF Built
  <2>2. \A w \in Wrappers(sch) : w.m_event = s
    BY <2>1 DEF WrappersAreOf, WrapperOf
  <2>3. ASSUME NEW p \in DOMAIN sch.m_paths, NEW i \in DOMAIN sch.m_paths[p]
        PROVE  /\ sch.m_paths[p][i].schedule = s
               /\ modules[sch.m_filters[sch.m_paths[p][i].filter].m_module].label
                      = pConfig.paths[p][i]
    BY <2>1, <2>3 DEF PathsAreRight, LeadsTo
  <2>4. ASSUME NEW key \in DOMAIN sch.m_lookupMap
        PROVE  modules[sch.m_lookupMap[key].m_module].label = key[1]
    BY <2>1, <2>4 DEF LookupIsRight
  <2>5. \A id \in DOMAIN modules : modules[id].base = "producer" =>
           sch.m_lookupMap[sch.m_producers[id]].m_module = id
    BY <2>1 DEF LookupIsRight
  <2> QED
    BY <2>2, <2>3, <2>4, <2>5
<1> QED
  BY BuiltAsConfigured, <1>1, PTL

=============================================================================
