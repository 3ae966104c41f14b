----------------------- MODULE SerialTaskQueueProofs -----------------------
(***************************************************************************)
(* Theorems about SerialTaskQueue for any numbers of threads, tasks,       *)
(* groups and pauses.  IndInv of SerialTaskQueue is inductive; its parts   *)
(* are preserved one lemma each, with one step per action.  The last part  *)
(* is about the queue and its destructor, and only there                   *)
(* TeardownAssumption is used: the queue takes no step that it does not    *)
(* take without the destructor, so that all that is proved of it holds;    *)
(* what the destructor adds is that its marker is the last task that is    *)
(* ever pushed.                                                            *)
(***************************************************************************)
EXTENDS SerialTaskQueueTeardown, SequenceTheorems, TLAPS

-----------------------------------------------------------------------------
(* IndInv holds initially. *)

\* The initial state satisfies the inductive invariant.
LEMMA InitInv == Init => IndInv
<1> SUFFICES ASSUME Init PROVE IndInv
  OBVIOUS
<1> USE QueueAssumption DEF Init
<1>1. TypeOK
  BY EmptySeq DEF TypeOK, Labels, Holding
<1>2. TaskHeld
  BY DEF TaskHeld
<1>3. ChosenMeansHeld
  BY DEF ChosenMeansHeld, Holders, Holding
<1>4. NothingLost
  BY EmptySeq DEF NothingLost, Popped, InHand
<1>5. SomeoneWillLook
  BY DEF SomeoneWillLook
<1> QED
  BY <1>1, <1>2, <1>3, <1>4, <1>5 DEF IndInv

-----------------------------------------------------------------------------
(* Every step preserves it. *)

\* Every variable keeps its type in every step.
LEMMA TypeStep ==
    ASSUME TypeOK, TaskHeld, [Next]_vars
    PROVE  TypeOK'
<1> USE QueueAssumption DEF TypeOK, Labels, Holding, queue, local, history, vars, At, Goto, Return
<1>1. ASSUME NEW th \in Threads, NEW t \in Tasks, Push(th, t) PROVE TypeOK'
  BY <1>1, AppendProperties DEF Push
<1>2. ASSUME NEW th \in Threads, NEW t \in Tasks, Begin(th, t) PROVE TypeOK'
  BY <1>2 DEF Begin
<1>3. ASSUME NEW th \in Threads, Pause(th) PROVE TypeOK'
  BY <1>3 DEF Pause
<1>4. ASSUME NEW th \in Threads, Resume(th) PROVE TypeOK'
  BY <1>4 DEF Resume
<1>5. ASSUME NEW th \in Threads, TestPause(th) PROVE TypeOK'
  BY <1>5 DEF TestPause
<1>6. ASSUME NEW th \in Threads, NEW here \in {"choose1", "choose2"},
             NEW won \in {"pop1", "pop2"}, Choose(th, here, won)
      PROVE TypeOK'
  BY <1>6 DEF Choose
<1>7. ASSUME NEW th \in Threads, NEW here \in {"pop1", "pop2"},
             NEW missed \in {"clear1", "clear2"}, Pop(th, here, missed)
      PROVE TypeOK'
  <2>1. CASE m_tasks = <<>>
    BY <1>7, <2>1 DEF Pop
  <2>2. CASE m_tasks # <<>>
    <3>1. Head(m_tasks) \in Tasks /\ Tail(m_tasks) \in Seq(Tasks)
      BY <2>2, HeadTailProperties
    <3> QED
      BY <1>7, <2>2, <3>1 DEF Pop
  <2> QED
    BY <2>1, <2>2
<1>8. ASSUME NEW th \in Threads, ClearFirst(th) PROVE TypeOK'
  BY <1>8 DEF ClearFirst
<1>9. ASSUME NEW th \in Threads, Recheck(th) PROVE TypeOK'
  BY <1>9 DEF Recheck
<1>10. ASSUME NEW th \in Threads, ClearSecond(th) PROVE TypeOK'
  BY <1>10 DEF ClearSecond
<1>11. ASSUME NEW th \in Threads, Dispatch(th) PROVE TypeOK'
  <2>1. task[th] \in Tasks
    BY <1>11 DEF Dispatch, TaskHeld
  <2>2. CASE GroupOf[task[th]] = group[th]
    BY <1>11, <2>2 DEF Dispatch
  <2>3. CASE GroupOf[task[th]] # group[th]
    <3>1. spawned' \subseteq Tasks
      BY <1>11, <2>1, <2>3 DEF Dispatch
    <3> QED
      BY <1>11, <2>3, <3>1 DEF Dispatch
  <2> QED
    BY <2>2, <2>3
<1>12. ASSUME NEW th \in Threads, Execute(th) PROVE TypeOK'
  <2>1. task[th] \in Tasks
    BY <1>12 DEF Execute, TaskHeld
  <2>2. Append(done, task[th]) \in Seq(Tasks)
    BY <2>1, AppendProperties
  <2> QED
    BY <1>12, <2>2 DEF Execute
<1>13. ASSUME NEW th \in Threads, FinishedTask(th) PROVE TypeOK'
  BY <1>13 DEF FinishedTask
<1>14. CASE UNCHANGED vars
  BY <1>14
<1> QED
  BY <1>1, <1>2, <1>3, <1>4, <1>5, <1>6, <1>7,
     <1>8, <1>9, <1>10, <1>11, <1>12, <1>13, <1>14
     DEF Next, Step, PickNextTask

\* A thread gets its task where try_pop succeeds or the lambda begins, and
\* keeps it until it passes it on or has run it.
LEMMA TaskHeldStep ==
    ASSUME TypeOK, TaskHeld, [Next]_vars
    PROVE  TaskHeld'
<1> USE QueueAssumption DEF TypeOK, Labels, Holding, queue, local, history, vars, At, Goto, Return, TaskHeld
<1>1. ASSUME NEW th \in Threads, NEW t \in Tasks, Push(th, t) PROVE TaskHeld'
  BY <1>1 DEF Push
<1>2. ASSUME NEW th \in Threads, NEW t \in Tasks, Begin(th, t) PROVE TaskHeld'
  BY <1>2 DEF Begin
<1>3. ASSUME NEW th \in Threads, Pause(th) PROVE TaskHeld'
  BY <1>3 DEF Pause
<1>4. ASSUME NEW th \in Threads, Resume(th) PROVE TaskHeld'
  BY <1>4 DEF Resume
<1>5. ASSUME NEW th \in Threads, TestPause(th) PROVE TaskHeld'
  BY <1>5 DEF TestPause
<1>6. ASSUME NEW th \in Threads, NEW here \in {"choose1", "choose2"},
             NEW won \in {"pop1", "pop2"}, Choose(th, here, won)
      PROVE TaskHeld'
  BY <1>6 DEF Choose
<1>7. ASSUME NEW th \in Threads, NEW here \in {"pop1", "pop2"},
             NEW missed \in {"clear1", "clear2"}, Pop(th, here, missed)
      PROVE TaskHeld'
  <2>1. m_tasks # <<>> => Head(m_tasks) \in Tasks
    BY HeadTailProperties
  <2> QED
    BY <1>7, <2>1 DEF Pop
<1>8. ASSUME NEW th \in Threads, ClearFirst(th) PROVE TaskHeld'
  BY <1>8 DEF ClearFirst
<1>9. ASSUME NEW th \in Threads, Recheck(th) PROVE TaskHeld'
  BY <1>9 DEF Recheck
<1>10. ASSUME NEW th \in Threads, ClearSecond(th) PROVE TaskHeld'
  BY <1>10 DEF ClearSecond
<1>11. ASSUME NEW th \in Threads, Dispatch(th) PROVE TaskHeld'
  BY <1>11 DEF Dispatch
<1>12. ASSUME NEW th \in Threads, Execute(th) PROVE TaskHeld'
  BY <1>12 DEF Execute
<1>13. ASSUME NEW th \in Threads, FinishedTask(th) PROVE TaskHeld'
  BY <1>13 DEF FinishedTask
<1>14. CASE UNCHANGED vars
  BY <1>14
<1> QED
  BY <1>1, <1>2, <1>3, <1>4, <1>5, <1>6, <1>7,
     <1>8, <1>9, <1>10, <1>11, <1>12, <1>13, <1>14
     DEF Next, Step, PickNextTask

\* The choice keeps exactly one owner.
LEMMA ChosenStep ==
    ASSUME TypeOK, TaskHeld, ChosenMeansHeld, [Next]_vars
    PROVE  ChosenMeansHeld'
<1> USE QueueAssumption DEF TypeOK, Labels, Holding, queue, local, history, vars, At, Goto, Return, ChosenMeansHeld, Holders
<1>1. ASSUME NEW th \in Threads, NEW t \in Tasks, Push(th, t) PROVE ChosenMeansHeld'
  BY <1>1 DEF Push
<1>2. ASSUME NEW th \in Threads, NEW t \in Tasks, Begin(th, t) PROVE ChosenMeansHeld'
  BY <1>2 DEF Begin
<1>3. ASSUME NEW th \in Threads, Pause(th) PROVE ChosenMeansHeld'
  BY <1>3 DEF Pause
<1>4. ASSUME NEW th \in Threads, Resume(th) PROVE ChosenMeansHeld'
  BY <1>4 DEF Resume
<1>5. ASSUME NEW th \in Threads, TestPause(th) PROVE ChosenMeansHeld'
  BY <1>5 DEF TestPause
<1>6. ASSUME NEW th \in Threads, NEW here \in {"choose1", "choose2"},
             NEW won \in {"pop1", "pop2"}, Choose(th, here, won)
      PROVE ChosenMeansHeld'
  BY <1>6 DEF Choose
<1>7. ASSUME NEW th \in Threads, NEW here \in {"pop1", "pop2"},
             NEW missed \in {"clear1", "clear2"}, Pop(th, here, missed)
      PROVE ChosenMeansHeld'
  BY <1>7 DEF Pop
<1>8. ASSUME NEW th \in Threads, ClearFirst(th) PROVE ChosenMeansHeld'
  BY <1>8 DEF ClearFirst
<1>9. ASSUME NEW th \in Threads, Recheck(th) PROVE ChosenMeansHeld'
  BY <1>9 DEF Recheck
<1>10. ASSUME NEW th \in Threads, ClearSecond(th) PROVE ChosenMeansHeld'
  BY <1>10 DEF ClearSecond
<1>11. ASSUME NEW th \in Threads, Dispatch(th) PROVE ChosenMeansHeld'
  <2>1. th \in Holders /\ spawned = {} /\ m_taskChosen
    BY <1>11 DEF Dispatch
  <2>2. CASE GroupOf[task[th]] = group[th]
    BY <1>11, <2>1, <2>2 DEF Dispatch
  <2>3. CASE GroupOf[task[th]] # group[th]
    <3>1. spawned' = {task[th]} /\ UNCHANGED m_taskChosen
      BY <1>11, <2>1, <2>3 DEF Dispatch
    <3>2. Holders' = {}
      BY <1>11, <2>1, <2>3 DEF Dispatch
    <3> QED
      BY <2>1, <3>1, <3>2
  <2> QED
    BY <2>2, <2>3
<1>12. ASSUME NEW th \in Threads, Execute(th) PROVE ChosenMeansHeld'
  BY <1>12 DEF Execute
<1>13. ASSUME NEW th \in Threads, FinishedTask(th) PROVE ChosenMeansHeld'
  BY <1>13 DEF FinishedTask
<1>14. CASE UNCHANGED vars
  BY <1>14
<1> QED
  BY <1>1, <1>2, <1>3, <1>4, <1>5, <1>6, <1>7,
     <1>8, <1>9, <1>10, <1>11, <1>12, <1>13, <1>14
     DEF Next, Step, PickNextTask

\* A queued task keeps somebody to look at it.
LEMMA LookStep ==
    ASSUME TypeOK, ChosenMeansHeld, SomeoneWillLook, [Next]_vars
    PROVE  SomeoneWillLook'
<1> USE QueueAssumption DEF TypeOK, Labels, Holding, queue, local, history, vars, At, Goto, Return, SomeoneWillLook
<1>1. ASSUME NEW th \in Threads, NEW t \in Tasks, Push(th, t) PROVE SomeoneWillLook'
  BY <1>1 DEF Push
<1>2. ASSUME NEW th \in Threads, NEW t \in Tasks, Begin(th, t) PROVE SomeoneWillLook'
  BY <1>2 DEF Begin
<1>3. ASSUME NEW th \in Threads, Pause(th) PROVE SomeoneWillLook'
  BY <1>3 DEF Pause
<1>4. ASSUME NEW th \in Threads, Resume(th) PROVE SomeoneWillLook'
  BY <1>4 DEF Resume
<1>5. ASSUME NEW th \in Threads, TestPause(th) PROVE SomeoneWillLook'
  BY <1>5 DEF TestPause
<1>6. ASSUME NEW th \in Threads, NEW here \in {"choose1", "choose2"},
             NEW won \in {"pop1", "pop2"}, Choose(th, here, won)
      PROVE SomeoneWillLook'
  BY <1>6 DEF Choose
<1>7. ASSUME NEW th \in Threads, NEW here \in {"pop1", "pop2"},
             NEW missed \in {"clear1", "clear2"}, Pop(th, here, missed)
      PROVE SomeoneWillLook'
  BY <1>7 DEF Pop
<1>8. ASSUME NEW th \in Threads, ClearFirst(th) PROVE SomeoneWillLook'
  BY <1>8 DEF ClearFirst
<1>9. ASSUME NEW th \in Threads, Recheck(th) PROVE SomeoneWillLook'
  BY <1>9 DEF Recheck
<1>10. ASSUME NEW th \in Threads, ClearSecond(th) PROVE SomeoneWillLook'
  BY <1>10 DEF ClearSecond
<1>11. ASSUME NEW th \in Threads, Dispatch(th) PROVE SomeoneWillLook'
  BY <1>11 DEF Dispatch
<1>12. ASSUME NEW th \in Threads, Execute(th) PROVE SomeoneWillLook'
  BY <1>12 DEF Execute
<1>13. ASSUME NEW th \in Threads, FinishedTask(th) PROVE SomeoneWillLook'
  BY <1>13 DEF FinishedTask
<1>14. CASE UNCHANGED vars
  BY <1>14
<1> QED
  BY <1>1, <1>2, <1>3, <1>4, <1>5, <1>6, <1>7,
     <1>8, <1>9, <1>10, <1>11, <1>12, <1>13, <1>14
     DEF Next, Step, PickNextTask

\* A thread that owns the choice without a task in hand: nobody else has one.
LEMMA NothingInHand ==
    ASSUME TypeOK, TaskHeld, ChosenMeansHeld, NothingLost,
           NEW th \in Threads, pc[th] \in Holding \ {"got", "run"}
    PROVE  InHand = {} /\ Popped = Len(done)
<1>1. th \in Holders /\ spawned = {}
  BY DEF Holders, ChosenMeansHeld
<1>2. InHand = {}
  <2> SUFFICES ASSUME NEW u \in Threads, task[u] \in Tasks PROVE FALSE
    BY <1>1 DEF InHand
  <2>1. pc[u] \in {"got", "run"}
    BY QueueAssumption DEF TaskHeld
  <2>2. u \in Holders /\ u = th
    BY <1>1, <2>1 DEF Holders, Holding, ChosenMeansHeld
  <2> QED
    BY <2>1, <2>2
<1>3. Popped = Len(done)
  BY <1>2 DEF NothingLost
<1> QED
  BY <1>2, <1>3

\* The thread that has a task in hand is the only one, and its task is the
\* one taken last.
LEMMA OneInHand ==
    ASSUME TypeOK, TaskHeld, ChosenMeansHeld, NothingLost,
           NEW th \in Threads, pc[th] \in {"got", "run"}
    PROVE  /\ task[th] \in Tasks
           /\ InHand = {task[th]}
           /\ Popped = Len(done) + 1
           /\ task[th] = accepted[Popped]
           /\ spawned = {}
           /\ \A u \in Threads \ {th} : task[u] = NoTask
<1>1. task[th] \in Tasks
  BY DEF TaskHeld, TypeOK
<1>2. th \in Holders /\ spawned = {}
  BY DEF Holders, Holding, ChosenMeansHeld
<1>3. \A u \in Threads \ {th} : task[u] = NoTask
  BY <1>2 DEF Holders, Holding, ChosenMeansHeld, TaskHeld
<1>4. InHand = {task[th]}
  BY <1>1, <1>2, <1>3, QueueAssumption DEF InHand
<1>5. Popped # Len(done) /\ task[th] = accepted[Popped]
  BY <1>4 DEF NothingLost
<1>6. Popped = Len(done) + 1
  BY <1>5 DEF NothingLost, TypeOK
<1> QED
  BY <1>1, <1>2, <1>3, <1>4, <1>5, <1>6

\* The accepted tasks stay those executed, in hand and queued, in order.
LEMMA NothingLostStep ==
    ASSUME TypeOK, TaskHeld, ChosenMeansHeld, NothingLost, [Next]_vars
    PROVE  NothingLost'
<1> USE QueueAssumption DEF TypeOK, Holding, queue, local, history, vars, At, Goto, Return
<1>1. ASSUME NEW th \in Threads, NEW t \in Tasks, Push(th, t) PROVE NothingLost'
  <2>1. /\ Len(m_tasks') = Len(m_tasks) + 1
        /\ Len(accepted') = Len(accepted) + 1
        /\ \A i \in 1..Len(m_tasks) : m_tasks'[i] = m_tasks[i]
        /\ \A i \in 1..Len(accepted) : accepted'[i] = accepted[i]
        /\ m_tasks'[Len(m_tasks) + 1] = t
        /\ accepted'[Len(accepted) + 1] = t
    BY <1>1, AppendProperties DEF Push
  <2>2. UNCHANGED <<done, Popped, InHand>>
    BY <1>1, <2>1 DEF Push, Popped, InHand
  <2>3. Popped <= Len(accepted) /\ Popped \in Nat /\ Len(done) \in Nat
    BY DEF Popped, NothingLost
  <2>4. \A i \in 1..Len(m_tasks') : m_tasks'[i] = accepted'[Popped' + i]
    <3>1. \A i \in 1..Len(m_tasks) : m_tasks'[i] = accepted'[Popped' + i]
      <4> SUFFICES ASSUME NEW i \in 1..Len(m_tasks) PROVE m_tasks'[i] = accepted'[Popped' + i]
        OBVIOUS
      <4>1. m_tasks'[i] = accepted[Popped + i]
        BY <2>1 DEF NothingLost
      <4>2. Popped + i \in 1..Len(accepted)
        BY <2>3 DEF Popped
      <4> QED
        BY <2>1, <2>2, <4>1, <4>2
    <3>2. Popped' + Len(m_tasks') = Len(accepted')
      BY <2>1 DEF Popped
    <3> QED
      BY <2>1, <3>1, <3>2
  <2>5. \A i \in 1..Popped : accepted'[i] = accepted[i]
    BY <2>1, <2>3
  <2>6. \A i \in 1..Len(done') : done'[i] = accepted'[i]
    BY <2>2, <2>3, <2>5 DEF NothingLost
  <2>7. Popped # Len(done) => accepted'[Popped'] = accepted[Popped]
    BY <2>2, <2>3, <2>5 DEF NothingLost
  <2>8. InHand' = IF Popped' = Len(done') THEN {} ELSE {accepted'[Popped']}
    BY <2>2, <2>7 DEF NothingLost
  <2> QED
    BY <2>2, <2>3, <2>4, <2>6, <2>8 DEF NothingLost
<1>2. ASSUME NEW th \in Threads, NEW t \in Tasks, Begin(th, t) PROVE NothingLost'
  <2>1. UNCHANGED <<m_tasks, accepted, done, Popped>>
    BY <1>2 DEF Begin, Popped
  <2>2. InHand' = InHand
    BY <1>2 DEF Begin, InHand, TaskHeld
  <2> QED
    BY <2>1, <2>2 DEF NothingLost
<1>3. ASSUME NEW th \in Threads, Pause(th) PROVE NothingLost'
  <2>1. UNCHANGED <<m_tasks, accepted, done, task, spawned>>
    BY <1>3 DEF Pause
  <2> QED
    BY <2>1 DEF NothingLost, Popped, InHand
<1>4. ASSUME NEW th \in Threads, Resume(th) PROVE NothingLost'
  <2>1. UNCHANGED <<m_tasks, accepted, done, task, spawned>>
    BY <1>4 DEF Resume
  <2> QED
    BY <2>1 DEF NothingLost, Popped, InHand
<1>5. ASSUME NEW th \in Threads, TestPause(th) PROVE NothingLost'
  <2>1. UNCHANGED <<m_tasks, accepted, done, task, spawned>>
    BY <1>5 DEF TestPause
  <2> QED
    BY <2>1 DEF NothingLost, Popped, InHand
<1>6. ASSUME NEW th \in Threads, NEW here \in {"choose1", "choose2"},
             NEW won \in {"pop1", "pop2"}, Choose(th, here, won)
      PROVE NothingLost'
  <2>1. UNCHANGED <<m_tasks, accepted, done, task, spawned>>
    BY <1>6 DEF Choose
  <2> QED
    BY <2>1 DEF NothingLost, Popped, InHand
<1>7. ASSUME NEW th \in Threads, NEW here \in {"pop1", "pop2"},
             NEW missed \in {"clear1", "clear2"}, Pop(th, here, missed)
      PROVE NothingLost'
  <2>1. CASE m_tasks = <<>>
    <3>1. UNCHANGED <<m_tasks, accepted, done, task, spawned>>
      BY <1>7, <2>1 DEF Pop
    <3> QED
      BY <3>1 DEF NothingLost, Popped, InHand
  <2>2. CASE m_tasks # <<>>
    <3>1. InHand = {} /\ Popped = Len(done)
      BY <1>7, NothingInHand DEF Pop
    <3>2. /\ Head(m_tasks) \in Tasks
          /\ Head(m_tasks) = m_tasks[1]
          /\ Len(m_tasks) \in Nat \ {0}
          /\ Len(m_tasks') = Len(m_tasks) - 1
          /\ \A i \in 1..Len(m_tasks') : m_tasks'[i] = m_tasks[i + 1]
      <4>1. m_tasks' = Tail(m_tasks)
        BY <1>7, <2>2 DEF Pop
      <4>2. Head(m_tasks) = m_tasks[1] /\ Len(m_tasks) \in Nat \ {0}
        BY <2>2
      <4> QED
        BY <2>2, <4>1, <4>2, HeadTailProperties
    <3>3. Popped' = Popped + 1 /\ Popped \in Nat /\ UNCHANGED <<accepted, done>>
      BY <1>7, <3>1, <3>2 DEF Pop, Popped
    <3>4. InHand' = {m_tasks[1]}
      BY <1>7, <2>2, <3>1, <3>2 DEF Pop, InHand
    <3>5. m_tasks[1] = accepted[Popped + 1]
      BY <3>2 DEF NothingLost
    <3>6. \A i \in 1..Len(m_tasks') : m_tasks'[i] = accepted'[Popped' + i]
      <4> SUFFICES ASSUME NEW i \in 1..Len(m_tasks') PROVE m_tasks'[i] = accepted'[Popped' + i]
        OBVIOUS
      <4>1. i + 1 \in 1..Len(m_tasks) /\ m_tasks'[i] = m_tasks[i + 1]
        BY <3>2
      <4>2. m_tasks[i + 1] = accepted[Popped + (i + 1)]
        BY <4>1 DEF NothingLost
      <4>3. Popped + (i + 1) = Popped' + i
        BY <3>3
      <4> QED
        BY <3>3, <4>1, <4>2, <4>3
    <3>7. Popped' = Len(done') + 1 /\ InHand' = {accepted'[Popped']}
      BY <3>1, <3>3, <3>4, <3>5
    <3>8. Popped' \in Len(done') .. Len(done') + 1
      BY <3>1, <3>3, <3>7
    <3>9. \A i \in 1..Len(done') : done'[i] = accepted'[i]
      BY <3>3 DEF NothingLost
    <3> QED
      BY <3>6, <3>7, <3>8, <3>9 DEF NothingLost
  <2> QED
    BY <2>1, <2>2
<1>8. ASSUME NEW th \in Threads, ClearFirst(th) PROVE NothingLost'
  <2>1. UNCHANGED <<m_tasks, accepted, done, task, spawned>>
    BY <1>8 DEF ClearFirst
  <2> QED
    BY <2>1 DEF NothingLost, Popped, InHand
<1>9. ASSUME NEW th \in Threads, Recheck(th) PROVE NothingLost'
  <2>1. UNCHANGED <<m_tasks, accepted, done, task, spawned>>
    BY <1>9 DEF Recheck
  <2> QED
    BY <2>1 DEF NothingLost, Popped, InHand
<1>10. ASSUME NEW th \in Threads, ClearSecond(th) PROVE NothingLost'
  <2>1. UNCHANGED <<m_tasks, accepted, done, task, spawned>>
    BY <1>10 DEF ClearSecond
  <2> QED
    BY <2>1 DEF NothingLost, Popped, InHand
<1>11. ASSUME NEW th \in Threads, Dispatch(th) PROVE NothingLost'
  <2>1. task[th] \in Tasks /\ UNCHANGED <<m_tasks, accepted, done, Popped>>
    BY <1>11, OneInHand DEF Dispatch, Popped
  <2>2. InHand' = InHand
    <3>1. CASE GroupOf[task[th]] = group[th]
      BY <1>11, <3>1 DEF Dispatch, InHand
    <3>2. CASE GroupOf[task[th]] # group[th]
      BY <1>11, <2>1, <3>2 DEF Dispatch, InHand
    <3> QED
      BY <3>1, <3>2
  <2> QED
    BY <2>1, <2>2 DEF NothingLost
<1>12. ASSUME NEW th \in Threads, Execute(th) PROVE NothingLost'
  <2>1. /\ task[th] \in Tasks
        /\ Popped = Len(done) + 1
        /\ task[th] = accepted[Popped]
        /\ spawned = {}
        /\ \A u \in Threads \ {th} : task[u] = NoTask
    BY <1>12, OneInHand DEF Execute
  <2>2. /\ Len(done') = Len(done) + 1
        /\ \A i \in 1..Len(done) : done'[i] = done[i]
        /\ done'[Len(done) + 1] = task[th]
    BY <1>12, <2>1, AppendProperties DEF Execute
  <2>3. UNCHANGED <<m_tasks, accepted, Popped>> /\ Len(done) \in Nat
    BY <1>12 DEF Execute, Popped
  <2>4. InHand' = {}
    BY <1>12, <2>1 DEF Execute, InHand
  <2>5. Popped' = Len(done')
    BY <2>1, <2>2, <2>3
  <2>6. ASSUME NEW i \in 1..Len(done') PROVE done'[i] = accepted'[i]
    <3>1. CASE i \in 1..Len(done)
      BY <3>1, <2>2, <2>3 DEF NothingLost
    <3>2. CASE i = Len(done) + 1
      BY <3>2, <2>1, <2>2, <2>3
    <3> QED
      BY <3>1, <3>2, <2>2, <2>3
  <2>7. Popped' \in Len(done') .. Len(done') + 1
    BY <2>1, <2>2, <2>3
  <2> QED
    BY <2>3, <2>4, <2>5, <2>6, <2>7 DEF NothingLost
<1>13. ASSUME NEW th \in Threads, FinishedTask(th) PROVE NothingLost'
  <2>1. UNCHANGED <<m_tasks, accepted, done, task, spawned>>
    BY <1>13 DEF FinishedTask
  <2> QED
    BY <2>1 DEF NothingLost, Popped, InHand
<1>14. CASE UNCHANGED vars
  BY <1>14 DEF NothingLost, Popped, InHand
<1> QED
  BY <1>1, <1>2, <1>3, <1>4, <1>5, <1>6, <1>7,
     <1>8, <1>9, <1>10, <1>11, <1>12, <1>13, <1>14
     DEF Next, Step, PickNextTask

-----------------------------------------------------------------------------
(* The theorems. *)

\* The inductive invariant holds in every reachable state.
THEOREM Invariance == Spec => []IndInv
<1>1. IndInv /\ [Next]_vars => IndInv'
  BY TypeStep, TaskHeldStep, ChosenStep, NothingLostStep, LookStep DEF IndInv
<1> QED
  BY InitInv, <1>1, PTL DEF Spec

\* Every variable keeps its type.
THEOREM TypeCorrect == Spec => []TypeOK
<1>1. IndInv => TypeOK
  BY DEF IndInv
<1> QED
  BY Invariance, <1>1, PTL

\* At most one task of the queue runs at a time.
THEOREM Exclusion == Spec => []MutualExclusion
<1>1. IndInv => MutualExclusion
  BY DEF IndInv, TypeOK, ChosenMeansHeld, Holders, Holding, MutualExclusion, At
<1> QED
  BY Invariance, <1>1, PTL

\* Tasks are neither lost nor duplicated nor overtaken.
THEOREM Conservation == Spec => []NothingLost
<1>1. IndInv => NothingLost
  BY DEF IndInv
<1> QED
  BY Invariance, <1>1, PTL

\* Only the race at clear2 can leave a task behind in a quiet queue that is
\* not paused.
THEOREM Stranding == Spec => []OnlyLostRaceStrands
<1>1. IndInv => OnlyLostRaceStrands
  BY DEF IndInv, ChosenMeansHeld, Holders, Holding, SomeoneWillLook,
         OnlyLostRaceStrands, Quiet, At
<1> QED
  BY Invariance, <1>1, PTL

\* A pause stops every call of pickNextTask() that has not passed its test of
\* m_pauseCount yet.
THEOREM PauseStops == Spec => PauseStopsNewPicks
<1>1. TypeOK /\ [Next]_vars
      => [m_pauseCount > 0 /\ m_pauseCount' > 0 => PastTest' \subseteq PastTest]_vars
  <2> SUFFICES ASSUME TypeOK, [Next]_vars, m_pauseCount > 0, m_pauseCount' > 0,
                      NEW u \in Threads, u \in PastTest'
               PROVE  u \in PastTest
    BY DEF PastTest
  <2> USE DEF TypeOK, PastTest, At, Goto, Return, vars, queue, local, history
  <2>1. ASSUME NEW th \in Threads, NEW t \in Tasks, Push(th, t) \/ Begin(th, t)
        PROVE  u \in PastTest
    BY <2>1 DEF Push, Begin
  <2>2. ASSUME NEW th \in Threads, Pause(th) \/ Resume(th) PROVE u \in PastTest
    BY <2>2 DEF Pause, Resume
  <2>3. ASSUME NEW th \in Threads, PickNextTask(th) PROVE u \in PastTest
    BY <2>3 DEF PickNextTask, TestPause, Choose, Pop, ClearFirst, Recheck, ClearSecond
  <2>4. ASSUME NEW th \in Threads, Dispatch(th) \/ Execute(th) \/ FinishedTask(th)
        PROVE  u \in PastTest
    BY <2>4 DEF Dispatch, Execute, FinishedTask
  <2>5. CASE UNCHANGED vars
    BY <2>5
  <2> QED
    BY <2>1, <2>2, <2>3, <2>4, <2>5 DEF Next, Step
<1> QED
  BY TypeCorrect, <1>1, PTL DEF Spec, PauseStopsNewPicks

\* Every step of the queue is a step of the serial executor or changes nothing
\* the executor speaks of.
LEMMA ExecutorStep == IndInv /\ [Next]_vars => [Executor!Next]_(Executor!vars)
<1> SUFFICES ASSUME IndInv, [Next]_vars PROVE [Executor!Next]_(Executor!vars)
  OBVIOUS
<1> USE DEF IndInv, TypeOK, Executor!vars, Executor!Next
<1>1. ASSUME NEW th \in Threads, NEW t \in Tasks, Push(th, t)
      PROVE  Executor!Submit(t)
  BY <1>1, AppendProperties DEF Push, Executor!Submit, Popped
<1>2. ASSUME NEW th \in Threads, NEW here \in {"pop1", "pop2"},
             NEW missed \in {"clear1", "clear2"}, Pop(th, here, missed), m_tasks # <<>>
      PROVE  Executor!Start
  <2>1. Popped = Len(done)
    BY <1>2, NothingInHand DEF Pop, At, Holding
  <2>2. Len(m_tasks) \in Nat \ {0} /\ Len(m_tasks') = Len(m_tasks) - 1
    BY <1>2, HeadTailProperties DEF Pop
  <2> QED
    BY <1>2, <2>1, <2>2 DEF Pop, Popped, Executor!Start, history
<1>3. ASSUME NEW th \in Threads, Execute(th) PROVE Executor!Complete
  <2>1. Popped = Len(done) + 1 /\ task[th] = accepted[Popped]
    BY <1>3, OneInHand DEF Execute, At
  <2> QED
    BY <1>3, <2>1 DEF Execute, queue, Popped, Executor!Complete
<1>4. ASSUME NEW th \in Threads,
             \/ Pause(th) \/ Resume(th) \/ TestPause(th) \/ ClearFirst(th)
             \/ Recheck(th) \/ ClearSecond(th) \/ Dispatch(th) \/ FinishedTask(th)
      PROVE  UNCHANGED Executor!vars
  BY <1>4 DEF Pause, Resume, TestPause, ClearFirst, Recheck, ClearSecond, Dispatch,
              FinishedTask, Popped, queue, history
<1>5. ASSUME NEW th \in Threads, NEW t \in Tasks, Begin(th, t)
      PROVE  UNCHANGED Executor!vars
  BY <1>5 DEF Begin, Popped, queue, history
<1>6. ASSUME NEW th \in Threads, NEW here, NEW won, Choose(th, here, won)
      PROVE  UNCHANGED Executor!vars
  BY <1>6 DEF Choose, Popped, history
<1>7. ASSUME NEW th \in Threads, NEW here, NEW missed, Pop(th, here, missed),
             m_tasks = <<>>
      PROVE  UNCHANGED Executor!vars
  BY <1>7 DEF Pop, Popped, history
<1>8. CASE UNCHANGED vars
  BY <1>8 DEF vars, queue, history, Popped
<1> QED
  BY <1>1, <1>2, <1>3, <1>4, <1>5, <1>6, <1>7, <1>8 DEF Next, Step, PickNextTask

\* SerialTaskQueue implements SerialExecutor: one task at a time, in the order
\* of the pushes, each once.
THEOREM Refinement == Spec => ExecutorSpec
<1>1. Init => Executor!Init
  BY DEF Init, Executor!Init, Popped
<1> QED
  BY Invariance, <1>1, ExecutorStep, PTL DEF Spec, ExecutorSpec, Executor!Spec

-----------------------------------------------------------------------------
(* The queue and its destructor. *)

DtorPlaces == {"alive", "readChosen", "push", "wait", "test", "gone"}

\* No task is pushed twice.
PushedOnce == \A i, j \in 1 .. Len(accepted) : accepted[i] = accepted[j] => i = j

\* The marker is not pushed before the destructor gets there, nothing is pushed
\* after it, and the destructor is left only when it has run.
MarkerIsLast ==
    /\ dtor \in DtorPlaces
    /\ dtor \in {"alive", "readChosen", "push"} => ~Accepted(Marker)
    /\ Accepted(Marker) => accepted[Len(accepted)] = Marker
    /\ dtor = "gone" /\ Accepted(Marker) => Executed(Marker)

TeardownInv == IndInv /\ PushedOnce /\ MarkerIsLast

-----------------------------------------------------------------------------
(* Every step of the queue with its destructor is one of the queue. *)

\* The destructor itself only pushes its marker; all else it reads.
LEMMA StepOfQueue == [TNext]_tvars => [Next]_vars
<1> SUFFICES ASSUME [TNext]_tvars PROVE [Next]_vars
  OBVIOUS
<1> USE TeardownAssumption
<1>1. CASE ReadEmpty \/ ReadChosen \/ WaitReturns \/ TestDone
  BY <1>1 DEF ReadEmpty, ReadChosen, WaitReturns, TestDone
<1>2. CASE PushMarker
  BY <1>2 DEF PushMarker, Next
<1>3. CASE Clients
  BY <1>3 DEF Clients, Next
<1>4. CASE Internal
  BY <1>4 DEF Internal, Next
<1>5. CASE UNCHANGED tvars
  BY <1>5 DEF tvars
<1> QED
  BY <1>1, <1>2, <1>3, <1>4, <1>5 DEF TNext, Destructor

\* What the queue promises, it promises while it is destroyed too: one task at a
\* time, in the order of the pushes, none lost.
THEOREM TeardownIsQueue == TSpec => Spec
<1>1. TInit => Init
  BY DEF TInit
<1> QED
  BY <1>1, StepOfQueue, PTL DEF TSpec, Spec

-----------------------------------------------------------------------------
(* The marker is the last task. *)

\* Of the steps of the queue, only a push changes what has been accepted, and
\* what has been executed stays so.
LEMMA History ==
    ASSUME TypeOK, TaskHeld, [Next]_vars
    PROVE  /\ (\A th \in Threads, t \in Tasks : ~Push(th, t)) => accepted' = accepted
           /\ \A t \in Tasks : Executed(t) => Executed(t)'
<1> USE DEF queue, local, history, vars, TypeOK
<1>1. ASSUME NEW th \in Threads, NEW t \in Tasks, Push(th, t)
      PROVE  UNCHANGED done
  BY <1>1 DEF Push
<1>2. ASSUME NEW th \in Threads, NEW t \in Tasks, Begin(th, t)
      PROVE  UNCHANGED <<accepted, done>>
  BY <1>2 DEF Begin
<1>3. ASSUME NEW th \in Threads, Pause(th) \/ Resume(th)
      PROVE  UNCHANGED <<accepted, done>>
  BY <1>3 DEF Pause, Resume
<1>4. ASSUME NEW th \in Threads, PickNextTask(th)
      PROVE  UNCHANGED <<accepted, done>>
  BY <1>4 DEF PickNextTask, TestPause, Choose, Pop, ClearFirst, Recheck, ClearSecond
<1>5. ASSUME NEW th \in Threads, Dispatch(th) \/ FinishedTask(th)
      PROVE  UNCHANGED <<accepted, done>>
  BY <1>5 DEF Dispatch, FinishedTask
<1>6. ASSUME NEW th \in Threads, Execute(th)
      PROVE  /\ UNCHANGED accepted
             /\ Len(done') = Len(done) + 1
             /\ \A i \in 1 .. Len(done) : done'[i] = done[i]
  <2>1. task[th] \in Tasks
    BY <1>6, QueueAssumption DEF Execute, TaskHeld, At
  <2> QED
    BY <1>6, <2>1, AppendProperties DEF Execute
<1>7. ASSUME NEW t \in Tasks, Executed(t) PROVE Executed(t)'
  <2>1. PICK i \in 1 .. Len(done) : done[i] = t
    BY <1>7 DEF Executed
  <2>2. UNCHANGED done \/ (Len(done') = Len(done) + 1 /\ \A k \in 1 .. Len(done) : done'[k] = done[k])
    BY <1>1, <1>2, <1>3, <1>4, <1>5, <1>6 DEF Next, Step
  <2>3. i \in 1 .. Len(done') /\ done'[i] = t
    BY <2>1, <2>2, LenProperties
  <2> QED
    BY <2>3 DEF Executed
<1>8. (\A th \in Threads, t \in Tasks : ~Push(th, t)) => accepted' = accepted
  BY <1>2, <1>3, <1>4, <1>5, <1>6 DEF Next, Step
<1> QED
  BY <1>7, <1>8

\* A task is pushed that has not been pushed before, behind all others.
LEMMA Pushed ==
    ASSUME TypeOK, PushedOnce, NEW th \in Threads, NEW t \in Tasks, Push(th, t)
    PROVE  /\ PushedOnce'
           /\ Len(accepted') = Len(accepted) + 1 /\ accepted'[Len(accepted')] = t
           /\ \A u \in Tasks : Accepted(u)' <=> Accepted(u) \/ u = t
<1>1. /\ Len(accepted) \in Nat /\ Len(accepted') = Len(accepted) + 1
      /\ accepted'[Len(accepted) + 1] = t
      /\ \A i \in 1 .. Len(accepted) : accepted'[i] = accepted[i] /\ accepted[i] # t
  BY AppendProperties, LenProperties DEF TypeOK, Push
<1>2. PushedOnce'
  BY <1>1 DEF PushedOnce
<1>3. \A u \in Tasks : Accepted(u)' <=> Accepted(u) \/ u = t
  <2> SUFFICES ASSUME NEW u \in Tasks PROVE Accepted(u)' <=> Accepted(u) \/ u = t
    OBVIOUS
  <2>1. CASE u = t
    BY <1>1, <2>1 DEF Accepted
  <2>2. CASE u # t
    BY <1>1, <2>2 DEF Accepted
  <2> QED
    BY <2>1, <2>2
<1> QED
  BY <1>1, <1>2, <1>3

\* The inductive invariant of the queue with its destructor.
LEMMA TeardownStep ==
    ASSUME TeardownInv, [TNext]_tvars
    PROVE  TeardownInv'
<1> USE TeardownAssumption DEF TeardownInv
<1>1. [Next]_vars
  BY StepOfQueue
<1>2. IndInv'
  BY <1>1, TypeStep, TaskHeldStep, ChosenStep, NothingLostStep, LookStep DEF IndInv
<1>3. TypeOK /\ TaskHeld
  BY DEF IndInv
<1>4. PushedOnce'
  <2>1. accepted' = accepted => PushedOnce'
    BY DEF PushedOnce
  <2> QED
    BY <1>1, <1>3, <2>1, History, Pushed
<1>5. MarkerIsLast'
  <2> USE DEF MarkerIsLast, DtorPlaces
  <2>1. ASSUME UNCHANGED <<accepted, done>>,
               dtor' \in {"alive", "readChosen", "push"} => dtor \in {"alive", "readChosen", "push"},
               dtor' = "gone" => dtor = "gone" \/ Executed(Marker) \/ ~Accepted(Marker),
               dtor' \in DtorPlaces
        PROVE  MarkerIsLast'
    BY <2>1 DEF Accepted, Executed
  <2>2. CASE ReadEmpty \/ ReadChosen \/ WaitReturns \/ TestDone
    BY <2>1, <2>2 DEF ReadEmpty, ReadChosen, WaitReturns, TestDone, vars, history
  <2>3. CASE PushMarker
    <3>1. Accepted(Marker)' /\ accepted'[Len(accepted')] = Marker
      BY <1>3, <2>3, Pushed DEF PushMarker
    <3> QED
      BY <2>3, <3>1 DEF PushMarker
  <2>4. CASE Clients
    <3>1. dtor = "alive" /\ UNCHANGED dtor /\ ~Accepted(Marker)
      BY <2>4 DEF Clients
    <3>2. CASE \E th \in Threads, t \in Tasks \ {Marker} : Push(th, t)
      BY <1>3, <3>1, <3>2, Pushed
    <3>3. CASE \E th \in Threads : Pause(th) \/ Resume(th)
      BY <2>1, <3>1, <3>3 DEF Pause, Resume, history
    <3> QED
      BY <2>4, <3>2, <3>3 DEF Clients
  <2>5. CASE Internal
    <3>1. dtor # "gone" /\ UNCHANGED dtor
      BY <2>5 DEF Internal
    <3>2. accepted' = accepted
      BY <2>5 DEF Internal, Step, PickNextTask, TestPause, Choose, Pop, ClearFirst, Recheck,
                  ClearSecond, Dispatch, Execute, FinishedTask, Begin, history
    <3> QED
      BY <3>1, <3>2 DEF Accepted
  <2>6. CASE UNCHANGED tvars
    BY <2>1, <2>6 DEF tvars, vars, history
  <2> QED
    BY <2>2, <2>3, <2>4, <2>5, <2>6 DEF TNext, Destructor
<1> QED
  BY <1>2, <1>4, <1>5

\* It is an invariant.
THEOREM TeardownInvariance == TSpec => []TeardownInv
<1>1. TInit => TeardownInv
  <2>1. TInit => IndInv
    BY InitInv DEF TInit
  <2>2. TInit => PushedOnce /\ MarkerIsLast
    BY EmptySeq DEF TInit, Init, PushedOnce, MarkerIsLast, DtorPlaces, Accepted
  <2> QED
    BY <2>1, <2>2 DEF TeardownInv
<1> QED
  BY <1>1, TeardownStep, PTL DEF TSpec

\* Where the destructor waits, it waits for all: its marker runs last, since the
\* queue runs its tasks in the order of the pushes.
THEOREM WaitedForAll == TSpec => []WaitedMeansCompleted
<1>1. TeardownInv => WaitedMeansCompleted
  <2> SUFFICES ASSUME TeardownInv, dtor = "gone", Accepted(Marker),
                      NEW t \in Tasks, Accepted(t)
               PROVE  Executed(t)
    BY DEF WaitedMeansCompleted
  <2> USE DEF TeardownInv, IndInv
  <2>1. Len(accepted) \in Nat /\ Len(done) \in Nat /\ Len(m_tasks) \in Nat
    BY LenProperties DEF TypeOK
  <2>2. PICK k \in 1 .. Len(done) : done[k] = Marker
    BY DEF MarkerIsLast, Executed
  <2>3. Len(done) <= Len(accepted)
    BY <2>1 DEF NothingLost, Popped
  <2>4. k \in 1 .. Len(accepted) /\ accepted[k] = Marker
    BY <2>1, <2>2, <2>3 DEF NothingLost
  <2>5. k = Len(accepted)
    BY <2>1, <2>4 DEF MarkerIsLast, PushedOnce
  <2>6. PICK i \in 1 .. Len(accepted) : accepted[i] = t
    BY DEF Accepted
  <2>7. i \in 1 .. Len(done) /\ done[i] = t
    BY <2>1, <2>2, <2>3, <2>5, <2>6 DEF NothingLost
  <2> QED
    BY <2>7 DEF Executed
<1> QED
  BY TeardownInvariance, <1>1, PTL

=============================================================================
