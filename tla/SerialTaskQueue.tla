-------------------------- MODULE SerialTaskQueue --------------------------
(***************************************************************************)
(* demo::SerialTaskQueue of TBBProcessingDemo: a lock-free queue that lets *)
(* one task at a time use a resource without blocking the others.          *)
(*                                                                         *)
(* A thread is idle, or inside push(), resume() or the lambda spawn() gave *)
(* to a task group; pc is its next access to the shared state.  The        *)
(* labels of pickNextTask() are                                            *)
(*   pick    test m_pauseCount      choose1  first compare-exchange        *)
(*   pop1    first try_pop          clear1   undo the first choice         *)
(*   recheck test m_tasks.empty()   choose2  second compare-exchange       *)
(*   pop2    second try_pop         clear2   undo the second choice        *)
(* got is its return with a task; run and release are the lambda's         *)
(* execute() and the store of finishedTask().                              *)
(*                                                                         *)
(* m_tasks is a tbb::concurrent_queue: pushes and pops are atomic and FIFO.*)
(***************************************************************************)
EXTENDS Naturals, Sequences

CONSTANTS
    Threads,    \* threads that call the queue or work for the task groups
    Tasks,      \* the heap-allocated QueuedTasks; each is pushed once
    Groups,     \* tbb::task_groups
    GroupOf,    \* TaskBase::m_group
    MaxPauses,  \* bound: how often pause() is called in a behaviour
    NoTask,     \* the null TaskBase*
    NoGroup     \* "not inside a spawned lambda"

ASSUME QueueAssumption ==
    /\ GroupOf \in [Tasks -> Groups]
    /\ NoTask \notin Tasks
    /\ NoGroup \notin Groups
    /\ MaxPauses \in Nat

VARIABLES
    m_tasks,        \* the pushed tasks nobody has popped yet
    m_taskChosen,   \* somebody is responsible for the resource
    m_pauseCount,
    spawned,        \* tasks given to their group that no thread has begun
    pc,             \* next step of each thread
    task,           \* the task a thread holds (local t)
    group,          \* the group of the lambda a thread is in (local g)
    pauses,         \* calls to pause() so far, for the bound
    accepted,       \* history: every task pushed, in order
    done,           \* history: every task executed, in order
    lostRace        \* history: clear2 was ever done with tasks in the queue

queue   == <<m_tasks, m_taskChosen, m_pauseCount>>
local   == <<pc, task, group>>
history == <<accepted, done, lostRace>>
vars    == <<queue, local, history, spawned, pauses>>

Holding == {"pop1", "clear1", "pop2", "clear2", "got", "run", "release"}
Labels  == Holding \cup {"idle", "pick", "choose1", "recheck", "choose2"}

Init ==
    /\ m_tasks = <<>> /\ m_taskChosen = FALSE /\ m_pauseCount = 0
    /\ spawned = {}
    /\ pc = [th \in Threads |-> "idle"]
    /\ task = [th \in Threads |-> NoTask]
    /\ group = [th \in Threads |-> NoGroup]
    /\ pauses = 0
    /\ accepted = <<>> /\ done = <<>> /\ lostRace = FALSE

At(th, label) == pc[th] = label

Goto(th, label) == pc' = [pc EXCEPT ![th] = label]

\* The thread leaves the queue's code.
Return(th) == /\ Goto(th, "idle")
              /\ group' = [group EXCEPT ![th] = NoGroup]

-----------------------------------------------------------------------------
(* The calls a client makes. *)

\* push(): m_tasks.push(iTask), then pickNextTask().
Push(th, t) ==
    /\ At(th, "idle")
    /\ \A i \in 1..Len(accepted) : accepted[i] # t
    /\ m_tasks' = Append(m_tasks, t)
    /\ accepted' = Append(accepted, t)
    /\ Goto(th, "pick")
    /\ UNCHANGED <<m_taskChosen, m_pauseCount, spawned, task, group, pauses,
                   done, lostRace>>

\* pause(): one atomic increment.
Pause(th) ==
    /\ At(th, "idle")
    /\ pauses < MaxPauses
    /\ pauses' = pauses + 1
    /\ m_pauseCount' = m_pauseCount + 1
    /\ UNCHANGED <<m_tasks, m_taskChosen, spawned, local, history>>

\* Mutant of Resume: the call is not matched with a pause().
ResumeUnbalanced(th) ==
    /\ At(th, "idle")
    /\ m_pauseCount' = m_pauseCount - 1
    /\ Goto(th, IF m_pauseCount = 1 THEN "pick" ELSE "idle")
    /\ UNCHANGED <<m_tasks, m_taskChosen, spawned, task, group, pauses, history>>

\* Mutant of Resume: the queue is reopened and nobody looks at it.
ResumeWithoutPick(th) ==
    /\ At(th, "idle")
    /\ m_pauseCount > 0
    /\ m_pauseCount' = m_pauseCount - 1
    /\ UNCHANGED <<m_tasks, m_taskChosen, spawned, local, pauses, history>>

\* resume(): the call that balances the last pause() picks a task.  Every
\* resume() follows a pause(), as the class asks of its callers.
Resume(th) ==
    /\ At(th, "idle")
    /\ m_pauseCount > 0
    /\ m_pauseCount' = m_pauseCount - 1
    /\ Goto(th, IF m_pauseCount = 1 THEN "pick" ELSE "idle")
    /\ UNCHANGED <<m_tasks, m_taskChosen, spawned, task, group, pauses, history>>

-----------------------------------------------------------------------------
(* pickNextTask(), one action per access to the shared state. *)

\* Mutant of TestPause: the pause is not tested.
TestNothing(th) ==
    /\ At(th, "pick")
    /\ Goto(th, "choose1")
    /\ UNCHANGED <<queue, spawned, task, group, pauses, history>>

TestPause(th) ==
    /\ At(th, "pick")
    /\ IF m_pauseCount = 0
         THEN Goto(th, "choose1") /\ UNCHANGED group
         ELSE Return(th)
    /\ UNCHANGED <<queue, spawned, task, pauses, history>>

\* Mutant of Choose: a plain store in place of the compare-exchange.
ChooseBlindly(th, here, won) ==
    /\ At(th, here)
    /\ Goto(th, won)
    /\ m_taskChosen' = TRUE
    /\ UNCHANGED <<m_tasks, m_pauseCount, spawned, task, group, pauses, history>>

\* m_taskChosen.compare_exchange_strong(expected, true)
Choose(th, here, won) ==
    /\ At(th, here)
    /\ IF m_taskChosen
         THEN Return(th) /\ UNCHANGED m_taskChosen
         ELSE Goto(th, won) /\ m_taskChosen' = TRUE /\ UNCHANGED group
    /\ UNCHANGED <<m_tasks, m_pauseCount, spawned, task, pauses, history>>

\* m_tasks.try_pop(t)
Pop(th, here, missed) ==
    /\ At(th, here)
    /\ IF m_tasks = <<>>
         THEN Goto(th, missed) /\ UNCHANGED <<m_tasks, task>>
         ELSE /\ Goto(th, "got")
              /\ task' = [task EXCEPT ![th] = Head(m_tasks)]
              /\ m_tasks' = Tail(m_tasks)
    /\ UNCHANGED <<m_taskChosen, m_pauseCount, spawned, group, pauses, history>>

\* "no task was actually pulled"
ClearFirst(th) ==
    /\ At(th, "clear1")
    /\ m_taskChosen' = FALSE
    /\ Goto(th, "recheck")
    /\ UNCHANGED <<m_tasks, m_pauseCount, spawned, task, group, pauses, history>>

\* Mutant of Recheck: the second look at m_tasks is left out.
RecheckLeftOut(th) ==
    /\ At(th, "recheck")
    /\ Return(th)
    /\ UNCHANGED <<queue, spawned, task, pauses, history>>

\* "was a new entry added after we called 'try_pop' but before we did the
\* clear?"
Recheck(th) ==
    /\ At(th, "recheck")
    /\ IF m_tasks = <<>> THEN Return(th)
                         ELSE Goto(th, "choose2") /\ UNCHANGED group
    /\ UNCHANGED <<queue, spawned, task, pauses, history>>

\* "a different thread beat us to it": the choice is undone and the queue is
\* not looked at again.
ClearSecond(th) ==
    /\ At(th, "clear2")
    /\ m_taskChosen' = FALSE
    /\ lostRace' = (lostRace \/ m_tasks # <<>>)
    /\ Return(th)
    /\ UNCHANGED <<m_tasks, m_pauseCount, spawned, task, pauses, accepted, done>>

PickNextTask(th) ==
    \/ TestPause(th)
    \/ Choose(th, "choose1", "pop1")
    \/ Pop(th, "pop1", "clear1")
    \/ ClearFirst(th)
    \/ Recheck(th)
    \/ Choose(th, "choose2", "pop2")
    \/ Pop(th, "pop2", "clear2")
    \/ ClearSecond(th)

-----------------------------------------------------------------------------
(* spawn(): the lambda that runs tasks. *)

\* Mutant of Dispatch: a task of another group is dropped (t = nullptr without
\* the spawn).
DispatchForgets(th) ==
    /\ At(th, "got")
    /\ IF GroupOf[task[th]] = group[th]
         THEN Goto(th, "run") /\ UNCHANGED <<spawned, task, group>>
         ELSE /\ spawned' = IF group[th] = NoGroup THEN spawned \cup {task[th]} ELSE spawned
              /\ task' = [task EXCEPT ![th] = NoTask]
              /\ Return(th)
    /\ UNCHANGED <<queue, pauses, history>>

\* The picked task stays in the lambda that just finished a task of the same
\* group; otherwise, and from push() and resume(), it goes to its own group.
Dispatch(th) ==
    /\ At(th, "got")
    /\ IF GroupOf[task[th]] = group[th]
         THEN Goto(th, "run") /\ UNCHANGED <<spawned, task, group>>
         ELSE /\ spawned' = spawned \cup {task[th]}
              /\ task' = [task EXCEPT ![th] = NoTask]
              /\ Return(th)
    /\ UNCHANGED <<queue, pauses, history>>

\* A thread of the task group's arena begins the lambda.
Begin(th, t) ==
    /\ At(th, "idle")
    /\ t \in spawned
    /\ spawned' = spawned \ {t}
    /\ task' = [task EXCEPT ![th] = t]
    /\ group' = [group EXCEPT ![th] = GroupOf[t]]
    /\ Goto(th, "run")
    /\ UNCHANGED <<queue, pauses, history>>

\* t->execute(), which lets no exception out, and delete t.
Execute(th) ==
    /\ At(th, "run")
    /\ done' = Append(done, task[th])
    /\ task' = [task EXCEPT ![th] = NoTask]
    /\ Goto(th, "release")
    /\ UNCHANGED <<queue, spawned, group, pauses, accepted, lostRace>>

\* Mutant of FinishedTask: the choice is given back and no task is picked.
FinishedWithoutPick(th) ==
    /\ At(th, "release")
    /\ m_taskChosen' = FALSE
    /\ Return(th)
    /\ UNCHANGED <<m_tasks, m_pauseCount, spawned, task, pauses, history>>

\* finishedTask(): give the choice back, then pickNextTask().
FinishedTask(th) ==
    /\ At(th, "release")
    /\ m_taskChosen' = FALSE
    /\ Goto(th, "pick")
    /\ UNCHANGED <<m_tasks, m_pauseCount, spawned, task, group, pauses, history>>

-----------------------------------------------------------------------------
\* The steps a thread inside the queue's code takes by itself.
Step(th) == \/ PickNextTask(th)
            \/ Dispatch(th)
            \/ Execute(th)
            \/ FinishedTask(th)

Next == \E th \in Threads :
            \/ \E t \in Tasks : Push(th, t) \/ Begin(th, t)
            \/ Pause(th)
            \/ Resume(th)
            \/ Step(th)

Spec == Init /\ [][Next]_vars

\* Threads are scheduled, a task given to a group is begun, tasks end, and
\* clients balance each pause() by a resume().
Fairness == /\ \A th \in Threads : WF_vars(Step(th))
            /\ WF_vars(\E th \in Threads, t \in Tasks : Begin(th, t))
            /\ WF_vars(\E th \in Threads : Resume(th))

FairSpec == Spec /\ Fairness

-----------------------------------------------------------------------------
(* Properties. *)

TypeOK ==
    /\ m_tasks \in Seq(Tasks)
    /\ m_taskChosen \in BOOLEAN
    /\ m_pauseCount \in Nat
    /\ spawned \subseteq Tasks
    /\ pc \in [Threads -> Labels]
    /\ task \in [Threads -> Tasks \cup {NoTask}]
    /\ group \in [Threads -> Groups \cup {NoGroup}]
    /\ pauses \in Nat
    /\ accepted \in Seq(Tasks)
    /\ done \in Seq(Tasks)
    /\ lostRace \in BOOLEAN

Holders == {th \in Threads : pc[th] \in Holding}

\* At most one task of the queue runs at any time, whichever thread or task
\* group runs it: the reason the class exists ("protected resource").
MutualExclusion ==
    \A a, b \in Threads : At(a, "run") /\ At(b, "run") => a = b

\* m_taskChosen is exactly the possession of the resource by one party: the
\* one thread between a won compare-exchange and the store that undoes it, or
\* the one task handed to a task group and not begun.
ChosenMeansHeld ==
    /\ m_taskChosen <=> Holders # {} \/ spawned # {}
    /\ \A a, b \in Holders : a = b
    /\ \A t, u \in spawned : t = u
    /\ Holders = {} \/ spawned = {}

\* The tasks popped and not yet executed: in the hands of a thread or of a
\* task group.
InHand == {t \in Tasks : t \in spawned \/ \E th \in Threads : task[th] = t}

\* The number of tasks taken from m_tasks so far.
Popped == Len(accepted) - Len(m_tasks)

\* No task is lost, duplicated or overtaken: the tasks accepted so far are
\* the executed ones, then the one in hand if any, then those queued.
NothingLost ==
    /\ Popped \in Len(done) .. Len(done) + 1
    /\ \A i \in 1..Len(done) : done[i] = accepted[i]
    /\ InHand = IF Popped = Len(done) THEN {} ELSE {accepted[Popped]}
    /\ \A i \in 1..Len(m_tasks) : m_tasks[i] = accepted[Popped + i]

\* Nobody is anywhere in the queue's code and no lambda is waiting to begin.
Quiet == spawned = {} /\ \A th \in Threads : At(th, "idle")

\* When the dust settles on a queue that is not paused, no task is left in
\* it - except after a second try_pop missed and clear2 gave the choice back
\* while another push(), whose compare-exchange had just failed because of
\* that very choice, had filled the queue again.
OnlyLostRaceStrands ==
    Quiet /\ m_pauseCount = 0 /\ ~lostRace => m_tasks = <<>>

\* Exactly the threads with a task in hand are those about to pass it on or
\* to run it.
TaskHeld == \A th \in Threads : task[th] # NoTask <=> pc[th] \in {"got", "run"}

\* As long as the race at clear2 is not lost, a queued task of a queue that is
\* not paused has somebody to look at it: whoever holds the choice, or a call
\* of pickNextTask() that has yet to try for the choice.
SomeoneWillLook ==
    m_pauseCount = 0 /\ m_tasks # <<>> /\ ~lostRace =>
        \/ m_taskChosen
        \/ \E th \in Threads : pc[th] \in {"pick", "choose1", "recheck", "choose2"}

\* The invariant that makes the ones above inductive.
IndInv == /\ TypeOK
          /\ TaskHeld
          /\ ChosenMeansHeld
          /\ NothingLost
          /\ SomeoneWillLook

\* While the queue stays paused, the calls of pickNextTask() that may still
\* take a task are those already past its test of m_pauseCount.
PastTest == {th \in Threads :
                pc[th] \in {"choose1", "pop1", "clear1", "recheck", "choose2", "pop2"}}

PauseStopsNewPicks ==
    [][m_pauseCount > 0 /\ m_pauseCount' > 0 => PastTest' \subseteq PastTest]_vars

\* The tasks run one at a time, in the order of the pushes, each once.
Executor == INSTANCE SerialExecutor
    WITH started <- Popped

ExecutorSpec == Executor!Spec

Accepted(t) == \E i \in 1..Len(accepted) : accepted[i] = t

Executed(t) == \E i \in 1..Len(done) : done[i] = t

\* SerialTaskQueue.h on push(): iAction "will either process concurrently with
\* the calling thread or wait until the protected resource becomes available".
EveryPushExecuted == \A t \in Tasks : Accepted(t) ~> Executed(t)

\* The part of that promise the code keeps: a pushed task runs, unless the
\* race at clear2 has been lost.
PushExecutedUnlessLostRace ==
    \A t \in Tasks : Accepted(t) ~> (Executed(t) \/ lostRace)

=============================================================================
