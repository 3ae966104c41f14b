---------------------- MODULE SerialTaskQueueTeardown ----------------------
(***************************************************************************)
(* SerialTaskQueue together with its destructor.  By the rules of C++ no   *)
(* call of the client is in progress when the destructor begins and none   *)
(* is made later; lambdas given to task groups may still be running.       *)
(***************************************************************************)
EXTENDS SerialTaskQueue

CONSTANTS
    Destroyer,  \* the thread that runs the destructor
    Marker      \* the task the destructor pushes, in a group of its own

ASSUME TeardownAssumption ==
    /\ Destroyer \in Threads
    /\ Marker \in Tasks
    /\ \A t \in Tasks \ {Marker} : GroupOf[t] # GroupOf[Marker]

VARIABLES
    dtor,       \* where the destructor is; "alive" before it, "gone" after it
    wasEmpty    \* its local isEmpty

tvars == <<vars, dtor, wasEmpty>>

TInit == Init /\ dtor = "alive" /\ wasEmpty = FALSE

\* The queue's isPaused() as written.
IsPaused == m_pauseCount = 0

\* bool isEmpty = m_tasks.empty();
ReadEmpty ==
    /\ dtor = "alive"
    /\ At(Destroyer, "idle")
    /\ \A th \in Threads : At(th, "idle") \/ group[th] # NoGroup
    /\ wasEmpty' = (m_tasks = <<>>)
    /\ dtor' = "readChosen"
    /\ UNCHANGED vars

\* bool isTaskChosen = m_taskChosen; and the condition on it.
ReadChosen ==
    /\ dtor = "readChosen"
    /\ dtor' = IF (~wasEmpty /\ ~IsPaused) \/ m_taskChosen THEN "push" ELSE "gone"
    /\ UNCHANGED <<vars, wasEmpty>>

\* push(g, ...), with the marker as the last task of the queue.
PushMarker ==
    /\ dtor = "push"
    /\ Push(Destroyer, Marker)
    /\ dtor' = "wait"
    /\ UNCHANGED wasEmpty

\* g.wait() returns when no lambda given to g is left; a lambda that no one
\* has given to g yet is not waited for.
WaitReturns ==
    /\ dtor = "wait"
    /\ At(Destroyer, "idle")
    /\ Marker \notin spawned
    /\ \A th \in Threads : group[th] # GroupOf[Marker]
    /\ dtor' = "test"
    /\ UNCHANGED <<vars, wasEmpty>>

\* Mutant of TestDone: one g.wait() without the loop around it.
TestNothingDone ==
    /\ dtor = "test"
    /\ dtor' = "gone"
    /\ UNCHANGED <<vars, wasEmpty>>

\* while(not done.load())
TestDone ==
    /\ dtor = "test"
    /\ dtor' = IF Executed(Marker) THEN "gone" ELSE "wait"
    /\ UNCHANGED <<vars, wasEmpty>>

Destructor == ReadEmpty \/ ReadChosen \/ PushMarker \/ WaitReturns \/ TestDone

\* The clients, as long as the queue is alive.
Clients ==
    /\ dtor = "alive"
    /\ \E th \in Threads :
          \/ \E t \in Tasks \ {Marker} : Push(th, t)
          \/ Pause(th)
          \/ Resume(th)
    /\ UNCHANGED <<dtor, wasEmpty>>

\* The steps already under way go on until the memory is gone.  The
\* destructor's thread runs lambdas only inside g.wait().
Internal ==
    /\ dtor # "gone"
    /\ \E th \in Threads :
          \/ Step(th)
          \/ /\ th = Destroyer => dtor \in {"alive", "wait"}
             /\ \E t \in Tasks : Begin(th, t)
    /\ UNCHANGED <<dtor, wasEmpty>>

TNext == Destructor \/ Clients \/ Internal

TSpec == TInit /\ [][TNext]_tvars

\* The destructor's thread and the workers are scheduled.
TFairSpec ==
    /\ TSpec
    /\ WF_tvars(dtor # "alive" /\ Destructor)
    /\ \A th \in Threads : WF_tvars(dtor # "gone" /\ Step(th) /\ UNCHANGED <<dtor, wasEmpty>>)
    /\ WF_tvars(Internal)

-----------------------------------------------------------------------------
(* Properties. *)

\* SerialTaskQueue.cpp, in the destructor: "be certain all tasks have
\* completed".
DestroyedMeansCompleted ==
    dtor = "gone" => \A t \in Tasks : Accepted(t) => Executed(t)

\* What does hold: once the destructor takes the branch that pushes a marker
\* and waits for it, every task pushed before has run when it ends, even
\* though it waits only for the marker's own task group.
WaitedMeansCompleted ==
    dtor = "gone" /\ Accepted(Marker) => \A t \in Tasks : Accepted(t) => Executed(t)

\* The destructor ends, unless the queue was left paused (then the marker is
\* never picked and the loop around g.wait() spins for ever) or the race at
\* clear2 stranded the marker.
DestructorEnds ==
    dtor # "alive" ~> (dtor = "gone" \/ m_pauseCount > 0 \/ lostRace)
=============================================================================
