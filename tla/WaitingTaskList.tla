-------------------------- MODULE WaitingTaskList --------------------------
(***************************************************************************)
(* demo::WaitingTaskList of TBBProcessingDemo: a lock-free list of tasks   *)
(* that wait for one thing to happen.  Any thread may add a waiter at any  *)
(* time; the thread that makes the thing happen calls doneWaiting(), which *)
(* releases all waiters; a waiter added later is released at once.         *)
(*                                                                         *)
(* pc is the next access of a thread to the shared state:                  *)
(*   add():         create, swap, link, recheck (and late, when the list   *)
(*                  waits no more)                                         *)
(*   doneWaiting(): stop                                                   *)
(*   announce():    take, follow, release, free                            *)
(*                                                                         *)
(* Memory is a function from the addresses that are allocated to WaitNodes *)
(* and addresses are never used twice, so that an access to freed memory   *)
(* is an access outside the function's domain.                             *)
(***************************************************************************)
EXTENDS Integers, Sequences

CONSTANTS
    Threads,
    Waiters,        \* the tasks; each is added at most once per use
    InitialSize,    \* the constructor's iInitialSize
    MaxUses,        \* bound: how often the list is reset, plus one
    Null            \* the null WaitNode*

ASSUME ListAssumption ==
    /\ InitialSize \in Nat
    /\ MaxUses \in Nat
    /\ Null \notin Int /\ Null \notin Threads

VARIABLES
    m_head, m_nodeCache, m_nodeCacheSize, m_lastAssignedCacheIndex,
    m_exceptionPtr,     \* whether it is set
    m_waiting,
    mem, brk,           \* the allocated nodes, and the next fresh address
    pc,
    node,               \* local newHead of add(), n of announce()
    other,              \* local oldHead of add(), next of announce()
    waiter,             \* the task add() was called with, Null outside add()
    called,             \* doneWaiting() was called since the last reset
    added,              \* the waiters given to add() since the last reset
    released,           \* history: how often each was released
    told,               \* history: who was given the exception
    uses,               \* for the bound
    list,               \* history: the nodes in the list, the head first
    batch               \* history: the nodes each announce() has to release

shared == <<m_head, m_nodeCache, m_nodeCacheSize, m_lastAssignedCacheIndex,
            m_exceptionPtr, m_waiting>>
memory == <<mem, brk>>
local  == <<pc, node, other, waiter>>
client == <<called, added, uses>>
result == <<released, told>>
ghost  == <<list, batch>>
vars   == <<shared, memory, local, client, result, ghost>>

WaitNode == [task : Waiters \cup {Null}, next : Int \cup {Null}, fromCache : BOOLEAN]

\* A node of a new cache.
Unused == [task |-> Null, next |-> Null, fromCache |-> TRUE]

Init ==
    /\ m_head = Null
    /\ m_nodeCache = 0 /\ m_nodeCacheSize = InitialSize
    /\ m_lastAssignedCacheIndex = 0
    /\ m_exceptionPtr = FALSE /\ m_waiting = TRUE
    /\ mem = [a \in 0 .. InitialSize - 1 |-> Unused]
    /\ brk = InitialSize
    /\ pc = [th \in Threads |-> "idle"]
    /\ node = [th \in Threads |-> Null]
    /\ other = [th \in Threads |-> Null]
    /\ waiter = [th \in Threads |-> Null]
    /\ called = FALSE /\ added = {} /\ uses = 1
    /\ released = [w \in Waiters |-> 0] /\ told = {}
    /\ list = <<>> /\ batch = [th \in Threads |-> <<>>]

At(th, label) == pc[th] = label
Goto(th, label) == pc' = [pc EXCEPT ![th] = label]

\* th is about to read or write the node it works on.
Touches(th) == pc[th] \in {"link", "follow", "release", "free"}

-----------------------------------------------------------------------------
(* add() *)

\* add(iTask): test m_waiting.
Add(th, w) ==
    /\ At(th, "idle")
    /\ w \notin added
    /\ added' = added \cup {w}
    /\ waiter' = [waiter EXCEPT ![th] = w]
    /\ Goto(th, IF m_waiting THEN "create" ELSE "late")
    /\ UNCHANGED <<shared, memory, node, other, called, uses, result, ghost>>

\* The reference the holder had goes; w runs if it was the last.  The exception
\* is given to w before.
LetGo(w) ==
    /\ released' = [released EXCEPT ![w] = @ + 1]
    /\ told' = IF m_exceptionPtr THEN told \cup {w} ELSE told

\* The list waits no more: the holder is released here and now.
ReleaseLate(th) ==
    /\ At(th, "late")
    /\ LetGo(waiter[th])
    /\ waiter' = [waiter EXCEPT ![th] = Null]
    /\ Goto(th, "idle")
    /\ UNCHANGED <<shared, memory, node, other, client, ghost>>

\* Mutant of CreateNode: the node does not get its task.
CreateNodeWithoutTask(th) ==
    /\ At(th, "create")
    /\ m_lastAssignedCacheIndex < m_nodeCacheSize
    /\ LET n == m_nodeCache + m_lastAssignedCacheIndex
       IN /\ mem' = [mem EXCEPT ![n].next = n]
          /\ node' = [node EXCEPT ![th] = n]
    /\ m_lastAssignedCacheIndex' = m_lastAssignedCacheIndex + 1
    /\ waiter' = [waiter EXCEPT ![th] = Null]
    /\ Goto(th, "swap")
    /\ UNCHANGED <<m_head, m_nodeCache, m_nodeCacheSize, m_exceptionPtr, m_waiting,
                   brk, other, client, result, ghost>>

\* createNode(): a node of the cache, or a new one; its next node is itself
\* until it is linked.
CreateNode(th) ==
    /\ At(th, "create")
    /\ LET index == m_lastAssignedCacheIndex
           cached == index < m_nodeCacheSize
           n == IF cached THEN m_nodeCache + index ELSE brk
       IN /\ m_lastAssignedCacheIndex' = index + 1
          /\ mem' = [a \in DOMAIN mem \cup {n} |->
                        IF a = n THEN [task |-> waiter[th], next |-> n, fromCache |-> cached]
                                 ELSE mem[a]]
          /\ brk' = IF cached THEN brk ELSE brk + 1
          /\ node' = [node EXCEPT ![th] = n]
    /\ waiter' = [waiter EXCEPT ![th] = Null]
    /\ Goto(th, "swap")
    /\ UNCHANGED <<m_head, m_nodeCache, m_nodeCacheSize, m_exceptionPtr, m_waiting,
                   other, client, result, ghost>>

\* oldHead = m_head.exchange(newHead)
SwapHead(th) ==
    /\ At(th, "swap")
    /\ other' = [other EXCEPT ![th] = m_head]
    /\ m_head' = node[th]
    /\ list' = <<node[th]>> \o list
    /\ Goto(th, "link")
    /\ UNCHANGED <<m_nodeCache, m_nodeCacheSize, m_lastAssignedCacheIndex,
                   m_exceptionPtr, m_waiting, memory, node, waiter, client, result, batch>>

\* newHead->setNextNode(oldHead).  The first node of a list makes its thread
\* look at m_waiting again.
Link(th) ==
    /\ At(th, "link")
    /\ mem' = [mem EXCEPT ![node[th]].next = other[th]]
    /\ node' = [node EXCEPT ![th] = Null]
    /\ other' = [other EXCEPT ![th] = Null]
    /\ Goto(th, IF other[th] = Null THEN "recheck" ELSE "idle")
    /\ UNCHANGED <<shared, brk, waiter, client, result, ghost>>

\* Mutant of Recheck: add() does not look at m_waiting again.
RecheckLeftOut(th) ==
    /\ At(th, "recheck")
    /\ Goto(th, "idle")
    /\ UNCHANGED <<shared, memory, node, other, waiter, client, result, ghost>>

Recheck(th) ==
    /\ At(th, "recheck")
    /\ Goto(th, IF m_waiting THEN "idle" ELSE "take")
    /\ UNCHANGED <<shared, memory, node, other, waiter, client, result, ghost>>

-----------------------------------------------------------------------------
(* doneWaiting() and announce() *)

\* doneWaiting(iPtr), which is called once per use: keep the exception.
DoneWaiting(th, exception) ==
    /\ At(th, "idle")
    /\ ~called
    /\ called' = TRUE
    /\ m_exceptionPtr' = exception
    /\ Goto(th, "stop")
    /\ UNCHANGED <<m_head, m_nodeCache, m_nodeCacheSize, m_lastAssignedCacheIndex,
                   m_waiting, memory, node, other, waiter, added, uses, result, ghost>>

StopWaiting(th) ==
    /\ At(th, "stop")
    /\ m_waiting' = FALSE
    /\ Goto(th, "take")
    /\ UNCHANGED <<m_head, m_nodeCache, m_nodeCacheSize, m_lastAssignedCacheIndex,
                   m_exceptionPtr, memory, node, other, waiter, client, result, ghost>>

\* Mutant of TakeAll: the head is read and not exchanged.
TakeWithoutClearing(th) ==
    /\ At(th, "take")
    /\ node' = [node EXCEPT ![th] = m_head]
    /\ batch' = [batch EXCEPT ![th] = list]
    /\ Goto(th, IF m_head = Null THEN "idle" ELSE "follow")
    /\ UNCHANGED <<shared, memory, other, waiter, client, result, list>>

\* n = m_head.exchange(0)
TakeAll(th) ==
    /\ At(th, "take")
    /\ node' = [node EXCEPT ![th] = m_head]
    /\ m_head' = Null
    /\ list' = <<>>
    /\ batch' = [batch EXCEPT ![th] = list]
    /\ Goto(th, IF m_head = Null THEN "idle" ELSE "follow")
    /\ UNCHANGED <<m_nodeCache, m_nodeCacheSize, m_lastAssignedCacheIndex,
                   m_exceptionPtr, m_waiting, memory, other, waiter, client, result>>

\* Mutant of Follow: no spinning, a node without a next one ends the walk.
FollowWithoutSpinning(th) ==
    /\ At(th, "follow")
    /\ other' = [other EXCEPT ![th] = IF mem[node[th]].next = node[th] THEN Null
                                                             ELSE mem[node[th]].next]
    /\ Goto(th, "release")
    /\ UNCHANGED <<shared, memory, node, waiter, client, result, ghost>>

\* Spin while the node has not been linked yet.
Follow(th) ==
    /\ At(th, "follow")
    /\ mem[node[th]].next # node[th]
    /\ other' = [other EXCEPT ![th] = mem[node[th]].next]
    /\ Goto(th, "release")
    /\ UNCHANGED <<shared, memory, node, waiter, client, result, ghost>>

\* Give the exception, if any, and drop the reference; the task may run from
\* here on.
Release(th) ==
    /\ At(th, "release")
    /\ LetGo(mem[node[th]].task)
    /\ Goto(th, "free")
    /\ UNCHANGED <<shared, memory, node, other, waiter, client, ghost>>

\* Delete the node unless it is of the cache, and go on with the next.
Free(th) ==
    /\ At(th, "free")
    /\ mem' = IF mem[node[th]].fromCache THEN mem
              ELSE [a \in DOMAIN mem \ {node[th]} |-> mem[a]]
    /\ node' = [node EXCEPT ![th] = other[th]]
    /\ other' = [other EXCEPT ![th] = Null]
    /\ batch' = [batch EXCEPT ![th] = Tail(@)]
    /\ Goto(th, IF other[th] = Null THEN "idle" ELSE "follow")
    /\ UNCHANGED <<shared, brk, waiter, client, result, list>>

-----------------------------------------------------------------------------
(* reset() *)

\* Expand the cache if there were more waiters than it has nodes.
Reset ==
    /\ uses < MaxUses
    /\ uses' = uses + 1
    /\ m_exceptionPtr' = FALSE
    /\ m_waiting' = TRUE
    /\ m_lastAssignedCacheIndex' = 0
    /\ IF m_lastAssignedCacheIndex > m_nodeCacheSize
         THEN LET old == m_nodeCache .. m_nodeCache + m_nodeCacheSize - 1
                  new == brk .. brk + m_lastAssignedCacheIndex - 1
              IN /\ m_nodeCache' = brk
                 /\ m_nodeCacheSize' = m_lastAssignedCacheIndex
                 /\ mem' = [a \in (DOMAIN mem \ old) \cup new |->
                               IF a \in new THEN Unused ELSE mem[a]]
                 /\ brk' = brk + m_lastAssignedCacheIndex
         ELSE UNCHANGED <<m_nodeCache, m_nodeCacheSize, memory>>
    /\ called' = FALSE
    /\ added' = {}
    /\ released' = [w \in Waiters |-> 0]
    /\ told' = {}
    /\ UNCHANGED <<m_head, local, ghost>>

\* "reset is not thread safe": no call is in progress.
QuietReset ==
    /\ ~m_waiting
    /\ \A th \in Threads : At(th, "idle")
    /\ Reset

\* What the framework does: the event ends, and with it this use of the list,
\* once every waiter has run.
EarlyReset ==
    /\ ~m_waiting
    /\ \A w \in added : released[w] > 0
    /\ Reset

-----------------------------------------------------------------------------
\* The steps a thread inside the list's code takes by itself.
Step(th) == \/ ReleaseLate(th)
            \/ CreateNode(th)
            \/ SwapHead(th)
            \/ Link(th)
            \/ Recheck(th)
            \/ StopWaiting(th)
            \/ TakeAll(th)
            \/ Follow(th)
            \/ Release(th)
            \/ Free(th)

Calls == \E th \in Threads : \/ \E w \in Waiters : Add(th, w)
                             \/ \E exception \in BOOLEAN : DoneWaiting(th, exception)
                             \/ Step(th)

Next == Calls \/ QuietReset

Spec == Init /\ [][Next]_vars

\* Threads are scheduled.
FairSpec == Spec /\ \A th \in Threads : WF_vars(Step(th))

EarlySpec == Init /\ [][Calls \/ EarlyReset]_vars

-----------------------------------------------------------------------------
(* Properties. *)

TypeOK ==
    /\ m_head \in Int \cup {Null}
    /\ m_nodeCache \in Nat
    /\ m_nodeCacheSize \in Nat
    /\ m_lastAssignedCacheIndex \in Nat
    /\ m_exceptionPtr \in BOOLEAN
    /\ m_waiting \in BOOLEAN
    /\ DOMAIN mem \subseteq Nat
    /\ mem \in [DOMAIN mem -> WaitNode]
    /\ brk \in Nat
    /\ pc \in [Threads -> {"idle", "late", "create", "swap", "link", "recheck",
                           "stop", "take", "follow", "release", "free"}]
    /\ node \in [Threads -> Int \cup {Null}]
    /\ other \in [Threads -> Int \cup {Null}]
    /\ waiter \in [Threads -> Waiters \cup {Null}]
    /\ called \in BOOLEAN
    /\ added \subseteq Waiters
    /\ released \in [Waiters -> Nat]
    /\ told \subseteq Waiters
    /\ uses \in Nat
    /\ list \in Seq(Nat)
    /\ batch \in [Threads -> Seq(Nat)]

\* announce() and add() work on nodes that are allocated: no announce() uses a
\* node after another one, or reset(), has deleted it.
NoDanglingNode == \A th \in Threads : Touches(th) => node[th] \in DOMAIN mem

\* When no call is in progress, the nodes allocated are those of the cache, and
\* reset()'s assert(m_head == 0) holds if doneWaiting() was called.
NothingLeftOver ==
    (\A th \in Threads : At(th, "idle")) /\ ~m_waiting =>
        /\ m_head = Null
        /\ DOMAIN mem = m_nodeCache .. m_nodeCache + m_nodeCacheSize - 1

\* Every waiter is released once, after doneWaiting() and never before, with
\* the exception if there was one; and it is released eventually, whether
\* add() came before, during or after doneWaiting().
Signal == INSTANCE OneShotSignal
    WITH waiting <- m_waiting,
         failed <- ~m_waiting /\ m_exceptionPtr

SignalSpec == Signal!Spec

SignalFairSpec == Signal!FairSpec

=============================================================================
