----------------------- MODULE WaitingTaskListProofs -----------------------
(***************************************************************************)
(* Theorems about WaitingTaskList for any numbers of threads, waiters and  *)
(* cached nodes.  The shape of the list (HeadsAgree, OnePlace, Links,      *)
(* Allocated) is inductive together with TypeOK; who has which task        *)
(* (OneTask) rests on it, and the promise to callers, OneShotSignal, on    *)
(* both.                                                                   *)
(***************************************************************************)
EXTENDS WaitingTaskList, SequenceTheorems, TLAPS

\* Who has nodes: each thread in announce() has its own, and those of nobody are
\* in the list.
Owners == Threads \cup {Null}
chain  == [c \in Owners |-> IF c = Null THEN list ELSE batch[c]]

\* The node that comes after the i-th of c.
After(c, i) == IF i < Len(chain[c]) THEN chain[c][i + 1] ELSE Null

\* The nodes that somebody has, or is about to put into the list.
Chained == {n \in DOMAIN mem : \E c \in Owners : \E i \in 1 .. Len(chain[c]) : chain[c][i] = n}
InUse   == Chained \cup {n \in DOMAIN mem : \E th \in Threads : pc[th] = "swap" /\ node[th] = n}

\* Those of them that have not given up their task.
Carriers == InUse \ {n \in DOMAIN mem : \E th \in Threads : pc[th] = "free" /\ node[th] = n}

\* th has a task that no node has yet.
InHand(th) == pc[th] \in {"create", "late"}

Announcing(th) == pc[th] \in {"follow", "release", "free"}

Cache == m_nodeCache .. m_nodeCache + m_nodeCacheSize - 1

-----------------------------------------------------------------------------
(* The inductive invariant, in parts. *)

\* m_head and the nodes that announce() works on are the first ones.
HeadsAgree ==
    /\ m_head = IF list = <<>> THEN Null ELSE list[1]
    /\ \A th \in Threads :
          /\ Announcing(th) <=> batch[th] # <<>>
          /\ Announcing(th) => node[th] = batch[th][1]
          /\ pc[th] \in {"release", "free"} => other[th] = After(th, 1)

\* A node has one place.
OnePlace ==
    /\ \A c, d \in Owners : \A i \in 1 .. Len(chain[c]), j \in 1 .. Len(chain[d]) :
          chain[c][i] = chain[d][j] => c = d /\ i = j
    /\ \A th \in Threads : pc[th] = "swap" => node[th] \notin Chained
    /\ \A th, uh \in Threads :
          /\ pc[th] \in {"swap", "link"} /\ pc[uh] \in {"swap", "link"}
          /\ node[th] = node[uh]
          => th = uh

\* A node that is linked points to the one after it; one that is not points to
\* itself, which only its adder will change, and announce() waits for that.
Links ==
    /\ \A c \in Owners : \A i \in 1 .. Len(chain[c]) :
          mem[chain[c][i]].next \in {chain[c][i], After(c, i)}
    /\ \A th \in Threads : pc[th] \in {"swap", "link"} => mem[node[th]].next = node[th]
    /\ \A th \in Threads : pc[th] = "link" =>
          \E c \in Owners : \E i \in 1 .. Len(chain[c]) :
              chain[c][i] = node[th] /\ other[th] = After(c, i)
    /\ \A th \in Threads : pc[th] \in {"release", "free"} => mem[node[th]].next # node[th]

\* Nodes in use are allocated, those of the cache from its start on, and the
\* others only as long as they are in use.
Allocated ==
    /\ \A c \in Owners : \A i \in 1 .. Len(chain[c]) : chain[c][i] \in DOMAIN mem
    /\ \A th \in Threads : pc[th] = "swap" => node[th] \in DOMAIN mem
    /\ Cache \subseteq DOMAIN mem
    /\ \A n \in DOMAIN mem : /\ n < brk
                             /\ mem[n].fromCache <=> n \in Cache
                             /\ n \notin Cache => n \in InUse
                             /\ n \in Cache \cap InUse => n < m_nodeCache + m_lastAssignedCacheIndex
    /\ m_nodeCache + m_nodeCacheSize =< brk

\* doneWaiting() comes before everything that releases waiters.
InOrder ==
    /\ \A th \in Threads : pc[th] = "stop" => called /\ m_waiting
    /\ \A th, uh \in Threads : pc[th] = "stop" /\ pc[uh] = "stop" => th = uh
    /\ ~m_waiting => called
    /\ m_waiting => \A th \in Threads : pc[th] \notin {"take", "follow", "release", "free", "late"}

\* When the list waits no more and is not empty, somebody will take what is in it.
SomeoneWillTake ==
    ~m_waiting /\ list # <<>> =>
        \E th \in Threads : \/ pc[th] \in {"recheck", "take"}
                            \/ pc[th] = "link" /\ other[th] = Null

\* A waiter that was added and not released is in one thread's hands or in one
\* node; and all others have been released once.
OneTask ==
    /\ \A th \in Threads : InHand(th) => waiter[th] \in added /\ released[waiter[th]] = 0
    /\ \A th, uh \in Threads : InHand(th) /\ InHand(uh) /\ waiter[th] = waiter[uh] => th = uh
    /\ \A n \in Carriers : mem[n].task \in added /\ released[mem[n].task] = 0
    /\ \A m, n \in Carriers : mem[m].task = mem[n].task => m = n
    /\ \A th \in Threads, n \in Carriers : InHand(th) => waiter[th] # mem[n].task
    /\ \A w \in Waiters :
          \/ w \notin added /\ released[w] = 0
          \/ w \in added /\ released[w] = 1
          \/ w \in added /\ \E th \in Threads : InHand(th) /\ waiter[th] = w
          \/ w \in added /\ \E n \in Carriers : mem[n].task = w

Shape == HeadsAgree /\ OnePlace /\ Links /\ Allocated

IndInv == TypeOK /\ Shape /\ InOrder /\ SomeoneWillTake /\ OneTask

-----------------------------------------------------------------------------
(* Facts that the steps below share. *)

\* What the chains are, and that they are sequences of addresses.
LEMMA ChainFacts ==
    TypeOK =>
        /\ chain[Null] = list
        /\ \A th \in Threads : chain[th] = batch[th] /\ th # Null
        /\ \A c \in Owners :
              /\ chain[c] \in Seq(Nat) /\ Len(chain[c]) \in Nat
              /\ \A i \in 1 .. Len(chain[c]) : chain[c][i] \in Nat
<1> SUFFICES ASSUME TypeOK
             PROVE  /\ chain[Null] = list
                    /\ \A th \in Threads : chain[th] = batch[th] /\ th # Null
                    /\ \A c \in Owners :
                          /\ chain[c] \in Seq(Nat) /\ Len(chain[c]) \in Nat
                          /\ \A i \in 1 .. Len(chain[c]) : chain[c][i] \in Nat
  OBVIOUS
<1>1. chain[Null] = list /\ \A th \in Threads : chain[th] = batch[th] /\ th # Null
  BY ListAssumption DEF chain, Owners
<1>2. ASSUME NEW c \in Owners PROVE chain[c] \in Seq(Nat)
  BY <1>1 DEF Owners, TypeOK
<1> QED
  BY <1>1, <1>2, LenProperties, ElementOfSeq

\* The initial state satisfies the inductive invariant.
LEMMA InitInv == Init => IndInv
<1> SUFFICES ASSUME Init PROVE IndInv
  OBVIOUS
<1> USE ListAssumption DEF Init
<1>1. TypeOK
  <2>1. list \in Seq(Nat) /\ batch \in [Threads -> Seq(Nat)]
    BY EmptySeq
  <2>2. /\ DOMAIN mem \subseteq Nat
        /\ mem \in [DOMAIN mem -> WaitNode]
    BY DEF WaitNode, Unused
  <2> QED
    BY <2>1, <2>2 DEF TypeOK
<1>2. \A c \in Owners : chain[c] = <<>> /\ Len(chain[c]) = 0
  BY EmptySeq DEF chain, Owners
<1>3. InUse = {} /\ Chained = {} /\ Carriers = {}
  BY <1>2 DEF InUse, Chained, Carriers
<1>4. HeadsAgree
  BY DEF HeadsAgree, Announcing
<1>5. OnePlace /\ Links
  BY <1>2, <1>3 DEF OnePlace, Links
<1>6. Allocated
  BY <1>2, <1>3 DEF Allocated, Cache, Unused
<1>7. InOrder /\ SomeoneWillTake /\ OneTask
  BY <1>3 DEF InOrder, SomeoneWillTake, OneTask, InHand
<1> QED
  BY <1>1, <1>4, <1>5, <1>6, <1>7 DEF IndInv, Shape

\* What announce() works on is the first of its nodes.
LEMMA Announced ==
    ASSUME IndInv, NEW th \in Threads, Announcing(th)
    PROVE  /\ th \in Owners /\ chain[th] # <<>> /\ Len(chain[th]) >= 1
           /\ node[th] = chain[th][1] /\ node[th] \in DOMAIN mem /\ node[th] \in Chained
<1> USE DEF IndInv, Shape
<1>1. th \in Owners /\ chain[th] = batch[th] /\ batch[th] \in Seq(Nat) /\ batch[th] # <<>>
  BY ChainFacts DEF Owners, HeadsAgree, TypeOK
<1>2. Len(chain[th]) \in Nat /\ Len(chain[th]) # 0
  BY <1>1, EmptySeq
<1>3. 1 \in 1 .. Len(chain[th]) /\ node[th] = chain[th][1]
  BY <1>1, <1>2 DEF HeadsAgree
<1>4. node[th] \in DOMAIN mem
  BY <1>1, <1>3 DEF Allocated
<1> QED
  BY <1>1, <1>2, <1>3, <1>4 DEF Chained

\* Every node that a thread works on is allocated.
LEMMA Works ==
    ASSUME IndInv, NEW th \in Threads, pc[th] = "swap" \/ Touches(th)
    PROVE  node[th] \in DOMAIN mem /\ node[th] \in Nat /\ node[th] \in InUse
<1> USE DEF IndInv, Shape
<1>1. CASE pc[th] = "swap"
  BY <1>1 DEF Allocated, InUse, TypeOK
<1>2. CASE pc[th] = "link"
  <2>1. PICK c \in Owners : \E i \in 1 .. Len(chain[c]) : chain[c][i] = node[th]
    BY <1>2 DEF Links
  <2> QED
    BY <2>1 DEF Allocated, TypeOK, InUse, Chained
<1>3. CASE Announcing(th)
  BY <1>3, Announced DEF InUse, TypeOK
<1> QED
  BY <1>1, <1>2, <1>3 DEF Touches, Announcing

\* The node whose task is about to be released carries it.
LEMMA Carried ==
    ASSUME IndInv, NEW th \in Threads, pc[th] = "release"
    PROVE  node[th] \in Carriers /\ mem[node[th]].task \in Waiters
<1> USE DEF IndInv, Shape
<1>1. node[th] = chain[th][1] /\ Len(chain[th]) >= 1 /\ th \in Owners
  BY Announced DEF Announcing
<1>2. ASSUME NEW uh \in Threads, pc[uh] = "free", node[uh] = node[th]
      PROVE  FALSE
  <2>1. node[uh] = chain[uh][1] /\ Len(chain[uh]) >= 1 /\ uh \in Owners
    BY <1>2, Announced DEF Announcing
  <2>2. Len(chain[th]) \in Nat /\ Len(chain[uh]) \in Nat
    BY <1>1, <2>1, ChainFacts
  <2>3. 1 \in 1 .. Len(chain[th]) /\ 1 \in 1 .. Len(chain[uh])
    BY <1>1, <2>1, <2>2
  <2>4. th = uh
    BY <1>1, <1>2, <2>1, <2>3 DEF OnePlace
  <2> QED
    BY <1>2, <2>4
<1>3. node[th] \in Carriers
  BY <1>2, Works DEF Carriers, Touches
<1> QED
  BY <1>3 DEF OneTask, TypeOK

-----------------------------------------------------------------------------
(* Every step preserves the types. *)

\* Every variable keeps its type in every step.
LEMMA TypesStep ==
    ASSUME IndInv, [Next]_vars
    PROVE  TypeOK'
<1> USE ListAssumption DEF At, Goto, shared, memory, local, client, result, ghost
<1>1. TypeOK
  BY DEF IndInv
<1>2. ASSUME NEW th \in Threads, NEW w \in Waiters, Add(th, w) PROVE TypeOK'
  BY <1>1, <1>2 DEF TypeOK, Add
<1>3. ASSUME NEW th \in Threads, NEW exception \in BOOLEAN, DoneWaiting(th, exception)
      PROVE  TypeOK'
  BY <1>1, <1>3 DEF TypeOK, DoneWaiting
<1>4. ASSUME NEW th \in Threads, ReleaseLate(th) PROVE TypeOK'
  <2>1. waiter[th] \in Waiters
    BY <1>1, <1>4 DEF ReleaseLate, IndInv, OneTask, InHand, TypeOK
  <2> QED
    BY <1>1, <1>4, <2>1 DEF TypeOK, ReleaseLate, LetGo
<1>5. ASSUME NEW th \in Threads, CreateNode(th) PROVE TypeOK'
  <2>1. waiter[th] \in Waiters
    BY <1>1, <1>5 DEF CreateNode, IndInv, OneTask, InHand, TypeOK
  <2> DEFINE cached == m_lastAssignedCacheIndex < m_nodeCacheSize
             n == IF cached THEN m_nodeCache + m_lastAssignedCacheIndex ELSE brk
             created == [task |-> waiter[th], next |-> n, fromCache |-> cached]
  <2>2. n \in Nat /\ cached \in BOOLEAN
    BY <1>1 DEF TypeOK
  <2>3. created \in WaitNode
    BY <2>1, <2>2 DEF WaitNode
  <2>4. mem' = [a \in DOMAIN mem \cup {n} |-> IF a = n THEN created ELSE mem[a]]
    BY <1>5 DEF CreateNode
  <2>5. DOMAIN mem' \subseteq Nat /\ mem' \in [DOMAIN mem' -> WaitNode]
    <3> HIDE DEF n, created
    <3> QED
      BY <1>1, <2>2, <2>3, <2>4 DEF TypeOK
  <2>6. brk' \in Nat /\ node' \in [Threads -> Int \cup {Null}] /\ m_lastAssignedCacheIndex' \in Nat
    BY <1>1, <1>5, <2>2 DEF CreateNode, TypeOK
  <2> QED
    BY <1>1, <1>5, <2>5, <2>6 DEF TypeOK, CreateNode
<1>6. ASSUME NEW th \in Threads, SwapHead(th) PROVE TypeOK'
  <2>1. node[th] \in Nat
    BY <1>6, Works DEF SwapHead
  <2>2. list' \in Seq(Nat)
    BY <1>1, <1>6, <2>1 DEF SwapHead, TypeOK
  <2> QED
    BY <1>1, <1>6, <2>1, <2>2 DEF TypeOK, SwapHead
<1>7. ASSUME NEW th \in Threads, Link(th) PROVE TypeOK'
  <2>1. node[th] \in DOMAIN mem
    BY <1>7, Works DEF Link, Touches
  <2>2. [mem[node[th]] EXCEPT !.next = other[th]] \in WaitNode
    <3>1. ASSUME NEW n \in WaitNode, NEW a \in Int \cup {Null}
          PROVE  [n EXCEPT !.next = a] \in WaitNode
      BY DEF WaitNode
    <3> QED
      BY <1>1, <2>1, <3>1 DEF TypeOK
  <2>3. DOMAIN mem' = DOMAIN mem /\ mem' \in [DOMAIN mem -> WaitNode]
    BY <1>1, <1>7, <2>1, <2>2 DEF Link, TypeOK
  <2> QED
    BY <1>1, <1>7, <2>3 DEF TypeOK, Link
<1>8. ASSUME NEW th \in Threads, Recheck(th) PROVE TypeOK'
  BY <1>1, <1>8 DEF TypeOK, Recheck
<1>9. ASSUME NEW th \in Threads, StopWaiting(th) PROVE TypeOK'
  BY <1>1, <1>9 DEF TypeOK, StopWaiting
<1>10. ASSUME NEW th \in Threads, TakeAll(th) PROVE TypeOK'
  <2>1. list' \in Seq(Nat)
    BY <1>10, EmptySeq DEF TakeAll
  <2> QED
    BY <1>1, <1>10, <2>1 DEF TypeOK, TakeAll
<1>11. ASSUME NEW th \in Threads, Follow(th) PROVE TypeOK'
  <2>1. node[th] \in DOMAIN mem
    BY <1>11, Works DEF Follow, Touches
  <2> QED
    BY <1>1, <1>11, <2>1 DEF TypeOK, Follow, WaitNode
<1>12. ASSUME NEW th \in Threads, Release(th) PROVE TypeOK'
  BY <1>1, <1>12, Carried DEF TypeOK, Release, LetGo
<1>13. ASSUME NEW th \in Threads, Free(th) PROVE TypeOK'
  <2>1. batch[th] \in Seq(Nat) /\ batch[th] # <<>>
    BY <1>1, <1>13 DEF Free, IndInv, Shape, HeadsAgree, Announcing, TypeOK
  <2>2. batch' \in [Threads -> Seq(Nat)]
    BY <1>1, <1>13, <2>1, HeadTailProperties DEF Free, TypeOK
  <2>3. DOMAIN mem' \subseteq Nat /\ mem' \in [DOMAIN mem' -> WaitNode]
    BY <1>1, <1>13 DEF Free, TypeOK
  <2> QED
    BY <1>1, <1>13, <2>2, <2>3 DEF TypeOK, Free
<1>14. CASE QuietReset
  <2>1. Unused \in WaitNode
    BY DEF Unused, WaitNode
  <2>2. /\ DOMAIN mem' \subseteq Nat /\ mem' \in [DOMAIN mem' -> WaitNode]
        /\ m_nodeCache' \in Nat /\ m_nodeCacheSize' \in Nat /\ brk' \in Nat
    <3>1. CASE m_lastAssignedCacheIndex > m_nodeCacheSize
      BY <1>1, <1>14, <2>1, <3>1 DEF QuietReset, Reset, TypeOK
    <3>2. CASE ~(m_lastAssignedCacheIndex > m_nodeCacheSize)
      BY <1>1, <1>14, <3>2 DEF QuietReset, Reset, TypeOK
    <3> QED
      BY <3>1, <3>2
  <2>3. /\ m_lastAssignedCacheIndex' = 0 /\ m_exceptionPtr' = FALSE /\ m_waiting' = TRUE
        /\ called' = FALSE /\ added' = {} /\ told' = {} /\ uses' = uses + 1
        /\ released' = [w \in Waiters |-> 0]
        /\ UNCHANGED <<m_head, pc, node, other, waiter, list, batch>>
    BY <1>14 DEF QuietReset, Reset
  <2>4. m_exceptionPtr' \in BOOLEAN /\ m_waiting' \in BOOLEAN /\ called' \in BOOLEAN
    BY <2>3, Zenon
  <2>5. /\ m_lastAssignedCacheIndex' \in Nat /\ uses' \in Nat
        /\ added' \subseteq Waiters /\ told' \subseteq Waiters
        /\ released' \in [Waiters -> Nat]
    BY <1>1, <2>3 DEF TypeOK
  <2> QED
    BY <1>1, <2>2, <2>3, <2>4, <2>5 DEF TypeOK
<1>15. CASE UNCHANGED vars
  BY <1>1, <1>15 DEF TypeOK, vars
<1> QED
  BY <1>2, <1>3, <1>4, <1>5, <1>6, <1>7, <1>8, <1>9, <1>10, <1>11, <1>12, <1>13, <1>14, <1>15
     DEF Next, Calls, Step

-----------------------------------------------------------------------------
(* Every step preserves the shape of the list. *)

\* Where a thread works on a node.
Working == {"swap", "link", "follow", "release", "free"}

\* A step of a thread that works on no node before or after it.
LEMMA CalmShape ==
    ASSUME IndInv,
           UNCHANGED <<m_head, m_nodeCache, m_nodeCacheSize, m_lastAssignedCacheIndex,
                       mem, brk, node, other, list, batch>>,
           \A th \in Threads : pc'[th] = pc[th] \/ (pc[th] \notin Working /\ pc'[th] \notin Working)
    PROVE  Shape' /\ Carriers' = Carriers
<1> USE DEF IndInv, Shape, Working
<1>1. chain' = chain /\ Chained' = Chained
  BY DEF chain, Chained
<1>2. \A c, i : After(c, i)' = After(c, i)
  BY <1>1 DEF After
<1>3. InUse' = InUse /\ Carriers' = Carriers
  BY <1>1 DEF InUse, Carriers
<1>4. HeadsAgree'
  BY <1>1, <1>2 DEF HeadsAgree, Announcing
<1>5. OnePlace'
  BY <1>1 DEF OnePlace
<1>6. Links'
  BY <1>1, <1>2 DEF Links
<1>7. Allocated'
  BY <1>1, <1>3 DEF Allocated, Cache
<1> QED
  BY <1>3, <1>4, <1>5, <1>6, <1>7

\* createNode() takes a node that nobody uses.
LEMMA CreateShape ==
    ASSUME IndInv, NEW th \in Threads, CreateNode(th), TypeOK'
    PROVE  /\ Shape'
           /\ node'[th] \notin InUse
           /\ Carriers' = Carriers \cup {node'[th]}
           /\ mem'[node'[th]].task = waiter[th]
           /\ \A a \in DOMAIN mem \ {node'[th]} : a \in DOMAIN mem' /\ mem'[a] = mem[a]
<1> USE DEF IndInv, Shape
<1> DEFINE cached == m_lastAssignedCacheIndex < m_nodeCacheSize
           n == IF cached THEN m_nodeCache + m_lastAssignedCacheIndex ELSE brk
<1>1. /\ m_lastAssignedCacheIndex' = m_lastAssignedCacheIndex + 1
      /\ mem' = [a \in DOMAIN mem \cup {n} |->
                    IF a = n THEN [task |-> waiter[th], next |-> n, fromCache |-> cached]
                             ELSE mem[a]]
      /\ brk' = IF cached THEN brk ELSE brk + 1
      /\ node' = [node EXCEPT ![th] = n]
      /\ pc[th] = "create" /\ pc' = [pc EXCEPT ![th] = "swap"]
      /\ UNCHANGED <<m_head, m_nodeCache, m_nodeCacheSize, other, list, batch>>
  BY DEF CreateNode, At, Goto, ghost
<1>2. /\ node'[th] = n
      /\ \A uh \in Threads \ {th} : node'[uh] = node[uh] /\ pc'[uh] = pc[uh]
      /\ pc'[th] = "swap"
  BY <1>1 DEF TypeOK
<1>3. /\ n \in Nat /\ cached <=> n \in Cache
      /\ n \notin InUse
      /\ n \notin DOMAIN mem <=> ~cached
  <2>1. /\ m_nodeCache \in Nat /\ m_nodeCacheSize \in Nat /\ m_lastAssignedCacheIndex \in Nat
        /\ brk \in Nat /\ DOMAIN mem \subseteq Nat /\ InUse \subseteq DOMAIN mem
    BY DEF TypeOK, InUse, Chained
  <2>2. CASE cached
    <3>1. n \in Cache /\ n \in Nat /\ n = m_nodeCache + m_lastAssignedCacheIndex
      BY <2>1, <2>2 DEF Cache
    <3>2. n \in DOMAIN mem /\ n \notin InUse
      BY <2>1, <3>1 DEF Allocated
    <3> QED
      BY <2>2, <3>1, <3>2
  <2>3. CASE ~cached
    <3>1. n = brk /\ n \notin Cache
      BY <2>1, <2>3 DEF Cache, Allocated
    <3>2. n \notin DOMAIN mem
      BY <2>1, <3>1 DEF Allocated
    <3> QED
      BY <2>1, <2>3, <3>1, <3>2
  <2> QED
    BY <2>2, <2>3
<1>4. /\ DOMAIN mem' = DOMAIN mem \cup {n}
      /\ \A a \in DOMAIN mem \ {n} : mem'[a] = mem[a]
      /\ mem'[n].task = waiter[th] /\ mem'[n].next = n /\ mem'[n].fromCache = cached
  BY <1>1
<1> HIDE DEF n, cached
<1>5. chain' = chain /\ \A c, i : After(c, i)' = After(c, i)
  BY <1>1 DEF chain, After
<1>6. \A c \in Owners : \A i \in 1 .. Len(chain[c]) : chain[c][i] \in Chained /\ chain[c][i] # n
  BY <1>3 DEF Chained, InUse, Allocated
<1>7. Chained' = Chained
  BY <1>4, <1>5, <1>6 DEF Chained
<1>8. \A uh \in Threads : pc[uh] = "swap" \/ Touches(uh) => node[uh] \in InUse /\ node[uh] # n
  BY <1>3, Works
<1>9. InUse' = InUse \cup {n}
  BY <1>2, <1>4, <1>7, <1>8, <1>1 DEF InUse, Touches
<1>10. Carriers' = Carriers \cup {n}
  BY <1>1, <1>2, <1>3, <1>4, <1>8, <1>9 DEF Carriers, InUse, Touches, Chained
<1>11. HeadsAgree'
  BY <1>1, <1>2, <1>5 DEF HeadsAgree, Announcing
<1>12. OnePlace'
  <2>1. n \notin Chained
    BY <1>3 DEF InUse
  <2> QED
    BY <1>2, <1>5, <1>7, <1>8, <2>1 DEF OnePlace, Touches
<1>13. Links'
  <2>1. \A uh \in Threads : pc[uh] \in {"swap"} \/ Touches(uh) =>
           mem'[node[uh]] = mem[node[uh]]
    BY <1>4, <1>8, Works
  <2>2. \A c \in Owners : \A i \in 1 .. Len(chain[c]) : mem'[chain[c][i]] = mem[chain[c][i]]
    BY <1>4, <1>6 DEF Allocated
  <2>3. \A c \in Owners : \A i \in 1 .. Len(chain'[c]) :
           mem'[chain'[c][i]].next \in {chain'[c][i], After(c, i)'}
    BY <1>5, <2>2 DEF Links
  <2>4. \A uh \in Threads : pc'[uh] \in {"swap", "link"} => mem'[node'[uh]].next = node'[uh]
    BY <1>2, <1>4, <2>1 DEF Links, Touches
  <2>5. \A uh \in Threads : pc'[uh] = "link" =>
           \E c \in Owners : \E i \in 1 .. Len(chain'[c]) :
              chain'[c][i] = node'[uh] /\ other'[uh] = After(c, i)'
    BY <1>1, <1>2, <1>5 DEF Links
  <2>6. \A uh \in Threads : pc'[uh] \in {"release", "free"} => mem'[node'[uh]].next # node'[uh]
    BY <1>2, <2>1 DEF Links, Touches
  <2> QED
    BY <2>3, <2>4, <2>5, <2>6 DEF Links
<1>14. Allocated'
  <2>1. /\ m_nodeCache \in Nat /\ m_nodeCacheSize \in Nat /\ m_lastAssignedCacheIndex \in Nat
        /\ brk \in Nat /\ Cache' = Cache
    BY <1>1 DEF TypeOK, Cache
  <2>2. \A c \in Owners : \A i \in 1 .. Len(chain'[c]) : chain'[c][i] \in DOMAIN mem'
    BY <1>4, <1>5 DEF Allocated
  <2>3. \A uh \in Threads : pc'[uh] = "swap" => node'[uh] \in DOMAIN mem'
    BY <1>2, <1>4 DEF Allocated
  <2>4. n < brk' /\ (cached => n < m_nodeCache + m_lastAssignedCacheIndex') /\ brk <= brk'
    BY <1>1, <2>1 DEF Allocated, n, cached
  <2>5. ASSUME NEW a \in DOMAIN mem \ {n}
        PROVE  /\ a < brk'
               /\ mem'[a].fromCache <=> a \in Cache
               /\ a \notin Cache => a \in InUse
               /\ a \in Cache \cap InUse => a < m_nodeCache + m_lastAssignedCacheIndex'
    BY <1>1, <1>4, <2>1, <2>4 DEF Allocated, TypeOK
  <2>6. Cache' \subseteq DOMAIN mem' /\ m_nodeCache' + m_nodeCacheSize' =< brk'
    BY <1>1, <1>4, <2>1, <2>4 DEF Allocated
  <2> QED
    BY <1>1, <1>3, <1>4, <1>9, <2>1, <2>2, <2>3, <2>4, <2>5, <2>6 DEF Allocated
<1> QED
  BY <1>2, <1>3, <1>4, <1>10, <1>11, <1>12, <1>13, <1>14

\* exchange() puts the node before the others.
LEMMA SwapShape ==
    ASSUME IndInv, NEW th \in Threads, SwapHead(th), TypeOK'
    PROVE  Shape' /\ Carriers' = Carriers
<1> USE DEF IndInv, Shape
<1>1. /\ other' = [other EXCEPT ![th] = m_head] /\ m_head' = node[th]
      /\ list' = <<node[th]>> \o list
      /\ pc[th] = "swap" /\ pc' = [pc EXCEPT ![th] = "link"]
      /\ UNCHANGED <<m_nodeCache, m_nodeCacheSize, m_lastAssignedCacheIndex, mem, brk, node, batch>>
  BY DEF SwapHead, At, Goto, memory
<1>2. /\ \A uh \in Threads \ {th} : other'[uh] = other[uh] /\ pc'[uh] = pc[uh]
      /\ pc'[th] = "link" /\ other'[th] = m_head
  BY <1>1 DEF TypeOK
<1>3. node[th] \in DOMAIN mem /\ node[th] \in Nat /\ node[th] \notin Chained
  BY <1>1, Works DEF OnePlace
<1>4. list \in Seq(Nat) /\ list = chain[Null] /\ Null \in Owners /\ Len(list) \in Nat
  BY ChainFacts DEF TypeOK, Owners
<1>5. /\ Len(list') = Len(list) + 1 /\ list'[1] = node[th]
      /\ \A i \in 1 .. Len(list) : list'[i + 1] = list[i]
      /\ list' # <<>>
  BY <1>1, <1>3, <1>4
<1>6. \A c \in Owners \ {Null} : chain'[c] = chain[c] /\ \A i : After(c, i)' = After(c, i)
  BY <1>1 DEF chain, After, Owners
<1>7. /\ chain'[Null] = list'
      /\ Len(chain'[Null]) = Len(chain[Null]) + 1
      /\ chain'[Null][1] = node[th]
      /\ \A i \in 1 .. Len(chain[Null]) : chain'[Null][i + 1] = chain[Null][i]
  BY <1>4, <1>5 DEF chain
<1>8. /\ After(Null, 1)' = m_head
      /\ \A i \in 1 .. Len(chain[Null]) : After(Null, i + 1)' = After(Null, i)
  <2>1. list = <<>> <=> Len(list) = 0
    BY <1>4, EmptySeq
  <2> QED
    BY <1>4, <1>7, <2>1 DEF After, HeadsAgree
<1> DEFINE shift(c) == IF c = Null THEN 1 ELSE 0
<1>9. ASSUME NEW c \in Owners, NEW i \in 1 .. Len(chain'[c])
      PROVE  \/ c = Null /\ i = 1
             \/ \E j \in 1 .. Len(chain[c]) :
                   /\ i = j + shift(c)
                   /\ chain'[c][i] = chain[c][j] /\ After(c, i)' = After(c, j)
  <2>1. CASE c # Null
    BY <1>6, <2>1, ChainFacts
  <2>2. CASE c = Null /\ i # 1
    <3>1. i - 1 \in 1 .. Len(chain[Null]) /\ (i - 1) + 1 = i
      BY <1>4, <1>7, <2>2
    <3>2. chain'[Null][i] = chain[Null][i - 1] /\ After(Null, i)' = After(Null, i - 1)
      BY <1>7, <1>8, <3>1
    <3> QED
      BY <2>2, <3>1, <3>2
  <2> QED
    BY <2>1, <2>2
<1>10. ASSUME NEW c \in Owners, NEW j \in 1 .. Len(chain[c])
       PROVE  \E i \in 1 .. Len(chain'[c]) :
                 chain'[c][i] = chain[c][j] /\ After(c, i)' = After(c, j)
  <2>1. CASE c # Null
    BY <1>6, <2>1
  <2>2. CASE c = Null
    <3>1. j + 1 \in 1 .. Len(chain'[Null])
      BY <1>4, <1>7, <2>2
    <3> QED
      BY <1>7, <1>8, <2>2, <3>1
  <2> QED
    BY <2>1, <2>2
<1>11. 1 \in 1 .. Len(chain'[Null])
  BY <1>4, <1>7
<1> HIDE DEF shift
<1>12. Chained' = Chained \cup {node[th]}
  <2>1. node[th] \in Chained'
    BY <1>1, <1>3, <1>4, <1>7, <1>11 DEF Chained
  <2>2. Chained \subseteq Chained'
    BY <1>1, <1>10 DEF Chained
  <2>3. ASSUME NEW n \in Chained', n # node[th] PROVE n \in Chained
    <3>1. PICK c \in Owners : \E i \in 1 .. Len(chain'[c]) : chain'[c][i] = n
      BY DEF Chained
    <3>2. PICK i \in 1 .. Len(chain'[c]) : chain'[c][i] = n
      BY <3>1
    <3>3. ~(c = Null /\ i = 1)
      BY <1>7, <2>3, <3>2
    <3>4. \E j \in 1 .. Len(chain[c]) : chain[c][j] = n
      BY <1>9, <3>2, <3>3
    <3> QED
      BY <1>1, <3>4 DEF Chained
  <2> QED
    BY <2>1, <2>2, <2>3
<1>13. InUse' = InUse /\ Carriers' = Carriers
  BY <1>1, <1>2, <1>3, <1>12 DEF InUse, Carriers
<1>14. HeadsAgree'
  <2>1. \A uh \in Threads : After(uh, 1)' = After(uh, 1)
    BY <1>6, ChainFacts DEF Owners
  <2> QED
    BY <1>1, <1>2, <1>5, <2>1 DEF HeadsAgree, Announcing
<1>15. OnePlace'
  <2>1. ASSUME NEW c \in Owners, NEW d \in Owners,
               NEW i \in 1 .. Len(chain'[c]), NEW j \in 1 .. Len(chain'[d]),
               chain'[c][i] = chain'[d][j]
        PROVE  c = d /\ i = j
    <3>1. ASSUME NEW b \in Owners, NEW k \in 1 .. Len(chain'[b])
          PROVE  (b = Null /\ k = 1) <=> chain'[b][k] = node[th]
      <4>1. \A l \in 1 .. Len(chain[b]) : chain[b][l] # node[th]
        BY <1>3 DEF Chained
      <4>2. CASE b = Null /\ k = 1
        BY <1>7, <4>2
      <4>3. CASE ~(b = Null /\ k = 1)
        BY <1>9, <4>1, <4>3
      <4> QED
        BY <4>2, <4>3
    <3>2. (c = Null /\ i = 1) <=> (d = Null /\ j = 1)
      BY <2>1, <3>1
    <3>3. CASE c = Null /\ i = 1
      BY <3>2, <3>3
    <3>4. CASE ~(c = Null /\ i = 1)
      <4>1. PICK k \in 1 .. Len(chain[c]) : i = k + shift(c) /\ chain'[c][i] = chain[c][k]
        BY <1>9, <3>4
      <4>2. PICK l \in 1 .. Len(chain[d]) : j = l + shift(d) /\ chain'[d][j] = chain[d][l]
        BY <1>9, <3>2, <3>4
      <4> QED
        BY <2>1, <4>1, <4>2 DEF OnePlace
    <3> QED
      BY <3>3, <3>4
  <2>2. \A uh \in Threads : pc'[uh] = "swap" => node'[uh] \notin Chained'
    BY <1>1, <1>2, <1>12 DEF OnePlace
  <2>3. \A uh, vh \in Threads :
           pc'[uh] \in {"swap", "link"} /\ pc'[vh] \in {"swap", "link"} /\ node'[uh] = node'[vh]
           => uh = vh
    BY <1>1, <1>2 DEF OnePlace
  <2> QED
    BY <2>1, <2>2, <2>3 DEF OnePlace
<1>16. Links'
  <2>1. ASSUME NEW c \in Owners, NEW i \in 1 .. Len(chain'[c])
        PROVE  mem'[chain'[c][i]].next \in {chain'[c][i], After(c, i)'}
    <3>1. CASE c = Null /\ i = 1
      BY <1>1, <1>7, <3>1 DEF Links
    <3>2. CASE ~(c = Null /\ i = 1)
      <4>1. PICK j \in 1 .. Len(chain[c]) :
                    chain'[c][i] = chain[c][j] /\ After(c, i)' = After(c, j)
        BY <1>9, <3>2
      <4> QED
        BY <1>1, <4>1 DEF Links
    <3> QED
      BY <3>1, <3>2
  <2>2. \A uh \in Threads : pc'[uh] \in {"swap", "link"} => mem'[node'[uh]].next = node'[uh]
    BY <1>1, <1>2 DEF Links
  <2>3. ASSUME NEW uh \in Threads, pc'[uh] = "link"
        PROVE  \E c \in Owners : \E i \in 1 .. Len(chain'[c]) :
                  chain'[c][i] = node'[uh] /\ other'[uh] = After(c, i)'
    <3>1. CASE uh = th
      BY <1>1, <1>2, <1>4, <1>7, <1>8, <1>11, <3>1
    <3>2. CASE uh # th
      <4>1. PICK c \in Owners : \E j \in 1 .. Len(chain[c]) :
                                    chain[c][j] = node[uh] /\ other[uh] = After(c, j)
        BY <1>2, <2>3, <3>2 DEF Links
      <4> QED
        BY <1>1, <1>2, <1>10, <3>2, <4>1
    <3> QED
      BY <3>1, <3>2
  <2>4. \A uh \in Threads : pc'[uh] \in {"release", "free"} => mem'[node'[uh]].next # node'[uh]
    BY <1>1, <1>2 DEF Links
  <2> QED
    BY <2>1, <2>2, <2>3, <2>4 DEF Links
<1>17. Allocated'
  <2>1. \A c \in Owners : \A i \in 1 .. Len(chain'[c]) : chain'[c][i] \in DOMAIN mem'
    BY <1>1, <1>3, <1>7, <1>9 DEF Allocated
  <2> QED
    BY <1>1, <1>2, <1>13, <2>1 DEF Allocated, Cache
<1> QED
  BY <1>13, <1>14, <1>15, <1>16, <1>17

\* Linking makes the node point to the one that is after it.
LEMMA LinkShape ==
    ASSUME IndInv, NEW th \in Threads, Link(th), TypeOK'
    PROVE  /\ Shape' /\ Carriers' = Carriers /\ DOMAIN mem' = DOMAIN mem
           /\ \A a \in DOMAIN mem : mem'[a].task = mem[a].task
<1> USE DEF IndInv, Shape
<1> DEFINE n == node[th]
<1>1. /\ pc[th] = "link" /\ pc'[th] \in {"recheck", "idle"}
      /\ mem' = [mem EXCEPT ![n].next = other[th]]
      /\ \A uh \in Threads \ {th} : pc'[uh] = pc[uh] /\ node'[uh] = node[uh] /\ other'[uh] = other[uh]
      /\ UNCHANGED <<shared, brk, list, batch>>
  BY DEF Link, At, Goto, ghost, TypeOK
<1>2. n \in DOMAIN mem /\ n \in Nat /\ n # Null
  BY <1>1, Works, ListAssumption DEF Touches
<1>3. /\ DOMAIN mem' = DOMAIN mem
      /\ \A a \in DOMAIN mem : /\ a # n => mem'[a] = mem[a]
                               /\ mem'[a].task = mem[a].task /\ mem'[a].fromCache = mem[a].fromCache
      /\ mem'[n].next = other[th]
  <2>1. mem[n] \in WaitNode
    BY <1>2 DEF TypeOK
  <2> QED
    BY <1>1, <1>2, <2>1 DEF WaitNode
<1>4. chain' = chain /\ \A c, i : After(c, i)' = After(c, i)
  BY <1>1 DEF chain, After
<1>5. PICK c \in Owners : \E i \in 1 .. Len(chain[c]) : chain[c][i] = n /\ other[th] = After(c, i)
  BY <1>1 DEF Links
<1>6. PICK i \in 1 .. Len(chain[c]) : chain[c][i] = n /\ other[th] = After(c, i)
  BY <1>5
<1>7. other[th] # n
  <2>1. Len(chain[c]) \in Nat
    BY ChainFacts
  <2>2. CASE i < Len(chain[c])
    <3>1. i + 1 \in 1 .. Len(chain[c]) /\ i + 1 # i
      BY <2>1, <2>2
    <3> QED
      BY <1>6, <2>2, <3>1 DEF OnePlace, After
  <2> QED
    BY <1>2, <1>6, <2>2 DEF After
<1> HIDE DEF n
<1>8. Chained' = Chained /\ InUse' = InUse /\ Carriers' = Carriers
  BY <1>1, <1>3, <1>4 DEF Chained, InUse, Carriers
<1>9. HeadsAgree'
  BY <1>1, <1>4 DEF HeadsAgree, Announcing, shared
<1>10. OnePlace'
  BY <1>1, <1>4, <1>8 DEF OnePlace
<1>11. Links'
  <2>1. ASSUME NEW d \in Owners, NEW j \in 1 .. Len(chain'[d])
        PROVE  mem'[chain'[d][j]].next \in {chain'[d][j], After(d, j)'}
    <3>1. CASE chain[d][j] = n
      <4>1. d = c /\ j = i
        BY <1>4, <1>6, <3>1 DEF OnePlace
      <4> QED
        BY <1>3, <1>4, <1>6, <4>1
    <3>2. CASE chain[d][j] # n
      BY <1>3, <1>4, <3>2 DEF Links, Allocated
    <3> QED
      BY <3>1, <3>2
  <2>2. ASSUME NEW uh \in Threads, pc'[uh] \in {"swap", "link"}
        PROVE  mem'[node'[uh]].next = node'[uh]
    <3>1. uh # th /\ pc[uh] \in {"swap", "link"} /\ node'[uh] = node[uh]
      BY <1>1, <2>2
    <3>2. node[uh] # n /\ node[uh] \in DOMAIN mem
      BY <1>1, <3>1, Works DEF OnePlace, Touches, n
    <3> QED
      BY <1>3, <3>1, <3>2 DEF Links
  <2>3. \A uh \in Threads : pc'[uh] = "link" =>
           \E d \in Owners : \E j \in 1 .. Len(chain'[d]) :
              chain'[d][j] = node'[uh] /\ other'[uh] = After(d, j)'
    BY <1>1, <1>4 DEF Links
  <2>4. ASSUME NEW uh \in Threads, pc'[uh] \in {"release", "free"}
        PROVE  mem'[node'[uh]].next # node'[uh]
    <3>1. uh # th /\ pc[uh] \in {"release", "free"} /\ node'[uh] = node[uh] /\ node[uh] \in DOMAIN mem
      BY <1>1, <2>4, Works DEF Touches
    <3> QED
      BY <1>3, <1>7, <3>1 DEF Links
  <2> QED
    BY <2>1, <2>2, <2>3, <2>4 DEF Links
<1>12. Allocated'
  BY <1>1, <1>3, <1>4, <1>8 DEF Allocated, Cache, shared
<1> QED
  BY <1>3, <1>8, <1>9, <1>10, <1>11, <1>12

\* announce() goes on only when the node is linked, and then knows the next one.
LEMMA FollowShape ==
    ASSUME IndInv, NEW th \in Threads, Follow(th), TypeOK'
    PROVE  Shape' /\ Carriers' = Carriers
<1> USE DEF IndInv, Shape
<1>1. /\ pc[th] = "follow" /\ pc'[th] = "release"
      /\ mem[node[th]].next # node[th] /\ other'[th] = mem[node[th]].next
      /\ \A uh \in Threads \ {th} : pc'[uh] = pc[uh] /\ other'[uh] = other[uh]
      /\ UNCHANGED <<shared, mem, brk, node, list, batch>>
  BY DEF Follow, At, Goto, ghost, memory, TypeOK
<1>2. chain' = chain /\ \A c, i : After(c, i)' = After(c, i)
  BY <1>1 DEF chain, After
<1>3. Chained' = Chained /\ InUse' = InUse /\ Carriers' = Carriers
  BY <1>1, <1>2 DEF Chained, InUse, Carriers
<1>4. other'[th] = After(th, 1)
  <2>1. th \in Owners /\ node[th] = chain[th][1] /\ Len(chain[th]) >= 1
    BY <1>1, Announced DEF Announcing
  <2>2. 1 \in 1 .. Len(chain[th])
    BY <2>1, ChainFacts
  <2> QED
    BY <1>1, <2>1, <2>2 DEF Links
<1>5. HeadsAgree'
  BY <1>1, <1>2, <1>4 DEF HeadsAgree, Announcing, shared
<1>6. OnePlace'
  BY <1>1, <1>2, <1>3 DEF OnePlace
<1>7. Links'
  BY <1>1, <1>2 DEF Links
<1>8. Allocated'
  BY <1>1, <1>2, <1>3 DEF Allocated, Cache, shared
<1> QED
  BY <1>3, <1>5, <1>6, <1>7, <1>8

\* The node that has released its task stays where it is.
LEMMA ReleaseShape ==
    ASSUME IndInv, NEW th \in Threads, Release(th), TypeOK'
    PROVE  Shape' /\ Carriers' = Carriers \ {node[th]}
<1> USE DEF IndInv, Shape
<1>1. /\ pc[th] = "release" /\ pc'[th] = "free"
      /\ \A uh \in Threads \ {th} : pc'[uh] = pc[uh]
      /\ UNCHANGED <<shared, mem, brk, node, other, list, batch>>
  BY DEF Release, At, Goto, ghost, memory, TypeOK
<1>2. chain' = chain /\ \A c, i : After(c, i)' = After(c, i)
  BY <1>1 DEF chain, After
<1>3. Chained' = Chained /\ InUse' = InUse
  BY <1>1, <1>2 DEF Chained, InUse
<1>4. Carriers' = Carriers \ {node[th]}
  BY <1>1, <1>3, Carried DEF Carriers, InUse, Chained
<1>5. HeadsAgree'
  BY <1>1, <1>2 DEF HeadsAgree, Announcing, shared
<1>6. OnePlace'
  BY <1>1, <1>2, <1>3 DEF OnePlace
<1>7. Links'
  BY <1>1, <1>2 DEF Links
<1>8. Allocated'
  BY <1>1, <1>2, <1>3 DEF Allocated, Cache, shared
<1> QED
  BY <1>4, <1>5, <1>6, <1>7, <1>8

\* announce() takes all that is in the list.
LEMMA TakeShape ==
    ASSUME IndInv, NEW th \in Threads, TakeAll(th), TypeOK'
    PROVE  Shape' /\ Carriers' = Carriers
<1> USE DEF IndInv, Shape
<1>1. /\ pc[th] = "take" /\ pc'[th] = IF m_head = Null THEN "idle" ELSE "follow"
      /\ m_head' = Null /\ list' = <<>> /\ node'[th] = m_head /\ batch'[th] = list
      /\ \A uh \in Threads \ {th} :
            pc'[uh] = pc[uh] /\ node'[uh] = node[uh] /\ batch'[uh] = batch[uh]
      /\ UNCHANGED <<m_nodeCache, m_nodeCacheSize, m_lastAssignedCacheIndex, mem, brk, other>>
  BY DEF TakeAll, At, Goto, memory, TypeOK
<1>2. /\ th \in Owners /\ Null \in Owners /\ th # Null /\ list \in Seq(Nat)
      /\ chain[Null] = list /\ Len(list) \in Nat /\ batch[th] = <<>>
  BY <1>1, ChainFacts DEF Owners, HeadsAgree, Announcing, TypeOK
<1>3. /\ chain'[th] = chain[Null] /\ chain[th] = <<>> /\ chain'[Null] = <<>>
      /\ \A c \in Owners \ {th, Null} : chain'[c] = chain[c]
      /\ Len(chain[th]) = 0 /\ Len(chain'[Null]) = 0
  BY <1>1, <1>2, EmptySeq DEF chain, Owners
<1> DEFINE of(c) == IF c = th THEN Null ELSE c
<1>4. ASSUME NEW c \in Owners, NEW i \in 1 .. Len(chain'[c])
      PROVE  /\ c # Null /\ of(c) \in Owners /\ chain'[c] = chain[of(c)]
             /\ i \in 1 .. Len(chain[of(c)]) /\ After(c, i)' = After(of(c), i)
  BY <1>2, <1>3 DEF After
<1>5. ASSUME NEW c \in Owners, NEW i \in 1 .. Len(chain[c])
      PROVE  \E d \in Owners : /\ i \in 1 .. Len(chain'[d]) /\ chain'[d] = chain[c]
                               /\ After(d, i)' = After(c, i)
  <2>1. CASE c = Null
    BY <1>2, <1>3, <2>1 DEF After
  <2>2. CASE c # Null
    <3>1. c # th
      BY <1>3
    <3> QED
      BY <1>3, <2>2, <3>1 DEF After
  <2> QED
    BY <2>1, <2>2
<1>6. m_head = Null <=> list = <<>>
  <2>1. CASE list # <<>>
    <3>1. 1 \in 1 .. Len(chain[Null])
      BY <1>2, <2>1, EmptySeq
    <3>2. list[1] \in Nat
      BY <1>2, <3>1, ElementOfSeq
    <3> QED
      BY <2>1, <3>2, ListAssumption DEF HeadsAgree
  <2> QED
    BY <2>1 DEF HeadsAgree
<1>7. Chained' = Chained
  <2>1. Chained' \subseteq Chained
    BY <1>1, <1>4 DEF Chained
  <2>2. Chained \subseteq Chained'
    BY <1>1, <1>5 DEF Chained
  <2> QED
    BY <2>1, <2>2
<1>8. InUse' = InUse /\ Carriers' = Carriers
  BY <1>1, <1>7 DEF InUse, Carriers
<1>9. HeadsAgree'
  <2>1. \A uh \in Threads \ {th} : After(uh, 1)' = After(uh, 1)
    BY <1>3, ChainFacts DEF After, Owners
  <2> QED
    BY <1>1, <1>6, <2>1 DEF HeadsAgree, Announcing
<1>10. OnePlace'
  <2>1. ASSUME NEW c \in Owners, NEW d \in Owners,
               NEW i \in 1 .. Len(chain'[c]), NEW j \in 1 .. Len(chain'[d]),
               chain'[c][i] = chain'[d][j]
        PROVE  c = d /\ i = j
    <3>1. of(c) = of(d) /\ i = j
      BY <1>4, <2>1 DEF OnePlace
    <3>2. c # Null /\ d # Null
      BY <1>4
    <3> QED
      BY <3>1, <3>2
  <2>2. \A uh \in Threads : pc'[uh] = "swap" => node'[uh] \notin Chained'
    BY <1>1, <1>7 DEF OnePlace
  <2>3. \A uh, vh \in Threads :
           pc'[uh] \in {"swap", "link"} /\ pc'[vh] \in {"swap", "link"} /\ node'[uh] = node'[vh]
           => uh = vh
    BY <1>1 DEF OnePlace
  <2> QED
    BY <2>1, <2>2, <2>3 DEF OnePlace
<1>11. Links'
  <2>1. \A c \in Owners : \A i \in 1 .. Len(chain'[c]) :
           mem'[chain'[c][i]].next \in {chain'[c][i], After(c, i)'}
    BY <1>1, <1>4 DEF Links
  <2>2. ASSUME NEW uh \in Threads, pc'[uh] = "link"
        PROVE  \E c \in Owners : \E i \in 1 .. Len(chain'[c]) :
                  chain'[c][i] = node'[uh] /\ other'[uh] = After(c, i)'
    <3>1. PICK c \in Owners : \E i \in 1 .. Len(chain[c]) :
                                  chain[c][i] = node[uh] /\ other[uh] = After(c, i)
      BY <1>1, <2>2 DEF Links
    <3>2. uh # th
      BY <1>1, <2>2
    <3> QED
      BY <1>1, <1>5, <3>1, <3>2
  <2>3. \A uh \in Threads : pc'[uh] \in {"swap", "link"} => mem'[node'[uh]].next = node'[uh]
    BY <1>1 DEF Links
  <2>4. \A uh \in Threads : pc'[uh] \in {"release", "free"} => mem'[node'[uh]].next # node'[uh]
    BY <1>1 DEF Links
  <2> QED
    BY <2>1, <2>2, <2>3, <2>4 DEF Links
<1>12. Allocated'
  <2>1. \A c \in Owners : \A i \in 1 .. Len(chain'[c]) : chain'[c][i] \in DOMAIN mem'
    BY <1>1, <1>4 DEF Allocated
  <2> QED
    BY <1>1, <1>8, <2>1 DEF Allocated, Cache
<1> QED
  BY <1>8, <1>9, <1>10, <1>11, <1>12

\* announce() deletes its first node, which nobody else works on.
LEMMA FreeShape ==
    ASSUME IndInv, NEW th \in Threads, Free(th), TypeOK'
    PROVE  /\ Shape' /\ Carriers' = Carriers
           /\ \A a \in Carriers : mem'[a] = mem[a]
<1> USE DEF IndInv, Shape
<1> DEFINE n == node[th]
<1>1. /\ pc[th] = "free" /\ pc'[th] = IF other[th] = Null THEN "idle" ELSE "follow"
      /\ mem' = IF mem[n].fromCache THEN mem ELSE [a \in DOMAIN mem \ {n} |-> mem[a]]
      /\ node'[th] = other[th] /\ batch'[th] = Tail(batch[th])
      /\ \A uh \in Threads \ {th} : /\ pc'[uh] = pc[uh] /\ node'[uh] = node[uh]
                                    /\ other'[uh] = other[uh] /\ batch'[uh] = batch[uh]
      /\ UNCHANGED <<shared, brk, list>>
  BY DEF Free, At, Goto, TypeOK
<1>2. /\ th \in Owners /\ th # Null /\ chain[th] # <<>> /\ Len(chain[th]) >= 1 /\ n = chain[th][1]
      /\ n \in DOMAIN mem /\ n \in Chained /\ chain[th] = batch[th] /\ chain[th] \in Seq(Nat)
      /\ Len(chain[th]) \in Nat /\ 1 \in 1 .. Len(chain[th])
      /\ other[th] = After(th, 1)
  BY <1>1, Announced, ChainFacts DEF Announcing, HeadsAgree
<1>3. /\ \A c \in Owners \ {th} : chain'[c] = chain[c]
      /\ chain'[th] = Tail(chain[th])
  BY <1>1, <1>2 DEF chain, Owners
<1>4. /\ Len(chain'[th]) = Len(chain[th]) - 1
      /\ \A i \in 1 .. Len(chain'[th]) : chain'[th][i] = chain[th][i + 1]
  BY <1>2, <1>3, HeadTailProperties
<1> DEFINE shift(c) == IF c = th THEN 1 ELSE 0
<1>5. ASSUME NEW c \in Owners, NEW i \in 1 .. Len(chain'[c])
      PROVE  /\ i + shift(c) \in 1 .. Len(chain[c])
             /\ chain'[c][i] = chain[c][i + shift(c)] /\ After(c, i)' = After(c, i + shift(c))
  <2>1. CASE c # th
    BY <1>3, <2>1, ChainFacts DEF After
  <2>2. CASE c = th
    <3>1. i + 1 \in 1 .. Len(chain[th]) /\ chain'[c][i] = chain[c][i + 1]
      BY <1>2, <1>4, <2>2
    <3>2. i < Len(chain'[th]) <=> i + 1 < Len(chain[th])
      BY <1>2, <1>4
    <3>3. i < Len(chain'[th]) => chain'[th][i + 1] = chain[th][(i + 1) + 1]
      <4>1. i < Len(chain'[th]) => i + 1 \in 1 .. Len(chain'[th])
        BY <1>2, <1>4, <2>2
      <4> QED
        BY <1>4, <4>1
    <3> QED
      BY <2>2, <3>1, <3>2, <3>3 DEF After
  <2> QED
    BY <2>1, <2>2
<1>6. ASSUME NEW c \in Owners, NEW i \in 1 .. Len(chain[c]), ~(c = th /\ i = 1)
      PROVE  \E j \in 1 .. Len(chain'[c]) :
                chain'[c][j] = chain[c][i] /\ After(c, j)' = After(c, i)
  <2>1. CASE c # th
    BY <1>3, <2>1, ChainFacts DEF After
  <2>2. CASE c = th
    <3>1. i - 1 \in 1 .. Len(chain'[th]) /\ (i - 1) + 1 = i
      BY <1>2, <1>4, <1>6, <2>2
    <3> QED
      BY <1>5, <2>2, <3>1
  <2> QED
    BY <2>1, <2>2
<1>7. \A c \in Owners : \A i \in 1 .. Len(chain'[c]) : chain'[c][i] # n
  <2> SUFFICES ASSUME NEW c \in Owners, NEW i \in 1 .. Len(chain'[c]), chain'[c][i] = n
               PROVE  FALSE
    OBVIOUS
  <2>1. i + shift(c) \in 1 .. Len(chain[c]) /\ chain[c][i + shift(c)] = n
    BY <1>5
  <2>2. c = th /\ i + shift(c) = 1
    BY <1>2, <2>1 DEF OnePlace
  <2> QED
    BY <2>2
<1>8. \A uh \in Threads \ {th} : pc[uh] = "swap" \/ Touches(uh) => node[uh] # n
  <2> SUFFICES ASSUME NEW uh \in Threads \ {th}, pc[uh] = "swap" \/ Touches(uh), node[uh] = n
               PROVE  FALSE
    OBVIOUS
  <2>1. CASE pc[uh] \in {"swap", "link"}
    BY <1>1, <2>1 DEF Links
  <2>2. CASE Announcing(uh)
    <3>1. uh \in Owners /\ n = chain[uh][1] /\ Len(chain[uh]) >= 1 /\ Len(chain[uh]) \in Nat
      BY <2>2, Announced, ChainFacts
    <3>2. 1 \in 1 .. Len(chain[uh])
      BY <3>1
    <3> QED
      BY <1>2, <3>1, <3>2 DEF OnePlace
  <2> QED
    BY <2>1, <2>2 DEF Touches, Announcing
<1>9. /\ DOMAIN mem' = IF n \in Cache THEN DOMAIN mem ELSE DOMAIN mem \ {n}
      /\ \A a \in DOMAIN mem \ {n} : mem'[a] = mem[a]
      /\ n \in Cache => mem' = mem
  BY <1>1, <1>2 DEF Allocated
<1> HIDE DEF n, shift
<1>10. Chained' = Chained \ {n}
  <2>1. ASSUME NEW a \in Chained' PROVE a \in Chained /\ a # n
    <3>1. PICK c \in Owners : \E i \in 1 .. Len(chain'[c]) : chain'[c][i] = a
      BY DEF Chained
    <3>2. \E i \in 1 .. Len(chain[c]) : chain[c][i] = a
      BY <1>5, <3>1
    <3> QED
      BY <1>7, <3>1, <3>2 DEF Chained, Allocated
  <2>2. ASSUME NEW a \in Chained, a # n PROVE a \in Chained'
    <3>1. PICK c \in Owners : \E i \in 1 .. Len(chain[c]) : chain[c][i] = a
      BY DEF Chained
    <3>2. PICK i \in 1 .. Len(chain[c]) : chain[c][i] = a
      BY <3>1
    <3>3. ~(c = th /\ i = 1)
      BY <1>2, <2>2, <3>2
    <3>4. \E j \in 1 .. Len(chain'[c]) : chain'[c][j] = a
      BY <1>6, <3>2, <3>3
    <3>5. a \in DOMAIN mem'
      BY <1>9, <2>2 DEF Chained
    <3> QED
      BY <3>4, <3>5 DEF Chained
  <2> QED
    BY <2>1, <2>2
<1>11. InUse' = InUse \ {n}
  BY <1>1, <1>8, <1>9, <1>10 DEF InUse
<1>12. Carriers' = Carriers
  BY <1>1, <1>2, <1>8, <1>9, <1>11 DEF Carriers, InUse, n
<1>13. \A a \in Carriers : mem'[a] = mem[a]
  BY <1>1, <1>9 DEF Carriers, InUse, Chained, n
<1>14. other[th] = Null <=> chain'[th] = <<>>
  <2>1. chain'[th] = <<>> <=> Len(chain[th]) = 1
    <3>1. chain'[th] \in Seq(Nat)
      BY <1>2, <1>3, HeadTailProperties
    <3>2. chain'[th] = <<>> <=> Len(chain'[th]) = 0
      BY <3>1, EmptySeq
    <3> QED
      BY <1>2, <1>4, <3>2
  <2>2. CASE Len(chain[th]) = 1
    <3>1. After(th, 1) = Null
      BY <2>2 DEF After
    <3> QED
      BY <1>2, <2>1, <2>2, <3>1
  <2>3. CASE Len(chain[th]) # 1
    <3>1. 1 < Len(chain[th]) /\ 1 + 1 \in 1 .. Len(chain[th])
      <4>1. \A l \in Nat : l >= 1 /\ l # 1 => 1 < l /\ 1 + 1 \in 1 .. l
        OBVIOUS
      <4> QED
        BY <1>2, <2>3, <4>1
    <3>2. After(th, 1) \in Nat
      BY <1>2, <3>1, ChainFacts DEF After
    <3>3. other[th] # Null
      BY <1>2, <3>2, ListAssumption
    <3> QED
      BY <2>1, <2>3, <3>3
  <2> QED
    BY <2>2, <2>3
<1>15. HeadsAgree'
  <2>1. \A uh \in Threads \ {th} : After(uh, 1)' = After(uh, 1)
    BY <1>3 DEF After, Owners
  <2>2. chain'[th] = batch'[th]
    BY <1>1, <1>2, <1>3
  <2>3. other[th] # Null => other[th] = batch'[th][1]
    <3>1. other[th] # Null => 1 < Len(chain[th]) /\ other[th] = chain[th][1 + 1]
      BY <1>2 DEF After
    <3>2. other[th] # Null => 1 \in 1 .. Len(chain'[th])
      BY <1>2, <1>4, <3>1
    <3> QED
      BY <1>4, <2>2, <3>1, <3>2
  <2> QED
    BY <1>1, <1>14, <2>1, <2>2, <2>3 DEF HeadsAgree, Announcing, shared
<1>16. OnePlace'
  <2>1. ASSUME NEW c \in Owners, NEW d \in Owners,
               NEW i \in 1 .. Len(chain'[c]), NEW j \in 1 .. Len(chain'[d]),
               chain'[c][i] = chain'[d][j]
        PROVE  c = d /\ i = j
    <3>1. c = d /\ i + shift(c) = j + shift(d)
      BY <1>5, <2>1 DEF OnePlace
    <3> QED
      BY <3>1 DEF shift
  <2>2. \A uh \in Threads : pc'[uh] = "swap" => node'[uh] \notin Chained'
    BY <1>1, <1>10 DEF OnePlace
  <2>3. \A uh, vh \in Threads :
           pc'[uh] \in {"swap", "link"} /\ pc'[vh] \in {"swap", "link"} /\ node'[uh] = node'[vh]
           => uh = vh
    BY <1>1 DEF OnePlace
  <2> QED
    BY <2>1, <2>2, <2>3 DEF OnePlace
<1>17. Links'
  <2>1. ASSUME NEW c \in Owners, NEW i \in 1 .. Len(chain'[c])
        PROVE  mem'[chain'[c][i]].next \in {chain'[c][i], After(c, i)'}
    <3>1. chain'[c][i] \in DOMAIN mem \ {n}
      BY <1>5, <1>7 DEF Allocated
    <3> QED
      BY <1>5, <1>9, <3>1 DEF Links
  <2>2. ASSUME NEW uh \in Threads, pc'[uh] = "link"
        PROVE  \E c \in Owners : \E i \in 1 .. Len(chain'[c]) :
                  chain'[c][i] = node'[uh] /\ other'[uh] = After(c, i)'
    <3>1. uh # th /\ pc[uh] = "link" /\ node'[uh] = node[uh] /\ other'[uh] = other[uh]
      BY <1>1, <2>2
    <3>2. PICK c \in Owners : \E i \in 1 .. Len(chain[c]) :
                                  chain[c][i] = node[uh] /\ other[uh] = After(c, i)
      BY <3>1 DEF Links
    <3>3. PICK i \in 1 .. Len(chain[c]) : chain[c][i] = node[uh] /\ other[uh] = After(c, i)
      BY <3>2
    <3>4. ~(c = th /\ i = 1)
      BY <1>2, <1>8, <3>1, <3>3 DEF Touches
    <3> QED
      BY <1>6, <3>1, <3>3, <3>4
  <2>3. ASSUME NEW uh \in Threads, pc'[uh] \in {"swap", "link", "release", "free"}
        PROVE  uh # th /\ pc'[uh] = pc[uh] /\ node'[uh] = node[uh] /\ mem'[node[uh]] = mem[node[uh]]
    <3>1. uh # th /\ pc'[uh] = pc[uh] /\ node'[uh] = node[uh]
      BY <1>1, <2>3
    <3> QED
      BY <1>8, <1>9, <2>3, <3>1, Works DEF Touches
  <2> QED
    BY <2>1, <2>2, <2>3 DEF Links
<1>18. Allocated'
  <2>1. \A c \in Owners : \A i \in 1 .. Len(chain'[c]) : chain'[c][i] \in DOMAIN mem'
    BY <1>5, <1>7, <1>9 DEF Allocated
  <2>2. \A uh \in Threads : pc'[uh] = "swap" => node'[uh] \in DOMAIN mem'
    BY <1>1, <1>8, <1>9 DEF Allocated
  <2>3. Cache' = Cache
    BY <1>1 DEF Cache, shared
  <2>4. Cache \subseteq DOMAIN mem'
    BY <1>9 DEF Allocated
  <2>5. ASSUME NEW a \in DOMAIN mem'
        PROVE  /\ a < brk' /\ a \in DOMAIN mem
               /\ mem'[a].fromCache <=> a \in Cache'
               /\ a \notin Cache' => a \in InUse'
               /\ a \in Cache' \cap InUse' => a < m_nodeCache' + m_lastAssignedCacheIndex'
    BY <1>1, <1>9, <1>11, <2>3 DEF Allocated, shared
  <2> QED
    BY <1>1, <2>1, <2>2, <2>3, <2>4, <2>5 DEF Allocated, shared
<1> QED
  BY <1>12, <1>13, <1>15, <1>16, <1>17, <1>18

\* When all threads are out and the list waits no more, it is empty and only the
\* cache is allocated.
LEMMA Quiet ==
    ASSUME IndInv, \A th \in Threads : pc[th] = "idle", ~m_waiting
    PROVE  /\ list = <<>> /\ m_head = Null /\ DOMAIN mem = Cache
           /\ chain = [c \in Owners |-> <<>>] /\ InUse = {} /\ Carriers = {}
<1> USE DEF IndInv, Shape
<1>1. list = <<>> /\ m_head = Null
  BY DEF SomeoneWillTake, HeadsAgree
<1>2. \A th \in Threads : batch[th] = <<>>
  BY DEF HeadsAgree, Announcing
<1>3. chain = [c \in Owners |-> <<>>]
  BY <1>1, <1>2 DEF chain, Owners
<1>4. \A c \in Owners : Len(chain[c]) = 0
  BY <1>3, EmptySeq
<1>5. InUse = {} /\ Carriers = {}
  BY <1>4 DEF InUse, Chained, Carriers
<1>6. DOMAIN mem = Cache
  BY <1>5 DEF Allocated
<1> QED
  BY <1>1, <1>3, <1>5, <1>6

\* reset() expands the cache, and nobody has a node then.
LEMMA ResetShape ==
    ASSUME IndInv, QuietReset, TypeOK'
    PROVE  Shape' /\ Carriers' = {}
<1> USE DEF IndInv, Shape
<1>1. /\ \A th \in Threads : pc[th] = "idle"
      /\ ~m_waiting
      /\ m_lastAssignedCacheIndex' = 0
      /\ UNCHANGED <<m_head, pc, node, other, list, batch>>
  BY DEF QuietReset, Reset, At, local, ghost
<1>2. /\ list = <<>> /\ m_head = Null /\ DOMAIN mem = Cache
      /\ chain = [c \in Owners |-> <<>>]
  BY <1>1, Quiet
<1>3. chain' = chain /\ \A c \in Owners : chain'[c] = <<>> /\ Len(chain'[c]) = 0
  BY <1>1, <1>2, EmptySeq DEF chain
<1>4. Chained' = {} /\ InUse' = {} /\ Carriers' = {}
  BY <1>1, <1>3 DEF Chained, InUse, Carriers
<1>5. HeadsAgree' /\ OnePlace' /\ Links'
  <2>1. HeadsAgree'
    BY <1>1 DEF HeadsAgree, Announcing
  <2>2. OnePlace' /\ Links'
    BY <1>1, <1>3 DEF OnePlace, Links
  <2> QED
    BY <2>1, <2>2
<1>6. /\ m_nodeCache \in Nat /\ m_nodeCacheSize \in Nat /\ m_lastAssignedCacheIndex \in Nat
      /\ brk \in Nat /\ m_nodeCache + m_nodeCacheSize =< brk
  BY DEF TypeOK, Allocated
<1>7. /\ Cache' = DOMAIN mem' /\ m_nodeCache' + m_nodeCacheSize' =< brk'
      /\ m_nodeCache' \in Nat /\ m_nodeCacheSize' \in Nat /\ brk' \in Nat
      /\ \A n \in DOMAIN mem' : mem'[n].fromCache
  <2>1. CASE m_lastAssignedCacheIndex > m_nodeCacheSize
    <3>1. /\ m_nodeCache' = brk /\ m_nodeCacheSize' = m_lastAssignedCacheIndex
          /\ brk' = brk + m_lastAssignedCacheIndex
          /\ mem' = [a \in (DOMAIN mem \ Cache) \cup (brk .. brk + m_lastAssignedCacheIndex - 1) |->
                        IF a \in brk .. brk + m_lastAssignedCacheIndex - 1 THEN Unused ELSE mem[a]]
      BY <2>1 DEF QuietReset, Reset, Cache
    <3>2. DOMAIN mem' = brk .. brk + m_lastAssignedCacheIndex - 1 /\ \A n \in DOMAIN mem' : mem'[n] = Unused
      BY <1>2, <3>1
    <3> QED
      BY <1>6, <3>1, <3>2 DEF Cache, Unused
  <2>2. CASE ~(m_lastAssignedCacheIndex > m_nodeCacheSize)
    <3>1. UNCHANGED <<m_nodeCache, m_nodeCacheSize, mem, brk>>
      BY <2>2 DEF QuietReset, Reset, memory
    <3> QED
      BY <1>2, <1>6, <3>1 DEF Cache, Allocated
  <2> QED
    BY <2>1, <2>2
<1>8. \A n \in Cache' : n < brk'
  <2>1. \A a, size, b \in Nat : a + size =< b => \A n \in a .. a + size - 1 : n < b
    OBVIOUS
  <2> QED
    BY <1>7, <2>1 DEF Cache
<1>9. Allocated'
  <2>1. /\ \A c \in Owners : \A i \in 1 .. Len(chain'[c]) : chain'[c][i] \in DOMAIN mem'
        /\ \A th \in Threads : pc'[th] = "swap" => node'[th] \in DOMAIN mem'
    BY <1>1, <1>3
  <2>2. ASSUME NEW n \in DOMAIN mem'
        PROVE  n < brk' /\ (mem'[n].fromCache <=> n \in Cache') /\ n \in Cache' /\ n \notin InUse'
    BY <1>4, <1>7, <1>8
  <2> QED
    BY <1>7, <2>1, <2>2 DEF Allocated
<1> QED
  BY <1>4, <1>5, <1>9

-----------------------------------------------------------------------------
(* Every step preserves the order of the calls. *)

\* The steps that leave m_waiting, called and the list as they are, and where
\* nobody starts what has to wait for doneWaiting().
LEMMA SameOrder ==
    ASSUME IndInv, NEW th \in Threads, UNCHANGED <<m_waiting, called>>,
           \A uh \in Threads \ {th} : pc'[uh] = pc[uh],
           pc'[th] # "stop",
           m_waiting => pc'[th] \notin {"take", "follow", "release", "free", "late"}
    PROVE  InOrder'
<1>1. InOrder
  BY DEF IndInv
<1> QED
  BY <1>1 DEF InOrder

\* th is on the way to take what is in the list.
WillTake(th) == pc[th] \in {"recheck", "take"} \/ (pc[th] = "link" /\ other[th] = Null)

\* Nobody who will take what is in the list gives up.
LEMMA SameTaker ==
    ASSUME IndInv, NEW th \in Threads, UNCHANGED <<m_waiting, list>>,
           \A uh \in Threads \ {th} : pc'[uh] = pc[uh] /\ other'[uh] = other[uh],
           WillTake(th) /\ ~m_waiting => WillTake(th)'
    PROVE  SomeoneWillTake'
<1>1. SomeoneWillTake
  BY DEF IndInv
<1> QED
  BY <1>1 DEF SomeoneWillTake, WillTake

\* doneWaiting() comes before all that releases waiters, and somebody takes what
\* comes into the list later.
LEMMA OrderStep ==
    ASSUME IndInv, [Next]_vars, TypeOK'
    PROVE  InOrder' /\ SomeoneWillTake'
<1> USE DEF At, Goto, shared, memory, local, client, result, ghost
<1>1. TypeOK /\ InOrder /\ SomeoneWillTake
  BY DEF IndInv
<1>2. ASSUME NEW th \in Threads, NEW w \in Waiters, Add(th, w)
      PROVE  InOrder' /\ SomeoneWillTake'
  <2>1. InOrder'
    BY <1>1, <1>2, SameOrder DEF Add, TypeOK
  <2> QED
    BY <1>1, <1>2, <2>1, SameTaker DEF Add, TypeOK, WillTake
<1>3. ASSUME NEW th \in Threads, NEW exception \in BOOLEAN, DoneWaiting(th, exception)
      PROVE  InOrder' /\ SomeoneWillTake'
  <2>1. /\ pc[th] = "idle" /\ pc'[th] = "stop" /\ called' /\ m_waiting
        /\ \A uh \in Threads \ {th} : pc'[uh] = pc[uh] /\ pc[uh] # "stop"
        /\ UNCHANGED <<m_waiting, list, other>>
    BY <1>1, <1>3 DEF DoneWaiting, TypeOK, InOrder
  <2> QED
    BY <1>1, <2>1 DEF InOrder, SomeoneWillTake
<1>4. ASSUME NEW th \in Threads, ReleaseLate(th) \/ CreateNode(th) \/ Link(th) \/ Recheck(th)
      PROVE  InOrder' /\ SomeoneWillTake'
  <2>1. /\ UNCHANGED <<m_waiting, called, list>>
        /\ pc'[th] \in {"idle", "swap", "recheck", "take"}
        /\ pc'[th] = "take" => ~m_waiting
        /\ \A uh \in Threads \ {th} : pc'[uh] = pc[uh] /\ other'[uh] = other[uh]
        /\ WillTake(th) /\ ~m_waiting => WillTake(th)'
    BY <1>1, <1>4 DEF ReleaseLate, CreateNode, Link, Recheck, TypeOK, WillTake
  <2> QED
    BY <2>1, SameOrder, SameTaker
<1>5. ASSUME NEW th \in Threads, SwapHead(th) PROVE InOrder' /\ SomeoneWillTake'
  <2>1. /\ UNCHANGED <<m_waiting, called>> /\ pc[th] = "swap" /\ pc'[th] = "link" /\ other'[th] = m_head
        /\ \A uh \in Threads \ {th} : pc'[uh] = pc[uh] /\ other'[uh] = other[uh]
    BY <1>1, <1>5 DEF SwapHead, TypeOK
  <2>2. SomeoneWillTake'
    <3>1. CASE list = <<>>
      <4>1. m_head = Null
        BY <3>1 DEF IndInv, Shape, HeadsAgree
      <4> QED
        BY <2>1, <4>1 DEF SomeoneWillTake
    <3>2. CASE list # <<>>
      BY <1>1, <2>1, <3>2 DEF SomeoneWillTake
    <3> QED
      BY <3>1, <3>2
  <2> QED
    BY <2>1, <2>2, SameOrder
<1>6. ASSUME NEW th \in Threads, StopWaiting(th) PROVE InOrder' /\ SomeoneWillTake'
  BY <1>1, <1>6 DEF StopWaiting, TypeOK, InOrder, SomeoneWillTake
<1>7. ASSUME NEW th \in Threads, TakeAll(th) PROVE InOrder' /\ SomeoneWillTake'
  <2>1. InOrder'
    BY <1>1, <1>7 DEF TakeAll, TypeOK, InOrder
  <2> QED
    BY <1>7, <2>1 DEF TakeAll, SomeoneWillTake
<1>8. ASSUME NEW th \in Threads, Follow(th) \/ Release(th) \/ Free(th)
      PROVE  InOrder' /\ SomeoneWillTake'
  <2>1. /\ UNCHANGED <<m_waiting, called, list>>
        /\ pc[th] \in {"follow", "release", "free"}
        /\ pc'[th] \in {"idle", "follow", "release", "free"}
        /\ \A uh \in Threads \ {th} : pc'[uh] = pc[uh] /\ other'[uh] = other[uh]
    BY <1>1, <1>8 DEF Follow, Release, Free, TypeOK
  <2>2. ~m_waiting
    BY <1>1, <2>1 DEF InOrder
  <2>3. InOrder'
    BY <2>1, <2>2, SameOrder
  <2> QED
    BY <2>1, <2>3, SameTaker DEF WillTake
<1>9. CASE QuietReset
  BY <1>1, <1>9, Quiet DEF QuietReset, Reset, InOrder, SomeoneWillTake
<1>10. CASE UNCHANGED vars
  BY <1>1, <1>10 DEF vars, InOrder, SomeoneWillTake
<1> QED
  BY <1>2, <1>3, <1>4, <1>5, <1>6, <1>7, <1>8, <1>9, <1>10 DEF Next, Calls, Step

-----------------------------------------------------------------------------
(* Every step keeps each waiter in one place. *)

\* The steps that neither give a task to the list nor release one.
LEMMA SameTasks ==
    ASSUME IndInv, UNCHANGED <<added, released, waiter>>,
           Carriers' = Carriers,
           \A n \in Carriers : mem'[n].task = mem[n].task,
           \A th \in Threads : InHand(th)' <=> InHand(th)
    PROVE  OneTask'
<1>1. OneTask
  BY DEF IndInv
<1> QED
  BY <1>1 DEF OneTask

\* A waiter that is not where it was is released, and once.
LEMMA TasksStep ==
    ASSUME IndInv, [Next]_vars, TypeOK'
    PROVE  OneTask'
<1> USE DEF At, Goto, shared, memory, local, client, result, ghost
<1>1. TypeOK /\ OneTask /\ \A n \in Carriers : n \in DOMAIN mem
  BY DEF IndInv, Carriers, InUse, Chained
<1>2. ASSUME NEW th \in Threads, NEW w \in Waiters, Add(th, w) PROVE OneTask'
  <2>1. /\ w \notin added /\ added' = added \cup {w} /\ waiter'[th] = w
        /\ \A uh \in Threads \ {th} : waiter'[uh] = waiter[uh] /\ pc'[uh] = pc[uh]
        /\ pc[th] = "idle" /\ pc'[th] \in {"create", "late"}
        /\ UNCHANGED <<m_head, m_nodeCache, m_nodeCacheSize, m_lastAssignedCacheIndex,
                       mem, brk, node, other, list, batch, released>>
    BY <1>1, <1>2 DEF Add, TypeOK
  <2>2. Carriers' = Carriers
    BY <2>1, CalmShape DEF Working
  <2>3. released[w] = 0
    BY <1>1, <2>1 DEF OneTask
  <2>4. \A uh \in Threads : InHand(uh)' <=> (InHand(uh) \/ uh = th)
    BY <2>1 DEF InHand
  <2>5. ~InHand(th)
    BY <2>1 DEF InHand
  <2> QED
    BY <1>1, <2>1, <2>2, <2>3, <2>4, <2>5 DEF OneTask
<1>3. ASSUME NEW th \in Threads, ReleaseLate(th) PROVE OneTask'
  <2> DEFINE w == waiter[th]
  <2>1. /\ pc[th] = "late" /\ pc'[th] = "idle"
        /\ \A uh \in Threads \ {th} : waiter'[uh] = waiter[uh] /\ pc'[uh] = pc[uh]
        /\ UNCHANGED <<m_head, m_nodeCache, m_nodeCacheSize, m_lastAssignedCacheIndex,
                       mem, brk, node, other, list, batch, added>>
        /\ released' = [released EXCEPT ![w] = @ + 1]
    BY <1>1, <1>3 DEF ReleaseLate, LetGo, TypeOK
  <2>2. Carriers' = Carriers
    BY <2>1, CalmShape DEF Working
  <2>3. InHand(th) /\ ~InHand(th)' /\ \A uh \in Threads \ {th} : InHand(uh)' <=> InHand(uh)
    BY <2>1 DEF InHand
  <2>4. w \in added /\ w \in Waiters /\ released[w] = 0
    BY <1>1, <2>3 DEF OneTask, TypeOK
  <2>5. released'[w] = 1 /\ \A v \in Waiters \ {w} : released'[v] = released[v]
    BY <1>1, <2>1, <2>4 DEF TypeOK
  <2>6. added \subseteq Waiters
    BY <1>1 DEF TypeOK
  <2> HIDE DEF w
  <2>7. \A uh \in Threads \ {th} : InHand(uh) => waiter[uh] # w
    BY <1>1, <2>3 DEF OneTask, w
  <2>8. \A n \in Carriers : mem[n].task # w
    BY <1>1, <2>3 DEF OneTask, w
  <2> QED
    BY <1>1, <2>1, <2>2, <2>3, <2>4, <2>5, <2>6, <2>7, <2>8 DEF OneTask, w
<1>4. ASSUME NEW th \in Threads, CreateNode(th) PROVE OneTask'
  <2> DEFINE n == node'[th]
             w == waiter[th]
  <2>1. /\ pc[th] = "create" /\ pc'[th] = "swap"
        /\ \A uh \in Threads \ {th} : waiter'[uh] = waiter[uh] /\ pc'[uh] = pc[uh]
        /\ UNCHANGED <<added, released>>
    BY <1>1, <1>4 DEF CreateNode, TypeOK
  <2>2. /\ Carriers' = Carriers \cup {n} /\ n \notin Carriers
        /\ mem'[n].task = w
        /\ \A a \in Carriers : mem'[a].task = mem[a].task
    BY <1>1, <1>4, CreateShape DEF Carriers
  <2>3. InHand(th) /\ ~InHand(th)' /\ \A uh \in Threads \ {th} : InHand(uh)' <=> InHand(uh)
    BY <2>1 DEF InHand
  <2> HIDE DEF n, w
  <2>4. /\ w \in added /\ released[w] = 0
        /\ \A uh \in Threads \ {th} : InHand(uh) => waiter[uh] # w
        /\ \A a \in Carriers : mem[a].task # w
    BY <1>1, <2>3 DEF OneTask, w
  <2>5. ASSUME NEW v \in Waiters
        PROVE  \/ v \notin added' /\ released'[v] = 0
               \/ v \in added' /\ released'[v] = 1
               \/ v \in added' /\ \E uh \in Threads : InHand(uh)' /\ waiter'[uh] = v
               \/ v \in added' /\ \E a \in Carriers' : mem'[a].task = v
    <3>1. CASE v = w
      BY <2>1, <2>2, <2>4, <3>1
    <3>2. CASE v # w
      BY <1>1, <2>1, <2>2, <2>3, <3>2 DEF OneTask, w
    <3> QED
      BY <3>1, <3>2
  <2> QED
    BY <1>1, <2>1, <2>2, <2>3, <2>4, <2>5 DEF OneTask
<1>5. ASSUME NEW th \in Threads, Release(th) PROVE OneTask'
  <2> DEFINE n == node[th]
             w == mem[n].task
  <2>1. /\ pc[th] = "release" /\ pc'[th] = "free"
        /\ \A uh \in Threads \ {th} : pc'[uh] = pc[uh]
        /\ UNCHANGED <<added, waiter, mem>>
        /\ released' = [released EXCEPT ![w] = @ + 1]
    BY <1>1, <1>5 DEF Release, LetGo, TypeOK
  <2>2. n \in Carriers /\ w \in Waiters /\ Carriers' = Carriers \ {n}
    BY <1>5, <2>1, Carried, ReleaseShape
  <2>3. \A uh \in Threads : InHand(uh)' <=> InHand(uh)
    BY <2>1 DEF InHand
  <2>4. /\ w \in added /\ released[w] = 0
        /\ \A uh \in Threads : InHand(uh) => waiter[uh] # w
        /\ \A a \in Carriers \ {n} : mem[a].task # w
    BY <1>1, <2>2 DEF OneTask
  <2>5. released'[w] = 1 /\ \A v \in Waiters \ {w} : released'[v] = released[v]
    BY <1>1, <2>1, <2>2, <2>4 DEF TypeOK
  <2>6. added \subseteq Waiters
    BY <1>1 DEF TypeOK
  <2>7. ASSUME NEW v \in Waiters
        PROVE  \/ v \notin added' /\ released'[v] = 0
               \/ v \in added' /\ released'[v] = 1
               \/ v \in added' /\ \E uh \in Threads : InHand(uh)' /\ waiter'[uh] = v
               \/ v \in added' /\ \E a \in Carriers' : mem'[a].task = v
    <3>1. CASE v = w
      BY <2>1, <2>4, <2>5, <3>1
    <3>2. CASE v # w
      BY <1>1, <2>1, <2>2, <2>3, <2>5, <3>2 DEF OneTask
    <3> QED
      BY <3>1, <3>2
  <2> HIDE DEF n, w
  <2> QED
    BY <1>1, <2>1, <2>2, <2>3, <2>4, <2>5, <2>6, <2>7 DEF OneTask
<1>6. ASSUME NEW th \in Threads, SwapHead(th) \/ Link(th) \/ TakeAll(th) \/ Follow(th) \/ Free(th)
      PROVE  OneTask'
  <2>1. /\ Carriers' = Carriers
        /\ \A n \in Carriers : mem'[n].task = mem[n].task
    <3>1. CASE SwapHead(th)
      BY <3>1, SwapShape DEF SwapHead
    <3>2. CASE Link(th)
      BY <1>1, <3>2, LinkShape
    <3>3. CASE TakeAll(th)
      BY <3>3, TakeShape DEF TakeAll
    <3>4. CASE Follow(th)
      BY <3>4, FollowShape DEF Follow
    <3>5. CASE Free(th)
      BY <3>5, FreeShape
    <3> QED
      BY <1>6, <3>1, <3>2, <3>3, <3>4, <3>5
  <2>2. /\ UNCHANGED <<added, released, waiter>>
        /\ \A uh \in Threads : InHand(uh)' <=> InHand(uh)
    BY <1>1, <1>6 DEF SwapHead, Link, TakeAll, Follow, Free, InHand, TypeOK
  <2> QED
    BY <2>1, <2>2, SameTasks
<1>7. ASSUME NEW th \in Threads, (\E exception \in BOOLEAN : DoneWaiting(th, exception))
                                    \/ Recheck(th) \/ StopWaiting(th)
      PROVE  OneTask'
  <2>1. /\ pc[th] \in {"idle", "recheck", "stop"} /\ pc'[th] \in {"stop", "idle", "take"}
        /\ \A uh \in Threads \ {th} : pc'[uh] = pc[uh]
        /\ UNCHANGED <<m_head, m_nodeCache, m_nodeCacheSize, m_lastAssignedCacheIndex,
                       mem, brk, node, other, list, batch, added, released, waiter>>
    BY <1>1, <1>7 DEF DoneWaiting, Recheck, StopWaiting, TypeOK
  <2>2. Carriers' = Carriers
    BY <2>1, CalmShape DEF Working
  <2>3. \A uh \in Threads : InHand(uh)' <=> InHand(uh)
    BY <2>1 DEF InHand
  <2> QED
    BY <2>1, <2>2, <2>3, SameTasks
<1>8. CASE QuietReset
  <2>1. /\ \A th \in Threads : pc'[th] = "idle"
        /\ added' = {} /\ released' = [w \in Waiters |-> 0]
    BY <1>8 DEF QuietReset, Reset
  <2>2. Carriers' = {}
    BY <1>8, ResetShape
  <2> QED
    BY <2>1, <2>2 DEF OneTask, InHand
<1>9. CASE UNCHANGED vars
  <2>1. Carriers' = Carriers
    BY <1>9, CalmShape DEF vars
  <2> QED
    BY <1>9, <2>1, SameTasks DEF vars, InHand
<1> QED
  BY <1>2, <1>3, <1>4, <1>5, <1>6, <1>7, <1>8, <1>9 DEF Next, Calls, Step

-----------------------------------------------------------------------------
(* The theorems. *)

\* Every step preserves the shape of the list.
LEMMA ShapeStep ==
    ASSUME IndInv, [Next]_vars, TypeOK'
    PROVE  Shape'
<1> USE DEF At, Goto, shared, memory, local, client, result, ghost
<1>1. TypeOK
  BY DEF IndInv
<1>2. ASSUME NEW th \in Threads,
             \/ \E w \in Waiters : Add(th, w)
             \/ \E exception \in BOOLEAN : DoneWaiting(th, exception)
             \/ ReleaseLate(th) \/ Recheck(th) \/ StopWaiting(th)
      PROVE  Shape'
  <2>1. /\ pc[th] \in {"idle", "late", "recheck", "stop"}
        /\ pc'[th] \in {"create", "late", "stop", "idle", "take"}
        /\ \A uh \in Threads \ {th} : pc'[uh] = pc[uh]
        /\ UNCHANGED <<m_head, m_nodeCache, m_nodeCacheSize, m_lastAssignedCacheIndex,
                       mem, brk, node, other, list, batch>>
    BY <1>1, <1>2 DEF Add, DoneWaiting, ReleaseLate, Recheck, StopWaiting, TypeOK
  <2> QED
    BY <2>1, CalmShape DEF Working
<1>3. CASE UNCHANGED vars
  BY <1>3, CalmShape DEF vars
<1> QED
  BY <1>2, <1>3, CreateShape, SwapShape, LinkShape, TakeShape, FollowShape, ReleaseShape,
     FreeShape, ResetShape DEF Next, Calls, Step

\* The shape of the list, the order of the calls and the places of the waiters
\* hold throughout, for any numbers of threads, waiters and cached nodes.
THEOREM Invariance == Spec => []IndInv
<1>1. IndInv /\ [Next]_vars => IndInv'
  BY TypesStep, ShapeStep, OrderStep, TasksStep DEF IndInv
<1> QED
  BY InitInv, <1>1, PTL DEF Spec

\* Every variable of the list keeps its type.
THEOREM TypeCorrect == Spec => []TypeOK
<1>1. IndInv => TypeOK
  BY DEF IndInv
<1> QED
  BY Invariance, <1>1, PTL

\* No thread in add() or announce() reads or writes a node that another
\* announce(), or reset(), has deleted.
THEOREM NoneDangles == Spec => []NoDanglingNode
<1>1. IndInv => NoDanglingNode
  BY Works DEF NoDanglingNode
<1> QED
  BY Invariance, <1>1, PTL

\* When nobody is inside after doneWaiting(), the list is empty, which reset()
\* asserts, and no node but those of the cache has been left allocated.
THEOREM NoneLeft == Spec => []NothingLeftOver
<1>1. IndInv => NothingLeftOver
  BY Quiet DEF NothingLeftOver, At, Cache
<1> QED
  BY Invariance, <1>1, PTL

-----------------------------------------------------------------------------
(* The list keeps what OneShotSignal promises. *)

\* Every step is one of OneShotSignal's, or stutters.
LEMMA StepOfSignal ==
    ASSUME IndInv, [Next]_vars
    PROVE  [Signal!Next]_(Signal!vars)
<1> USE DEF Signal!vars, Signal!Next, shared, memory, local, client, result, ghost
<1>1. TypeOK /\ InOrder /\ OneTask
  BY DEF IndInv
<1>2. ASSUME NEW th \in Threads, NEW w \in Waiters, Add(th, w)
      PROVE  [Signal!Next]_(Signal!vars)
  <2>1. Signal!Add(w)
    BY <1>2 DEF Add, Signal!Add
  <2> QED
    BY <2>1
<1>3. ASSUME NEW th \in Threads, NEW exception \in BOOLEAN, DoneWaiting(th, exception)
      PROVE  [Signal!Next]_(Signal!vars)
  <2>1. m_waiting
    BY <1>1, <1>3 DEF DoneWaiting, InOrder
  <2> QED
    BY <1>3, <2>1 DEF DoneWaiting
<1>4. ASSUME NEW th \in Threads, StopWaiting(th)
      PROVE  [Signal!Next]_(Signal!vars)
  <2>1. m_waiting
    BY <1>1, <1>4 DEF StopWaiting, InOrder, At
  <2>2. m_exceptionPtr \in BOOLEAN
    BY <1>1 DEF TypeOK
  <2>3. Signal!Finish(m_exceptionPtr)
    <3>1. m_waiting' = FALSE /\ UNCHANGED <<m_exceptionPtr, added, released, told>>
      BY <1>4 DEF StopWaiting
    <3>2. (~m_waiting /\ m_exceptionPtr)' = m_exceptionPtr
      <4>1. CASE m_exceptionPtr = TRUE
        BY <3>1, <4>1
      <4>2. CASE m_exceptionPtr = FALSE
        BY <3>1, <4>2
      <4> QED
        BY <2>2, <4>1, <4>2
    <3> QED
      BY <2>1, <3>1, <3>2 DEF Signal!Finish
  <2> QED
    BY <2>2, <2>3, Zenon
<1>5. ASSUME NEW w \in Waiters, LetGo(w), w \in added, released[w] = 0, ~m_waiting,
             UNCHANGED <<m_waiting, m_exceptionPtr, added>>
      PROVE  [Signal!Next]_(Signal!vars)
  <2>1. Signal!Release(w)
    BY <1>5 DEF LetGo, Signal!Release
  <2> QED
    BY <2>1
<1>6. ASSUME NEW th \in Threads, ReleaseLate(th)
      PROVE  [Signal!Next]_(Signal!vars)
  <2>1. ~m_waiting /\ waiter[th] \in added /\ waiter[th] \in Waiters /\ released[waiter[th]] = 0
    BY <1>1, <1>6 DEF ReleaseLate, At, InOrder, OneTask, InHand, TypeOK
  <2> QED
    BY <1>5, <1>6, <2>1 DEF ReleaseLate
<1>7. ASSUME NEW th \in Threads, Release(th)
      PROVE  [Signal!Next]_(Signal!vars)
  <2>1. pc[th] = "release"
    BY <1>7 DEF Release, At
  <2>2. ~m_waiting
    BY <1>1, <2>1 DEF InOrder
  <2>3. mem[node[th]].task \in added /\ mem[node[th]].task \in Waiters
        /\ released[mem[node[th]].task] = 0
    BY <1>1, <2>1, Carried DEF OneTask
  <2> QED
    BY <1>5, <1>7, <2>2, <2>3 DEF Release
<1>8. ASSUME NEW th \in Threads, \/ CreateNode(th) \/ SwapHead(th) \/ Link(th) \/ Recheck(th)
                                 \/ TakeAll(th) \/ Follow(th) \/ Free(th)
      PROVE  [Signal!Next]_(Signal!vars)
  BY <1>8 DEF CreateNode, SwapHead, Link, Recheck, TakeAll, Follow, Free
<1>9. CASE QuietReset
  <2>1. /\ ~m_waiting /\ \A th \in Threads : pc[th] = "idle"
    BY <1>9 DEF QuietReset, At
  <2>2. \A w \in added : released[w] = 1
    BY <1>1, <2>1, Quiet DEF OneTask, InHand, TypeOK
  <2>3. Signal!Reset
    BY <1>9, <2>1, <2>2 DEF QuietReset, Reset, Signal!Reset
  <2> QED
    BY <2>3
<1>10. CASE UNCHANGED vars
  BY <1>10 DEF vars
<1> QED
  BY <1>2, <1>3, <1>4, <1>6, <1>7, <1>8, <1>9, <1>10 DEF Next, Calls, Step

\* Every waiter is released at most once, after doneWaiting() and never before,
\* and told of the exception if there was one: WaitingTaskList implements
\* OneShotSignal.
THEOREM Refinement == Spec => SignalSpec
<1>1. Init => Signal!Init
  BY DEF Init, Signal!Init
<1>2. IndInv /\ [Next]_vars => [Signal!Next]_(Signal!vars)
  BY StepOfSignal
<1> QED
  BY Invariance, <1>1, <1>2, PTL DEF Spec, SignalSpec, Signal!Spec

=============================================================================
