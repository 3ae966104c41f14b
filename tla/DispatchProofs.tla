-------------------------- MODULE DispatchProofs --------------------------
(***************************************************************************)
(* Theorems about the framework on libdispatch, for any configuration that *)
(* DispatchAssumption allows and any number of streams.  EventInv is the   *)
(* inductive invariant.  QuietBetweenEvents follows from it: when an event *)
(* is over and nothing is owed to its groups, no block can be left.  With  *)
(* QueueInv, which says who may suspend and resume which queue, it is      *)
(* inductive again, and OneAtATime follows: a module that is not thread    *)
(* safe is never run while another one is, nor a module of one type twice. *)
(***************************************************************************)
EXTENDS DispatchSteps

-----------------------------------------------------------------------------
(* Each step of a block. *)

\* Main is where it was, and all is in order again.
Kept == UNCHANGED <<phase, setup>> /\ m_seenEvents' \in Nat /\ Orderly(gcd)'

\* That is so if it is in order with what is not read from variables.
LEMMA KeptIs ==
  ASSUME UNCHANGED <<phase, setup>>, m_seenEvents' \in Nat, NEW e, e = gcd', Orderly(e)
  PROVE  Kept
  <1>1. UNCHANGED Lasting /\ UNCHANGED <<phase, m_schedules>>
    BY DEF Lasting, setup
  <1>2. Orderly(gcd)'
    BY <1>1, NextOrderlyToo
  <1> QED
    BY <1>2 DEF Kept

\* The same when nothing but libdispatch changes.
LEMMA KeptByGcd ==
  ASSUME EventInv, UNCHANGED unchangedByGcd, NEW e, e = gcd', Orderly(e)
  PROVE  Kept
  <1>1. UNCHANGED <<phase, setup>> /\ m_seenEvents' \in Nat
    BY DEF unchangedByGcd, source, EventInv, Numbers
  <1> QED
    BY <1>1, KeptIs

\* A running block in order.
LEMMA RunsInOrder ==
  ASSUME EventInv, NEW b \in Running, NEW d, d = gcd
  PROVE  /\ Modules /\ Orderly(d) /\ b \in Runs(d)
         /\ IsGcd(d) /\ Blocks(d) /\ Fits(Call(b), Range(Later(b)))
  <1>1. Modules /\ Orderly(d) /\ b \in Runs(d)
    BY DEF EventInv, Runs, Running
  <1>2. IsGcd(d) /\ Blocks(d)
    BY <1>1 DEF Orderly, InOrder
  <1> QED
    BY <1>1, <1>2, HeadFits

\* The module of a wrapper has been made.
LEMMA WorksModule ==
  ASSUME Modules, NEW v, Works(v)
  PROVE  v[2][1] \in DOMAIN module /\ IsModule(module[v[2][1]], v[2][1])
  <1>1. v[2][1] \in DOMAIN module
    <2>1. CASE IsProducer(v)
      BY <2>1, PairIs DEF IsProducer, Modules
    <2>2. CASE IsFilter(v)
      <3>1. v[2] \in {<<l, "">> : l \in {x \in DOMAIN module : module[x].base = "filter"}}
        BY <2>2, PairIs DEF IsFilter
      <3>2. PICK l \in DOMAIN module : v[2] = <<l, "">>
        BY <3>1
      <3>k. PICK k : k = <<l, "">>
        OBVIOUS
      <3>3. k[1] = l
        BY <3>k
      <3> QED
        BY <3>2, <3>k, <3>3
    <2> QED
      BY <2>1, <2>2 DEF Works
  <1> QED
    BY <1>1 DEF Modules

\* Groups are left, blocks submitted, queues resumed, groups waited for.
LEMMA LibdispatchSteps ==
  ASSUME EventInv, NEW b \in Running, Leave(b) \/ Submit(b) \/ Resume(b) \/ Wait(b)
  PROVE  Kept
  <1>d. PICK d : d = gcd
    OBVIOUS
  <1>e. PICK e : e = gcd'
    OBVIOUS
  <1>1. /\ Modules /\ Orderly(d) /\ b \in Runs(d)
        /\ IsGcd(d) /\ Blocks(d) /\ Fits(Call(b), Range(Later(b)))
    BY <1>d, RunsInOrder
  <1>2. CASE Leave(b)
    <2>1. /\ Call(b).call = "leave" /\ UNCHANGED unchangedByGcd
          /\ e = GoOn(dispatch_group_leave(d, Call(b).group), b, ToSubmit(d, Call(b).group) \o Later(b))
      BY <1>2, <1>d, <1>e DEF Leave, Does
    <2>2. Orderly(e)
      BY <2>1, <1>1, LeaveOrderly
    <2> QED
      BY <2>1, <2>2, <1>e, KeptByGcd
  <1>3. CASE Submit(b)
    <2>1. /\ Call(b).call = "submit" /\ UNCHANGED unchangedByGcd
          /\ e = GoOn(dispatch_async(d, Call(b).queue, Call(b).block), b, Later(b))
      BY <1>3, <1>d, <1>e DEF Submit, Does
    <2>2. Orderly(e)
      BY <2>1, <1>1, SubmitOrderly
    <2> QED
      BY <2>1, <2>2, <1>e, KeptByGcd
  <1>4. CASE Resume(b)
    <2>q. PICK q : q = Call(b).queue
      OBVIOUS
    <2>w. PICK w : w = dispatch_resume(d, q)
      OBVIOUS
    <2>1. /\ Call(b).call = "resume" /\ UNCHANGED unchangedByGcd
          /\ e = GoOn(w, b, Later(b))
      BY <1>4, <1>d, <1>e, <2>q, <2>w DEF Resume, Does
    <2>2. q # Global
      <3>1. q = s_non_thread_safe_queue \/ \E y, z : q = <<"run", y, z>>
        BY <2>1, <2>q, <1>1 DEF Fits
      <3> QED
        BY <3>1 DEF Global, s_non_thread_safe_queue
    <2>3. SameGroups(d, w)
      BY <2>2, <2>w, <1>1, SuspendIs
    <2>4. Call(b).call \in OweNothing
      BY <2>1 DEF OweNothing
    <2>5. Orderly(e)
      BY <2>1, <2>3, <2>4, <1>1, GoesOn
    <2> QED
      BY <2>1, <2>5, <1>e, KeptByGcd
  <1>5. CASE Wait(b)
    <2>1. /\ Call(b).call = "wait" /\ UNCHANGED unchangedByGcd
          /\ Entered(d, Call(b).group) = 0 /\ e = GoOn(d, b, Later(b))
      BY <1>5, <1>d, <1>e DEF Wait, Does
    <2>2. Orderly(e)
      BY <2>1, <1>1, WaitOrderly
    <2> QED
      BY <2>1, <2>2, <1>e, KeptByGcd
  <1> QED
    BY <1>2, <1>3, <1>4, <1>5

\* Events are begun, and paths.
LEMMA EventLoopSteps ==
  ASSUME EventInv, NEW b \in Running,
         ResetEvent(b) \/ SetEventInfo(b) \/ StartPaths(b) \/ ScheduleDone(b)
  PROVE  Kept
  <1>d. PICK d : d = gcd
    OBVIOUS
  <1>e. PICK e : e = gcd'
    OBVIOUS
  <1>1. /\ Modules /\ Orderly(d) /\ b \in Runs(d)
        /\ IsGcd(d) /\ Blocks(d) /\ Fits(Call(b), Range(Later(b)))
    BY <1>d, RunsInOrder
  <1>2. CASE ResetEvent(b)
    <2>k. PICK k : k = m_seenEvents + 1
      OBVIOUS
    <2>1. /\ Call(b).call = "event" /\ UNCHANGED <<phase, setup>> /\ m_seenEvents' \in Nat /\ k \in Nat
          /\ e = GoOn(d, b, <<count(Call(b).stream, k)>> \o Later(b))
      BY <1>2, <1>d, <1>e, <2>k DEF ResetEvent, Does, source, EventInv, Numbers
    <2>2. Orderly(e)
      BY <2>1, <1>1, ResetOrderly
    <2> QED
      BY <2>1, <2>2, <1>e, KeptIs
  <1>3. CASE SetEventInfo(b)
    <2>1. Call(b).call = "count" /\ UNCHANGED <<phase, setup>>
      BY <1>3 DEF SetEventInfo, Does
    <2>2. m_seenEvents' \in Nat
      <3>1. m_seenEvents' = Call(b).seen
        BY <1>3 DEF SetEventInfo
      <3> QED
        BY <3>1, <2>1, <1>1 DEF Fits
    <2>3. Orderly(e)
      <3>1. CASE pConfig.iterations >= Call(b).seen
        <4>c. PICK c : c = IF m_paths = <<>> THEN scheduleDone(Call(b).stream)
                           ELSE startPaths(Call(b).stream, 1)
          OBVIOUS
        <4>1. e = GoOn(dispatch_group_enter(d, m_eventLoopGroup), b, <<c>> \o Later(b))
          BY <3>1, <1>3, <1>d, <1>e, <4>c DEF SetEventInfo
        <4>2. c \in {scheduleDone(Call(b).stream), startPaths(Call(b).stream, 1)}
          BY <4>c
        <4> QED
          BY <4>1, <4>2, <2>1, <1>1, TakeOrderly
      <3>2. CASE ~(pConfig.iterations >= Call(b).seen)
        <4>1. e = GoOn(d, b, Later(b))
          BY <3>2, <1>3, <1>d, <1>e DEF SetEventInfo
        <4>2. SameGroups(d, d)
          BY <1>1, SameGroupsIs
        <4> QED
          BY <4>1, <4>2, <2>1, <1>1, GoesOn
      <3> QED
        BY <3>1, <3>2
    <2> QED
      BY <2>1, <2>2, <2>3, <1>e, KeptIs
  <1>4. CASE StartPaths(b)
    <2>s. PICK s : s = Call(b).stream
      OBVIOUS
    <2>p. PICK p : p = Call(b).path
      OBVIOUS
    <2>1. Call(b).call = "startPaths" /\ UNCHANGED unchangedByGcd
      BY <1>4 DEF StartPaths, Does
    <2>2. p \in Nat \ {0} /\ DOMAIN m_paths = 1 .. Len(m_paths)
      BY <2>1, <2>p, <1>1 DEF Fits, Modules
    <2>3. CASE p <= Len(m_paths)
      <3>1. e = GoOn(dispatch_group_async(d, m_allPathsDoneGroup(Call(b).stream), Global,
                                          <<path(Call(b).stream, Call(b).path)>>), b,
                     <<startPaths(Call(b).stream, Call(b).path + 1)>> \o Later(b))
        BY <2>3, <2>p, <1>4, <1>d, <1>e DEF StartPaths
      <3>2. Call(b).path \in DOMAIN m_paths
        BY <2>2, <2>3, <2>p
      <3>3. Orderly(e)
        BY <3>1, <3>2, <2>1, <1>1, StartPathOrderly
      <3> QED
        BY <3>3, <2>1, <1>e, KeptByGcd
    <2>4. CASE ~(p <= Len(m_paths))
      <3>1. e = GoOn(dispatch_group_notify(d, m_allPathsDoneGroup(Call(b).stream), Global,
                                           <<scheduleDone(Call(b).stream)>>), b, Later(b))
        BY <2>4, <2>p, <1>4, <1>d, <1>e DEF StartPaths
      <3>2. Orderly(e)
        BY <3>1, <2>1, <1>1, LastPathOrderly
      <3> QED
        BY <3>2, <2>1, <1>e, KeptByGcd
    <2> QED
      BY <2>3, <2>4
  <1>5. CASE ScheduleDone(b)
    <2>1. /\ Call(b).call = "scheduleDone" /\ UNCHANGED unchangedByGcd
          /\ e = GoOn(AnotherEvent(d, Call(b).stream), b, <<leave(m_eventLoopGroup)>> \o Later(b))
      BY <1>5, <1>d, <1>e DEF ScheduleDone, Does
    <2>2. Orderly(e)
      BY <2>1, <1>1, ScheduleDoneOrderly
    <2> QED
      BY <2>1, <2>2, <1>e, KeptByGcd
  <1> QED
    BY <1>2, <1>3, <1>4, <1>5

\* Paths go on.
LEMMA PathSteps ==
  ASSUME EventInv, NEW b \in Running, RunPath(b) \/ doNextIfSuccess(b)
  PROVE  Kept
  <1>d. PICK d : d = gcd
    OBVIOUS
  <1>e. PICK e : e = gcd'
    OBVIOUS
  <1>1. /\ Modules /\ Orderly(d) /\ b \in Runs(d)
        /\ IsGcd(d) /\ Blocks(d) /\ Fits(Call(b), Range(Later(b)))
    BY <1>d, RunsInOrder
  <1>m. m_paths \in Seq(Seq(STRING)) /\ DOMAIN m_paths = 1 .. Len(m_paths)
    BY <1>1 DEF Modules
  <1>2. CASE RunPath(b)
    <2>s. PICK s : s = Call(b).stream
      OBVIOUS
    <2>p. PICK p : p = Call(b).path
      OBVIOUS
    <2>c. PICK c : c = IF m_paths[p] = <<>> THEN leave(m_allPathsDoneGroup(s))
                       ELSE runFilterAsync(s, p, 1)
      OBVIOUS
    <2>1. /\ Call(b).call = "path" /\ UNCHANGED unchangedByGcd
          /\ e = GoOn(dispatch_group_enter(d, m_allPathsDoneGroup(Call(b).stream)), b, <<c>> \o Later(b))
      BY <1>2, <1>d, <1>e, <2>s, <2>p, <2>c DEF RunPath, Does
    <2>2. \/ c = leave(m_allPathsDoneGroup(s))
          \/ \E i \in DOMAIN m_paths[p] : c = runFilterAsync(s, p, i)
      <3>1. p \in DOMAIN m_paths
        BY <2>1, <2>p, <1>1 DEF Fits
      <3>2. m_paths[p] \in Seq(STRING)
        BY <3>1, <1>m
      <3>3. m_paths[p] # <<>> => 1 \in DOMAIN m_paths[p]
        BY <3>2
      <3> QED
        BY <3>3, <2>c
    <2>3. \/ c = leave(m_allPathsDoneGroup(Call(b).stream))
          \/ \E i \in DOMAIN m_paths[Call(b).path] :
                c = runFilterAsync(Call(b).stream, Call(b).path, i)
      BY <2>2, <2>s, <2>p
    <2>4. Orderly(e)
      BY <2>1, <2>3, <1>1, RunPathOrderly
    <2> QED
      BY <2>1, <2>4, <1>e, KeptByGcd
  <1>3. CASE doNextIfSuccess(b)
    <2>v. PICK v : v = Call(b).wrapper
      OBVIOUS
    <2>p. PICK p : p = Call(b).at[1]
      OBVIOUS
    <2>i. PICK i : i = Call(b).at[2]
      OBVIOUS
    <2>c. PICK c : c = IF v \in m_keep /\ i + 1 <= Len(m_paths[p])
                         THEN runFilterAsync(v[1], p, i + 1)
                         ELSE leave(m_allPathsDoneGroup(v[1]))
      OBVIOUS
    <2>1. /\ Call(b).call = "next" /\ UNCHANGED unchangedByGcd
          /\ e = GoOn(d, b, <<c>> \o Later(b))
      BY <1>3, <1>d, <1>e, <2>v, <2>p, <2>i, <2>c DEF doNextIfSuccess, Does
    <2>2. p \in DOMAIN m_paths /\ i \in DOMAIN m_paths[p]
      <3>1. IsJob(Call(b)) /\ Call(b).at # <<>>
        BY <2>1, <1>1 DEF Fits, JobCalls
      <3>2. IsFilterAt(Call(b).wrapper, Call(b).at)
        BY <3>1, <1>1, JobIs
      <3> QED
        BY <3>2, <1>1, <2>p, <2>i, FilterWorks
    <2>3. \/ c = leave(m_allPathsDoneGroup(v[1]))
          \/ \E k \in DOMAIN m_paths[p] : c = runFilterAsync(v[1], p, k)
      <3>1. m_paths[p] \in Seq(STRING)
        BY <2>2, <1>m
      <3>2. i + 1 <= Len(m_paths[p]) => i + 1 \in DOMAIN m_paths[p]
        BY <3>1, <2>2
      <3> QED
        BY <3>2, <2>c
    <2>4. \/ c = leave(m_allPathsDoneGroup(Call(b).wrapper[1]))
          \/ \E k \in DOMAIN m_paths[Call(b).at[1]] :
                c = runFilterAsync(Call(b).wrapper[1], Call(b).at[1], k)
      BY <2>3, <2>v, <2>p
    <2>5. Orderly(e)
      BY <2>1, <2>4, <1>1, NextFilterOrderly
    <2> QED
      BY <2>1, <2>5, <1>e, KeptByGcd
  <1> QED
    BY <1>2, <1>3

\* The program ends, because there is no such datum.
Exits == phase' = "exit" /\ UNCHANGED <<setup, gcd, m_seenEvents>>

\* Data is asked for and waited for.
LEMMA RequestSteps ==
  ASSUME EventInv, NEW b \in Running,
         PrefetchAsync(b) \/ GetAsync(b) \/ GetMissing(b) \/ AwaitProducer(b) \/ NotifyPrefetched(b)
  PROVE  Kept \/ Exits
  <1>d. PICK d : d = gcd
    OBVIOUS
  <1>e. PICK e : e = gcd'
    OBVIOUS
  <1>1. /\ Modules /\ Orderly(d) /\ b \in Runs(d)
        /\ IsGcd(d) /\ Blocks(d) /\ Fits(Call(b), Range(Later(b)))
    BY <1>d, RunsInOrder
  <1>2. CASE PrefetchAsync(b)
    <2>k. PICK keys : keys = IF Call(b).wrapper \in m_requestedPrefetch THEN <<>>
                             ELSE module[Call(b).wrapper[2][1]].m_getters
      OBVIOUS
    <2>1. Call(b).call = "prefetch" /\ UNCHANGED <<phase, setup>> /\ m_seenEvents' \in Nat
      BY <1>2 DEF PrefetchAsync, Does, source, EventInv, Numbers
    <2>2. e = GoOn(dispatch_group_enter(d, prefetchGroup(Call(b).wrapper)), b,
                   <<GetAll(Call(b).wrapper, keys),
                     Job("notifyPrefetched", Call(b).wrapper, Call(b).at)>> \o Later(b))
      BY <1>2, <1>d, <1>e, <2>k DEF PrefetchAsync
    <2>3. IsSeq(keys)
      <3>1. Call(b).call \in JobCalls
        BY <2>1 DEF JobCalls
      <3>2. IsJob(Call(b))
        BY <3>1, <1>1 DEF Fits
      <3>3. Works(Call(b).wrapper)
        BY <3>2, <1>1, JobIs
      <3>4. IsSeq(module[Call(b).wrapper[2][1]].m_getters)
        BY <3>3, <1>1, WorksModule DEF IsModule
      <3>5. IsSeq(<<>>)
        BY KeysAre, <3>4
      <3> QED
        BY <2>k, <3>4, <3>5
    <2>4. Orderly(e)
      BY <2>1, <2>2, <2>3, <1>1, PrefetchOrderly
    <2> QED
      BY <2>1, <2>4, <1>e, KeptIs
  <1>3. CASE GetAsync(b)
    <2>n. PICK n : n = <<Call(b).wrapper[1], Head(Call(b).keys)>>
      OBVIOUS
    <2>1. Call(b).call = "getAll" /\ UNCHANGED setup /\ m_seenEvents' = m_seenEvents
      BY <1>3 DEF GetAsync, Does, source
    <2>2. CASE n[2] \notin m_lookupMap
      BY <2>2, <2>n, <2>1, <1>3 DEF GetAsync, Exits
    <2>3. CASE n[2] \in m_lookupMap
      <3>m. PICK m : m = IF n \in m_wasCached THEN <<>> ELSE <<getMissing(Call(b).wrapper, n)>>
        OBVIOUS
      <3>1. /\ UNCHANGED phase
            /\ e = GoOn(d, b, m \o <<GetAll(Call(b).wrapper, Tail(Call(b).keys))>> \o Later(b))
        BY <2>3, <2>n, <3>m, <1>3, <1>d, <1>e DEF GetAsync
      <3>2. n[1] = Call(b).wrapper[1] /\ IsProducer(n)
        <4>1. Works(Call(b).wrapper)
          BY <2>1, <1>1 DEF Fits, JobCalls
        <4>2. Call(b).wrapper[1] \in Streams
          BY <4>1, StreamOfWorks
        <4> QED
          BY <4>2, <2>n, <2>3 DEF IsProducer
      <3>3. m \in {<<>>, <<getMissing(Call(b).wrapper, n)>>}
        BY <3>m
      <3>4. Orderly(e)
        BY <3>1, <3>2, <3>3, <2>1, <1>1, GetAsyncOrderly
      <3>5. m_seenEvents' \in Nat
        BY <2>1 DEF EventInv, Numbers
      <3> QED
        BY <3>1, <3>4, <3>5, <2>1, <1>e, KeptIs
    <2> QED
      BY <2>2, <2>3
  <1>4. CASE GetMissing(b)
    <2>1. /\ Call(b).call = "getMissing" /\ UNCHANGED unchangedByGcd
          /\ e = GoOn(dispatch_group_enter(doProduceAsync(d, Call(b).producer),
                                           prefetchGroup(Call(b).wrapper)), b,
                      <<awaitProducer(Call(b).wrapper, Call(b).producer)>> \o Later(b))
      BY <1>4, <1>d, <1>e DEF GetMissing, Does
    <2>2. Orderly(e)
      BY <2>1, <1>1, GetMissingOrderly
    <2> QED
      BY <2>1, <2>2, <1>e, KeptByGcd
  <1>5. CASE AwaitProducer(b)
    <2>1. /\ Call(b).call = "awaitProducer" /\ UNCHANGED unchangedByGcd
          /\ e = GoOn(dispatch_group_notify(d, m_group(Call(b).producer), Global,
                                            <<leave(prefetchGroup(Call(b).wrapper))>>), b, Later(b))
      BY <1>5, <1>d, <1>e DEF AwaitProducer, Does
    <2>2. Orderly(e)
      BY <2>1, <1>1, AwaitOrderly
    <2> QED
      BY <2>1, <2>2, <1>e, KeptByGcd
  <1>6. CASE NotifyPrefetched(b)
    <2>t. PICK task : task = IF ThreadType(Call(b).wrapper) # "kThreadUnsafe" THEN "work" ELSE "suspendOwn"
      OBVIOUS
    <2>q. PICK q : q = runQueue(Call(b).wrapper)
      OBVIOUS
    <2>1. /\ Call(b).call = "notifyPrefetched" /\ UNCHANGED unchangedByGcd
          /\ e = GoOn(dispatch_group_notify(d, prefetchGroup(Call(b).wrapper), q,
                                            <<Job(task, Call(b).wrapper, Call(b).at)>>), b, Later(b))
      BY <1>6, <1>d, <1>e, <2>t, <2>q DEF NotifyPrefetched, Does
    <2>2. task \in {"work", "suspendOwn"}
      BY <2>t
    <2>3. Orderly(e)
      BY <2>1, <2>2, <1>1, NotifyOrderly
    <2> QED
      BY <2>1, <2>3, <1>e, KeptByGcd
  <1> QED
    BY <1>2, <1>3, <1>4, <1>5, <1>6

\* Queues are suspended, and the blocks of producers and of others begin.
LEMMA QueueSteps ==
  ASSUME EventInv, NEW b \in Running,
         \/ SuspendRunQueue(b) \/ SuspendThreadUnsafeQueue(b) \/ doProduceAsyncImpl(b)
         \/ Sync(b) \/ SuspendAgain(b)
  PROVE  Kept
  <1>d. PICK d : d = gcd
    OBVIOUS
  <1>e. PICK e : e = gcd'
    OBVIOUS
  <1>1. /\ Modules /\ Orderly(d) /\ b \in Runs(d)
        /\ IsGcd(d) /\ Blocks(d) /\ Fits(Call(b), Range(Later(b)))
    BY <1>d, RunsInOrder
  <1>q. PICK q : q = runQueue(Call(b).wrapper)
    OBVIOUS
  <1>r. (\E y, z : q = <<"run", y, z>>) /\ q # Global
    BY <1>q DEF runQueue, Global
  <1>2. CASE SuspendRunQueue(b)
    <2>1. /\ Call(b).call = "suspendOwn" /\ UNCHANGED unchangedByGcd
          /\ e = GoOn(dispatch_async(dispatch_suspend(d, q), s_non_thread_safe_queue,
                                     <<Job("suspendUnsafe", Call(b).wrapper, Call(b).at)>>), b, Later(b))
      BY <1>2, <1>d, <1>e, <1>q DEF SuspendRunQueue, Does
    <2>2. Orderly(e)
      BY <2>1, <1>r, <1>1, SuspendOwnOrderly
    <2> QED
      BY <2>1, <2>2, <1>e, KeptByGcd
  <1>3. CASE SuspendThreadUnsafeQueue(b)
    <2>1. /\ Call(b).call = "suspendUnsafe" /\ UNCHANGED unchangedByGcd
          /\ e = GoOn(dispatch_async(dispatch_suspend(d, s_non_thread_safe_queue), Global,
                                     <<Job("work", Call(b).wrapper, Call(b).at),
                                       resume(s_non_thread_safe_queue), resume(q)>>), b, Later(b))
      BY <1>3, <1>d, <1>e, <1>q DEF SuspendThreadUnsafeQueue, Does
    <2>2. Orderly(e)
      BY <2>1, <1>r, <1>1, SuspendUnsafeOrderly
    <2> QED
      BY <2>1, <2>2, <1>e, KeptByGcd
  <1>4. CASE doProduceAsyncImpl(b)
    <2>1. Call(b).call = "produceImpl" /\ UNCHANGED unchangedByGcd
      BY <1>4 DEF doProduceAsyncImpl, Does
    <2>2. CASE Call(b).wrapper \in m_wasRun
      <3>1. e = GoOn(d, b, Later(b))
        BY <2>2, <1>4, <1>d, <1>e DEF doProduceAsyncImpl
      <3>2. SameGroups(d, d)
        BY <1>1, SameGroupsIs
      <3>3. Call(b).call \in OweNothing
        BY <2>1 DEF OweNothing
      <3>4. Orderly(e)
        BY <3>1, <3>2, <3>3, <1>1, GoesOn
      <3> QED
        BY <3>4, <2>1, <1>e, KeptByGcd
    <2>3. CASE Call(b).wrapper \notin m_wasRun
      <3>1. e = GoOn(dispatch_group_enter(d, m_group(Call(b).wrapper)), b,
                     <<Job("prefetch", Call(b).wrapper, <<>>)>> \o Later(b))
        BY <2>3, <1>4, <1>d, <1>e DEF doProduceAsyncImpl
      <3>2. Orderly(e)
        BY <3>1, <2>1, <1>1, ProduceOrderly
      <3> QED
        BY <3>2, <2>1, <1>e, KeptByGcd
    <2> QED
      BY <2>2, <2>3
  <1>5. CASE Sync(b)
    <2>1. /\ Call(b).call = "sync" /\ UNCHANGED unchangedByGcd
          /\ e = GoOn(dispatch_async(dispatch_group_enter(d, Lock(Call(b).wrapper)),
                                     s_non_thread_safe_queue, <<lock(Call(b).wrapper)>>), b,
                      <<wait(Lock(Call(b).wrapper))>> \o Later(b))
      BY <1>5, <1>d, <1>e DEF Sync, Does
    <2>2. Orderly(e)
      BY <2>1, <1>1, SyncOrderly
    <2> QED
      BY <2>1, <2>2, <1>e, KeptByGcd
  <1>6. CASE SuspendAgain(b)
    <2>z. PICK z : z = s_non_thread_safe_queue
      OBVIOUS
    <2>1. /\ Call(b).call = "lock" /\ UNCHANGED unchangedByGcd
          /\ e = GoOn(dispatch_group_leave(dispatch_suspend(d, z), Lock(Call(b).wrapper)), b, Later(b))
      BY <1>6, <1>d, <1>e, <2>z DEF SuspendAgain, Does
    <2>2. z # Global
      BY <2>z DEF Global, s_non_thread_safe_queue
    <2>3. Orderly(e)
      BY <2>1, <2>2, <1>1, SuspendAgainOrderly
    <2> QED
      BY <2>1, <2>3, <1>e, KeptByGcd
  <1> QED
    BY <1>2, <1>3, <1>4, <1>5, <1>6

\* Modules work.
LEMMA WorkSteps ==
  ASSUME EventInv, NEW b \in Running,
         \/ ReadNext(b) \/ GetAndWait(b)
         \/ BeginFilter(b) \/ EndFilter(b) \/ BeginProduce(b) \/ Put(b) \/ EndProduce(b)
  PROVE  Kept \/ Exits
  <1>d. PICK d : d = gcd
    OBVIOUS
  <1>e. PICK e : e = gcd'
    OBVIOUS
  <1>1. /\ Modules /\ Orderly(d) /\ b \in Runs(d)
        /\ IsGcd(d) /\ Blocks(d) /\ Fits(Call(b), Range(Later(b)))
    BY <1>d, RunsInOrder
  <1>s. SameGroups(d, d)
    BY <1>1, SameGroupsIs
  <1>2. CASE ReadNext(b)
    <2>w. PICK w : w = Unlock(d, Call(b).wrapper)
      OBVIOUS
    <2>m. PICK m : m = Relock(Call(b).wrapper)
      OBVIOUS
    <2>k. PICK key : key = Head(Call(b).keys)
      OBVIOUS
    <2>1. /\ Call(b).call = "reads" /\ UNCHANGED unchangedByGcd
          /\ e = GoOn(w, b, <<syncGet(<<Call(b).wrapper[1], key>>)>> \o m
                              \o Reads(Call(b).wrapper, Tail(Call(b).keys)) \o Later(b))
      BY <1>2, <1>d, <1>e, <2>w, <2>m, <2>k DEF ReadNext, Does
    <2>2. m \in {<<>>, <<sync(Call(b).wrapper)>>}
      BY <2>m DEF Relock
    <2>3. SameGroups(d, w)
      <3>z. PICK z : z = s_non_thread_safe_queue
        OBVIOUS
      <3>1. z # Global
        BY <3>z DEF Global, s_non_thread_safe_queue
      <3>2. w = d \/ w = dispatch_resume(d, z)
        BY <2>w, <3>z DEF Unlock
      <3>3. CASE w = dispatch_resume(d, z)
        BY <3>3, <3>1, <1>1, SuspendIs
      <3> QED
        BY <3>2, <3>3, <1>s
    <2>4. Orderly(e)
      BY <2>1, <2>2, <2>3, <1>1, ReadNextOrderly
    <2> QED
      BY <2>1, <2>4, <1>e, KeptByGcd
  <1>3. CASE GetAndWait(b)
    <2>1. Call(b).call = "syncGet" /\ UNCHANGED setup /\ m_seenEvents' = m_seenEvents
      BY <1>3 DEF GetAndWait, Does, source
    <2>2. CASE Call(b).producer[2] \notin m_lookupMap
      BY <2>2, <2>1, <1>3 DEF GetAndWait, Exits
    <2>3. CASE Call(b).producer[2] \in m_lookupMap
      <3>1. UNCHANGED phase /\ m_seenEvents' \in Nat
        BY <2>1, <2>3, <1>3 DEF GetAndWait, EventInv, Numbers
      <3>2. CASE Call(b).producer \in m_wasCached
        <4>1. e = GoOn(d, b, Later(b))
          BY <3>2, <2>3, <1>3, <1>d, <1>e DEF GetAndWait
        <4>2. Call(b).call \in OweNothing
          BY <2>1 DEF OweNothing
        <4>3. Orderly(e)
          BY <4>1, <4>2, <1>s, <1>1, GoesOn
        <4> QED
          BY <4>3, <3>1, <2>1, <1>e, KeptIs
      <3>3. CASE Call(b).producer \notin m_wasCached
        <4>1. e = GoOn(doProduceAsync(d, Call(b).producer), b,
                       <<wait(m_group(Call(b).producer))>> \o Later(b))
          BY <3>3, <2>3, <1>3, <1>d, <1>e DEF GetAndWait
        <4>2. IsProducer(Call(b).producer)
          <5>n. PICK n : n = Call(b).producer
            OBVIOUS
          <5>1. Call(b).call = "syncGet" => /\ Call(b) = syncGet(<<Call(b).producer[1], Call(b).producer[2]>>)
                   /\ \E w : Works(w) /\ Ending(w, Range(Later(b))) /\ Call(b).producer[1] = w[1]
            BY <1>1 DEF Fits
          <5>2. n = <<n[1], n[2]>> /\ \E w : Works(w) /\ n[1] = w[1]
            BY <5>1, <5>n, <2>1 DEF syncGet
          <5>3. n[1] \in Streams
            BY <5>2, StreamOfWorks
          <5> QED
            BY <5>2, <5>3, <5>n, <2>3 DEF IsProducer
        <4>3. Orderly(e)
          BY <4>1, <4>2, <2>1, <1>1, GetWaitOrderly
        <4> QED
          BY <4>3, <3>1, <2>1, <1>e, KeptIs
      <3> QED
        BY <3>2, <3>3
    <2> QED
      BY <2>2, <2>3
  <1>4. CASE BeginFilter(b)
    <2>1. Call(b).call = "work" /\ Call(b).at # <<>> /\ UNCHANGED unchangedByGcd
      BY <1>4 DEF BeginFilter, Does
    <2>2. \/ e = GoOn(d, b, <<>> \o <<Job("next", Call(b).wrapper, Call(b).at)>> \o Later(b))
          \/ e = GoOn(d, b, (GetByLabel(Call(b).wrapper) \o <<filtered(Call(b).wrapper)>>)
                                     \o <<Job("next", Call(b).wrapper, Call(b).at)>> \o Later(b))
      BY <1>4, <1>d, <1>e DEF BeginFilter
    <2>3. Orderly(e)
      BY <2>1, <2>2, <1>1, BeginFilterOrderly
    <2> QED
      BY <2>1, <2>3, <1>e, KeptByGcd
  <1>5. CASE BeginProduce(b)
    <2>1. Call(b).call = "work" /\ Call(b).at = <<>> /\ UNCHANGED unchangedByGcd
      BY <1>5 DEF BeginProduce, Does
    <2>2. \/ e = GoOn(d, b, <<>> \o <<leave(m_group(Call(b).wrapper))>> \o Later(b))
          \/ e = GoOn(d, b, (GetByLabel(Call(b).wrapper)
                               \o <<put(Call(b).wrapper), ran(Call(b).wrapper)>>)
                               \o <<leave(m_group(Call(b).wrapper))>> \o Later(b))
      BY <1>5, <1>d, <1>e DEF BeginProduce
    <2>3. Orderly(e)
      BY <2>1, <2>2, <1>1, BeginProduceOrderly
    <2> QED
      BY <2>1, <2>3, <1>e, KeptByGcd
  <1>6. CASE EndFilter(b) \/ Put(b) \/ EndProduce(b)
    <2>1. Call(b).call \in OweNothing
      BY <1>6 DEF EndFilter, Put, EndProduce, Does, OweNothing
    <2>2. UNCHANGED <<phase, setup>> /\ m_seenEvents' \in Nat /\ e = GoOn(d, b, Later(b))
      BY <1>6, <1>d, <1>e DEF EndFilter, Put, EndProduce, source, EventInv, Numbers
    <2>3. Orderly(e)
      BY <2>1, <2>2, <1>s, <1>1, GoesOn
    <2> QED
      BY <2>2, <2>3, <1>e, KeptIs
  <1> QED
    BY <1>2, <1>3, <1>4, <1>5, <1>6

\* Main has nothing more to read, and what it has made stays.
LEMMA LaterInv ==
  ASSUME EventInv, UNCHANGED <<pConfig, rest, module, m_lookupMap, m_paths>>,
         ~SettingUp, phase' \in {"clone", "wait", "done", "exit"},
         (m_schedules \in 1 .. NStreams)', m_seenEvents' \in Nat, Orderly(gcd)'
  PROVE  EventInv'
  <1>1. Numbers'
    BY DEF EventInv, Numbers, SettingUp
  <1>2. Lists'
    BY DEF Lists
  <1>3. Modules'
    BY DEF EventInv, Modules, IsModule
  <1> QED
    BY <1>1, <1>2, <1>3 DEF EventInv

\* A block takes its step.
LEMMA BlockStepInv ==
  ASSUME EventInv, NEW b \in Running, BlockStep(b)
  PROVE  EventInv'
  <1>1. Kept \/ Exits
    BY LibdispatchSteps, EventLoopSteps, PathSteps, RequestSteps, QueueSteps, WorkSteps DEF BlockStep
  <1>2. Alive
    BY DEF BlockStep, Leave, Submit, Resume, Wait, ResetEvent, SetEventInfo, StartPaths, ScheduleDone,
           RunPath, doNextIfSuccess, PrefetchAsync, GetAsync, GetMissing, AwaitProducer, NotifyPrefetched,
           SuspendRunQueue, SuspendThreadUnsafeQueue, doProduceAsyncImpl, ReadNext, GetAndWait, Sync,
           SuspendAgain, BeginFilter, EndFilter, BeginProduce, Put, EndProduce, Does
  <1>3. ~SettingUp
    BY <1>2 DEF Alive, SettingUp
  <1>4. UNCHANGED setup /\ phase' \in {"clone", "wait", "done", "exit"} /\ m_seenEvents' \in Nat
    BY <1>1, <1>2 DEF Kept, Exits, Alive, EventInv, Numbers
  <1>5. Orderly(gcd)'
    <2>1. CASE Exits
      <3>1. UNCHANGED Lasting /\ UNCHANGED gcd /\ phase' \in {"wait", "done", "exit"} /\ Orderly(gcd)
        BY <2>1 DEF Exits, Lasting, setup, EventInv
      <3> QED
        BY <3>1, NextOrderlyLater
    <2> QED
      BY <1>1, <2>1 DEF Kept
  <1>6. (m_schedules \in 1 .. NStreams)'
    BY <1>4 DEF EventInv, Numbers, setup, NStreams
  <1>7. UNCHANGED <<pConfig, rest, module, m_lookupMap, m_paths>>
    BY <1>4 DEF setup
  <1> QED
    BY <1>3, <1>4, <1>5, <1>6, <1>7, LaterInv

\* The event loop begins, queues start blocks, and main returns.
LEMMA ProcessAllInv ==
  ASSUME EventInv, Start \/ Clone \/ StartFirst \/ Return
  PROVE  EventInv'
  <1>d. PICK d : d = gcd
    OBVIOUS
  <1>e. PICK e : e = gcd'
    OBVIOUS
  <1>1. Orderly(d) /\ IsGcd(d)
    BY <1>d DEF EventInv, Orderly, InOrder
  <1>n. NStreams \in Nat \ {0} /\ m_schedules \in 1 .. NStreams /\ Streams = 0 .. NStreams - 1
    <2>1. pConfig.nSimultaneousEvents \in Nat
      BY DispatchAssumption DEF EventInv, Numbers
    <2> QED
      BY <2>1 DEF EventInv, Numbers, NStreams, Streams
  <1>2. CASE Start
    <2>1. PICK q \in DOMAIN d.queues :
              /\ d.queues[q].blocks # <<>>
              /\ e = [SetQueue(d, q, [d.queues[q] EXCEPT !.blocks = Tail(@), !.busy = TRUE])
                        EXCEPT !.running = Bags!BagAdd(@, [queue |-> q, calls |-> Head(d.queues[q].blocks)])]
      BY <1>2, <1>d, <1>e DEF Start
    <2>2. QueueOf(d, q) = d.queues[q] /\ q # Global
      BY <1>1 DEF QueueOf, IsGcd
    <2>3. IsStart(d, q, e)
      BY <2>1, <2>2 DEF IsStart, Block
    <2>4. Orderly(e)
      BY <2>1, <2>2, <2>3, <1>1, StartOrderly
    <2>5. Kept
      BY <2>4, <1>2, <1>e, KeptByGcd DEF Start
    <2>6. Alive
      BY <1>2 DEF Start
    <2>7. /\ UNCHANGED <<pConfig, rest, module, m_lookupMap, m_paths>> /\ ~SettingUp
          /\ phase' \in {"clone", "wait", "done", "exit"} /\ m_seenEvents' \in Nat
      BY <2>5, <2>6 DEF Kept, setup, Alive, SettingUp
    <2>8. (m_schedules \in 1 .. NStreams)' /\ Orderly(gcd)'
      BY <2>5, <1>n DEF Kept, setup, NStreams
    <2> QED
      BY <2>7, <2>8, LaterInv
  <1>3. CASE Clone
    <2>1. /\ phase = "clone" /\ phase' = "clone" /\ m_schedules < pConfig.nSimultaneousEvents
          /\ e = AnotherEvent(d, m_schedules) /\ m_schedules' = m_schedules + 1
          /\ UNCHANGED <<pConfig, rest, module, m_lookupMap, m_paths>> /\ UNCHANGED Lasting
          /\ m_seenEvents' \in Nat
      BY <1>3, <1>d, <1>e DEF Clone, source, Lasting, EventInv, Numbers
    <2>2. pConfig.nSimultaneousEvents \in Nat
      BY DispatchAssumption DEF EventInv, Numbers
    <2>3. m_schedules + 1 \in 1 .. NStreams /\ m_schedules \in Streams
      BY <2>1, <2>2, <1>n DEF NStreams
    <2>s. PICK s : s = m_schedules
      OBVIOUS
    <2>4. ~Owed(d, StreamToken(s))
      <3>1. ~Started(s)
        BY <2>1, <2>s, <1>n DEF Started
      <3> QED
        BY <3>1, <2>3, <2>s, <1>1 DEF Orderly, Begun
    <2>5. s \in Streams /\ e = AnotherEvent(d, s)
      BY <2>1, <2>3, <2>s
    <2>6. InOrder(e) /\ \A z \in Streams : Owed(e, StreamToken(z)) => z = s \/ Started(z)
      BY <2>4, <2>5, <1>1, BeginOrderly
    <2>7. ASSUME NEW z \in Streams, Owed(e, StreamToken(z))
          PROVE  Started(z)'
      <3>1. z = s \/ Started(z)
        BY <2>6, <2>7
      <3>2. Started(z)' <=> z \in 1 .. m_schedules
        BY <2>1, <1>n DEF Started
      <3>3. Started(z) <=> z \in 1 .. m_schedules - 1
        BY <2>1 DEF Started
      <3> QED
        BY <3>1, <3>2, <3>3, <2>s, <1>n
    <2>8. Orderly(gcd)'
      BY <2>1, <2>6, <2>7, <1>e, NextOrderly
    <2>9. (m_schedules \in 1 .. NStreams)' /\ ~SettingUp /\ phase' \in {"clone", "wait", "done", "exit"}
      BY <2>1, <2>3 DEF NStreams, SettingUp
    <2> QED
      BY <2>1, <2>8, <2>9, LaterInv
  <1>4. CASE StartFirst
    <2>1. /\ phase = "clone" /\ phase' = "wait" /\ e = AnotherEvent(d, 0) /\ UNCHANGED setup
          /\ UNCHANGED <<pConfig, rest, module, m_lookupMap, m_paths>> /\ UNCHANGED Lasting
          /\ m_seenEvents' \in Nat
      BY <1>4, <1>d, <1>e DEF StartFirst, source, setup, Lasting, EventInv, Numbers
    <2>2. 0 \in Streams
      BY <1>n
    <2>3. ~Owed(d, StreamToken(0))
      <3>1. ~Started(0)
        BY <2>1, <1>n DEF Started
      <3> QED
        BY <3>1, <2>2, <1>1 DEF Orderly, Begun
    <2>4. InOrder(e)
      BY <2>1, <2>2, <2>3, <1>1, BeginOrderly
    <2>5. \A z \in Streams : Started(z)'
      BY <2>1 DEF Started, SettingUp
    <2>6. Orderly(gcd)'
      BY <2>1, <2>4, <2>5, <1>e, NextOrderly
    <2>7. (m_schedules \in 1 .. NStreams)' /\ ~SettingUp /\ phase' \in {"clone", "wait", "done", "exit"}
      BY <2>1, <1>n DEF NStreams, SettingUp, setup
    <2> QED
      BY <2>1, <2>6, <2>7, LaterInv
  <1>5. CASE Return
    <2>1. /\ phase = "wait" /\ phase' = "done" /\ UNCHANGED setup /\ UNCHANGED gcd
          /\ UNCHANGED <<pConfig, rest, module, m_lookupMap, m_paths>> /\ UNCHANGED Lasting
          /\ m_seenEvents' \in Nat
      BY <1>5 DEF Return, source, setup, Lasting, EventInv, Numbers
    <2>2. Orderly(gcd)'
      BY <2>1, NextOrderlyLater DEF EventInv
    <2>3. (m_schedules \in 1 .. NStreams)' /\ ~SettingUp /\ phase' \in {"clone", "wait", "done", "exit"}
      BY <2>1, <1>n DEF NStreams, SettingUp, setup
    <2> QED
      BY <2>1, <2>2, <2>3, LaterInv
  <1> QED
    BY <1>2, <1>3, <1>4, <1>5

\* Before the first event nothing can be out of order.
LEMMA EmptyBecomes == (gcd = EmptyGcd => Orderly(gcd))'
  <1>1. gcd = EmptyGcd => Orderly(gcd)
    BY EmptyOrderly
  <1> QED
    BY <1>1, PTL

\* What is read of the configuration are filters and producers.
LEMMA ReadIs ==
  ASSUME EventInv, NEW S, S = Range(pConfig.filters) \/ S = Range(pConfig.producers),
         rest \in Seq(S), rest # <<>>
  PROVE  IsSeq(Head(rest).toGet) /\ Tail(rest) \in Seq(S)
  <1>1. Head(rest) \in S /\ Tail(rest) \in Seq(S)
    OBVIOUS
  <1>2. pConfig \in Configurations
    BY DEF EventInv, Numbers
  <1>3. Head(rest) \in Range(pConfig.filters) \cup Range(pConfig.producers)
    BY <1>1
  <1> QED
    BY <1>1, <1>2, <1>3, DispatchAssumption DEF IsSeq

\* Nothing happens yet but that main reads the file.
LEMMA SetupInv ==
  ASSUME EventInv, SettingUp, UNCHANGED unchangedBySetup,
         phase' \in {"filters", "producers", "paths", "clone", "exit"}, Lists', Modules'
  PROVE  EventInv'
  <1>1. gcd = EmptyGcd /\ m_schedules = 1
    BY DEF EventInv, Numbers
  <1>2. gcd' = EmptyGcd /\ m_schedules' = 1 /\ pConfig' = pConfig /\ m_seenEvents' = m_seenEvents
    BY <1>1 DEF unchangedBySetup, source
  <1>3. Numbers'
    BY <1>2 DEF EventInv, Numbers, NStreams
  <1>4. (gcd = EmptyGcd)'
    BY <1>2 DEF EmptyGcd
  <1>5. Orderly(gcd)'
    BY <1>4, EmptyBecomes
  <1> QED
    BY <1>3, <1>5 DEF EventInv

\* The next filter.
LEMMA AddFilterInv ==
  ASSUME EventInv, addFilter
  PROVE  EventInv'
  <1>1. /\ phase = "filters" /\ SettingUp /\ UNCHANGED unchangedBySetup
        /\ UNCHANGED <<m_lookupMap, m_paths>> /\ pConfig' = pConfig
        /\ m_lookupMap = {} /\ m_paths = <<>> /\ rest \in Seq(Range(pConfig.filters))
        /\ Modules /\ pConfig \in Configurations
    BY DEF addFilter, SettingUp, unchangedBySetup, EventInv, Modules, Lists, Numbers
  <1>2. CASE rest = <<>>
    <2>1. phase' = "producers" /\ rest' = pConfig.producers /\ UNCHANGED module
      BY <1>2 DEF addFilter, Becomes
    <2>2. Lists'
      BY <2>1, <1>1, DispatchAssumption DEF Lists
    <2>3. Modules'
      BY <2>1, <1>1 DEF Modules, IsModule
    <2> QED
      BY <2>1, <2>2, <2>3, <1>1, SetupInv
  <1>3. CASE rest # <<>>
    <2>f. PICK f : f = CreateFilter(Head(rest))
      OBVIOUS
    <2>1. IsSeq(Head(rest).toGet) /\ Tail(rest) \in Seq(Range(pConfig.filters))
      BY <1>1, <1>3, ReadIs
    <2>2. CASE f = NoModule
      <3>1. phase' = "exit" /\ rest' = <<>> /\ UNCHANGED module
        BY <1>3, <2>2, <2>f DEF addFilter, Becomes
      <3>2. Lists' /\ Modules'
        BY <3>1, <1>1 DEF Lists, Modules, IsModule
      <3> QED
        BY <3>1, <3>2, <1>1, SetupInv
    <2>3. CASE f # NoModule
      <3>1. phase' = "filters" /\ rest' = Tail(rest) /\ module' = Join(module, [l \in {f.label} |-> f])
        BY <1>3, <2>3, <2>f DEF addFilter, Becomes
      <3>2. IsModule(f, f.label)
        <4>c. PICK c : c = Head(rest)
          OBVIOUS
        <4>0. f = CreateFilter(c) /\ IsSeq(c.toGet) /\ CreateFilter(c) # NoModule
          BY <2>1, <2>3, <2>f, <4>c
        <4>1. IsOf(f, c, "filter")
          BY <4>0, CreatedFilterIs
        <4> QED
          BY <4>1 DEF IsOf, IsModule
      <3>3. Lists'
        BY <3>1, <2>1, <1>1 DEF Lists
      <3>4. /\ DOMAIN module' = DOMAIN module \cup {f.label} /\ module'[f.label] = f
            /\ \A x \in DOMAIN module : x # f.label => module'[x] = module[x]
        BY <3>1 DEF Join
      <3>5. \A l \in DOMAIN module' : IsModule(module'[l], l)
        BY <3>2, <3>4, <1>1 DEF Modules
      <3>6. m_lookupMap' = {} /\ m_paths' = <<>> /\ DOMAIN (<<>>) = {}
        BY <1>1
      <3>7. Modules'
        BY <3>1, <3>5, <3>6 DEF Modules, IsModule
      <3> QED
        BY <3>1, <3>3, <3>7, <1>1, SetupInv
    <2> QED
      BY <2>2, <2>3
  <1> QED
    BY <1>2, <1>3

\* The next producer.
LEMMA AddProducerInv ==
  ASSUME EventInv, addProducer
  PROVE  EventInv'
  <1>1. /\ phase = "producers" /\ SettingUp /\ UNCHANGED unchangedBySetup
        /\ UNCHANGED m_paths /\ pConfig' = pConfig
        /\ m_paths = <<>> /\ rest \in Seq(Range(pConfig.producers))
        /\ Modules /\ pConfig \in Configurations
    BY DEF addProducer, SettingUp, unchangedBySetup, EventInv, Modules, Lists, Numbers
  <1>2. CASE rest = <<>>
    <2>1. phase' = "paths" /\ rest' = pConfig.paths /\ UNCHANGED <<module, m_lookupMap>>
      BY <1>2 DEF addProducer, Becomes
    <2>2. Lists'
      BY <2>1, <1>1, DispatchAssumption DEF Lists
    <2>3. Modules'
      BY <2>1, <1>1 DEF Modules, IsModule
    <2> QED
      BY <2>1, <2>2, <2>3, <1>1, SetupInv
  <1>3. CASE rest # <<>>
    <2>n. PICK n : n = CreateProducer(Head(rest))
      OBVIOUS
    <2>1. IsSeq(Head(rest).toGet) /\ Tail(rest) \in Seq(Range(pConfig.producers))
      BY <1>1, <1>3, ReadIs
    <2>2. CASE n = NoModule
      <3>1. phase' = "exit" /\ rest' = <<>> /\ UNCHANGED <<module, m_lookupMap>>
        BY <1>3, <2>2, <2>n DEF addProducer, Becomes
      <3>2. Lists' /\ Modules'
        BY <3>1, <1>1 DEF Lists, Modules, IsModule
      <3> QED
        BY <3>1, <3>2, <1>1, SetupInv
    <2>3. CASE n # NoModule
      <3>1. /\ phase' = "producers" /\ rest' = Tail(rest)
            /\ module' = Join(module, [l \in {n.label} |-> n])
            /\ m_lookupMap' = m_lookupMap \cup Entries(n)
        BY <1>3, <2>3, <2>n DEF addProducer, Becomes
      <3>2. IsModule(n, n.label) /\ n.base = "producer"
        <4>c. PICK c : c = Head(rest)
          OBVIOUS
        <4>0. n = CreateProducer(c) /\ IsSeq(c.toGet) /\ CreateProducer(c) # NoModule
          BY <2>1, <2>3, <2>n, <4>c
        <4>1. IsOf(n, c, "producer")
          BY <4>0, CreatedProducerIs
        <4> QED
          BY <4>1 DEF IsOf, IsModule
      <3>3. Lists'
        BY <3>1, <2>1, <1>1 DEF Lists
      <3>4. /\ DOMAIN module' = DOMAIN module \cup {n.label} /\ module'[n.label] = n
            /\ \A x \in DOMAIN module : x # n.label => module'[x] = module[x]
        BY <3>1 DEF Join
      <3>5. \A l \in DOMAIN module' : IsModule(module'[l], l)
        BY <3>2, <3>4, <1>1 DEF Modules
      <3>6. ASSUME NEW key \in m_lookupMap'
            PROVE  key[1] \in DOMAIN module' /\ module'[key[1]].base = "producer"
        <4>1. CASE key \in m_lookupMap
          <5>1. key[1] \in DOMAIN module /\ module[key[1]].base = "producer"
            BY <4>1, <1>1 DEF Modules
          <5> QED
            BY <5>1, <3>4, <3>2
        <4>2. CASE key \in Entries(n)
          <5>1. key[1] \in {n.label}
            BY <4>2, PairIs DEF Entries
          <5> QED
            BY <5>1, <3>4, <3>2
        <4> QED
          BY <4>1, <4>2, <3>1
      <3>7. m_paths' = <<>> /\ DOMAIN (<<>>) = {}
        BY <1>1
      <3>8. Modules'
        BY <3>1, <3>5, <3>6, <3>7 DEF Modules, IsModule
      <3> QED
        BY <3>1, <3>3, <3>8, <1>1, SetupInv
    <2> QED
      BY <2>2, <2>3
  <1> QED
    BY <1>2, <1>3

\* The next path.
LEMMA AddPathInv ==
  ASSUME EventInv, addPath
  PROVE  EventInv'
  <1>1. /\ phase = "paths" /\ SettingUp /\ UNCHANGED unchangedBySetup
        /\ UNCHANGED <<module, m_lookupMap>> /\ rest \in Seq(Seq(STRING)) /\ Modules
    BY DEF addPath, SettingUp, EventInv, Lists
  <1>2. CASE rest = <<>> \/ ~PathMade(Head(rest))
    <2>1. phase' \in {"clone", "exit"} /\ UNCHANGED m_paths
      BY <1>2 DEF addPath, Becomes
    <2>2. Lists' /\ Modules'
      BY <2>1, <1>1 DEF Lists, Modules, IsModule
    <2> QED
      BY <2>1, <2>2, <1>1, SetupInv
  <1>3. CASE rest # <<>> /\ PathMade(Head(rest))
    <2>1. phase' = "paths" /\ rest' = Tail(rest) /\ m_paths' = Append(m_paths, Head(rest))
      BY <1>3 DEF addPath, Becomes
    <2>2. Head(rest) \in Seq(STRING) /\ Tail(rest) \in Seq(Seq(STRING))
      BY <1>1, <1>3
    <2>3. Lists'
      BY <2>1, <2>2 DEF Lists
    <2>4. m_paths \in Seq(Seq(STRING))
      BY <1>1 DEF Modules
    <2>5. m_paths' \in Seq(Seq(STRING))
      BY <2>1, <2>2, <2>4
    <2>6. ASSUME NEW p \in DOMAIN m_paths', NEW i \in DOMAIN m_paths'[p]
          PROVE  m_paths'[p][i] \in DOMAIN module /\ module[m_paths'[p][i]].base = "filter"
      <3>1. CASE p \in DOMAIN m_paths
        <4>1. m_paths'[p] = m_paths[p]
          BY <3>1, <2>1, <2>2, <2>4
        <4> QED
          BY <4>1, <3>1, <2>6, <1>1 DEF Modules
      <3>2. CASE p \notin DOMAIN m_paths
        <4>h. PICK h : h = Head(rest)
          OBVIOUS
        <4>0. p = Len(m_paths) + 1
          BY <3>2, <2>1, <2>2, <2>4, <2>6
        <4>1. m_paths'[p] = Head(rest)
          BY <4>0, <4>h, <2>1, <2>4
        <4>2. Head(rest)[i] \in Range(Head(rest))
          BY <4>1, <2>6 DEF Range
        <4>3. FilterFound(Head(rest)[i])
          BY <4>2, <1>3 DEF PathMade
        <4> QED
          BY <4>1, <4>3 DEF FilterFound
      <3> QED
        BY <3>1, <3>2
    <2>7. Modules'
      BY <2>1, <2>5, <2>6, <1>1 DEF Modules, IsModule
    <2> QED
      BY <2>1, <2>3, <2>7, <1>1, SetupInv
  <1> QED
    BY <1>2, <1>3

-----------------------------------------------------------------------------
(* The invariant. *)

\* It holds when main begins ...
LEMMA EventInvInit == Init => EventInv
  <1>1. ASSUME Init
        PROVE  EventInv
    <2>1. gcd = EmptyGcd /\ pConfig \in Configurations /\ phase = "filters" /\ m_schedules = 1
      BY <1>1 DEF Init, EmptyGcd
    <2>2. pConfig.nSimultaneousEvents \in Nat /\ pConfig.filters \in Seq(Range(pConfig.filters))
      BY <2>1, DispatchAssumption
    <2>3. Numbers
      BY <2>1, <2>2, <1>1 DEF Init, Numbers, NStreams
    <2>4. Lists
      BY <2>1, <2>2, <1>1 DEF Init, Lists
    <2>5. DOMAIN module = {} /\ m_lookupMap = {} /\ m_paths = <<>> /\ DOMAIN m_paths = {}
      BY <1>1 DEF Init
    <2>6. Modules
      BY <2>5, <2>1 DEF Modules
    <2> QED
      BY <2>1, <2>3, <2>4, <2>6, EmptyOrderly DEF EventInv
  <1> QED
    BY <1>1

\* ... and when nothing happens.
LEMMA EventInvStutters ==
  ASSUME EventInv, UNCHANGED vars
  PROVE  EventInv'
  <1>1. Numbers' /\ Lists' /\ Modules'
    BY DEF EventInv, Numbers, Lists, Modules, vars, setup, source, SettingUp, NStreams, EmptyGcd, IsModule
  <1>e. PICK e : e = gcd
    OBVIOUS
  <1>2. UNCHANGED Lasting /\ UNCHANGED <<phase, m_schedules>> /\ gcd' = e /\ Orderly(e)
    BY <1>e DEF EventInv, vars, setup, Lasting
  <1>3. Orderly(gcd)'
    BY <1>2, NextOrderlyToo
  <1> QED
    BY <1>1, <1>3 DEF EventInv

\* Calls are made in the order the code has them, groups are entered as often
\* as they will be left, no stream is processed by two blocks, no two producers
\* only wait for each other: for any configuration and number of streams.
THEOREM InOrderAlways == Spec => []EventInv
  <1>1. EventInv /\ [Next]_vars => EventInv'
    BY AddFilterInv, AddProducerInv, AddPathInv, ProcessAllInv, BlockStepInv, EventInvStutters DEF Next
  <1> QED
    BY <1>1, EventInvInit, PTL DEF Spec

-----------------------------------------------------------------------------
(* Between events. *)

\* Something is left to be done for stream s.
Bothers(d, s) ==
    \/ Owed(d, m_allPathsDoneGroup(s))
    \/ \E w : Works(w) /\ w[1] = s /\ Wanted(d, w)

\* What calls c and S owe is owed, and who has still to end among S is wanted.
Counted(d, c, S) ==
    /\ \A z \in S \cup {c} : \A x : Owes(Inner(z), x) => Owed(d, x)
    /\ \A w : Ending(w, S) => Wanted(d, w)

\* Who waits for a queue to be suspended again has still to end.
LEMMA LockWanted ==
  ASSUME Modules, NEW d, Orderly(d), NEW w, Works(w), Owed(d, Lock(w))
  PROVE  Wanted(d, w)
  <1> USE DEF Orderly, InOrder
  <1>1. IsGroup(Lock(w))
    BY DEF IsGroup
  <1>2. Entered(d, Lock(w)) # 0
    BY <1>1, CountIsNat DEF Owed, Groups
  <1>3. PICK b \in Runs(d) : wait(Lock(w)) \in Range(b.calls)
    BY <1>2 DEF Locks
  <1>4. PICK i \in DOMAIN b.calls : b.calls[i] = wait(Lock(w))
    BY <1>3 DEF Range
  <1>5. Good(b.calls)
    BY DEF Blocks, Held
  <1>6. Fits(wait(Lock(w)), After(b.calls, i))
    BY <1>4, <1>5 DEF Good
  <1>7. PICK v : /\ Works(v) /\ Ending(v, After(b.calls, i))
                 /\ \/ Lock(w) = Lock(v)
                    \/ \E n : IsProducer(n) /\ n[1] = v[1] /\ Lock(w) = m_group(n)
    BY <1>6 DEF Fits, wait
  <1>8. v = w
    BY <1>7, Names
  <1>9. After(b.calls, i) \subseteq Range(b.calls)
    BY DEF After, Range
  <1>10. Ending(w, Range(b.calls))
    BY <1>7, <1>8, <1>9 DEF Ending
  <1> QED
    BY <1>10, EndingWanted

\* A call that has to do with a stream goes on with it, or bothers.
LEMMA BusyCall ==
  ASSUME Modules, NEW d, Orderly(d), NEW c, NEW S, Fits(c, S), Counted(d, c, S),
         NEW s, s \in StreamOf(c)
  PROVE  Owes(Inner(c), StreamToken(s)) \/ Bothers(d, s)
  <1>1. c.call \in CallNames
    BY DEF Fits
  <1>w. \A w : Works(w) /\ Wanted(d, w) /\ w[1] = s => Bothers(d, s)
    BY DEF Bothers
  <1>g. \A n : IsProducer(n) /\ Owed(d, m_group(n)) => Works(n) /\ Wanted(d, n)
    BY DEF Works, Wanted
  <1>p. \A w : Works(w) /\ Owed(d, prefetchGroup(w)) => Wanted(d, w)
    BY OwedWanted
  <1>l. \A g : leave(g) \in S => Owed(d, g)
    <2>1. ASSUME NEW g, leave(g) \in S
          PROVE  Owed(d, g)
      <3>1. Owes(Inner(leave(g)), g)
        BY DEF Inner, Owes, leave
      <3> QED
        BY <3>1, <2>1 DEF Counted
    <2> QED
      BY <2>1
  <1>i. c.call # "submit" => Inner(c) = c
    BY DEF Inner
  <1>o. \A x : c.call # "submit" /\ Owes(c, x) => Owed(d, x)
    BY <1>i DEF Counted
  <1>2. CASE c.call \in {"submit", "leave", "resume", "wait"}
    <2>1. \E q, g, x : c \in {submit(q, x), leave(g), resume(q), wait(g)}
      BY <1>2 DEF Fits
    <2>2. StreamOf(c) = {}
      BY <2>1 DEF StreamOf, submit, leave, resume, wait
    <2> QED
      BY <2>2
  <1>3. CASE c.call \in {"event", "count", "startPaths", "scheduleDone"}
    <2>1. \E k : c \in {event(c.stream), count(c.stream, k), startPaths(c.stream, k), scheduleDone(c.stream)}
      BY <1>3 DEF Fits
    <2>2. StreamOf(c) = {c.stream}
      BY <2>1 DEF StreamOf, event, count, startPaths, scheduleDone
    <2>3. c.stream = s /\ Inner(c) = c
      BY <2>2, <1>i, <1>3
    <2> QED
      BY <2>3, <1>3 DEF Owes
  <1>4. CASE c.call = "path"
    <2>1. c = path(c.stream, c.path) /\ leave(m_allPathsDoneGroup(c.stream)) \in S
      BY <1>4 DEF Fits
    <2>2. StreamOf(c) = {c.stream}
      BY <2>1 DEF StreamOf, path
    <2>3. c.stream = s
      BY <2>2
    <2> QED
      BY <2>1, <2>3, <1>l DEF Bothers
  <1>5. CASE c.call \in JobCalls
    <2>1. IsJob(c)
      BY <1>5 DEF Fits
    <2>2. c = Job(c.call, c.wrapper, c.at)
      BY <2>1 DEF IsJob
    <2>3. StreamOf(c) = {c.wrapper[1]}
      BY <2>2 DEF StreamOf, Job
    <2>4. c.wrapper[1] = s
      BY <2>3
    <2>5. Owes(c, JobGroup(c)) /\ c.call # "submit"
      BY <1>5 DEF Owes, JobCalls
    <2>6. Owed(d, JobGroup(c))
      BY <2>5, <1>o
    <2>7. CASE c.at = <<>>
      <3>1. IsProducer(c.wrapper) /\ JobGroup(c) = m_group(c.wrapper)
        BY <2>7, <2>1, JobIs
      <3> QED
        BY <3>1, <2>4, <2>6, <1>g, <1>w
    <2>8. CASE c.at # <<>>
      <3>1. JobGroup(c) = m_allPathsDoneGroup(c.wrapper[1])
        BY <2>8, <2>1, JobIs
      <3> QED
        BY <3>1, <2>4, <2>6 DEF Bothers
    <2> QED
      BY <2>7, <2>8
  <1>6. CASE c.call \in {"getAll", "awaitProducer"}
    <2>1. /\ Works(c.wrapper)
          /\ \/ c = getAll(c.wrapper, c.keys)
             \/ c = awaitProducer(c.wrapper, c.producer) /\ c.producer[1] = c.wrapper[1]
      BY <1>6 DEF Fits
    <2>2. StreamOf(c) = {c.wrapper[1]}
      <3>1. c = getAll(c.wrapper, c.keys) => StreamOf(c) = {c.wrapper[1]}
        BY DEF StreamOf, getAll
      <3>2. c = awaitProducer(c.wrapper, c.producer) /\ c.producer[1] = c.wrapper[1] =>
               StreamOf(c) = {c.wrapper[1]}
        BY DEF StreamOf, awaitProducer
      <3> QED
        BY <2>1, <3>1, <3>2
    <2>3. Owes(c, prefetchGroup(c.wrapper)) /\ c.call # "submit"
      BY <1>6 DEF Owes
    <2>4. Owed(d, prefetchGroup(c.wrapper))
      BY <2>3, <1>o
    <2>5. c.wrapper[1] = s
      BY <2>2
    <2> QED
      BY <2>1, <2>4, <2>5, <1>p, <1>w
  <1>7. CASE c.call = "getMissing"
    <2>1. /\ Works(c.wrapper) /\ c = getMissing(c.wrapper, c.producer)
          /\ c.producer[1] = c.wrapper[1]
          /\ \E x \in S : x.call \in {"getAll", "leave"} /\ Owes(x, prefetchGroup(c.wrapper))
      BY <1>7 DEF Fits
    <2>2. StreamOf(c) = {c.wrapper[1]}
      BY <2>1 DEF StreamOf, getMissing
    <2>3. PICK x \in S : x.call \in {"getAll", "leave"} /\ Owes(x, prefetchGroup(c.wrapper))
      BY <2>1
    <2>4. Inner(x) = x
      BY <2>3 DEF Inner
    <2>5. Owed(d, prefetchGroup(c.wrapper))
      BY <2>3, <2>4 DEF Counted
    <2>6. c.wrapper[1] = s
      BY <2>2
    <2> QED
      BY <2>1, <2>5, <2>6, <1>p, <1>w
  <1>8. CASE c.call \in {"produceImpl", "put", "ran"}
    <2>1. /\ IsProducer(c.wrapper) /\ leave(m_group(c.wrapper)) \in S
          /\ c \in {produceImpl(c.wrapper), put(c.wrapper), ran(c.wrapper)}
      BY <1>8 DEF Fits
    <2>2. StreamOf(c) = {c.wrapper[1]}
      BY <2>1 DEF StreamOf, produceImpl, put, ran
    <2>3. c.wrapper[1] = s
      BY <2>2
    <2> QED
      BY <2>1, <2>3, <1>l, <1>g, <1>w
  <1>9. CASE c.call \in {"reads", "sync"}
    <2>1. /\ Works(c.wrapper) /\ Ending(c.wrapper, S)
          /\ \E k : c \in {reads(c.wrapper, k), sync(c.wrapper)}
      BY <1>9 DEF Fits
    <2>2. StreamOf(c) = {c.wrapper[1]}
      BY <2>1 DEF StreamOf, reads, sync
    <2>3. c.wrapper[1] = s /\ Wanted(d, c.wrapper)
      BY <2>1, <2>2 DEF Counted
    <2> QED
      BY <2>1, <2>3, <1>w
  <1>10. CASE c.call = "syncGet"
    <2>n. PICK n : n = <<c.producer[1], c.producer[2]>>
      OBVIOUS
    <2>1. c = syncGet(n) /\ \E w : Works(w) /\ Ending(w, S) /\ c.producer[1] = w[1]
      BY <1>10, <2>n DEF Fits
    <2>2. StreamOf(c) = {n[1]} /\ c.producer = n
      <3>1. c.producer = n
        BY <2>1 DEF syncGet
      <3> QED
        BY <2>1, <3>1 DEF StreamOf, syncGet
    <2>3. PICK w : Works(w) /\ Ending(w, S) /\ c.producer[1] = w[1]
      BY <2>1
    <2>4. w[1] = s /\ Wanted(d, w)
      BY <2>2, <2>3 DEF Counted
    <2> QED
      BY <2>3, <2>4, <1>w
  <1>11. CASE c.call = "lock"
    <2>1. c = lock(c.wrapper) /\ Works(c.wrapper)
      BY <1>11 DEF Fits
    <2>2. StreamOf(c) = {c.wrapper[1]}
      BY <2>1 DEF StreamOf, lock
    <2>3. Owes(c, Lock(c.wrapper)) /\ c.call # "submit"
      BY <1>11 DEF Owes
    <2>4. Owed(d, Lock(c.wrapper))
      BY <2>3, <1>o
    <2>5. Wanted(d, c.wrapper)
      BY <2>1, <2>4, LockWanted
    <2>6. c.wrapper[1] = s
      BY <2>2
    <2> QED
      BY <2>1, <2>5, <2>6, <1>w
  <1>12. CASE c.call = "filtered"
    <2>1. /\ c = filtered(c.wrapper)
          /\ \E at : IsFilterAt(c.wrapper, at) /\ Job("next", c.wrapper, at) \in S
      BY <1>12 DEF Fits
    <2>2. StreamOf(c) = {c.wrapper[1]}
      BY <2>1 DEF StreamOf, filtered
    <2>3. PICK at : IsFilterAt(c.wrapper, at) /\ Job("next", c.wrapper, at) \in S
      BY <2>1
    <2>4. at # <<>>
      BY <2>3, FilterWorks
    <2>5. Owes(Inner(Job("next", c.wrapper, at)), m_allPathsDoneGroup(c.wrapper[1]))
      BY <2>4 DEF Inner, Owes, Job, JobCalls, JobGroup
    <2>6. Owed(d, m_allPathsDoneGroup(c.wrapper[1]))
      BY <2>3, <2>5 DEF Counted
    <2>7. c.wrapper[1] = s
      BY <2>2
    <2> QED
      BY <2>6, <2>7 DEF Bothers
  <1> QED
    BY <1>1, <1>2, <1>3, <1>4, <1>5, <1>6, <1>7, <1>8, <1>9, <1>10, <1>11, <1>12
    DEF CallNames, Reading

\* No call in d goes on with stream s but the one b is at: there is none in e.
AloneAt(d, b, s, e) ==
    /\ IsGcd(e) /\ ~Owed(e, StreamToken(s))
    /\ Stepped(d, e, b, Later(b), {})
    /\ \A h : Waiting(e, h) = Waiting(d, h)

\* The block that begins an event is the only one to go on with its stream.
LEMMA AloneIs ==
  ASSUME NEW d, Orderly(d), NEW b \in Runs(d), NEW s \in Streams,
         Owes(Call(b), StreamToken(s)), Call(b).call # "submit", NEW e, e = GoOn(d, b, Later(b))
  PROVE  AloneAt(d, b, s, e)
  <1>1. IsGcd(d) /\ Count(d, StreamToken(s)) <= 1
    BY DEF Orderly, InOrder, EventLoop
  <1>2. IsSeq(Later(b)) /\ b.calls = <<Call(b)>> \o Later(b)
    BY <1>1, RunningBlock
  <1>3. GoOnEffect(d, b, Later(b), e)
    BY <1>1, <1>2, GoOnIs
  <1>4. Adds(d, d, {})
    BY <1>1, AddsRefl
  <1>n. PICK new : new = {}
    OBVIOUS
  <1>r. PICK r : r = Later(b)
    OBVIOUS
  <1>5. Adds(d, d, new) /\ GoOnEffect(d, b, r, e)
    BY <1>3, <1>4, <1>n, <1>r
  <1>6. Stepped(d, e, b, r, new)
    BY <1>1, <1>5, GoOnStepped
  <1>7. One(Call(b), StreamToken(s)) = 1
    BY DEF One, Inner
  <1>8. N(<<Call(b)>> \o Later(b), StreamToken(s)) = One(Call(b), StreamToken(s)) + N(Later(b), StreamToken(s))
        /\ N(Later(b), StreamToken(s)) \in Nat
    BY <1>2, NCons
  <1>9. Count(e, StreamToken(s)) = Count(d, StreamToken(s)) - N(b.calls, StreamToken(s))
                                       + N(Later(b), StreamToken(s))
    BY <1>3 DEF GoOnEffect
  <1>10. Count(d, StreamToken(s)) \in Nat
    BY <1>1, CountIsNat
  <1>11. Count(e, StreamToken(s)) <= 0
    BY <1>1, <1>2, <1>7, <1>8, <1>9, <1>10
  <1>12. IsGcd(e) /\ \A h : Waiting(e, h) = Waiting(d, h)
    BY <1>3 DEF GoOnEffect
  <1>13. ~Owed(e, StreamToken(s))
    BY <1>11, <1>12, CountIsNat DEF Owed
  <1> QED
    BY <1>6, <1>n, <1>r, <1>12, <1>13 DEF AloneAt

\* Then nobody else goes on with it.
LEMMA NobodyElse ==
  ASSUME NEW d, IsGcd(d), NEW b \in Runs(d), NEW s, NEW e, AloneAt(d, b, s, e)
  PROVE  /\ \A c \in Now(d) : Owes(c, StreamToken(s)) => c = Inner(Call(b))
         /\ \A a \in Held(d) \ {b} : \A c \in Range(a.calls) : ~Owes(Inner(c), StreamToken(s))
         /\ \A g : \A z \in Range(Waiting(d, g)) : ~Owes(Inner(z), StreamToken(s))
         /\ Owes(Inner(Call(b)), StreamToken(s)) => Copies(d, b) = 1
  <1>1. IsGcd(e) /\ Count(e, StreamToken(s)) \in Nat /\ Count(e, StreamToken(s)) < 1
    BY CountIsNat DEF AloneAt, Owed
  <1>n. PICK new : new = {}
    OBVIOUS
  <1>r. PICK r : r = Later(b)
    OBVIOUS
  <1>2. Stepped(d, e, b, r, new)
    BY <1>n, <1>r DEF AloneAt
  <1>3. \A c \in Now(e) : ~Owes(c, StreamToken(s))
    BY <1>1, OwedNow
  <1>4. ASSUME NEW c \in Now(d), Owes(c, StreamToken(s))
        PROVE  c = Inner(Call(b))
    <2>1. Range(Later(b)) \subseteq Range(r)
      BY <1>r
    <2>2. c = Inner(Call(b)) \/ c \in Now(e)
      BY <1>2, <2>1, NowKept
    <2> QED
      BY <2>2, <1>3, <1>4
  <1>5. ASSUME NEW a \in Held(d) \ {b}, NEW c \in Range(a.calls)
        PROVE  ~Owes(Inner(c), StreamToken(s))
    <2>1. a \in Held(e)
      BY <1>2 DEF Stepped
    <2>2. Inner(c) \in Now(e)
      BY <2>1 DEF Now, Inners
    <2> QED
      BY <2>2, <1>3
  <1>6. ASSUME NEW g, NEW z \in Range(Waiting(d, g))
        PROVE  ~Owes(Inner(z), StreamToken(s))
    <2>1. z \in Range(Waiting(e, g))
      BY DEF AloneAt
    <2> QED
      BY <2>1, <1>1, OwedNoted
  <1>7. ASSUME Owes(Inner(Call(b)), StreamToken(s))
        PROVE  Copies(d, b) = 1
    <2>1. ASSUME Copies(d, b) # 1
          PROVE  FALSE
      <3>1. b \in Runs(e)
        BY <1>2, <2>1 DEF Stepped
      <3>2. Call(b) \in Range(b.calls)
        BY RunningBlock
      <3>3. Inner(Call(b)) \in Now(e)
        BY <3>1, <3>2 DEF Now, Inners, Held
      <3> QED
        BY <3>3, <1>3, <1>7
    <2> QED
      BY <2>1
  <1> QED
    BY <1>4, <1>5, <1>6, <1>7

\* Nothing else is left of the event before.
LEMMA NothingLeft ==
  ASSUME Modules, NEW d, Orderly(d), NEW b \in Runs(d), NEW s \in Streams, NEW e, AloneAt(d, b, s, e),
         Call(b).call \in {"event", "count"}
  PROVE  ~Bothers(d, s)
  <1> USE DEF Orderly, InOrder
  <1>1. ~Owed(d, m_allPathsDoneGroup(s))
    <2>1. ASSUME PathsToDo(d, s)
          PROVE  FALSE
      <3>1. CASE \E c \in Now(d) : c.call = "startPaths" /\ c.stream = s
        <4>1. PICK c \in Now(d) : c.call = "startPaths" /\ c.stream = s
          BY <3>1
        <4>2. Owes(c, StreamToken(s))
          BY <4>1 DEF Owes
        <4>3. c = Inner(Call(b))
          BY <4>2, NobodyElse
        <4> QED
          BY <4>1, <4>3 DEF Inner
      <3>2. CASE Waiting(d, m_allPathsDoneGroup(s)) # <<>>
        <4>1. IsSeq(Waiting(d, m_allPathsDoneGroup(s)))
          BY AnyGroup
        <4>2. PICK z : z \in Range(Waiting(d, m_allPathsDoneGroup(s)))
          BY <4>1, <3>2, HeadTail
        <4>3. IsNoted(m_allPathsDoneGroup(s), z)
          BY <4>2 DEF Blocks
        <4>4. z.call = "submit" /\ z.block[1] = scheduleDone(s)
          BY <4>3, Names DEF IsNoted, submit
        <4>5. Owes(Inner(z), StreamToken(s))
          BY <4>4 DEF Inner, Owes, scheduleDone
        <4> QED
          BY <4>2, <4>5, NobodyElse
      <3> QED
        BY <3>1, <3>2, <2>1 DEF PathsToDo
    <2> QED
      BY <2>1 DEF EventLoop
  <1>2. ASSUME NEW n, IsProducer(n), n[1] = s, Owed(d, m_group(n))
        PROVE  FALSE
    <2>x. PICK X : X = {m \in Of(s) : Owed(d, m_group(m))}
      OBVIOUS
    <2>1. n \in X
      BY <2>x, <1>2, PairIs DEF Of, IsProducer
    <2>2. X \in (SUBSET Of(s)) \ {{}} /\ \A m \in X : Owed(d, m_group(m))
      BY <2>x, <2>1
    <2>3. PICK m \in X : \E w : Works(w) /\ w[1] = s /\ w \notin X /\ WaitsFor(d, w, m)
      BY <2>2 DEF NoneInCircle
    <2>4. PICK w : Works(w) /\ w[1] = s /\ w \notin X /\ WaitsFor(d, w, m)
      BY <2>3
    <2>5. IsProducer(m)
      BY <2>x DEF Of, IsProducer
    <2>6. Wanted(d, w)
      BY <2>4, <2>5, WaiterWanted
    <2>7. ~(IsProducer(w) /\ Owed(d, m_group(w)))
      BY <2>4, <2>x, PairIs DEF Of, IsProducer
    <2> QED
      BY <2>4, <2>6, <2>7, <1>1 DEF Wanted
  <1> QED
    BY <1>1, <1>2 DEF Bothers, Wanted

\* Blocks that run or wait in a queue: what they owe is counted.
LEMMA HeldCounted ==
  ASSUME Modules, NEW d, Orderly(d), NEW a \in Held(d), NEW i \in DOMAIN a.calls
  PROVE  Fits(a.calls[i], After(a.calls, i)) /\ Counted(d, a.calls[i], After(a.calls, i))
  <1> USE DEF Orderly, InOrder
  <1>c. PICK c : c = a.calls[i]
    OBVIOUS
  <1>t. PICK S : S = After(a.calls, i)
    OBVIOUS
  <1>1. Fits(c, S)
    BY <1>c, <1>t DEF Blocks, Good
  <1>2. c \in Range(a.calls) /\ S \subseteq Range(a.calls)
    BY <1>c, <1>t DEF After, Range
  <1>3. ASSUME NEW z \in S \cup {c}, NEW x, Owes(Inner(z), x)
        PROVE  Owed(d, x)
    <2>1. Inner(z) \in Now(d)
      BY <1>2 DEF Now, Inners
    <2>2. Count(d, x) >= 1 /\ Count(d, x) \in Nat
      BY <2>1, <1>3, OwedNow, CountIsNat
    <2> QED
      BY <2>2 DEF Owed
  <1>4. ASSUME NEW w, Ending(w, S)
        PROVE  Wanted(d, w)
    <2>1. CASE a \in Runs(d)
      <3>1. Ending(w, Range(a.calls))
        BY <1>2, <1>4 DEF Ending
      <3> QED
        BY <2>1, <3>1, EndingWanted
    <2>2. CASE a \notin Runs(d)
      <3>1. ~(Copies(d, a) > 0)
        BY <2>2, RunsPositive
      <3>2. PICK q, s : InQueue(d, q, s) /\ a = Block(q, s)
        BY <3>1, HeldIs
      <3>3. a.calls = s /\ s = <<s[1]>>
        BY <3>2, QueuedIs DEF Block
      <3>4. DOMAIN s = {1}
        BY <3>3, OneElement
      <3>5. S = {}
        BY <3>3, <3>4, <1>t DEF After
      <3> QED
        BY <3>5, <1>4 DEF Ending
    <2> QED
      BY <2>1, <2>2
  <1>5. Counted(d, c, S)
    BY <1>3, <1>4 DEF Counted
  <1> QED
    BY <1>1, <1>5, <1>c, <1>t

\* A block that has still to be submitted is of one call.
LEMMA SubmittedCounted ==
  ASSUME NEW d, NEW x, IsSubmitted(x), \A y : Owes(x, y) => Owed(d, y)
  PROVE  Fits(x, {}) /\ Counted(d, x, {})
  <1>1. Fits(x, {})
    BY SubmittedFits
  <1>2. Inner(x) = x
    BY DEF IsSubmitted, Inner, scheduleDone, leave
  <1>3. Counted(d, x, {})
    BY <1>2 DEF Counted, Ending
  <1> QED
    BY <1>1, <1>3

\* What is pending has nothing to do for the stream, but for the block itself.
LEMMA PendingIs ==
  ASSUME EventInv, NEW b \in Running, NEW s \in Streams, Call(b).call \in {"event", "count"},
         NEW e, AloneAt(gcd, b, s, e), NEW calls \in Pending, Busy(s, calls)
  PROVE  calls = b.calls
  <1>d. PICK d : d = gcd
    OBVIOUS
  <1>1. /\ Modules /\ Orderly(d) /\ b \in Runs(d) /\ IsGcd(d) /\ Blocks(d)
        /\ AloneAt(d, b, s, e)
    BY <1>d, RunsInOrder
  <1>2. ~Bothers(d, s)
    BY <1>1, NothingLeft
  <1>3. PICK i \in DOMAIN calls : s \in StreamOf(calls[i])
    BY DEF Busy
  <1>4. ASSUME NEW a \in Held(d), a.calls = calls
        PROVE  calls = b.calls
    <2>c. PICK c : c = a.calls[i]
      OBVIOUS
    <2>t. PICK S : S = After(a.calls, i)
      OBVIOUS
    <2>1. Fits(c, S) /\ Counted(d, c, S)
      BY <1>1, <1>4, <2>c, <2>t, HeldCounted
    <2>2. s \in StreamOf(c) /\ c \in Range(a.calls)
      BY <1>3, <1>4, <2>c DEF Range
    <2>3. Owes(Inner(c), StreamToken(s))
      BY <1>1, <1>2, <2>1, <2>2, BusyCall
    <2>4. a = b
      BY <1>1, <2>2, <2>3, NobodyElse
    <2> QED
      BY <1>4, <2>4
  <1>5. ASSUME NEW x, calls = <<x>>, IsSubmitted(x), \A y : Owes(x, y) => Owed(d, y),
               ~Owes(x, StreamToken(s))
        PROVE  FALSE
    <2>t. PICK S : S = {}
      OBVIOUS
    <2>1. Fits(x, S) /\ Counted(d, x, S)
      BY <1>5, <2>t, SubmittedCounted
    <2>2. DOMAIN calls = {1} /\ calls[1] = x
      BY <1>5, OneElement
    <2>3. s \in StreamOf(x)
      BY <1>3, <2>2
    <2>4. Owes(Inner(x), StreamToken(s))
      BY <1>1, <1>2, <2>1, <2>3, BusyCall
    <2>5. Inner(x) = x
      BY <1>5 DEF IsSubmitted, Inner, scheduleDone, leave
    <2> QED
      BY <2>4, <2>5, <1>5
  <1>6. CASE calls \in {a.calls : a \in Running}
    <2>1. PICK a \in Running : calls = a.calls
      BY <1>6
    <2>2. a \in Held(d)
      BY <1>d DEF Held, Runs, Running
    <2> QED
      BY <2>1, <2>2, <1>4
  <1>7. CASE calls \in UNION {Range(gcd.queues[q].blocks) : q \in DOMAIN gcd.queues}
    <2>1. PICK q \in DOMAIN d.queues : calls \in Range(d.queues[q].blocks)
      BY <1>7, <1>d
    <2>2. Block(q, calls) \in Held(d)
      BY <2>1 DEF Held
    <2>3. Block(q, calls).calls = calls
      BY DEF Block
    <2> QED
      BY <2>2, <2>3, <1>4
  <1>8. CASE calls \in {c.block : c \in Waiters \cup Submits}
    <2>1. PICK c \in Waiters \cup Submits : calls = c.block
      BY <1>8
    <2>x. PICK x : x = c.block[1]
      OBVIOUS
    <2>2. CASE c \in Waiters
      <3>1. PICK g \in DOMAIN d.notify : c \in Range(d.notify[g])
        BY <2>2, <1>d DEF Waiters
      <3>2. c \in Range(Waiting(d, g))
        BY <3>1 DEF Waiting
      <3>3. IsNoted(g, c)
        BY <3>2, <1>1 DEF Blocks
      <3>4. c = submit(c.queue, <<x>>) /\ IsSubmitted(x)
        BY <3>3, <2>x DEF IsNoted, IsSubmitted
      <3>5. c.block = <<x>> /\ Inner(c) = x
        <4>1. c.call = "submit" /\ c.block = <<x>>
          BY <3>4 DEF submit
        <4> QED
          BY <4>1, <2>x DEF Inner
      <3>6. ASSUME NEW y, Owes(x, y)
            PROVE  Owed(d, y)
        <4>1. Count(d, y) >= 1 /\ Count(d, y) \in Nat
          BY <3>2, <3>5, <3>6, <1>1, OwedNoted, CountIsNat
        <4> QED
          BY <4>1 DEF Owed
      <3>7. ~Owes(x, StreamToken(s))
        BY <3>2, <3>5, <1>1, NobodyElse
      <3> QED
        BY <2>1, <3>4, <3>5, <3>6, <3>7, <1>5
    <2>3. CASE c \in Submits
      <3>1. PICK a \in Running : c \in Range(a.calls)
        BY <2>3 DEF Submits
      <3>2. c.call = "submit" /\ a \in Held(d)
        BY <2>3, <1>d DEF Submits, Held, Runs, Running
      <3>3. PICK j \in DOMAIN a.calls : c = a.calls[j]
        BY <3>1 DEF Range
      <3>4. Fits(c, After(a.calls, j))
        BY <3>2, <3>3, <1>1, HeldCounted
      <3>5. c = submit(c.queue, <<x>>) /\ IsSubmitted(x)
        BY <3>2, <3>4, <2>x DEF Fits
      <3>6. c.block = <<x>> /\ Inner(c) = x
        <4>1. c.block = <<x>>
          BY <3>5 DEF submit
        <4> QED
          BY <4>1, <3>2, <2>x DEF Inner
      <3>7. x \in Now(d)
        BY <3>1, <3>2, <3>6 DEF Now, Inners
      <3>8. ASSUME NEW y, Owes(x, y)
            PROVE  Owed(d, y)
        <4>1. Count(d, y) >= 1 /\ Count(d, y) \in Nat
          BY <3>7, <3>8, <1>1, OwedNow, CountIsNat
        <4> QED
          BY <4>1 DEF Owed
      <3>9. ~Owes(x, StreamToken(s))
        <4>1. x # Inner(Call(b))
          BY <3>5 DEF IsSubmitted, Inner, scheduleDone, leave
        <4> QED
          BY <4>1, <3>7, <1>1, NobodyElse
      <3> QED
        BY <2>1, <3>5, <3>6, <3>8, <3>9, <1>5
    <2> QED
      BY <2>1, <2>2, <2>3
  <1>9. \/ calls \in {a.calls : a \in Running}
        \/ calls \in UNION {Range(gcd.queues[q].blocks) : q \in DOMAIN gcd.queues}
        \/ calls \in {c.block : c \in Waiters \cup Submits}
    BY Zenon DEF Pending
  <1> QED
    BY <1>6, <1>7, <1>8, <1>9, Zenon

\* Then a stream that begins another event has nothing left of the last.
LEMMA QuietInOrder == EventInv => QuietBetweenEvents
  <1>1. ASSUME EventInv, NEW b \in Running, NEW s \in Streams,
               Call(b).call \in {"event", "count"}, Call(b).stream = s
        PROVE  /\ \A calls \in Pending : Busy(s, calls) => calls = b.calls
               /\ CopiesIn(b, gcd.running) = 1
               /\ Entered(gcd, m_allPathsDoneGroup(s)) = 0
               /\ \A n \in Of(s) : Entered(gcd, m_group(n)) = 0
               /\ \A w \in Of(s) \cup OwnFilters(s) : Entered(gcd, prefetchGroup(w)) = 0
    <2>d. PICK d : d = gcd
      OBVIOUS
    <2>e. PICK e : e = GoOn(d, b, Later(b))
      OBVIOUS
    <2>1. Modules /\ Orderly(d) /\ b \in Runs(d) /\ IsGcd(d) /\ Blocks(d) /\ Groups(d)
      BY <1>1, <2>d, RunsInOrder DEF Orderly, InOrder
    <2>2. Owes(Call(b), StreamToken(s)) /\ Call(b).call # "submit"
      BY <1>1 DEF Owes
    <2>3. AloneAt(d, b, s, e)
      BY <2>1, <2>2, <2>e, AloneIs
    <2>4. \A calls \in Pending : Busy(s, calls) => calls = b.calls
      BY <2>3, <2>d, <1>1, PendingIs
    <2>5. CopiesIn(b, gcd.running) = 1
      <3>1. Owes(Inner(Call(b)), StreamToken(s))
        BY <2>2 DEF Inner
      <3>2. Copies(d, b) = 1
        BY <3>1, <2>1, <2>3, NobodyElse
      <3> QED
        BY <3>2, <2>d DEF Copies
    <2>6. ~Bothers(d, s)
      BY <1>1, <2>1, <2>3, NothingLeft
    <2>7. \A g : IsGroup(g) /\ ~Owed(d, g) => Entered(d, g) = 0
      BY <2>1, CountIsNat DEF Groups, Owed
    <2>8. Entered(d, m_allPathsDoneGroup(s)) = 0
      <3>1. IsGroup(m_allPathsDoneGroup(s)) /\ ~Owed(d, m_allPathsDoneGroup(s))
        BY <2>6 DEF Bothers, IsGroup
      <3> QED
        BY <3>1, <2>7
    <2>9. ASSUME NEW n \in Of(s)
          PROVE  Entered(d, m_group(n)) = 0
      <3>1. IsProducer(n) /\ n[1] = s
        BY PairIs DEF Of, IsProducer
      <3>2. IsGroup(m_group(n)) /\ ~Owed(d, m_group(n))
        BY <3>1, <2>6 DEF Bothers, IsGroup, Wanted, Works
      <3> QED
        BY <3>2, <2>7
    <2>10. ASSUME NEW w \in Of(s) \cup OwnFilters(s)
           PROVE  Entered(d, prefetchGroup(w)) = 0
      <3>1. Works(w) /\ w[1] = s
        BY PairIs DEF Of, OwnFilters, IsProducer, IsFilter, Works
      <3>2. ~Wanted(d, w)
        BY <3>1, <2>6 DEF Bothers
      <3>3. IsGroup(prefetchGroup(w)) /\ ~Owed(d, prefetchGroup(w))
        BY <3>1, <3>2, <2>1, OwedWanted DEF IsGroup
      <3> QED
        BY <3>3, <2>7
    <2> QED
      BY <2>4, <2>5, <2>8, <2>9, <2>10, <2>d
  <1> QED
    BY <1>1 DEF QuietBetweenEvents

\* When a stream begins another event nothing is left of the one before, in
\* any configuration and with any number of streams.
THEOREM NothingIsLeftOver == Spec => []QuietBetweenEvents
  BY InOrderAlways, QuietInOrder, PTL

-----------------------------------------------------------------------------
(* Who may run in which queue, and who holds it. *)

IsUnsafe(v) == ThreadType(v) = "kThreadUnsafe"

\* The queue of all instances of a module, and what gives back both queues that
\* a module holds that is not thread safe.
Own(z) == <<"run", 0, z>>
Resumes(v) == {resume(s_non_thread_safe_queue), resume(Own(v[2]))}

\* No queue is given up while calls S are made.
Dry(S) == \A x \in S : x.call \notin {"sync", "wait"}

\* Module v may work in a block of queue q that has calls S to make after it.
MayWork(q, v, S) ==
    /\ Dry(S)
    /\ IF IsUnsafe(v) THEN Resumes(v) \subseteq S ELSE q = runQueue(v)

\* Call c may be made there, if wrappers R have run.  A filter that has does not
\* work again.
SuitsCall(q, c, S, R) ==
    /\ q = s_non_thread_safe_queue => c.call \in {"suspendUnsafe", "lock"}
    /\ c.call \in {"reads", "filtered", "put"} => MayWork(q, c.wrapper, S)
    /\ c.call = "work" => MayWork(q, c.wrapper, S) \/ (c.at # <<>> /\ c.wrapper \in R)
    /\ c.call = "sync" => IsUnsafe(c.wrapper) /\ Resumes(c.wrapper) \subseteq S
    /\ c.call = "wait" => \A v : c.group = Lock(v) => IsUnsafe(v) /\ Resumes(v) \subseteq S
    /\ c.call = "leave" => \A v : c.group # Lock(v)
    /\ c.call = "resume" =>
          \/ c.queue = s_non_thread_safe_queue /\ \E z : S = {resume(Own(z))}
          \/ (\E z : c.queue = Own(z)) /\ S = {}
    /\ c.call = "suspendOwn" => IsUnsafe(c.wrapper) /\ q = Own(c.wrapper[2]) /\ S = {}
    /\ c.call = "suspendUnsafe" => IsUnsafe(c.wrapper)
    /\ c.call \in {"suspendUnsafe", "lock"} => q = s_non_thread_safe_queue /\ S = {}

\* So may what it submits.
Suits(q, c, S, R) ==
    /\ SuitsCall(q, c, S, R)
    /\ c.call = "submit" => SuitsCall(c.queue, c.block[1], {}, R)

SuitsAll(q, s, R) == \A i \in DOMAIN s : Suits(q, s[i], After(s, i), R)

Susp(d, q) == QueueOf(d, q).suspended
Busyness(d, q) == QueueOf(d, q).busy

\* A serial queue runs one block.
Serial(d) ==
    \A a : Copies(d, a) > 0 /\ a.queue # Global =>
        /\ Busyness(d, a.queue) /\ Copies(d, a) = 1
        /\ \A c : Copies(d, c) > 0 /\ c.queue = a.queue => c = a

\* Blocks are where they may be.
Shapes(d, R) ==
    /\ \A a : Copies(d, a) > 0 => SuitsAll(a.queue, a.calls, R)
    /\ \A q, s : InQueue(d, q, s) => SuitsAll(q, s, R)
    /\ \A g : \A z \in Range(Waiting(d, g)) : Suits(Global, z, {}, R)

\* Block b has the queue of modules that are not thread safe: it will give it
\* back and has not lent it to others.
Holder(d, b) ==
    /\ resume(s_non_thread_safe_queue) \in Range(b.calls)
    /\ \A v : sync(v) \notin Range(b.calls)
    /\ \A v : wait(Lock(v)) \in Range(b.calls) => Entered(d, Lock(v)) = 0

\* A block that is to suspend the queue it runs in.
Suspender(b) == \E c \in Range(b.calls) : c.call = "suspendOwn"

\* A module's queue is suspended if somebody will resume it, and not while the
\* block runs that is to suspend it.
OwnQueues(d) ==
    /\ \A z : Susp(d, Own(z)) \in {0, 1} /\ Count(d, Own(z)) <= Susp(d, Own(z))
    /\ \A a : Copies(d, a) > 0 /\ Suspender(a) => Susp(d, a.queue) = 0

\* The same of the queue of all modules that are not thread safe, which has one
\* holder.
UnsafeQueue(d) ==
    /\ Susp(d, s_non_thread_safe_queue) \in {0, 1}
    /\ \A a : Copies(d, a) > 0 /\ a.queue = s_non_thread_safe_queue =>
                 Susp(d, s_non_thread_safe_queue) = 0
    /\ \A a : Copies(d, a) > 0 /\ Holder(d, a) => Susp(d, s_non_thread_safe_queue) = 1
    /\ \A a, b : Copies(d, a) > 0 /\ Copies(d, b) > 0 /\ Holder(d, a) /\ Holder(d, b) => a = b

\* No other queue is suspended.
OtherQueues(d) ==
    \A q : q # s_non_thread_safe_queue /\ (\A z : q # Own(z)) => Susp(d, q) = 0

\* No queue is resumed that is not suspended.
Sums(d) == OwnQueues(d) /\ UnsafeQueue(d) /\ OtherQueues(d)

\* The queues are in order, if wrappers R have run.
QueueInv(d, R) == Serial(d) /\ Shapes(d, R) /\ Sums(d)

-----------------------------------------------------------------------------
(* Sequences of calls that suit. *)

\* One more call before the others.
LEMMA SuitsCons ==
  ASSUME NEW q, NEW c, NEW s, IsSeq(s), NEW R
  PROVE  SuitsAll(q, <<c>> \o s, R) <=> Suits(q, c, Range(s), R) /\ SuitsAll(q, s, R)
  <1>r. PICK r : r = <<c>> \o s
    OBVIOUS
  <1>c. IsCons(r, c, s)
    BY <1>r DEF IsCons
  <1>1. /\ Len(s) \in Nat /\ DOMAIN s = 1 .. Len(s) /\ DOMAIN r = 1 .. Len(s) + 1
        /\ r[1] = c /\ After(r, 1) = Range(s)
        /\ \A i \in 1 .. Len(s) : r[i + 1] = s[i] /\ After(r, i + 1) = After(s, i)
    BY <1>c, AfterCons
  <1>2. ASSUME SuitsAll(q, r, R)
        PROVE  Suits(q, c, Range(s), R) /\ SuitsAll(q, s, R)
    <2>1. Suits(q, r[1], After(r, 1), R)
      BY <1>1, <1>2 DEF SuitsAll
    <2>2. ASSUME NEW i \in DOMAIN s
          PROVE  Suits(q, s[i], After(s, i), R)
      <3>1. i + 1 \in DOMAIN r /\ i \in 1 .. Len(s)
        BY <1>1
      <3>2. Suits(q, r[i + 1], After(r, i + 1), R)
        BY <3>1, <1>2 DEF SuitsAll
      <3> QED
        BY <3>1, <3>2, <1>1
    <2> QED
      BY <2>1, <2>2, <1>1 DEF SuitsAll
  <1>3. ASSUME Suits(q, c, Range(s), R), SuitsAll(q, s, R)
        PROVE  SuitsAll(q, r, R)
    <2>1. ASSUME NEW i \in DOMAIN r
          PROVE  Suits(q, r[i], After(r, i), R)
      <3>1. CASE i = 1
        BY <3>1, <1>1, <1>3
      <3>2. CASE i # 1
        <4>k. PICK k : k = i - 1
          OBVIOUS
        <4>1. k \in 1 .. Len(s) /\ i = k + 1
          BY <3>2, <1>1, <4>k
        <4>2. Suits(q, s[k], After(s, k), R)
          BY <4>1, <1>1, <1>3 DEF SuitsAll
        <4>3. r[k + 1] = s[k] /\ After(r, k + 1) = After(s, k)
          BY <4>1, <1>1
        <4> QED
          BY <4>1, <4>2, <4>3
      <3> QED
        BY <3>1, <3>2
    <2> QED
      BY <2>1 DEF SuitsAll
  <1> QED
    BY <1>2, <1>3, <1>r

\* None, and one call.
LEMMA SuitsOne ==
  ASSUME NEW q, NEW c, NEW R
  PROVE  SuitsAll(q, <<>>, R) /\ (SuitsAll(q, <<c>>, R) <=> Suits(q, c, {}, R))
  <1>1. IsSeq(<<>>) /\ Range(<<>>) = {} /\ <<c>> \o <<>> = <<c>>
    BY OneElement, ConcatCons
  <1>2. SuitsAll(q, <<>>, R)
    BY DEF SuitsAll
  <1>3. SuitsAll(q, <<c>> \o <<>>, R) <=> Suits(q, c, Range(<<>>), R) /\ SuitsAll(q, <<>>, R)
    BY <1>1, SuitsCons
  <1> QED
    BY <1>1, <1>2, <1>3

\* What suits whatever comes after it.
PlainCalls ==
    {"event", "count", "startPaths", "scheduleDone", "path", "prefetch", "notifyPrefetched", "next",
     "getAll", "getMissing", "awaitProducer", "produceImpl", "syncGet", "ran"}

\* Such a call, and one that leaves a group or waits for one of data.
LEMMA PlainSuits ==
  ASSUME NEW q, q # s_non_thread_safe_queue, NEW c, NEW S, NEW R,
         \/ c.call \in PlainCalls
         \/ c.call = "leave" /\ \A v : c.group # Lock(v)
         \/ c.call = "wait" /\ \A v : c.group # Lock(v)
  PROVE  Suits(q, c, S, R)
  BY DEF Suits, SuitsCall, PlainCalls

\* The block that runs next suits what it has still to do.
LEMMA HeadSuits ==
  ASSUME NEW d, IsGcd(d), NEW R, Shapes(d, R), NEW b \in Runs(d)
  PROVE  Suits(b.queue, Call(b), Range(Later(b)), R) /\ SuitsAll(b.queue, Later(b), R)
  <1>1. SuitsAll(b.queue, b.calls, R)
    BY RunsPositive DEF Shapes
  <1>2. IsSeq(Later(b)) /\ b.calls = <<Call(b)>> \o Later(b)
    BY RunningBlock
  <1>3. SuitsAll(b.queue, <<Call(b)>> \o Later(b), R)
    BY <1>1, <1>2
  <1> QED
    BY <1>2, <1>3, SuitsCons

\* Calls of which each suits whatever comes after it, before others.
LEMMA SuitsConcat ==
  ASSUME NEW q, NEW t, NEW s, IsSeq(t), IsSeq(s), NEW R, SuitsAll(q, s, R),
         \A c \in Range(t) : \A S : Range(s) \subseteq S => Suits(q, c, S, R)
  PROVE  SuitsAll(q, t \o s, R)
  <1>r. PICK r : r = t \o s
    OBVIOUS
  <1>1. /\ IsSeq(r) /\ Len(r) = Len(t) + Len(s)
        /\ \A i \in 1 .. Len(t) : r[i] = t[i]
        /\ \A i \in 1 .. Len(s) : r[Len(t) + i] = s[i]
    BY <1>r, Concat
  <1>2. /\ Len(s) \in Nat /\ DOMAIN s = 1 .. Len(s) /\ DOMAIN r = 1 .. Len(r)
        /\ Len(t) \in Nat /\ Range(t) = {t[i] : i \in 1 .. Len(t)}
    BY <1>1, SeqOf
  <1>3. ASSUME NEW i \in 1 .. Len(s)
        PROVE  After(r, Len(t) + i) = After(s, i)
    <2>1. ASSUME NEW z \in After(r, Len(t) + i)
          PROVE  z \in After(s, i)
      <3>1. PICK j \in DOMAIN r : j > Len(t) + i /\ z = r[j]
        BY DEF After
      <3>2. j - Len(t) \in 1 .. Len(s) /\ j = Len(t) + (j - Len(t)) /\ j - Len(t) > i
        BY <3>1, <1>1, <1>2
      <3>3. z = s[j - Len(t)]
        BY <3>1, <3>2, <1>1
      <3> QED
        BY <3>2, <3>3, <1>2 DEF After
    <2>2. ASSUME NEW j \in 1 .. Len(s), j > i
          PROVE  s[j] \in After(r, Len(t) + i)
      <3>1. Len(t) + j \in DOMAIN r /\ Len(t) + j > Len(t) + i
        BY <2>2, <1>1, <1>2
      <3> QED
        BY <3>1, <1>1 DEF After
    <2> QED
      BY <2>1, <2>2, <1>2 DEF After
  <1>4. ASSUME NEW i \in DOMAIN r
        PROVE  Suits(q, r[i], After(r, i), R)
    <2>1. CASE i \in 1 .. Len(t)
      <3>1. ASSUME NEW j \in 1 .. Len(s)
            PROVE  s[j] \in After(r, i)
        <4>1. Len(t) + j \in DOMAIN r /\ Len(t) + j > i /\ r[Len(t) + j] = s[j]
          BY <2>1, <1>1, <1>2
        <4>2. r[Len(t) + j] \in After(r, i)
          BY <4>1 DEF After
        <4> QED
          BY <4>1, <4>2
      <3>2. Range(s) \subseteq After(r, i)
        BY <3>1, SeqOf
      <3>3. t[i] \in Range(t) /\ r[i] = t[i]
        <4>1. r[i] = t[i]
          BY <2>1, <1>1
        <4>2. t[i] \in Range(t)
          BY <2>1, <1>2
        <4> QED
          BY <4>1, <4>2
      <3>4. Suits(q, t[i], After(r, i), R)
        BY <3>2, <3>3
      <3> QED
        BY <3>3, <3>4
    <2>2. CASE i \notin 1 .. Len(t)
      <3>1. i - Len(t) \in 1 .. Len(s) /\ i = Len(t) + (i - Len(t))
        BY <2>2, <1>1, <1>2
      <3>2. Suits(q, s[i - Len(t)], After(s, i - Len(t)), R)
        BY <3>1, <1>2 DEF SuitsAll
      <3>3. r[Len(t) + (i - Len(t))] = s[i - Len(t)] /\ After(r, Len(t) + (i - Len(t))) = After(s, i - Len(t))
        BY <3>1, <1>1, <1>3
      <3> QED
        BY <3>1, <3>2, <3>3
    <2> QED
      BY <2>1, <2>2
  <1> QED
    BY <1>4, <1>r DEF SuitsAll

\* Any call of a sequence suits what comes after it.
LEMMA SuitsMember ==
  ASSUME NEW q, NEW s, NEW R, SuitsAll(q, s, R), NEW c \in Range(s)
  PROVE  \E S : S \subseteq Range(s) /\ Suits(q, c, S, R)
  <1>1. PICK i \in DOMAIN s : c = s[i]
    BY DEF Range
  <1>2. After(s, i) \subseteq Range(s)
    BY DEF After, Range
  <1>3. Suits(q, c, After(s, i), R)
    BY <1>1 DEF SuitsAll
  <1> QED
    BY <1>2, <1>3

\* A module that may work may have more calls after it, in which no queue is
\* given up.
LEMMA MayWorkMore ==
  ASSUME NEW q, NEW v, NEW S, MayWork(q, v, S), NEW T, S \subseteq T, Dry(T)
  PROVE  MayWork(q, v, T)
  BY DEF MayWork

-----------------------------------------------------------------------------
(* Who owes the same. *)

\* A sequence in which a call owes x.
LEMMA NPositive ==
  ASSUME NEW s, IsSeq(s), NEW z \in Range(s), NEW x, Owes(Inner(z), x)
  PROVE  N(s, x) >= 1
  <1>1. PICK i \in DOMAIN s : z = s[i]
    BY DEF Range
  <1>2. i \in OwingIn(s, x)
    BY <1>1 DEF OwingIn
  <1>3. IsFiniteSet(OwingIn(s, x)) /\ N(s, x) \in Nat
    BY FinitelyOwing
  <1>4. Cardinality(OwingIn(s, x)) # 0
    BY <1>2, <1>3, FS_EmptySet
  <1> QED
    BY <1>3, <1>4 DEF N

\* One in which none does.
LEMMA NZero ==
  ASSUME NEW s, NEW x, \A z \in Range(s) : ~Owes(Inner(z), x)
  PROVE  N(s, x) = 0
  <1>1. OwingIn(s, x) = {}
    BY DEF OwingIn, Range
  <1> QED
    BY <1>1, FS_EmptySet DEF N

\* Blocks a and b both owe x.
BothOwe(a, b, x) ==
    /\ \E z \in Range(a.calls) : Owes(Inner(z), x)
    /\ \E z \in Range(b.calls) : Owes(Inner(z), x)

\* If it is owed only once they are the same.
LEMMA TwoOwe ==
  ASSUME NEW d, IsGcd(d), NEW a, NEW b, Copies(d, a) > 0, Copies(d, b) > 0,
         NEW x, BothOwe(a, b, x), Count(d, x) <= 1
  PROVE  a = b /\ Copies(d, a) = 1
  <1>1. a \in Runs(d) /\ b \in Runs(d)
    BY RunsPositive
  <1>2. PICK y \in Range(a.calls) : Owes(Inner(y), x)
    BY DEF BothOwe
  <1>3. PICK z \in Range(b.calls) : Owes(Inner(z), x)
    BY DEF BothOwe
  <1>4. IsSeq(b.calls)
    BY <1>1, RunningBlock
  <1>5. N(b.calls, x) >= 1 /\ N(b.calls, x) \in Nat
    BY <1>3, <1>4, NPositive, FinitelyOwing
  <1>6. PICK e : e = [d EXCEPT !.running = Bags!BagRemove(@, b)]
    OBVIOUS
  <1>7. /\ IsGcd(e) /\ Count(e, x) = Count(d, x) - N(b.calls, x)
        /\ Copies(e, a) = IF a = b THEN Copies(d, b) - 1 ELSE Copies(d, a)
    BY <1>1, <1>6, BlockRemoved
  <1>8. Count(e, x) \in Nat /\ Count(d, x) \in Nat
    BY <1>7, CountIsNat
  <1>9. Copies(e, a) \in Nat /\ Copies(d, a) \in Nat /\ Copies(d, b) \in Nat
    BY <1>7, RunsPositive
  <1>10. Copies(e, a) = 0
    <2> SUFFICES ASSUME Copies(e, a) > 0
                 PROVE  FALSE
      BY <1>9
    <2>1. a \in Runs(e)
      BY <1>7, RunsPositive
    <2>2. Count(e, x) >= 1
      BY <2>1, <1>2, <1>7, OwedByBlock
    <2> QED
      BY <2>2, <1>5, <1>7, <1>8
  <1> QED
    BY <1>7, <1>9, <1>10

-----------------------------------------------------------------------------
(* What the functions of libdispatch may do to queues. *)

\* Between d and w no block has been started or ended but in the global queue,
\* and what has been submitted or noted suits.
Tame(d, w, R) ==
    /\ IsGcd(w)
    /\ \A q : Busyness(w, q) = Busyness(d, q)
    /\ \A a : /\ Copies(w, a) >= Copies(d, a)
              /\ Copies(w, a) # Copies(d, a) => a.queue = Global /\ SuitsAll(Global, a.calls, R)
    /\ \A q, s : InQueue(w, q, s) => InQueue(d, q, s) \/ SuitsAll(q, s, R)
    /\ \A g : \A z \in Range(Waiting(w, g)) : z \in Range(Waiting(d, g)) \/ Suits(Global, z, {}, R)

\* Nor has a queue been suspended or resumed, or more been promised of it.
Level(d, w) ==
    /\ \A q : Susp(w, q) = Susp(d, q)
    /\ \A a : Copies(w, a) # Copies(d, a) => resume(s_non_thread_safe_queue) \notin Range(a.calls)
    /\ \A z : Count(w, Own(z)) <= Count(d, Own(z))
    /\ \A v : Entered(w, Lock(v)) >= Entered(d, Lock(v))

Smooth(d, w, R) == Tame(d, w, R) /\ Level(d, w)

\* Nothing, and one thing after another.
LEMMA TameRefl ==
  ASSUME NEW d, IsGcd(d), NEW R
  PROVE  Smooth(d, d, R)
  <1>1. \A a, g, z : Copies(d, a) \in Nat /\ Entered(d, g) \in Nat /\ Count(d, z) \in Nat
    BY RunsPositive, AnyGroup, CountIsNat
  <1> QED
    BY <1>1 DEF Smooth, Tame, Level

\* Tame steps together.
LEMMA TameTrans ==
  ASSUME NEW d, IsGcd(d), NEW u, NEW w, NEW R, Tame(d, u, R), Tame(u, w, R)
  PROVE  Tame(d, w, R)
  <1>1. IsGcd(u) /\ IsGcd(w)
    BY DEF Tame
  <1>2. \A q : Busyness(w, q) = Busyness(d, q)
    BY DEF Tame
  <1>3. ASSUME NEW a
        PROVE  /\ Copies(w, a) >= Copies(d, a)
               /\ Copies(w, a) # Copies(d, a) => a.queue = Global /\ SuitsAll(Global, a.calls, R)
    <2>1. Copies(d, a) \in Nat /\ Copies(u, a) \in Nat /\ Copies(w, a) \in Nat
      BY <1>1, RunsPositive
    <2>2. /\ Copies(u, a) >= Copies(d, a)
          /\ Copies(u, a) # Copies(d, a) => a.queue = Global /\ SuitsAll(Global, a.calls, R)
      BY DEF Tame
    <2>3. /\ Copies(w, a) >= Copies(u, a)
          /\ Copies(w, a) # Copies(u, a) => a.queue = Global /\ SuitsAll(Global, a.calls, R)
      BY DEF Tame
    <2> QED
      BY <2>1, <2>2, <2>3
  <1>4. \A q, s : InQueue(w, q, s) => InQueue(d, q, s) \/ SuitsAll(q, s, R)
    BY DEF Tame
  <1>5. \A g : \A z \in Range(Waiting(w, g)) : z \in Range(Waiting(d, g)) \/ Suits(Global, z, {}, R)
    BY DEF Tame
  <1> QED
    BY <1>1, <1>2, <1>3, <1>4, <1>5 DEF Tame

\* Level ones.
LEMMA LevelTrans ==
  ASSUME NEW d, IsGcd(d), NEW u, IsGcd(u), NEW w, IsGcd(w), Level(d, u), Level(u, w)
  PROVE  Level(d, w)
  <1>1. \A q : Susp(w, q) = Susp(d, q)
    BY DEF Level
  <1>2. ASSUME NEW a, Copies(w, a) # Copies(d, a)
        PROVE  resume(s_non_thread_safe_queue) \notin Range(a.calls)
    BY <1>2 DEF Level
  <1>3. ASSUME NEW z
        PROVE  Count(w, Own(z)) <= Count(d, Own(z))
    <2>1. Count(d, Own(z)) \in Nat /\ Count(u, Own(z)) \in Nat /\ Count(w, Own(z)) \in Nat
      BY CountIsNat
    <2>2. Count(u, Own(z)) <= Count(d, Own(z)) /\ Count(w, Own(z)) <= Count(u, Own(z))
      BY DEF Level
    <2> QED
      BY <2>1, <2>2
  <1>4. ASSUME NEW v
        PROVE  Entered(w, Lock(v)) >= Entered(d, Lock(v))
    <2>1. Entered(d, Lock(v)) \in Nat /\ Entered(u, Lock(v)) \in Nat /\ Entered(w, Lock(v)) \in Nat
      BY AnyGroup
    <2>2. Entered(u, Lock(v)) >= Entered(d, Lock(v)) /\ Entered(w, Lock(v)) >= Entered(u, Lock(v))
      BY DEF Level
    <2> QED
      BY <2>1, <2>2
  <1> QED
    BY <1>1, <1>2, <1>3, <1>4 DEF Level

\* Both.
LEMMA SmoothTrans ==
  ASSUME NEW d, IsGcd(d), NEW u, NEW w, NEW R, Smooth(d, u, R), Smooth(u, w, R)
  PROVE  Smooth(d, w, R)
  <1>1. IsGcd(u) /\ IsGcd(w)
    BY DEF Smooth, Tame
  <1> QED
    BY <1>1, TameTrans, LevelTrans DEF Smooth

\* A group is entered.
LEMMA EnterSmooth ==
  ASSUME NEW d, IsGcd(d), NEW g, NEW w, EnterEffect(d, g, w), NEW R
  PROVE  Smooth(d, w, R)
  <1>1. IsGcd(w)
    BY DEF EnterEffect
  <1>2. \A q : QueueOf(w, q) = QueueOf(d, q)
    BY DEF EnterEffect
  <1>3. \A a : Copies(w, a) = Copies(d, a) /\ Copies(d, a) \in Nat
    BY RunsPositive DEF EnterEffect
  <1>4. \A h : Waiting(w, h) = Waiting(d, h)
    BY DEF EnterEffect
  <1>5. \A x : Count(w, x) = Count(d, x) /\ Count(d, x) \in Nat
    BY CountIsNat DEF EnterEffect
  <1>6. ASSUME NEW h
        PROVE  Entered(w, h) >= Entered(d, h)
    <2>1. Entered(d, h) \in Nat /\ Entered(w, h) = Entered(d, h) + (IF h = g THEN 1 ELSE 0)
      BY AnyGroup DEF EnterEffect
    <2> QED
      BY <2>1
  <1>7. Tame(d, w, R)
    BY <1>1, <1>2, <1>3, <1>4 DEF Tame, Busyness, InQueue
  <1>8. Level(d, w)
    BY <1>2, <1>3, <1>5, <1>6 DEF Level, Susp
  <1> QED
    BY <1>7, <1>8 DEF Smooth

\* One is left.
LEMMA LeaveTame ==
  ASSUME NEW d, IsGcd(d), NEW g, NEW w, LeaveEffect(d, g, w), NEW R
  PROVE  /\ Tame(d, w, R)
         /\ (\A v : g # Lock(v)) => Level(d, w)
  <1>1. IsGcd(w)
    BY DEF LeaveEffect
  <1>2. \A q : QueueOf(w, q) = QueueOf(d, q)
    BY DEF LeaveEffect
  <1>3. \A a : Copies(w, a) = Copies(d, a) /\ Copies(d, a) \in Nat
    BY RunsPositive DEF LeaveEffect
  <1>4. ASSUME NEW h, NEW z \in Range(Waiting(w, h))
        PROVE  z \in Range(Waiting(d, h))
    <2>1. Waiting(w, h) = IF h = g /\ IsLast(d, g) THEN <<>> ELSE Waiting(d, h)
      BY DEF LeaveEffect
    <2> QED
      BY <2>1, OneElement
  <1>5. ASSUME NEW x
        PROVE  Count(w, x) <= Count(d, x)
    <2>1. Count(w, x) = Count(d, x) - N(ToSubmit(d, g), x)
      BY DEF LeaveEffect
    <2>2. IsSeq(ToSubmit(d, g))
      BY AnyGroup, OneElement DEF ToSubmit
    <2>3. N(ToSubmit(d, g), x) \in Nat /\ Count(d, x) \in Nat
      BY <2>2, FinitelyOwing, CountIsNat
    <2> QED
      BY <2>1, <2>3
  <1>6. ASSUME NEW h, h # g
        PROVE  Entered(w, h) >= Entered(d, h)
    <2>1. Entered(d, h) \in Nat /\ Entered(w, h) = Entered(d, h)
      BY <1>6, AnyGroup DEF LeaveEffect
    <2> QED
      BY <2>1
  <1>7. Tame(d, w, R)
    BY <1>1, <1>2, <1>3, <1>4 DEF Tame, Busyness, InQueue
  <1>8. (\A v : g # Lock(v)) => Level(d, w)
    BY <1>2, <1>3, <1>5, <1>6 DEF Level, Susp
  <1> QED
    BY <1>7, <1>8

\* A queue is suspended or resumed.
LEMMA SuspendedTame ==
  ASSUME NEW d, IsGcd(d), NEW q, NEW n, NEW w, SuspendedEffect(d, q, n, w), NEW R
  PROVE  /\ Tame(d, w, R)
         /\ \A y : Susp(w, y) = IF y = q THEN n ELSE Susp(d, y)
         /\ \A x : Count(w, x) = Count(d, x) /\ Entered(w, x) = Entered(d, x)
         /\ \A a : Copies(w, a) = Copies(d, a)
  <1>1. IsGcd(w)
    BY DEF SuspendedEffect
  <1>2. ASSUME NEW y
        PROVE  /\ QueueOf(w, y).blocks = QueueOf(d, y).blocks
               /\ QueueOf(w, y).busy = QueueOf(d, y).busy
               /\ QueueOf(w, y).suspended = IF y = q THEN n ELSE QueueOf(d, y).suspended
    <2>1. QueueOf(w, y) = IF y = q THEN [QueueOf(d, q) EXCEPT !.suspended = n] ELSE QueueOf(d, y)
      BY DEF SuspendedEffect
    <2>2. QueueOf(d, q) = [blocks |-> QueueOf(d, q).blocks, suspended |-> QueueOf(d, q).suspended,
                           busy |-> QueueOf(d, q).busy]
      BY AnyQueue DEF IsQueue
    <2> QED
      BY <2>1, <2>2
  <1>3. \A a : Copies(w, a) = Copies(d, a) /\ Copies(d, a) \in Nat
    BY RunsPositive DEF SuspendedEffect
  <1>4. \A h : Waiting(w, h) = Waiting(d, h)
    BY DEF SuspendedEffect
  <1>5. Tame(d, w, R)
    BY <1>1, <1>2, <1>3, <1>4 DEF Tame, Busyness, InQueue
  <1> QED
    BY <1>2, <1>3, <1>5 DEF Susp, SuspendedEffect

\* A block of the global queue is submitted.
LEMMA ForkTame ==
  ASSUME NEW d, IsGcd(d), NEW s, NEW w, ForkEffect(d, s, w), NEW R, SuitsAll(Global, s, R)
  PROVE  /\ Tame(d, w, R) /\ \A q : Susp(w, q) = Susp(d, q)
         /\ resume(s_non_thread_safe_queue) \notin Range(s) /\ (\A z : N(s, Own(z)) = 0) =>
               Level(d, w)
  <1>1. IsGcd(w)
    BY DEF ForkEffect
  <1>2. \A q : QueueOf(w, q) = QueueOf(d, q)
    BY DEF ForkEffect
  <1>3. ASSUME NEW a
        PROVE  /\ Copies(w, a) >= Copies(d, a)
               /\ Copies(w, a) # Copies(d, a) => a.queue = Global /\ a.calls = s
    <2>1. Copies(w, a) = Copies(d, a) + (IF a = Block(Global, s) THEN 1 ELSE 0) /\ Copies(d, a) \in Nat
      BY RunsPositive DEF ForkEffect
    <2>2. Block(Global, s).queue = Global /\ Block(Global, s).calls = s
      BY DEF Block
    <2> QED
      BY <2>1, <2>2
  <1>4. \A h : Waiting(w, h) = Waiting(d, h)
    BY DEF ForkEffect
  <1>5. ASSUME NEW x, N(s, x) = 0
        PROVE  Count(w, x) <= Count(d, x)
    <2>1. Count(w, x) = Count(d, x) + N(s, x) /\ Count(d, x) \in Nat
      BY CountIsNat DEF ForkEffect
    <2> QED
      BY <2>1, <1>5
  <1>6. ASSUME NEW h
        PROVE  Entered(w, h) >= Entered(d, h)
    <2>1. Entered(d, h) \in Nat /\ Entered(w, h) = Entered(d, h)
      BY AnyGroup DEF ForkEffect
    <2> QED
      BY <2>1
  <1>7. Tame(d, w, R)
    BY <1>1, <1>2, <1>3, <1>4 DEF Tame, Busyness, InQueue
  <1>8. resume(s_non_thread_safe_queue) \notin Range(s) /\ (\A z : N(s, Own(z)) = 0) => Level(d, w)
    BY <1>2, <1>3, <1>5, <1>6 DEF Level, Susp
  <1> QED
    BY <1>2, <1>7, <1>8 DEF Susp

\* A block of a serial queue is.
LEMMA EnqueueTame ==
  ASSUME NEW d, IsGcd(d), NEW q, NEW s, NEW w, EnqueueEffect(d, q, s, w), NEW R, SuitsAll(q, s, R)
  PROVE  /\ Tame(d, w, R) /\ \A y : Susp(w, y) = Susp(d, y)
         /\ \A a : Copies(w, a) = Copies(d, a)
         /\ \A h : Entered(w, h) = Entered(d, h)
         /\ (\A z : One(s[1], Own(z)) = 0) => Level(d, w)
  <1>1. IsGcd(w)
    BY DEF EnqueueEffect
  <1>2. ASSUME NEW y
        PROVE  /\ QueueOf(w, y).blocks = IF y = q THEN Append(QueueOf(d, q).blocks, s)
                                         ELSE QueueOf(d, y).blocks
               /\ QueueOf(w, y).busy = QueueOf(d, y).busy
               /\ QueueOf(w, y).suspended = QueueOf(d, y).suspended
    <2>1. QueueOf(w, y) = IF y = q THEN [QueueOf(d, q) EXCEPT !.blocks = Append(@, s)]
                          ELSE QueueOf(d, y)
      BY DEF EnqueueEffect
    <2>2. QueueOf(d, q) = [blocks |-> QueueOf(d, q).blocks, suspended |-> QueueOf(d, q).suspended,
                           busy |-> QueueOf(d, q).busy]
      BY AnyQueue DEF IsQueue
    <2> QED
      BY <2>1, <2>2
  <1>3. \A a : Copies(w, a) = Copies(d, a) /\ Copies(d, a) \in Nat
    BY RunsPositive DEF EnqueueEffect
  <1>4. \A h : Waiting(w, h) = Waiting(d, h) /\ Entered(w, h) = Entered(d, h) /\ Entered(d, h) \in Nat
    BY AnyGroup DEF EnqueueEffect
  <1>5. ASSUME NEW y, NEW c, InQueue(w, y, c)
        PROVE  InQueue(d, y, c) \/ SuitsAll(y, c, R)
    <2>1. CASE y = q
      <3>1. IsSeq(QueueOf(d, q).blocks)
        BY AnyQueue DEF IsQueue
      <3>2. Range(Append(QueueOf(d, q).blocks, s)) = Range(QueueOf(d, q).blocks) \cup {s}
        BY <3>1, AppendIs
      <3> QED
        BY <2>1, <3>2, <1>2, <1>5 DEF InQueue
    <2>2. CASE y # q
      BY <2>2, <1>2, <1>5 DEF InQueue
    <2> QED
      BY <2>1, <2>2
  <1>6. ASSUME NEW x, One(s[1], x) = 0
        PROVE  Count(w, x) <= Count(d, x)
    <2>1. Count(w, x) = Count(d, x) + One(s[1], x) /\ Count(d, x) \in Nat
      BY CountIsNat DEF EnqueueEffect
    <2> QED
      BY <2>1, <1>6
  <1>7. Tame(d, w, R)
    BY <1>1, <1>2, <1>3, <1>4, <1>5 DEF Tame, Busyness
  <1>8. (\A z : One(s[1], Own(z)) = 0) => Level(d, w)
    BY <1>2, <1>3, <1>4, <1>6 DEF Level, Susp
  <1> QED
    BY <1>2, <1>3, <1>4, <1>7, <1>8 DEF Susp

\* A block waits for a group.
LEMMA NoteSmooth ==
  ASSUME NEW d, IsGcd(d), NEW g, NEW q, NEW s, NEW w, NoteEffect(d, g, q, s, w), NEW R,
         Suits(Global, submit(q, s), {}, R), \A z : One(submit(q, s), Own(z)) = 0
  PROVE  Smooth(d, w, R)
  <1>1. IsGcd(w)
    BY DEF NoteEffect
  <1>2. \A y : QueueOf(w, y) = QueueOf(d, y)
    BY DEF NoteEffect
  <1>3. \A a : Copies(w, a) = Copies(d, a) /\ Copies(d, a) \in Nat
    BY RunsPositive DEF NoteEffect
  <1>4. ASSUME NEW h, NEW z \in Range(Waiting(w, h))
        PROVE  z \in Range(Waiting(d, h)) \/ Suits(Global, z, {}, R)
    <2>1. Waiting(w, h) = IF h = g THEN Append(Waiting(d, g), submit(q, s)) ELSE Waiting(d, h)
      BY DEF NoteEffect
    <2>2. IsSeq(Waiting(d, g))
      BY AnyGroup
    <2>3. Range(Append(Waiting(d, g), submit(q, s))) = Range(Waiting(d, g)) \cup {submit(q, s)}
      BY <2>2, AppendIs
    <2>4. CASE h = g
      BY <2>1, <2>3, <2>4, <1>4
    <2>5. CASE h # g
      BY <2>1, <2>5, <1>4
    <2> QED
      BY <2>4, <2>5
  <1>5. ASSUME NEW z
        PROVE  Count(w, Own(z)) <= Count(d, Own(z))
    <2>1. Count(w, Own(z)) = Count(d, Own(z)) + One(submit(q, s), Own(z)) /\ Count(d, Own(z)) \in Nat
      BY CountIsNat DEF NoteEffect
    <2> QED
      BY <2>1
  <1>6. ASSUME NEW h
        PROVE  Entered(w, h) >= Entered(d, h)
    <2>1. Entered(d, h) \in Nat /\ Entered(w, h) = Entered(d, h)
      BY AnyGroup DEF NoteEffect
    <2> QED
      BY <2>1
  <1>7. Tame(d, w, R)
    BY <1>1, <1>2, <1>3, <1>4 DEF Tame, Busyness, InQueue
  <1>8. Level(d, w)
    BY <1>2, <1>3, <1>5, <1>6 DEF Level, Susp
  <1> QED
    BY <1>7, <1>8 DEF Smooth

-----------------------------------------------------------------------------
(* A block goes on, after a tame step. *)

\* After a step of block b that made w of d, and left b with calls r, the state
\* is e.
Moved(d, w, b, r, e, R) ==
    /\ Copies(d, b) > 0 /\ Tame(d, w, R) /\ SuitsAll(b.queue, r, R)
    /\ GoOnEffect(w, b, r, e)

\* Who runs then.
LEMMA MovedRuns ==
  ASSUME NEW d, IsGcd(d), NEW w, NEW b, NEW r, NEW e, NEW R, Moved(d, w, b, r, e, R),
         NEW a, Copies(e, a) > 0
  PROVE  \/ r # <<>> /\ a = Block(b.queue, r) /\ a.queue = b.queue /\ a.calls = r
         \/ Copies(d, a) > 0 /\ (a = b => Copies(w, b) > 1)
         \/ Copies(w, a) # Copies(d, a)
  <1>1. Copies(e, a) = Copies(w, a) - (IF a = b THEN 1 ELSE 0)
                         + (IF r # <<>> /\ a = Block(b.queue, r) THEN 1 ELSE 0)
    BY DEF Moved, GoOnEffect
  <1>2. IsGcd(w) /\ IsGcd(e)
    BY DEF Moved, Tame, GoOnEffect
  <1>3. Copies(w, a) \in Nat /\ Copies(d, a) \in Nat /\ Copies(e, a) \in Nat
    BY <1>2, RunsPositive
  <1>4. Block(b.queue, r).queue = b.queue /\ Block(b.queue, r).calls = r
    BY DEF Block
  <1> QED
    BY <1>1, <1>3, <1>4

\* Serial queues still run one block.
LEMMA SerialAfter ==
  ASSUME NEW d, IsGcd(d), Serial(d), NEW w, NEW b, NEW r, NEW e, NEW R, Moved(d, w, b, r, e, R)
  PROVE  Serial(e)
  <1>1. \A a : Copies(e, a) = Copies(w, a) - (IF a = b THEN 1 ELSE 0)
                                + (IF r # <<>> /\ a = Block(b.queue, r) THEN 1 ELSE 0)
    BY DEF Moved, GoOnEffect
  <1>2. IsGcd(w) /\ IsGcd(e)
    BY DEF Moved, Tame, GoOnEffect
  <1>3. ASSUME NEW a, a.queue # Global
        PROVE  /\ Copies(e, a) = Copies(d, a) - (IF a = b THEN 1 ELSE 0)
                                   + (IF r # <<>> /\ a = Block(b.queue, r) THEN 1 ELSE 0)
               /\ Copies(d, a) \in Nat /\ Copies(e, a) \in Nat
    <2>1. Copies(w, a) = Copies(d, a)
      BY <1>3 DEF Moved, Tame
    <2>2. Copies(d, a) \in Nat /\ Copies(e, a) \in Nat
      BY <1>2, RunsPositive
    <2> QED
      BY <2>1, <2>2, <1>1
  <1>4. Block(b.queue, r).queue = b.queue
    BY DEF Block
  <1>5. Copies(d, b) > 0
    BY DEF Moved
  <1>6. ASSUME NEW y
        PROVE  Busyness(e, y) = IF r = <<>> /\ b.queue # Global /\ y = b.queue THEN FALSE
                                ELSE Busyness(d, y)
    <2>1. Busyness(w, y) = Busyness(d, y)
      BY DEF Moved, Tame
    <2>2. QueueOf(e, y) = IF r = <<>> /\ b.queue # Global /\ y = b.queue
                            THEN [QueueOf(w, y) EXCEPT !.busy = FALSE]
                            ELSE QueueOf(w, y)
      BY DEF Moved, GoOnEffect
    <2>3. QueueOf(w, y) = [blocks |-> QueueOf(w, y).blocks, suspended |-> QueueOf(w, y).suspended,
                           busy |-> QueueOf(w, y).busy]
      BY <1>2, AnyQueue DEF IsQueue
    <2>4. CASE r = <<>> /\ b.queue # Global /\ y = b.queue
      <3>1. QueueOf(e, y) = [QueueOf(w, y) EXCEPT !.busy = FALSE]
        BY <2>2, <2>4
      <3>2. QueueOf(e, y).busy = FALSE
        BY <3>1, <2>3
      <3> QED
        BY <3>2, <2>4 DEF Busyness
    <2>5. CASE ~(r = <<>> /\ b.queue # Global /\ y = b.queue)
      BY <2>1, <2>2, <2>5 DEF Busyness
    <2> QED
      BY <2>4, <2>5
  <1>7. ASSUME NEW a, Copies(e, a) > 0, a.queue # Global
        PROVE  /\ Busyness(e, a.queue) /\ Copies(e, a) = 1
               /\ \A c : Copies(e, c) > 0 /\ c.queue = a.queue => c = a
    <2>1. CASE a.queue = b.queue
      <3>1. /\ Busyness(d, b.queue) /\ Copies(d, b) = 1
            /\ \A c : Copies(d, c) > 0 /\ c.queue = b.queue => c = b
        BY <2>1, <1>5, <1>7 DEF Serial
      <3>2. ASSUME NEW c, Copies(e, c) > 0, c.queue = b.queue
            PROVE  r # <<>> /\ c = Block(b.queue, r) /\ Copies(e, c) = 1
        <4>1. c.queue # Global
          BY <3>2, <2>1, <1>7
        <4>2. /\ Copies(e, c) = Copies(d, c) - (IF c = b THEN 1 ELSE 0)
                                   + (IF r # <<>> /\ c = Block(b.queue, r) THEN 1 ELSE 0)
              /\ Copies(d, c) \in Nat /\ Copies(e, c) \in Nat
          BY <4>1, <1>3
        <4>3. c # b => Copies(d, c) = 0
          BY <3>1, <3>2, <4>2
        <4>4. Copies(d, c) - (IF c = b THEN 1 ELSE 0) = 0
          BY <4>2, <4>3, <3>1
        <4> QED
          BY <4>2, <4>4, <3>2
      <3>3. r # <<>> /\ a = Block(b.queue, r) /\ Copies(e, a) = 1
        BY <3>2, <2>1, <1>7
      <3>4. Busyness(e, a.queue) = Busyness(d, b.queue)
        BY <3>3, <1>6, <2>1
      <3>5. ASSUME NEW c, Copies(e, c) > 0, c.queue = a.queue
            PROVE  c = a
        <4>1. c = Block(b.queue, r)
          BY <3>5, <3>2, <2>1
        <4> QED
          BY <4>1, <3>3
      <3> QED
        BY <3>1, <3>3, <3>4, <3>5
    <2>2. CASE a.queue # b.queue
      <3>1. ASSUME NEW c, c.queue = a.queue
            PROVE  Copies(e, c) = Copies(d, c)
        <4>1. c # b /\ c # Block(b.queue, r) /\ c.queue # Global
          BY <3>1, <2>2, <1>4, <1>7
        <4> QED
          BY <4>1, <1>3
      <3>2. Copies(d, a) > 0 /\ Copies(e, a) = Copies(d, a)
        BY <3>1, <1>7
      <3>3. /\ Busyness(d, a.queue) /\ Copies(d, a) = 1
            /\ \A c : Copies(d, c) > 0 /\ c.queue = a.queue => c = a
        BY <3>2, <1>7 DEF Serial
      <3>4. Busyness(e, a.queue)
        BY <3>3, <2>2, <1>6
      <3>5. ASSUME NEW c, Copies(e, c) > 0, c.queue = a.queue
            PROVE  c = a
        <4>1. Copies(d, c) > 0
          BY <3>5, <3>1
        <4> QED
          BY <4>1, <3>5, <3>3
      <3> QED
        BY <3>2, <3>3, <3>4, <3>5
    <2> QED
      BY <2>1, <2>2
  <1> QED
    BY <1>7 DEF Serial

\* Blocks are still where they may be.
LEMMA ShapesAfter ==
  ASSUME NEW d, IsGcd(d), NEW R, Shapes(d, R), NEW w, NEW b, NEW r, NEW e, Moved(d, w, b, r, e, R)
  PROVE  Shapes(e, R)
  <1>1. ASSUME NEW a, Copies(e, a) > 0
        PROVE  SuitsAll(a.queue, a.calls, R)
    <2>1. CASE r # <<>> /\ a = Block(b.queue, r) /\ a.queue = b.queue /\ a.calls = r
      BY <2>1 DEF Moved
    <2>2. CASE Copies(d, a) > 0
      BY <2>2 DEF Shapes
    <2>3. CASE Copies(w, a) # Copies(d, a)
      BY <2>3 DEF Moved, Tame
    <2> QED
      BY <2>1, <2>2, <2>3, <1>1, MovedRuns
  <1>2. IsGcd(w)
    BY DEF Moved, Tame
  <1>3. ASSUME NEW q, NEW s, InQueue(e, q, s)
        PROVE  SuitsAll(q, s, R)
    <2>1. QueueOf(e, q) = IF r = <<>> /\ b.queue # Global /\ q = b.queue
                            THEN [QueueOf(w, q) EXCEPT !.busy = FALSE]
                            ELSE QueueOf(w, q)
      BY DEF Moved, GoOnEffect
    <2>2. QueueOf(w, q) = [blocks |-> QueueOf(w, q).blocks, suspended |-> QueueOf(w, q).suspended,
                           busy |-> QueueOf(w, q).busy]
      BY <1>2, AnyQueue DEF IsQueue
    <2>3. QueueOf(e, q).blocks = QueueOf(w, q).blocks
      BY <2>1, <2>2
    <2>4. InQueue(w, q, s)
      BY <2>3, <1>3 DEF InQueue
    <2>5. InQueue(d, q, s) \/ SuitsAll(q, s, R)
      BY <2>4 DEF Moved, Tame
    <2> QED
      BY <2>5 DEF Shapes
  <1>4. ASSUME NEW g, NEW z \in Range(Waiting(e, g))
        PROVE  Suits(Global, z, {}, R)
    <2>1. Waiting(e, g) = Waiting(w, g)
      BY DEF Moved, GoOnEffect
    <2>2. z \in Range(Waiting(w, g))
      BY <2>1, <1>4
    <2>3. z \in Range(Waiting(d, g)) \/ Suits(Global, z, {}, R)
      BY <2>2 DEF Moved, Tame
    <2> QED
      BY <2>3 DEF Shapes
  <1> QED
    BY <1>1, <1>3, <1>4 DEF Shapes

\* Queues are suspended as often as in w.
LEMMA MovedSusp ==
  ASSUME NEW d, NEW w, NEW b, NEW r, NEW e, NEW R, Moved(d, w, b, r, e, R)
  PROVE  /\ IsGcd(w) /\ IsGcd(e)
         /\ \A q : Susp(e, q) = Susp(w, q)
         /\ \A h : Entered(e, h) = Entered(w, h)
         /\ \A x : Count(e, x) = Count(w, x) - N(b.calls, x) + N(r, x)
  <1>1. IsGcd(w) /\ IsGcd(e)
    BY DEF Moved, Tame, GoOnEffect
  <1>2. ASSUME NEW q
        PROVE  Susp(e, q) = Susp(w, q)
    <2>1. QueueOf(e, q) = IF r = <<>> /\ b.queue # Global /\ q = b.queue
                            THEN [QueueOf(w, q) EXCEPT !.busy = FALSE]
                            ELSE QueueOf(w, q)
      BY DEF Moved, GoOnEffect
    <2>2. QueueOf(w, q) = [blocks |-> QueueOf(w, q).blocks, suspended |-> QueueOf(w, q).suspended,
                           busy |-> QueueOf(w, q).busy]
      BY <1>1, AnyQueue DEF IsQueue
    <2> QED
      BY <2>1, <2>2 DEF Susp
  <1> QED
    BY <1>1, <1>2 DEF Moved, GoOnEffect

-----------------------------------------------------------------------------
(* How often queues are suspended, after a step. *)

\* The queues of the framework have names that differ.
LEMMA OwnNames ==
  ASSUME NEW y, NEW z, NEW w, NEW g, NEW s, IsGroup(g) \/ g = StreamToken(s) \/ g = Lock(w)
  PROVE  /\ Own(z) # Global /\ Own(z) # s_non_thread_safe_queue /\ s_non_thread_safe_queue # Global
         /\ Own(y) = Own(z) <=> y = z
         /\ g # Own(z) /\ g # s_non_thread_safe_queue
         /\ runQueue(w) # s_non_thread_safe_queue /\ runQueue(w) # Global
         /\ IsUnsafe(w) => runQueue(w) = Own(w[2])
  BY QueueNames DEF Own, Global, s_non_thread_safe_queue, runQueue, Lock, IsUnsafe

\* A block that will give back the queue of modules that are not thread safe is
\* the only one that owes the queue of a module.
LEMMA GiverAlone ==
  ASSUME NEW d, IsGcd(d), NEW R, Shapes(d, R), OwnQueues(d),
         NEW a, Copies(d, a) > 0, resume(s_non_thread_safe_queue) \in Range(a.calls)
  PROVE  /\ Copies(d, a) = 1
         /\ \E z : resume(Own(z)) \in Range(a.calls)
  <1>1. SuitsAll(a.queue, a.calls, R)
    BY DEF Shapes
  <1>2. PICK S : S \subseteq Range(a.calls) /\ Suits(a.queue, resume(s_non_thread_safe_queue), S, R)
    BY <1>1, SuitsMember
  <1>3. \A z : s_non_thread_safe_queue # Own(z)
    BY DEF s_non_thread_safe_queue, Own
  <1>4. \E z : S = {resume(Own(z))}
    BY <1>2, <1>3 DEF Suits, SuitsCall, resume
  <1>5. PICK z : S = {resume(Own(z))}
    BY <1>4
  <1>6. resume(Own(z)) \in Range(a.calls)
    BY <1>2, <1>5
  <1>7. Owes(Inner(resume(Own(z))), Own(z))
    BY DEF Owes, Inner, resume
  <1>8. BothOwe(a, a, Own(z))
    BY <1>6, <1>7 DEF BothOwe
  <1>9. Count(d, Own(z)) <= 1
    <2>1. Susp(d, Own(z)) \in {0, 1} /\ Count(d, Own(z)) <= Susp(d, Own(z))
      BY DEF OwnQueues
    <2> QED
      BY <2>1, CountIsNat
  <1>10. Copies(d, a) = 1
    BY <1>8, <1>9, TwoOwe
  <1> QED
    BY <1>6, <1>10

\* The queues of modules, after a step that does not touch them.
LEMMA OwnAfter ==
  ASSUME NEW d, IsGcd(d), OwnQueues(d), NEW w, NEW b, NEW r, NEW e, NEW R, Moved(d, w, b, r, e, R),
         Shapes(e, R),
         \A z : Susp(w, Own(z)) = Susp(d, Own(z)) /\ Count(e, Own(z)) <= Count(d, Own(z)),
         \A c \in Range(r) : c.call = "suspendOwn" => c \in Range(b.calls)
  PROVE  OwnQueues(e)
  <1>1. ASSUME NEW z
        PROVE  Susp(e, Own(z)) \in {0, 1} /\ Count(e, Own(z)) <= Susp(e, Own(z))
    <2>1. Susp(d, Own(z)) \in {0, 1} /\ Count(d, Own(z)) <= Susp(d, Own(z))
      BY DEF OwnQueues
    <2>2. Susp(e, Own(z)) = Susp(d, Own(z)) /\ Count(e, Own(z)) <= Count(d, Own(z))
      BY MovedSusp
    <2>3. Count(e, Own(z)) \in Nat /\ Count(d, Own(z)) \in Nat
      BY MovedSusp, CountIsNat
    <2> QED
      BY <2>1, <2>2, <2>3
  <1>2. ASSUME NEW a, Copies(e, a) > 0, Suspender(a)
        PROVE  Susp(e, a.queue) = 0
    <2>1. PICK c \in Range(a.calls) : c.call = "suspendOwn"
      BY <1>2 DEF Suspender
    <2>2. SuitsAll(a.queue, a.calls, R)
      BY <1>2 DEF Shapes
    <2>3. PICK S : Suits(a.queue, c, S, R)
      BY <2>2, SuitsMember
    <2>4. a.queue = Own(c.wrapper[2])
      BY <2>1, <2>3 DEF Suits, SuitsCall
    <2>5. a.queue # Global
      BY <2>4 DEF Own, Global
    <2>6. Copies(w, a) = Copies(d, a)
      BY <2>5 DEF Moved, Tame
    <2>7. Susp(e, a.queue) = Susp(d, a.queue)
      BY <2>4, MovedSusp
    <2>8. CASE Copies(d, a) > 0
      BY <2>7, <2>8, <1>2 DEF OwnQueues
    <2>9. CASE a.queue = b.queue /\ a.calls = r
      <3>1. c \in Range(b.calls) /\ Copies(d, b) > 0
        BY <2>1, <2>9 DEF Moved
      <3>2. Suspender(b)
        BY <3>1, <2>1 DEF Suspender
      <3>3. Susp(d, b.queue) = 0
        BY <3>1, <3>2 DEF OwnQueues
      <3> QED
        BY <3>3, <2>7, <2>9
    <2> QED
      BY <2>6, <2>8, <2>9, <1>2, MovedRuns
  <1> QED
    BY <1>1, <1>2 DEF OwnQueues

\* Queues that are never suspended.
LEMMA OtherAfter ==
  ASSUME NEW d, OtherQueues(d), NEW w, NEW b, NEW r, NEW e, NEW R, Moved(d, w, b, r, e, R),
         \A q : q # s_non_thread_safe_queue /\ (\A z : q # Own(z)) => Susp(w, q) = Susp(d, q)
  PROVE  OtherQueues(e)
  BY MovedSusp DEF OtherQueues

\* The queue of all that are not thread safe, after a step that does not touch
\* it and after which block b holds it only if it did before.
LEMMA UnsafeAfter ==
  ASSUME NEW d, IsGcd(d), NEW R, Shapes(d, R), OwnQueues(d), UnsafeQueue(d),
         NEW w, NEW b, NEW r, NEW e, Moved(d, w, b, r, e, R),
         Susp(w, s_non_thread_safe_queue) = Susp(d, s_non_thread_safe_queue),
         \A a : Copies(w, a) # Copies(d, a) => resume(s_non_thread_safe_queue) \notin Range(a.calls),
         \A v : Entered(w, Lock(v)) >= Entered(d, Lock(v)),
         Holder(e, Block(b.queue, r)) => Holder(d, b)
  PROVE  UnsafeQueue(e)
  <1> DEFINE U == s_non_thread_safe_queue
  <1>1. /\ IsGcd(w) /\ IsGcd(e) /\ Susp(e, U) = Susp(d, U)
        /\ \A h : Entered(e, h) = Entered(w, h)
    BY MovedSusp
  <1>2. /\ Susp(d, U) \in {0, 1}
        /\ \A a : Copies(d, a) > 0 /\ a.queue = U => Susp(d, U) = 0
        /\ \A a : Copies(d, a) > 0 /\ Holder(d, a) => Susp(d, U) = 1
        /\ \A a, c : Copies(d, a) > 0 /\ Copies(d, c) > 0 /\ Holder(d, a) /\ Holder(d, c) => a = c
    BY DEF UnsafeQueue
  <1>3. Copies(d, b) > 0
    BY DEF Moved
  <1>4. ASSUME NEW a, Copies(e, a) > 0, a.queue = U
        PROVE  Susp(e, U) = 0
    <2>1. a.queue # Global
      BY <1>4 DEF s_non_thread_safe_queue, Global
    <2>2. Copies(w, a) = Copies(d, a)
      BY <2>1 DEF Moved, Tame
    <2>3. Copies(d, a) > 0 \/ a.queue = b.queue
      BY <2>2, <1>4, MovedRuns
    <2> QED
      BY <2>3, <1>1, <1>2, <1>3, <1>4
  <1>5. ASSUME NEW a, Holder(e, a)
        PROVE  Holder(d, a)
    <2>1. ASSUME NEW v, wait(Lock(v)) \in Range(a.calls)
          PROVE  Entered(d, Lock(v)) = 0
      <3>1. Entered(e, Lock(v)) = 0
        BY <2>1, <1>5 DEF Holder
      <3>2. Entered(e, Lock(v)) >= Entered(d, Lock(v)) /\ Entered(d, Lock(v)) \in Nat
        BY <1>1, AnyGroup
      <3> QED
        BY <3>1, <3>2
    <2> QED
      BY <2>1, <1>5 DEF Holder
  <1>6. ASSUME NEW a, Copies(e, a) > 0, Holder(e, a)
        PROVE  \/ Holder(d, b) /\ a = Block(b.queue, r)
               \/ Holder(d, a) /\ Copies(d, a) > 0 /\ a # b
    <2>1. Holder(d, a)
      BY <1>5, <1>6
    <2>2. resume(U) \in Range(a.calls)
      BY <2>1 DEF Holder
    <2>3. Copies(w, a) = Copies(d, a)
      BY <2>2
    <2>4. CASE a = Block(b.queue, r)
      BY <2>4, <1>6
    <2>5. CASE Copies(d, a) > 0 /\ (a = b => Copies(w, b) > 1)
      <3>1. Copies(d, a) = 1
        BY <2>2, <2>5, GiverAlone
      <3>2. a # b
        BY <3>1, <2>3, <2>5
      <3> QED
        BY <3>2, <2>1, <2>5
    <2> QED
      BY <2>3, <2>4, <2>5, <1>6, MovedRuns
  <1>7. ASSUME NEW a, Copies(e, a) > 0, Holder(e, a)
        PROVE  Susp(e, U) = 1
    BY <1>1, <1>2, <1>3, <1>6, <1>7
  <1>8. ASSUME NEW a, NEW c, Copies(e, a) > 0, Copies(e, c) > 0, Holder(e, a), Holder(e, c)
        PROVE  a = c
    <2>1. \/ Holder(d, b) /\ a = Block(b.queue, r)
          \/ Holder(d, a) /\ Copies(d, a) > 0 /\ a # b
      BY <1>6, <1>8
    <2>2. \/ Holder(d, b) /\ c = Block(b.queue, r)
          \/ Holder(d, c) /\ Copies(d, c) > 0 /\ c # b
      BY <1>6, <1>8
    <2> QED
      BY <2>1, <2>2, <1>2, <1>3
  <1> QED
    BY <1>1, <1>2, <1>4, <1>7, <1>8 DEF UnsafeQueue

-----------------------------------------------------------------------------
(* Steps that keep the queues in order. *)

\* That is what GoOn does after a tame step.
LEMMA MovedIs ==
  ASSUME NEW d, IsGcd(d), NEW b \in Runs(d), NEW w, NEW R, Tame(d, w, R),
         NEW r, IsSeq(r), SuitsAll(b.queue, r, R), NEW e, e = GoOn(w, b, r)
  PROVE  Moved(d, w, b, r, e, R)
  <1>1. IsGcd(w) /\ Copies(w, b) >= Copies(d, b)
    BY DEF Tame
  <1>2. Copies(d, b) > 0 /\ Copies(d, b) \in Nat /\ Copies(w, b) \in Nat
    BY <1>1, RunsPositive
  <1>3. b \in Runs(w)
    BY <1>1, <1>2, RunsPositive
  <1>4. GoOnEffect(w, b, r, e)
    BY <1>1, <1>3, GoOnIs
  <1> QED
    BY <1>2, <1>4 DEF Moved

\* Calls that do not touch the queue of a module.
Light(c) == c.call \notin {"resume", "suspendOwn"} /\ \A z : ~Owes(Inner(c), Own(z))

\* A block goes on with light calls after a smooth step.
LEMMA SmoothAfter ==
  ASSUME NEW d, IsGcd(d), NEW R, QueueInv(d, R), NEW b \in Runs(d), NEW w, Smooth(d, w, R),
         NEW t, IsSeq(t), \A c \in Range(t) : Light(c), SuitsAll(b.queue, t \o Later(b), R),
         NEW e, e = GoOn(w, b, t \o Later(b)),
         Holder(e, Block(b.queue, t \o Later(b))) => Holder(d, b)
  PROVE  QueueInv(e, R)
  <1> DEFINE r == t \o Later(b)
  <1>1. /\ Serial(d) /\ Shapes(d, R) /\ OwnQueues(d) /\ UnsafeQueue(d) /\ OtherQueues(d)
        /\ Tame(d, w, R) /\ Level(d, w)
    BY DEF QueueInv, Sums, Smooth
  <1>2. /\ IsSeq(Later(b)) /\ b.calls = <<Call(b)>> \o Later(b)
        /\ Range(b.calls) = {Call(b)} \cup Range(Later(b))
    BY RunningBlock
  <1>3. IsSeq(r) /\ Range(r) = Range(t) \cup Range(Later(b))
    BY <1>2, Concat
  <1>m. Moved(d, w, b, r, e, R)
    BY <1>1, <1>3, MovedIs
  <1>4. Serial(e)
    BY <1>m, <1>1, SerialAfter
  <1>5. Shapes(e, R)
    BY <1>m, <1>1, ShapesAfter
  <1>6. ASSUME NEW z
        PROVE  Susp(w, Own(z)) = Susp(d, Own(z)) /\ Count(e, Own(z)) <= Count(d, Own(z))
    <2>1. N(t, Own(z)) = 0
      BY NZero DEF Light
    <2>2. N(r, Own(z)) = N(t, Own(z)) + N(Later(b), Own(z))
      BY <1>2, NConcat
    <2>3. /\ N(b.calls, Own(z)) = One(Call(b), Own(z)) + N(Later(b), Own(z))
          /\ N(Later(b), Own(z)) \in Nat /\ One(Call(b), Own(z)) \in {0, 1}
      BY <1>2, NCons
    <2>4. Count(e, Own(z)) = Count(w, Own(z)) - N(b.calls, Own(z)) + N(r, Own(z))
      BY <1>m, MovedSusp
    <2>5. Count(w, Own(z)) <= Count(d, Own(z)) /\ Susp(w, Own(z)) = Susp(d, Own(z))
      BY <1>1 DEF Level
    <2>6. IsGcd(w)
      BY <1>1 DEF Tame
    <2>7. Count(w, Own(z)) \in Nat /\ Count(d, Own(z)) \in Nat
      BY <2>6, CountIsNat
    <2> QED
      BY <2>1, <2>2, <2>3, <2>4, <2>5, <2>7
  <1>7. ASSUME NEW c \in Range(r), c.call = "suspendOwn"
        PROVE  c \in Range(b.calls)
    BY <1>2, <1>3, <1>7 DEF Light
  <1>8. OwnQueues(e)
    BY <1>m, <1>1, <1>5, <1>6, <1>7, OwnAfter
  <1>9. /\ Susp(w, s_non_thread_safe_queue) = Susp(d, s_non_thread_safe_queue)
        /\ \A q : Susp(w, q) = Susp(d, q)
        /\ \A a : Copies(w, a) # Copies(d, a) => resume(s_non_thread_safe_queue) \notin Range(a.calls)
        /\ \A v : Entered(w, Lock(v)) >= Entered(d, Lock(v))
    BY <1>1 DEF Level
  <1>10. Holder(e, Block(b.queue, r)) => Holder(d, b)
    OBVIOUS
  <1>11. UnsafeQueue(e)
    BY <1>m, <1>1, <1>9, <1>10, UnsafeAfter
  <1>12. OtherQueues(e)
    BY <1>m, <1>1, <1>9, OtherAfter
  <1> QED
    BY <1>4, <1>5, <1>8, <1>11, <1>12 DEF QueueInv, Sums

\* The queue of modules that are not thread safe is not lent or got back by the
\* next call of block b.
Lends(d, b) == Call(b).call = "sync" \/ \E v : Call(b) = wait(Lock(v)) /\ Entered(d, Lock(v)) # 0

\* Then who holds it after a smooth step did before.
LEMMA SmoothHolder ==
  ASSUME NEW d, IsGcd(d), NEW b \in Runs(d), ~Lends(d, b), NEW w, NEW R, Smooth(d, w, R),
         NEW t, IsSeq(t), \A c \in Range(t) : Light(c),
         NEW e, e = GoOn(w, b, t \o Later(b)), Holder(e, Block(b.queue, t \o Later(b)))
  PROVE  Holder(d, b)
  <1> DEFINE r == t \o Later(b)
  <1>1. /\ IsSeq(Later(b)) /\ Range(b.calls) = {Call(b)} \cup Range(Later(b))
    BY RunningBlock
  <1>2. IsSeq(r) /\ Range(r) = Range(t) \cup Range(Later(b))
    BY <1>1, Concat
  <1>3. /\ resume(s_non_thread_safe_queue) \in Range(r)
        /\ \A v : sync(v) \notin Range(r)
        /\ \A v : wait(Lock(v)) \in Range(r) => Entered(e, Lock(v)) = 0
    BY DEF Holder, Block
  <1>4. resume(s_non_thread_safe_queue) \in Range(b.calls)
    <2>1. resume(s_non_thread_safe_queue) \notin Range(t)
      BY DEF Light, resume
    <2> QED
      BY <2>1, <1>1, <1>2, <1>3
  <1>5. ASSUME NEW v, sync(v) \in Range(b.calls)
        PROVE  FALSE
    <2>1. sync(v) # Call(b)
      BY DEF Lends, sync
    <2> QED
      BY <2>1, <1>1, <1>2, <1>3, <1>5
  <1>6. ASSUME NEW v, wait(Lock(v)) \in Range(b.calls)
        PROVE  Entered(d, Lock(v)) = 0
    <2>1. CASE wait(Lock(v)) = Call(b)
      BY <2>1 DEF Lends
    <2>2. CASE wait(Lock(v)) # Call(b)
      <3>1. Entered(e, Lock(v)) = 0
        BY <2>2, <1>1, <1>2, <1>3, <1>6
      <3>2. IsGcd(w) /\ Copies(w, b) >= Copies(d, b)
        BY DEF Smooth, Tame
      <3>3. Copies(d, b) > 0 /\ Copies(d, b) \in Nat /\ Copies(w, b) \in Nat
        BY <3>2, RunsPositive
      <3>4. b \in Runs(w)
        BY <3>2, <3>3, RunsPositive
      <3>5. GoOnEffect(w, b, r, e)
        BY <3>2, <3>4, <1>2, GoOnIs
      <3>6. Entered(e, Lock(v)) = Entered(w, Lock(v))
        BY <3>5 DEF GoOnEffect
      <3>7. Entered(w, Lock(v)) >= Entered(d, Lock(v)) /\ Entered(d, Lock(v)) \in Nat
        BY AnyGroup DEF Smooth, Level
      <3> QED
        BY <3>1, <3>6, <3>7
    <2> QED
      BY <2>1, <2>2
  <1> QED
    BY <1>4, <1>5, <1>6 DEF Holder

\* And all is in order.
LEMMA SmoothStep ==
  ASSUME NEW d, IsGcd(d), NEW R, QueueInv(d, R), NEW b \in Runs(d), ~Lends(d, b),
         NEW w, Smooth(d, w, R),
         NEW t, IsSeq(t), \A c \in Range(t) : Light(c), SuitsAll(b.queue, t \o Later(b), R),
         NEW e, e = GoOn(w, b, t \o Later(b))
  PROVE  QueueInv(e, R)
  <1>1. Holder(e, Block(b.queue, t \o Later(b))) => Holder(d, b)
    BY SmoothHolder
  <1> QED
    BY <1>1, SmoothAfter

\* No call to be made before the others, or one, or two.
LEMMA SmoothNone ==
  ASSUME NEW d, IsGcd(d), NEW R, QueueInv(d, R), NEW b \in Runs(d), ~Lends(d, b),
         NEW w, Smooth(d, w, R), NEW e, e = GoOn(w, b, Later(b))
  PROVE  QueueInv(e, R)
  <1>1. IsSeq(Later(b)) /\ SuitsAll(b.queue, Later(b), R)
    BY RunningBlock, HeadSuits DEF QueueInv
  <1>2. <<>> \o Later(b) = Later(b) /\ IsSeq(<<>>) /\ Range(<<>>) = {}
    BY <1>1, ConcatCons, OneElement
  <1>3. PICK t : t = <<>>
    OBVIOUS
  <1>4. /\ IsSeq(t) /\ (\A c \in Range(t) : Light(c)) /\ SuitsAll(b.queue, t \o Later(b), R)
        /\ e = GoOn(w, b, t \o Later(b))
    BY <1>1, <1>2, <1>3
  <1> QED
    BY <1>4, SmoothStep

\* One.
LEMMA SmoothOne ==
  ASSUME NEW d, IsGcd(d), NEW R, QueueInv(d, R), NEW b \in Runs(d), ~Lends(d, b),
         NEW w, Smooth(d, w, R), NEW c, Light(c), Suits(b.queue, c, Range(Later(b)), R),
         NEW e, e = GoOn(w, b, <<c>> \o Later(b))
  PROVE  QueueInv(e, R)
  <1>1. IsSeq(Later(b)) /\ SuitsAll(b.queue, Later(b), R)
    BY RunningBlock, HeadSuits DEF QueueInv
  <1>2. SuitsAll(b.queue, <<c>> \o Later(b), R)
    BY <1>1, SuitsCons
  <1>3. PICK t : t = <<c>>
    OBVIOUS
  <1>4. IsSeq(t) /\ Range(t) = {c}
    BY <1>3, OneElement
  <1>5. /\ IsSeq(t) /\ (\A x \in Range(t) : Light(x)) /\ SuitsAll(b.queue, t \o Later(b), R)
        /\ e = GoOn(w, b, t \o Later(b))
    BY <1>2, <1>3, <1>4
  <1> QED
    BY <1>5, SmoothStep

\* Some that each suit whatever comes after them.
LEMMA SmoothSome ==
  ASSUME NEW d, IsGcd(d), NEW R, QueueInv(d, R), NEW b \in Runs(d), ~Lends(d, b),
         NEW w, Smooth(d, w, R), NEW t, IsSeq(t),
         \A c \in Range(t) : Light(c) /\ \A S : Range(Later(b)) \subseteq S => Suits(b.queue, c, S, R),
         NEW e, e = GoOn(w, b, t \o Later(b))
  PROVE  QueueInv(e, R)
  <1>1. IsSeq(Later(b)) /\ SuitsAll(b.queue, Later(b), R)
    BY RunningBlock, HeadSuits DEF QueueInv
  <1>2. \A c \in Range(t) : \A S : Range(Later(b)) \subseteq S => Suits(b.queue, c, S, R)
    OBVIOUS
  <1>3. SuitsAll(b.queue, t \o Later(b), R)
    BY <1>1, <1>2, SuitsConcat
  <1> QED
    BY <1>3, SmoothStep

-----------------------------------------------------------------------------
(* Queues that are suspended and resumed, and by whom. *)

\* Most calls are light.
LEMMA LightCall ==
  ASSUME NEW c
  PROVE  /\ c.call \notin {"resume", "suspendOwn", "suspendUnsafe", "submit", "leave"} => Light(c)
         /\ c.call = "leave" /\ (\A z : c.group # Own(z)) => Light(c)
         /\ c.call = "submit" /\ (\A z : ~Owes(c.block[1], Own(z))) => Light(c)
  <1>1. ASSUME c.call \notin {"resume", "suspendOwn", "suspendUnsafe", "submit", "leave"}, NEW z
        PROVE  ~Owes(Inner(c), Own(z))
    <2>1. Inner(c) = c
      BY <1>1 DEF Inner
    <2>2. Own(z) # JobGroup(c) /\ Own(z) # prefetchGroup(c.wrapper) /\ Own(z) # Lock(c.wrapper)
      BY DEF Own, JobGroup, m_group, m_allPathsDoneGroup, prefetchGroup, Lock
    <2>3. Own(z) # m_eventLoopGroup /\ Own(z) # StreamToken(c.stream)
      BY DEF Own, m_eventLoopGroup, StreamToken
    <2> QED
      BY <1>1, <2>1, <2>2, <2>3 DEF Owes
  <1>2. ASSUME c.call = "leave", \A z : c.group # Own(z), NEW z
        PROVE  ~Owes(Inner(c), Own(z))
    BY <1>2 DEF Inner, Owes, JobCalls
  <1>3. ASSUME c.call = "submit", \A z : ~Owes(c.block[1], Own(z)), NEW z
        PROVE  ~Owes(Inner(c), Own(z))
    BY <1>3 DEF Inner
  <1> QED
    BY <1>1, <1>2, <1>3 DEF Light

\* What light calls cost.
LEMMA LightCost ==
  ASSUME NEW c, Light(c), NEW z
  PROVE  One(c, Own(z)) = 0
  BY DEF Light, One

\* A queue is suspended once more, or once less.
LEMMA SuspendsOnce ==
  ASSUME NEW d, IsGcd(d), NEW q, q # Global, NEW w
  PROVE  /\ w = dispatch_suspend(d, q) => SuspendedEffect(d, q, Susp(d, q) + 1, w)
         /\ w = dispatch_resume(d, q) => SuspendedEffect(d, q, Susp(d, q) - 1, w)
  <1>1. Susp(d, q) \in Int
    BY AnyQueue DEF IsQueue, Susp
  <1>2. PICK m, n : m = Susp(d, q) + 1 /\ n = Susp(d, q) - 1
    OBVIOUS
  <1>3. m \in Int /\ n \in Int
    BY <1>1, <1>2
  <1>4. ASSUME w = dispatch_suspend(d, q)
        PROVE  SuspendedEffect(d, q, m, w)
    <2>1. w = SetQueue(d, q, [QueueOf(d, q) EXCEPT !.suspended = m])
      BY <1>2, <1>4 DEF dispatch_suspend, Susp
    <2> QED
      BY <2>1, <1>3, SuspendedIs
  <1>5. ASSUME w = dispatch_resume(d, q)
        PROVE  SuspendedEffect(d, q, n, w)
    <2>1. w = SetQueue(d, q, [QueueOf(d, q) EXCEPT !.suspended = n])
      BY <1>2, <1>5 DEF dispatch_resume, Susp
    <2> QED
      BY <2>1, <1>3, SuspendedIs
  <1> QED
    BY <1>2, <1>4, <1>5

\* A holder gives the queue of modules that are not thread safe to others.
LEMMA UnsafeFreed ==
  ASSUME NEW d, IsGcd(d), NEW R, Shapes(d, R), OwnQueues(d), UnsafeQueue(d),
         NEW w, NEW b, NEW r, NEW e, Moved(d, w, b, r, e, R), Holder(d, b),
         Susp(w, s_non_thread_safe_queue) = 0,
         \A a : Copies(w, a) = Copies(d, a), \A h : Entered(w, h) = Entered(d, h),
         ~Holder(e, Block(b.queue, r))
  PROVE  UnsafeQueue(e)
  <1> DEFINE U == s_non_thread_safe_queue
  <1>1. Susp(e, U) = 0 /\ \A h : Entered(e, h) = Entered(d, h)
    BY MovedSusp
  <1>2. ASSUME NEW a, Copies(e, a) > 0, Holder(e, a)
        PROVE  FALSE
    <2>1. Holder(d, a)
      BY <1>1, <1>2 DEF Holder
    <2>2. Copies(d, a) > 0 /\ (a = b => Copies(d, b) > 1)
      BY <1>2, MovedRuns
    <2>3. Copies(d, b) > 0
      BY DEF Moved
    <2>4. a = b
      BY <2>1, <2>2, <2>3 DEF UnsafeQueue
    <2>5. resume(U) \in Range(b.calls)
      BY DEF Holder
    <2>6. Copies(d, b) = 1
      BY <2>3, <2>5, GiverAlone
    <2> QED
      BY <2>2, <2>4, <2>6
  <1> QED
    BY <1>1, <1>2 DEF UnsafeQueue

\* The block that the queue runs suspends it.
LEMMA UnsafeTaken ==
  ASSUME NEW d, IsGcd(d), NEW R, Serial(d), NEW w, NEW b, NEW e, Moved(d, w, b, <<>>, e, R),
         b.queue = s_non_thread_safe_queue, Susp(w, s_non_thread_safe_queue) = 1,
         \A a, c : Copies(e, a) > 0 /\ Copies(e, c) > 0 /\ Holder(e, a) /\ Holder(e, c) => a = c
  PROVE  UnsafeQueue(e)
  <1> DEFINE U == s_non_thread_safe_queue
  <1>1. Susp(e, U) = 1
    BY MovedSusp
  <1>2. ASSUME NEW a, Copies(e, a) > 0, a.queue = U
        PROVE  FALSE
    <2>1. a.queue # Global
      BY <1>2 DEF s_non_thread_safe_queue, Global
    <2>2. Copies(w, a) = Copies(d, a)
      BY <2>1 DEF Moved, Tame
    <2>3. Copies(d, a) > 0 /\ (a = b => Copies(w, b) > 1)
      BY <2>2, <1>2, MovedRuns
    <2>4. Copies(d, b) > 0
      BY DEF Moved
    <2>5. a = b /\ Copies(d, b) = 1
      BY <2>1, <2>3, <2>4, <1>2 DEF Serial
    <2> QED
      BY <2>2, <2>3, <2>5
  <1> QED
    BY <1>1, <1>2 DEF UnsafeQueue

\* What is in order, of queues.
LEMMA QueueInvIs ==
  ASSUME NEW d, IsGcd(d), NEW R, QueueInv(d, R), NEW b \in Runs(d)
  PROVE  /\ Serial(d) /\ Shapes(d, R) /\ OwnQueues(d) /\ UnsafeQueue(d) /\ OtherQueues(d)
         /\ Suits(b.queue, Call(b), Range(Later(b)), R) /\ SuitsAll(b.queue, Later(b), R)
         /\ IsSeq(Later(b)) /\ b.calls = <<Call(b)>> \o Later(b)
         /\ Range(b.calls) = {Call(b)} \cup Range(Later(b)) /\ Copies(d, b) > 0
         /\ \A x : N(b.calls, x) = One(Call(b), x) + N(Later(b), x) /\ N(Later(b), x) \in Nat
  <1>1. Serial(d) /\ Shapes(d, R) /\ OwnQueues(d) /\ UnsafeQueue(d) /\ OtherQueues(d)
    BY DEF QueueInv, Sums
  <1>2. /\ IsSeq(Later(b)) /\ b.calls = <<Call(b)>> \o Later(b)
        /\ Range(b.calls) = {Call(b)} \cup Range(Later(b)) /\ Copies(d, b) > 0
    BY RunningBlock, RunsPositive
  <1>3. ASSUME NEW x
        PROVE  N(b.calls, x) = One(Call(b), x) + N(Later(b), x) /\ N(Later(b), x) \in Nat
    BY <1>2, NCons
  <1> QED
    BY <1>1, <1>2, <1>3, HeadSuits

\* A sequence without elements.
LEMMA NoneLeft ==
  ASSUME NEW s, IsSeq(s), Range(s) = {}
  PROVE  s = <<>>
  <1>1. Len(s) \in Nat /\ Range(s) = {s[i] : i \in 1 .. Len(s)} /\ (s # <<>> => Len(s) # 0)
    BY SeqOf
  <1>2. ASSUME Len(s) # 0
        PROVE  FALSE
    <2>1. 1 \in 1 .. Len(s)
      BY <1>1, <1>2
    <2> QED
      BY <2>1, <1>1
  <1> QED
    BY <1>1, <1>2

-----------------------------------------------------------------------------
(* The steps that do so. *)

\* A queue is resumed.
LEMMA ResumeQueues ==
  ASSUME NEW d, IsGcd(d), NEW R, QueueInv(d, R), NEW b \in Runs(d),
         NEW q, Call(b) = resume(q), NEW e, e = GoOn(dispatch_resume(d, q), b, Later(b))
  PROVE  QueueInv(e, R)
  <1> DEFINE U == s_non_thread_safe_queue
             r == Later(b)
  <1>1. /\ Serial(d) /\ Shapes(d, R) /\ OwnQueues(d) /\ UnsafeQueue(d) /\ OtherQueues(d)
        /\ Suits(b.queue, Call(b), Range(r), R) /\ SuitsAll(b.queue, r, R)
        /\ IsSeq(r) /\ b.calls = <<Call(b)>> \o r
        /\ Range(b.calls) = {Call(b)} \cup Range(r) /\ Copies(d, b) > 0
        /\ \A x : N(b.calls, x) = One(Call(b), x) + N(r, x) /\ N(r, x) \in Nat
    BY QueueInvIs
  <1>2. Call(b).call = "resume" /\ Call(b).queue = q
    BY DEF resume
  <1>3. \/ q = U /\ \E z : Range(r) = {resume(Own(z))}
        \/ (\E z : q = Own(z)) /\ Range(r) = {}
    BY <1>1, <1>2 DEF Suits, SuitsCall
  <1>4. q # Global
    BY <1>3 DEF Own, Global, s_non_thread_safe_queue
  <1>5. PICK w : w = dispatch_resume(d, q)
    OBVIOUS
  <1>6. SuspendedEffect(d, q, Susp(d, q) - 1, w)
    BY <1>4, <1>5, SuspendsOnce
  <1>7. /\ Tame(d, w, R)
        /\ \A y : Susp(w, y) = IF y = q THEN Susp(d, q) - 1 ELSE Susp(d, y)
        /\ \A x : Count(w, x) = Count(d, x) /\ Entered(w, x) = Entered(d, x)
        /\ \A a : Copies(w, a) = Copies(d, a)
    BY <1>6, SuspendedTame
  <1>m. Moved(d, w, b, r, e, R)
    BY <1>1, <1>5, <1>7, MovedIs
  <1>8. Serial(e) /\ Shapes(e, R)
    BY <1>m, <1>1, SerialAfter, ShapesAfter
  <1>9. OtherQueues(e)
    <2>1. \A y : y # U /\ (\A z : y # Own(z)) => Susp(w, y) = Susp(d, y)
      BY <1>3, <1>7
    <2> QED
      BY <2>1, <1>m, <1>1, OtherAfter
  <1>10. ASSUME NEW x
         PROVE  /\ One(Call(b), x) = IF x = q THEN 1 ELSE 0
                /\ Count(e, x) = Count(d, x) - (IF x = q THEN 1 ELSE 0)
                /\ Count(d, x) \in Nat
    <2>1. One(Call(b), x) = IF x = q THEN 1 ELSE 0
      BY <1>2, Costs
    <2>2. Count(e, x) = Count(w, x) - N(b.calls, x) + N(r, x)
      BY <1>m, MovedSusp
    <2>3. N(b.calls, x) = One(Call(b), x) + N(r, x) /\ N(r, x) \in Nat /\ Count(w, x) = Count(d, x)
      BY <1>1, <1>7
    <2>4. Count(d, x) \in Nat
      BY CountIsNat
    <2> QED
      BY <2>1, <2>2, <2>3, <2>4
  <1>11. /\ \A z : resume(z) = Call(b) <=> z = q
         /\ \A y, z : resume(y) = resume(z) <=> y = z
         /\ \A v, z : sync(v) # resume(z) /\ wait(v) # resume(z)
         /\ \A y, z : Own(z) # U /\ (Own(y) = Own(z) <=> y = z)
    BY DEF resume, sync, wait, Own, s_non_thread_safe_queue
  <1>12. CASE q = U
    <2>1. PICK z : Range(r) = {resume(Own(z))}
      BY <1>3, <1>11, <1>12
    <2>2. Holder(d, b)
      BY <2>1, <1>1, <1>11, <1>12 DEF Holder
    <2>3. Susp(w, U) = 0
      BY <2>2, <1>1, <1>7, <1>12 DEF UnsafeQueue
    <2>4. ~Holder(e, Block(b.queue, r))
      BY <2>1, <1>11 DEF Holder, Block
    <2>5. \A h : Entered(w, h) = Entered(d, h)
      BY <1>7
    <2>6. UnsafeQueue(e)
      BY <2>2, <2>3, <2>4, <2>5, <1>1, <1>7, <1>m, UnsafeFreed
    <2>7. ASSUME NEW y
          PROVE  Susp(w, Own(y)) = Susp(d, Own(y)) /\ Count(e, Own(y)) <= Count(d, Own(y))
      <3>1. Own(y) # q
        BY <1>11, <1>12
      <3> QED
        BY <3>1, <1>7, <1>10
    <2>8. \A c \in Range(r) : c.call = "suspendOwn" => c \in Range(b.calls)
      BY <1>1
    <2>9. OwnQueues(e)
      BY <2>7, <2>8, <1>1, <1>m, <1>8, OwnAfter
    <2> QED
      BY <2>6, <2>9, <1>8, <1>9 DEF QueueInv, Sums
  <1>13. CASE q # U
    <2>1. PICK z : q = Own(z)
      BY <1>3, <1>13
    <2>2. r = <<>> /\ Range(r) = {}
      BY <1>1, <1>3, <1>13, NoneLeft
    <2>3. Susp(w, U) = Susp(d, U)
      BY <1>7, <1>13
    <2>4. ~Holder(e, Block(b.queue, r))
      BY <2>2 DEF Holder, Block
    <2>5. /\ \A a : Copies(w, a) # Copies(d, a) => resume(U) \notin Range(a.calls)
          /\ \A v : Entered(w, Lock(v)) >= Entered(d, Lock(v))
      <3>1. \A v : Entered(w, Lock(v)) = Entered(d, Lock(v)) /\ Entered(d, Lock(v)) \in Nat
        BY <1>7, AnyGroup
      <3> QED
        BY <3>1, <1>7
    <2>6. UnsafeQueue(e)
      BY <2>3, <2>4, <2>5, <1>1, <1>m, UnsafeAfter
    <2>7. Count(d, q) >= 1
      <3>1. Owes(Inner(Call(b)), q)
        BY <1>2 DEF Owes, Inner
      <3> QED
        BY <3>1, <1>1, OwedByBlock
    <2>8. Susp(d, q) = 1
      <3>1. Susp(d, Own(z)) \in {0, 1} /\ Count(d, Own(z)) <= Susp(d, Own(z))
        BY <1>1 DEF OwnQueues
      <3> QED
        BY <3>1, <2>1, <2>7, <1>10
    <2>9. ASSUME NEW y
          PROVE  Susp(e, Own(y)) \in {0, 1} /\ Count(e, Own(y)) <= Susp(e, Own(y))
      <3>1. Susp(d, Own(y)) \in {0, 1} /\ Count(d, Own(y)) <= Susp(d, Own(y))
        BY <1>1 DEF OwnQueues
      <3>2. Susp(e, Own(y)) = IF Own(y) = q THEN Susp(d, q) - 1 ELSE Susp(d, Own(y))
        BY <1>m, <1>7, MovedSusp
      <3>3. Count(e, Own(y)) = Count(d, Own(y)) - (IF Own(y) = q THEN 1 ELSE 0) /\ Count(d, Own(y)) \in Nat
        BY <1>10
      <3> QED
        BY <3>1, <3>2, <3>3, <2>8
    <2>10. ASSUME NEW a, Copies(e, a) > 0, Suspender(a)
           PROVE  Susp(e, a.queue) = 0
      <3>1. Copies(d, a) > 0
        BY <2>10, <2>2, <1>m, <1>7, MovedRuns
      <3>2. Susp(d, a.queue) = 0
        BY <3>1, <2>10, <1>1 DEF OwnQueues
      <3>3. a.queue # q
        BY <3>2, <2>8
      <3> QED
        BY <3>2, <3>3, <1>m, <1>7, MovedSusp
    <2>11. OwnQueues(e)
      BY <2>9, <2>10 DEF OwnQueues
    <2> QED
      BY <2>6, <2>11, <1>8, <1>9 DEF QueueInv, Sums
  <1> QED
    BY <1>12, <1>13

\* A block suspends the queue it runs in, and has the other suspended.
LEMMA SuspendOwnQueues ==
  ASSUME NEW d, IsGcd(d), NEW R, QueueInv(d, R), NEW b \in Runs(d), Call(b).call = "suspendOwn",
         NEW v, v = Call(b).wrapper, NEW at, HasJob(v, at),
         NEW e, e = GoOn(dispatch_async(dispatch_suspend(d, runQueue(v)), s_non_thread_safe_queue,
                                        <<Job("suspendUnsafe", v, at)>>), b, Later(b))
  PROVE  QueueInv(e, R)
  <1> DEFINE U == s_non_thread_safe_queue
             r == Later(b)
             c == Job("suspendUnsafe", v, at)
             q == Own(v[2])
  <1>1. /\ Serial(d) /\ Shapes(d, R) /\ OwnQueues(d) /\ UnsafeQueue(d) /\ OtherQueues(d)
        /\ Suits(b.queue, Call(b), Range(r), R) /\ SuitsAll(b.queue, r, R)
        /\ IsSeq(r) /\ b.calls = <<Call(b)>> \o r
        /\ Range(b.calls) = {Call(b)} \cup Range(r) /\ Copies(d, b) > 0
        /\ \A x : N(b.calls, x) = One(Call(b), x) + N(r, x) /\ N(r, x) \in Nat
    BY QueueInvIs
  <1>2. IsUnsafe(v) /\ b.queue = q /\ Range(r) = {}
    BY <1>1 DEF Suits, SuitsCall
  <1>3. r = <<>>
    BY <1>1, <1>2, NoneLeft
  <1>4. runQueue(v) = q /\ q # Global /\ q # U /\ U # Global
    BY <1>2, OwnNames DEF Own, Global, s_non_thread_safe_queue, runQueue, IsUnsafe
  <1>5. PICK u : u = dispatch_suspend(d, q)
    OBVIOUS
  <1>6. SuspendedEffect(d, q, Susp(d, q) + 1, u)
    BY <1>4, <1>5, SuspendsOnce
  <1>7. /\ Tame(d, u, R)
        /\ \A y : Susp(u, y) = IF y = q THEN Susp(d, q) + 1 ELSE Susp(d, y)
        /\ \A x : Count(u, x) = Count(d, x) /\ Entered(u, x) = Entered(d, x)
        /\ \A a : Copies(u, a) = Copies(d, a)
    BY <1>6, SuspendedTame
  <1>8. IsGcd(u)
    BY <1>7 DEF Tame
  <1>9. PICK w : w = dispatch_async(u, U, <<c>>)
    OBVIOUS
  <1>10. IsOne(<<c>>)
    BY DEF IsOne
  <1>11. EnqueueEffect(u, U, <<c>>, w)
    BY <1>4, <1>8, <1>9, <1>10, EnqueueIs
  <1>12. SuitsAll(U, <<c>>, R)
    <2>1. Suits(U, c, {}, R)
      BY <1>2 DEF Suits, SuitsCall, Job
    <2> QED
      BY <2>1, SuitsOne
  <1>13. /\ Tame(u, w, R) /\ \A y : Susp(w, y) = Susp(u, y)
         /\ \A a : Copies(w, a) = Copies(u, a)
         /\ \A h : Entered(w, h) = Entered(u, h)
    BY <1>8, <1>11, <1>12, EnqueueTame
  <1>14. Tame(d, w, R)
    BY <1>7, <1>13, TameTrans
  <1>15. e = GoOn(w, b, r)
    BY <1>4, <1>5, <1>9
  <1>m. Moved(d, w, b, r, e, R)
    BY <1>1, <1>14, <1>15, MovedIs
  <1>16. Serial(e) /\ Shapes(e, R)
    BY <1>m, <1>1, SerialAfter, ShapesAfter
  <1>17. ASSUME NEW z
         PROVE  /\ Count(e, Own(z)) = Count(d, Own(z)) + (IF z = v[2] THEN 1 ELSE 0)
                /\ Count(d, Own(z)) \in Nat
    <2>1. One(Call(b), Own(z)) = 0
      <3>1. Call(b).call \in JobCalls \ {"suspendUnsafe"}
        BY DEF JobCalls
      <3>2. Own(z) # JobGroup(Call(b))
        BY DEF Own, JobGroup, m_group, m_allPathsDoneGroup
      <3> QED
        BY <3>1, <3>2, Costs
    <2>2. One(c, Own(z)) = IF z = v[2] THEN 1 ELSE 0
      <3>1. c.call = "suspendUnsafe" /\ c.wrapper = v
        BY DEF Job
      <3>2. Own(z) # JobGroup(c)
        BY DEF Own, JobGroup, m_group, m_allPathsDoneGroup
      <3>3. Own(z) = <<"run", 0, v[2]>> <=> z = v[2]
        BY DEF Own
      <3> QED
        BY <3>1, <3>2, <3>3, Costs
    <2>3. Count(w, Own(z)) = Count(u, Own(z)) + One(c, Own(z))
      <3>1. <<c>>[1] = c
        OBVIOUS
      <3>2. Count(w, Own(z)) = Count(u, Own(z)) + One(<<c>>[1], Own(z))
        BY <1>11 DEF EnqueueEffect
      <3> QED
        BY <3>1, <3>2
    <2>4. Count(e, Own(z)) = Count(w, Own(z)) - N(b.calls, Own(z)) + N(r, Own(z))
      BY <1>m, MovedSusp
    <2>5. N(b.calls, Own(z)) = One(Call(b), Own(z)) + N(r, Own(z)) /\ N(r, Own(z)) \in Nat
      BY <1>1
    <2>6. Count(u, Own(z)) = Count(d, Own(z)) /\ Count(d, Own(z)) \in Nat
      BY <1>7, CountIsNat
    <2> QED
      BY <2>1, <2>2, <2>3, <2>4, <2>5, <2>6
  <1>18. Susp(d, q) = 0
    <2>1. Suspender(b)
      BY <1>1 DEF Suspender
    <2> QED
      BY <2>1, <1>1, <1>2 DEF OwnQueues
  <1>19. /\ \A y : Susp(e, y) = IF y = q THEN 1 ELSE Susp(d, y)
         /\ \A y : y # q => Susp(w, y) = Susp(d, y)
    BY <1>m, <1>7, <1>13, <1>18, MovedSusp
  <1>20. ASSUME NEW y
         PROVE  Susp(e, Own(y)) \in {0, 1} /\ Count(e, Own(y)) <= Susp(e, Own(y))
    <2>1. Susp(d, Own(y)) \in {0, 1} /\ Count(d, Own(y)) <= Susp(d, Own(y))
      BY <1>1 DEF OwnQueues
    <2>2. Count(e, Own(y)) = Count(d, Own(y)) + (IF y = v[2] THEN 1 ELSE 0) /\ Count(d, Own(y)) \in Nat
      BY <1>17
    <2>3. Own(y) = q <=> y = v[2]
      BY DEF Own
    <2>4. CASE y = v[2]
      <3>1. Susp(e, Own(y)) = 1 /\ Susp(d, Own(y)) = 0
        BY <2>3, <2>4, <1>18, <1>19
      <3> QED
        BY <3>1, <2>1, <2>2, <2>4
    <2>5. CASE y # v[2]
      <3>1. Susp(e, Own(y)) = Susp(d, Own(y))
        BY <2>3, <2>5, <1>19
      <3> QED
        BY <3>1, <2>1, <2>2, <2>5
    <2> QED
      BY <2>4, <2>5
  <1>21. ASSUME NEW a, Copies(e, a) > 0, Suspender(a)
         PROVE  Susp(e, a.queue) = 0
    <2>1. Copies(w, a) = Copies(d, a)
      BY <1>7, <1>13
    <2>2. Copies(d, a) > 0 /\ (a = b => Copies(w, b) > 1)
      BY <2>1, <1>3, <1>m, <1>21, MovedRuns
    <2>3. Susp(d, a.queue) = 0
      BY <2>2, <1>21, <1>1 DEF OwnQueues
    <2>4. a.queue # q
      <3> SUFFICES ASSUME a.queue = q
                   PROVE  FALSE
        OBVIOUS
      <3>1. a = b /\ Copies(d, b) = 1
        BY <2>2, <1>1, <1>2, <1>4 DEF Serial
      <3> QED
        BY <3>1, <2>1, <2>2
    <2> QED
      BY <2>3, <2>4, <1>19
  <1>22. OwnQueues(e)
    BY <1>20, <1>21 DEF OwnQueues
  <1>23. UnsafeQueue(e)
    <2>1. Susp(w, U) = Susp(d, U)
      BY <1>4, <1>19
    <2>2. ~Holder(e, Block(b.queue, r))
      BY <1>2 DEF Holder, Block
    <2>3. /\ \A a : Copies(w, a) # Copies(d, a) => resume(U) \notin Range(a.calls)
          /\ \A x : Entered(w, Lock(x)) >= Entered(d, Lock(x))
      <3>1. \A x : Entered(w, Lock(x)) = Entered(d, Lock(x)) /\ Entered(d, Lock(x)) \in Nat
        BY <1>7, <1>13, AnyGroup
      <3> QED
        BY <3>1, <1>7, <1>13
    <2> QED
      BY <2>1, <2>2, <2>3, <1>1, <1>m, UnsafeAfter
  <1>24. OtherQueues(e)
    <2>1. \A y : y # U /\ (\A z : y # Own(z)) => Susp(w, y) = Susp(d, y)
      BY <1>19
    <2> QED
      BY <2>1, <1>m, <1>1, OtherAfter
  <1> QED
    BY <1>16, <1>22, <1>23, <1>24 DEF QueueInv, Sums

\* A module that is not thread safe works, and then gives both queues back.
LEMMA WorkSuits ==
  ASSUME NEW v, IsUnsafe(v), NEW at, NEW R, NEW s,
         s = <<Job("work", v, at), resume(s_non_thread_safe_queue), resume(Own(v[2]))>>
  PROVE  /\ SuitsAll(Global, s, R) /\ IsSeq(s) /\ s # <<>>
         /\ \A z : N(s, Own(z)) = IF z = v[2] THEN 1 ELSE 0
  <1> DEFINE U == s_non_thread_safe_queue
             a == Job("work", v, at)
             b == resume(U)
             c == resume(Own(v[2]))
  <1>p. PICK k : k = <<c>>
    OBVIOUS
  <1>q. PICK l : l = <<b>> \o k
    OBVIOUS
  <1>m. PICK m : m = <<a>> \o l
    OBVIOUS
  <1>0. IsSeq(k) /\ Range(k) = {c}
    BY <1>p, OneElement
  <1>n. IsSeq(l) /\ Range(l) = {b} \cup Range(k)
    BY <1>0, <1>q, Cons
  <1>o. IsSeq(m) /\ m # <<>>
    BY <1>n, <1>m, Cons
  <1>s. s = m
    <2>1. s = <<a, b, c>>
      OBVIOUS
    <2>2. s = <<a>> \o <<b, c>>
      BY <2>1, Elements
    <2>3. <<b, c>> = l
      BY <1>p, <1>q, Elements
    <2> QED
      BY <2>2, <2>3, <1>m
  <1>1. /\ IsSeq(k) /\ Range(k) = {c} /\ IsSeq(l) /\ Range(l) = {b, c}
        /\ s = m /\ IsSeq(m) /\ m # <<>>
    BY <1>0, <1>n, <1>o, <1>s
  <1>2. U # Global /\ (\A z : Own(z) # U /\ Own(z) # Global)
    BY DEF Own, Global, s_non_thread_safe_queue
  <1>3. Suits(Global, c, {}, R)
    BY <1>2 DEF Suits, SuitsCall, resume
  <1>4. Suits(Global, b, {c}, R)
    BY <1>2 DEF Suits, SuitsCall, resume
  <1>5. Suits(Global, a, {b, c}, R)
    <2>1. a.call = "work" /\ a.wrapper = v
      BY DEF Job
    <2>2. MayWork(Global, v, {b, c})
      BY DEF MayWork, Dry, Resumes, resume
    <2> QED
      BY <2>1, <2>2, <1>2 DEF Suits, SuitsCall
  <1>6. SuitsAll(Global, k, R)
    BY <1>3, <1>p, SuitsOne
  <1>7. SuitsAll(Global, l, R)
    <2>1. Suits(Global, b, Range(k), R)
      BY <1>1, <1>4
    <2> QED
      BY <2>1, <1>1, <1>6, <1>q, SuitsCons
  <1>8. SuitsAll(Global, s, R)
    <2>1. Suits(Global, a, Range(l), R)
      BY <1>1, <1>5
    <2> QED
      BY <2>1, <1>1, <1>7, <1>m, SuitsCons
  <1>9. ASSUME NEW z
        PROVE  N(s, Own(z)) = IF z = v[2] THEN 1 ELSE 0
    <2>1. One(a, Own(z)) = 0
      <3>1. a.call = "work"
        BY DEF Job
      <3> QED
        BY <3>1, LightCall, LightCost
    <2>2. One(b, Own(z)) = 0
      <3>1. b.call = "resume" /\ b.queue = U
        BY DEF resume
      <3> QED
        BY <3>1, <1>2, Costs
    <2>3. One(c, Own(z)) = IF z = v[2] THEN 1 ELSE 0
      <3>1. c.call = "resume" /\ c.queue = Own(v[2])
        BY DEF resume
      <3>2. Own(z) = Own(v[2]) <=> z = v[2]
        BY DEF Own
      <3> QED
        BY <3>1, <3>2, Costs
    <2>4. N(k, Own(z)) = One(c, Own(z))
      BY <1>p, NOne
    <2>5. N(l, Own(z)) = One(b, Own(z)) + N(k, Own(z))
      BY <1>1, <1>q, NCons
    <2>6. N(m, Own(z)) = One(a, Own(z)) + N(l, Own(z))
      BY <1>1, <1>m, NCons
    <2> QED
      BY <2>1, <2>2, <2>3, <2>4, <2>5, <2>6, <1>1
  <1> QED
    BY <1>1, <1>8, <1>9

\* The queue of all such modules is suspended by the block that it runs, for a
\* module that works then.
LEMMA SuspendUnsafeQueues ==
  ASSUME NEW d, IsGcd(d), NEW R, QueueInv(d, R), NEW b \in Runs(d), Call(b).call = "suspendUnsafe",
         NEW v, v = Call(b).wrapper, NEW at,
         NEW e, e = GoOn(dispatch_async(dispatch_suspend(d, s_non_thread_safe_queue), Global,
                                        <<Job("work", v, at),
                                          resume(s_non_thread_safe_queue), resume(runQueue(v))>>),
                         b, Later(b))
  PROVE  QueueInv(e, R)
  <1> DEFINE U == s_non_thread_safe_queue
             r == Later(b)
  <1>1. /\ Serial(d) /\ Shapes(d, R) /\ OwnQueues(d) /\ UnsafeQueue(d) /\ OtherQueues(d)
        /\ Suits(b.queue, Call(b), Range(r), R) /\ SuitsAll(b.queue, r, R)
        /\ IsSeq(r) /\ b.calls = <<Call(b)>> \o r
        /\ Range(b.calls) = {Call(b)} \cup Range(r) /\ Copies(d, b) > 0
        /\ \A x : N(b.calls, x) = One(Call(b), x) + N(r, x) /\ N(r, x) \in Nat
    BY QueueInvIs
  <1>2. IsUnsafe(v) /\ b.queue = U /\ Range(r) = {}
    BY <1>1 DEF Suits, SuitsCall
  <1>3. r = <<>>
    BY <1>1, <1>2, NoneLeft
  <1>4. runQueue(v) = Own(v[2]) /\ U # Global /\ \A z : Own(z) # U
    BY <1>2 DEF Own, Global, s_non_thread_safe_queue, runQueue, IsUnsafe
  <1>5. PICK s : s = <<Job("work", v, at), resume(U), resume(Own(v[2]))>>
    OBVIOUS
  <1>6. /\ SuitsAll(Global, s, R) /\ IsSeq(s) /\ s # <<>>
        /\ \A z : N(s, Own(z)) = IF z = v[2] THEN 1 ELSE 0
    BY <1>2, <1>5, WorkSuits
  <1>7. PICK u : u = dispatch_suspend(d, U)
    OBVIOUS
  <1>8. SuspendedEffect(d, U, Susp(d, U) + 1, u)
    BY <1>4, <1>7, SuspendsOnce
  <1>9. /\ Tame(d, u, R)
        /\ \A y : Susp(u, y) = IF y = U THEN Susp(d, U) + 1 ELSE Susp(d, y)
        /\ \A x : Count(u, x) = Count(d, x) /\ Entered(u, x) = Entered(d, x)
        /\ \A a : Copies(u, a) = Copies(d, a)
    BY <1>8, SuspendedTame
  <1>10. IsGcd(u)
    BY <1>9 DEF Tame
  <1>11. PICK w : w = dispatch_async(u, Global, s)
    OBVIOUS
  <1>12. ForkEffect(u, s, w)
    BY <1>6, <1>10, <1>11, ForkIs
  <1>13. Tame(u, w, R) /\ \A q : Susp(w, q) = Susp(u, q)
    BY <1>6, <1>10, <1>12, ForkTame
  <1>14. Tame(d, w, R)
    BY <1>9, <1>13, TameTrans
  <1>15. e = GoOn(w, b, r)
    BY <1>4, <1>5, <1>7, <1>11
  <1>m. Moved(d, w, b, r, e, R)
    BY <1>1, <1>14, <1>15, MovedIs
  <1>16. Serial(e) /\ Shapes(e, R)
    BY <1>m, <1>1, SerialAfter, ShapesAfter
  <1>17. Susp(d, U) = 0
    BY <1>1, <1>2 DEF UnsafeQueue
  <1>18. Susp(w, U) = 1 /\ \A y : y # U => Susp(w, y) = Susp(d, y)
    BY <1>9, <1>13, <1>17
  <1>19. ASSUME NEW z
         PROVE  Susp(w, Own(z)) = Susp(d, Own(z)) /\ Count(e, Own(z)) <= Count(d, Own(z))
    <2>1. One(Call(b), Own(z)) = IF z = v[2] THEN 1 ELSE 0
      <3>1. Own(z) # JobGroup(Call(b))
        BY DEF Own, JobGroup, m_group, m_allPathsDoneGroup
      <3>2. Own(z) = <<"run", 0, v[2]>> <=> z = v[2]
        BY DEF Own
      <3> QED
        BY <3>1, <3>2, Costs
    <2>2. Count(w, Own(z)) = Count(u, Own(z)) + N(s, Own(z))
      BY <1>12 DEF ForkEffect
    <2>3. N(s, Own(z)) = IF z = v[2] THEN 1 ELSE 0
      BY <1>6
    <2>4. Count(e, Own(z)) = Count(w, Own(z)) - N(b.calls, Own(z)) + N(r, Own(z))
      BY <1>m, MovedSusp
    <2>5. N(b.calls, Own(z)) = One(Call(b), Own(z)) + N(r, Own(z)) /\ N(r, Own(z)) \in Nat
      BY <1>1
    <2>6. Count(u, Own(z)) = Count(d, Own(z)) /\ Count(d, Own(z)) \in Nat
      BY <1>9, CountIsNat
    <2>7. Susp(w, Own(z)) = Susp(d, Own(z))
      BY <1>4, <1>18
    <2> QED
      BY <2>1, <2>2, <2>3, <2>4, <2>5, <2>6, <2>7
  <1>20. OwnQueues(e)
    <2>1. \A c \in Range(r) : c.call = "suspendOwn" => c \in Range(b.calls)
      BY <1>2
    <2> QED
      BY <2>1, <1>1, <1>m, <1>16, <1>19, OwnAfter
  <1>21. OtherQueues(e)
    <2>1. \A y : y # U /\ (\A z : y # Own(z)) => Susp(w, y) = Susp(d, y)
      BY <1>18
    <2> QED
      BY <2>1, <1>m, <1>1, OtherAfter
  <1>22. ASSUME NEW a, Copies(e, a) > 0, Holder(e, a)
         PROVE  a = Block(Global, s)
    <2>1. CASE Copies(d, a) > 0
      <3>1. \A h : Entered(e, h) = Entered(d, h)
        BY <1>m, <1>9, <1>12, MovedSusp DEF ForkEffect
      <3>2. Holder(d, a)
        BY <3>1, <1>22 DEF Holder
      <3>3. Susp(d, U) = 1
        BY <3>2, <2>1, <1>1 DEF UnsafeQueue
      <3> QED
        BY <3>3, <1>17
    <2>2. CASE Copies(w, a) # Copies(d, a)
      <3>1. Copies(w, a) = Copies(u, a) + (IF a = Block(Global, s) THEN 1 ELSE 0)
        BY <1>12 DEF ForkEffect
      <3>2. Copies(u, a) = Copies(d, a) /\ Copies(d, a) \in Nat
        BY <1>9, RunsPositive
      <3> QED
        BY <3>1, <3>2, <2>2
    <2> QED
      BY <2>1, <2>2, <1>3, <1>22, <1>m, MovedRuns
  <1>23. UnsafeQueue(e)
    <2>1. \A a, c : Copies(e, a) > 0 /\ Copies(e, c) > 0 /\ Holder(e, a) /\ Holder(e, c) => a = c
      BY <1>22
    <2>2. Moved(d, w, b, <<>>, e, R)
      BY <1>m, <1>3
    <2> QED
      BY <2>1, <2>2, <1>1, <1>2, <1>18, UnsafeTaken
  <1> QED
    BY <1>16, <1>20, <1>21, <1>23 DEF QueueInv, Sums

\* A module that gave its queue to others asks for it again: another block will
\* suspend the queue, which this one waits for.
LEMMA SyncQueues ==
  ASSUME NEW d, IsGcd(d), NEW R, QueueInv(d, R), NEW b \in Runs(d), Call(b).call = "sync",
         NEW v, v = Call(b).wrapper,
         NEW e, e = GoOn(dispatch_async(dispatch_group_enter(d, Lock(v)), s_non_thread_safe_queue,
                                        <<lock(v)>>), b, <<wait(Lock(v))>> \o Later(b))
  PROVE  QueueInv(e, R)
  <1> DEFINE U == s_non_thread_safe_queue
             r == Later(b)
             c == wait(Lock(v))
  <1>1. /\ Suits(b.queue, Call(b), Range(r), R) /\ SuitsAll(b.queue, r, R) /\ IsSeq(r)
    BY QueueInvIs
  <1>2. b.queue # U /\ IsUnsafe(v) /\ Resumes(v) \subseteq Range(r)
    BY <1>1 DEF Suits, SuitsCall
  <1>3. PICK u : u = dispatch_group_enter(d, Lock(v))
    OBVIOUS
  <1>4. EnterEffect(d, Lock(v), u)
    BY <1>3, EnterIs
  <1>5. Smooth(d, u, R) /\ IsGcd(u)
    <2>1. Smooth(d, u, R)
      BY <1>4, EnterSmooth
    <2> QED
      BY <2>1, <1>4 DEF EnterEffect
  <1>6. PICK w : w = dispatch_async(u, U, <<lock(v)>>)
    OBVIOUS
  <1>7. U # Global /\ IsOne(<<lock(v)>>)
    BY DEF s_non_thread_safe_queue, Global, IsOne
  <1>8. EnqueueEffect(u, U, <<lock(v)>>, w)
    BY <1>5, <1>6, <1>7, EnqueueIs
  <1>9. SuitsAll(U, <<lock(v)>>, R)
    <2>1. Suits(U, lock(v), {}, R)
      BY DEF Suits, SuitsCall, lock
    <2> QED
      BY <2>1, SuitsOne
  <1>10. \A z : One(<<lock(v)>>[1], Own(z)) = 0
    <2>1. <<lock(v)>>[1] = lock(v) /\ lock(v).call = "lock"
      BY DEF lock
    <2>2. Light(lock(v))
      BY <2>1, LightCall
    <2> QED
      BY <2>1, <2>2, LightCost
  <1>11. Smooth(u, w, R)
    BY <1>5, <1>8, <1>9, <1>10, EnqueueTame DEF Smooth
  <1>12. Smooth(d, w, R)
    BY <1>5, <1>11, SmoothTrans
  <1>13. c.call = "wait" /\ c.group = Lock(v) /\ Light(c)
    <2>1. c.call = "wait" /\ c.group = Lock(v)
      BY DEF wait
    <2> QED
      BY <2>1, LightCall
  <1>14. PICK t : t = <<c>>
    OBVIOUS
  <1>15. IsSeq(t) /\ Range(t) = {c} /\ \A x \in Range(t) : Light(x)
    BY <1>13, <1>14, OneElement
  <1>16. SuitsAll(b.queue, t \o r, R)
    <2>1. \A x : c.group = Lock(x) => x = v
      <3>1. \A x : Lock(v) = Lock(x) => x = v
        BY DEF Lock
      <3> QED
        BY <3>1, <1>13
    <2>2. PICK k : k = c
      OBVIOUS
    <2>3. k.call = "wait" /\ \A x : k.group = Lock(x) => x = v
      BY <2>1, <2>2, <1>13
    <2>4. Suits(b.queue, k, Range(r), R)
      BY <2>3, <1>2 DEF Suits, SuitsCall
    <2>5. SuitsAll(b.queue, <<k>> \o r, R)
      BY <2>4, <1>1, SuitsCons
    <2> QED
      BY <2>2, <2>5, <1>14
  <1>17. e = GoOn(w, b, t \o r)
    BY <1>3, <1>6, <1>14
  <1>18. ~Holder(e, Block(b.queue, t \o r))
    <2>1. Moved(d, w, b, t \o r, e, R)
      BY <1>1, <1>12, <1>15, <1>16, <1>17, Concat, MovedIs DEF Smooth
    <2>2. Entered(e, Lock(v)) = Entered(d, Lock(v)) + 1 /\ Entered(d, Lock(v)) \in Nat
      BY <2>1, <1>4, <1>8, MovedSusp, AnyGroup DEF EnterEffect, EnqueueEffect
    <2>3. c \in Range(t \o r)
      BY <1>1, <1>15, Concat
    <2> QED
      BY <2>2, <2>3 DEF Holder, Block
  <1> QED
    BY <1>12, <1>15, <1>16, <1>17, <1>18, SmoothAfter

\* Who waits for the queue to be suspended again will give back its own.
LEMMA WaiterOwes ==
  ASSUME NEW d, NEW R, Shapes(d, R), NEW a, Copies(d, a) > 0, NEW v, wait(Lock(v)) \in Range(a.calls)
  PROVE  \E z \in Range(a.calls) : Owes(Inner(z), Own(v[2]))
  <1>1. PICK c : c = wait(Lock(v))
    OBVIOUS
  <1>2. c.call = "wait" /\ c.group = Lock(v) /\ c \in Range(a.calls)
    BY <1>1 DEF wait
  <1>3. SuitsAll(a.queue, a.calls, R)
    BY DEF Shapes
  <1>4. PICK S : S \subseteq Range(a.calls) /\ Suits(a.queue, c, S, R)
    BY <1>2, <1>3, SuitsMember
  <1>5. Resumes(v) \subseteq Range(a.calls)
    BY <1>2, <1>4 DEF Suits, SuitsCall
  <1>6. PICK z : z = resume(Own(v[2]))
    OBVIOUS
  <1>7. z \in Range(a.calls)
    BY <1>5, <1>6 DEF Resumes
  <1>8. z.call = "resume" /\ z.queue = Own(v[2])
    BY <1>6 DEF resume
  <1>9. Owes(Inner(z), Own(v[2]))
    BY <1>8 DEF Owes, Inner
  <1> QED
    BY <1>7, <1>9

\* The queue is suspended again, for the one who waits.
LEMMA SuspendAgainQueues ==
  ASSUME NEW d, IsGcd(d), NEW R, QueueInv(d, R), NEW b \in Runs(d), Call(b).call = "lock",
         NEW v, v = Call(b).wrapper,
         NEW e, e = GoOn(dispatch_group_leave(dispatch_suspend(d, s_non_thread_safe_queue), Lock(v)),
                         b, Later(b))
  PROVE  QueueInv(e, R)
  <1> DEFINE U == s_non_thread_safe_queue
             r == Later(b)
  <1>1. /\ Serial(d) /\ Shapes(d, R) /\ OwnQueues(d) /\ UnsafeQueue(d) /\ OtherQueues(d)
        /\ Suits(b.queue, Call(b), Range(r), R) /\ SuitsAll(b.queue, r, R)
        /\ IsSeq(r) /\ Copies(d, b) > 0
        /\ Range(b.calls) = {Call(b)} \cup Range(r)
        /\ \A x : N(b.calls, x) = One(Call(b), x) + N(r, x) /\ N(r, x) \in Nat
    BY QueueInvIs
  <1>2. b.queue = U /\ Range(r) = {}
    BY <1>1 DEF Suits, SuitsCall
  <1>3. r = <<>>
    BY <1>1, <1>2, NoneLeft
  <1>4. U # Global /\ \A z : Own(z) # U
    BY DEF Own, Global, s_non_thread_safe_queue
  <1>5. PICK u : u = dispatch_suspend(d, U)
    OBVIOUS
  <1>6. SuspendedEffect(d, U, Susp(d, U) + 1, u)
    BY <1>4, <1>5, SuspendsOnce
  <1>7. /\ Tame(d, u, R)
        /\ \A y : Susp(u, y) = IF y = U THEN Susp(d, U) + 1 ELSE Susp(d, y)
        /\ \A x : Count(u, x) = Count(d, x) /\ Entered(u, x) = Entered(d, x)
        /\ \A a : Copies(u, a) = Copies(d, a)
    BY <1>6, SuspendedTame
  <1>8. IsGcd(u)
    BY <1>7 DEF Tame
  <1>9. PICK w : w = dispatch_group_leave(u, Lock(v))
    OBVIOUS
  <1>10. LeaveEffect(u, Lock(v), w)
    BY <1>8, <1>9, LeaveIs
  <1>11. Tame(u, w, R)
    BY <1>8, <1>10, LeaveTame
  <1>12. Tame(d, w, R)
    BY <1>7, <1>11, TameTrans
  <1>13. e = GoOn(w, b, r)
    BY <1>5, <1>9
  <1>m. Moved(d, w, b, r, e, R)
    BY <1>1, <1>12, <1>13, MovedIs
  <1>14. Serial(e) /\ Shapes(e, R)
    BY <1>m, <1>1, SerialAfter, ShapesAfter
  <1>15. Susp(d, U) = 0
    BY <1>1, <1>2 DEF UnsafeQueue
  <1>16. /\ \A y : Susp(w, y) = Susp(u, y)
         /\ \A a : Copies(w, a) = Copies(d, a)
    BY <1>7, <1>10 DEF LeaveEffect, Susp
  <1>17. Susp(w, U) = 1 /\ \A y : y # U => Susp(w, y) = Susp(d, y)
    BY <1>7, <1>15, <1>16
  <1>18. ASSUME NEW z
         PROVE  Susp(w, Own(z)) = Susp(d, Own(z)) /\ Count(e, Own(z)) <= Count(d, Own(z))
    <2>1. PICK x : x = Own(z)
      OBVIOUS
    <2>2. IsSeq(ToSubmit(u, Lock(v)))
      BY <1>8, AnyGroup, OneElement DEF ToSubmit
    <2>3. N(ToSubmit(u, Lock(v)), x) \in Nat
      BY <2>2, FinitelyOwing
    <2>4. Count(w, x) = Count(u, x) - N(ToSubmit(u, Lock(v)), x)
      BY <1>10 DEF LeaveEffect
    <2>5. Count(u, x) = Count(d, x) /\ Count(d, x) \in Nat
      BY <1>7, CountIsNat
    <2>6. Count(e, x) = Count(w, x) - N(b.calls, x) + N(r, x)
      BY <1>m, MovedSusp
    <2>7. N(b.calls, x) = One(Call(b), x) + N(r, x) /\ N(r, x) \in Nat /\ One(Call(b), x) \in {0, 1}
      BY <1>1, Costs
    <2>8. Count(e, x) <= Count(d, x)
      BY <2>3, <2>4, <2>5, <2>6, <2>7
    <2> QED
      BY <2>1, <2>8, <1>4, <1>17
  <1>19. OwnQueues(e)
    <2>1. \A c \in Range(r) : c.call = "suspendOwn" => c \in Range(b.calls)
      BY <1>2
    <2> QED
      BY <2>1, <1>1, <1>m, <1>14, <1>18, OwnAfter
  <1>20. OtherQueues(e)
    <2>1. \A y : y # U /\ (\A z : y # Own(z)) => Susp(w, y) = Susp(d, y)
      BY <1>17
    <2> QED
      BY <2>1, <1>m, <1>1, OtherAfter
  <1>21. ASSUME NEW a, Copies(e, a) > 0, Holder(e, a)
         PROVE  Copies(d, a) > 0 /\ \E z \in Range(a.calls) : Owes(Inner(z), Own(v[2]))
    <2>1. Copies(d, a) > 0
      BY <1>3, <1>16, <1>21, <1>m, MovedRuns
    <2>2. ~Holder(d, a)
      BY <2>1, <1>1, <1>15 DEF UnsafeQueue
    <2>3. PICK y : wait(Lock(y)) \in Range(a.calls) /\ Entered(d, Lock(y)) # 0 /\ Entered(e, Lock(y)) = 0
      BY <2>2, <1>21 DEF Holder
    <2>4. y = v
      <3> SUFFICES ASSUME y # v
                   PROVE  FALSE
        OBVIOUS
      <3>1. Lock(y) # Lock(v)
        BY Names
      <3>2. Entered(w, Lock(y)) = Entered(u, Lock(y))
        BY <3>1, <1>10 DEF LeaveEffect
      <3>3. Entered(e, Lock(y)) = Entered(w, Lock(y))
        BY <1>m, MovedSusp
      <3>4. Entered(u, Lock(y)) = Entered(d, Lock(y))
        BY <1>7
      <3> QED
        BY <3>2, <3>3, <3>4, <2>3
    <2>5. wait(Lock(v)) \in Range(a.calls)
      BY <2>3, <2>4
    <2>6. \E z \in Range(a.calls) : Owes(Inner(z), Own(v[2]))
      BY <2>1, <2>5, <1>1, WaiterOwes
    <2> QED
      BY <2>1, <2>6
  <1>22. ASSUME NEW a, NEW c, Copies(e, a) > 0, Copies(e, c) > 0, Holder(e, a), Holder(e, c)
         PROVE  a = c
    <2>1. PICK x : x = Own(v[2])
      OBVIOUS
    <2>2. Copies(d, a) > 0 /\ Copies(d, c) > 0 /\ BothOwe(a, c, x)
      BY <2>1, <1>21, <1>22 DEF BothOwe
    <2>3. Count(d, x) <= 1
      <3>1. Susp(d, Own(v[2])) \in {0, 1} /\ Count(d, Own(v[2])) <= Susp(d, Own(v[2]))
        BY <1>1 DEF OwnQueues
      <3>2. Count(d, x) \in Nat
        BY CountIsNat
      <3> QED
        BY <3>1, <3>2, <2>1
    <2> QED
      BY <2>2, <2>3, TwoOwe
  <1>23. UnsafeQueue(e)
    <2>1. Moved(d, w, b, <<>>, e, R)
      BY <1>m, <1>3
    <2> QED
      BY <2>1, <1>1, <1>2, <1>17, <1>22, UnsafeTaken
  <1> QED
    BY <1>14, <1>19, <1>20, <1>23 DEF QueueInv, Sums

\* A module that gets a datum gives its queue to others, and asks for it again
\* afterwards.
LEMMA ReadQueues ==
  ASSUME NEW d, IsGcd(d), NEW R, QueueInv(d, R), NEW b \in Runs(d), Call(b).call = "reads",
         NEW v, v = Call(b).wrapper, IsUnsafe(v),
         NEW t, IsSeq(t), sync(v) \in Range(t), \A c \in Range(t) : Light(c),
         SuitsAll(b.queue, t \o Later(b), R),
         NEW e, e = GoOn(dispatch_resume(d, s_non_thread_safe_queue), b, t \o Later(b))
  PROVE  QueueInv(e, R)
  <1> DEFINE U == s_non_thread_safe_queue
             r == t \o Later(b)
  <1>1. /\ Serial(d) /\ Shapes(d, R) /\ OwnQueues(d) /\ UnsafeQueue(d) /\ OtherQueues(d)
        /\ Suits(b.queue, Call(b), Range(Later(b)), R)
        /\ IsSeq(Later(b)) /\ Copies(d, b) > 0
        /\ Range(b.calls) = {Call(b)} \cup Range(Later(b))
        /\ \A x : N(b.calls, x) = One(Call(b), x) + N(Later(b), x) /\ N(Later(b), x) \in Nat
    BY QueueInvIs
  <1>2. Dry(Range(Later(b))) /\ Resumes(v) \subseteq Range(Later(b))
    BY <1>1 DEF Suits, SuitsCall, MayWork
  <1>3. Holder(d, b)
    <2>1. resume(U) \in Range(b.calls)
      BY <1>1, <1>2 DEF Resumes
    <2>2. \A x : /\ sync(x) # Call(b) /\ sync(x) \notin Range(Later(b))
                 /\ wait(Lock(x)) # Call(b) /\ wait(Lock(x)) \notin Range(Later(b))
      <3>1. \A x : sync(x).call = "sync" /\ wait(Lock(x)).call = "wait"
        BY DEF sync, wait
      <3> QED
        BY <3>1, <1>2 DEF Dry
    <2> QED
      BY <2>1, <2>2, <1>1 DEF Holder
  <1>4. U # Global /\ \A z : Own(z) # U
    BY DEF Own, Global, s_non_thread_safe_queue
  <1>5. PICK w : w = dispatch_resume(d, U)
    OBVIOUS
  <1>6. SuspendedEffect(d, U, Susp(d, U) - 1, w)
    BY <1>4, <1>5, SuspendsOnce
  <1>7. /\ Tame(d, w, R)
        /\ \A y : Susp(w, y) = IF y = U THEN Susp(d, U) - 1 ELSE Susp(d, y)
        /\ \A x : Count(w, x) = Count(d, x) /\ Entered(w, x) = Entered(d, x)
        /\ \A a : Copies(w, a) = Copies(d, a)
    BY <1>6, SuspendedTame
  <1>8. IsSeq(r) /\ Range(r) = Range(t) \cup Range(Later(b))
    BY <1>1, Concat
  <1>9. e = GoOn(w, b, r)
    BY <1>5
  <1>m. Moved(d, w, b, r, e, R)
    BY <1>7, <1>8, <1>9, MovedIs
  <1>10. Serial(e) /\ Shapes(e, R)
    BY <1>m, <1>1, SerialAfter, ShapesAfter
  <1>11. Susp(w, U) = 0 /\ \A y : y # U => Susp(w, y) = Susp(d, y)
    BY <1>1, <1>3, <1>7 DEF UnsafeQueue
  <1>12. ASSUME NEW z
         PROVE  Susp(w, Own(z)) = Susp(d, Own(z)) /\ Count(e, Own(z)) <= Count(d, Own(z))
    <2>1. PICK x : x = Own(z)
      OBVIOUS
    <2>2. N(t, x) = 0
      <3>1. \A c \in Range(t) : ~Owes(Inner(c), x)
        BY <2>1 DEF Light
      <3> QED
        BY <3>1, NZero
    <2>3. N(r, x) = N(t, x) + N(Later(b), x)
      BY <1>1, NConcat
    <2>4. Count(e, x) = Count(w, x) - N(b.calls, x) + N(r, x)
      BY <1>m, MovedSusp
    <2>5. N(b.calls, x) = One(Call(b), x) + N(Later(b), x) /\ N(Later(b), x) \in Nat /\ One(Call(b), x) \in {0, 1}
      BY <1>1, Costs
    <2>6. Count(w, x) = Count(d, x) /\ Count(d, x) \in Nat
      BY <1>7, CountIsNat
    <2>7. Count(e, x) <= Count(d, x)
      BY <2>2, <2>3, <2>4, <2>5, <2>6
    <2> QED
      BY <2>1, <2>7, <1>4, <1>11
  <1>13. OwnQueues(e)
    <2>1. \A c \in Range(r) : c.call = "suspendOwn" => c \in Range(b.calls)
      BY <1>1, <1>8 DEF Light
    <2> QED
      BY <2>1, <1>1, <1>m, <1>10, <1>12, OwnAfter
  <1>14. OtherQueues(e)
    <2>1. \A y : y # U /\ (\A z : y # Own(z)) => Susp(w, y) = Susp(d, y)
      BY <1>11
    <2> QED
      BY <2>1, <1>m, <1>1, OtherAfter
  <1>15. UnsafeQueue(e)
    <2>1. ~Holder(e, Block(b.queue, r))
      BY <1>8 DEF Holder, Block
    <2>2. \A h : Entered(w, h) = Entered(d, h)
      BY <1>7
    <2> QED
      BY <2>1, <2>2, <1>1, <1>3, <1>7, <1>11, <1>m, UnsafeFreed
  <1> QED
    BY <1>10, <1>13, <1>14, <1>15 DEF QueueInv, Sums

\* A serial queue starts its next block.
LEMMA StartQueues ==
  ASSUME NEW d, IsGcd(d), NEW R, QueueInv(d, R), NEW q, q # Global,
         QueueOf(d, q).blocks # <<>>, Susp(d, q) = 0, ~Busyness(d, q),
         NEW e, IsStart(d, q, e)
  PROVE  QueueInv(e, R)
  <1> DEFINE U == s_non_thread_safe_queue
  <1>1. Serial(d) /\ Shapes(d, R) /\ OwnQueues(d) /\ UnsafeQueue(d) /\ OtherQueues(d)
    BY DEF QueueInv, Sums
  <1>2. StartEffect(d, q, e)
    BY StartIs
  <1>3. PICK s : s = Head(QueueOf(d, q).blocks)
    OBVIOUS
  <1>4. PICK n : n = Block(q, s)
    OBVIOUS
  <1>5. n.queue = q /\ n.calls = s
    BY <1>4 DEF Block
  <1>6. /\ IsGcd(e)
        /\ \A x : Count(e, x) = Count(d, x)
        /\ \A h : Entered(e, h) = Entered(d, h)
        /\ \A h : Waiting(e, h) = Waiting(d, h)
        /\ \A c : Copies(e, c) = Copies(d, c) + (IF c = n THEN 1 ELSE 0)
        /\ \A y : QueueOf(e, y) = IF y = q THEN [QueueOf(d, q) EXCEPT !.blocks = Tail(@), !.busy = TRUE]
                                  ELSE QueueOf(d, y)
    BY <1>2, <1>3, <1>4 DEF StartEffect
  <1>7. IsQueue(QueueOf(d, q))
    BY AnyQueue
  <1>8. /\ IsSeq(QueueOf(d, q).blocks)
        /\ \A x : x \in Range(QueueOf(d, q).blocks) <=> x = s \/ x \in Range(Tail(QueueOf(d, q).blocks))
    BY <1>3, <1>7, HeadTail DEF IsQueue
  <1>9. ASSUME NEW y
        PROVE  /\ Susp(e, y) = Susp(d, y)
               /\ Busyness(e, y) = IF y = q THEN TRUE ELSE Busyness(d, y)
               /\ \A x : InQueue(e, y, x) => InQueue(d, y, x)
    <2>1. CASE y = q
      <3>1. PICK old : old = QueueOf(d, q)
        OBVIOUS
      <3>2. old = [blocks |-> old.blocks, suspended |-> old.suspended, busy |-> old.busy]
        BY <3>1, <1>7 DEF IsQueue
      <3>3. QueueOf(e, q) = [blocks |-> Tail(old.blocks), suspended |-> old.suspended, busy |-> TRUE]
        BY <3>1, <3>2, <1>6
      <3>4. /\ QueueOf(e, q).suspended = old.suspended /\ QueueOf(e, q).busy = TRUE
            /\ QueueOf(e, q).blocks = Tail(old.blocks)
        BY <3>3
      <3> QED
        BY <2>1, <3>1, <3>4, <1>8 DEF Susp, Busyness, InQueue
    <2>2. CASE y # q
      BY <2>2, <1>6 DEF Susp, Busyness, InQueue
    <2> QED
      BY <2>1, <2>2
  <1>10. InQueue(d, q, s)
    BY <1>8 DEF InQueue
  <1>11. SuitsAll(q, s, R)
    BY <1>1, <1>10 DEF Shapes
  <1>12. \A c : Copies(d, c) \in Nat
    BY RunsPositive
  <1>13. ASSUME NEW c, Copies(d, c) > 0
         PROVE  c.queue # q /\ c # n
    <2>1. c.queue # q
      BY <1>1, <1>13 DEF Serial
    <2> QED
      BY <2>1, <1>5
  <1>14. \A c : Copies(e, c) > 0 => c = n \/ (Copies(d, c) > 0 /\ Copies(e, c) = Copies(d, c))
    BY <1>6, <1>12, <1>13
  <1>15. Copies(e, n) = 1
    BY <1>6, <1>12, <1>13
  <1>16. Serial(e)
    <2>1. ASSUME NEW a, Copies(e, a) > 0, a.queue # Global
          PROVE  /\ Busyness(e, a.queue) /\ Copies(e, a) = 1
                 /\ \A c : Copies(e, c) > 0 /\ c.queue = a.queue => c = a
      <3>1. CASE a = n
        BY <3>1, <1>5, <1>9, <1>13, <1>14, <1>15
      <3>2. CASE a # n
        <4>1. Copies(d, a) > 0 /\ Copies(e, a) = Copies(d, a) /\ a.queue # q
          BY <3>2, <2>1, <1>13, <1>14
        <4>2. /\ Busyness(d, a.queue) /\ Copies(d, a) = 1
              /\ \A c : Copies(d, c) > 0 /\ c.queue = a.queue => c = a
          BY <4>1, <2>1, <1>1 DEF Serial
        <4>3. Busyness(e, a.queue)
          BY <4>1, <4>2, <1>9
        <4> QED
          BY <4>1, <4>2, <4>3, <1>5, <1>14
      <3> QED
        BY <3>1, <3>2
    <2> QED
      BY <2>1 DEF Serial
  <1>17. Shapes(e, R)
    <2>1. ASSUME NEW a, Copies(e, a) > 0
          PROVE  SuitsAll(a.queue, a.calls, R)
      <3>1. CASE a = n
        BY <3>1, <1>5, <1>11
      <3>2. CASE Copies(d, a) > 0
        BY <3>2, <1>1 DEF Shapes
      <3> QED
        BY <3>1, <3>2, <2>1, <1>14
    <2>2. \A y, x : InQueue(e, y, x) => SuitsAll(y, x, R)
      BY <1>1, <1>9 DEF Shapes
    <2>3. \A g : \A z \in Range(Waiting(e, g)) : Suits(Global, z, {}, R)
      BY <1>1, <1>6 DEF Shapes
    <2> QED
      BY <2>1, <2>2, <2>3 DEF Shapes
  <1>18. OwnQueues(e)
    <2>1. ASSUME NEW z
          PROVE  Susp(e, Own(z)) \in {0, 1} /\ Count(e, Own(z)) <= Susp(e, Own(z))
      BY <1>1, <1>6, <1>9 DEF OwnQueues
    <2>2. ASSUME NEW a, Copies(e, a) > 0, Suspender(a)
          PROVE  Susp(e, a.queue) = 0
      <3>1. CASE a = n
        BY <3>1, <1>5, <1>9
      <3>2. CASE Copies(d, a) > 0
        <4>1. Susp(d, a.queue) = 0
          BY <3>2, <2>2, <1>1 DEF OwnQueues
        <4> QED
          BY <4>1, <1>9
      <3> QED
        BY <3>1, <3>2, <2>2, <1>14
    <2> QED
      BY <2>1, <2>2 DEF OwnQueues
  <1>19. ~Holder(e, n)
    <2>1. s = <<s[1]>> /\ Range(s) = {s[1]}
      BY <1>10, QueuedIs
    <2>2. PICK c : c = s[1]
      OBVIOUS
    <2>3. Suits(q, c, {}, R)
      <3>1. SuitsAll(q, <<c>>, R)
        BY <2>1, <2>2, <1>11
      <3> QED
        BY <3>1, SuitsOne
    <2>4. c # resume(U)
      <3> SUFFICES ASSUME c = resume(U)
                   PROVE  FALSE
        OBVIOUS
      <3>1. c.call = "resume" /\ c.queue = U
        BY DEF resume
      <3>2. \A z : U # Own(z)
        BY DEF Own, s_non_thread_safe_queue
      <3>3. \/ \E z : {} = {resume(Own(z))}
            \/ \E z : c.queue = Own(z)
        BY <2>3, <3>1 DEF Suits, SuitsCall
      <3> QED
        BY <3>1, <3>2, <3>3
    <2>5. resume(U) \notin Range(n.calls)
      BY <2>1, <2>2, <2>4, <1>5
    <2> QED
      BY <2>5 DEF Holder
  <1>20. ASSUME NEW a, Copies(e, a) > 0, Holder(e, a)
         PROVE  Copies(d, a) > 0 /\ Holder(d, a)
    <2>1. Copies(d, a) > 0
      BY <1>14, <1>19, <1>20
    <2>2. Holder(d, a)
      BY <1>6, <1>20 DEF Holder
    <2> QED
      BY <2>1, <2>2
  <1>21. UnsafeQueue(e)
    <2>1. Susp(e, U) \in {0, 1}
      BY <1>1, <1>9 DEF UnsafeQueue
    <2>2. ASSUME NEW a, Copies(e, a) > 0, a.queue = U
          PROVE  Susp(e, U) = 0
      <3>1. CASE a = n
        BY <3>1, <2>2, <1>5, <1>9
      <3>2. CASE Copies(d, a) > 0
        BY <3>2, <2>2, <1>1, <1>9 DEF UnsafeQueue
      <3> QED
        BY <3>1, <3>2, <2>2, <1>14
    <2>3. \A a : Copies(e, a) > 0 /\ Holder(e, a) => Susp(e, U) = 1
      BY <1>1, <1>9, <1>20 DEF UnsafeQueue
    <2>4. \A a, c : Copies(e, a) > 0 /\ Copies(e, c) > 0 /\ Holder(e, a) /\ Holder(e, c) => a = c
      BY <1>1, <1>20 DEF UnsafeQueue
    <2> QED
      BY <2>1, <2>2, <2>3, <2>4 DEF UnsafeQueue
  <1>22. OtherQueues(e)
    <2>1. \A y : Susp(e, y) = Susp(d, y)
      BY <1>9
    <2> QED
      BY <2>1, <1>1 DEF OtherQueues
  <1> QED
    BY <1>16, <1>17, <1>18, <1>21, <1>22 DEF QueueInv, Sums

-----------------------------------------------------------------------------
(* Blocks that are submitted. *)

\* A call that neither gives back nor will a queue.
Modest(c) == c.call \notin {"resume", "submit"} /\ \A z : ~Owes(c, Own(z))

\* What it costs.
LEMMA ModestCost ==
  ASSUME NEW c, Modest(c), NEW z
  PROVE  One(c, Own(z)) = 0 /\ N(<<c>>, Own(z)) = 0
  <1>1. Inner(c) = c
    BY DEF Modest, Inner
  <1>2. One(c, Own(z)) = 0
    BY <1>1 DEF Modest, One
  <1> QED
    BY <1>2, NOne

\* A block of one such call is submitted.
LEMMA AsyncSmooth ==
  ASSUME NEW d, IsGcd(d), NEW q, NEW c, NEW R, SuitsCall(q, c, {}, R), Modest(c),
         NEW w, w = dispatch_async(d, q, <<c>>)
  PROVE  Smooth(d, w, R)
  <1>1. Suits(q, c, {}, R)
    BY DEF Suits, Modest
  <1>2. SuitsAll(q, <<c>>, R)
    BY <1>1, SuitsOne
  <1>3. PICK s : s = <<c>>
    OBVIOUS
  <1>4. IsSeq(s) /\ Range(s) = {c} /\ s # <<>> /\ s[1] = c /\ IsOne(s)
    BY <1>3, OneElement DEF IsOne
  <1>5. \A z : One(s[1], Own(z)) = 0 /\ N(s, Own(z)) = 0
    BY <1>3, <1>4, ModestCost
  <1>6. CASE q = Global
    <2>1. ForkEffect(d, s, w)
      BY <1>3, <1>4, <1>6, ForkIs
    <2>2. SuitsAll(Global, s, R)
      BY <1>2, <1>3, <1>6
    <2>3. resume(s_non_thread_safe_queue) \notin Range(s)
      BY <1>4 DEF Modest, resume
    <2> QED
      BY <2>1, <2>2, <2>3, <1>5, ForkTame DEF Smooth
  <1>7. CASE q # Global
    <2>1. EnqueueEffect(d, q, s, w)
      BY <1>3, <1>4, <1>7, EnqueueIs
    <2>2. SuitsAll(q, s, R)
      BY <1>2, <1>3
    <2> QED
      BY <2>1, <2>2, <1>5, EnqueueTame DEF Smooth
  <1> QED
    BY <1>6, <1>7

\* Or it is when a group is empty.
LEMMA NotifySmooth ==
  ASSUME NEW d, IsGcd(d), NEW g, NEW q, NEW c, NEW R, SuitsCall(q, c, {}, R), Modest(c),
         NEW w, w = dispatch_group_notify(d, g, q, <<c>>)
  PROVE  Smooth(d, w, R)
  <1>1. CASE Entered(d, g) = 0
    <2>1. w = dispatch_async(d, q, <<c>>)
      BY <1>1 DEF dispatch_group_notify
    <2> QED
      BY <2>1, AsyncSmooth
  <1>2. CASE Entered(d, g) # 0
    <2>1. PICK s : s = <<c>>
      OBVIOUS
    <2>2. NoteEffect(d, g, q, s, w)
      BY <1>2, <2>1, NoteIs
    <2>3. PICK x : x = submit(q, s)
      OBVIOUS
    <2>4. x.call = "submit" /\ x.queue = q /\ x.block[1] = c
      BY <2>1, <2>3 DEF submit
    <2>5. Suits(Global, x, {}, R)
      <3>1. Global # s_non_thread_safe_queue
        BY DEF Global, s_non_thread_safe_queue
      <3>2. SuitsCall(Global, x, {}, R)
        BY <3>1, <2>4 DEF SuitsCall
      <3> QED
        BY <3>2, <2>4 DEF Suits
    <2>6. \A z : One(x, Own(z)) = 0
      <3>1. Inner(x) = c
        BY <2>4 DEF Inner
      <3> QED
        BY <3>1 DEF One, Modest
    <2> QED
      BY <2>2, <2>3, <2>5, <2>6, NoteSmooth
  <1> QED
    BY <1>1, <1>2

\* A group whose name is not that of a lock or a queue.
IsCommon(g) == (\A v : g # Lock(v)) /\ \A z : g # Own(z)

\* Those for data and paths are.
LEMMA CommonGroups ==
  ASSUME NEW s, NEW w
  PROVE  /\ IsCommon(m_eventLoopGroup) /\ IsCommon(m_allPathsDoneGroup(s))
         /\ IsCommon(prefetchGroup(w)) /\ IsCommon(m_group(w))
  BY DEF IsCommon, Lock, Own, m_eventLoopGroup, m_allPathsDoneGroup, prefetchGroup, m_group

\* A block of the global queue is submitted that leaves a group.
LEMMA GroupAsyncSmooth ==
  ASSUME NEW d, IsGcd(d), NEW g, IsCommon(g), NEW c, c.call \in PlainCalls, NEW R,
         NEW w, w = dispatch_group_async(d, g, Global, <<c>>)
  PROVE  Smooth(d, w, R)
  <1>1. PICK u : u = dispatch_group_enter(d, g)
    OBVIOUS
  <1>2. EnterEffect(d, g, u)
    BY <1>1, EnterIs
  <1>3. Smooth(d, u, R) /\ IsGcd(u)
    BY <1>2, EnterSmooth DEF EnterEffect
  <1>4. PICK k : k = <<leave(g)>>
    OBVIOUS
  <1>5. PICK s : s = <<c>> \o k
    OBVIOUS
  <1>6. w = dispatch_async(u, Global, s)
    <2>1. Append(<<c>>, leave(g)) = s
      BY <1>4, <1>5, OneElement, AppendIs
    <2> QED
      BY <2>1, <1>1 DEF dispatch_group_async
  <1>7. IsSeq(k) /\ Range(k) = {leave(g)}
    BY <1>4, OneElement
  <1>8. IsSeq(s) /\ s # <<>> /\ Range(s) = {c} \cup Range(k)
    BY <1>5, <1>7, Cons
  <1>9. ForkEffect(u, s, w)
    BY <1>3, <1>6, <1>8, ForkIs
  <1>10. leave(g).call = "leave" /\ leave(g).group = g
    BY DEF leave
  <1>11. Global # s_non_thread_safe_queue
    BY DEF Global, s_non_thread_safe_queue
  <1>12. SuitsAll(Global, s, R)
    <2>1. Suits(Global, leave(g), {}, R)
      <3>1. PICK l : l = leave(g)
        OBVIOUS
      <3>2. l.call = "leave" /\ \A v : l.group # Lock(v)
        BY <3>1, <1>10 DEF IsCommon
      <3>3. Suits(Global, l, {}, R)
        BY <3>2, <1>11, PlainSuits
      <3> QED
        BY <3>1, <3>3
    <2>2. SuitsAll(Global, k, R)
      BY <2>1, <1>4, SuitsOne
    <2>3. Suits(Global, c, Range(k), R)
      BY <1>11, PlainSuits
    <2> QED
      BY <2>2, <2>3, <1>5, <1>7, SuitsCons
  <1>13. \A z : N(s, Own(z)) = 0
    <2> SUFFICES ASSUME NEW z
                 PROVE  N(s, Own(z)) = 0
      OBVIOUS
    <2>1. Light(c) /\ Light(leave(g))
      <3>1. \A z1 : g # Own(z1)
        BY DEF IsCommon
      <3>2. c.call \notin {"resume", "suspendOwn", "suspendUnsafe", "submit", "leave"}
        BY DEF PlainCalls
      <3>3. Light(leave(g))
        BY <3>1, <1>10, LightCall
      <3> QED
        BY <3>2, <3>3, LightCall
    <2>2. \A x \in Range(s) : ~Owes(Inner(x), Own(z))
      BY <2>1, <1>7, <1>8 DEF Light
    <2> QED
      BY <2>2, NZero
  <1>14. resume(s_non_thread_safe_queue) \notin Range(s)
    <2>1. resume(s_non_thread_safe_queue).call = "resume" /\ "resume" \notin PlainCalls
      BY DEF resume, PlainCalls
    <2> QED
      BY <2>1, <1>7, <1>8, <1>10
  <1>15. Smooth(u, w, R)
    BY <1>3, <1>9, <1>12, <1>13, <1>14, ForkTame DEF Smooth
  <1> QED
    BY <1>3, <1>15, SmoothTrans

\* A producer is asked for, unless it has run.
LEMMA ProduceSmooth ==
  ASSUME NEW d, IsGcd(d), NEW n, NEW R, NEW w, w = doProduceAsync(d, n)
  PROVE  Smooth(d, w, R)
  <1>1. CASE n \in m_wasRun
    <2>1. w = d
      BY <1>1 DEF doProduceAsync
    <2> QED
      BY <2>1, TameRefl
  <1>2. CASE n \notin m_wasRun
    <2>1. w = dispatch_group_async(d, m_group(n), Global, <<produceImpl(n)>>)
      BY <1>2 DEF doProduceAsync
    <2>2. PICK g : g = m_group(n)
      OBVIOUS
    <2>3. IsCommon(g)
      BY <2>2, CommonGroups
    <2>4. PICK c : c = produceImpl(n)
      OBVIOUS
    <2>5. c.call \in PlainCalls
      BY <2>4 DEF PlainCalls, produceImpl
    <2> QED
      BY <2>1, <2>2, <2>3, <2>4, <2>5, GroupAsyncSmooth
  <1> QED
    BY <1>1, <1>2

-----------------------------------------------------------------------------
(* Steps of blocks that do not touch queues. *)

\* Calls that suit any queue, but that of all modules that are not thread safe.
Mild(c, R) ==
    \/ c.call \in PlainCalls
    \/ c.call = "leave" /\ IsCommon(c.group)
    \/ c.call = "wait" /\ \A v : c.group # Lock(v)
    \/ c.call = "work" /\ c.at # <<>> /\ c.wrapper \in R

\* They suit, and do not touch the queue of a module.
LEMMA MildIs ==
  ASSUME NEW c, NEW R, Mild(c, R)
  PROVE  /\ Light(c)
         /\ \A q, S : q # s_non_thread_safe_queue => Suits(q, c, S, R)
  <1>1. CASE c.call \in PlainCalls
    <2>1. c.call \notin {"resume", "suspendOwn", "suspendUnsafe", "submit", "leave"}
      BY <1>1 DEF PlainCalls
    <2> QED
      BY <2>1, <1>1, LightCall, PlainSuits
  <1>2. CASE c.call = "leave" /\ IsCommon(c.group)
    <2>1. (\A v : c.group # Lock(v)) /\ \A z : c.group # Own(z)
      BY <1>2 DEF IsCommon
    <2> QED
      BY <2>1, <1>2, LightCall, PlainSuits
  <1>3. CASE c.call = "wait" /\ \A v : c.group # Lock(v)
    <2>1. c.call \notin {"resume", "suspendOwn", "suspendUnsafe", "submit", "leave"}
      BY <1>3
    <2> QED
      BY <2>1, <1>3, LightCall, PlainSuits
  <1>4. CASE c.call = "work" /\ c.at # <<>> /\ c.wrapper \in R
    <2>1. c.call \notin {"resume", "suspendOwn", "suspendUnsafe", "submit", "leave"}
      BY <1>4
    <2>2. \A q, S : q # s_non_thread_safe_queue => Suits(q, c, S, R)
      BY <1>4 DEF Suits, SuitsCall
    <2> QED
      BY <2>1, <2>2, LightCall
  <1> QED
    BY <1>1, <1>2, <1>3, <1>4 DEF Mild

\* What is left to do by a block that is at such a call.
SetsOut(d, b, R) ==
    /\ IsGcd(d) /\ QueueInv(d, R) /\ b \in Runs(d)
    /\ Call(b).call \notin {"sync", "wait", "suspendUnsafe", "lock"}

\* It lends no queue, and runs in one that may be given up.
LEMMA SetsOutIs ==
  ASSUME NEW d, NEW R, NEW b, SetsOut(d, b, R)
  PROVE  ~Lends(d, b) /\ b.queue # s_non_thread_safe_queue
  <1>1. ~Lends(d, b)
    BY DEF SetsOut, Lends, wait
  <1>2. Suits(b.queue, Call(b), Range(Later(b)), R)
    BY QueueInvIs DEF SetsOut
  <1>3. b.queue # s_non_thread_safe_queue
    BY <1>2 DEF Suits, SuitsCall, SetsOut
  <1> QED
    BY <1>1, <1>3

\* A block goes on with mild calls.
LEMMA MildStep ==
  ASSUME NEW d, NEW R, NEW b, SetsOut(d, b, R), NEW w, Smooth(d, w, R),
         NEW t, IsSeq(t), \A c \in Range(t) : Mild(c, R), NEW e, e = GoOn(w, b, t \o Later(b))
  PROVE  QueueInv(e, R)
  <1>1. ~Lends(d, b) /\ b.queue # s_non_thread_safe_queue
    BY SetsOutIs
  <1>2. \A c \in Range(t) : Light(c) /\ \A S : Range(Later(b)) \subseteq S => Suits(b.queue, c, S, R)
    BY <1>1, MildIs
  <1> QED
    BY <1>1, <1>2, SmoothSome DEF SetsOut

\* With one.
LEMMA MildOne ==
  ASSUME NEW d, NEW R, NEW b, SetsOut(d, b, R), NEW w, Smooth(d, w, R),
         NEW c, Mild(c, R), NEW e, e = GoOn(w, b, <<c>> \o Later(b))
  PROVE  QueueInv(e, R)
  <1>1. PICK t : t = <<c>>
    OBVIOUS
  <1>2. IsSeq(t) /\ \A x \in Range(t) : Mild(x, R)
    BY <1>1, OneElement
  <1> QED
    BY <1>1, <1>2, MildStep

\* With none.
LEMMA MildNone ==
  ASSUME NEW d, NEW R, NEW b, SetsOut(d, b, R), NEW w, Smooth(d, w, R),
         NEW e, e = GoOn(w, b, Later(b))
  PROVE  QueueInv(e, R)
  BY SetsOutIs, SmoothNone DEF SetsOut

-----------------------------------------------------------------------------
(* The queues, after each step of a block. *)

\* A block is about to make its next call, the queues being in order.
Poised(b, d, R) ==
    /\ d = gcd /\ Modules /\ Orderly(d) /\ IsGcd(d) /\ Blocks(d) /\ b \in Runs(d)
    /\ Fits(Call(b), Range(Later(b)))
    /\ QueueInv(d, R)

\* That is so of any running block.
LEMMA PoisedIs ==
  ASSUME EventInv, NEW b \in Running, NEW R, QueueInv(gcd, R)
  PROVE  Poised(b, gcd, R)
  <1>d. PICK d : d = gcd
    OBVIOUS
  <1>1. /\ Modules /\ Orderly(d) /\ b \in Runs(d)
        /\ IsGcd(d) /\ Blocks(d) /\ Fits(Call(b), Range(Later(b)))
    BY <1>d, RunsInOrder
  <1>2. QueueInv(d, R)
    BY <1>d
  <1>3. Poised(b, d, R)
    BY <1>1, <1>2, <1>d DEF Poised
  <1> QED
    BY <1>3, <1>d

\* A block leaves a group, and submits what has waited for it to be empty.
LEMMA LeaveQueues ==
  ASSUME NEW b, NEW d, NEW R, Poised(b, d, R), Call(b).call = "leave",
         NEW e, e = GoOn(dispatch_group_leave(d, Call(b).group), b,
                         ToSubmit(d, Call(b).group) \o Later(b))
  PROVE  QueueInv(e, R)
  <1>1. IsGcd(d) /\ b \in Runs(d) /\ QueueInv(d, R) /\ Blocks(d)
    BY DEF Poised
  <1>2. SetsOut(d, b, R)
    BY <1>1 DEF SetsOut
  <1>3. ~Lends(d, b) /\ b.queue # s_non_thread_safe_queue
    BY <1>2, SetsOutIs
  <1>g. PICK g : g = Call(b).group
    OBVIOUS
  <1>4. Shapes(d, R) /\ Suits(b.queue, Call(b), Range(Later(b)), R)
    BY <1>1, QueueInvIs
  <1>5. \A v : g # Lock(v)
    BY <1>4, <1>g DEF Suits, SuitsCall
  <1>6. PICK w : w = dispatch_group_leave(d, g)
    OBVIOUS
  <1>7. LeaveEffect(d, g, w)
    BY <1>1, <1>6, LeaveIs
  <1>8. Smooth(d, w, R)
    BY <1>1, <1>5, <1>7, LeaveTame DEF Smooth
  <1>9. PICK t : t = ToSubmit(d, g)
    OBVIOUS
  <1>10. IsSeq(t) /\ Range(t) \subseteq Range(Waiting(d, g))
    BY <1>1, <1>9, AnyGroup, OneElement DEF ToSubmit
  <1>11. ASSUME NEW z \in Range(t)
         PROVE  Light(z) /\ \A S : Suits(b.queue, z, S, R)
    <2>1. z \in Range(Waiting(d, g))
      BY <1>10
    <2>2. Suits(Global, z, {}, R)
      BY <2>1, <1>4 DEF Shapes
    <2>3. IsNoted(g, z)
      BY <2>1, <1>1 DEF Blocks
    <2>x. PICK x : x = z.block[1]
      OBVIOUS
    <2>4. z.call = "submit"
      BY <2>3 DEF IsNoted, submit
    <2>5. \A y : ~Owes(x, Own(y))
      <3> SUFFICES ASSUME NEW y
                   PROVE  ~Owes(x, Own(y))
        OBVIOUS
      <3>1. \/ \E s : x = scheduleDone(s)
            \/ x.call \in {"work", "suspendOwn"}
            \/ \E v : x = leave(prefetchGroup(v))
        BY <2>3, <2>x DEF IsNoted
      <3>2. /\ \A s, v : /\ Own(y) # m_eventLoopGroup /\ Own(y) # StreamToken(s)
                         /\ Own(y) # m_allPathsDoneGroup(s)
                         /\ Own(y) # prefetchGroup(v) /\ Own(y) # m_group(v)
        BY DEF Own, m_eventLoopGroup, StreamToken, prefetchGroup, m_group, m_allPathsDoneGroup
      <3>3. CASE \E s : x = scheduleDone(s)
        <4>1. x.call = "scheduleDone"
          BY <3>3 DEF scheduleDone
        <4> QED
          BY <4>1, <3>2 DEF Owes, JobCalls
      <3>4. CASE x.call \in {"work", "suspendOwn"}
        BY <3>2, <3>4 DEF Owes, JobCalls, JobGroup
      <3>5. CASE \E v : x = leave(prefetchGroup(v))
        <4>1. PICK v : x = leave(prefetchGroup(v))
          BY <3>5
        <4>2. x.call = "leave" /\ x.group = prefetchGroup(v)
          BY <4>1 DEF leave
        <4> QED
          BY <4>2, <3>2 DEF Owes, JobCalls
      <3> QED
        BY <3>1, <3>3, <3>4, <3>5
    <2>6. Light(z)
      BY <2>4, <2>5, <2>x, LightCall
    <2>7. ASSUME NEW S
          PROVE  Suits(b.queue, z, S, R)
      <3>1. SuitsCall(z.queue, z.block[1], {}, R)
        BY <2>2, <2>4 DEF Suits
      <3>2. SuitsCall(b.queue, z, S, R)
        BY <2>4, <1>3 DEF SuitsCall
      <3> QED
        BY <3>1, <3>2 DEF Suits
    <2> QED
      BY <2>6, <2>7
  <1>12. e = GoOn(w, b, t \o Later(b))
    BY <1>g, <1>6, <1>9
  <1> QED
    BY <1>1, <1>3, <1>8, <1>10, <1>11, <1>12, SmoothSome

\* What has waited for a group is submitted.
LEMMA SubmitQueues ==
  ASSUME NEW b, NEW d, NEW R, Poised(b, d, R), Call(b).call = "submit",
         NEW e, e = GoOn(dispatch_async(d, Call(b).queue, Call(b).block), b, Later(b))
  PROVE  QueueInv(e, R)
  <1>1. IsGcd(d) /\ b \in Runs(d) /\ QueueInv(d, R) /\ Fits(Call(b), Range(Later(b)))
    BY DEF Poised
  <1>2. SetsOut(d, b, R)
    BY <1>1 DEF SetsOut
  <1>3. Suits(b.queue, Call(b), Range(Later(b)), R)
    BY <1>1, QueueInvIs
  <1>q. PICK q : q = Call(b).queue
    OBVIOUS
  <1>c. PICK c : c = Call(b).block[1]
    OBVIOUS
  <1>4. Call(b) = submit(q, <<c>>) /\ IsSubmitted(c)
    BY <1>1, <1>q, <1>c DEF Fits
  <1>5. Call(b).block = <<c>>
    BY <1>4 DEF submit
  <1>6. SuitsCall(q, c, {}, R)
    BY <1>3, <1>q, <1>c DEF Suits
  <1>7. \/ \E s : c = scheduleDone(s)
        \/ c.call \in {"work", "suspendOwn"}
        \/ \E v : c = leave(prefetchGroup(v))
    BY <1>4 DEF IsSubmitted
  <1>8. /\ \A s, v, y : /\ Own(y) # m_eventLoopGroup /\ Own(y) # StreamToken(s)
                        /\ Own(y) # m_allPathsDoneGroup(s)
                        /\ Own(y) # prefetchGroup(v) /\ Own(y) # m_group(v)
    BY DEF Own, m_eventLoopGroup, StreamToken, prefetchGroup, m_group, m_allPathsDoneGroup
  <1>9. Modest(c)
    <2>1. CASE \E s : c = scheduleDone(s)
      <3>1. c.call = "scheduleDone"
        BY <2>1 DEF scheduleDone
      <3> QED
        BY <3>1, <1>8 DEF Owes, JobCalls, Modest
    <2>2. CASE c.call \in {"work", "suspendOwn"}
      BY <2>2, <1>8 DEF Owes, JobCalls, JobGroup, Modest
    <2>3. CASE \E v : c = leave(prefetchGroup(v))
      <3>1. PICK v : c = leave(prefetchGroup(v))
        BY <2>3
      <3>2. c.call = "leave" /\ c.group = prefetchGroup(v)
        BY <3>1 DEF leave
      <3> QED
        BY <3>2, <1>8 DEF Owes, JobCalls, Modest
    <2> QED
      BY <1>7, <2>1, <2>2, <2>3
  <1>10. PICK w : w = dispatch_async(d, q, <<c>>)
    OBVIOUS
  <1>11. Smooth(d, w, R)
    BY <1>1, <1>6, <1>9, <1>10, AsyncSmooth
  <1>12. e = GoOn(w, b, Later(b))
    BY <1>5, <1>10, <1>q
  <1> QED
    BY <1>2, <1>11, <1>12, MildNone

\* A group that is empty is waited for no longer.
LEMMA WaitQueues ==
  ASSUME NEW b, NEW d, NEW R, Poised(b, d, R), Call(b).call = "wait", Entered(d, Call(b).group) = 0,
         NEW e, e = GoOn(d, b, Later(b))
  PROVE  QueueInv(e, R)
  <1>1. IsGcd(d) /\ b \in Runs(d) /\ QueueInv(d, R)
    BY DEF Poised
  <1>2. ~Lends(d, b)
    BY DEF Lends, wait
  <1>3. Smooth(d, d, R)
    BY <1>1, TameRefl
  <1> QED
    BY <1>1, <1>2, <1>3, SmoothNone

\* Groups are left, blocks submitted, queues resumed, groups waited for.
LEMMA LibdispatchKeeps ==
  ASSUME EventInv, NEW b \in Running, NEW R, QueueInv(gcd, R),
         Leave(b) \/ Submit(b) \/ Resume(b) \/ Wait(b)
  PROVE  QueueInv(gcd', R)
  <1>d. PICK d : d = gcd
    OBVIOUS
  <1>e. PICK e : e = gcd'
    OBVIOUS
  <1>1. Poised(b, d, R)
    BY <1>d, PoisedIs
  <1>2. CASE Leave(b)
    <2>1. /\ Call(b).call = "leave"
          /\ e = GoOn(dispatch_group_leave(d, Call(b).group), b, ToSubmit(d, Call(b).group) \o Later(b))
      BY <1>2, <1>d, <1>e DEF Leave, Does
    <2> QED
      BY <2>1, <1>1, <1>e, LeaveQueues
  <1>3. CASE Submit(b)
    <2>1. /\ Call(b).call = "submit"
          /\ e = GoOn(dispatch_async(d, Call(b).queue, Call(b).block), b, Later(b))
      BY <1>3, <1>d, <1>e DEF Submit, Does
    <2> QED
      BY <2>1, <1>1, <1>e, SubmitQueues
  <1>4. CASE Resume(b)
    <2>q. PICK q : q = Call(b).queue
      OBVIOUS
    <2>1. Call(b).call = "resume" /\ e = GoOn(dispatch_resume(d, q), b, Later(b))
      BY <1>4, <1>d, <1>e, <2>q DEF Resume, Does
    <2>2. Call(b) = resume(q)
      BY <2>1, <2>q, <1>1 DEF Poised, Fits
    <2> QED
      BY <2>1, <2>2, <1>1, <1>e, ResumeQueues DEF Poised
  <1>5. CASE Wait(b)
    <2>1. Call(b).call = "wait" /\ Entered(d, Call(b).group) = 0 /\ e = GoOn(d, b, Later(b))
      BY <1>5, <1>d, <1>e DEF Wait, Does
    <2> QED
      BY <2>1, <1>1, <1>e, WaitQueues
  <1> QED
    BY <1>2, <1>3, <1>4, <1>5

\* Paths are begun, and events.
LEMMA EventLoopKeeps ==
  ASSUME EventInv, NEW b \in Running, NEW R, QueueInv(gcd, R),
         ResetEvent(b) \/ SetEventInfo(b) \/ StartPaths(b) \/ ScheduleDone(b)
  PROVE  QueueInv(gcd', R)
  <1>d. PICK d : d = gcd
    OBVIOUS
  <1>e. PICK e : e = gcd'
    OBVIOUS
  <1>1. Poised(b, d, R)
    BY <1>d, PoisedIs
  <1>2. /\ Call(b).call \notin {"sync", "wait", "suspendUnsafe", "lock"} => SetsOut(d, b, R)
        /\ IsGcd(d) /\ Smooth(d, d, R)
    BY <1>1, TameRefl DEF Poised, SetsOut
  <1>s. PICK s : s = Call(b).stream
    OBVIOUS
  <1>3. CASE ResetEvent(b)
    <2>c. PICK c : c = count(s, m_seenEvents + 1)
      OBVIOUS
    <2>1. Call(b).call = "event" /\ e = GoOn(d, b, <<c>> \o Later(b))
      BY <1>3, <1>d, <1>e, <1>s, <2>c DEF ResetEvent, Does
    <2>2. Mild(c, R)
      BY <2>c DEF Mild, PlainCalls, count
    <2> QED
      BY <2>1, <2>2, <1>2, <1>e, MildOne
  <1>4. CASE SetEventInfo(b)
    <2>1. Call(b).call = "count"
      BY <1>4 DEF SetEventInfo, Does
    <2>2. CASE pConfig.iterations >= Call(b).seen
      <3>c. PICK c : c = IF m_paths = <<>> THEN scheduleDone(s) ELSE startPaths(s, 1)
        OBVIOUS
      <3>w. PICK w : w = dispatch_group_enter(d, m_eventLoopGroup)
        OBVIOUS
      <3>1. e = GoOn(w, b, <<c>> \o Later(b))
        BY <2>2, <1>4, <1>d, <1>e, <1>s, <3>c, <3>w DEF SetEventInfo
      <3>2. Mild(c, R)
        BY <3>c DEF Mild, PlainCalls, scheduleDone, startPaths
      <3>3. Smooth(d, w, R)
        BY <3>w, <1>2, EnterIs, EnterSmooth
      <3> QED
        BY <3>1, <3>2, <3>3, <2>1, <1>2, <1>e, MildOne
    <2>3. CASE ~(pConfig.iterations >= Call(b).seen)
      <3>1. e = GoOn(d, b, Later(b))
        BY <2>3, <1>4, <1>d, <1>e DEF SetEventInfo
      <3> QED
        BY <3>1, <2>1, <1>2, <1>e, MildNone
    <2> QED
      BY <2>2, <2>3
  <1>5. CASE StartPaths(b)
    <2>p. PICK p : p = Call(b).path
      OBVIOUS
    <2>g. PICK g : g = m_allPathsDoneGroup(s)
      OBVIOUS
    <2>1. Call(b).call = "startPaths"
      BY <1>5 DEF StartPaths, Does
    <2>2. CASE p <= Len(m_paths)
      <3>x. PICK x : x = path(s, p)
        OBVIOUS
      <3>w. PICK w : w = dispatch_group_async(d, g, Global, <<x>>)
        OBVIOUS
      <3>c. PICK c : c = startPaths(s, p + 1)
        OBVIOUS
      <3>1. e = GoOn(w, b, <<c>> \o Later(b))
        BY <2>2, <2>p, <2>g, <1>s, <1>5, <1>d, <1>e, <3>x, <3>w, <3>c DEF StartPaths
      <3>2. Mild(c, R) /\ x.call \in PlainCalls
        BY <3>c, <3>x DEF Mild, PlainCalls, startPaths, path
      <3>3. IsCommon(g)
        BY <2>g, CommonGroups
      <3>4. Smooth(d, w, R)
        BY <3>2, <3>3, <3>w, <1>2, GroupAsyncSmooth
      <3> QED
        BY <3>1, <3>2, <3>4, <2>1, <1>2, <1>e, MildOne
    <2>3. CASE ~(p <= Len(m_paths))
      <3>x. PICK x : x = scheduleDone(s)
        OBVIOUS
      <3>w. PICK w : w = dispatch_group_notify(d, g, Global, <<x>>)
        OBVIOUS
      <3>1. e = GoOn(w, b, Later(b))
        BY <2>3, <2>p, <2>g, <1>s, <1>5, <1>d, <1>e, <3>x, <3>w DEF StartPaths
      <3>2. x.call = "scheduleDone" /\ x.stream = s
        BY <3>x DEF scheduleDone
      <3>3. SuitsCall(Global, x, {}, R)
        <4>1. Global # s_non_thread_safe_queue
          BY DEF Global, s_non_thread_safe_queue
        <4> QED
          BY <4>1, <3>2 DEF SuitsCall
      <3>4. Modest(x)
        <4>1. \A z : Own(z) # m_eventLoopGroup /\ Own(z) # StreamToken(s)
          BY DEF Own, m_eventLoopGroup, StreamToken
        <4> QED
          BY <4>1, <3>2 DEF Modest, Owes, JobCalls
      <3>5. Smooth(d, w, R)
        BY <3>3, <3>4, <3>w, <1>2, NotifySmooth
      <3> QED
        BY <3>1, <3>5, <2>1, <1>2, <1>e, MildNone
    <2> QED
      BY <2>2, <2>3
  <1>6. CASE ScheduleDone(b)
    <2>g. PICK g : g = m_eventLoopGroup
      OBVIOUS
    <2>x. PICK x : x = event(s)
      OBVIOUS
    <2>w. PICK w : w = dispatch_group_async(d, g, Global, <<x>>)
      OBVIOUS
    <2>c. PICK c : c = leave(g)
      OBVIOUS
    <2>1. Call(b).call = "scheduleDone" /\ e = GoOn(w, b, <<c>> \o Later(b))
      BY <1>6, <1>d, <1>e, <1>s, <2>g, <2>x, <2>w, <2>c DEF ScheduleDone, Does, AnotherEvent
    <2>2. IsCommon(g)
      BY <2>g, CommonGroups
    <2>3. x.call \in PlainCalls
      BY <2>x DEF PlainCalls, event
    <2>4. Smooth(d, w, R)
      BY <2>2, <2>3, <2>w, <1>2, GroupAsyncSmooth
    <2>5. Mild(c, R)
      BY <2>2, <2>c DEF Mild, leave
    <2> QED
      BY <2>1, <2>4, <2>5, <1>2, <1>e, MildOne
  <1> QED
    BY <1>3, <1>4, <1>5, <1>6

\* A filter that has run may be asked again.
LEMMA FilterMild ==
  ASSUME NEW s, NEW p, NEW i
  PROVE  Mild(runFilterAsync(s, p, i), m_wasRun)
  <1>1. PICK v : v = FilterAt(s, p, i)
    OBVIOUS
  <1>2. PICK c : c = runFilterAsync(s, p, i)
    OBVIOUS
  <1>3. /\ c.call = IF v \in m_wasRun THEN "work" ELSE "prefetch"
        /\ c.wrapper = v /\ c.at = <<p, i>>
    BY <1>1, <1>2 DEF runFilterAsync, Job
  <1>4. <<p, i>> # <<>>
    OBVIOUS
  <1> QED
    BY <1>2, <1>3, <1>4 DEF Mild, PlainCalls

\* Paths go on.
LEMMA PathKeeps ==
  ASSUME EventInv, NEW b \in Running, QueueInv(gcd, m_wasRun), RunPath(b) \/ doNextIfSuccess(b)
  PROVE  QueueInv(gcd', m_wasRun)
  <1>d. PICK d : d = gcd
    OBVIOUS
  <1>e. PICK e : e = gcd'
    OBVIOUS
  <1>r. PICK R : R = m_wasRun
    OBVIOUS
  <1>1. Poised(b, d, R)
    BY <1>d, <1>r, PoisedIs
  <1>2. /\ Call(b).call \notin {"sync", "wait", "suspendUnsafe", "lock"} => SetsOut(d, b, R)
        /\ IsGcd(d) /\ Smooth(d, d, R)
    BY <1>1, TameRefl DEF Poised, SetsOut
  <1>3. CASE RunPath(b)
    <2>s. PICK s : s = Call(b).stream
      OBVIOUS
    <2>p. PICK p : p = Call(b).path
      OBVIOUS
    <2>g. PICK g : g = m_allPathsDoneGroup(s)
      OBVIOUS
    <2>c. PICK c : c = IF m_paths[p] = <<>> THEN leave(g) ELSE runFilterAsync(s, p, 1)
      OBVIOUS
    <2>w. PICK w : w = dispatch_group_enter(d, g)
      OBVIOUS
    <2>1. Call(b).call = "path" /\ e = GoOn(w, b, <<c>> \o Later(b))
      BY <1>3, <1>d, <1>e, <2>s, <2>p, <2>g, <2>c, <2>w DEF RunPath, Does
    <2>2. Mild(leave(g), R)
      <3>1. IsCommon(g)
        BY <2>g, CommonGroups
      <3> QED
        BY <3>1 DEF Mild, leave
    <2>3. Mild(c, R)
      BY <2>2, <2>c, <1>r, FilterMild
    <2>4. Smooth(d, w, R)
      BY <2>w, <1>2, EnterIs, EnterSmooth
    <2>5. QueueInv(e, R)
      BY <2>1, <2>3, <2>4, <1>2, MildOne
    <2> QED
      BY <2>5, <1>e, <1>r
  <1>4. CASE doNextIfSuccess(b)
    <2>v. PICK v : v = Call(b).wrapper
      OBVIOUS
    <2>p. PICK p : p = Call(b).at[1]
      OBVIOUS
    <2>i. PICK i : i = Call(b).at[2]
      OBVIOUS
    <2>g. PICK g : g = m_allPathsDoneGroup(v[1])
      OBVIOUS
    <2>c. PICK c : c = IF v \in m_keep /\ i + 1 <= Len(m_paths[p]) THEN runFilterAsync(v[1], p, i + 1)
                       ELSE leave(g)
      OBVIOUS
    <2>1. Call(b).call = "next" /\ e = GoOn(d, b, <<c>> \o Later(b))
      BY <1>4, <1>d, <1>e, <2>v, <2>p, <2>i, <2>g, <2>c DEF doNextIfSuccess, Does
    <2>2. Mild(leave(g), R)
      <3>1. IsCommon(g)
        BY <2>g, CommonGroups
      <3> QED
        BY <3>1 DEF Mild, leave
    <2>3. Mild(c, R)
      BY <2>2, <2>c, <1>r, FilterMild
    <2>5. QueueInv(e, R)
      BY <2>1, <2>3, <1>2, MildOne
    <2> QED
      BY <2>5, <1>e, <1>r
  <1> QED
    BY <1>3, <1>4

\* Data is asked for, and a block waits for all of it, that will run where the
\* module may work.
LEMMA RequestKeeps ==
  ASSUME EventInv, NEW b \in Running, NEW R, QueueInv(gcd, R), UNCHANGED phase,
         PrefetchAsync(b) \/ GetAsync(b) \/ GetMissing(b) \/ AwaitProducer(b) \/ NotifyPrefetched(b)
  PROVE  QueueInv(gcd', R)
  <1>d. PICK d : d = gcd
    OBVIOUS
  <1>e. PICK e : e = gcd'
    OBVIOUS
  <1>1. Poised(b, d, R)
    BY <1>d, PoisedIs
  <1>2. /\ Call(b).call \notin {"sync", "wait", "suspendUnsafe", "lock"} => SetsOut(d, b, R)
        /\ IsGcd(d) /\ Smooth(d, d, R)
    BY <1>1, TameRefl DEF Poised, SetsOut
  <1>v. PICK v : v = Call(b).wrapper
    OBVIOUS
  <1>n. PICK n : n = Call(b).producer
    OBVIOUS
  <1>g. PICK g : g = prefetchGroup(v)
    OBVIOUS
  <1>3. IsCommon(g)
    BY <1>g, CommonGroups
  <1>4. \A keys : Mild(GetAll(v, keys), R)
    BY <1>3, <1>g DEF Mild, GetAll, leave, getAll, PlainCalls
  <1>5. CASE PrefetchAsync(b)
    <2>k. PICK keys : keys = IF v \in m_requestedPrefetch THEN <<>> ELSE module[v[2][1]].m_getters
      OBVIOUS
    <2>x. PICK x : x = GetAll(v, keys)
      OBVIOUS
    <2>y. PICK y : y = Job("notifyPrefetched", v, Call(b).at)
      OBVIOUS
    <2>w. PICK w : w = dispatch_group_enter(d, g)
      OBVIOUS
    <2>t. PICK t : t = <<x, y>>
      OBVIOUS
    <2>1. Call(b).call = "prefetch" /\ e = GoOn(w, b, t \o Later(b))
      BY <1>5, <1>d, <1>e, <1>v, <1>g, <2>k, <2>x, <2>y, <2>w, <2>t DEF PrefetchAsync, Does
    <2>2. Mild(x, R) /\ Mild(y, R)
      BY <1>4, <2>x, <2>y DEF Mild, Job, PlainCalls
    <2>3. IsSeq(t) /\ Range(t) = {x, y}
      <3>1. PICK k : k = <<y>>
        OBVIOUS
      <3>2. IsSeq(k) /\ Range(k) = {y}
        BY <3>1, OneElement
      <3>3. t = <<x>> \o k
        BY <3>1, <2>t, Elements
      <3> QED
        BY <3>2, <3>3, Cons
    <2>4. Smooth(d, w, R)
      BY <2>w, <1>2, EnterIs, EnterSmooth
    <2> QED
      BY <2>1, <2>2, <2>3, <2>4, <1>2, <1>e, MildStep
  <1>6. CASE GetAsync(b)
    <2>p. PICK p : p = <<v[1], Head(Call(b).keys)>>
      OBVIOUS
    <2>m. PICK m : m = IF p \in m_wasCached THEN <<>> ELSE <<getMissing(v, p)>>
      OBVIOUS
    <2>x. PICK x : x = GetAll(v, Tail(Call(b).keys))
      OBVIOUS
    <2>k. PICK k : k = <<x>>
      OBVIOUS
    <2>t. PICK t : t = m \o k
      OBVIOUS
    <2>1. Call(b).call = "getAll" /\ p[2] \in m_lookupMap
      <3>1. phase # "exit"
        BY <1>6 DEF GetAsync, Does, Alive
      <3> QED
        BY <3>1, <1>6, <1>v, <2>p DEF GetAsync, Does
    <2>2. e = GoOn(d, b, t \o Later(b))
      BY <2>1, <1>6, <1>d, <1>e, <1>v, <2>p, <2>m, <2>x, <2>k, <2>t DEF GetAsync
    <2>3. IsSeq(m) /\ \A c \in Range(m) : Mild(c, R)
      <3>1. Mild(getMissing(v, p), R)
        BY DEF Mild, getMissing, PlainCalls
      <3> QED
        BY <3>1, <2>m, OneElement
    <2>4. IsSeq(k) /\ Range(k) = {x}
      BY <2>k, OneElement
    <2>5. IsSeq(t) /\ \A c \in Range(t) : Mild(c, R)
      BY <2>3, <2>4, <2>t, <2>x, <1>4, Concat
    <2> QED
      BY <2>1, <2>2, <2>5, <1>2, <1>e, MildStep
  <1>7. CASE GetMissing(b)
    <2>u. PICK u : u = doProduceAsync(d, n)
      OBVIOUS
    <2>w. PICK w : w = dispatch_group_enter(u, g)
      OBVIOUS
    <2>c. PICK c : c = awaitProducer(v, n)
      OBVIOUS
    <2>1. Call(b).call = "getMissing" /\ e = GoOn(w, b, <<c>> \o Later(b))
      BY <1>7, <1>d, <1>e, <1>v, <1>n, <1>g, <2>u, <2>w, <2>c DEF GetMissing, Does
    <2>2. Smooth(d, u, R)
      BY <2>u, <1>2, ProduceSmooth
    <2>3. IsGcd(u)
      BY <2>2 DEF Smooth, Tame
    <2>4. Smooth(u, w, R)
      BY <2>3, <2>w, EnterIs, EnterSmooth
    <2>5. Smooth(d, w, R)
      BY <2>2, <2>4, <1>2, SmoothTrans
    <2>6. Mild(c, R)
      BY <2>c DEF Mild, awaitProducer, PlainCalls
    <2> QED
      BY <2>1, <2>5, <2>6, <1>2, <1>e, MildOne
  <1>8. CASE AwaitProducer(b)
    <2>h. PICK h : h = m_group(n)
      OBVIOUS
    <2>x. PICK x : x = leave(g)
      OBVIOUS
    <2>w. PICK w : w = dispatch_group_notify(d, h, Global, <<x>>)
      OBVIOUS
    <2>1. Call(b).call = "awaitProducer" /\ e = GoOn(w, b, Later(b))
      BY <1>8, <1>d, <1>e, <1>v, <1>n, <1>g, <2>h, <2>x, <2>w DEF AwaitProducer, Does
    <2>2. x.call = "leave" /\ x.group = g
      BY <2>x DEF leave
    <2>3. SuitsCall(Global, x, {}, R)
      <3>1. Global # s_non_thread_safe_queue
        BY DEF Global, s_non_thread_safe_queue
      <3> QED
        BY <3>1, <2>2, <1>3 DEF SuitsCall, IsCommon
    <2>4. Modest(x)
      BY <2>2, <1>3 DEF Modest, Owes, JobCalls, IsCommon
    <2>5. Smooth(d, w, R)
      BY <2>3, <2>4, <2>w, <1>2, NotifySmooth
    <2> QED
      BY <2>1, <2>5, <1>2, <1>e, MildNone
  <1>9. CASE NotifyPrefetched(b)
    <2>t. PICK task : task = IF ThreadType(v) # "kThreadUnsafe" THEN "work" ELSE "suspendOwn"
      OBVIOUS
    <2>q. PICK q : q = runQueue(v)
      OBVIOUS
    <2>x. PICK x : x = Job(task, v, Call(b).at)
      OBVIOUS
    <2>w. PICK w : w = dispatch_group_notify(d, g, q, <<x>>)
      OBVIOUS
    <2>1. Call(b).call = "notifyPrefetched" /\ e = GoOn(w, b, Later(b))
      BY <1>9, <1>d, <1>e, <1>v, <1>g, <2>t, <2>q, <2>x, <2>w DEF NotifyPrefetched, Does
    <2>2. x.call = task /\ x.wrapper = v
      BY <2>x DEF Job
    <2>3. q # s_non_thread_safe_queue /\ (IsUnsafe(v) => q = Own(v[2]))
      BY <2>q DEF runQueue, s_non_thread_safe_queue, IsUnsafe, Own
    <2>4. SuitsCall(q, x, {}, R)
      <3>1. CASE IsUnsafe(v)
        <4>1. x.call = "suspendOwn"
          BY <3>1, <2>2, <2>t DEF IsUnsafe
        <4> QED
          BY <4>1, <3>1, <2>2, <2>3 DEF SuitsCall
      <3>2. CASE ~IsUnsafe(v)
        <4>1. x.call = "work"
          BY <3>2, <2>2, <2>t DEF IsUnsafe
        <4>2. MayWork(q, v, {})
          BY <3>2, <2>q DEF MayWork, Dry
        <4> QED
          BY <4>1, <4>2, <2>2, <2>3 DEF SuitsCall
      <3> QED
        BY <3>1, <3>2
    <2>5. Modest(x)
      <3>1. x.call \in {"work", "suspendOwn"}
        BY <2>2, <2>t
      <3>2. \A z : Own(z) # JobGroup(x)
        BY DEF Own, JobGroup, m_group, m_allPathsDoneGroup
      <3> QED
        BY <3>1, <3>2 DEF Modest, Owes, JobCalls
    <2>6. Smooth(d, w, R)
      BY <2>4, <2>5, <2>w, <1>2, NotifySmooth
    <2> QED
      BY <2>1, <2>6, <1>2, <1>e, MildNone
  <1> QED
    BY <1>5, <1>6, <1>7, <1>8, <1>9

\* Queues are suspended, and producers begin.
LEMMA QueueKeeps ==
  ASSUME EventInv, NEW b \in Running, NEW R, QueueInv(gcd, R),
         \/ SuspendRunQueue(b) \/ SuspendThreadUnsafeQueue(b) \/ doProduceAsyncImpl(b)
         \/ Sync(b) \/ SuspendAgain(b)
  PROVE  QueueInv(gcd', R)
  <1>d. PICK d : d = gcd
    OBVIOUS
  <1>e. PICK e : e = gcd'
    OBVIOUS
  <1>1. Poised(b, d, R)
    BY <1>d, PoisedIs
  <1>2. /\ Call(b).call \notin {"sync", "wait", "suspendUnsafe", "lock"} => SetsOut(d, b, R)
        /\ IsGcd(d) /\ Smooth(d, d, R) /\ b \in Runs(d) /\ QueueInv(d, R)
        /\ Fits(Call(b), Range(Later(b)))
    BY <1>1, TameRefl DEF Poised, SetsOut
  <1>v. PICK v : v = Call(b).wrapper
    OBVIOUS
  <1>a. PICK at : at = Call(b).at
    OBVIOUS
  <1>3. CASE SuspendRunQueue(b)
    <2>1. /\ Call(b).call = "suspendOwn"
          /\ e = GoOn(dispatch_async(dispatch_suspend(d, runQueue(v)), s_non_thread_safe_queue,
                                     <<Job("suspendUnsafe", v, at)>>), b, Later(b))
      BY <1>3, <1>d, <1>e, <1>v, <1>a DEF SuspendRunQueue, Does
    <2>2. HasJob(v, at)
      <3>1. Call(b).call \in JobCalls
        BY <2>1 DEF JobCalls
      <3> QED
        BY <3>1, <1>2, <1>v, <1>a DEF Fits, IsJob
    <2> QED
      BY <2>1, <2>2, <1>2, <1>v, <1>e, SuspendOwnQueues
  <1>4. CASE SuspendThreadUnsafeQueue(b)
    <2>1. /\ Call(b).call = "suspendUnsafe"
          /\ e = GoOn(dispatch_async(dispatch_suspend(d, s_non_thread_safe_queue), Global,
                                     <<Job("work", v, at),
                                       resume(s_non_thread_safe_queue), resume(runQueue(v))>>),
                      b, Later(b))
      BY <1>4, <1>d, <1>e, <1>v, <1>a DEF SuspendThreadUnsafeQueue, Does
    <2> QED
      BY <2>1, <1>2, <1>v, <1>e, SuspendUnsafeQueues
  <1>5. CASE doProduceAsyncImpl(b)
    <2>1. Call(b).call = "produceImpl"
      BY <1>5 DEF doProduceAsyncImpl, Does
    <2>2. CASE v \in m_wasRun
      <3>1. e = GoOn(d, b, Later(b))
        BY <2>2, <1>5, <1>d, <1>e, <1>v DEF doProduceAsyncImpl
      <3> QED
        BY <3>1, <2>1, <1>2, <1>e, MildNone
    <2>3. CASE v \notin m_wasRun
      <3>w. PICK w : w = dispatch_group_enter(d, m_group(v))
        OBVIOUS
      <3>c. PICK c : c = Job("prefetch", v, <<>>)
        OBVIOUS
      <3>1. e = GoOn(w, b, <<c>> \o Later(b))
        BY <2>3, <1>5, <1>d, <1>e, <1>v, <3>w, <3>c DEF doProduceAsyncImpl
      <3>2. Smooth(d, w, R)
        BY <3>w, <1>2, EnterIs, EnterSmooth
      <3>3. Mild(c, R)
        BY <3>c DEF Mild, Job, PlainCalls
      <3> QED
        BY <3>1, <3>2, <3>3, <2>1, <1>2, <1>e, MildOne
    <2> QED
      BY <2>2, <2>3
  <1>6. CASE Sync(b)
    <2>1. /\ Call(b).call = "sync"
          /\ e = GoOn(dispatch_async(dispatch_group_enter(d, Lock(v)), s_non_thread_safe_queue,
                                     <<lock(v)>>), b, <<wait(Lock(v))>> \o Later(b))
      BY <1>6, <1>d, <1>e, <1>v DEF Sync, Does
    <2> QED
      BY <2>1, <1>2, <1>v, <1>e, SyncQueues
  <1>7. CASE SuspendAgain(b)
    <2>1. /\ Call(b).call = "lock"
          /\ e = GoOn(dispatch_group_leave(dispatch_suspend(d, s_non_thread_safe_queue), Lock(v)),
                      b, Later(b))
      BY <1>7, <1>d, <1>e, <1>v DEF SuspendAgain, Does
    <2> QED
      BY <2>1, <1>2, <1>v, <1>e, SuspendAgainQueues
  <1> QED
    BY <1>3, <1>4, <1>5, <1>6, <1>7

\* A module may get data before it does what else it may.
LEMMA ReadsSuit ==
  ASSUME NEW q, q # s_non_thread_safe_queue, NEW v, NEW keys, NEW s, IsSeq(s), NEW R,
         SuitsAll(q, s, R), MayWork(q, v, Range(s)),
         NEW t, t = Reads(v, keys)
  PROVE  /\ IsSeq(t) /\ (\A c \in Range(t) : Light(c) /\ c.call = "reads")
         /\ SuitsAll(q, t \o s, R)
  <1>1. CASE keys = <<>>
    <2>1. t = <<>>
      BY <1>1 DEF Reads
    <2> QED
      BY <2>1, OneElement, ConcatCons
  <1>2. CASE keys # <<>>
    <2>1. PICK c : c = reads(v, keys)
      OBVIOUS
    <2>2. t = <<c>>
      BY <1>2, <2>1 DEF Reads
    <2>3. c.call = "reads" /\ c.wrapper = v
      BY <2>1 DEF reads
    <2>4. Suits(q, c, Range(s), R)
      BY <2>3 DEF Suits, SuitsCall
    <2>5. Light(c)
      <3>1. c.call \notin {"resume", "suspendOwn", "suspendUnsafe", "submit", "leave"}
        BY <2>3
      <3> QED
        BY <3>1, LightCall
    <2>6. SuitsAll(q, <<c>> \o s, R)
      BY <2>4, SuitsCons
    <2> QED
      BY <2>2, <2>3, <2>5, <2>6, OneElement
  <1> QED
    BY <1>1, <1>2

\* What a module gets by label are such data.
LEMMA GetByLabelReads ==
  ASSUME NEW v, NEW t, t = GetByLabel(v)
  PROVE  \E keys : t = Reads(v, keys)
  <1>1. <<>> = Reads(v, <<>>)
    BY DEF Reads
  <1>m. PICK m : m = module[v[2][1]]
    OBVIOUS
  <1>2. t = IF m.byLabel THEN Reads(v, m.reads) ELSE <<>>
    BY <1>m DEF GetByLabel
  <1>3. CASE m.byLabel
    BY <1>2, <1>3
  <1>4. CASE ~m.byLabel
    <2>1. t = Reads(v, <<>>)
      BY <1>1, <1>2, <1>4
    <2> QED
      BY <2>1
  <1> QED
    BY <1>3, <1>4

\* A module that is not thread safe asks for the queue again, and the others do
\* not have it.
LEMMA RelockSuits ==
  ASSUME NEW q, q # s_non_thread_safe_queue, NEW v, NEW s, IsSeq(s), NEW R,
         SuitsAll(q, s, R), IsUnsafe(v) => Resumes(v) \subseteq Range(s),
         NEW t, t = Relock(v)
  PROVE  /\ IsSeq(t) /\ (\A c \in Range(t) : Light(c))
         /\ SuitsAll(q, t \o s, R)
         /\ IsUnsafe(v) => sync(v) \in Range(t)
  <1>1. CASE ~IsUnsafe(v)
    <2>1. t = <<>>
      BY <1>1 DEF Relock, IsUnsafe
    <2> QED
      BY <2>1, <1>1, OneElement, ConcatCons
  <1>2. CASE IsUnsafe(v)
    <2>1. PICK c : c = sync(v)
      OBVIOUS
    <2>2. t = <<c>>
      BY <1>2, <2>1 DEF Relock, IsUnsafe
    <2>3. c.call = "sync" /\ c.wrapper = v
      BY <2>1 DEF sync
    <2>4. Suits(q, c, Range(s), R)
      BY <2>3, <1>2 DEF Suits, SuitsCall
    <2>5. Light(c)
      <3>1. c.call \notin {"resume", "suspendOwn", "suspendUnsafe", "submit", "leave"}
        BY <2>3
      <3> QED
        BY <3>1, LightCall
    <2>6. SuitsAll(q, <<c>> \o s, R)
      BY <2>4, SuitsCons
    <2> QED
      BY <2>1, <2>2, <2>5, <2>6, OneElement
  <1> QED
    BY <1>1, <1>2

\* The next datum is got.
LEMMA NextRead ==
  ASSUME NEW b, NEW d, NEW R, Poised(b, d, R), Call(b).call = "reads", NEW v, v = Call(b).wrapper,
         NEW w, w = Unlock(d, v), NEW n, NEW keys,
         NEW e, e = GoOn(w, b, <<syncGet(n)>> \o Relock(v) \o Reads(v, keys) \o Later(b))
  PROVE  QueueInv(e, R)
  <1>1. IsGcd(d) /\ b \in Runs(d) /\ QueueInv(d, R) /\ SetsOut(d, b, R)
    BY DEF Poised, SetsOut
  <1>2. ~Lends(d, b) /\ b.queue # s_non_thread_safe_queue
    BY <1>1, SetsOutIs
  <1>l. PICK l : l = Later(b)
    OBVIOUS
  <1>q. PICK q : q = b.queue
    OBVIOUS
  <1>3. /\ Suits(q, Call(b), Range(l), R) /\ SuitsAll(q, l, R) /\ IsSeq(l)
        /\ q # s_non_thread_safe_queue
    BY <1>1, <1>2, <1>l, <1>q, QueueInvIs
  <1>4. MayWork(q, v, Range(l))
    BY <1>3 DEF Suits, SuitsCall
  <1>5. PICK x : x = Reads(v, keys)
    OBVIOUS
  <1>6. /\ IsSeq(x) /\ (\A c \in Range(x) : Light(c) /\ c.call = "reads")
        /\ SuitsAll(q, x \o l, R)
    BY <1>3, <1>4, <1>5, ReadsSuit
  <1>7. PICK s : s = x \o l
    OBVIOUS
  <1>8. IsSeq(s) /\ Range(s) = Range(x) \cup Range(l) /\ SuitsAll(q, s, R)
    BY <1>3, <1>6, <1>7, Concat
  <1>9. PICK y : y = Relock(v)
    OBVIOUS
  <1>10. IsUnsafe(v) => Resumes(v) \subseteq Range(s)
    BY <1>4, <1>8 DEF MayWork
  <1>11. /\ IsSeq(y) /\ (\A c \in Range(y) : Light(c))
         /\ SuitsAll(q, y \o s, R)
         /\ IsUnsafe(v) => sync(v) \in Range(y)
    BY <1>3, <1>8, <1>9, <1>10, RelockSuits
  <1>12. PICK u : u = y \o s
    OBVIOUS
  <1>13. IsSeq(u) /\ SuitsAll(q, u, R)
    BY <1>8, <1>11, <1>12, Concat
  <1>14. PICK g : g = syncGet(n)
    OBVIOUS
  <1>15. g.call = "syncGet"
    BY <1>14 DEF syncGet
  <1>16. PICK k : k = <<g>>
    OBVIOUS
  <1>17. IsSeq(k) /\ Range(k) = {g}
    BY <1>16, OneElement
  <1>18. Mild(g, R)
    BY <1>15 DEF Mild, PlainCalls
  <1>19. SuitsAll(q, k \o u, R)
    <2>1. Suits(q, g, Range(u), R)
      BY <1>3, <1>18, MildIs
    <2> QED
      BY <2>1, <1>13, <1>16, SuitsCons
  <1>20. PICK t : t = (k \o y) \o x
    OBVIOUS
  <1>21. IsSeq(k \o y) /\ Range(k \o y) = Range(k) \cup Range(y)
    BY <1>11, <1>17, Concat
  <1>22. IsSeq(t) /\ Range(t) = {g} \cup Range(y) \cup Range(x)
    BY <1>6, <1>17, <1>20, <1>21, Concat
  <1>23. t \o l = k \o u
    <2>1. t \o l = (k \o y) \o (x \o l)
      BY <1>3, <1>6, <1>20, <1>21, Associative
    <2>2. (k \o y) \o s = k \o (y \o s)
      BY <1>8, <1>11, <1>17, Associative
    <2> QED
      BY <2>1, <2>2, <1>7, <1>12
  <1>24. \A c \in Range(t) : Light(c)
    BY <1>6, <1>11, <1>18, <1>22, MildIs
  <1>25. SuitsAll(b.queue, t \o Later(b), R)
    BY <1>19, <1>23, <1>l, <1>q
  <1>26. e = GoOn(w, b, t \o Later(b))
    BY <1>5, <1>9, <1>14, <1>16, <1>20
  <1>27. CASE IsUnsafe(v)
    <2>1. w = dispatch_resume(d, s_non_thread_safe_queue)
      BY <1>27 DEF Unlock, IsUnsafe
    <2>2. e = GoOn(dispatch_resume(d, s_non_thread_safe_queue), b, t \o Later(b))
      BY <2>1, <1>26
    <2>3. sync(v) \in Range(t)
      BY <1>11, <1>22, <1>27
    <2> QED
      BY <2>2, <2>3, <1>1, <1>22, <1>24, <1>25, <1>27, ReadQueues
  <1>28. CASE ~IsUnsafe(v)
    <2>1. w = d
      BY <1>28 DEF Unlock, IsUnsafe
    <2>2. Smooth(d, w, R)
      BY <2>1, <1>1, TameRefl
    <2> QED
      BY <2>2, <1>1, <1>2, <1>22, <1>24, <1>25, <1>26, SmoothStep
  <1> QED
    BY <1>27, <1>28

\* A module works: it gets data, ends, and does what comes after that.
LEMMA WorkBegins ==
  ASSUME NEW b, NEW d, NEW R, Poised(b, d, R), Call(b).call = "work", NEW v, v = Call(b).wrapper,
         v \notin R \/ Call(b).at = <<>>,
         NEW f, f.call \in {"filtered", "put"}, f.wrapper = v,
         NEW m, IsSeq(m), \A c \in Range(m) : Mild(c, R) /\ c.call \notin {"wait", "sync"},
         NEW e, e = GoOn(d, b, (GetByLabel(v) \o (<<f>> \o m)) \o Later(b))
  PROVE  QueueInv(e, R)
  <1>1. IsGcd(d) /\ b \in Runs(d) /\ QueueInv(d, R) /\ SetsOut(d, b, R) /\ Smooth(d, d, R)
    BY TameRefl DEF Poised, SetsOut
  <1>2. ~Lends(d, b) /\ b.queue # s_non_thread_safe_queue
    BY <1>1, SetsOutIs
  <1>l. PICK l : l = Later(b)
    OBVIOUS
  <1>q. PICK q : q = b.queue
    OBVIOUS
  <1>3. /\ Suits(q, Call(b), Range(l), R) /\ SuitsAll(q, l, R) /\ IsSeq(l)
        /\ q # s_non_thread_safe_queue
    BY <1>1, <1>2, <1>l, <1>q, QueueInvIs
  <1>4. MayWork(q, v, Range(l))
    BY <1>3 DEF Suits, SuitsCall
  <1>5. PICK n : n = m \o l
    OBVIOUS
  <1>6. IsSeq(n) /\ Range(n) = Range(m) \cup Range(l)
    BY <1>3, <1>5, Concat
  <1>7. SuitsAll(q, n, R)
    <2>1. \A c \in Range(m) : \A S : Range(l) \subseteq S => Suits(q, c, S, R)
      BY <1>3, MildIs
    <2> QED
      BY <2>1, <1>3, <1>5, SuitsConcat
  <1>8. MayWork(q, v, Range(n))
    <2>1. Dry(Range(n))
      BY <1>4, <1>6 DEF MayWork, Dry
    <2> QED
      BY <2>1, <1>4, <1>6, MayWorkMore
  <1>9. PICK k : k = <<f>> \o n
    OBVIOUS
  <1>10. IsSeq(k) /\ Range(k) = {f} \cup Range(n)
    BY <1>6, <1>9, Cons
  <1>11. SuitsAll(q, k, R)
    <2>1. Suits(q, f, Range(n), R)
      BY <1>3, <1>8 DEF Suits, SuitsCall
    <2> QED
      BY <2>1, <1>6, <1>7, <1>9, SuitsCons
  <1>12. MayWork(q, v, Range(k))
    <2>1. Dry(Range(k))
      BY <1>8, <1>10 DEF MayWork, Dry
    <2> QED
      BY <2>1, <1>8, <1>10, MayWorkMore
  <1>13. PICK x : x = GetByLabel(v)
    OBVIOUS
  <1>14. PICK keys : x = Reads(v, keys)
    BY <1>13, GetByLabelReads
  <1>15. /\ IsSeq(x) /\ (\A c \in Range(x) : Light(c))
         /\ SuitsAll(q, x \o k, R)
    BY <1>3, <1>10, <1>11, <1>12, <1>14, ReadsSuit
  <1>16. PICK y : y = <<f>> \o m
    OBVIOUS
  <1>17. IsSeq(y) /\ Range(y) = {f} \cup Range(m) /\ y \o l = k
    <2>1. IsSeq(y) /\ Range(y) = {f} \cup Range(m)
      BY <1>16, Cons
    <2>2. y \o l = k
      BY <1>3, <1>5, <1>9, <1>16, ConcatCons
    <2> QED
      BY <2>1, <2>2
  <1>18. PICK t : t = x \o y
    OBVIOUS
  <1>19. IsSeq(t) /\ Range(t) = Range(x) \cup {f} \cup Range(m) /\ t \o l = x \o k
    <2>1. IsSeq(t) /\ Range(t) = Range(x) \cup Range(y)
      BY <1>15, <1>17, <1>18, Concat
    <2>2. IsSeq(x) /\ IsSeq(y) /\ IsSeq(l)
      BY <1>3, <1>15, <1>17
    <2>3. (x \o y) \o l = x \o (y \o l)
      BY <2>2, Associative
    <2> QED
      BY <2>1, <2>3, <1>17, <1>18
  <1>20. Light(f)
    <2>1. f.call \notin {"resume", "suspendOwn", "suspendUnsafe", "submit", "leave"}
      OBVIOUS
    <2> QED
      BY <2>1, LightCall
  <1>21. \A c \in Range(t) : Light(c)
    BY <1>15, <1>19, <1>20, MildIs
  <1>22. SuitsAll(b.queue, t \o Later(b), R)
    BY <1>15, <1>19, <1>l, <1>q
  <1>23. e = GoOn(d, b, t \o Later(b))
    BY <1>13, <1>16, <1>18
  <1> QED
    BY <1>1, <1>2, <1>19, <1>21, <1>22, <1>23, SmoothStep

\* Modules work.
LEMMA WorkKeeps ==
  ASSUME EventInv, NEW b \in Running, QueueInv(gcd, m_wasRun), UNCHANGED phase,
         \/ ReadNext(b) \/ GetAndWait(b)
         \/ BeginFilter(b) \/ EndFilter(b) \/ BeginProduce(b) \/ Put(b) \/ EndProduce(b)
  PROVE  QueueInv(gcd', m_wasRun)
  <1>d. PICK d : d = gcd
    OBVIOUS
  <1>e. PICK e : e = gcd'
    OBVIOUS
  <1>r. PICK R : R = m_wasRun
    OBVIOUS
  <1>1. Poised(b, d, R)
    BY <1>d, <1>r, PoisedIs
  <1>2. /\ Call(b).call \notin {"sync", "wait", "suspendUnsafe", "lock"} => SetsOut(d, b, R)
        /\ IsGcd(d) /\ Smooth(d, d, R)
    BY <1>1, TameRefl DEF Poised, SetsOut
  <1>v. PICK v : v = Call(b).wrapper
    OBVIOUS
  <1>l. PICK l : l = Later(b)
    OBVIOUS
  <1>s. IsSeq(l)
    BY <1>1, <1>l, QueueInvIs DEF Poised
  <1>3. CASE ReadNext(b)
    <2>n. PICK n : n = <<v[1], Head(Call(b).keys)>>
      OBVIOUS
    <2>k. PICK keys : keys = Tail(Call(b).keys)
      OBVIOUS
    <2>w. PICK w : w = Unlock(d, v)
      OBVIOUS
    <2>1. /\ Call(b).call = "reads"
          /\ e = GoOn(w, b, <<syncGet(n)>> \o Relock(v) \o Reads(v, keys) \o Later(b))
      BY <1>3, <1>d, <1>e, <1>v, <2>n, <2>k, <2>w DEF ReadNext, Does
    <2>2. QueueInv(e, R)
      BY <2>1, <2>w, <1>1, <1>v, NextRead
    <2> QED
      BY <2>2, <1>e, <1>r
  <1>4. CASE GetAndWait(b)
    <2>n. PICK n : n = Call(b).producer
      OBVIOUS
    <2>1. Call(b).call = "syncGet" /\ n[2] \in m_lookupMap
      <3>1. phase # "exit"
        BY <1>4 DEF GetAndWait, Does, Alive
      <3> QED
        BY <3>1, <1>4, <2>n DEF GetAndWait, Does
    <2>2. CASE n \in m_wasCached
      <3>1. e = GoOn(d, b, Later(b))
        BY <2>1, <2>2, <2>n, <1>4, <1>d, <1>e DEF GetAndWait
      <3>2. QueueInv(e, R)
        BY <3>1, <2>1, <1>2, MildNone
      <3> QED
        BY <3>2, <1>e, <1>r
    <2>3. CASE n \notin m_wasCached
      <3>w. PICK w : w = doProduceAsync(d, n)
        OBVIOUS
      <3>c. PICK c : c = wait(m_group(n))
        OBVIOUS
      <3>1. e = GoOn(w, b, <<c>> \o Later(b))
        BY <2>1, <2>3, <2>n, <1>4, <1>d, <1>e, <3>w, <3>c DEF GetAndWait
      <3>2. Smooth(d, w, R)
        BY <3>w, <1>2, ProduceSmooth
      <3>3. Mild(c, R)
        <4>1. c.call = "wait" /\ c.group = m_group(n)
          BY <3>c DEF wait
        <4>2. \A x : m_group(n) # Lock(x)
          BY DEF m_group, Lock
        <4> QED
          BY <4>1, <4>2 DEF Mild
      <3>4. QueueInv(e, R)
        BY <3>1, <3>2, <3>3, <2>1, <1>2, MildOne
      <3> QED
        BY <3>4, <1>e, <1>r
    <2> QED
      BY <2>2, <2>3
  <1>5. CASE BeginFilter(b)
    <2>c. PICK c : c = Job("next", v, Call(b).at)
      OBVIOUS
    <2>m. PICK m : m = <<c>>
      OBVIOUS
    <2>1. Call(b).call = "work" /\ Call(b).at # <<>>
      BY <1>5 DEF BeginFilter, Does
    <2>2. c.call = "next"
      BY <2>c DEF Job
    <2>3. Mild(c, R) /\ IsSeq(m) /\ Range(m) = {c}
      BY <2>2, <2>m, OneElement DEF Mild, PlainCalls
    <2>4. CASE v \in R
      <3>1. e = GoOn(d, b, <<>> \o <<c>> \o Later(b))
        BY <2>4, <2>c, <1>r, <1>v, <1>5, <1>d, <1>e DEF BeginFilter
      <3>2. <<>> \o <<c>> = <<c>>
        BY OneElement, ConcatCons
      <3>3. e = GoOn(d, b, <<c>> \o Later(b))
        BY <3>1, <3>2
      <3>4. QueueInv(e, R)
        BY <3>3, <2>1, <2>3, <1>2, MildOne
      <3> QED
        BY <3>4, <1>e, <1>r
    <2>5. CASE v \notin R
      <3>f. PICK f : f = filtered(v)
        OBVIOUS
      <3>x. PICK x : x = GetByLabel(v)
        OBVIOUS
      <3>k. PICK k : k = <<f>>
        OBVIOUS
      <3>1. e = GoOn(d, b, ((x \o k) \o m) \o Later(b))
        BY <2>5, <2>c, <2>m, <3>f, <3>x, <3>k, <1>r, <1>v, <1>5, <1>d, <1>e DEF BeginFilter
      <3>2. IsSeq(x)
        <4>1. PICK keys : x = Reads(v, keys)
          BY <3>x, GetByLabelReads
        <4> QED
          BY <4>1, OneElement DEF Reads
      <3>3. IsSeq(k)
        BY <3>k, OneElement
      <3>4. (x \o k) \o m = x \o (k \o m)
        BY <3>2, <3>3, <2>3, Associative
      <3>5. e = GoOn(d, b, (GetByLabel(v) \o (<<f>> \o m)) \o Later(b))
        BY <3>1, <3>4, <3>x, <3>k
      <3>6. f.call \in {"filtered", "put"} /\ f.wrapper = v
        BY <3>f DEF filtered
      <3>7. \A y \in Range(m) : Mild(y, R) /\ y.call \notin {"wait", "sync"}
        BY <2>2, <2>3
      <3>8. QueueInv(e, R)
        BY <3>5, <3>6, <3>7, <2>1, <2>3, <2>5, <1>1, <1>v, WorkBegins
      <3> QED
        BY <3>8, <1>e, <1>r
    <2> QED
      BY <2>4, <2>5
  <1>6. CASE BeginProduce(b)
    <2>g. PICK g : g = m_group(v)
      OBVIOUS
    <2>c. PICK c : c = leave(g)
      OBVIOUS
    <2>1. Call(b).call = "work" /\ Call(b).at = <<>>
      BY <1>6 DEF BeginProduce, Does
    <2>2. c.call = "leave" /\ c.group = g
      BY <2>c DEF leave
    <2>3. Mild(c, R)
      <3>1. IsCommon(g)
        BY <2>g, CommonGroups
      <3> QED
        BY <3>1, <2>2 DEF Mild
    <2>4. CASE v \in R
      <3>1. e = GoOn(d, b, <<>> \o <<c>> \o Later(b))
        BY <2>4, <2>c, <2>g, <1>r, <1>v, <1>6, <1>d, <1>e DEF BeginProduce
      <3>2. <<>> \o <<c>> = <<c>>
        BY OneElement, ConcatCons
      <3>3. e = GoOn(d, b, <<c>> \o Later(b))
        BY <3>1, <3>2
      <3>4. QueueInv(e, R)
        BY <3>3, <2>1, <2>3, <1>2, MildOne
      <3> QED
        BY <3>4, <1>e, <1>r
    <2>5. CASE v \notin R
      <3>f. PICK f : f = put(v)
        OBVIOUS
      <3>h. PICK h : h = ran(v)
        OBVIOUS
      <3>x. PICK x : x = GetByLabel(v)
        OBVIOUS
      <3>k. PICK k : k = <<f>>
        OBVIOUS
      <3>y. PICK y : y = <<h>>
        OBVIOUS
      <3>z. PICK z : z = <<c>>
        OBVIOUS
      <3>m. PICK m : m = y \o z
        OBVIOUS
      <3>0. <<f, h>> = k \o y
        BY <3>k, <3>y, Elements
      <3>1. e = GoOn(d, b, ((x \o (k \o y)) \o z) \o Later(b))
        <4>1. e = GoOn(d, b, ((x \o <<f, h>>) \o z) \o Later(b))
          BY <2>5, <2>c, <2>g, <3>f, <3>h, <3>x, <3>z, <1>r, <1>v, <1>6, <1>d, <1>e DEF BeginProduce
        <4> QED
          BY <4>1, <3>0
      <3>2. IsSeq(x)
        <4>1. PICK keys : x = Reads(v, keys)
          BY <3>x, GetByLabelReads
        <4> QED
          BY <4>1, OneElement DEF Reads
      <3>3. /\ IsSeq(k) /\ IsSeq(y) /\ IsSeq(z)
            /\ Range(y) = {h} /\ Range(z) = {c}
        BY <3>k, <3>y, <3>z, OneElement
      <3>4. IsSeq(k \o y) /\ IsSeq(m) /\ Range(m) = {h, c}
        BY <3>3, <3>m, Concat
      <3>5. (x \o (k \o y)) \o z = x \o (k \o m)
        <4>j. PICK j : j = k \o y
          OBVIOUS
        <4>1. IsSeq(x) /\ IsSeq(j) /\ IsSeq(z)
          BY <4>j, <3>2, <3>3, <3>4
        <4>2. (x \o j) \o z = x \o (j \o z)
          BY <4>1, Associative
        <4>3. (k \o y) \o z = k \o (y \o z)
          BY <3>3, Associative
        <4> QED
          BY <4>2, <4>3, <4>j, <3>m
      <3>6. e = GoOn(d, b, (GetByLabel(v) \o (<<f>> \o m)) \o Later(b))
        BY <3>1, <3>5, <3>x, <3>k
      <3>7. f.call \in {"filtered", "put"} /\ f.wrapper = v
        BY <3>f DEF put
      <3>8. \A p \in Range(m) : Mild(p, R) /\ p.call \notin {"wait", "sync"}
        <4>1. h.call = "ran"
          BY <3>h DEF ran
        <4>2. Mild(h, R)
          BY <4>1 DEF Mild, PlainCalls
        <4> QED
          BY <4>1, <4>2, <2>2, <2>3, <3>4
      <3>9. QueueInv(e, R)
        BY <3>4, <3>6, <3>7, <3>8, <2>1, <2>5, <1>1, <1>v, WorkBegins
      <3> QED
        BY <3>9, <1>e, <1>r
    <2> QED
      BY <2>4, <2>5
  <1>7. CASE EndFilter(b) \/ Put(b) \/ EndProduce(b)
    <2>1. Call(b).call \in {"filtered", "put", "ran"} /\ e = GoOn(d, b, Later(b))
      BY <1>7, <1>d, <1>e DEF EndFilter, Put, EndProduce, Does
    <2>2. QueueInv(e, R)
      BY <2>1, <1>2, MildNone
    <2> QED
      BY <2>2, <1>e, <1>r
  <1> QED
    BY <1>3, <1>4, <1>5, <1>6, <1>7

-----------------------------------------------------------------------------
(* Steps of main, and wrappers that are reset. *)

\* What suits still does when more wrappers have run.
LEMMA SuitsMore ==
  ASSUME NEW R, NEW T, R \subseteq T
  PROVE  /\ \A q, c, S : Suits(q, c, S, R) => Suits(q, c, S, T)
         /\ \A q, s : SuitsAll(q, s, R) => SuitsAll(q, s, T)
  <1>1. ASSUME NEW q, NEW c, NEW S, SuitsCall(q, c, S, R)
        PROVE  SuitsCall(q, c, S, T)
    BY <1>1 DEF SuitsCall
  <1>2. \A q, c, S : Suits(q, c, S, R) => Suits(q, c, S, T)
    BY <1>1 DEF Suits
  <1>3. ASSUME NEW q, NEW s, SuitsAll(q, s, R)
        PROVE  SuitsAll(q, s, T)
    BY <1>2, <1>3 DEF SuitsAll
  <1> QED
    BY <1>2, <1>3

\* So the queues are in order.
LEMMA MoreHaveRun ==
  ASSUME NEW d, NEW R, QueueInv(d, R), NEW T, R \subseteq T
  PROVE  QueueInv(d, T)
  <1>1. Shapes(d, T)
    BY SuitsMore DEF QueueInv, Shapes
  <1> QED
    BY <1>1 DEF QueueInv

\* A call does not ask a filter of X to work; no call does.
Idle(c, X) == c.call = "work" /\ c.at # <<>> => c.wrapper \notin X
NoneWork(d, X) ==
    /\ \A c \in Now(d) : Idle(c, X)
    /\ \A g : \A z \in Range(Waiting(d, g)) : Idle(Inner(z), X)

\* Then what suits does without these.
LEMMA SuitsFewer ==
  ASSUME NEW q, NEW c, NEW S, NEW R, Suits(q, c, S, R), NEW X, Idle(Inner(c), X)
  PROVE  Suits(q, c, S, R \ X)
  <1>1. ASSUME NEW p, NEW x, NEW Y, SuitsCall(p, x, Y, R), Idle(x, X)
        PROVE  SuitsCall(p, x, Y, R \ X)
    BY <1>1 DEF SuitsCall, Idle
  <1>2. CASE c.call = "submit"
    <2>1. SuitsCall(q, c, S, R) /\ SuitsCall(c.queue, c.block[1], {}, R) /\ Idle(c.block[1], X)
      BY <1>2 DEF Suits, Inner
    <2>2. Idle(c, X)
      BY <1>2 DEF Idle
    <2> QED
      BY <2>1, <2>2, <1>1 DEF Suits
  <1>3. CASE c.call # "submit"
    <2>1. SuitsCall(q, c, S, R) /\ Idle(c, X)
      BY <1>3 DEF Suits, Inner
    <2> QED
      BY <2>1, <1>1, <1>3 DEF Suits
  <1> QED
    BY <1>2, <1>3

\* So the queues are in order.
LEMMA FewerHaveRun ==
  ASSUME NEW d, IsGcd(d), NEW R, QueueInv(d, R), NEW X, NoneWork(d, X)
  PROVE  QueueInv(d, R \ X)
  <1>1. ASSUME NEW a \in Held(d), NEW q, SuitsAll(q, a.calls, R)
        PROVE  SuitsAll(q, a.calls, R \ X)
    <2>1. ASSUME NEW i \in DOMAIN a.calls
          PROVE  Suits(q, a.calls[i], After(a.calls, i), R \ X)
      <3>c. PICK c : c = a.calls[i]
        OBVIOUS
      <3>S. PICK S : S = After(a.calls, i)
        OBVIOUS
      <3>1. c \in Range(a.calls)
        BY <3>c DEF Range
      <3>2. Inner(c) \in Now(d)
        BY <3>1 DEF Inners, Now
      <3>3. Idle(Inner(c), X)
        BY <3>2 DEF NoneWork
      <3>4. Suits(q, c, S, R)
        BY <1>1, <3>c, <3>S DEF SuitsAll
      <3>5. Suits(q, c, S, R \ X)
        BY <3>3, <3>4, SuitsFewer
      <3> QED
        BY <3>5, <3>c, <3>S
    <2> QED
      BY <2>1 DEF SuitsAll
  <1>2. ASSUME NEW a, Copies(d, a) > 0
        PROVE  SuitsAll(a.queue, a.calls, R \ X)
    <2>1. a \in Held(d)
      BY <1>2, HeldIs
    <2>2. SuitsAll(a.queue, a.calls, R)
      BY <1>2 DEF QueueInv, Shapes
    <2> QED
      BY <2>1, <2>2, <1>1
  <1>3. ASSUME NEW q, NEW s, InQueue(d, q, s)
        PROVE  SuitsAll(q, s, R \ X)
    <2>a. PICK a : a = Block(q, s)
      OBVIOUS
    <2>1. a \in Held(d)
      BY <1>3, <2>a, HeldIs
    <2>2. a.calls = s
      BY <2>a DEF Block
    <2>3. SuitsAll(q, a.calls, R)
      BY <2>2, <1>3 DEF QueueInv, Shapes
    <2>4. SuitsAll(q, a.calls, R \ X)
      BY <2>1, <2>3, <1>1
    <2> QED
      BY <2>2, <2>4
  <1>4. ASSUME NEW g, NEW z \in Range(Waiting(d, g))
        PROVE  Suits(Global, z, {}, R \ X)
    <2>q. PICK q : q = Global
      OBVIOUS
    <2>S. PICK S : S = {}
      OBVIOUS
    <2>1. Suits(q, z, S, R) /\ Idle(Inner(z), X)
      BY <2>q, <2>S DEF QueueInv, Shapes, NoneWork
    <2>2. Suits(q, z, S, R \ X)
      BY <2>1, SuitsFewer
    <2> QED
      BY <2>2, <2>q, <2>S
  <1>5. Shapes(d, R \ X)
    BY <1>2, <1>3, <1>4 DEF Shapes
  <1> QED
    BY <1>5 DEF QueueInv

\* Who is asked to work has a job.
LEMMA WorkIsJob ==
  ASSUME NEW d, IsGcd(d), Blocks(d)
  PROVE  /\ \A c \in Now(d) : c.call = "work" => IsJob(c)
         /\ \A g : \A z \in Range(Waiting(d, g)) : Inner(z).call = "work" => IsJob(Inner(z))
  <1>1. ASSUME NEW c \in Now(d), c.call = "work"
        PROVE  IsJob(c)
    <2>1. CASE \E S : Fits(c, S)
      <3>1. c.call \in JobCalls
        BY <1>1 DEF JobCalls
      <3> QED
        BY <2>1, <3>1 DEF Fits
    <2>2. CASE IsSubmitted(c)
      BY <2>2, <1>1 DEF IsSubmitted, scheduleDone, leave
    <2> QED
      BY <2>1, <2>2, FitsNow
  <1>2. ASSUME NEW g, NEW z \in Range(Waiting(d, g)), Inner(z).call = "work"
        PROVE  IsJob(Inner(z))
    <2>1. IsNoted(g, z)
      BY DEF Blocks
    <2>2. z.call = "submit"
      BY <2>1 DEF IsNoted, submit
    <2>3. Inner(z) = z.block[1]
      BY <2>2 DEF Inner
    <2>x. PICK x : x = z.block[1]
      OBVIOUS
    <2>4. \/ \E s : x = scheduleDone(s)
          \/ IsJob(x)
          \/ \E w : x = leave(prefetchGroup(w))
      BY <2>1, <2>x DEF IsNoted
    <2>5. x.call = "work"
      BY <2>3, <2>x, <1>2
    <2>6. IsJob(x)
      BY <2>4, <2>5 DEF scheduleDone, leave
    <2> QED
      BY <2>3, <2>6, <2>x
  <1> QED
    BY <1>1, <1>2

\* No filter is a wrapper that is reset with its event.
LEMMA ResetIdle ==
  ASSUME EventInv, NEW b \in Running, Call(b).call = "event", NEW X, X = Of(Call(b).stream)
  PROVE  NoneWork(gcd, X)
  <1>d. PICK d : d = gcd
    OBVIOUS
  <1>1. Modules /\ IsGcd(d) /\ Blocks(d) /\ Fits(Call(b), Range(Later(b)))
    BY <1>d, RunsInOrder
  <1>2. Call(b).stream \in Streams
    BY <1>1 DEF Fits
  <1>3. ASSUME NEW c, c.call = "work" => IsJob(c)
        PROVE  Idle(c, X)
    <2>1. ASSUME c.call = "work", c.at # <<>>, c.wrapper \in X
          PROVE  FALSE
      <3>1. IsFilter(c.wrapper)
        BY <2>1, <1>1, <1>3, JobIs
      <3>2. IsProducer(c.wrapper)
        BY <2>1, <1>2 DEF Of, IsProducer
      <3> QED
        BY <3>1, <3>2, <1>1, OneOrTheOther
    <2> QED
      BY <2>1 DEF Idle
  <1>4. /\ \A c \in Now(d) : c.call = "work" => IsJob(c)
        /\ \A g : \A z \in Range(Waiting(d, g)) : Inner(z).call = "work" => IsJob(Inner(z))
    BY <1>1, WorkIsJob
  <1>5. NoneWork(d, X)
    BY <1>3, <1>4 DEF NoneWork
  <1> QED
    BY <1>5, <1>d

\* No filter of a stream is to work that begins another event.
LEMMA CountIdle ==
  ASSUME EventInv, NEW b \in Running, Call(b).call = "count", NEW X, X = OwnFilters(Call(b).stream)
  PROVE  NoneWork(gcd, X)
  <1>d. PICK d : d = gcd
    OBVIOUS
  <1>s. PICK s : s = Call(b).stream
    OBVIOUS
  <1>e. PICK e : e = GoOn(d, b, Later(b))
    OBVIOUS
  <1>1. /\ Modules /\ Orderly(d) /\ b \in Runs(d)
        /\ IsGcd(d) /\ Blocks(d) /\ Fits(Call(b), Range(Later(b)))
    BY <1>d, RunsInOrder
  <1>2. s \in Streams
    BY <1>1, <1>s DEF Fits
  <1>3. Owes(Call(b), StreamToken(s)) /\ Call(b).call # "submit"
    BY <1>s DEF Owes
  <1>4. AloneAt(d, b, s, e)
    BY <1>1, <1>2, <1>3, <1>e, AloneIs
  <1>5. ~Bothers(d, s)
    BY <1>1, <1>2, <1>4, NothingLeft
  <1>x. PICK x : x = m_allPathsDoneGroup(s)
    OBVIOUS
  <1>6. ~(Count(d, x) >= 1)
    BY <1>5, <1>x, <1>1, CountIsNat DEF Bothers, Owed
  <1>7. ASSUME NEW c, c.call = "work" => IsJob(c), ~Owes(c, x)
        PROVE  Idle(c, X)
    <2>1. ASSUME c.call = "work", c.at # <<>>, c.wrapper \in X
          PROVE  FALSE
      <3>1. JobGroup(c) = m_allPathsDoneGroup(c.wrapper[1])
        BY <2>1 DEF JobGroup
      <3>2. c.wrapper[1] \in {s}
        BY <2>1, <1>s, PairIs DEF OwnFilters
      <3>3. x = JobGroup(c) /\ c.call \in JobCalls
        BY <3>1, <3>2, <2>1, <1>x DEF JobCalls
      <3> QED
        BY <3>3, <1>7 DEF Owes
    <2> QED
      BY <2>1 DEF Idle
  <1>8. /\ \A c \in Now(d) : c.call = "work" => IsJob(c)
        /\ \A g : \A z \in Range(Waiting(d, g)) : Inner(z).call = "work" => IsJob(Inner(z))
    BY <1>1, WorkIsJob
  <1>9. \A c \in Now(d) : ~Owes(c, x)
    BY <1>1, <1>6, OwedNow
  <1>10. \A g : \A z \in Range(Waiting(d, g)) : ~Owes(Inner(z), x)
    BY <1>1, <1>6, OwedNoted
  <1>11. NoneWork(d, X)
    BY <1>7, <1>8, <1>9, <1>10 DEF NoneWork
  <1> QED
    BY <1>11, <1>d

\* Events are begun, wrappers reset, and paths begun.
LEMMA EventLoopQueues ==
  ASSUME EventInv, NEW b \in Running, QueueInv(gcd, m_wasRun),
         ResetEvent(b) \/ SetEventInfo(b) \/ StartPaths(b) \/ ScheduleDone(b)
  PROVE  QueueInv(gcd', m_wasRun')
  <1>d. PICK d : d = gcd
    OBVIOUS
  <1>r. PICK R : R = m_wasRun
    OBVIOUS
  <1>1. IsGcd(d) /\ QueueInv(d, R)
    BY <1>d, <1>r DEF EventInv, Orderly, InOrder
  <1>2. ASSUME NEW X, NoneWork(gcd, X), m_wasRun' = m_wasRun \ X
        PROVE  QueueInv(gcd', m_wasRun')
    <2>T. PICK T : T = R \ X
      OBVIOUS
    <2>0. NoneWork(d, X)
      BY <1>2, <1>d
    <2>1. QueueInv(d, R \ X)
      BY <2>0, <1>1, FewerHaveRun
    <2>2. QueueInv(gcd, T)
      BY <2>1, <2>T, <1>d
    <2>3. QueueInv(gcd', T)
      BY <2>2, EventLoopKeeps
    <2> QED
      BY <2>3, <1>2, <2>T, <1>r
  <1>3. ASSUME m_wasRun' = m_wasRun
        PROVE  QueueInv(gcd', m_wasRun')
    <2>1. QueueInv(gcd', m_wasRun)
      BY EventLoopKeeps
    <2> QED
      BY <2>1, <1>3
  <1>4. CASE ResetEvent(b)
    <2>X. PICK X : X = Of(Call(b).stream)
      OBVIOUS
    <2>1. Call(b).call = "event" /\ m_wasRun' = m_wasRun \ X
      BY <1>4, <2>X DEF ResetEvent, Does
    <2>2. NoneWork(gcd, X)
      BY <2>1, <2>X, ResetIdle
    <2> QED
      BY <2>1, <2>2, <1>2
  <1>5. CASE SetEventInfo(b)
    <2>X. PICK X : X = OwnFilters(Call(b).stream)
      OBVIOUS
    <2>1. Call(b).call = "count" /\ (m_wasRun' = m_wasRun \ X \/ m_wasRun' = m_wasRun)
      BY <1>5, <2>X DEF SetEventInfo, Does
    <2>2. NoneWork(gcd, X)
      BY <2>1, <2>X, CountIdle
    <2> QED
      BY <2>1, <2>2, <1>2, <1>3
  <1>6. CASE StartPaths(b) \/ ScheduleDone(b)
    <2>1. m_wasRun' = m_wasRun
      BY <1>6 DEF StartPaths, ScheduleDone, unchangedByGcd, wrappers
    <2> QED
      BY <2>1, <1>3
  <1> QED
    BY <1>4, <1>5, <1>6

\* A block takes its step.
LEMMA BlockStepQueues ==
  ASSUME EventInv, NEW b \in Running, QueueInv(gcd, m_wasRun), BlockStep(b)
  PROVE  QueueInv(gcd', m_wasRun') /\ UNCHANGED module
  <1>r. PICK R : R = m_wasRun
    OBVIOUS
  <1>1. (Kept \/ Exits) /\ QueueInv(gcd, R)
    BY <1>r, LibdispatchSteps, EventLoopSteps, PathSteps, RequestSteps, QueueSteps, WorkSteps DEF BlockStep
  <1>2. UNCHANGED module
    BY <1>1 DEF Kept, Exits, setup
  <1>3. ASSUME QueueInv(gcd', R), m_wasRun \subseteq m_wasRun'
        PROVE  QueueInv(gcd', m_wasRun')
    <2>e. PICK e : e = gcd'
      OBVIOUS
    <2>t. PICK T : T = m_wasRun'
      OBVIOUS
    <2>1. QueueInv(e, R) /\ R \subseteq T
      BY <1>3, <2>e, <2>t, <1>r
    <2>2. QueueInv(e, T)
      BY <2>1, MoreHaveRun
    <2> QED
      BY <2>2, <2>e, <2>t
  <1>4. CASE Leave(b) \/ Submit(b) \/ Resume(b) \/ Wait(b)
    <2>1. m_wasRun' = m_wasRun
      BY <1>4 DEF Leave, Submit, Resume, Wait, unchangedByGcd, wrappers
    <2>2. QueueInv(gcd', R)
      BY <1>1, <1>4, LibdispatchKeeps
    <2> QED
      BY <2>1, <2>2, <1>2, <1>r
  <1>5. CASE ResetEvent(b) \/ SetEventInfo(b) \/ StartPaths(b) \/ ScheduleDone(b)
    BY <1>5, <1>2, EventLoopQueues
  <1>6. CASE RunPath(b) \/ doNextIfSuccess(b)
    <2>1. m_wasRun' = m_wasRun
      BY <1>6 DEF RunPath, doNextIfSuccess, unchangedByGcd, wrappers
    <2>2. QueueInv(gcd', m_wasRun)
      BY <1>6, PathKeeps
    <2> QED
      BY <2>1, <2>2, <1>2
  <1>7. CASE PrefetchAsync(b) \/ GetAsync(b) \/ GetMissing(b) \/ AwaitProducer(b) \/ NotifyPrefetched(b)
    <2>1. m_wasRun' = m_wasRun
      BY <1>7 DEF PrefetchAsync, GetAsync, GetMissing, AwaitProducer, NotifyPrefetched,
                  unchangedByGcd, wrappers
    <2>2. QueueInv(gcd', R)
      <3>1. CASE Exits
        <4>1. gcd' = gcd
          BY <3>1 DEF Exits
        <4> QED
          BY <4>1, <1>1
      <3>2. CASE Kept
        <4>1. UNCHANGED phase
          BY <3>2 DEF Kept
        <4> QED
          BY <4>1, <1>1, <1>7, RequestKeeps
      <3> QED
        BY <3>1, <3>2, <1>1
    <2> QED
      BY <2>1, <2>2, <1>2, <1>r
  <1>8. CASE \/ SuspendRunQueue(b) \/ SuspendThreadUnsafeQueue(b) \/ doProduceAsyncImpl(b)
             \/ Sync(b) \/ SuspendAgain(b)
    <2>1. m_wasRun' = m_wasRun
      BY <1>8 DEF SuspendRunQueue, SuspendThreadUnsafeQueue, doProduceAsyncImpl, Sync, SuspendAgain,
                  unchangedByGcd, wrappers
    <2>2. QueueInv(gcd', R)
      BY <1>1, <1>8, QueueKeeps
    <2> QED
      BY <2>1, <2>2, <1>2, <1>r
  <1>9. CASE \/ ReadNext(b) \/ GetAndWait(b)
             \/ BeginFilter(b) \/ EndFilter(b) \/ BeginProduce(b) \/ Put(b) \/ EndProduce(b)
    <2>1. m_wasRun \subseteq m_wasRun'
      BY <1>9 DEF ReadNext, GetAndWait, BeginFilter, EndFilter, BeginProduce, Put, EndProduce,
                  unchangedByGcd, wrappers
    <2>2. QueueInv(gcd', m_wasRun)
      <3>1. CASE Exits
        <4>1. gcd' = gcd
          BY <3>1 DEF Exits
        <4> QED
          BY <4>1
      <3>2. CASE Kept
        <4>1. UNCHANGED phase
          BY <3>2 DEF Kept
        <4> QED
          BY <4>1, <1>9, WorkKeeps
      <3> QED
        BY <3>1, <3>2, <1>1
    <2>3. QueueInv(gcd', R)
      BY <2>2, <1>r
    <2> QED
      BY <2>1, <2>3, <1>2, <1>3
  <1> QED
    BY <1>4, <1>5, <1>6, <1>7, <1>8, <1>9 DEF BlockStep

\* Nothing has been submitted yet.
LEMMA EmptyQueues ==
  ASSUME NEW R
  PROVE  QueueInv(EmptyGcd, R)
  <1>d. PICK d : d = EmptyGcd
    OBVIOUS
  <1>1. /\ d.groups = <<>> /\ d.notify = <<>> /\ d.queues = <<>> /\ d.running = <<>>
    BY <1>d DEF EmptyGcd
  <1>2. IsGcd(d)
    BY <1>d, EmptyOrderly DEF Orderly, InOrder
  <1>3. DOMAIN <<>> = {} /\ Range(<<>>) = {}
    <2>1. DOMAIN <<>> = {}
      OBVIOUS
    <2>2. Range(<<>>) = {}
      BY OneElement
    <2> QED
      BY <2>1, <2>2
  <1>4. \A a : ~(Copies(d, a) > 0)
    <2>1. \A a : Copies(d, a) = 0
      BY <1>1, <1>3 DEF Copies, CopiesIn
    <2> QED
      BY <2>1
  <1>5. \A q : QueueOf(d, q) = [blocks |-> <<>>, suspended |-> 0, busy |-> FALSE]
    BY <1>1, <1>3 DEF QueueOf
  <1>6. \A q : Susp(d, q) = 0 /\ \A s : ~InQueue(d, q, s)
    BY <1>3, <1>5 DEF Susp, InQueue
  <1>7. \A g : Waiting(d, g) = <<>>
    BY <1>1, <1>3 DEF Waiting
  <1>8. ASSUME NEW x
        PROVE  Count(d, x) = 0
    <2>1. RunPlaces(d.running, x) = {} /\ Places(FirstCalls(d.queues), x) = {} /\ Places(d.notify, x) = {}
      <3>1. DOMAIN FirstCalls(d.queues) = {} /\ DOMAIN d.notify = {} /\ DOMAIN d.running = {}
        BY <1>1, <1>3 DEF FirstCalls
      <3> QED
        BY <3>1 DEF RunPlaces, Places
    <2>2. Cardinality({}) = 0
      BY FS_EmptySet
    <2> QED
      BY <2>1, <2>2 DEF Count
  <1>9. Serial(d) /\ Shapes(d, R)
    BY <1>3, <1>4, <1>6, <1>7 DEF Serial, Shapes
  <1>10. OwnQueues(d) /\ UnsafeQueue(d) /\ OtherQueues(d)
    BY <1>4, <1>6, <1>8 DEF OwnQueues, UnsafeQueue, OtherQueues
  <1> QED
    BY <1>9, <1>10, <1>d DEF QueueInv, Sums

\* Before the first event that is so.
LEMMA EmptyQueuesBecome == (gcd = EmptyGcd => QueueInv(gcd, m_wasRun))'
  <1>1. gcd = EmptyGcd => QueueInv(gcd, m_wasRun)
    BY EmptyQueues
  <1> QED
    BY <1>1, PTL

\* What modules there are does not change then.
LEMMA SameQueues ==
  ASSUME UNCHANGED module, NEW d, NEW R
  PROVE  QueueInv(d, R)' <=> QueueInv(d, R)
  <1>1. \A v : (IsUnsafe(v)' <=> IsUnsafe(v)) /\ runQueue(v)' = runQueue(v)
    BY DEF IsUnsafe, ThreadType, runQueue
  <1>2. \A q, v, S : MayWork(q, v, S)' <=> MayWork(q, v, S)
    BY <1>1 DEF MayWork
  <1>3. \A q, c, S : SuitsCall(q, c, S, R)' <=> SuitsCall(q, c, S, R)
    BY <1>1, <1>2 DEF SuitsCall
  <1>4. \A q, c, S : Suits(q, c, S, R)' <=> Suits(q, c, S, R)
    BY <1>3 DEF Suits
  <1>5. \A q, s : SuitsAll(q, s, R)' <=> SuitsAll(q, s, R)
    BY <1>4 DEF SuitsAll
  <1>6. Shapes(d, R)' <=> Shapes(d, R)
    BY <1>4, <1>5 DEF Shapes
  <1> QED
    BY <1>6 DEF QueueInv

\* What holds of a state of libdispatch holds of the next if it becomes that.
LEMMA QueuesBecome ==
  ASSUME NEW e, NEW R
  PROVE  (gcd = e /\ m_wasRun = R /\ QueueInv(e, R) => QueueInv(gcd, m_wasRun))'
  <1>1. gcd = e /\ m_wasRun = R /\ QueueInv(e, R) => QueueInv(gcd, m_wasRun)
    OBVIOUS
  <1> QED
    BY <1>1, PTL

\* A step after which the queues are in order.
LEMMA NextQueues ==
  ASSUME UNCHANGED module, QueueInv(gcd', m_wasRun')
  PROVE  QueueInv(gcd, m_wasRun)'
  <1>e. PICK e : e = gcd'
    OBVIOUS
  <1>r. PICK R : R = m_wasRun'
    OBVIOUS
  <1>1. QueueInv(e, R)
    BY <1>e, <1>r
  <1>2. QueueInv(e, R)'
    BY <1>1, SameQueues
  <1>3. (gcd = e /\ m_wasRun = R /\ QueueInv(e, R))'
    BY <1>2, <1>e, <1>r
  <1> QED
    BY <1>3, QueuesBecome

\* A smooth step of main.
LEMMA SmoothAlone ==
  ASSUME NEW d, IsGcd(d), NEW R, QueueInv(d, R), NEW w, Smooth(d, w, R)
  PROVE  QueueInv(w, R)
  <1>1. /\ Serial(d) /\ Shapes(d, R) /\ OwnQueues(d) /\ UnsafeQueue(d) /\ OtherQueues(d)
        /\ Tame(d, w, R) /\ Level(d, w) /\ IsGcd(w)
    BY DEF QueueInv, Sums, Smooth, Tame
  <1>2. \A a : Copies(w, a) # Copies(d, a) => a.queue = Global /\ SuitsAll(Global, a.calls, R)
    BY <1>1 DEF Tame
  <1>3. \A q : Susp(w, q) = Susp(d, q) /\ Busyness(w, q) = Busyness(d, q)
    BY <1>1 DEF Tame, Level
  <1>4. s_non_thread_safe_queue # Global /\ \A z : Own(z) # Global /\ Own(z) # s_non_thread_safe_queue
    <2>g. PICK g : g = m_eventLoopGroup
      OBVIOUS
    <2>1. IsGroup(g)
      BY <2>g DEF IsGroup
    <2> QED
      BY <2>1, OwnNames
  <1>5. Serial(w)
    <2>1. ASSUME NEW a, Copies(w, a) > 0, a.queue # Global
          PROVE  /\ Busyness(w, a.queue) /\ Copies(w, a) = 1
                 /\ \A c : Copies(w, c) > 0 /\ c.queue = a.queue => c = a
      <3>1. Copies(w, a) = Copies(d, a) /\ \A c : c.queue = a.queue => Copies(w, c) = Copies(d, c)
        BY <2>1, <1>2
      <3> QED
        BY <2>1, <3>1, <1>1, <1>3 DEF Serial
    <2> QED
      BY <2>1 DEF Serial
  <1>6. Shapes(w, R)
    <2>1. ASSUME NEW a, Copies(w, a) > 0
          PROVE  SuitsAll(a.queue, a.calls, R)
      <3>1. CASE Copies(w, a) = Copies(d, a)
        BY <2>1, <3>1, <1>1 DEF Shapes
      <3>2. CASE Copies(w, a) # Copies(d, a)
        BY <3>2, <1>2
      <3> QED
        BY <3>1, <3>2
    <2>2. \A q, s : InQueue(w, q, s) => SuitsAll(q, s, R)
      BY <1>1 DEF Tame, Shapes
    <2>3. \A g : \A z \in Range(Waiting(w, g)) : Suits(Global, z, {}, R)
      BY <1>1 DEF Tame, Shapes
    <2> QED
      BY <2>1, <2>2, <2>3 DEF Shapes
  <1>7. OwnQueues(w)
    <2>1. ASSUME NEW z
          PROVE  Susp(w, Own(z)) \in {0, 1} /\ Count(w, Own(z)) <= Susp(w, Own(z))
      <3>1. /\ Susp(d, Own(z)) \in {0, 1} /\ Count(d, Own(z)) <= Susp(d, Own(z))
            /\ Count(w, Own(z)) <= Count(d, Own(z))
            /\ Count(w, Own(z)) \in Nat /\ Count(d, Own(z)) \in Nat
        BY <1>1, CountIsNat DEF OwnQueues, Level
      <3> QED
        BY <3>1, <1>3
    <2>2. ASSUME NEW a, Copies(w, a) > 0, Suspender(a)
          PROVE  Susp(w, a.queue) = 0
      <3>1. CASE Copies(w, a) = Copies(d, a)
        BY <2>2, <3>1, <1>1, <1>3 DEF OwnQueues
      <3>2. CASE Copies(w, a) # Copies(d, a)
        BY <3>2, <1>1, <1>2, <1>3, <1>4 DEF OtherQueues
      <3> QED
        BY <3>1, <3>2
    <2> QED
      BY <2>1, <2>2 DEF OwnQueues
  <1>8. UnsafeQueue(w)
    <2>1. ASSUME NEW a, Copies(w, a) > 0, Holder(w, a)
          PROVE  Copies(d, a) > 0 /\ Holder(d, a)
      <3>1. Copies(w, a) = Copies(d, a)
        BY <2>1, <1>1 DEF Level, Holder
      <3>2. \A v : Entered(w, Lock(v)) = 0 => Entered(d, Lock(v)) = 0
        <4>1. \A v : /\ Entered(w, Lock(v)) >= Entered(d, Lock(v))
                     /\ Entered(w, Lock(v)) \in Nat /\ Entered(d, Lock(v)) \in Nat
          BY <1>1, AnyGroup DEF Level
        <4> QED
          BY <4>1
      <3> QED
        BY <2>1, <3>1, <3>2 DEF Holder
    <2>2. \A a : Copies(w, a) > 0 /\ a.queue = s_non_thread_safe_queue => Copies(d, a) > 0
      BY <1>2, <1>4
    <2> QED
      BY <2>1, <2>2, <1>1, <1>3 DEF UnsafeQueue
  <1>9. OtherQueues(w)
    BY <1>1, <1>3 DEF OtherQueues
  <1> QED
    BY <1>5, <1>6, <1>7, <1>8, <1>9 DEF QueueInv, Sums

\* The event loop begins, queues start blocks, and main returns.
LEMMA ProcessAllQueues ==
  ASSUME EventInv, QueueInv(gcd, m_wasRun), Start \/ Clone \/ StartFirst \/ Return
  PROVE  QueueInv(gcd', m_wasRun') /\ UNCHANGED module
  <1>d. PICK d : d = gcd
    OBVIOUS
  <1>e. PICK e : e = gcd'
    OBVIOUS
  <1>r. PICK R : R = m_wasRun
    OBVIOUS
  <1>1. IsGcd(d) /\ QueueInv(d, R)
    BY <1>d, <1>r DEF EventInv, Orderly, InOrder
  <1>2. m_wasRun' = R /\ UNCHANGED module
    BY <1>r DEF Start, Clone, StartFirst, Return, unchangedByGcd, wrappers, setup
  <1>3. CASE Start
    <2>1. PICK q \in DOMAIN d.queues :
              /\ d.queues[q].blocks # <<>> /\ d.queues[q].suspended = 0 /\ ~d.queues[q].busy
              /\ e = [SetQueue(d, q, [d.queues[q] EXCEPT !.blocks = Tail(@), !.busy = TRUE])
                        EXCEPT !.running = Bags!BagAdd(@, [queue |-> q, calls |-> Head(d.queues[q].blocks)])]
      BY <1>3, <1>d, <1>e DEF Start
    <2>2. QueueOf(d, q) = d.queues[q] /\ q # Global
      BY <1>1 DEF QueueOf, IsGcd
    <2>3. IsStart(d, q, e)
      BY <2>1, <2>2 DEF IsStart, Block
    <2>4. QueueOf(d, q).blocks # <<>> /\ Susp(d, q) = 0 /\ ~Busyness(d, q)
      BY <2>1, <2>2 DEF Susp, Busyness
    <2>5. QueueInv(e, R)
      BY <2>2, <2>3, <2>4, <1>1, StartQueues
    <2> QED
      BY <2>5, <1>2, <1>e
  <1>4. CASE Clone \/ StartFirst
    <2>1. PICK s : e = AnotherEvent(d, s)
      BY <1>4, <1>d, <1>e DEF Clone, StartFirst
    <2>g. PICK g : g = m_eventLoopGroup
      OBVIOUS
    <2>c. PICK c : c = event(s)
      OBVIOUS
    <2>2. IsCommon(g) /\ c.call \in PlainCalls
      BY <2>g, <2>c, CommonGroups DEF event, PlainCalls
    <2>3. e = dispatch_group_async(d, g, Global, <<c>>)
      BY <2>1, <2>g, <2>c DEF AnotherEvent
    <2>4. Smooth(d, e, R)
      BY <2>2, <2>3, <1>1, GroupAsyncSmooth
    <2>5. QueueInv(e, R)
      BY <2>4, <1>1, SmoothAlone
    <2> QED
      BY <2>5, <1>2, <1>e
  <1>5. CASE Return
    <2>1. e = d
      BY <1>5, <1>d, <1>e DEF Return
    <2> QED
      BY <2>1, <1>1, <1>2, <1>e
  <1> QED
    BY <1>3, <1>4, <1>5

\* Each step keeps the queues in order.
LEMMA QueuesStep ==
  ASSUME EventInv, QueueInv(gcd, m_wasRun), [Next]_vars
  PROVE  QueueInv(gcd, m_wasRun)'
  <1>1. CASE addFilter \/ addProducer \/ addPath
    <2>1. gcd = EmptyGcd /\ gcd' = gcd
      BY <1>1 DEF addFilter, addProducer, addPath, unchangedBySetup, EventInv, Numbers, SettingUp
    <2>2. (gcd = EmptyGcd)'
      BY <2>1 DEF EmptyGcd
    <2> QED
      BY <2>2, EmptyQueuesBecome
  <1>2. CASE Start \/ Clone \/ StartFirst \/ Return
    BY <1>2, ProcessAllQueues, NextQueues
  <1>3. CASE \E b \in Running : BlockStep(b)
    <2>1. PICK b \in Running : BlockStep(b)
      BY <1>3
    <2> QED
      BY <2>1, BlockStepQueues, NextQueues
  <1>4. CASE UNCHANGED vars
    <2>1. UNCHANGED module /\ gcd' = gcd /\ m_wasRun' = m_wasRun
      BY <1>4 DEF vars, setup, wrappers
    <2>2. QueueInv(gcd', m_wasRun')
      BY <2>1
    <2> QED
      BY <2>1, <2>2, NextQueues
  <1> QED
    BY <1>1, <1>2, <1>3, <1>4 DEF Next

\* A serial queue runs one block at a time, what a block is still going to
\* resume is suspended, once, and modules work in the queue of their type: for
\* any configuration and number of streams.
THEOREM QueuesInOrder == Spec => [](EventInv /\ QueueInv(gcd, m_wasRun))
  <1>1. Init => QueueInv(gcd, m_wasRun)
    <2>1. Init => gcd = EmptyGcd
      BY DEF Init, EmptyGcd
    <2> QED
      BY <2>1, EmptyQueues
  <1>2. EventInv /\ QueueInv(gcd, m_wasRun) /\ [Next]_vars => QueueInv(gcd, m_wasRun)'
    BY QueuesStep
  <1> QED
    BY <1>1, <1>2, InOrderAlways, PTL DEF Spec

-----------------------------------------------------------------------------
(* Modules one at a time. *)

\* A block inside a module that is not thread safe will resume both queues, and
\* one inside another runs in the queue of that.
LEMMA InsideIs ==
  ASSUME NEW d, IsGcd(d), NEW R, QueueInv(d, R), NEW b \in Runs(d), NEW w \in Inside(b)
  PROVE  /\ IsUnsafe(w) => Resumes(w) \subseteq Range(b.calls)
         /\ ~IsUnsafe(w) => b.queue = runQueue(w)
  <1>1. PICK i \in DOMAIN b.calls : b.calls[i].call \in Ends /\ w = b.calls[i].wrapper
    BY DEF Inside
  <1>c. PICK c : c = b.calls[i]
    OBVIOUS
  <1>s. PICK s : s = b.calls
    OBVIOUS
  <1>q. PICK q : q = b.queue
    OBVIOUS
  <1>2. c \in Range(s)
    BY <1>1, <1>c, <1>s DEF Range
  <1>3. SuitsAll(q, s, R)
    <2>1. Copies(d, b) > 0
      BY RunsPositive
    <2> QED
      BY <2>1, <1>s, <1>q DEF QueueInv, Shapes
  <1>4. PICK S : S \subseteq Range(s) /\ Suits(q, c, S, R)
    BY <1>2, <1>3, SuitsMember
  <1>5. MayWork(q, w, S)
    BY <1>1, <1>4, <1>c DEF Suits, SuitsCall, Ends
  <1> QED
    BY <1>4, <1>5, <1>s, <1>q DEF MayWork

\* If it is to end next, or to get data, it holds the queue of all such modules.
LEMMA InsideHolds ==
  ASSUME NEW d, IsGcd(d), NEW R, QueueInv(d, R), NEW b \in Runs(d), NEW w \in Inside(b),
         IsUnsafe(w), HoldsQueue(b)
  PROVE  Holder(d, b) /\ resume(s_non_thread_safe_queue) \in Range(b.calls)
  <1>1. Resumes(w) \subseteq Range(b.calls)
    BY InsideIs
  <1>2. resume(s_non_thread_safe_queue) \in Range(b.calls)
    BY <1>1 DEF Resumes
  <1>3. /\ Suits(b.queue, Call(b), Range(Later(b)), R)
        /\ Range(b.calls) = {Call(b)} \cup Range(Later(b))
    BY QueueInvIs
  <1>4. Call(b).call \in {"reads", "filtered", "put"}
    BY DEF HoldsQueue, Ends
  <1>5. Dry(Range(Later(b)))
    BY <1>3, <1>4 DEF Suits, SuitsCall, MayWork
  <1>6. \A c \in Range(b.calls) : c.call \notin {"sync", "wait"}
    BY <1>3, <1>4, <1>5 DEF Dry
  <1>7. \A v : sync(v).call = "sync" /\ wait(Lock(v)).call = "wait"
    BY DEF sync, wait
  <1> QED
    BY <1>2, <1>6, <1>7 DEF Holder

\* The type of a module is that of its instances.
LEMMA SameType ==
  ASSUME NEW w, NEW v, w[2] = v[2]
  PROVE  /\ ThreadType(w) = ThreadType(v) /\ (IsUnsafe(w) <=> IsUnsafe(v))
         /\ runQueue(w) # runQueue(v) => w # v /\ ThreadType(w) = "kThreadSafeBetweenInstances"
  <1>1. ThreadType(w) = ThreadType(v)
    BY DEF ThreadType
  <1>2. runQueue(w) # runQueue(v) => ThreadType(w) = "kThreadSafeBetweenInstances"
    BY <1>1 DEF runQueue
  <1> QED
    BY <1>1, <1>2 DEF IsUnsafe

\* Two blocks, or two copies of one, are not inside the same module but of two
\* instances of one that allows it.
LEMMA ApartByModule ==
  ASSUME NEW d, IsGcd(d), NEW R, QueueInv(d, R), NEW b \in Runs(d), NEW c \in Runs(d),
         b # c \/ Copies(d, b) > 1, NEW w \in Inside(b), NEW v \in Inside(c), w[2] = v[2]
  PROVE  w # v /\ ThreadType(w) = "kThreadSafeBetweenInstances"
  <1>1. Copies(d, b) > 0 /\ Copies(d, c) > 0 /\ Copies(d, b) \in Nat
    BY RunsPositive
  <1>2. CASE IsUnsafe(w)
    <2>x. PICK x : x = Own(w[2])
      OBVIOUS
    <2>1. resume(x) \in Range(b.calls)
      BY <1>2, <2>x, InsideIs DEF Resumes
    <2>2. resume(x) \in Range(c.calls)
      <3>1. IsUnsafe(v)
        BY <1>2, SameType
      <3> QED
        BY <3>1, <2>x, InsideIs DEF Resumes
    <2>3. Owes(Inner(resume(x)), x)
      <3>1. resume(x).call = "resume" /\ resume(x).queue = x
        BY DEF resume
      <3> QED
        BY <3>1 DEF Inner, Owes
    <2>4. BothOwe(b, c, x)
      BY <2>1, <2>2, <2>3 DEF BothOwe
    <2>5. Count(d, x) <= 1
      <3>1. Susp(d, x) \in {0, 1} /\ Count(d, x) <= Susp(d, x) /\ Count(d, x) \in Nat
        BY <2>x, CountIsNat DEF QueueInv, Sums, OwnQueues
      <3> QED
        BY <3>1
    <2>6. b = c /\ Copies(d, b) = 1
      BY <2>4, <2>5, <1>1, TwoOwe
    <2> QED
      BY <2>6
  <1>3. CASE ~IsUnsafe(w)
    <2>1. b.queue = runQueue(w) /\ c.queue = runQueue(v)
      <3>1. ~IsUnsafe(v)
        BY <1>3, SameType
      <3> QED
        BY <3>1, <1>3, InsideIs
    <2>2. b.queue # Global
      BY <2>1, NotGlobal
    <2>3. b.queue # c.queue
      <3>1. ASSUME c.queue = b.queue
            PROVE  FALSE
        <4>1. c = b /\ Copies(d, b) = 1
          BY <3>1, <2>2, <1>1 DEF QueueInv, Serial
        <4> QED
          BY <4>1
      <3> QED
        BY <3>1
    <2> QED
      BY <2>1, <2>3, SameType
  <1> QED
    BY <1>2, <1>3

\* Nor are both inside modules that are not thread safe, unless one is waiting.
LEMMA ApartByType ==
  ASSUME NEW d, IsGcd(d), NEW R, QueueInv(d, R), NEW b \in Runs(d), NEW c \in Runs(d),
         b # c \/ Copies(d, b) > 1, NEW w \in Inside(b), NEW v \in Inside(c),
         IsUnsafe(w), IsUnsafe(v)
  PROVE  ~(HoldsQueue(b) /\ HoldsQueue(c))
  <1>1. ASSUME HoldsQueue(b), HoldsQueue(c)
        PROVE  FALSE
    <2>1. Copies(d, b) > 0 /\ Copies(d, c) > 0
      BY RunsPositive
    <2>2. Holder(d, b) /\ resume(s_non_thread_safe_queue) \in Range(b.calls)
      BY <1>1, InsideHolds
    <2>3. Holder(d, c)
      BY <1>1, InsideHolds
    <2>4. b = c
      BY <2>1, <2>2, <2>3 DEF QueueInv, Sums, UnsafeQueue
    <2>5. Shapes(d, R) /\ OwnQueues(d)
      BY DEF QueueInv, Sums
    <2>6. Copies(d, b) = 1
      BY <2>1, <2>2, <2>5, GiverAlone
    <2> QED
      BY <2>4, <2>6
  <1> QED
    BY <1>1

\* Then modules work one at a time.
LEMMA OneInOrder == EventInv /\ QueueInv(gcd, m_wasRun) => OneAtATime
  <1>1. ASSUME EventInv, QueueInv(gcd, m_wasRun)
        PROVE  OneAtATime
    <2>d. PICK d : d = gcd
      OBVIOUS
    <2>r. PICK R : R = m_wasRun
      OBVIOUS
    <2>1. IsGcd(d) /\ QueueInv(d, R) /\ Runs(d) = Running
      BY <1>1, <2>d, <2>r DEF EventInv, Orderly, InOrder, Runs, Running
    <2>2. ASSUME NEW b \in Running, NEW c \in Running, b # c \/ CopiesIn(b, gcd.running) > 1,
                 NEW w \in Inside(b), NEW v \in Inside(c)
          PROVE  /\ w[2] = v[2] => w # v /\ ThreadType(w) = "kThreadSafeBetweenInstances"
                 /\ {ThreadType(w), ThreadType(v)} = {"kThreadUnsafe"} =>
                       ~(HoldsQueue(b) /\ HoldsQueue(c))
      <3>1. b \in Runs(d) /\ c \in Runs(d) /\ (b # c \/ Copies(d, b) > 1)
        BY <2>1, <2>2, <2>d DEF Copies
      <3>2. w[2] = v[2] => w # v /\ ThreadType(w) = "kThreadSafeBetweenInstances"
        BY <3>1, <2>1, ApartByModule
      <3>3. ASSUME {ThreadType(w), ThreadType(v)} = {"kThreadUnsafe"}
            PROVE  ~(HoldsQueue(b) /\ HoldsQueue(c))
        <4>1. IsUnsafe(w) /\ IsUnsafe(v)
          <5>1. ThreadType(w) \in {"kThreadUnsafe"} /\ ThreadType(v) \in {"kThreadUnsafe"}
            BY <3>3
          <5> QED
            BY <5>1 DEF IsUnsafe
        <4> QED
          BY <4>1, <3>1, <2>1, ApartByType
      <3> QED
        BY <3>2, <3>3
    <2> QED
      BY <2>2 DEF OneAtATime
  <1> QED
    BY <1>1

\* No module is in two threads at once unless its type allows that, and of those
\* that are not thread safe one at most is not waiting: for any configuration
\* and number of streams.
THEOREM ModulesOneAtATime == Spec => []OneAtATime
  <1> QED
    BY OneInOrder, QueuesInOrder, PTL

-----------------------------------------------------------------------------
(* What is what. *)

\* What has run, been asked for, kept or put are wrappers; all that a producer
\* puts can be looked up.
WrapperInv ==
    /\ m_wasRun \cup m_requestedPrefetch \cup m_keep \cup m_wasCached \subseteq Wrappers
    /\ DOMAIN datum \subseteq Wrappers
    /\ \A l \in DOMAIN module : module[l].base = "producer" => Entries(module[l]) \subseteq m_lookupMap

\* Who works is a wrapper.
LEMMA WorksIsWrapper ==
  ASSUME NEW w, Works(w)
  PROVE  w \in Wrappers
  <1>1. CASE IsProducer(w)
    BY <1>1 DEF IsProducer, Wrappers
  <1>2. CASE IsFilter(w)
    BY <1>2 DEF IsFilter, Wrappers
  <1> QED
    BY <1>1, <1>2 DEF Works

\* No module or datum is forgotten.
LEMMA WrappersStay ==
  ASSUME pConfig' = pConfig, m_lookupMap \subseteq m_lookupMap', DOMAIN module \subseteq DOMAIN module'
  PROVE  Wrappers \subseteq Wrappers'
  <1>1. Streams' = Streams
    BY DEF Streams, NStreams
  <1> QED
    BY <1>1 DEF Wrappers

\* What a producer puts are data of its own event.
LEMMA PutsOwn ==
  ASSUME Modules, WrapperInv, NEW n, IsProducer(n)
  PROVE  {n[1]} \X Entries(module[n[2][1]]) \subseteq Wrappers
  <1>1. n[1] \in Streams /\ n[2] \in m_lookupMap
    BY PairIs DEF IsProducer
  <1>2. n[2][1] \in DOMAIN module /\ module[n[2][1]].base = "producer"
    BY <1>1 DEF Modules
  <1>3. Entries(module[n[2][1]]) \subseteq m_lookupMap
    BY <1>2 DEF WrapperInv
  <1> QED
    BY <1>1, <1>3 DEF Wrappers

\* Before the first event modules are made.
LEMMA WrappersMade ==
  ASSUME EventInv, WrapperInv, addFilter \/ addProducer \/ addPath
  PROVE  WrapperInv'
  <1>1. /\ UNCHANGED wrappers /\ UNCHANGED datum /\ pConfig' = pConfig
    BY DEF addFilter, addProducer, addPath, unchangedBySetup
  <1>2. ASSUME DOMAIN module \subseteq DOMAIN module', m_lookupMap \subseteq m_lookupMap',
               \A l \in DOMAIN module' : \/ l \in DOMAIN module /\ module'[l] = module[l]
                                         \/ module'[l].base # "producer"
                                         \/ Entries(module'[l]) \subseteq m_lookupMap'
        PROVE  WrapperInv'
    <2>1. Wrappers \subseteq Wrappers'
      BY <1>1, <1>2, WrappersStay
    <2>2. \A l \in DOMAIN module' : module'[l].base = "producer" => Entries(module'[l]) \subseteq m_lookupMap'
      BY <1>2 DEF WrapperInv
    <2>3. \A m : Entries(m)' = Entries(m)
      BY DEF Entries
    <2>4. \A l \in DOMAIN module' : module'[l].base = "producer" => Entries(module[l])' \subseteq m_lookupMap'
      BY <2>2 DEF Entries
    <2>5. /\ (m_wasRun \cup m_requestedPrefetch \cup m_keep \cup m_wasCached)' \subseteq Wrappers'
          /\ (DOMAIN datum)' \subseteq Wrappers'
      BY <2>1, <1>1 DEF WrapperInv, wrappers
    <2> QED
      BY <2>4, <2>5 DEF WrapperInv
  <1>3. ASSUME UNCHANGED <<module, m_lookupMap>>
        PROVE  WrapperInv'
    BY <1>2, <1>3
  <1>4. ASSUME NEW m, module' = Join(module, [l \in {m.label} |-> m])
        PROVE  /\ DOMAIN module \subseteq DOMAIN module'
               /\ \A l \in DOMAIN module' : \/ l \in DOMAIN module /\ module'[l] = module[l]
                                            \/ module'[l] = m
    BY <1>4 DEF Join
  <1>5. CASE addFilter
    <2>1. CASE UNCHANGED module
      BY <2>1, <1>3, <1>5 DEF addFilter
    <2>2. CASE module' # module
      <3>f. PICK f : f = CreateFilter(Head(rest))
        OBVIOUS
      <3>1. /\ phase = "filters" /\ rest # <<>> /\ f # NoModule /\ m_lookupMap' = m_lookupMap
            /\ module' = Join(module, [l \in {f.label} |-> f])
        BY <2>2, <1>5, <3>f DEF addFilter
      <3>2. f.base = "filter"
        <4>c. PICK c : c = Head(rest)
          OBVIOUS
        <4>1. IsSeq(Head(rest).toGet)
          BY <3>1, ReadIs DEF EventInv, Lists
        <4>2. f = CreateFilter(c) /\ IsSeq(c.toGet) /\ CreateFilter(c) # NoModule
          BY <4>1, <3>1, <3>f, <4>c
        <4>3. IsOf(f, c, "filter")
          BY <4>2, CreatedFilterIs
        <4> QED
          BY <4>3 DEF IsOf
      <3>3. /\ DOMAIN module \subseteq DOMAIN module'
            /\ \A l \in DOMAIN module' : \/ l \in DOMAIN module /\ module'[l] = module[l]
                                         \/ module'[l] = f
        BY <3>1, <1>4
      <3> QED
        BY <3>1, <3>2, <3>3, <1>2
    <2> QED
      BY <2>1, <2>2
  <1>6. CASE addProducer
    <2>1. CASE UNCHANGED <<module, m_lookupMap>>
      BY <2>1, <1>3
    <2>2. CASE ~UNCHANGED <<module, m_lookupMap>>
      <3>n. PICK n : n = CreateProducer(Head(rest))
        OBVIOUS
      <3>1. /\ m_lookupMap' = m_lookupMap \cup Entries(n)
            /\ module' = Join(module, [l \in {n.label} |-> n])
        BY <2>2, <1>6, <3>n DEF addProducer
      <3>2. /\ DOMAIN module \subseteq DOMAIN module'
            /\ \A l \in DOMAIN module' : \/ l \in DOMAIN module /\ module'[l] = module[l]
                                         \/ module'[l] = n
        BY <3>1, <1>4
      <3> QED
        BY <3>1, <3>2, <1>2
    <2> QED
      BY <2>1, <2>2
  <1>7. CASE addPath
    BY <1>7, <1>3 DEF addPath
  <1> QED
    BY <1>5, <1>6, <1>7

\* What has run, and what has been put, fits.
LEMMA WrappersKept ==
  ASSUME EventInv, WrapperInv, NEW b \in Running, BlockStep(b)
  PROVE  WrapperInv'
  <1>1. Modules /\ Fits(Call(b), Range(Later(b)))
    <2>d. PICK d : d = gcd
      OBVIOUS
    <2> QED
      BY <2>d, RunsInOrder
  <1>2. UNCHANGED setup
    BY LibdispatchSteps, EventLoopSteps, PathSteps, RequestSteps, QueueSteps, WorkSteps
    DEF BlockStep, Kept, Exits
  <1>v. PICK v : v = Call(b).wrapper
    OBVIOUS
  <1>W. PICK W : W = Wrappers
    OBVIOUS
  <1>3. W = Wrappers'
    BY <1>2, <1>W DEF Wrappers, Streams, NStreams, setup
  <1>4. \A l \in DOMAIN module' : module'[l].base = "producer" => Entries(module[l])' \subseteq m_lookupMap'
    BY <1>2 DEF WrapperInv, Entries, setup
  <1>5. m_wasRun \cup m_requestedPrefetch \cup m_keep \cup m_wasCached \subseteq W /\ DOMAIN datum \subseteq W
    BY <1>W DEF WrapperInv
  <1>6. CASE EndFilter(b)
    <2>1. v \in W
      <3>1. Works(v)
        BY <1>6, <1>1, <1>v DEF EndFilter, Does, Fits, Works
      <3> QED
        BY <3>1, <1>W, WorksIsWrapper
    <2>2. /\ m_wasRun' = m_wasRun \cup {v} /\ m_keep' \subseteq m_keep \cup {v}
          /\ m_requestedPrefetch' = m_requestedPrefetch /\ m_wasCached' = m_wasCached /\ datum' = datum
      BY <1>6, <1>v DEF EndFilter
    <2> QED
      BY <2>1, <2>2, <1>3, <1>4, <1>5 DEF WrapperInv
  <1>7. CASE EndProduce(b)
    <2>1. v \in W
      <3>1. Works(v)
        BY <1>7, <1>1, <1>v DEF EndProduce, Does, Fits, Works
      <3> QED
        BY <3>1, <1>W, WorksIsWrapper
    <2>2. /\ m_wasRun' = m_wasRun \cup {v} /\ m_keep' = m_keep
          /\ m_requestedPrefetch' = m_requestedPrefetch /\ m_wasCached' = m_wasCached /\ datum' = datum
      BY <1>7, <1>v DEF EndProduce
    <2> QED
      BY <2>1, <2>2, <1>3, <1>4, <1>5 DEF WrapperInv
  <1>8. CASE PrefetchAsync(b)
    <2>1. v \in W
      <3>1. Call(b).call \in JobCalls
        BY <1>8 DEF PrefetchAsync, Does, JobCalls
      <3>2. Works(v)
        BY <3>1, <1>1, <1>v, JobIs DEF Fits
      <3> QED
        BY <3>2, <1>W, WorksIsWrapper
    <2>2. /\ m_requestedPrefetch' \subseteq m_requestedPrefetch \cup {v} /\ m_keep' = m_keep
          /\ m_wasRun' = m_wasRun /\ m_wasCached' = m_wasCached /\ datum' = datum
      BY <1>8, <1>v DEF PrefetchAsync
    <2> QED
      BY <2>1, <2>2, <1>3, <1>4, <1>5 DEF WrapperInv
  <1>9. CASE Put(b)
    <2>o. PICK own : own = {v[1]} \X Entries(module[v[2][1]])
      OBVIOUS
    <2>1. own \subseteq W
      <3>1. IsProducer(v)
        BY <1>9, <1>1, <1>v DEF Put, Does, Fits
      <3> QED
        BY <3>1, <2>o, <1>1, <1>W, PutsOwn
    <2>2. /\ m_wasCached' = m_wasCached \cup own /\ m_keep' = m_keep
          /\ m_requestedPrefetch' = m_requestedPrefetch /\ m_wasRun' = m_wasRun
          /\ datum' = Join(datum, [x \in own |-> taken[v[1]]])
      BY <1>9, <1>v, <2>o DEF Put
    <2>3. DOMAIN datum' = DOMAIN datum \cup own
      BY <2>2 DEF Join
    <2> QED
      BY <2>1, <2>2, <2>3, <1>3, <1>4, <1>5 DEF WrapperInv
  <1>10. ASSUME m_wasRun' \subseteq m_wasRun, m_requestedPrefetch' \subseteq m_requestedPrefetch,
                m_keep' \subseteq m_keep, m_wasCached' \subseteq m_wasCached, datum' = datum
         PROVE  WrapperInv'
    BY <1>10, <1>3, <1>4, <1>5 DEF WrapperInv
  <1>11. CASE ResetEvent(b) \/ SetEventInfo(b)
    BY <1>10, <1>11 DEF ResetEvent, SetEventInfo
  <1>12. CASE \/ Leave(b) \/ Submit(b) \/ Resume(b) \/ Wait(b) \/ StartPaths(b) \/ ScheduleDone(b)
              \/ RunPath(b) \/ doNextIfSuccess(b)
              \/ GetAsync(b) \/ GetMissing(b) \/ AwaitProducer(b) \/ NotifyPrefetched(b)
              \/ SuspendRunQueue(b) \/ SuspendThreadUnsafeQueue(b) \/ doProduceAsyncImpl(b)
              \/ Sync(b) \/ SuspendAgain(b)
              \/ ReadNext(b) \/ GetAndWait(b) \/ BeginFilter(b) \/ BeginProduce(b)
    <2>1. UNCHANGED wrappers /\ UNCHANGED datum
      BY <1>12 DEF Leave, Submit, Resume, Wait, StartPaths, ScheduleDone, RunPath, doNextIfSuccess,
                   GetAsync, GetMissing, AwaitProducer, NotifyPrefetched, SuspendRunQueue,
                   SuspendThreadUnsafeQueue, doProduceAsyncImpl, Sync, SuspendAgain, ReadNext, GetAndWait,
                   BeginFilter, BeginProduce, unchangedByGcd
    <2> QED
      BY <2>1, <1>10 DEF wrappers
  <1> QED
    BY <1>6, <1>7, <1>8, <1>9, <1>11, <1>12 DEF BlockStep

\* In each step.
LEMMA WrapperStep ==
  ASSUME EventInv, WrapperInv, [Next]_vars
  PROVE  WrapperInv'
  <1>1. CASE addFilter \/ addProducer \/ addPath
    BY <1>1, WrappersMade
  <1>2. CASE \E b \in Running : BlockStep(b)
    BY <1>2, WrappersKept
  <1>3. CASE Start \/ Clone \/ StartFirst \/ Return \/ UNCHANGED vars
    <2>1. /\ UNCHANGED wrappers /\ UNCHANGED datum /\ pConfig' = pConfig
          /\ UNCHANGED <<module, m_lookupMap>>
      BY <1>3 DEF Start, Clone, StartFirst, Return, unchangedByGcd, setup, vars
    <2>2. Wrappers' = Wrappers
      BY <2>1 DEF Wrappers, Streams, NStreams
    <2> QED
      BY <2>1, <2>2 DEF WrapperInv, wrappers, Entries
  <1> QED
    BY <1>1, <1>2, <1>3 DEF Next

\* What is in order has its type.
LEMMA TypeInOrder == EventInv /\ QueueInv(gcd, m_wasRun) /\ WrapperInv => TypeOK
  <1>1. ASSUME EventInv, QueueInv(gcd, m_wasRun), WrapperInv
        PROVE  TypeOK
    <2>d. PICK d : d = gcd
      OBVIOUS
    <2>r. PICK R : R = m_wasRun
      OBVIOUS
    <2>1. IsGcd(d) /\ QueueInv(d, R) /\ Runs(d) = Running
      BY <1>1, <2>d, <2>r DEF EventInv, Orderly, InOrder, Runs, Running
    <2>2. /\ \A g \in DOMAIN d.groups : d.groups[g] \in Nat \ {0}
          /\ \A b \in DOMAIN d.running : d.running[b] \in Nat \ {0}
      BY <2>1 DEF IsGcd, IsBag
    <2>3. \A q : QueueOf(d, q).suspended \in Nat
      BY <2>1 DEF QueueInv, Sums, OwnQueues, UnsafeQueue, OtherQueues, Susp
    <2>4. \A q \in DOMAIN d.queues : d.queues[q].suspended \in Nat
      BY <2>3 DEF QueueOf
    <2>5. ASSUME NEW b \in Runs(d)
          PROVE  /\ b.calls # <<>>
                 /\ b.queue = Global \/ (b.queue \in DOMAIN d.queues /\ d.queues[b.queue].busy)
      <3>1. b.calls # <<>>
        BY <2>1 DEF IsGcd, IsBlock
      <3>2. Copies(d, b) > 0
        BY <2>1, RunsPositive
      <3>3. b.queue # Global => Busyness(d, b.queue)
        BY <3>2, <2>1 DEF QueueInv, Serial
      <3>4. Busyness(d, b.queue) => b.queue \in DOMAIN d.queues /\ d.queues[b.queue].busy
        BY DEF Busyness, QueueOf
      <3> QED
        BY <3>1, <3>3, <3>4
    <2>6. \A b \in Running : b.calls # <<>> /\ (b.queue = Global \/ b.queue \in SerialQueues)
      BY <2>1, <2>5, <2>d DEF SerialQueues
    <2> QED
      BY <1>1, <2>2, <2>4, <2>6, <2>d DEF TypeOK, EventInv, Numbers, WrapperInv, Running
  <1> QED
    BY <1>1

\* All has its type: groups are not left more often than entered, and queues not
\* resumed more often than suspended, for any configuration and number of streams.
THEOREM DispatchTypeOK == Spec => []TypeOK
  <1>1. Init => WrapperInv
    BY DEF Init, WrapperInv
  <1>2. EventInv /\ WrapperInv /\ [Next]_vars => WrapperInv'
    BY WrapperStep
  <1>3. Spec => [](EventInv /\ QueueInv(gcd, m_wasRun))
    BY QueuesInOrder
  <1>4. Spec => []WrapperInv
    BY <1>1, <1>2, InOrderAlways, PTL DEF Spec
  <1> QED
    BY <1>3, <1>4, TypeInOrder, PTL

=============================================================================
