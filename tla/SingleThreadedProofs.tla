------------------------ MODULE SingleThreadedProofs ------------------------
(***************************************************************************)
(* Theorems about the single threaded framework for any configuration, one *)
(* whose producers get from each other in a circle included.  IndInv is    *)
(* inductive: the stack of calls is described by what each call is to the  *)
(* one that made it, and only the innermost says what has been done.  The  *)
(* second half proves that the events implement EventStream.               *)
(***************************************************************************)
EXTENDS SingleThreaded, SequenceTheorems, TLAPS

-----------------------------------------------------------------------------
(* The inductive invariant, in parts. *)

\* The types of the variables that need no argument, and the events counted so
\* far at each phase.
Types ==
    /\ phase \in {"filters", "producers", "paths", "source", "event", "done", "exit"}
    /\ m_wasRun \in [Modules -> BOOLEAN] /\ m_keep \in [Filters -> BOOLEAN]
    /\ \A g \in DOMAIN m_value : m_value[g] \in 0 .. iterations
    /\ runs \in [Modules -> 0 .. 1]
    /\ unset \subseteq Producers
    /\ m_seenEvents \in 0 .. iterations + 1
    /\ phase \in {"filters", "producers", "paths"} => m_seenEvents = 0
    /\ phase = "source" => m_seenEvents <= iterations
    /\ phase = "event"  => m_seenEvents \in 1 .. iterations

\* What the constructor of a module registers.
IsModule(f) ==
    /\ f.base \in {"filter", "producer"} /\ f.keep \in BOOLEAN
    /\ f.m_getters \in Seq(Range(f.m_getters))
    /\ Range(f.reads) \subseteq Range(f.m_getters)
    /\ f.base = "producer" => f.m_products = {""}

FoundFilters == {l \in DOMAIN module : module[l].base = "filter"}

\* The modules and paths that have been made, and what is left to be read.
Made ==
    /\ \A l \in DOMAIN module :
          /\ IsModule(module[l])
          /\ l \in IF module[l].base = "filter" THEN Filters ELSE Producers
    /\ m_paths \in Seq(Seq(FoundFilters))
    /\ phase = "filters"   => /\ rest \in Seq(Range(filters))
                              /\ DOMAIN m_lookupMap = {} /\ m_paths = <<>>
    /\ phase = "producers" => rest \in Seq(Range(producers)) /\ m_paths = <<>>
    /\ phase = "paths"     => rest \in Seq(Seq(STRING))

Maker(key) == m_lookupMap[key].producer

\* The Event has an entry for the datum of each producer.
LookupMade ==
    \A key \in DOMAIN m_lookupMap :
        /\ m_lookupMap[key] \in [producer : Producers, put : 0 .. iterations]
        /\ Maker(key) \in DOMAIN module /\ module[Maker(key)].base = "producer"
        /\ key = <<Maker(key), "">>

\* In the first event the memory of n said from the start that it had run.
SeemedRun(n) == m_seenEvents = 1 /\ n \in unset

\* A producer that has run in this event has put its datum in this event; and
\* before an event none has run.
RunMeansPut ==
    /\ phase = "event" => \A key \in DOMAIN m_lookupMap :
          m_wasRun[Maker(key)] => m_lookupMap[key].put = m_seenEvents \/ SeemedRun(Maker(key))
    /\ phase = "source" /\ m_seenEvents > 0 =>
          \A key \in DOMAIN m_lookupMap : ~m_wasRun[Maker(key)]
    /\ phase \in {"filters", "producers", "paths", "source"} /\ m_seenEvents = 0 =>
          \A n \in Producers : m_wasRun[n] => n \in unset

RunsOnce == phase = "event" => \A m \in Modules : runs[m] = 1 => m_wasRun[m]

\* A Getter of m has been set in this event.
Got(m, key) ==
    /\ key \in DOMAIN m_lookupMap /\ m_wasRun[Maker(key)]
    /\ <<m, key>> \in DOMAIN m_value
    /\ m_value[<<m, key>>] = m_seenEvents \/ SeemedRun(Maker(key))

\* A call by itself: a module that prefetches has not run.
IsCall(c) ==
    /\ c.op \in {"paths", "path", "filter", "prefetch", "set"}
    /\ c.op = "paths"  => c.rest \in Seq(Seq(FoundFilters))
    /\ c.op = "path"   => /\ c = [op |-> "path", rest |-> c.rest]
                          /\ c.rest \in Seq(FoundFilters)
    /\ c.op = "filter" => c.mod \in FoundFilters
    /\ c.op = "prefetch" =>
          /\ c = [op |-> "prefetch", mod |-> c.mod, rest |-> c.rest]
          /\ c.mod \in DOMAIN module /\ ~m_wasRun[c.mod]
          /\ c.rest \in Seq(Range(module[c.mod].m_getters))
    /\ c.op = "set" => c.mod \in DOMAIN module /\ c.key \in DOMAIN m_lookupMap

\* What call d, a prefetch, has asked for, but for one key, has been got.
GotBut(d, k) ==
    \A key \in Range(module[d.mod].m_getters) :
        key \in Range(d.rest) \/ key = k \/ Got(d.mod, key)

\* Call c has been made by call d.
CalledBy(c, d) ==
    \/ c.op = "path" /\ d.op = "paths"
    \/ c.op = "filter" /\ d.op = "path" /\ d.rest # <<>> /\ Head(d.rest) = c.mod
    \/ c.op = "prefetch" /\ d.op = "filter" /\ c.mod = d.mod
    \/ c.op = "prefetch" /\ d.op = "set" /\ c.mod = Maker(d.key)
    \/ /\ c.op = "set" /\ d.op = "prefetch" /\ c.mod = d.mod
       /\ c.key \in Range(module[d.mod].m_getters)
       /\ GotBut(d, c.key)

\* What the innermost call says.
Innermost(c) ==
    /\ c.op = "prefetch" =>
          \A key \in Range(module[c.mod].m_getters) : key \in Range(c.rest) \/ Got(c.mod, key)
    /\ c.op = "set" => m_wasRun[Maker(c.key)]

StackMade ==
    /\ stack \in Seq(Range(stack))
    /\ phase \notin {"event", "exit"} => stack = <<>>
    /\ \A i \in 1 .. Len(stack) : IsCall(stack[i])
    /\ \A i \in 1 .. Len(stack) - 1 : CalledBy(stack[i], stack[i + 1])
    /\ Len(stack) >= 1 => Innermost(stack[1]) /\ stack[Len(stack)].op = "paths"

IndInv == Types /\ Made /\ LookupMade /\ RunMeansPut /\ RunsOnce /\ StackMade

-----------------------------------------------------------------------------
(* Facts about the operators. *)

\* A sequence of what it has.
LEMMA OfOwnRange ==
    ASSUME NEW f, NEW n \in Nat, f = [i \in 1 .. n |-> f[i]]
    PROVE  f \in Seq(Range(f))
<1>1. f \in [1 .. n -> Range(f)]
  BY DEF Range
<1> QED
  BY <1>1

\* The Getters for what a configuration lists.
LEMMA Asked ==
    ASSUME NEW toGet, toGet \in Seq(Range(toGet))
    PROVE  /\ Common!Blank(toGet) \in Seq(Range(Common!Blank(toGet)))
           /\ Common!Exact(toGet) \in Seq(Range(Common!Exact(toGet)))
<1>1. DOMAIN toGet = 1 .. Len(toGet) /\ Len(toGet) \in Nat
  OBVIOUS
<1>2. PICK n \in Nat : DOMAIN toGet = 1 .. n
  BY <1>1
<1>3. PICK blank : blank = Common!Blank(toGet)
  OBVIOUS
<1>4. blank = [i \in 1 .. n |-> blank[i]]
  BY <1>2, <1>3 DEF Common!Blank
<1>5. PICK exact : exact = Common!Exact(toGet)
  OBVIOUS
<1>6. exact = [i \in 1 .. n |-> exact[i]]
  BY <1>2, <1>5 DEF Common!Exact
<1>7. blank \in Seq(Range(blank)) /\ exact \in Seq(Range(exact))
  BY <1>4, <1>6, OfOwnRange
<1> QED
  BY <1>3, <1>5, <1>7

\* A filter that was created has the label of its configuration, and is one.
LEMMA CreatedFilter ==
    ASSUME NEW c, c.toGet \in Seq(Range(c.toGet)), CreateFilter(c) # NoModule
    PROVE  /\ IsModule(CreateFilter(c))
           /\ CreateFilter(c).base = "filter" /\ CreateFilter(c).label = c.label
<1> DEFINE f == CreateFilter(c)
           Good(x) == IsModule(x) /\ x.base = "filter" /\ x.label = c.label
<1>1. \/ f = BusyWaitPassFilter(c) \/ f = SleepingPassFilter(c)
      \/ f = EventTimesPassFilterBase(c) \/ f = PassFilter(c) \/ f = ThreadSaferGetterFilter(c)
  BY DEF CreateFilter, EventTimesBusyWaitPassFilter, EventTimesSleepingPassFilter
<1> HIDE DEF f
<1> USE DEF Filter, Common!Filter, Common!Constructed
<1>2. PICK blank : /\ blank = Common!Blank(c.toGet) /\ blank \in Seq(Range(blank))
  BY Asked
<1>3. PICK exact : /\ exact = Common!Exact(c.toGet) /\ exact \in Seq(Range(exact))
  BY Asked
<1>4. Common!BusyWaitIsPositive(10000) \in BOOLEAN
  BY DEF Common!BusyWaitIsPositive
<1>5. <<>> \in Seq(Range(<<>>)) /\ Range(<<>>) = {}
  BY EmptySeq DEF Range
<1> USE DEF IsModule
<1>6. Good(BusyWaitPassFilter(c)) /\ Good(SleepingPassFilter(c))
  BY <1>2 DEF BusyWaitPassFilter, SleepingPassFilter
<1>7. Good(EventTimesPassFilterBase(c))
  BY <1>2 DEF EventTimesPassFilterBase
<1>8. Good(PassFilter(c))
  <2>1. PICK b \in BOOLEAN : b = Common!BusyWaitIsPositive(10000)
    BY <1>4
  <2> QED
    BY <1>5, <2>1 DEF PassFilter
<1>9. Good(ThreadSaferGetterFilter(c))
  BY <1>3, <1>5 DEF ThreadSaferGetterFilter
<1> QED
  BY <1>1, <1>6, <1>7, <1>8, <1>9 DEF f

\* A producer that was created is one too, and makes one datum.
LEMMA CreatedProducer ==
    ASSUME NEW c, c.toGet \in Seq(Range(c.toGet)), CreateProducer(c) # NoModule
    PROVE  /\ IsModule(CreateProducer(c))
           /\ CreateProducer(c).base = "producer" /\ CreateProducer(c).label = c.label
<1> DEFINE n == CreateProducer(c)
           Good(x) == IsModule(x) /\ x.base = "producer" /\ x.label = c.label
<1>1. n = BusyWaitProducer(c) \/ n = SleepingProducer(c) \/ n = EventTimesProducerBase(c)
  BY DEF CreateProducer, EventTimesBusyWaitProducer, EventTimesSleepingProducer
<1> HIDE DEF n
<1> USE DEF Producer, Common!Producer, Common!Constructed
<1>2. PICK blank : /\ blank = Common!Blank(c.toGet) /\ blank \in Seq(Range(blank))
  BY Asked
<1> USE DEF IsModule
<1>3. Good(BusyWaitProducer(c)) /\ Good(SleepingProducer(c))
  BY <1>2 DEF BusyWaitProducer, SleepingProducer
<1>4. Good(EventTimesProducerBase(c))
  BY <1>2 DEF EventTimesProducerBase
<1> QED
  BY <1>1, <1>3, <1>4 DEF n

\* No module is a filter and a producer: their labels are different.
LEMMA Apart == Filters \cap Producers = {}
<1> SUFFICES ASSUME NEW l \in Filters, l \in Producers PROVE FALSE
  OBVIOUS
<1>1. PICK i \in DOMAIN filters : filters[i].label = l
  BY DEF Filters, Labels
<1>2. PICK j \in DOMAIN producers : producers[j].label = l
  BY DEF Producers, Labels
<1>3. filters \in Seq(Range(filters)) /\ producers \in Seq(Range(producers))
  BY SingleThreadedAssumption
<1>4. PICK s : s = filters \o producers
  OBVIOUS
<1>5. /\ Len(filters) \in Nat /\ Len(producers) \in Nat
      /\ i \in 1 .. Len(filters) /\ j \in 1 .. Len(producers)
  BY <1>1, <1>2, <1>3
<1>6. /\ i \in DOMAIN s /\ Len(filters) + j \in DOMAIN s
      /\ s[i] = filters[i] /\ s[Len(filters) + j] = producers[j]
  <2>1. Range(filters) \subseteq Range(filters) \cup Range(producers)
    OBVIOUS
  <2> DEFINE S == Range(filters) \cup Range(producers)
  <2>2. filters \in Seq(S) /\ producers \in Seq(S)
    BY <1>3, SeqMonotonic
  <2> HIDE DEF S
  <2> QED
    BY <1>4, <1>5, <2>2
<1>7. \A a, b \in DOMAIN s : s[a].label = s[b].label => a = b
  BY <1>4, SingleThreadedAssumption
<1> QED
  BY <1>1, <1>2, <1>5, <1>6, <1>7

\* A number that fits stays what it is.
LEMMA Small ==
    ASSUME NEW x \in Nat, NEW size \in Nat, x < size
    PROVE  x % size = x
  BY Z3

\* The source's numbers are small enough to be what they are.
LEMMA Counting ==
    ASSUME m_seenEvents \in 0 .. iterations
    PROVE  /\ HasNextEvent <=> m_seenEvents + 1 <= iterations
           /\ CountEvent <=> m_seenEvents' = m_seenEvents + 1
<1>1. m_seenEvents + 1 \in Nat /\ m_seenEvents + 1 < UIntSize /\ iterations < UIntSize
  BY SingleThreadedAssumption
<1>2. (m_seenEvents + 1) % UIntSize = m_seenEvents + 1 /\ iterations % UIntSize = iterations
  BY Small, <1>1, SingleThreadedAssumption
<1> QED
  BY <1>2, SingleThreadedAssumption DEF HasNextEvent, CountEvent

\* The only product of a producer.
LEMMA OneKey ==
    ASSUME NEW l
    PROVE  {l} \X {""} = {<<l, "">>}
  OBVIOUS

\* Two sequences, one after the other.
LEMMA Joint ==
    ASSUME NEW u, u \in Seq(Range(u)), NEW w, w \in Seq(Range(w))
    PROVE  /\ u \o w \in Seq(Range(u \o w)) /\ Len(u \o w) = Len(u) + Len(w)
           /\ \A i \in 1 .. Len(u) : (u \o w)[i] = u[i]
           /\ \A i \in 1 .. Len(w) : (u \o w)[Len(u) + i] = w[i]
<1> DEFINE S == Range(u) \cup Range(w)
<1>1. u \in Seq(S) /\ w \in Seq(S)
  BY SeqMonotonic
<1> HIDE DEF S
<1>2. u \o w \in Seq(S)
  BY <1>1
<1>3. u \o w \in Seq(Range(u \o w))
  BY <1>2, SeqOfRange
<1> QED
  BY <1>1, <1>3

\* t is s, but with n elements of u for the first k.
Replaces(t, n, u, s, k) ==
    /\ t \in Seq(Range(t)) /\ Len(t) = n + Len(s) - k
    /\ \A i \in 1 .. n : t[i] = u[i]
    /\ \A i \in 1 .. Len(s) - k : t[n + i] = s[k + i]

\* That is what a sequence in front of the rest of s is.
LEMMA Glued ==
    ASSUME NEW u, u \in Seq(Range(u)), NEW w, w \in Seq(Range(w)), NEW t, t = u \o w,
           NEW s, NEW k \in Nat, Len(s) \in Nat, k <= Len(s), Len(w) = Len(s) - k,
           \A i \in 1 .. Len(s) - k : w[i] = s[k + i]
    PROVE  Replaces(t, Len(u), u, s, k)
<1>1. PICK n, l \in Nat : n = Len(u) /\ l = Len(w)
  <2>1. Len(u) \in Nat /\ Len(w) \in Nat
    BY LenProperties
  <2> QED
    BY <2>1, Zenon
<1>2. /\ t \in Seq(Range(t)) /\ Len(t) = Len(u) + Len(w)
      /\ \A i \in 1 .. Len(u) : t[i] = u[i]
      /\ \A i \in 1 .. Len(w) : t[Len(u) + i] = w[i]
  <2>1. u \o w \in Seq(Range(u \o w)) /\ Len(u \o w) = Len(u) + Len(w)
    BY Joint, Zenon
  <2>2. \A i \in 1 .. Len(u) : (u \o w)[i] = u[i]
    BY Joint, Zenon
  <2>3. \A i \in 1 .. Len(w) : (u \o w)[Len(u) + i] = w[i]
    BY Joint
  <2> QED
    BY <2>1, <2>2, <2>3, Zenon
<1>3. Len(t) = n + Len(s) - k /\ l = Len(s) - k
  BY <1>1, <1>2
<1>4. \A i \in 1 .. l : t[n + i] = s[k + i]
  BY <1>1, <1>2, <1>3, Zenon
<1> QED
  BY <1>1, <1>2, <1>3, <1>4, Zenon DEF Replaces

\* All but the first two of a sequence.
LEMMA Third ==
    ASSUME NEW S, NEW s \in Seq(S), NEW l \in Nat, l = Len(s), l >= 2
    PROVE  /\ SubSeq(s, 3, l) \in Seq(S) /\ Len(SubSeq(s, 3, l)) = l - 2
           /\ \A i \in 1 .. l - 2 : SubSeq(s, 3, l)[i] = s[2 + i]
  OBVIOUS

\* All but the first of a sequence, and all but the first two.
LEMMA Rests ==
    ASSUME NEW s, s \in Seq(Range(s)), s # <<>>,
           NEW v, v = Tail(s), NEW w, w = SubSeq(s, 3, Len(s))
    PROVE  /\ v \in Seq(Range(v)) /\ Len(v) = Len(s) - 1
           /\ \A i \in 1 .. Len(s) - 1 : v[i] = s[1 + i]
           /\ Len(s) >= 2 =>
                 /\ w \in Seq(Range(w)) /\ Len(w) = Len(s) - 2
                 /\ \A i \in 1 .. Len(s) - 2 : w[i] = s[2 + i]
<1> DEFINE S == Range(s)
<1>1. s \in Seq(S)
  OBVIOUS
<1> HIDE DEF S
<1>2. v \in Seq(S) /\ Len(v) = Len(s) - 1 /\ \A i \in 1 .. Len(s) - 1 : v[i] = s[1 + i]
  BY <1>1
<1>3. ASSUME Len(s) >= 2
      PROVE  /\ w \in Seq(S) /\ Len(w) = Len(s) - 2
             /\ \A i \in 1 .. Len(s) - 2 : w[i] = s[2 + i]
  <2>1. PICK l \in Nat : l = Len(s)
    BY <1>1
  <2>2. s \in Seq(S) /\ l >= 2 /\ w = SubSeq(s, 3, l)
    BY <1>1, <1>3, <2>1
  <2>3. w \in Seq(S) /\ Len(w) = l - 2 /\ \A i \in 1 .. l - 2 : w[i] = s[2 + i]
    BY <2>1, <2>2, Third
  <2> QED
    BY <2>1, <2>3
<1> QED
  BY <1>2, <1>3, SeqOfRange

\* What is left of a sequence, and its first element.
LEMMA HeadAndTail ==
    ASSUME NEW S, NEW s \in Seq(S), s # <<>>
    PROVE  /\ Head(s) \in S /\ Head(s) \in Range(s) /\ Tail(s) \in Seq(S)
           /\ \A x \in Range(s) : x = Head(s) \/ x \in Range(Tail(s))
<1>1. Head(s) \in S /\ Tail(s) \in Seq(S) /\ Head(s) = s[1] /\ 1 \in DOMAIN s
  OBVIOUS
<1>2. ASSUME NEW i \in DOMAIN s PROVE s[i] = Head(s) \/ s[i] \in Range(Tail(s))
  <2>1. CASE i = 1
    BY <2>1
  <2>2. CASE i # 1
    <3>1. i - 1 \in DOMAIN Tail(s) /\ Tail(s)[i - 1] = s[i]
      BY <2>2
    <3> QED
      BY <3>1 DEF Range
  <2> QED
    BY <2>1, <2>2
<1> QED
  BY <1>1, <1>2 DEF Range

-----------------------------------------------------------------------------
(* How the stack changes. *)

\* The modules and the entries of the Event stay, and so does what has been got.
Keeps ==
    /\ module' = module /\ DOMAIN m_lookupMap' = DOMAIN m_lookupMap
    /\ \A key \in DOMAIN m_lookupMap : Maker(key)' = Maker(key)
    /\ \A m, key : Got(m, key) => Got(m, key)'

\* A call stays what it is, unless it is one of a module that has run now.
LEMMA CallKept ==
    ASSUME Keeps, NEW c, IsCall(c), c.op = "prefetch" => ~m_wasRun'[c.mod]
    PROVE  IsCall(c)'
<1>1. FoundFilters' = FoundFilters
  BY DEF Keeps, FoundFilters
<1> QED
  BY <1>1 DEF IsCall, Keeps

\* And so does what it is to another.
LEMMA CalledKept ==
    ASSUME Keeps, NEW c, NEW d, IsCall(d), CalledBy(c, d)
    PROVE  CalledBy(c, d)'
<1>1. ASSUME NEW k, GotBut(d, k) PROVE GotBut(d, k)'
  BY <1>1 DEF GotBut, Keeps
<1>2. d.op = "set" => Maker(d.key)' = Maker(d.key)
  BY DEF Keeps, IsCall
<1> QED
  BY <1>1, <1>2 DEF CalledBy, Keeps

\* The k innermost calls are replaced by those in u.
LEMMA NextStack ==
    ASSUME StackMade, phase' = "event", Keeps,
           NEW s, s = stack, NEW k \in Nat, k <= Len(s),
           NEW n \in Nat, NEW u, Replaces(stack', n, u, s, k),
           \A i \in k + 1 .. Len(s) : s[i].op = "prefetch" => ~m_wasRun'[s[i].mod],
           \A i \in 1 .. n : IsCall(u[i])',
           \A i \in 1 .. n - 1 : CalledBy(u[i], u[i + 1])',
           n >= 1 /\ k < Len(s) => CalledBy(u[n], s[k + 1])',
           n >= 1 /\ k = Len(s) => u[n].op = "paths",
           n >= 1 => Innermost(u[1])',
           n = 0 /\ k < Len(s) => Innermost(s[k + 1])'
    PROVE  StackMade'
<1>1. Len(s) \in Nat
  BY DEF StackMade
<1>2. PICK l \in Nat : l = Len(s)
  BY <1>1
<1>3. PICK v : v = stack'
  OBVIOUS
<1>3a. /\ v \in Seq(Range(v)) /\ Len(v) = n + l - k
       /\ \A i \in 1 .. n : v[i] = u[i]
       /\ \A i \in 1 .. l - k : v[n + i] = s[k + i]
  BY <1>2, <1>3 DEF Replaces
<1>4. /\ Len(v) = n + l - k
      /\ \A i \in 1 .. n : v[i] = u[i]
      /\ \A i \in n + 1 .. n + l - k : i - n + k \in k + 1 .. l /\ v[i] = s[i - n + k]
  <2>1. ASSUME NEW i \in n + 1 .. n + l - k
        PROVE  i - n + k \in k + 1 .. l /\ v[i] = s[i - n + k]
    <3>1. PICK j \in 1 .. l - k : i = n + j
      <4>1. i - n \in 1 .. l - k /\ i = n + (i - n)
        BY <2>1
      <4> QED
        BY <4>1
    <3>2. v[i] = s[k + j] /\ k + j = i - n + k
      BY <1>3a, <3>1
    <3> QED
      BY <3>1, <3>2
  <2> QED
    BY <1>3a, <2>1
<1>5. \A i \in 1 .. n + l - k : i \in 1 .. n \/ i \in n + 1 .. n + l - k
  BY <1>2
<1>6. \A i \in 1 .. l : IsCall(s[i])
  BY <1>2 DEF StackMade
<1>7. \A i \in 1 .. l - 1 : CalledBy(s[i], s[i + 1])
  BY <1>2 DEF StackMade
<1>8. \A i \in k + 1 .. l : IsCall(s[i])'
  <2> SUFFICES ASSUME NEW i \in k + 1 .. l PROVE IsCall(s[i])'
    OBVIOUS
  <2>1. PICK c : c = s[i]
    OBVIOUS
  <2>2. IsCall(c) /\ (c.op = "prefetch" => ~m_wasRun'[c.mod])
    BY <1>2, <1>6, <2>1
  <2> QED
    BY <2>1, <2>2, CallKept
<1>9. \A i \in k + 1 .. l - 1 : CalledBy(s[i], s[i + 1])'
  <2> SUFFICES ASSUME NEW i \in k + 1 .. l - 1 PROVE CalledBy(s[i], s[i + 1])'
    OBVIOUS
  <2>1. PICK c, d : c = s[i] /\ d = s[i + 1]
    OBVIOUS
  <2>2. IsCall(d) /\ CalledBy(c, d)
    BY <1>2, <1>6, <1>7, <2>1
  <2> QED
    BY <2>1, <2>2, CalledKept
<1>10. \A i \in 1 .. n + l - k : IsCall(v[i])'
  BY <1>4, <1>5, <1>8
<1>11. \A i \in 1 .. n + l - k - 1 : CalledBy(v[i], v[i + 1])'
  <2> SUFFICES ASSUME NEW i \in 1 .. n + l - k - 1 PROVE CalledBy(v[i], v[i + 1])'
    OBVIOUS
  <2>1. CASE i + 1 <= n
    <3>1. i \in 1 .. n - 1 /\ v[i] = u[i] /\ v[i + 1] = u[i + 1]
      BY <1>4, <2>1
    <3> QED
      BY <3>1
  <2>2. CASE i = n
    <3>1. v[i] = u[n] /\ v[i + 1] = s[k + 1] /\ n >= 1 /\ k < Len(s)
      <4>1. n + 1 \in n + 1 .. n + l - k /\ (n + 1) - n + k = k + 1
        BY <1>2, <2>2
      <4> QED
        BY <1>2, <1>4, <2>2, <4>1
    <3> QED
      BY <3>1
  <2>3. CASE i > n
    <3>1. /\ i - n + k \in k + 1 .. l - 1 /\ (i + 1) - n + k = (i - n + k) + 1
          /\ v[i] = s[i - n + k] /\ v[i + 1] = s[(i + 1) - n + k]
      BY <1>2, <1>4, <2>3
    <3>2. PICK j \in k + 1 .. l - 1 : j = i - n + k
      BY <3>1
    <3>3. v[i] = s[j] /\ v[i + 1] = s[j + 1]
      BY <3>1, <3>2
    <3> QED
      BY <1>9, <3>3
  <2> QED
    BY <1>2, <2>1, <2>2, <2>3
<1>12. Len(v) >= 1 => Innermost(v[1])' /\ v[Len(v)].op = "paths"
  <2> SUFFICES ASSUME n + l - k >= 1 PROVE Innermost(v[1])' /\ v[n + l - k].op = "paths"
    BY <1>4
  <2>1. l >= 1 => s[l].op = "paths"
    BY <1>2 DEF StackMade
  <2>2. Innermost(v[1])'
    <3>1. CASE n >= 1
      BY <1>4, <3>1
    <3>2. CASE n = 0
      <4>1. 1 \in n + 1 .. n + l - k /\ 1 - n + k = k + 1 /\ k < Len(s)
        BY <1>2, <3>2
      <4>2. v[1] = s[k + 1]
        BY <1>4, <4>1
      <4> QED
        BY <3>2, <4>1, <4>2
    <3> QED
      BY <3>1, <3>2
  <2>3. v[n + l - k].op = "paths"
    <3>1. CASE k = l
      BY <1>2, <1>4, <3>1
    <3>2. CASE k < l
      <4>1. n + l - k \in n + 1 .. n + l - k /\ (n + l - k) - n + k = l
        BY <1>2, <3>2
      <4> QED
        BY <1>4, <2>1, <3>2, <4>1
    <3> QED
      BY <1>2, <3>1, <3>2
  <2> QED
    BY <2>2, <2>3
<1>13. \A i \in 1 .. Len(v) : IsCall(v[i])'
  BY <1>4, <1>10
<1>14. \A i \in 1 .. Len(v) - 1 : CalledBy(v[i], v[i + 1])'
  <2>1. 1 .. Len(v) - 1 = 1 .. n + l - k - 1
    BY <1>4
  <2> QED
    BY <1>11, <2>1
<1> QED
  BY <1>3, <1>3a, <1>12, <1>13, <1>14 DEF StackMade

-----------------------------------------------------------------------------
(* IndInv holds initially, and through what main does before the events. *)

\* The initial states satisfy the inductive invariant.
LEMMA InitInv == Init => IndInv
<1> SUFFICES ASSUME Init PROVE IndInv
  OBVIOUS
<1> USE DEF Init
<1>1. Types
  BY SingleThreadedAssumption DEF Types
<1>2. Made
  <2>1. <<>> \in Seq(Seq(FoundFilters)) /\ rest \in Seq(Range(filters))
    BY SingleThreadedAssumption, EmptySeq
  <2> QED
    BY <2>1 DEF Made
<1>3. LookupMade /\ RunMeansPut /\ RunsOnce
  BY DEF LookupMade, RunMeansPut, RunsOnce
<1>4. StackMade
  BY EmptySeq DEF StackMade
<1> QED
  BY <1>1, <1>2, <1>3, <1>4 DEF IndInv

\* Outside of events there is no call.
LEMMA NoCalls ==
    ASSUME StackMade, phase \notin {"event", "exit"}, stack' = stack
    PROVE  StackMade'
  BY EmptySeq DEF StackMade

\* A module more, or one in the place of another with the same label: what the
\* others are stays.
LEMMA ModuleMade ==
    ASSUME Made, NEW f, IsModule(f), NEW l,
           l \in IF f.base = "filter" THEN Filters ELSE Producers,
           module' = Join(module, [x \in {l} |-> f])
    PROVE  /\ DOMAIN module' = DOMAIN module \cup {l} /\ module'[l] = f
           /\ \A x \in DOMAIN module \ {l} : module'[x] = module[x]
           /\ \A x \in DOMAIN module' :
                 /\ IsModule(module'[x])
                 /\ x \in IF module'[x].base = "filter" THEN Filters ELSE Producers
<1>1. PICK a, b : a = module /\ b = module'
  OBVIOUS
<1>1a. PICK g : g = [x \in {l} |-> f]
  OBVIOUS
<1>2. b = Join(a, g) /\ DOMAIN g = {l} /\ g[l] = f
  BY <1>1, <1>1a
<1>3. /\ DOMAIN module' = DOMAIN module \cup {l} /\ module'[l] = f
      /\ \A x \in DOMAIN module \ {l} : module'[x] = module[x]
  <2>1. /\ DOMAIN b = DOMAIN a \cup {l} /\ b[l] = g[l]
        /\ \A x \in DOMAIN a \ {l} : b[x] = a[x]
    BY <1>2 DEF Join
  <2> QED
    BY <1>1, <1>2, <2>1
<1>4. ASSUME NEW x \in DOMAIN module'
      PROVE  /\ IsModule(module'[x])
             /\ x \in IF module'[x].base = "filter" THEN Filters ELSE Producers
  <2>1. CASE x = l
    BY <1>3, <2>1
  <2>2. CASE x # l
    <3>1. x \in DOMAIN module /\ module'[x] = module[x]
      BY <1>3, <2>2
    <3> QED
      BY <3>1 DEF Made
  <2> QED
    BY <2>1, <2>2
<1> QED
  BY <1>3, <1>4

\* The next filter of the file is made, or the file gives no more.
LEMMA AddFilterStep ==
    ASSUME IndInv, AddFilter
    PROVE  IndInv'
<1> USE DEF IndInv, AddFilter, Becomes, moduleState
<1>1. Types' /\ RunMeansPut' /\ RunsOnce'
  BY DEF Types, RunMeansPut, RunsOnce, Maker, SeemedRun
<1>2. StackMade'
  BY NoCalls
<1>3. LookupMade'
  BY DEF Made, LookupMade
<1>4. Made'
  <2>1. CASE module' = module /\ phase' \in {"producers", "exit"}
    <3>1. rest' \in Seq(Range(producers)) \/ phase' = "exit"
      BY <2>1, SingleThreadedAssumption
    <3>2. FoundFilters' = FoundFilters
      BY <2>1 DEF FoundFilters
    <3> QED
      BY <2>1, <3>1, <3>2 DEF Made
  <2>2. CASE rest # <<>> /\ CreateFilter(Head(rest)) # NoModule
    <3>1. PICK c \in Range(filters) : c = Head(rest)
      BY <2>2 DEF Made
    <3>2. PICK f : f = CreateFilter(c)
      OBVIOUS
    <3>3. IsModule(f) /\ f.base = "filter" /\ f.label = c.label
      BY <2>2, <3>1, <3>2, CreatedFilter, SingleThreadedAssumption
    <3>4. f.label \in Filters
      BY <3>1, <3>3 DEF Filters, Labels, Range
    <3>5. phase' = "filters" /\ rest' = Tail(rest) /\ module' = Join(module, [x \in {f.label} |-> f])
      BY <2>2, <3>1, <3>2
    <3>6. \A x \in DOMAIN module' :
              /\ IsModule(module'[x])
              /\ x \in IF module'[x].base = "filter" THEN Filters ELSE Producers
      BY <3>3, <3>4, <3>5, ModuleMade
    <3>7. /\ rest' \in Seq(Range(filters)) /\ m_paths' = <<>> /\ DOMAIN m_lookupMap' = {}
          /\ m_paths' \in Seq(Seq(FoundFilters'))
      BY <2>2, <3>5, EmptySeq DEF Made
    <3> QED
      BY <3>5, <3>6, <3>7 DEF Made
  <2> QED
    BY <2>1, <2>2
<1> QED
  BY <1>1, <1>2, <1>3, <1>4

\* The next producer, with an entry for its datum, which nobody has put.
LEMMA AddProducerStep ==
    ASSUME IndInv, AddProducer
    PROVE  IndInv'
<1> USE DEF IndInv, AddProducer, Becomes
<1>1. Types' /\ RunsOnce'
  BY DEF Types, RunsOnce
<1>2. StackMade'
  BY NoCalls
<1>3. RunMeansPut'
  BY DEF RunMeansPut, Types, SeemedRun
<1>4. CASE module' = module /\ m_lookupMap' = m_lookupMap /\ phase' \in {"paths", "exit"}
  <2>1. rest' \in Seq(Seq(STRING)) \/ phase' = "exit"
    BY <1>4, SingleThreadedAssumption
  <2>2. FoundFilters' = FoundFilters
    BY <1>4 DEF FoundFilters
  <2>3. Made'
    BY <1>4, <2>1, <2>2 DEF Made
  <2>4. LookupMade'
    BY <1>4 DEF LookupMade, Maker
  <2> QED
    BY <1>1, <1>2, <1>3, <2>3, <2>4
<1>5. CASE rest # <<>> /\ CreateProducer(Head(rest)) # NoModule
  <2>1. PICK c \in Range(producers) : c = Head(rest)
    BY <1>5 DEF Made
  <2>2. PICK n : n = CreateProducer(c)
    OBVIOUS
  <2>3. IsModule(n) /\ n.base = "producer" /\ n.label = c.label
    BY <1>5, <2>1, <2>2, CreatedProducer, SingleThreadedAssumption
  <2>4. n.label \in Producers /\ n.m_products = {""}
    BY <2>1, <2>3 DEF Producers, Labels, Range, IsModule
  <2>5. /\ phase' = "producers" /\ rest' = Tail(rest)
        /\ module' = Join(module, [x \in {n.label} |-> n])
        /\ m_lookupMap' = Join(m_lookupMap, Entries(n))
    BY <1>5, <2>1, <2>2
  <2>6. /\ DOMAIN module' = DOMAIN module \cup {n.label} /\ module'[n.label] = n
        /\ \A x \in DOMAIN module \ {n.label} : module'[x] = module[x]
        /\ \A x \in DOMAIN module' :
              /\ IsModule(module'[x])
              /\ x \in IF module'[x].base = "filter" THEN Filters ELSE Producers
    BY <2>3, <2>4, <2>5, ModuleMade
  <2>7. Made'
    <3>1. /\ rest' \in Seq(Range(producers)) /\ m_paths' = <<>>
          /\ m_paths' \in Seq(Seq(FoundFilters'))
      BY <1>5, <2>5, EmptySeq DEF Made
    <3> QED
      BY <2>5, <2>6, <3>1 DEF Made
  <2>8. PICK k, e : k = <<n.label, "">> /\ e = [producer |-> n.label, put |-> 0]
    OBVIOUS
  <2>9. /\ DOMAIN m_lookupMap' = DOMAIN m_lookupMap \cup {k} /\ m_lookupMap'[k] = e
        /\ \A key \in DOMAIN m_lookupMap \ {k} : m_lookupMap'[key] = m_lookupMap[key]
    <3>1. {n.label} \X n.m_products = {k}
      BY <2>4, <2>8, OneKey
    <3>2. Entries(n) = [key \in {k} |-> e]
      BY <2>8, <3>1 DEF Entries
    <3>3. PICK a, b : a = m_lookupMap /\ b = m_lookupMap'
      OBVIOUS
    <3>3a. PICK g : g = [key \in {k} |-> e]
      OBVIOUS
    <3>4. b = Join(a, g) /\ DOMAIN g = {k} /\ g[k] = e
      BY <2>5, <3>2, <3>3, <3>3a
    <3>5. /\ DOMAIN b = DOMAIN a \cup {k} /\ b[k] = g[k]
          /\ \A key \in DOMAIN a \ {k} : b[key] = a[key]
      BY <3>4 DEF Join
    <3> QED
      BY <3>3, <3>4, <3>5
  <2>10. LookupMade'
    <3> SUFFICES ASSUME NEW key \in DOMAIN m_lookupMap'
                 PROVE  /\ m_lookupMap'[key] \in [producer : Producers, put : 0 .. iterations]
                        /\ Maker(key)' \in DOMAIN module'
                        /\ module'[Maker(key)'].base = "producer"
                        /\ key = <<Maker(key)', "">>
      BY DEF LookupMade
    <3>1. CASE key = k
      <4>1. m_lookupMap'[key] = e
        BY <2>9, <3>1
      <4>2. e \in [producer : Producers, put : 0 .. iterations] /\ e.producer = n.label
        <5>1. 0 \in 0 .. iterations
          BY SingleThreadedAssumption
        <5> QED
          BY <2>4, <2>8, <5>1
      <4>3. Maker(key)' = n.label
        BY <4>1, <4>2 DEF Maker
      <4> QED
        BY <2>3, <2>6, <2>8, <3>1, <4>1, <4>2, <4>3
    <3>2. CASE key # k
      <4>1. key \in DOMAIN m_lookupMap /\ m_lookupMap'[key] = m_lookupMap[key]
        BY <2>9, <3>2
      <4>2. PICK p \in Producers : p = Maker(key)
        BY <4>1 DEF LookupMade, Maker
      <4>3. Maker(key)' = p /\ p \in DOMAIN module /\ module[p].base = "producer" /\ key = <<p, "">>
        BY <4>1, <4>2 DEF LookupMade, Maker
      <4>4. p # n.label
        BY <2>8, <3>2, <4>3
      <4> QED
        BY <2>6, <4>1, <4>3, <4>4 DEF LookupMade
    <3> QED
      BY <3>1, <3>2
  <2> QED
    BY <1>1, <1>2, <1>3, <2>7, <2>10
<1> QED
  BY <1>4, <1>5

\* The next path of the file, of filters that have been made.
LEMMA AddPathStep ==
    ASSUME IndInv, AddPath
    PROVE  IndInv'
<1> USE DEF IndInv, AddPath, Becomes, moduleState
<1>0. phase = "paths" /\ phase' \in {"paths", "source", "exit"}
  OBVIOUS
<1>1. Types'
  <2>1. phase' = "source" => m_seenEvents' <= iterations
    BY <1>0, SingleThreadedAssumption DEF Types
  <2> QED
    BY <1>0, <2>1 DEF Types
<1>1a. RunsOnce'
  BY <1>0 DEF RunsOnce
<1>2. StackMade'
  BY NoCalls
<1>3. RunMeansPut' /\ LookupMade'
  <2>1. \A key : Maker(key)' = Maker(key)
    BY DEF Maker
  <2>2. LookupMade'
    BY <2>1 DEF LookupMade
  <2>3. RunMeansPut'
    BY <1>0 DEF RunMeansPut, Types
  <2> QED
    BY <2>2, <2>3
<1>4. FoundFilters' = FoundFilters
  BY DEF FoundFilters
<1>5. Made'
  <2>1. CASE m_paths' = m_paths /\ phase' \in {"source", "exit"}
    BY <1>4, <2>1 DEF Made
  <2>2. CASE rest # <<>> /\ PathMade(Head(rest))
    <3>1. PICK names \in Seq(STRING) : names = Head(rest)
      BY <2>2 DEF Made
    <3>2. Range(names) \subseteq FoundFilters
      BY <2>2, <3>1 DEF PathMade, FilterFound, FoundFilters
    <3>3. names \in Seq(FoundFilters)
      <4>1. names \in Seq(Range(names))
        BY SeqOfRange
      <4> QED
        BY <3>2, <4>1, SeqMonotonic
    <3>4. m_paths' = Append(m_paths, names) /\ phase' = "paths" /\ rest' \in Seq(Seq(STRING))
      <4>1. m_paths' = Append(m_paths, names) /\ phase' = "paths" /\ rest' = Tail(rest)
        BY <2>2, <3>1
      <4> QED
        BY <2>2, <4>1 DEF Made
    <3>5. m_paths' \in Seq(Seq(FoundFilters))
      BY <3>3, <3>4, AppendProperties DEF Made
    <3> QED
      BY <1>4, <3>4, <3>5 DEF Made
  <2> QED
    BY <2>1, <2>2
<1> QED
  BY <1>1, <1>1a, <1>2, <1>3, <1>5

-----------------------------------------------------------------------------
(* And through the events. *)

\* The modules that have been made stay.
LEMMA MadeStays ==
    ASSUME Made, LookupMade, UNCHANGED <<setup, m_lookupMap>>,
           phase' \in {"source", "event", "done", "exit"}
    PROVE  /\ Made' /\ LookupMade'
           /\ FoundFilters' = FoundFilters
           /\ \A key : Maker(key)' = Maker(key)
<1> USE DEF setup
<1>1. FoundFilters' = FoundFilters
  BY DEF FoundFilters
<1>2. Made'
  BY <1>1 DEF Made
<1>3. \A key : Maker(key)' = Maker(key)
  BY DEF Maker
<1>4. LookupMade'
  <2> SUFFICES ASSUME NEW key \in DOMAIN m_lookupMap
               PROVE  /\ m_lookupMap[key] \in [producer : Producers, put : 0 .. iterations]
                      /\ Maker(key)' \in DOMAIN module /\ module[Maker(key)'].base = "producer"
                      /\ key = <<Maker(key)', "">>
    BY DEF LookupMade
  <2> QED
    BY <1>3 DEF LookupMade
<1> QED
  BY <1>1, <1>2, <1>3, <1>4

\* The source has no more events.
LEMMA NoMoreEventsStep ==
    ASSUME IndInv, NoMoreEvents
    PROVE  IndInv'
<1> USE DEF IndInv, NoMoreEvents, setup, moduleState
<1>1. m_seenEvents' = m_seenEvents + 1 /\ m_seenEvents \in 0 .. iterations
  <2>1. m_seenEvents \in 0 .. iterations
    BY SingleThreadedAssumption DEF Types
  <2> QED
    BY <2>1, Counting
<1>2. Types'
  BY <1>1, SingleThreadedAssumption DEF Types
<1>3. Made' /\ LookupMade'
  BY MadeStays
<1>4. RunMeansPut' /\ RunsOnce'
  BY DEF RunMeansPut, RunsOnce
<1>5. StackMade'
  BY NoCalls
<1> QED
  BY <1>2, <1>3, <1>4, <1>5

\* The next event: no producer has run for it, but those that seem to have.
LEMMA NextEventStep ==
    ASSUME IndInv, NextEvent
    PROVE  IndInv'
<1> USE DEF IndInv, NextEvent, setup, moduleState
<1>1. m_seenEvents' = m_seenEvents + 1 /\ m_seenEvents \in 0 .. iterations - 1
  <2>1. m_seenEvents \in 0 .. iterations
    BY SingleThreadedAssumption DEF Types
  <2> QED
    BY <2>1, Counting, SingleThreadedAssumption
<1>2. /\ m_wasRun' \in [Modules -> BOOLEAN]
      /\ \A m \in Modules : m_wasRun'[m] => m_wasRun[m]
  BY DEF ResetModules
<1>3. Types'
  BY <1>1, <1>2, SingleThreadedAssumption DEF Types
<1>4. Made' /\ LookupMade' /\ FoundFilters' = FoundFilters /\ \A key : Maker(key)' = Maker(key)
  BY MadeStays
<1>5. RunMeansPut'
  <2> SUFFICES ASSUME NEW key \in DOMAIN m_lookupMap, m_wasRun'[Maker(key)]
               PROVE  m_seenEvents' = 1 /\ Maker(key) \in unset
    BY <1>4, Zenon DEF RunMeansPut, SeemedRun
  <2>1. Maker(key) \in Producers /\ Maker(key) \in Modules
    BY DEF LookupMade, Maker, Modules
  <2>2. m_wasRun[Maker(key)]
    BY <1>2, <2>1
  <2>3. m_seenEvents = 0
    BY <1>1, <2>2, SingleThreadedAssumption DEF RunMeansPut
  <2> QED
    BY <1>1, <2>1, <2>2, <2>3 DEF RunMeansPut
<1>6. RunsOnce'
  BY DEF RunsOnce
<1>7. StackMade'
  <2>1. PICK c : c = [op |-> "paths", rest |-> m_paths]
    OBVIOUS
  <2>2. PICK t : t = stack'
    OBVIOUS
  <2>3. t = <<c>> /\ Len(t) = 1 /\ t[1] = c /\ t \in Seq({c})
    BY <2>1, <2>2
  <2>4. c.op = "paths" /\ c.rest \in Seq(Seq(FoundFilters'))
    BY <1>4, <2>1 DEF Made
  <2>5. IsCall(c)'
    BY <2>4 DEF IsCall
  <2>6. Innermost(c)'
    BY <2>4 DEF Innermost
  <2>7. t \in Seq(Range(t))
    BY <2>3, SeqOfRange
  <2> QED
    BY <2>2, <2>3, <2>4, <2>5, <2>6, <2>7 DEF StackMade
<1> QED
  BY <1>3, <1>4, <1>5, <1>6, <1>7

\* After an event the producers are ready for the next one.
LEMMA ResetEventStep ==
    ASSUME IndInv, ResetEvent
    PROVE  IndInv'
<1> USE DEF IndInv, ResetEvent, setup, moduleState
<1>1. /\ m_wasRun' \in [Modules -> BOOLEAN]
      /\ \A key \in DOMAIN m_lookupMap : ~m_wasRun'[Maker(key)]
  <2>1. \A key \in DOMAIN m_lookupMap : Maker(key) \in Modules
    BY DEF LookupMade, Maker, Modules
  <2> QED
    BY <2>1 DEF ResetModules, Maker
<1>2. m_seenEvents \in 1 .. iterations
  BY DEF Types
<1>3. Types'
  BY <1>1, <1>2, SingleThreadedAssumption DEF Types
<1>4. Made' /\ LookupMade' /\ \A key : Maker(key)' = Maker(key)
  BY MadeStays
<1>5. RunMeansPut'
  BY <1>1, <1>2, <1>4 DEF RunMeansPut
<1>6. RunsOnce'
  BY DEF RunsOnce
<1>7. StackMade'
  BY EmptySeq DEF StackMade
<1> QED
  BY <1>3, <1>4, <1>5, <1>6, <1>7

\* Calls stay what they are as long as nothing else changes, when the job ends
\* as well.
LEMMA SameCalls ==
    ASSUME StackMade, UNCHANGED <<setup, moduleState, m_seenEvents, stack, unset>>,
           phase' \in {phase, "exit"}
    PROVE  StackMade'
<1> USE DEF setup, moduleState
<1>1. FoundFilters' = FoundFilters
  BY DEF FoundFilters
<1>2. \A key : Maker(key)' = Maker(key)
  BY DEF Maker
<1>3. \A m, key : Got(m, key)' <=> Got(m, key)
  BY DEF Got, Maker, SeemedRun
<1>4. \A c : IsCall(c)' <=> IsCall(c)
  BY <1>1 DEF IsCall
<1>5. \A c, d : CalledBy(c, d) => CalledBy(c, d)'
  BY <1>2, <1>3 DEF CalledBy, GotBut
<1>6. \A c : Innermost(c) => Innermost(c)'
  BY <1>2, <1>3 DEF Innermost
<1> QED
  BY <1>4, <1>5, <1>6 DEF StackMade

\* Nothing happens.
LEMMA StutterStep ==
    ASSUME IndInv, UNCHANGED vars
    PROVE  IndInv'
<1> USE DEF vars, setup, moduleState
<1>1. FoundFilters' = FoundFilters
  BY DEF FoundFilters
<1>2. \A key : Maker(key)' = Maker(key)
  BY DEF Maker
<1>3. Types' /\ Made' /\ RunsOnce'
  BY <1>1 DEF IndInv, Types, Made, RunsOnce
<1>4. LookupMade' /\ RunMeansPut'
  BY DEF IndInv, LookupMade, RunMeansPut, Maker, SeemedRun
<1>5. StackMade'
  BY SameCalls DEF IndInv
<1> QED
  BY <1>3, <1>4, <1>5 DEF IndInv

-----------------------------------------------------------------------------
(* And through what goes on inside an event. *)

\* There is a call: main is at an event, and what the innermost calls are.
LEMMA Within ==
    ASSUME IndInv, phase = "event", NEW s, s = stack, s # <<>>, NEW c, c = Top
    PROVE  /\ m_seenEvents \in 1 .. iterations
           /\ s \in Seq(Range(s)) /\ Len(s) \in Nat /\ 1 <= Len(s) /\ (Len(s) = 1 \/ Len(s) >= 2)
           /\ c = s[1] /\ IsCall(c) /\ Innermost(c)
           /\ \A i \in 1 .. Len(s) : IsCall(s[i])
           /\ \A i \in 1 .. Len(s) - 1 : CalledBy(s[i], s[i + 1])
           /\ Len(s) = 1 => c.op = "paths"
           /\ Len(s) >= 2 => IsCall(s[2]) /\ CalledBy(c, s[2])
           /\ Len(s) >= 2 /\ s[2].op # "paths" =>
                 /\ Len(s) >= 3
                 /\ CalledBy(s[2], s[3])
<1>1. s \in Seq(Range(s))
  BY DEF IndInv, StackMade
<1>2. m_seenEvents \in 1 .. iterations
  BY <1>1 DEF IndInv, Types
<1>3. Len(s) \in Nat /\ Len(s) >= 1 /\ c = s[1]
  BY <1>1 DEF Top
<1>4. PICK l \in Nat : l = Len(s)
  BY <1>3
<1>5. /\ \A i \in 1 .. l : IsCall(s[i])
      /\ \A i \in 1 .. l - 1 : CalledBy(s[i], s[i + 1])
      /\ Innermost(s[1]) /\ s[l].op = "paths"
  BY <1>3, <1>4 DEF IndInv, StackMade
<1>6. l >= 2 => CalledBy(s[1], s[2]) /\ IsCall(s[2])
  BY <1>5
<1>7. l >= 2 /\ s[2].op # "paths" => l >= 3 /\ CalledBy(s[2], s[3])
  BY <1>5
<1> QED
  <2>1. IsCall(c) /\ Innermost(c) /\ (l = 1 => c.op = "paths") /\ (l >= 2 => CalledBy(c, s[2]))
    <3>1. 1 \in 1 .. l
      BY <1>3, <1>4
    <3> QED
      BY <1>3, <1>5, <1>6, <3>1
  <2> QED
    BY <1>1, <1>2, <1>3, <1>4, <1>5, <1>6, <1>7, <2>1

\* When only the stack changes, what the calls are to each other stays.
LEMMA OnlyStack ==
    ASSUME IndInv, phase = "event",
           UNCHANGED <<phase, setup, moduleState, m_seenEvents, runs, unset>>
    PROVE  /\ Keeps
           /\ \A c : IsCall(c) => IsCall(c)'
           /\ \A c, d : IsCall(d) /\ CalledBy(c, d) => CalledBy(c, d)'
           /\ \A c : Innermost(c) => Innermost(c)'
           /\ StackMade' => IndInv'
<1> USE DEF IndInv, setup, moduleState
<1>1. \A key : Maker(key)' = Maker(key)
  BY DEF Maker
<1>2. \A m, key : Got(m, key)' <=> Got(m, key)
  BY DEF Got, Maker, SeemedRun
<1>3. Keeps
  BY <1>1, <1>2 DEF Keeps
<1>4. \A c : IsCall(c) => IsCall(c)'
  <2>1. FoundFilters' = FoundFilters
    BY DEF FoundFilters
  <2> QED
    BY <2>1 DEF IsCall
<1>5. \A c, d : IsCall(d) /\ CalledBy(c, d) => CalledBy(c, d)'
  BY <1>3, CalledKept
<1>6. \A c : Innermost(c) => Innermost(c)'
  BY <1>1, <1>2 DEF Innermost
<1>7. Types' /\ RunsOnce'
  BY DEF Types, RunsOnce
<1>8. Made' /\ LookupMade'
  BY MadeStays
<1>9. RunMeansPut'
  BY <1>1 DEF RunMeansPut, SeemedRun
<1> QED
  BY <1>3, <1>4, <1>5, <1>6, <1>7, <1>8, <1>9

\* The n calls in u can be where the k innermost ones of s are.
Fits(s, k, n, u) ==
    /\ \A i \in 1 .. n : IsCall(u[i])
    /\ \A i \in 1 .. n - 1 : CalledBy(u[i], u[i + 1])
    /\ n >= 1 /\ k < Len(s) => CalledBy(u[n], s[k + 1])
    /\ n >= 1 /\ k = Len(s) => u[n].op = "paths"
    /\ n >= 1 => Innermost(u[1])
    /\ n = 0 /\ k < Len(s) => Innermost(s[k + 1])

\* A step that changes only the stack, in which they take their place.
LEMMA StackStep ==
    ASSUME IndInv, phase = "event",
           UNCHANGED <<phase, setup, moduleState, m_seenEvents, runs, unset>>,
           NEW s, s = stack, NEW k \in Nat, k <= Len(s), NEW n \in Nat, NEW u,
           Replaces(stack', n, u, s, k), Fits(s, k, n, u)
    PROVE  IndInv'
<1>0. /\ \A i \in 1 .. n : IsCall(u[i])
      /\ \A i \in 1 .. n - 1 : CalledBy(u[i], u[i + 1])
      /\ n >= 1 /\ k < Len(s) => CalledBy(u[n], s[k + 1])
      /\ n >= 1 /\ k = Len(s) => u[n].op = "paths"
      /\ n >= 1 => Innermost(u[1])
      /\ n = 0 /\ k < Len(s) => Innermost(s[k + 1])
  BY DEF Fits
<1>1. /\ Keeps
      /\ \A c : IsCall(c) => IsCall(c)'
      /\ \A c, d : IsCall(d) /\ CalledBy(c, d) => CalledBy(c, d)'
      /\ \A c : Innermost(c) => Innermost(c)'
      /\ StackMade' => IndInv'
  BY OnlyStack
<1>2. PICK l \in Nat : l = Len(s)
  BY DEF IndInv, StackMade
<1>3. StackMade /\ phase' = "event" /\ \A i \in 1 .. l : IsCall(s[i])
  BY <1>2 DEF IndInv, StackMade
<1>4. \A i \in k + 1 .. l : s[i].op = "prefetch" => ~m_wasRun'[s[i].mod]
  <2> SUFFICES ASSUME NEW i \in k + 1 .. l, s[i].op = "prefetch"
               PROVE  ~m_wasRun[s[i].mod]
    BY DEF moduleState
  <2>1. IsCall(s[i])
    BY <1>3
  <2> QED
    BY <2>1 DEF IsCall
<1>5. \A i \in 1 .. n - 1 : CalledBy(u[i], u[i + 1])'
  <2> SUFFICES ASSUME NEW i \in 1 .. n - 1 PROVE CalledBy(u[i], u[i + 1])'
    OBVIOUS
  <2>1. IsCall(u[i + 1]) /\ CalledBy(u[i], u[i + 1])
    BY <1>0, <1>1
  <2> QED
    BY <1>1, <2>1
<1>6. n >= 1 /\ k < Len(s) => CalledBy(u[n], s[k + 1])'
  <2> SUFFICES ASSUME n >= 1, k < Len(s) PROVE CalledBy(u[n], s[k + 1])'
    OBVIOUS
  <2>1. IsCall(s[k + 1]) /\ CalledBy(u[n], s[k + 1])
    BY <1>0, <1>2, <1>3
  <2> QED
    BY <1>1, <2>1
<1>7. StackMade'
  BY <1>0, <1>1, <1>2, <1>3, <1>4, <1>5, <1>6, NextStack
<1> QED
  BY <1>1, <1>7

\* The calls that take the place of others, in each of the steps.
LEMMA InFront ==
    ASSUME NEW s, s \in Seq(Range(s)), s # <<>>, NEW a, NEW b, NEW c
    PROVE  /\ Replaces(<<>> \o Tail(s), 0, <<>>, s, 1)
           /\ Replaces(<<a, b>> \o Tail(s), 2, <<a, b>>, s, 1)
           /\ Replaces(<<a, b, c>> \o Tail(s), 3, <<a, b, c>>, s, 1)
           /\ Replaces(<<a>> \o s, 1, <<a>>, s, 0)
           /\ Len(s) >= 2 => Replaces(<<a>> \o SubSeq(s, 3, Len(s)), 1, <<a>>, s, 2)
<1>1. PICK v, w : v = Tail(s) /\ w = SubSeq(s, 3, Len(s))
  OBVIOUS
<1>2. /\ v \in Seq(Range(v)) /\ Len(v) = Len(s) - 1
      /\ \A i \in 1 .. Len(s) - 1 : v[i] = s[1 + i]
      /\ Len(s) >= 2 =>
            /\ w \in Seq(Range(w)) /\ Len(w) = Len(s) - 2
            /\ \A i \in 1 .. Len(s) - 2 : w[i] = s[2 + i]
  BY <1>1, Rests
<1>3. Len(s) \in Nat /\ Len(s) >= 1
  OBVIOUS
<1>4. ASSUME NEW u, u \in Seq(Range(u)) PROVE Replaces(u \o v, Len(u), u, s, 1)
  BY <1>2, <1>3, <1>4, Glued
<1>5. ASSUME NEW x \in {a, b, c}, NEW y \in {a, b, c}, NEW z \in {a, b, c}
      PROVE  /\ <<>> \in Seq(Range(<<>>)) /\ <<x>> \in Seq(Range(<<x>>))
             /\ <<x, y>> \in Seq(Range(<<x, y>>)) /\ <<x, y, z>> \in Seq(Range(<<x, y, z>>))
  <2>1. PICK S : S = {a, b, c}
    OBVIOUS
  <2>2. /\ <<>> \in Seq(S) /\ <<x>> \in Seq(S) /\ <<x, y>> \in Seq(S)
        /\ <<x, y, z>> \in Seq(S)
    BY <1>5, <2>1
  <2> QED
    BY <2>2, SeqOfRange, Zenon
<1>6. Replaces(<<a>> \o s, 1, <<a>>, s, 0)
  <2>1. Len(s) = Len(s) - 0 /\ \A i \in 1 .. Len(s) - 0 : s[i] = s[0 + i]
    BY <1>3
  <2>2. PICK u : u = <<a>>
    OBVIOUS
  <2>3. u \in Seq(Range(u)) /\ 0 \in Nat /\ 0 <= Len(s) /\ Len(u) = 1
    BY <1>3, <1>5, <2>2
  <2>4. Replaces(u \o s, Len(u), u, s, 0)
    BY <1>3, <2>1, <2>3, Glued, Zenon
  <2> QED
    BY <2>2, <2>3, <2>4
<1>7. Len(s) >= 2 => Replaces(<<a>> \o w, 1, <<a>>, s, 2)
  <2> SUFFICES ASSUME Len(s) >= 2 PROVE Replaces(<<a>> \o w, 1, <<a>>, s, 2)
    OBVIOUS
  <2>2. PICK u : u = <<a>>
    OBVIOUS
  <2>3. Replaces(u \o w, Len(u), u, s, 2)
    BY <1>2, <1>3, <1>5, <2>2, Glued
  <2> QED
    BY <2>2, <2>3
<1>8. Len(<<>>) = 0 /\ Len(<<a, b>>) = 2 /\ Len(<<a, b, c>>) = 3
  OBVIOUS
<1> QED
  BY <1>1, <1>4, <1>5, <1>6, <1>7, <1>8

\* The next path is run, or there is none.
LEMMA RunPathStep ==
    ASSUME IndInv, RunPath
    PROVE  IndInv'
<1>1. PICK s, c : s = stack /\ c = Top
  OBVIOUS
<1>2. /\ phase = "event" /\ s # <<>> /\ c.op = "paths"
      /\ UNCHANGED <<phase, setup, moduleState, m_seenEvents, runs, unset>>
      /\ stack' = (IF c.rest = <<>> THEN <<>>
                   ELSE <<[op |-> "path", rest |-> Head(c.rest)],
                          [op |-> "paths", rest |-> Tail(c.rest)]>>) \o Tail(s)
  BY <1>1 DEF RunPath, Inside, Become
<1>3. /\ s \in Seq(Range(s)) /\ Len(s) \in Nat
      /\ 1 <= Len(s) /\ (Len(s) = 1 \/ Len(s) >= 2) /\ IsCall(c) /\ (Len(s) >= 2 => CalledBy(c, s[2]))
  BY <1>1, <1>2, Within
<1>4. Len(s) = 1
  <2>1. ~CalledBy(c, s[2])
    BY <1>2 DEF CalledBy
  <2> QED
    BY <1>3, <2>1, Zenon
<1>5. CASE c.rest = <<>>
  <2>1. Replaces(stack', 0, <<>>, s, 1)
    BY <1>2, <1>3, <1>5, InFront
  <2> QED
    <3>1. Fits(s, 1, 0, <<>>)
      BY <1>4 DEF Fits
    <3> QED
      BY <1>1, <1>2, <1>3, <2>1, <3>1, StackStep
<1>6. CASE c.rest # <<>>
  <2>1. PICK a, b : /\ a = [op |-> "path", rest |-> Head(c.rest)]
                    /\ b = [op |-> "paths", rest |-> Tail(c.rest)]
    OBVIOUS
  <2>2. PICK u : u = <<a, b>>
    OBVIOUS
  <2>3. Replaces(stack', 2, u, s, 1)
    BY <1>2, <1>3, <1>6, <2>1, <2>2, InFront
  <2>4. Head(c.rest) \in Seq(FoundFilters) /\ Tail(c.rest) \in Seq(Seq(FoundFilters))
    BY <1>2, <1>3, <1>6 DEF IsCall
  <2>5. IsCall(a) /\ IsCall(b) /\ CalledBy(a, b) /\ Innermost(a) /\ b.op = "paths"
    BY <2>1, <2>4 DEF IsCall, CalledBy, Innermost
  <2>6. /\ \A i \in 1 .. 2 : IsCall(u[i])
        /\ \A i \in 1 .. 2 - 1 : CalledBy(u[i], u[i + 1])
        /\ Innermost(u[1]) /\ u[2].op = "paths"
    BY <2>2, <2>5
  <2>7. Fits(s, 1, 2, u)
    BY <1>4, <2>6 DEF Fits
  <2> QED
    BY <1>1, <1>2, <1>3, <1>4, <2>3, <2>7, StackStep
<1> QED
  BY <1>5, <1>6

\* The next filter of the path is called, or there is none.
LEMMA RunFilterStep ==
    ASSUME IndInv, RunFilter
    PROVE  IndInv'
<1>1. PICK s, c : s = stack /\ c = Top
  OBVIOUS
<1>2. /\ phase = "event" /\ s # <<>> /\ c.op = "path"
      /\ UNCHANGED <<phase, setup, moduleState, m_seenEvents, runs, unset>>
      /\ stack' = (IF c.rest = <<>> THEN <<>>
                   ELSE <<[op |-> "filter", mod |-> Head(c.rest)], c>>) \o Tail(s)
  BY <1>1 DEF RunFilter, Inside, Become
<1>3. /\ s \in Seq(Range(s)) /\ Len(s) \in Nat
      /\ 1 <= Len(s) /\ (Len(s) = 1 \/ Len(s) >= 2) /\ IsCall(c) /\ Len(s) # 1 /\ (Len(s) >= 2 => CalledBy(c, s[2]))
  BY <1>1, <1>2, Within
<1>4. Len(s) >= 2 /\ CalledBy(c, s[2]) /\ s[2].op = "paths"
  <2>1. Len(s) >= 2 /\ CalledBy(c, s[2])
    BY <1>3, Zenon
  <2> QED
    BY <1>2, <2>1 DEF CalledBy
<1>5. CASE c.rest = <<>>
  <2>1. Replaces(stack', 0, <<>>, s, 1)
    BY <1>2, <1>3, <1>5, InFront
  <2>2. Innermost(s[2])
    BY <1>4 DEF Innermost
  <2>3. Fits(s, 1, 0, <<>>)
    BY <2>2 DEF Fits
  <2> QED
    BY <1>1, <1>2, <1>3, <1>4, <2>1, <2>3, StackStep
<1>6. CASE c.rest # <<>>
  <2>1. PICK a : a = [op |-> "filter", mod |-> Head(c.rest)]
    OBVIOUS
  <2>2. PICK u : u = <<a, c>>
    OBVIOUS
  <2>3. Replaces(stack', 2, u, s, 1)
    BY <1>2, <1>3, <1>6, <2>1, <2>2, InFront
  <2>4. Head(c.rest) \in FoundFilters
    BY <1>2, <1>3, <1>6 DEF IsCall
  <2>5. IsCall(a) /\ CalledBy(a, c) /\ Innermost(a)
    BY <1>2, <1>6, <2>1, <2>4 DEF IsCall, CalledBy, Innermost
  <2>6. /\ \A i \in 1 .. 2 : IsCall(u[i])
        /\ \A i \in 1 .. 2 - 1 : CalledBy(u[i], u[i + 1])
        /\ Innermost(u[1]) /\ CalledBy(u[2], s[2])
    BY <1>3, <1>4, <2>2, <2>5
  <2>7. Fits(s, 1, 2, u)
    BY <1>4, <2>6 DEF Fits
  <2> QED
    BY <1>1, <1>2, <1>3, <1>4, <2>3, <2>7, StackStep
<1> QED
  BY <1>5, <1>6

\* A module that has not run begins to get its data.
LEMMA Prefetching ==
    ASSUME Made, NEW m \in DOMAIN module, ~m_wasRun[m]
    PROVE  /\ IsCall(PrefetchFor(m)) /\ Innermost(PrefetchFor(m))
           /\ PrefetchFor(m).op = "prefetch" /\ PrefetchFor(m).mod = m
<1>1. PICK p : p = PrefetchFor(m)
  OBVIOUS
<1>2. p = [op |-> "prefetch", mod |-> m, rest |-> module[m].m_getters]
  BY <1>1 DEF PrefetchFor
<1>3. module[m].m_getters \in Seq(Range(module[m].m_getters))
  BY DEF Made, IsModule
<1>4. IsCall(p)
  BY <1>2, <1>3 DEF IsCall
<1>5. Innermost(p)
  BY <1>2 DEF Innermost
<1> QED
  BY <1>1, <1>2, <1>4, <1>5

\* A filter that has run lets the path go on or not; another gets its data.
LEMMA DoFilterStep ==
    ASSUME IndInv, DoFilter
    PROVE  IndInv'
<1>1. PICK s, c : s = stack /\ c = Top
  OBVIOUS
<1>2. /\ phase = "event" /\ s # <<>> /\ c.op = "filter"
      /\ UNCHANGED <<phase, setup, moduleState, m_seenEvents, runs, unset>>
      /\ IF m_wasRun[c.mod] THEN FilterReturns(c.mod)
         ELSE stack' = <<PrefetchFor(c.mod)>> \o s
  BY <1>1 DEF DoFilter, Inside
<1>3. /\ s \in Seq(Range(s)) /\ Len(s) \in Nat
      /\ 1 <= Len(s) /\ (Len(s) = 1 \/ Len(s) >= 2) /\ c = s[1] /\ IsCall(c) /\ Len(s) # 1
      /\ (Len(s) >= 2 => IsCall(s[2]) /\ CalledBy(c, s[2]))
      /\ (Len(s) >= 2 /\ s[2].op # "paths" => Len(s) >= 3 /\ CalledBy(s[2], s[3]))
  BY <1>1, <1>2, Within
<1>4. CASE ~m_wasRun[c.mod]
  <2>1. PICK p : p = PrefetchFor(c.mod)
    OBVIOUS
  <2>2. c.mod \in DOMAIN module
    BY <1>2, <1>3 DEF IsCall, FoundFilters
  <2>3. IsCall(p) /\ Innermost(p) /\ p.op = "prefetch" /\ p.mod = c.mod
    BY <1>4, <2>1, <2>2, Prefetching DEF IndInv
  <2>4. PICK u : u = <<p>>
    OBVIOUS
  <2>5. Replaces(stack', 1, u, s, 0)
    BY <1>2, <1>3, <1>4, <2>1, <2>4, InFront
  <2>6. CalledBy(p, c)
    BY <1>2, <2>3 DEF CalledBy
  <2>7. /\ \A i \in 1 .. 1 : IsCall(u[i])
        /\ \A i \in 1 .. 1 - 1 : CalledBy(u[i], u[i + 1])
        /\ Innermost(u[1]) /\ CalledBy(u[1], s[0 + 1])
    BY <1>3, <2>3, <2>4, <2>6
  <2>8. Fits(s, 0, 1, u)
    BY <1>3, <2>7 DEF Fits
  <2> QED
    BY <1>1, <1>2, <1>3, <2>5, <2>8, StackStep
<1>5. CASE m_wasRun[c.mod]
  <2>1. PICK d : d = s[2]
    OBVIOUS
  <2>2. /\ Len(s) >= 3 /\ d.op = "path" /\ d.rest # <<>> /\ IsCall(d) /\ CalledBy(d, s[3])
    BY <1>2, <1>3, <2>1 DEF CalledBy
  <2>3. d = [op |-> "path", rest |-> d.rest] /\ d.rest \in Seq(FoundFilters)
    BY <2>2 DEF IsCall
  <2>4. PICK r : r = IF m_keep[c.mod] THEN Tail(d.rest) ELSE <<>>
    OBVIOUS
  <2>5. r \in Seq(FoundFilters)
    BY <2>2, <2>3, <2>4, EmptySeq
  <2>6. PICK a : a = [op |-> "path", rest |-> r]
    OBVIOUS
  <2>7. stack' = <<a>> \o SubSeq(s, 3, Len(s))
    <3>1. [d EXCEPT !.rest = r] = a
      BY <2>3, <2>6
    <3>2. [d EXCEPT !.rest = IF m_keep[c.mod] THEN Tail(@) ELSE <<>>] = [d EXCEPT !.rest = r]
      BY <2>3, <2>4
    <3>3. stack' = <<[d EXCEPT !.rest = IF m_keep[c.mod] THEN Tail(@) ELSE <<>>]>>
                     \o SubSeq(s, 3, Len(s))
      BY <1>1, <1>2, <1>5, <2>1 DEF FilterReturns
    <3> QED
      BY <3>1, <3>2, <3>3, Zenon
  <2>8. IsCall(a) /\ Innermost(a) /\ CalledBy(a, s[3])
    BY <2>2, <2>5, <2>6 DEF IsCall, Innermost, CalledBy
  <2>9. PICK u : u = <<a>>
    OBVIOUS
  <2>10. Replaces(stack', 1, u, s, 2)
    <3>1. Len(s) >= 2
      BY <1>3, <2>2
    <3>2. Replaces(<<a>> \o SubSeq(s, 3, Len(s)), 1, <<a>>, s, 2)
      BY <1>2, <1>3, <3>1, InFront, Zenon
    <3> QED
      BY <2>7, <2>9, <3>2, Zenon
  <2>11. /\ \A i \in 1 .. 1 : IsCall(u[i])
         /\ \A i \in 1 .. 1 - 1 : CalledBy(u[i], u[i + 1])
         /\ Innermost(u[1]) /\ CalledBy(u[1], s[2 + 1])
    BY <2>8, <2>9
  <2>12. Fits(s, 2, 1, u)
    BY <2>2, <2>11 DEF Fits
  <2> QED
    BY <1>1, <1>2, <1>3, <2>2, <2>10, <2>12, StackStep
<1> QED
  BY <1>4, <1>5

\* Calls on top of each other.
LEMMA Chained ==
    ASSUME NEW a, NEW b, NEW c
    PROVE  <<b>> \o <<c>> = <<b, c>> /\ (<<a>> \o <<b>>) \o <<c>> = <<a, b, c>>
<1>1. PICK S : a \in S /\ b \in S /\ c \in S
  <2>1. a \in {a, b, c} /\ b \in {a, b, c} /\ c \in {a, b, c}
    OBVIOUS
  <2> QED
    BY <2>1
<1>2. <<a>> \in Seq(S) /\ <<b>> \in Seq(S) /\ <<c>> \in Seq(S)
  BY <1>1
<1>3. \A x, y \in S : <<x>> \o <<y>> = <<x, y>>
  <2> SUFFICES ASSUME NEW x \in S, NEW y \in S PROVE <<x>> \o <<y>> = <<x, y>>
    OBVIOUS
  <2>1. PICK t \in Seq(S) : t = <<x>> \o <<y>>
    <3>1. <<x>> \in Seq(S) /\ <<y>> \in Seq(S)
      OBVIOUS
    <3> QED
      BY <3>1, ConcatProperties, Zenon
  <2>2. Len(t) = 2 /\ t[1] = x /\ t[2] = y
    BY <2>1
  <2>3. t = <<x, y>>
    BY <2>2
  <2> QED
    BY <2>1, <2>3
<1>4. <<a, b>> \o <<c>> = <<a, b, c>>
  <2>1. PICK t \in Seq(S) : t = <<a, b>> \o <<c>>
    <3>1. <<a, b>> \in Seq(S) /\ <<c>> \in Seq(S)
      BY <1>1
    <3> QED
      BY <3>1, ConcatProperties, Zenon
  <2>2. Len(t) = 3 /\ t[1] = a /\ t[2] = b /\ t[3] = c
    BY <1>1, <2>1
  <2>3. t = <<a, b, c>>
    BY <2>2
  <2> QED
    BY <2>1, <2>3
<1> QED
  BY <1>1, <1>3, <1>4

\* The next datum is got: from its producer, if that has not run; of a datum
\* nobody makes the program knows nothing.
LEMMA PrefetchStep ==
    ASSUME IndInv, Prefetch
    PROVE  IndInv'
<1>1. PICK s, c : s = stack /\ c = Top
  OBVIOUS
<1>2. PICK key : key = Head(c.rest)
  OBVIOUS
<1>3. /\ phase = "event" /\ s # <<>> /\ c.op = "prefetch" /\ c.rest # <<>>
      /\ UNCHANGED <<setup, moduleState, m_seenEvents, runs, unset>>
      /\ IF key \notin DOMAIN m_lookupMap
           THEN phase' = "exit" /\ UNCHANGED stack
           ELSE /\ stack' = (GetDatum(c.mod, key) \o <<[c EXCEPT !.rest = Tail(@)]>>) \o Tail(s)
                /\ UNCHANGED phase
  BY <1>1, <1>2 DEF Prefetch, Inside, Become
<1>4. /\ s \in Seq(Range(s)) /\ Len(s) \in Nat
      /\ 1 <= Len(s) /\ (Len(s) = 1 \/ Len(s) >= 2) /\ IsCall(c) /\ Innermost(c) /\ Len(s) # 1
      /\ (Len(s) >= 2 => CalledBy(c, s[2]))
  BY <1>1, <1>3, Within
<1>5. CASE key \notin DOMAIN m_lookupMap
  <2> USE DEF IndInv, setup, moduleState
  <2>1. phase' = "exit" /\ stack' = stack
    BY <1>3, <1>5
  <2>2. Types'
    BY <1>3, <2>1 DEF Types
  <2>3. Made' /\ LookupMade'
    BY <1>3, <2>1, MadeStays
  <2>4. RunMeansPut' /\ RunsOnce'
    BY <2>1 DEF RunMeansPut, RunsOnce
  <2>5. StackMade'
    BY <1>3, <2>1, SameCalls
  <2> QED
    BY <2>2, <2>3, <2>4, <2>5
<1>6. CASE key \in DOMAIN m_lookupMap
  <2>1. PICK n : n = Maker(key)
    OBVIOUS
  <2>2. n \in DOMAIN module
    BY <1>6, <2>1 DEF IndInv, LookupMade
  <2>3. PICK G : G = Range(module[c.mod].m_getters)
    OBVIOUS
  <2>4. /\ c = [op |-> "prefetch", mod |-> c.mod, rest |-> c.rest]
        /\ c.mod \in DOMAIN module /\ ~m_wasRun[c.mod] /\ c.rest \in Seq(G)
    BY <1>3, <1>4, <2>3 DEF IsCall
  <2>5. PICK r : r = Tail(c.rest)
    OBVIOUS
  <2>6. /\ r \in Seq(G) /\ key \in G
        /\ \A x \in Range(c.rest) : x = key \/ x \in Range(r)
    BY <1>2, <1>3, <2>4, <2>5, HeadAndTail
  <2>7. PICK d : d = [op |-> "prefetch", mod |-> c.mod, rest |-> r]
    OBVIOUS
  <2>8. [c EXCEPT !.rest = Tail(@)] = d
    <3>1. [c EXCEPT !.rest = r] = d
      BY <2>4, <2>7
    <3>2. [c EXCEPT !.rest = Tail(@)] = [c EXCEPT !.rest = r]
      BY <2>4, <2>5
    <3> QED
      BY <3>1, <3>2, Zenon
  <2>9. PICK e : e = [op |-> "set", mod |-> c.mod, key |-> key]
    OBVIOUS
  <2>10. IsCall(d)
    BY <2>3, <2>4, <2>6, <2>7 DEF IsCall
  <2>11. IsCall(e)
    BY <1>6, <2>4, <2>9 DEF IsCall
  <2>12. GotBut(d, key)
    <3>1. \A x \in G : x \in Range(c.rest) \/ Got(c.mod, x)
      BY <1>3, <1>4, <2>3 DEF Innermost
    <3>2. d.mod = c.mod /\ d.rest = r
      BY <2>7
    <3> QED
      BY <2>3, <2>6, <3>1, <3>2 DEF GotBut
  <2>13. CalledBy(e, d)
    BY <2>3, <2>6, <2>7, <2>9, <2>12 DEF CalledBy
  <2>14. Len(s) >= 2 /\ CalledBy(d, s[2])
    <3>1. Len(s) >= 2 /\ CalledBy(c, s[2])
      BY <1>4, Zenon
    <3>2. d.op = "prefetch" /\ d.mod = c.mod
      BY <2>7
    <3> QED
      BY <1>3, <3>1, <3>2 DEF CalledBy
  <2>15. CASE m_wasRun[n]
    <3>1. PICK u : u = <<e, d>>
      OBVIOUS
    <3>2. stack' = u \o Tail(s)
      <4>1. GetDatum(c.mod, key) = <<e>>
        BY <2>1, <2>9, <2>15 DEF GetDatum, Maker
      <4>2. <<e>> \o <<d>> = <<e, d>>
        BY Chained
      <4> QED
        BY <1>3, <1>6, <2>8, <3>1, <4>1, <4>2
    <3>3. Replaces(stack', 2, u, s, 1)
      BY <1>3, <1>4, <3>1, <3>2, InFront
    <3>4. Innermost(e)
      BY <2>1, <2>9, <2>15 DEF Innermost
    <3>5. /\ \A i \in 1 .. 2 : IsCall(u[i])
          /\ \A i \in 1 .. 2 - 1 : CalledBy(u[i], u[i + 1])
          /\ Innermost(u[1]) /\ CalledBy(u[2], s[2])
      BY <2>10, <2>11, <2>13, <2>14, <3>1, <3>4
    <3>6. Fits(s, 1, 2, u)
      BY <2>14, <3>5 DEF Fits
    <3> QED
      BY <1>1, <1>3, <1>4, <1>6, <3>3, <3>6, StackStep
  <2>16. CASE ~m_wasRun[n]
    <3>0. PICK p : p = PrefetchFor(n)
      OBVIOUS
    <3>1. PICK u : u = <<p, e, d>>
      OBVIOUS
    <3>2. stack' = u \o Tail(s)
      <4>1. GetDatum(c.mod, key) = <<p>> \o <<e>>
        BY <2>1, <2>9, <2>16, <3>0 DEF GetDatum, Maker
      <4>2. (<<p>> \o <<e>>) \o <<d>> = <<p, e, d>>
        BY Chained
      <4> QED
        BY <1>3, <1>6, <2>8, <3>1, <4>1, <4>2
    <3>3. Replaces(stack', 3, u, s, 1)
      BY <1>3, <1>4, <3>1, <3>2, InFront
    <3>4. IsCall(p) /\ Innermost(p) /\ p.op = "prefetch" /\ p.mod = n
      BY <2>2, <2>16, <3>0, Prefetching DEF IndInv
    <3>5. CalledBy(p, e)
      BY <2>1, <2>9, <3>4 DEF CalledBy
    <3>6. /\ \A i \in 1 .. 3 : IsCall(u[i])
          /\ \A i \in 1 .. 3 - 1 : CalledBy(u[i], u[i + 1])
          /\ Innermost(u[1]) /\ CalledBy(u[3], s[2])
      BY <2>10, <2>11, <2>13, <2>14, <3>1, <3>4, <3>5
    <3>7. Fits(s, 1, 3, u)
      BY <2>14, <3>6 DEF Fits
    <3> QED
      BY <1>1, <1>3, <1>4, <1>6, <3>3, <3>7, StackStep
  <2> QED
    BY <2>15, <2>16
<1> QED
  BY <1>5, <1>6

\* A Getter is set with what its producer has put in this event, and the module
\* goes on with the next.
LEMMA SetGetterStep ==
    ASSUME IndInv, SetGetter
    PROVE  IndInv'
<1>1. PICK s, c : s = stack /\ c = Top
  OBVIOUS
<1>2. PICK g, x : g = <<c.mod, c.key>> /\ x = m_lookupMap[c.key].put
  OBVIOUS
<1>3. /\ phase = "event" /\ s # <<>> /\ c.op = "set"
      /\ m_value' = Join(m_value, [y \in {g} |-> x])
      /\ stack' = <<>> \o Tail(s)
      /\ UNCHANGED <<phase, setup, m_wasRun, m_keep, m_lookupMap, m_seenEvents, runs, unset>>
  BY <1>1, <1>2 DEF SetGetter, Inside, Become
<1>4. /\ s \in Seq(Range(s)) /\ Len(s) \in Nat
      /\ 1 <= Len(s) /\ (Len(s) = 1 \/ Len(s) >= 2) /\ IsCall(c) /\ Innermost(c) /\ Len(s) # 1
      /\ (Len(s) >= 2 => IsCall(s[2]) /\ CalledBy(c, s[2]))
      /\ \A i \in 1 .. Len(s) : IsCall(s[i])
  BY <1>1, <1>3, Within
<1>5. PICK d : d = s[2]
  OBVIOUS
<1>6. Len(s) >= 2 /\ IsCall(d) /\ CalledBy(c, d)
  BY <1>4, <1>5, Zenon
<1>7. d.op = "prefetch" /\ c.mod = d.mod /\ GotBut(d, c.key)
  BY <1>3, <1>6 DEF CalledBy
<1>8. c.key \in DOMAIN m_lookupMap /\ m_wasRun[Maker(c.key)]
  BY <1>3, <1>4 DEF IsCall, Innermost
<1>9. /\ x \in 0 .. iterations
      /\ x = m_seenEvents \/ SeemedRun(Maker(c.key))
  BY <1>2, <1>3, <1>8 DEF IndInv, LookupMade, RunMeansPut
<1>10. /\ DOMAIN m_value' = DOMAIN m_value \cup {g} /\ m_value'[g] = x
       /\ \A y \in DOMAIN m_value \ {g} : m_value'[y] = m_value[y]
  <2>1. PICK a, b : a = m_value /\ b = m_value'
    OBVIOUS
  <2>2. PICK e : e = [y \in {g} |-> x]
    OBVIOUS
  <2>3. b = Join(a, e) /\ DOMAIN e = {g} /\ e[g] = x
    BY <1>3, <2>1, <2>2
  <2>4. /\ DOMAIN b = DOMAIN a \cup {g} /\ b[g] = e[g]
        /\ \A y \in DOMAIN a \ {g} : b[y] = a[y]
    BY <2>3 DEF Join
  <2> QED
    BY <2>1, <2>3, <2>4
<1>11. /\ Made' /\ LookupMade' /\ FoundFilters' = FoundFilters
       /\ \A key : Maker(key)' = Maker(key)
  BY <1>3, <1>4, MadeStays DEF IndInv
<1>12. \A n : SeemedRun(n)' <=> SeemedRun(n)
  BY <1>3 DEF SeemedRun
<1>13. Got(c.mod, c.key)'
  BY <1>2, <1>3, <1>8, <1>9, <1>10, <1>11, <1>12 DEF Got
<1>14. \A m, key : Got(m, key) => Got(m, key)'
  <2> SUFFICES ASSUME NEW m, NEW key, Got(m, key) PROVE Got(m, key)'
    OBVIOUS
  <2>1. CASE <<m, key>> = g
    <3>1. m = c.mod /\ key = c.key
      BY <1>2, <2>1
    <3> QED
      BY <1>13, <3>1
  <2>2. CASE <<m, key>> # g
    BY <1>3, <1>10, <1>11, <1>12, <2>2 DEF Got
  <2> QED
    BY <2>1, <2>2
<1>15. Keeps
  BY <1>3, <1>11, <1>14 DEF Keeps, setup
<1>16. StackMade'
  <2>1. Replaces(stack', 0, <<>>, s, 1)
    BY <1>3, <1>4, InFront
  <2>2. Innermost(s[2])'
    <3>1. \A key \in Range(module[d.mod].m_getters) : key \in Range(d.rest) \/ Got(d.mod, key)'
      BY <1>7, <1>13, <1>14 DEF GotBut
    <3>2. Innermost(d)'
      BY <1>3, <1>7, <3>1 DEF Innermost, setup
    <3> QED
      BY <1>5, <3>2
  <2>3. \A i \in 1 + 1 .. Len(s) : s[i].op = "prefetch" => ~m_wasRun'[s[i].mod]
    <3> SUFFICES ASSUME NEW i \in 2 .. Len(s), s[i].op = "prefetch" PROVE ~m_wasRun[s[i].mod]
      BY <1>3
    <3>1. IsCall(s[i])
      BY <1>4
    <3> QED
      BY <3>1 DEF IsCall
  <2>4. StackMade /\ phase' = "event"
    BY <1>3, <1>4 DEF IndInv
  <2> QED
    BY <1>1, <1>4, <1>6, <1>15, <2>1, <2>2, <2>3, <2>4, NextStack
<1>17. Types'
  <2>1. \A y \in DOMAIN m_value' : m_value'[y] \in 0 .. iterations
    BY <1>9, <1>10 DEF IndInv, Types
  <2> QED
    BY <1>3, <2>1 DEF IndInv, Types
<1>18. RunMeansPut' /\ RunsOnce'
  <2>1. RunMeansPut'
    BY <1>3, <1>4, <1>11, <1>12 DEF IndInv, RunMeansPut
  <2>2. RunsOnce'
    BY <1>3 DEF IndInv, RunsOnce
  <2> QED
    BY <2>1, <2>2
<1> QED
  BY <1>11, <1>16, <1>17, <1>18 DEF IndInv

\* A module works when it has got its data.  Its other calls, of which there can
\* be some if producers get from each other in a circle, would wait for a
\* producer that has not run: there is none left.
LEMMA WorkStep ==
    ASSUME IndInv, Work
    PROVE  IndInv'
<1>1. PICK s, c : s = stack /\ c = Top
  OBVIOUS
<1>2. PICK m : m = c.mod
  OBVIOUS
<1>3. /\ phase = "event" /\ s # <<>> /\ c.op = "prefetch" /\ c.rest = <<>>
      /\ m_wasRun' = [m_wasRun EXCEPT ![m] = TRUE]
      /\ runs' = [runs EXCEPT ![m] = @ + 1]
      /\ IF m \in Filters THEN FilterWorks(m) ELSE Put(m)
      /\ stack' = <<>> \o Tail(s)
      /\ UNCHANGED <<phase, setup, m_value, m_seenEvents, unset>>
  BY <1>1, <1>2 DEF Work, Inside, Become
<1>4. /\ m_seenEvents \in 1 .. iterations
      /\ s \in Seq(Range(s)) /\ Len(s) \in Nat
      /\ 1 <= Len(s) /\ (Len(s) = 1 \/ Len(s) >= 2) /\ c = s[1] /\ IsCall(c) /\ Innermost(c)
      /\ Len(s) # 1 /\ (Len(s) >= 2 => IsCall(s[2]) /\ CalledBy(c, s[2]))
      /\ \A i \in 1 .. Len(s) : IsCall(s[i])
      /\ \A i \in 1 .. Len(s) - 1 : CalledBy(s[i], s[i + 1])
  BY <1>1, <1>3, Within
<1>5. m \in DOMAIN module /\ ~m_wasRun[m] /\ m \in Modules /\ IsModule(module[m])
      /\ (m \in IF module[m].base = "filter" THEN Filters ELSE Producers)
  <2>1. m \in DOMAIN module /\ ~m_wasRun[m]
    BY <1>2, <1>3, <1>4 DEF IsCall
  <2>2. IsModule(module[m]) /\ (m \in IF module[m].base = "filter" THEN Filters ELSE Producers)
    BY <2>1 DEF IndInv, Made
  <2> QED
    BY <2>1, <2>2 DEF Modules
<1>6. \A key \in Range(module[m].m_getters) : Got(m, key)
  BY <1>2, <1>3, <1>4 DEF Innermost, Range
<1>7. /\ m_wasRun' \in [Modules -> BOOLEAN] /\ m_wasRun'[m]
      /\ \A n \in Modules : n # m => m_wasRun'[n] = m_wasRun[n]
  <2>1. m_wasRun \in [Modules -> BOOLEAN]
    BY DEF IndInv, Types
  <2> QED
    BY <1>3, <1>5, <2>1
<1>8. \A n \in Modules : m_wasRun[n] => m_wasRun'[n]
  BY <1>5, <1>7
<1>9. runs' \in [Modules -> 0 .. 1] /\ \A n \in Modules : runs'[n] = 1 => m_wasRun'[n]
  <2>1. runs \in [Modules -> 0 .. 1] /\ \A n \in Modules : runs[n] = 1 => m_wasRun[n]
    BY <1>3 DEF IndInv, Types, RunsOnce
  <2>2. runs[m] = 0
    BY <1>5, <2>1
  <2>3. runs' = [runs EXCEPT ![m] = 1]
    BY <1>3, <2>2
  <2>4. \A n \in Modules : n # m => runs'[n] = runs[n]
    BY <2>1, <2>3
  <2>5. runs' \in [Modules -> 0 .. 1]
    <3>1. 1 \in 0 .. 1
      OBVIOUS
    <3> QED
      BY <2>1, <2>3, <3>1
  <2> QED
    BY <1>7, <1>8, <2>1, <2>4, <2>5
<1>10. \A key \in DOMAIN m_lookupMap :
          /\ Maker(key) \in Producers /\ Maker(key) \in Modules
          /\ m_lookupMap[key] \in [producer : Producers, put : 0 .. iterations]
          /\ Maker(key) \in DOMAIN module /\ module[Maker(key)].base = "producer"
          /\ key = <<Maker(key), "">>
  BY DEF IndInv, LookupMade, Maker, Modules
\* What the work does to the Event.
<1>11. /\ DOMAIN m_lookupMap' = DOMAIN m_lookupMap
       /\ m_keep' \in [Filters -> BOOLEAN]
       /\ \A key \in DOMAIN m_lookupMap :
             /\ m_lookupMap'[key] \in [producer : Producers, put : 0 .. iterations]
             /\ m_lookupMap'[key].producer = m_lookupMap[key].producer
             /\ m_lookupMap'[key].put \in {m_lookupMap[key].put, m_seenEvents}
             /\ Maker(key) = m => m_lookupMap'[key].put = m_seenEvents
  <2>0. m_keep \in [Filters -> BOOLEAN]
    BY DEF IndInv, Types
  <2>1. CASE m \in Filters
    <3>1. PICK keep \in IF m \in MayReject THEN BOOLEAN ELSE {module[m].keep} :
             m_keep' = [m_keep EXCEPT ![m] = keep]
      BY <1>3, <2>1 DEF FilterWorks
    <3>2. keep \in BOOLEAN
      BY <1>5, <3>1 DEF IsModule
    <3>3. m_lookupMap' = m_lookupMap
      BY <1>3, <2>1 DEF FilterWorks
    <3>4. m_keep' \in [Filters -> BOOLEAN]
      BY <2>0, <3>1, <3>2
    <3>5. \A key \in DOMAIN m_lookupMap : Maker(key) # m
      BY <1>10, <2>1, Apart
    <3> QED
      BY <1>10, <3>3, <3>4, <3>5
  <2>2. CASE m \notin Filters
    <3>1. m_keep' = m_keep
      BY <1>3, <2>2 DEF Put
    <3>2. m_lookupMap' = [key \in DOMAIN m_lookupMap |->
             IF key \in {m} \X module[m].m_products
               THEN [m_lookupMap[key] EXCEPT !.put = m_seenEvents]
               ELSE m_lookupMap[key]]
      BY <1>3, <2>2 DEF Put
    <3>3. module[m].m_products = {""}
      BY <1>5, <2>2 DEF IsModule
    <3>4. ASSUME NEW key \in DOMAIN m_lookupMap
          PROVE  /\ m_lookupMap'[key] \in [producer : Producers, put : 0 .. iterations]
                 /\ m_lookupMap'[key].producer = m_lookupMap[key].producer
                 /\ m_lookupMap'[key].put \in {m_lookupMap[key].put, m_seenEvents}
                 /\ Maker(key) = m => m_lookupMap'[key].put = m_seenEvents
      <4>1. PICK e \in [producer : Producers, put : 0 .. iterations] : e = m_lookupMap[key]
        BY <1>10
      <4>2. CASE key \in {m} \X module[m].m_products
        <5>1. m_lookupMap'[key] = [e EXCEPT !.put = m_seenEvents]
          BY <3>2, <4>1, <4>2
        <5>2. m_seenEvents \in 0 .. iterations
          BY <1>4
        <5> QED
          BY <4>1, <5>1, <5>2
      <4>3. CASE key \notin {m} \X module[m].m_products
        <5>1. m_lookupMap'[key] = e
          BY <3>2, <4>1, <4>3
        <5>2. Maker(key) # m
          <6>1. <<m, "">> \in {m} \X module[m].m_products
            BY <3>3
          <6> QED
            BY <1>10, <4>3, <6>1
        <5> QED
          BY <4>1, <5>1, <5>2
      <4> QED
        BY <4>2, <4>3
    <3> QED
      BY <2>0, <3>1, <3>2, <3>4
  <2> QED
    BY <2>1, <2>2
<1>12. \A key \in DOMAIN m_lookupMap : Maker(key)' = Maker(key)
  BY <1>11 DEF Maker
<1>13. FoundFilters' = FoundFilters /\ Made'
  <2>1. FoundFilters' = FoundFilters
    BY <1>3 DEF FoundFilters, setup
  <2> QED
    BY <1>3, <1>4, <1>11, <2>1 DEF IndInv, Made, setup
<1>14. LookupMade'
  <2>1. module' = module
    BY <1>3 DEF setup
  <2> SUFFICES ASSUME NEW key \in DOMAIN m_lookupMap
               PROVE  /\ m_lookupMap'[key] \in [producer : Producers, put : 0 .. iterations]
                      /\ Maker(key)' \in DOMAIN module /\ module[Maker(key)'].base = "producer"
                      /\ key = <<Maker(key)', "">>
    BY <1>11, <2>1 DEF LookupMade
  <2>2. Maker(key)' = Maker(key)
    BY <1>12
  <2>3. Maker(key) \in DOMAIN module /\ module[Maker(key)].base = "producer"
        /\ key = <<Maker(key), "">>
    BY <1>10
  <2> QED
    BY <1>11, <2>2, <2>3
<1>15. \A n : SeemedRun(n)' <=> SeemedRun(n)
  BY <1>3 DEF SeemedRun
<1>16. RunMeansPut'
  <2> SUFFICES ASSUME NEW key \in DOMAIN m_lookupMap, m_wasRun'[Maker(key)]
               PROVE  m_lookupMap'[key].put = m_seenEvents \/ SeemedRun(Maker(key))
    BY <1>3, <1>4, <1>11, <1>12, <1>15 DEF RunMeansPut
  <2>1. CASE Maker(key) = m
    BY <1>11, <2>1
  <2>2. CASE Maker(key) # m
    <3>1. m_lookupMap[key].put = m_seenEvents \/ SeemedRun(Maker(key))
      BY <1>3, <1>7, <1>10, <2>2 DEF IndInv, RunMeansPut
    <3> QED
      BY <1>11, <3>1
  <2> QED
    BY <2>1, <2>2
<1>17. RunsOnce'
  BY <1>9 DEF RunsOnce
<1>18. Types'
  <2>1. m_value' = m_value /\ m_seenEvents' = m_seenEvents /\ phase' = phase /\ unset' = unset
    BY <1>3
  <2> QED
    BY <1>7, <1>9, <1>11, <2>1 DEF IndInv, Types
<1>19. Keeps
  <2>1. \A x, key : Got(x, key) => Got(x, key)'
    BY <1>3, <1>8, <1>10, <1>11, <1>12, <1>15 DEF Got
  <2> QED
    BY <1>3, <1>11, <1>12, <2>1 DEF Keeps, setup
\* Nothing else is waiting in m.
<1>20. ASSUME NEW i \in 2 .. Len(s), s[i].op = "prefetch"
       PROVE  s[i].mod # m
  <2>1. PICK l \in Nat : l = Len(s)
    BY <1>4
  <2>2. PICK d, e : d = s[i] /\ e = s[i - 1]
    OBVIOUS
  <2>3. CalledBy(e, d)
    <3>1. i - 1 \in 1 .. Len(s) - 1 /\ (i - 1) + 1 = i
      BY <2>1
    <3> QED
      BY <1>4, <2>2, <3>1
  <2>4. e.op = "set" /\ e.mod = d.mod /\ e.key \in Range(module[d.mod].m_getters)
    BY <1>20, <2>2, <2>3 DEF CalledBy
  <2>5. i - 1 # 1
    BY <1>3, <1>4, <2>2, <2>4
  <2>6. PICK b : b = s[i - 2]
    OBVIOUS
  <2>7. IsCall(b) /\ CalledBy(b, e)
    <3>1. i - 2 \in 1 .. Len(s) - 1 /\ (i - 2) + 1 = i - 1 /\ i - 2 \in 1 .. Len(s)
      BY <2>1, <2>5
    <3> QED
      BY <1>4, <2>2, <2>6, <3>1
  <2>8. b.op = "prefetch" /\ b.mod = Maker(e.key)
    BY <2>4, <2>7 DEF CalledBy
  <2>9. ~m_wasRun[Maker(e.key)]
    BY <2>7, <2>8 DEF IsCall
  <2> QED
    BY <1>6, <2>2, <2>4, <2>9 DEF Got
<1>21. StackMade'
  <2>1. Replaces(stack', 0, <<>>, s, 1)
    BY <1>3, <1>4, InFront
  <2>2. Len(s) >= 2 /\ IsCall(s[2]) /\ CalledBy(c, s[2])
    BY <1>4, Zenon
  <2>3. Innermost(s[2])'
    <3>1. s[2].op # "prefetch" /\ (s[2].op = "set" => m = Maker(s[2].key))
      BY <1>2, <1>3, <2>2 DEF CalledBy
    <3>2. s[2].op = "set" => s[2].key \in DOMAIN m_lookupMap
      BY <2>2 DEF IsCall
    <3>3. s[2].op = "set" => m_wasRun'[Maker(s[2].key)']
      BY <1>7, <1>12, <3>1, <3>2
    <3> QED
      BY <3>1, <3>3 DEF Innermost
  <2>4. \A i \in 1 + 1 .. Len(s) : s[i].op = "prefetch" => ~m_wasRun'[s[i].mod]
    <3> SUFFICES ASSUME NEW i \in 2 .. Len(s), s[i].op = "prefetch" PROVE ~m_wasRun'[s[i].mod]
      OBVIOUS
    <3>1. IsCall(s[i]) /\ s[i].mod # m
      BY <1>4, <1>20
    <3>2. s[i].mod \in DOMAIN module /\ ~m_wasRun[s[i].mod]
      BY <3>1 DEF IsCall
    <3>3. s[i].mod \in Modules
      BY <3>2 DEF IndInv, Made, Modules
    <3> QED
      BY <1>7, <3>1, <3>2, <3>3
  <2>5. StackMade /\ phase' = "event"
    BY <1>3, <1>4 DEF IndInv
  <2> QED
    BY <1>1, <1>4, <1>19, <2>1, <2>2, <2>3, <2>4, <2>5, NextStack
<1> QED
  BY <1>13, <1>14, <1>16, <1>17, <1>18, <1>21 DEF IndInv

-----------------------------------------------------------------------------
(* The theorems. *)

\* Every step keeps IndInv.
LEMMA NextInv == IndInv /\ [Next]_vars => IndInv'
<1> SUFFICES ASSUME IndInv, [Next]_vars PROVE IndInv'
  OBVIOUS
<1>1. CASE AddFilter
  BY <1>1, AddFilterStep
<1>2. CASE AddProducer
  BY <1>2, AddProducerStep
<1>3. CASE AddPath
  BY <1>3, AddPathStep
<1>4. CASE NextEvent
  BY <1>4, NextEventStep
<1>5. CASE NoMoreEvents
  BY <1>5, NoMoreEventsStep
<1>6. CASE ResetEvent
  BY <1>6, ResetEventStep
<1>7. CASE RunPath
  BY <1>7, RunPathStep
<1>8. CASE RunFilter
  BY <1>8, RunFilterStep
<1>9. CASE DoFilter
  BY <1>9, DoFilterStep
<1>10. CASE Prefetch
  BY <1>10, PrefetchStep
<1>11. CASE SetGetter
  BY <1>11, SetGetterStep
<1>12. CASE Work
  BY <1>12, WorkStep
<1>13. CASE UNCHANGED vars
  BY <1>13, StutterStep
<1> QED
  BY <1>1, <1>2, <1>3, <1>4, <1>5, <1>6, <1>7, <1>8, <1>9, <1>10, <1>11, <1>12, <1>13
     DEF Next

\* IndInv is an invariant of the specification.
THEOREM Invariance == Spec => []IndInv
  BY InitInv, NextInv, PTL DEF Spec

\* The variables have their types; among them, no module runs twice in an event.
THEOREM TypeCorrect == Spec => []TypeOK
<1>1. IndInv => TypeOK
  <2> SUFFICES ASSUME IndInv PROVE TypeOK
    OBVIOUS
  <2>1. DOMAIN module \subseteq Modules
    BY DEF IndInv, Made, Modules
  <2>2. FoundFilters \subseteq Filters
    BY DEF IndInv, Made, FoundFilters
  <2>3. ASSUME NEW i \in DOMAIN m_paths PROVE Range(m_paths[i]) \subseteq Filters
    <3>1. m_paths[i] \in Seq(FoundFilters)
      BY DEF IndInv, Made
    <3>2. PICK p \in Seq(FoundFilters) : p = m_paths[i]
      BY <3>1
    <3>3. Range(p) \subseteq FoundFilters
      BY RangeOfSeq
    <3> QED
      BY <2>2, <3>2, <3>3
  <2> QED
    BY <2>1, <2>3 DEF IndInv, Types, TypeOK
<1> QED
  BY <1>1, Invariance, PTL

\* What a module reads when it works was put in the event it works for, though
\* the Event keeps its data from one event to the next and a Getter what it was
\* set to: Event::reset makes the producers run again, and a Getter is set by
\* each call of Module::prefetch.
THEOREM ReadsFreshData == Spec => []FreshData
<1>1. IndInv => FreshData
  <2> SUFFICES ASSUME IndInv, Inside("prefetch"), Top.rest = <<>>,
                      NEW i \in DOMAIN module[Top.mod].reads
               PROVE  LET key == module[Top.mod].reads[i]
                      IN \/ m_value[<<Top.mod, key>>] = m_seenEvents
                         \/ m_seenEvents = 1 /\ m_lookupMap[key].producer \in unset
    BY DEF FreshData
  <2>1. PICK s, c : s = stack /\ c = Top
    OBVIOUS
  <2>2. phase = "event" /\ s # <<>> /\ c.op = "prefetch" /\ c.rest = <<>>
    BY <2>1 DEF Inside
  <2>3. IsCall(c) /\ Innermost(c)
    BY <2>1, <2>2, Within
  <2>4. PICK m, key : m = c.mod /\ key = module[m].reads[i]
    OBVIOUS
  <2>5. IsModule(module[m])
    BY <2>2, <2>3, <2>4 DEF IsCall, IndInv, Made
  <2>6. key \in Range(module[m].m_getters)
    BY <2>1, <2>4, <2>5 DEF IsModule, Range
  <2>7. Got(m, key)
    BY <2>2, <2>3, <2>4, <2>6 DEF Innermost, Range
  <2> QED
    BY <2>1, <2>4, <2>7 DEF Got, SeemedRun, Maker
<1> QED
  BY <1>1, Invariance, PTL

-----------------------------------------------------------------------------
(* What makes the later events those of EventStream, in parts. *)

\* Every module is what its configuration makes of it.
AsConfigured == \A l \in DOMAIN module : module[l] = Created(l)

\* The paths are those of the configuration, as far as they have been read.
PathsRead ==
    /\ \A i \in 1 .. Len(m_paths) : m_paths[i] = paths[i]
    /\ phase = "paths" =>
          /\ Len(m_paths) + Len(rest) = Len(paths)
          /\ \A i \in 1 .. Len(rest) : rest[i] = paths[Len(m_paths) + i]
    /\ phase \in {"source", "event"} => Len(m_paths) = Len(paths)

\* What has run according to its memory has run in this event: a filter on a path
\* always, a producer from the second event on.
Ran ==
    phase = "event" =>
        /\ \A f \in OnPaths : m_wasRun[f] => runs[f] = 1
        /\ m_seenEvents > 1 =>
              \A key \in DOMAIN m_lookupMap : m_wasRun[Maker(key)] => runs[Maker(key)] = 1

\* Path p has come to its i-th filter, and to its end.
Accepted(f) == runs[f] = 1 /\ m_keep[f]
Come(p, i) == \A j \in 1 .. i - 1 : Accepted(paths[p][j])
Over(p) ==
    \/ Come(p, Len(paths[p]) + 1)
    \/ \E i \in 1 .. Len(paths[p]) :
          Come(p, i) /\ runs[paths[p][i]] = 1 /\ ~m_keep[paths[p][i]]

\* What is left of path p is r.
Left(p, r) ==
    \/ r = <<>> /\ Over(p)
    \/ \E i \in 1 .. Len(paths[p]) :
          /\ Come(p, i) /\ Len(r) = Len(paths[p]) + 1 - i
          /\ \A j \in 1 .. Len(r) : r[j] = paths[p][i + j - 1]

\* In the calls s the first k paths have been run, or the last of them is.
PathsRun(s, k) ==
    /\ Len(s[Len(s)].rest) = Len(paths) - k
    /\ \A i \in 1 .. Len(paths) - k : s[Len(s)].rest[i] = paths[k + i]
    /\ Len(s) = 1 => \A p \in 1 .. k : Over(p)
    /\ Len(s) > 1 => /\ k > 0 /\ Left(k, s[Len(s) - 1].rest)
                     /\ \A p \in 1 .. k - 1 : Over(p)

InSequence == phase = "event" /\ stack # <<>> => \E k \in 0 .. Len(paths) : PathsRun(stack, k)

StreamInv == IndInv /\ AsConfigured /\ PathsRead /\ Ran /\ InSequence


\* A configuration is found by its label.
LEMMA OneConfigured ==
    ASSUME NEW c \in Range(filters) \cup Range(producers)
    PROVE  Configured(c.label) = c
<1>1. PICK s : s = filters \o producers
  OBVIOUS
<1>2. filters \in Seq(Range(filters)) /\ producers \in Seq(Range(producers))
  BY SingleThreadedAssumption
<1>3. /\ Len(filters) \in Nat /\ DOMAIN filters = 1 .. Len(filters)
      /\ Len(producers) \in Nat /\ DOMAIN producers = 1 .. Len(producers)
  BY <1>2
<1>4. /\ DOMAIN s = 1 .. Len(filters) + Len(producers)
      /\ \A i \in 1 .. Len(filters) : s[i] = filters[i]
      /\ \A i \in 1 .. Len(producers) : s[Len(filters) + i] = producers[i]
  <2>1. s \in Seq(Range(s)) /\ Len(s) = Len(filters) + Len(producers)
    BY <1>1, <1>2, Joint
  <2>2. /\ \A i \in 1 .. Len(filters) : s[i] = filters[i]
        /\ \A i \in 1 .. Len(producers) : s[Len(filters) + i] = producers[i]
    BY <1>1, <1>2, Joint
  <2> QED
    BY <2>1, <2>2
<1>5. \A d \in Range(filters) \cup Range(producers) : \E i \in DOMAIN s : s[i] = d
  <2> SUFFICES ASSUME NEW d \in Range(filters) \cup Range(producers)
               PROVE  \E i \in DOMAIN s : s[i] = d
    OBVIOUS
  <2>1. CASE d \in Range(filters)
    <3>1. PICK i \in 1 .. Len(filters) : filters[i] = d
      BY <1>3, <2>1 DEF Range
    <3> QED
      BY <1>3, <1>4, <3>1
  <2>2. CASE d \in Range(producers)
    <3>1. PICK i \in 1 .. Len(producers) : producers[i] = d
      BY <1>3, <2>2 DEF Range
    <3>2. Len(filters) + i \in 1 .. Len(filters) + Len(producers)
      BY <1>3, <3>1
    <3> QED
      BY <1>4, <3>1, <3>2
  <2> QED
    BY <2>1, <2>2
<1>6. \A i, j \in DOMAIN s : s[i].label = s[j].label => i = j
  BY <1>1, SingleThreadedAssumption
<1>7. \A d \in Range(filters) \cup Range(producers) : d.label = c.label => d = c
  <2> SUFFICES ASSUME NEW d \in Range(filters) \cup Range(producers), d.label = c.label
               PROVE  d = c
    OBVIOUS
  <2>1. PICK i \in DOMAIN s : s[i] = d
    BY <1>5
  <2>2. PICK j \in DOMAIN s : s[j] = c
    BY <1>5
  <2> QED
    BY <1>6, <2>1, <2>2
<1> QED
  BY <1>7 DEF Configured

\* The filters of the paths, when all of them have been made.
LEMMA PathFilter ==
    ASSUME IndInv, PathsRead, phase = "event"
    PROVE  /\ Len(paths) \in Nat /\ OnPaths \subseteq Filters
           /\ \A p \in 1 .. Len(paths) :
                 /\ paths[p] \in Seq(STRING) /\ Len(paths[p]) \in Nat
                 /\ \A i \in 1 .. Len(paths[p]) : paths[p][i] \in OnPaths
<1>1. paths \in Seq(Seq(STRING)) /\ m_paths \in Seq(Seq(FoundFilters))
  BY SingleThreadedAssumption DEF IndInv, Made
<1>2. FoundFilters \subseteq Filters
  BY DEF FoundFilters, IndInv, Made
<1>3. /\ DOMAIN m_paths = 1 .. Len(paths)
      /\ \A p \in 1 .. Len(paths) : m_paths[p] = paths[p] /\ m_paths[p] \in Seq(FoundFilters)
  BY <1>1 DEF PathsRead
<1>4. \A p \in 1 .. Len(paths) : Range(m_paths[p]) \subseteq OnPaths
  BY <1>3 DEF OnPaths
<1>5. OnPaths \subseteq Filters
  <2> SUFFICES ASSUME NEW p \in 1 .. Len(paths) PROVE Range(m_paths[p]) \subseteq Filters
    BY <1>3 DEF OnPaths
  <2>1. PICK path \in Seq(FoundFilters) : path = m_paths[p]
    BY <1>3
  <2>2. Range(path) \subseteq FoundFilters
    BY RangeOfSeq
  <2> QED
    BY <1>2, <2>1, <2>2
<1>6. ASSUME NEW p \in 1 .. Len(paths)
      PROVE  /\ paths[p] \in Seq(STRING) /\ Len(paths[p]) \in Nat
             /\ \A i \in 1 .. Len(paths[p]) : paths[p][i] \in OnPaths
  <2>1. paths[p] \in Seq(STRING)
    BY <1>1
  <2>2. PICK path \in Seq(STRING) : path = paths[p]
    BY <2>1
  <2>3. \A i \in 1 .. Len(path) : path[i] \in Range(path)
    BY DEF Range
  <2> QED
    BY <1>3, <1>4, <2>2, <2>3
<1> QED
  BY <1>1, <1>5, <1>6

\* Before the events: what is made, and read.
LEMMA SetupKeeps ==
    ASSUME IndInv, AsConfigured, PathsRead, AddFilter \/ AddProducer \/ AddPath
    PROVE  AsConfigured' /\ PathsRead' /\ Ran' /\ InSequence'
<1>0. /\ phase \in {"filters", "producers", "paths"} /\ phase' # "event"
      /\ phase # "paths" => phase' # "source"
  BY DEF AddFilter, AddProducer, AddPath, Becomes
<1>1. Ran' /\ InSequence'
  BY <1>0 DEF Ran, InSequence
<1>2. CASE AddFilter
  <2>1. PathsRead'
    <3>1. m_paths' = <<>> /\ phase' \notin {"paths", "source", "event"}
      BY <1>2 DEF AddFilter, Becomes, IndInv, Made
    <3> QED
      BY <3>1 DEF PathsRead
  <2>2. CASE module' = module
    BY <1>1, <2>1, <2>2 DEF AsConfigured
  <2>3. CASE module' # module
    <3>1. rest # <<>> /\ rest \in Seq(Range(filters))
      BY <1>2, <2>3 DEF AddFilter, IndInv, Made
    <3>2. PICK c \in Range(filters) : c = Head(rest)
      BY <3>1
    <3>3. PICK f : f = CreateFilter(c)
      OBVIOUS
    <3>4. f # NoModule /\ module' = Join(module, [x \in {f.label} |-> f])
      BY <1>2, <2>3, <3>1, <3>2, <3>3 DEF AddFilter
    <3>5. IsModule(f) /\ f.base = "filter" /\ f.label = c.label
      BY <3>2, <3>3, <3>4, CreatedFilter, SingleThreadedAssumption
    <3>6. c.label \in Filters
      BY <3>2 DEF Filters, Labels, Range
    <3>7. /\ DOMAIN module' = DOMAIN module \cup {c.label} /\ module'[c.label] = f
          /\ \A x \in DOMAIN module \ {c.label} : module'[x] = module[x]
      BY <3>4, <3>5, <3>6, ModuleMade DEF IndInv
    <3>8. Created(c.label) = f
      BY <3>2, <3>3, <3>6, OneConfigured DEF Created
    <3>9. AsConfigured'
      BY <3>7, <3>8 DEF AsConfigured
    <3> QED
      BY <1>1, <2>1, <3>9
  <2> QED
    BY <2>2, <2>3
<1>3. CASE AddProducer
  <2>1. PathsRead'
    <3>1. m_paths' = <<>> /\ m_paths = <<>> /\ phase' \notin {"source", "event"}
      BY <1>3 DEF AddProducer, Becomes, IndInv, Made
    <3>2. phase' = "paths" => rest' = paths
      BY <1>3 DEF AddProducer, Becomes
    <3>3. Len(paths) \in Nat /\ Len(<<>>) = 0
      BY SingleThreadedAssumption
    <3> QED
      BY <3>1, <3>2, <3>3 DEF PathsRead
  <2>2. CASE module' = module
    BY <1>1, <2>1, <2>2 DEF AsConfigured
  <2>3. CASE module' # module
    <3>1. rest # <<>> /\ rest \in Seq(Range(producers))
      BY <1>3, <2>3 DEF AddProducer, IndInv, Made
    <3>2. PICK c \in Range(producers) : c = Head(rest)
      BY <3>1
    <3>3. PICK n : n = CreateProducer(c)
      OBVIOUS
    <3>4. n # NoModule /\ module' = Join(module, [x \in {n.label} |-> n])
      BY <1>3, <2>3, <3>1, <3>2, <3>3 DEF AddProducer
    <3>5. IsModule(n) /\ n.base = "producer" /\ n.label = c.label
      BY <3>2, <3>3, <3>4, CreatedProducer, SingleThreadedAssumption
    <3>6. c.label \in Producers /\ c.label \notin Filters
      BY <3>2, Apart DEF Producers, Labels, Range
    <3>7. /\ DOMAIN module' = DOMAIN module \cup {c.label} /\ module'[c.label] = n
          /\ \A x \in DOMAIN module \ {c.label} : module'[x] = module[x]
      <4>1. n.label \in IF n.base = "filter" THEN Filters ELSE Producers
        BY <3>5, <3>6
      <4>2. /\ DOMAIN module' = DOMAIN module \cup {n.label} /\ module'[n.label] = n
            /\ \A x \in DOMAIN module \ {n.label} : module'[x] = module[x]
        <5>1. Made /\ IsModule(n) /\ module' = Join(module, [x \in {n.label} |-> n])
          BY <3>4, <3>5 DEF IndInv
        <5> HIDE <1>3
        <5> QED
          BY <4>1, <5>1, ModuleMade
      <4> QED
        BY <3>5, <4>2
    <3>8. Created(c.label) = n
      BY <3>2, <3>3, <3>6, OneConfigured DEF Created
    <3>9. AsConfigured'
      BY <3>7, <3>8 DEF AsConfigured
    <3> QED
      BY <1>1, <2>1, <3>9
  <2> QED
    BY <2>2, <2>3
<1>4. CASE AddPath
  <2>1. AsConfigured'
    BY <1>4 DEF AddPath, AsConfigured
  <2>2. /\ phase = "paths" /\ rest \in Seq(Seq(STRING))
        /\ m_paths \in Seq(Seq(FoundFilters)) /\ Len(paths) \in Nat
    BY <1>4, SingleThreadedAssumption DEF AddPath, IndInv, Made
  <2>3. /\ \A i \in 1 .. Len(m_paths) : m_paths[i] = paths[i]
        /\ Len(m_paths) + Len(rest) = Len(paths)
        /\ \A i \in 1 .. Len(rest) : rest[i] = paths[Len(m_paths) + i]
    BY <2>2 DEF PathsRead
  <2>4. CASE rest = <<>>
    <3>1. phase' = "source" /\ m_paths' = m_paths
      BY <1>4, <2>4 DEF AddPath, Becomes
    <3>2. Len(m_paths) = Len(paths)
      BY <2>2, <2>3, <2>4
    <3>3. PathsRead'
      BY <2>3, <3>1, <3>2 DEF PathsRead
    <3> QED
      BY <1>1, <2>1, <3>3
  <2>5. CASE rest # <<>> /\ ~PathMade(Head(rest))
    <3>1. phase' = "exit" /\ m_paths' = m_paths
      BY <1>4, <2>5 DEF AddPath, Becomes
    <3>2. PathsRead'
      BY <2>3, <3>1 DEF PathsRead
    <3> QED
      BY <1>1, <2>1, <3>2
  <2>6. CASE rest # <<>> /\ PathMade(Head(rest))
    <3>1. phase' = "paths" /\ m_paths' = Append(m_paths, Head(rest)) /\ rest' = Tail(rest)
      BY <1>4, <2>6 DEF AddPath, Becomes
    <3>2. PICK a, b, r : a = m_paths /\ b = m_paths' /\ r = rest
      OBVIOUS
    <3>3. PICK S : a \in Seq(S) /\ r \in Seq(S)
      <4>1. a \in Seq(Seq(FoundFilters) \cup Seq(STRING)) /\ r \in Seq(Seq(FoundFilters) \cup Seq(STRING))
        BY <2>2, <3>2, SeqMonotonic
      <4> QED
        BY <4>1
    <3>4. PICK la, lr \in Nat : la = Len(a) /\ lr = Len(r)
      BY <3>3
    <3>5. /\ b = Append(a, Head(r)) /\ r # <<>> /\ la + lr = Len(paths)
          /\ \A i \in 1 .. la : a[i] = paths[i]
          /\ \A i \in 1 .. lr : r[i] = paths[la + i]
      BY <2>3, <2>6, <3>1, <3>2, <3>4
    <3>6. /\ Len(b) = la + 1 /\ b[la + 1] = r[1] /\ \A i \in 1 .. la : b[i] = a[i]
          /\ lr >= 1
      BY <3>3, <3>4, <3>5
    <3>7. Len(Tail(r)) = lr - 1 /\ \A i \in 1 .. lr - 1 : Tail(r)[i] = r[i + 1]
      BY <3>3, <3>4, <3>5
    <3>8. r[1] = paths[la + 1]
      BY <3>5, <3>6
    <3>9. \A i \in 1 .. la + 1 : b[i] = paths[i]
      BY <3>4, <3>5, <3>6, <3>8
    <3>10. \A i \in 1 .. lr - 1 : Tail(r)[i] = paths[la + 1 + i]
      <4> SUFFICES ASSUME NEW i \in 1 .. lr - 1 PROVE Tail(r)[i] = paths[la + 1 + i]
        OBVIOUS
      <4>1. i + 1 \in 1 .. lr /\ la + (i + 1) = la + 1 + i
        BY <3>4
      <4> QED
        BY <3>5, <3>7, <4>1
    <3>11. (la + 1) + (lr - 1) = Len(paths)
      BY <3>4, <3>5
    <3>12. PathsRead'
      BY <3>1, <3>2, <3>6, <3>7, <3>9, <3>10, <3>11 DEF PathsRead
    <3> QED
      BY <1>1, <2>1, <3>12
  <2> QED
    BY <2>4, <2>5, <2>6
<1> QED
  BY <1>2, <1>3, <1>4


-----------------------------------------------------------------------------
(* How far the paths are. *)

\* The outermost call is that of the Schedule, the next that of a path.
LEMMA Depth ==
    ASSUME IndInv, NEW s, s = stack, s # <<>>
    PROVE  /\ s \in Seq(Range(s)) /\ Len(s) \in Nat /\ Len(s) >= 1
           /\ \A i \in 1 .. Len(s) :
                 /\ IsCall(s[i])
                 /\ s[i].op = "paths" <=> i = Len(s)
                 /\ s[i].op = "path" <=> i = Len(s) - 1
<1>1. s \in Seq(Range(s)) /\ Len(s) \in Nat /\ Len(s) >= 1
  BY DEF IndInv, StackMade
<1>2. PICK l \in Nat : l = Len(s)
  BY <1>1
<1>3. /\ \A i \in 1 .. l : IsCall(s[i])
      /\ \A i \in 1 .. l - 1 : CalledBy(s[i], s[i + 1])
      /\ s[l].op = "paths"
  BY <1>1, <1>2 DEF IndInv, StackMade
<1>4. \A i \in 1 .. l - 1 : s[i].op # "paths"
  BY <1>3 DEF CalledBy
<1>5. \A i \in 1 .. l - 1 : s[i].op = "path" <=> s[i + 1].op = "paths"
  BY <1>3 DEF CalledBy
<1>6. ASSUME NEW i \in 1 .. l
      PROVE  /\ s[i].op = "paths" <=> i = l
             /\ s[i].op = "path" <=> i = l - 1
  <2>1. CASE i = l
    BY <1>2, <1>3, <2>1
  <2>2. CASE i # l
    <3>1. i \in 1 .. l - 1 /\ i + 1 \in 1 .. l
      BY <1>2, <2>2
    <3>2. s[i + 1].op = "paths" <=> i + 1 = l
      <4>1. CASE i + 1 = l
        BY <1>3, <4>1
      <4>2. CASE i + 1 # l
        <5>1. i + 1 \in 1 .. l - 1
          BY <1>2, <3>1, <4>2
        <5> QED
          BY <1>4, <4>2, <5>1
      <4> QED
        BY <4>1, <4>2
    <3> QED
      BY <1>2, <1>4, <1>5, <2>2, <3>1, <3>2
  <2> QED
    BY <2>1, <2>2
<1> QED
  BY <1>1, <1>2, <1>3, <1>6

\* The paths that have been run stay so, when a filter keeps its decision.
LEMMA PathsStill ==
    ASSUME IndInv, PathsRead, phase = "event",
           \A f \in OnPaths : /\ Accepted(f) => Accepted(f)'
                              /\ runs[f] = 1 /\ ~m_keep[f] => runs'[f] = 1 /\ ~m_keep'[f]
    PROVE  /\ \A p \in 1 .. Len(paths) : Over(p) => Over(p)'
           /\ \A t : \A k \in 0 .. Len(paths) : PathsRun(t, k) => PathsRun(t, k)'
<1>1. /\ Len(paths) \in Nat
      /\ \A p \in 1 .. Len(paths) :
            /\ Len(paths[p]) \in Nat
            /\ \A i \in 1 .. Len(paths[p]) : paths[p][i] \in OnPaths
  BY PathFilter
<1>2. ASSUME NEW p \in 1 .. Len(paths), NEW i \in 1 .. Len(paths[p]) + 1, Come(p, i)
      PROVE  Come(p, i)'
  <2>1. \A j \in 1 .. i - 1 : paths[p][j] \in OnPaths /\ Accepted(paths[p][j])
    BY <1>1, <1>2 DEF Come
  <2> QED
    BY <2>1 DEF Come
<1>3. ASSUME NEW p \in 1 .. Len(paths), Over(p) PROVE Over(p)'
  <2>1. CASE Come(p, Len(paths[p]) + 1)
    <3>1. Len(paths[p]) + 1 \in 1 .. Len(paths[p]) + 1
      BY <1>1
    <3>2. Come(p, Len(paths[p]) + 1)'
      BY <1>2, <2>1, <3>1
    <3> QED
      BY <3>2 DEF Over
  <2>2. CASE \E i \in 1 .. Len(paths[p]) :
               Come(p, i) /\ runs[paths[p][i]] = 1 /\ ~m_keep[paths[p][i]]
    <3>1. PICK i \in 1 .. Len(paths[p]) :
               Come(p, i) /\ runs[paths[p][i]] = 1 /\ ~m_keep[paths[p][i]]
      BY <2>2
    <3>2. Come(p, i)'
      BY <1>1, <1>2, <3>1
    <3>3. runs'[paths[p][i]] = 1 /\ ~m_keep'[paths[p][i]]
      BY <1>1, <3>1
    <3> QED
      BY <3>2, <3>3 DEF Over
  <2> QED
    BY <1>3, <2>1, <2>2 DEF Over
<1>4. ASSUME NEW p \in 1 .. Len(paths), NEW r, Left(p, r) PROVE Left(p, r)'
  <2>1. CASE r = <<>> /\ Over(p)
    BY <1>3, <2>1 DEF Left
  <2>2. CASE \E i \in 1 .. Len(paths[p]) :
               /\ Come(p, i) /\ Len(r) = Len(paths[p]) + 1 - i
               /\ \A j \in 1 .. Len(r) : r[j] = paths[p][i + j - 1]
    <3>1. PICK i \in 1 .. Len(paths[p]) :
               /\ Come(p, i) /\ Len(r) = Len(paths[p]) + 1 - i
               /\ \A j \in 1 .. Len(r) : r[j] = paths[p][i + j - 1]
      BY <2>2
    <3>2. Come(p, i)'
      BY <1>1, <1>2, <3>1
    <3> QED
      BY <3>1, <3>2 DEF Left
  <2> QED
    BY <1>4, <2>1, <2>2 DEF Left
<1>5. ASSUME NEW t, NEW k \in 0 .. Len(paths), PathsRun(t, k) PROVE PathsRun(t, k)'
  <2>1. Len(t) = 1 => \A p \in 1 .. k : Over(p)'
    BY <1>1, <1>3, <1>5 DEF PathsRun
  <2>2. Len(t) > 1 => /\ k > 0 /\ Left(k, t[Len(t) - 1].rest)'
                      /\ \A p \in 1 .. k - 1 : Over(p)'
    <3> SUFFICES ASSUME Len(t) > 1
                 PROVE  /\ k > 0 /\ Left(k, t[Len(t) - 1].rest)'
                        /\ \A p \in 1 .. k - 1 : Over(p)'
      OBVIOUS
    <3>1. /\ k > 0 /\ Left(k, t[Len(t) - 1].rest)
          /\ \A p \in 1 .. k - 1 : Over(p)
      BY <1>5 DEF PathsRun
    <3>2. PICK r : r = t[Len(t) - 1].rest
      OBVIOUS
    <3>3. k \in 1 .. Len(paths) /\ Left(k, r)'
      BY <1>1, <1>4, <3>1, <3>2
    <3>4. \A p \in 1 .. k - 1 : Over(p)'
      BY <1>1, <1>3, <3>1
    <3> QED
      BY <3>1, <3>2, <3>3, <3>4
  <2> QED
    BY <1>5, <2>1, <2>2 DEF PathsRun
<1> QED
  BY <1>3, <1>5

\* Nor does it matter what else is called.
LEMMA BelowStays ==
    ASSUME NEW s, Len(s) \in Nat, NEW q \in Nat, q + 2 <= Len(s), NEW n \in Nat, NEW u,
           NEW t, Replaces(t, n, u, s, q), NEW k, PathsRun(s, k)
    PROVE  PathsRun(t, k) /\ Len(t) > 1
<1>1. PICK l \in Nat : l = Len(s)
  OBVIOUS
<1>2. Len(t) = n + l - q /\ \A i \in 1 .. l - q : t[n + i] = s[q + i]
  BY <1>1 DEF Replaces
<1>3. l - q \in 1 .. l - q /\ l - q - 1 \in 1 .. l - q
  BY <1>1
<1>4. t[n + (l - q)] = s[q + (l - q)] /\ t[n + (l - q - 1)] = s[q + (l - q - 1)]
  BY <1>2, <1>3
<1>5. /\ n + (l - q) = n + l - q /\ q + (l - q) = l
      /\ n + (l - q - 1) = (n + l - q) - 1 /\ q + (l - q - 1) = l - 1
  BY <1>1
<1>6. t[Len(t)] = s[l] /\ t[Len(t) - 1] = s[l - 1]
  BY <1>2, <1>4, <1>5
<1>7. Len(t) > 1 /\ l > 1 /\ Len(t) # 1
  BY <1>1, <1>2
<1> QED
  BY <1>1, <1>6, <1>7 DEF PathsRun

\* Main goes on with the same modules and paths.
LEMMA RestKeeps ==
    ASSUME AsConfigured, PathsRead, UNCHANGED setup, phase \in {"source", "event"},
           phase' # "paths"
    PROVE  AsConfigured' /\ PathsRead' /\ OnPaths' = OnPaths
<1> USE DEF setup
<1>1. AsConfigured'
  BY DEF AsConfigured
<1>2. PathsRead'
  BY DEF PathsRead
<1>3. OnPaths' = OnPaths
  BY DEF OnPaths
<1> QED
  BY <1>1, <1>2, <1>3

\* A step of which only the calls tell.
LEMMA OnlyCalls ==
    ASSUME StreamInv, phase = "event",
           UNCHANGED <<setup, m_wasRun, m_keep, m_lookupMap, m_seenEvents, runs>>,
           phase' \in {"event", "exit"}
    PROVE  /\ AsConfigured' /\ PathsRead' /\ Ran'
           /\ \A p \in 1 .. Len(paths) : Over(p) => Over(p)'
           /\ \A t : \A k \in 0 .. Len(paths) : PathsRun(t, k) => PathsRun(t, k)'
<1>1. AsConfigured' /\ PathsRead' /\ OnPaths' = OnPaths
  BY RestKeeps DEF StreamInv
<1>2. Ran'
  <2>1. \A key : Maker(key)' = Maker(key)
    BY DEF Maker
  <2> QED
    BY <1>1, <2>1 DEF StreamInv, Ran
<1>3. \A f \in OnPaths : /\ Accepted(f) => Accepted(f)'
                         /\ runs[f] = 1 /\ ~m_keep[f] => runs'[f] = 1 /\ ~m_keep'[f]
  BY DEF Accepted
<1> QED
  BY <1>1, <1>2, <1>3, PathsStill DEF StreamInv


-----------------------------------------------------------------------------
(* What the steps are to EventStream. *)

\* A step of EventStream, or none.
StreamStep == [Stream!Progress \/ Stream!JobFails]_(Stream!vars)

\* None, if nothing changes of what it sees ...
LEMMA Unseen ==
    ASSUME laterEvent' = laterEvent, laterOpen' = laterOpen, laterAsked' = laterAsked,
           laterRuns' = laterRuns, laterKept' = laterKept
    PROVE  StreamStep
  BY DEF StreamStep, Stream!vars

\* ... as it does in the first event and before.
LEMMA NotLater ==
    ASSUME ~Later, ~Later'
    PROVE  StreamStep
<1>1. laterEvent' = laterEvent
  BY DEF laterEvent
<1>2. laterOpen' = laterOpen
  BY DEF laterOpen
<1>3. laterAsked' = laterAsked /\ laterKept' = laterKept
  BY DEF laterAsked, laterKept
<1>4. laterRuns' = laterRuns
  BY DEF laterRuns
<1> QED
  BY <1>1, <1>2, <1>3, <1>4, Unseen

\* Call c is one of module m, which has been asked for.
WorksFor(c, m) == c.op \in {"filter", "prefetch"} /\ c.mod = m

\* The modules of calls are those that have been asked for and have not run.
LEMMA WorkingIs ==
    ASSUME IndInv, NEW s, s = stack, NEW m
    PROVE  m \in Working <=> \E i \in 1 .. Len(s) : WorksFor(s[i], m)
<1>1. DOMAIN s = 1 .. Len(s)
  BY DEF IndInv, StackMade
<1> QED
  BY <1>1 DEF Working, WorksFor

\* They are modules.
LEMMA WorkingModules == IndInv => Working \subseteq Modules
<1> SUFFICES ASSUME IndInv, NEW m \in Working PROVE m \in Modules
  OBVIOUS
<1>1. PICK s : s = stack
  OBVIOUS
<1>2. PICK i \in 1 .. Len(s) : WorksFor(s[i], m)
  BY <1>1, WorkingIs
<1>3. IsCall(s[i])
  BY <1>1 DEF IndInv, StackMade
<1> QED
  BY <1>2, <1>3 DEF WorksFor, IsCall, FoundFilters, IndInv, Made, Modules

\* Those when the k innermost calls are replaced by those in u.
LEMMA WorkingAfter ==
    ASSUME NEW s, Len(s) \in Nat, NEW k \in Nat, k <= Len(s), NEW n \in Nat, NEW u,
           Replaces(stack', n, u, s, k), NEW m
    PROVE  m \in Working' <=> \/ \E i \in 1 .. n : WorksFor(u[i], m)
                              \/ \E i \in k + 1 .. Len(s) : WorksFor(s[i], m)
<1>1. PICK t, l : t = stack' /\ l = Len(s)
  OBVIOUS
<1>2. /\ t \in Seq(Range(t)) /\ Len(t) = n + l - k /\ l \in Nat /\ k <= l
      /\ \A i \in 1 .. n : t[i] = u[i]
      /\ \A i \in 1 .. l - k : t[n + i] = s[k + i]
  BY <1>1 DEF Replaces
<1>3. DOMAIN t = 1 .. n + l - k
  BY <1>2
<1>4. m \in Working' <=> \E i \in 1 .. n + l - k : WorksFor(t[i], m)
  BY <1>1, <1>3 DEF Working, WorksFor
<1>5. ASSUME NEW i \in 1 .. n + l - k, WorksFor(t[i], m)
      PROVE  \/ \E j \in 1 .. n : WorksFor(u[j], m)
             \/ \E j \in k + 1 .. l : WorksFor(s[j], m)
  <2>1. CASE i <= n
    <3>1. i \in 1 .. n
      BY <2>1
    <3> QED
      BY <1>2, <1>5, <3>1
  <2>2. CASE i > n
    <3>1. i - n \in 1 .. l - k /\ n + (i - n) = i /\ k + (i - n) \in k + 1 .. l
      BY <1>2, <2>2
    <3>2. t[i] = s[k + (i - n)]
      BY <1>2, <3>1
    <3> QED
      BY <1>5, <3>1, <3>2
  <2> QED
    BY <2>1, <2>2
<1>6. ASSUME NEW i \in 1 .. n, WorksFor(u[i], m)
      PROVE  \E j \in 1 .. n + l - k : WorksFor(t[j], m)
  <2>1. i \in 1 .. n + l - k
    BY <1>2
  <2> QED
    BY <1>2, <1>6, <2>1
<1>7. ASSUME NEW i \in k + 1 .. l, WorksFor(s[i], m)
      PROVE  \E j \in 1 .. n + l - k : WorksFor(t[j], m)
  <2>1. i - k \in 1 .. l - k /\ k + (i - k) = i /\ n + (i - k) \in 1 .. n + l - k
    BY <1>2
  <2>2. t[n + (i - k)] = s[i]
    BY <1>2, <2>1
  <2> QED
    BY <1>7, <2>1, <2>2
<1> QED
  BY <1>1, <1>4, <1>5, <1>6, <1>7

\* EventStream sees the same progress of the paths.
LEMMA SamePaths ==
    ASSUME IndInv, PathsRead, phase = "event", Later, NEW p \in 1 .. Len(paths)
    PROVE  /\ p \in DOMAIN paths /\ DOMAIN paths[p] = 1 .. Len(paths[p])
           /\ \A i \in 1 .. Len(paths[p]) + 1 : Come(p, i) => Stream!Reached(p, i)
           /\ Over(p) => Stream!PathOver(p)
<1>1. /\ Len(paths[p]) \in Nat /\ paths[p] \in Seq(STRING)
      /\ \A i \in 1 .. Len(paths[p]) : paths[p][i] \in Filters
  BY PathFilter
<1>2. p \in DOMAIN paths /\ DOMAIN paths[p] = 1 .. Len(paths[p])
  BY <1>1, SingleThreadedAssumption
<1>3. \A f \in Filters : /\ Accepted(f) => f \in laterKept
                         /\ ~m_keep[f] => f \notin laterKept
                         /\ runs[f] = 1 => laterRuns[f] > 0
  BY DEF Accepted, laterKept, laterRuns, Modules
<1>4. ASSUME NEW i \in 1 .. Len(paths[p]) + 1, Come(p, i) PROVE Stream!Reached(p, i)
  <2>1. \A j \in 1 .. i - 1 : paths[p][j] \in Filters /\ Accepted(paths[p][j])
    BY <1>1, <1>4 DEF Come
  <2> QED
    BY <1>3, <2>1 DEF Stream!Reached
<1>5. ASSUME Over(p) PROVE Stream!PathOver(p)
  <2>1. CASE Come(p, Len(paths[p]) + 1)
    <3>1. Len(paths[p]) + 1 \in 1 .. Len(paths[p]) + 1
      BY <1>1
    <3>2. Stream!Reached(p, Len(paths[p]) + 1)
      BY <1>4, <2>1, <3>1
    <3> QED
      BY <3>2 DEF Stream!PathOver
  <2>2. CASE \E i \in 1 .. Len(paths[p]) :
               Come(p, i) /\ runs[paths[p][i]] = 1 /\ ~m_keep[paths[p][i]]
    <3>1. PICK i \in 1 .. Len(paths[p]) :
               Come(p, i) /\ runs[paths[p][i]] = 1 /\ ~m_keep[paths[p][i]]
      BY <2>2
    <3>2. Stream!Reached(p, i)
      BY <1>1, <1>4, <3>1
    <3>3. Stream!Settled(paths[p][i]) /\ paths[p][i] \notin laterKept
      BY <1>1, <1>3, <3>1 DEF Stream!Settled
    <3> QED
      BY <1>2, <3>1, <3>2, <3>3 DEF Stream!PathOver
  <2> QED
    BY <1>5, <2>1, <2>2 DEF Over
<1> QED
  BY <1>2, <1>4, <1>5

\* m can be asked for.
CanAsk(m) ==
    \/ \E p \in 1 .. Len(paths) : \E i \in 1 .. Len(paths[p]) : paths[p][i] = m /\ Come(p, i)
    \/ \E a \in Working : m \in Range(Gets[a]) /\ a \in Modules /\ runs[a] = 0

\* A step of which only the calls tell: it asks for no module, or for one, m.
LEMMA AsksFor ==
    ASSUME StreamInv, IndInv', phase = "event", stack # <<>>, stack' # <<>>,
           UNCHANGED <<m_keep, m_seenEvents, runs>>, NEW M, M \subseteq Modules,
           Later => \A x \in Modules :
              x \in Working' \/ runs[x] > 0 <=> x \in Working \/ runs[x] > 0 \/ x \in M,
           M = {} \/ \E m : M = {m} /\ CanAsk(m)
    PROVE  StreamStep
<1>1. CASE ~Later
  BY <1>1, NotLater DEF Later
<1>2. CASE Later
  <2>1. Later'
    BY <1>2 DEF Later
  <2>2. laterEvent' = laterEvent /\ laterOpen' = laterOpen
    BY <1>2, <2>1 DEF laterEvent, laterOpen
  <2>3. laterRuns' = laterRuns /\ laterKept' = laterKept
    BY <1>2, <2>1 DEF laterRuns, laterKept
  <2>4. laterAsked' = laterAsked \cup M
    <3>1. Working \subseteq Modules /\ Working' \subseteq Modules
      <4>1. IndInv' => (Working \subseteq Modules)'
        BY WorkingModules, PTL
      <4> QED
        BY <4>1, WorkingModules DEF StreamInv
    <3> QED
      BY <1>2, <2>1, <3>1 DEF laterAsked
  <2>5. CASE M \subseteq laterAsked
    BY <2>2, <2>3, <2>4, <2>5, Unseen
  <2>6. CASE ~(M \subseteq laterAsked)
    <3>1. PICK m : M = {m} /\ CanAsk(m) /\ m \notin laterAsked
      BY <2>6
    <3>2. \/ \E p \in DOMAIN paths : \E i \in DOMAIN paths[p] :
               paths[p][i] = m /\ Stream!Reached(p, i)
          \/ \E a \in laterAsked : m \in Stream!Range(Gets[a]) /\ ~Stream!Settled(a)
      <4>1. CASE \E p \in 1 .. Len(paths) : \E i \in 1 .. Len(paths[p]) :
                   paths[p][i] = m /\ Come(p, i)
        <5>0. PICK p \in 1 .. Len(paths) : \E i \in 1 .. Len(paths[p]) :
                   paths[p][i] = m /\ Come(p, i)
          BY <4>1
        <5>1. PICK i \in 1 .. Len(paths[p]) : paths[p][i] = m /\ Come(p, i)
          BY <5>0
        <5>2. Len(paths[p]) \in Nat
          BY PathFilter DEF StreamInv
        <5>3. /\ p \in DOMAIN paths /\ i \in DOMAIN paths[p]
              /\ Stream!Reached(p, i)
          BY <1>2, <5>1, <5>2, SamePaths DEF StreamInv
        <5> QED
          BY <5>1, <5>3
      <4>2. CASE \E a \in Working : m \in Range(Gets[a]) /\ a \in Modules /\ runs[a] = 0
        <5>1. PICK a \in Working : m \in Range(Gets[a]) /\ a \in Modules /\ runs[a] = 0
          BY <4>2
        <5>2. a \in laterAsked /\ ~Stream!Settled(a)
          BY <1>2, <5>1 DEF laterAsked, Stream!Settled, laterRuns
        <5>3. m \in Stream!Range(Gets[a])
          BY <5>1 DEF Stream!Range, Range
        <5> QED
          BY <5>2, <5>3
      <4> QED
        BY <3>1, <4>1, <4>2 DEF CanAsk
    <3>3. laterOpen
      BY <1>2 DEF laterOpen
    <3>4. Stream!Ask(m)
      BY <2>2, <2>3, <2>4, <3>1, <3>2, <3>3 DEF Stream!Ask
    <3>5. m \in Stream!Modules
      BY <3>1 DEF Stream!Modules, Modules
    <3>6. Stream!Progress
      BY <3>4, <3>5 DEF Stream!Progress
    <3> QED
      BY <3>6 DEF StreamStep
  <2> QED
    BY <2>5, <2>6
<1> QED
  BY <1>1, <1>2


\* What main does before the events.
LEMMA SetupFollows ==
    ASSUME StreamInv, AddFilter \/ AddProducer \/ AddPath
    PROVE  AsConfigured' /\ PathsRead' /\ Ran' /\ InSequence' /\ StreamStep
<1>1. AsConfigured' /\ PathsRead' /\ Ran' /\ InSequence'
  BY SetupKeeps DEF StreamInv
<1>2. m_seenEvents = 0 /\ m_seenEvents' = m_seenEvents
  BY DEF AddFilter, AddProducer, AddPath, StreamInv, IndInv, Types
<1>3. StreamStep
  BY <1>2, NotLater DEF Later
<1> QED
  BY <1>1, <1>3

\* The end of the events is not seen.
LEMMA NoMoreEventsFollows ==
    ASSUME StreamInv, NoMoreEvents
    PROVE  AsConfigured' /\ PathsRead' /\ Ran' /\ InSequence' /\ StreamStep
<1> USE DEF NoMoreEvents, moduleState
<1>1. AsConfigured' /\ PathsRead'
  <2>1. phase = "source" /\ phase' = "done" /\ AsConfigured /\ PathsRead
    BY DEF StreamInv
  <2> QED
    BY <2>1, RestKeeps
<1>2. Ran' /\ InSequence'
  BY DEF Ran, InSequence
<1>3. iterations \in Nat /\ m_seenEvents = iterations /\ m_seenEvents' = iterations + 1
  <2>1. m_seenEvents \in 0 .. iterations /\ iterations \in Nat
    BY SingleThreadedAssumption DEF StreamInv, IndInv, Types
  <2> QED
    BY <2>1, Counting
<1>4. CASE iterations <= 1
  BY <1>1, <1>2, <1>3, <1>4, NotLater DEF Later
<1>5. CASE iterations > 1
  <2>1. Later /\ Later'
    BY <1>3, <1>5 DEF Later
  <2>2. laterEvent' = laterEvent
    <3>1. laterEvent = iterations - 1 /\ laterEvent' = iterations - 1
      BY <1>3, <2>1 DEF laterEvent
    <3> QED
      BY <3>1
  <2>3. laterOpen' = laterOpen /\ laterRuns' = laterRuns /\ laterKept' = laterKept
    BY <2>1 DEF laterOpen, laterRuns, laterKept
  <2>4. laterAsked' = laterAsked
    BY <2>1 DEF laterAsked, Working
  <2> QED
    BY <1>1, <1>2, <2>2, <2>3, <2>4, Unseen
<1> QED
  BY <1>1, <1>2, <1>3, <1>4, <1>5

\* The next event begins, in which nothing has run: Schedule::reset sees to the
\* filters, and Event::reset has seen to the producers.
LEMMA NextEventFollows ==
    ASSUME StreamInv, NextEvent
    PROVE  AsConfigured' /\ PathsRead' /\ Ran' /\ InSequence' /\ StreamStep
<1> USE DEF NextEvent, setup
<1>1. AsConfigured' /\ PathsRead' /\ OnPaths' = OnPaths
  BY RestKeeps DEF StreamInv
<1>2. /\ m_seenEvents \in Nat /\ iterations \in Nat
      /\ m_seenEvents' = m_seenEvents + 1 /\ m_seenEvents + 1 <= iterations
  <2>1. m_seenEvents \in 0 .. iterations /\ iterations \in Nat
    BY SingleThreadedAssumption DEF StreamInv, IndInv, Types
  <2> QED
    BY <2>1, Counting
<1>3. PICK c : c = [op |-> "paths", rest |-> m_paths]
  OBVIOUS
<1>4. stack' = <<c>> /\ c.op = "paths" /\ c.rest = m_paths
  BY <1>3
<1>5. PICK t : t = stack'
  OBVIOUS
<1>6. t = <<c>> /\ Len(t) = 1 /\ t[1] = c /\ DOMAIN t = {1} /\ t # <<>>
  BY <1>4, <1>5
<1>7. \A m \in Modules : runs'[m] = 0
  OBVIOUS
<1>8. Ran'
  <2>1. ASSUME NEW f \in OnPaths PROVE ~m_wasRun'[f]
    <3>1. f \in Filters
      <4>1. PICK p \in DOMAIN m_paths : f \in Range(m_paths[p])
        BY <2>1 DEF OnPaths
      <4>2. m_paths[p] \in Seq(FoundFilters)
        BY <4>1 DEF StreamInv, IndInv, Made
      <4>3. PICK path \in Seq(FoundFilters) : path = m_paths[p]
        BY <4>2
      <4>4. Range(path) \subseteq FoundFilters
        BY RangeOfSeq
      <4> QED
        BY <4>1, <4>3, <4>4 DEF FoundFilters, StreamInv, IndInv, Made
    <3> QED
      BY <2>1, <3>1 DEF ResetModules, Modules
  <2>2. ASSUME m_seenEvents + 1 > 1, NEW key \in DOMAIN m_lookupMap PROVE ~m_wasRun'[Maker(key)]
    <3>1. Maker(key) \in Modules
      BY <2>2 DEF StreamInv, IndInv, LookupMade, Maker, Modules
    <3>2. ~m_wasRun[Maker(key)]
      BY <1>2, <2>2 DEF StreamInv, IndInv, RunMeansPut
    <3> QED
      BY <3>1, <3>2 DEF ResetModules
  <2>3. \A key : Maker(key)' = Maker(key)
    BY DEF Maker
  <2> QED
    BY <1>1, <1>2, <2>1, <2>2, <2>3 DEF Ran
<1>9. InSequence'
  <2>1. Len(paths) \in Nat /\ 0 \in 0 .. Len(paths)
    BY SingleThreadedAssumption
  <2>2. Len(m_paths) = Len(paths) /\ \A i \in 1 .. Len(paths) : m_paths[i] = paths[i]
    BY DEF StreamInv, PathsRead
  <2>3. t[Len(t)].rest = m_paths
    BY <1>4, <1>6
  <2>4. PathsRun(t, 0)'
    BY <1>6, <2>1, <2>2, <2>3 DEF PathsRun
  <2> QED
    BY <1>5, <2>1, <2>4 DEF InSequence
<1>10. StreamStep
  <2>1. CASE m_seenEvents = 0
    BY <1>2, <2>1, NotLater DEF Later
  <2>2. CASE m_seenEvents > 0
    <3>1. Later' /\ (Later <=> m_seenEvents > 1)
      BY <1>2, <2>2 DEF Later
    <3>2. laterEvent = m_seenEvents - 1 /\ laterEvent' = m_seenEvents /\ m_seenEvents - 1 < iterations - 1
      BY <1>2, <2>2, <3>1 DEF laterEvent
    <3>3. laterOpen' /\ ~laterOpen
      <4>1. stack = <<>>
        BY DEF StreamInv, IndInv, StackMade
      <4> QED
        BY <1>5, <1>6, <3>1, <4>1 DEF laterOpen
    <3>4. laterAsked' = {}
      <4>1. Working' = {}
        BY <1>4, <1>5, <1>6 DEF Working
      <4>2. ~\E m \in Modules : runs'[m] > 0
        BY <1>7
      <4> QED
        BY <3>1, <4>1, <4>2 DEF laterAsked
    <3>5. laterRuns' = [m \in Modules |-> 0]
      BY <1>7, <3>1 DEF laterRuns
    <3>6. laterKept' = {}
      BY <1>7, <3>1 DEF laterKept, Modules
    <3>7. Stream!Begin
      <4>1. Stream!Modules = Modules
        BY DEF Stream!Modules, Modules
      <4>2. m_seenEvents = (m_seenEvents - 1) + 1
        BY <1>2
      <4> QED
        BY <3>2, <3>3, <3>4, <3>5, <3>6, <4>1, <4>2 DEF Stream!Begin
    <3> QED
      BY <3>7 DEF StreamStep, Stream!Progress
  <2> QED
    BY <1>2, <2>1, <2>2
<1> QED
  BY <1>1, <1>8, <1>9, <1>10

\* Event::reset is not seen.
LEMMA ResetEventFollows ==
    ASSUME StreamInv, ResetEvent
    PROVE  AsConfigured' /\ PathsRead' /\ Ran' /\ InSequence' /\ StreamStep
<1> USE DEF ResetEvent
<1>1. AsConfigured' /\ PathsRead'
  BY RestKeeps DEF StreamInv
<1>2. Ran' /\ InSequence'
  BY DEF Ran, InSequence
<1>3. Later' <=> Later
  BY DEF Later
<1>4. laterEvent' = laterEvent /\ laterOpen' = laterOpen
  BY <1>3 DEF laterEvent, laterOpen
<1>5. laterAsked' = laterAsked
  BY <1>3 DEF laterAsked, Working
<1>6. laterRuns' = laterRuns /\ laterKept' = laterKept
  BY <1>3 DEF laterRuns, laterKept
<1> QED
  BY <1>1, <1>2, <1>4, <1>5, <1>6, Unseen

\* Nor is nothing.
LEMMA StutterFollows ==
    ASSUME StreamInv, UNCHANGED vars
    PROVE  AsConfigured' /\ PathsRead' /\ Ran' /\ InSequence' /\ StreamStep
<1> USE DEF vars, setup, moduleState
<1>1. AsConfigured' /\ PathsRead'
  BY DEF StreamInv, AsConfigured, PathsRead
<1>2. Ran'
  <2>1. OnPaths' = OnPaths /\ \A key : Maker(key)' = Maker(key)
    BY DEF OnPaths, Maker
  <2> QED
    BY <2>1 DEF StreamInv, Ran
<1>3. InSequence'
  <2>1. \A p, i : Come(p, i)' <=> Come(p, i)
    BY DEF Come, Accepted
  <2>2. \A p : Over(p)' <=> Over(p)
    BY <2>1 DEF Over
  <2>3. \A p, r : Left(p, r)' <=> Left(p, r)
    BY <2>1, <2>2 DEF Left
  <2>4. \A t, k : PathsRun(t, k)' <=> PathsRun(t, k)
    BY <2>2, <2>3 DEF PathsRun
  <2> QED
    BY <2>4 DEF StreamInv, InSequence
<1>4. Later' <=> Later
  BY DEF Later
<1>5. laterEvent' = laterEvent /\ laterOpen' = laterOpen
  BY <1>4 DEF laterEvent, laterOpen
<1>6. laterAsked' = laterAsked
  BY <1>4 DEF laterAsked, Working
<1>7. laterRuns' = laterRuns /\ laterKept' = laterKept
  BY <1>4 DEF laterRuns, laterKept
<1> QED
  BY <1>1, <1>2, <1>3, <1>5, <1>6, <1>7, Unseen


\* The Schedule runs the next path, or the event is over.
LEMMA RunPathFollows ==
    ASSUME StreamInv, IndInv', RunPath
    PROVE  AsConfigured' /\ PathsRead' /\ Ran' /\ InSequence' /\ StreamStep
<1>1. PICK s, c : s = stack /\ c = Top
  OBVIOUS
<1>2. /\ phase = "event" /\ s # <<>> /\ c.op = "paths" /\ c = Head(s)
      /\ UNCHANGED <<phase, setup, moduleState, m_seenEvents, runs, unset>>
      /\ stack' = (IF c.rest = <<>> THEN <<>>
                   ELSE <<[op |-> "path", rest |-> Head(c.rest)],
                          [op |-> "paths", rest |-> Tail(c.rest)]>>) \o Tail(s)
  BY <1>1 DEF RunPath, Inside, Become, Top
<1>3. /\ s \in Seq(Range(s)) /\ Len(s) = 1 /\ c = s[1] /\ IsCall(c)
  <2>1. s \in Seq(Range(s)) /\ Len(s) \in Nat /\ Len(s) >= 1 /\ c = s[1]
    BY <1>1, <1>2, Depth DEF StreamInv
  <2>2. 1 \in 1 .. Len(s)
    BY <2>1
  <2> QED
    BY <1>1, <1>2, <2>1, <2>2, Depth DEF StreamInv
<1>4. /\ AsConfigured' /\ PathsRead' /\ Ran'
      /\ \A p \in 1 .. Len(paths) : Over(p) => Over(p)'
      /\ \A t : \A k \in 0 .. Len(paths) : PathsRun(t, k) => PathsRun(t, k)'
  BY <1>2, OnlyCalls DEF moduleState
<1>5. PICK k \in 0 .. Len(paths) : PathsRun(s, k)
  BY <1>1, <1>2 DEF StreamInv, InSequence
<1>6. /\ Len(c.rest) = Len(paths) - k /\ Len(paths) \in Nat
      /\ \A i \in 1 .. Len(paths) - k : c.rest[i] = paths[k + i]
      /\ \A p \in 1 .. k : Over(p)
  BY <1>3, <1>5, SingleThreadedAssumption DEF PathsRun
<1>7. c.rest \in Seq(Seq(FoundFilters))
  BY <1>2, <1>3 DEF IsCall
<1>8. ~\E m : \E i \in 1 .. Len(s) : WorksFor(s[i], m)
  BY <1>2, <1>3 DEF WorksFor
<1>9. CASE c.rest = <<>>
  <2>1. stack' = <<>>
    BY <1>2, <1>3, <1>9
  <2>2. InSequence'
    BY <2>1 DEF InSequence
  <2>3. CASE ~Later
    BY <1>2, <1>4, <2>2, <2>3, NotLater DEF Later
  <2>4. CASE Later
    <3>1. Later'
      BY <1>2, <2>4 DEF Later
    <3>2. laterEvent' = laterEvent /\ laterOpen /\ ~laterOpen'
      BY <1>1, <1>2, <2>1, <2>4, <3>1 DEF laterEvent, laterOpen
    <3>3. laterRuns' = laterRuns /\ laterKept' = laterKept
      BY <1>2, <2>4, <3>1 DEF laterRuns, laterKept, moduleState
    <3>4. Working = {}
      BY <1>1, <1>8, WorkingIs DEF StreamInv
    <3>5. Working' = {}
      <4>1. PICK t : t = stack'
        OBVIOUS
      <4>2. DOMAIN t = {}
        BY <2>1, <4>1
      <4> QED
        BY <4>1, <4>2 DEF Working
    <3>6. laterAsked' = laterAsked
      BY <1>2, <2>4, <3>1, <3>4, <3>5 DEF laterAsked
    <3>7. \A p \in DOMAIN paths : Stream!PathOver(p)
      <4>1. DOMAIN paths = 1 .. Len(paths) /\ k = Len(paths)
        <5>1. Len(c.rest) = 0
          BY <1>9
        <5> QED
          BY <1>6, <5>1, SingleThreadedAssumption
      <4> QED
        BY <1>2, <1>6, <2>4, <4>1, SamePaths DEF StreamInv
    <3>8. \A m \in laterAsked : Stream!Settled(m)
      BY <2>4, <3>4 DEF laterAsked, laterRuns, Stream!Settled
    <3>9. Stream!End
      BY <3>2, <3>3, <3>6, <3>7, <3>8 DEF Stream!End
    <3>10. StreamStep
      BY <3>9 DEF StreamStep, Stream!Progress
    <3> QED
      BY <1>4, <2>2, <3>10
  <2> QED
    BY <2>3, <2>4
<1>10. CASE c.rest # <<>>
  <2>1. PICK a, b : /\ a = [op |-> "path", rest |-> Head(c.rest)]
                    /\ b = [op |-> "paths", rest |-> Tail(c.rest)]
    OBVIOUS
  <2>2. PICK u : u = <<a, b>>
    OBVIOUS
  <2>3. Replaces(stack', 2, u, s, 1)
    BY <1>2, <1>3, <1>10, <2>1, <2>2, InFront
  <2>4. PICK t : t = stack'
    OBVIOUS
  <2>5. Len(t) = 2 /\ t[1] = a /\ t[2] = b /\ t # <<>>
    <3>1. Len(t) = 2 /\ t[1] = u[1] /\ t[2] = u[2]
      BY <1>3, <2>3, <2>4 DEF Replaces
    <3> QED
      BY <2>2, <3>1
  <2>6. k + 1 \in 1 .. Len(paths) /\ Head(c.rest) = paths[k + 1]
    BY <1>6, <1>7, <1>10
  <2>7. /\ Len(Tail(c.rest)) = Len(paths) - (k + 1)
        /\ \A i \in 1 .. Len(paths) - (k + 1) : Tail(c.rest)[i] = paths[(k + 1) + i]
    <3>1. /\ Len(Tail(c.rest)) = Len(c.rest) - 1
          /\ \A i \in 1 .. Len(c.rest) - 1 : Tail(c.rest)[i] = c.rest[i + 1]
      BY <1>7, <1>10
    <3> QED
      BY <1>6, <3>1
  <2>8. Left(k + 1, paths[k + 1])
    <3>1. PICK path \in Seq(STRING) : path = paths[k + 1]
      BY <2>6, SingleThreadedAssumption
    <3>2. Come(k + 1, 1)
      BY DEF Come
    <3>3. CASE path = <<>>
      <4>1. Len(paths[k + 1]) + 1 = 1
        BY <3>1, <3>3
      <4>2. Over(k + 1)
        BY <3>2, <4>1 DEF Over
      <4> QED
        BY <3>1, <3>3, <4>2 DEF Left
    <3>4. CASE path # <<>>
      <4>1. Len(path) \in Nat /\ 1 \in 1 .. Len(path) /\ Len(path) = Len(path) + 1 - 1
        BY <3>1, <3>4
      <4>2. \A j \in 1 .. Len(path) : path[j] = path[1 + j - 1]
        BY <4>1
      <4> QED
        BY <3>1, <3>2, <4>1, <4>2 DEF Left
    <3> QED
      BY <3>3, <3>4
  <2>9. PathsRun(t, k + 1)
    <3>1. a.rest = paths[k + 1] /\ b.rest = Tail(c.rest)
      BY <2>1, <2>6
    <3>2. t[Len(t)].rest = Tail(c.rest) /\ t[Len(t) - 1].rest = paths[k + 1]
      BY <2>5, <3>1
    <3>3. /\ Len(t) # 1 /\ k + 1 > 0 /\ (k + 1) - 1 = k
          /\ \A p \in 1 .. k : Over(p)
      BY <1>6, <2>5
    <3>4. Left(k + 1, t[Len(t) - 1].rest)
      BY <2>8, <3>2
    <3>5. /\ Len(t[Len(t)].rest) = Len(paths) - (k + 1)
          /\ \A i \in 1 .. Len(paths) - (k + 1) : t[Len(t)].rest[i] = paths[(k + 1) + i]
      BY <2>7, <3>2
    <3> QED
      BY <3>3, <3>4, <3>5, Zenon DEF PathsRun
  <2>10. InSequence'
    <3>1. k + 1 \in 0 .. Len(paths) /\ PathsRun(t, k + 1)'
      BY <1>4, <2>6, <2>9
    <3> QED
      BY <2>4, <3>1 DEF InSequence
  <2>11. \A m : m \notin Working /\ m \notin Working'
    <3>1. ~\E m : \E i \in 1 .. 2 : WorksFor(u[i], m)
      <4>1. u[1] = a /\ u[2] = b
        BY <2>2
      <4> QED
        BY <2>1, <4>1 DEF WorksFor
    <3>2. 1 <= Len(s) /\ Len(s) \in Nat
      BY <1>3
    <3>3. \A m : m \in Working' <=> \/ \E i \in 1 .. 2 : WorksFor(u[i], m)
                                    \/ \E i \in 1 + 1 .. Len(s) : WorksFor(s[i], m)
      BY <2>3, <3>2, WorkingAfter
    <3>4. \A m : m \in Working <=> \E i \in 1 .. Len(s) : WorksFor(s[i], m)
      BY <1>1, WorkingIs DEF StreamInv
    <3> QED
      BY <1>3, <1>8, <3>1, <3>3, <3>4
  <2>12. StreamStep
    BY <1>1, <1>2, <2>4, <2>5, <2>11, AsksFor DEF moduleState
  <2> QED
    BY <1>4, <2>10, <2>12
<1> QED
  BY <1>9, <1>10


\* What a module gets from.
LEMMA GetsAre ==
    ASSUME AsConfigured, NEW m \in Modules, m \in DOMAIN module
    PROVE  \A n : n \in Range(Gets[m]) <=> \E key \in Range(module[m].m_getters) : key[1] = n
<1>1. PICK keys : keys = module[m].m_getters
  OBVIOUS
<1>2. Gets[m] = [i \in DOMAIN keys |-> keys[i][1]]
  BY <1>1 DEF AsConfigured, Gets
<1> QED
  BY <1>1, <1>2 DEF Range

\* Where a path is that has filters left.
LEMMA NextOnPath ==
    ASSUME IndInv, PathsRead, phase = "event", NEW k \in 1 .. Len(paths),
           NEW r, Left(k, r), r # <<>>, r \in Seq(FoundFilters)
    PROVE  \E i \in 1 .. Len(paths[k]) :
              /\ Come(k, i) /\ Len(r) = Len(paths[k]) + 1 - i
              /\ \A j \in 1 .. Len(r) : r[j] = paths[k][i + j - 1]
              /\ Head(r) = paths[k][i] /\ Head(r) \in OnPaths
              /\ Head(r) \in Modules /\ Head(r) \in Filters
              /\ Len(paths[k]) \in Nat
<1>1. PICK i \in 1 .. Len(paths[k]) :
         /\ Come(k, i) /\ Len(r) = Len(paths[k]) + 1 - i
         /\ \A j \in 1 .. Len(r) : r[j] = paths[k][i + j - 1]
  BY DEF Left
<1>2. /\ Len(paths[k]) \in Nat /\ OnPaths \subseteq Filters
      /\ \A j \in 1 .. Len(paths[k]) : paths[k][j] \in OnPaths
  BY PathFilter
<1>3. Head(r) = r[1] /\ 1 \in 1 .. Len(r)
  BY <1>1, <1>2
<1>4. Head(r) = paths[k][i]
  <2>1. i + 1 - 1 = i
    BY <1>2
  <2> QED
    BY <1>1, <1>3, <2>1
<1> QED
  BY <1>1, <1>2, <1>4 DEF Modules

\* A path asks for its next filter, or has come to its end.
LEMMA RunFilterFollows ==
    ASSUME StreamInv, IndInv', RunFilter
    PROVE  AsConfigured' /\ PathsRead' /\ Ran' /\ InSequence' /\ StreamStep
<1>1. PICK s, c : s = stack /\ c = Top
  OBVIOUS
<1>2. /\ phase = "event" /\ s # <<>> /\ c.op = "path" /\ c = Head(s)
      /\ UNCHANGED <<phase, setup, moduleState, m_seenEvents, runs, unset>>
      /\ stack' = (IF c.rest = <<>> THEN <<>>
                   ELSE <<[op |-> "filter", mod |-> Head(c.rest)], c>>) \o Tail(s)
  BY <1>1 DEF RunFilter, Inside, Become, Top
<1>3. /\ s \in Seq(Range(s)) /\ Len(s) = 2 /\ c = s[1] /\ IsCall(c) /\ s[2].op = "paths"
  <2>1. s \in Seq(Range(s)) /\ Len(s) \in Nat /\ Len(s) >= 1 /\ c = s[1]
    BY <1>1, <1>2, Depth DEF StreamInv
  <2>2. 1 \in 1 .. Len(s)
    BY <2>1
  <2>3. 1 = Len(s) - 1 /\ IsCall(c)
    BY <1>1, <1>2, <2>1, <2>2, Depth DEF StreamInv
  <2>4. 2 \in 1 .. Len(s) /\ 2 = Len(s)
    BY <2>1, <2>3
  <2> QED
    BY <1>1, <1>2, <2>1, <2>3, <2>4, Depth DEF StreamInv
<1>4. /\ AsConfigured' /\ PathsRead' /\ Ran'
      /\ \A t : \A k \in 0 .. Len(paths) : PathsRun(t, k) => PathsRun(t, k)'
  BY <1>2, OnlyCalls DEF moduleState
<1>5. PICK k \in 0 .. Len(paths) : PathsRun(s, k)
  BY <1>1, <1>2 DEF StreamInv, InSequence
<1>6. PICK d : d = s[2]
  OBVIOUS
<1>7. /\ Len(d.rest) = Len(paths) - k /\ Len(paths) \in Nat
      /\ \A i \in 1 .. Len(paths) - k : d.rest[i] = paths[k + i]
      /\ k \in 1 .. Len(paths) /\ Left(k, c.rest)
      /\ \A p \in 1 .. k - 1 : Over(p)
  <2>1. Len(s) > 1 /\ s[Len(s)] = d /\ s[Len(s) - 1] = c
    <3>1. Len(s) - 1 = 1
      BY <1>3
    <3> QED
      BY <1>3, <1>6, <3>1
  <2>2. k > 0 /\ Len(paths) \in Nat
    BY <1>5, <2>1, SingleThreadedAssumption DEF PathsRun
  <2>3. k \in 1 .. Len(paths)
    BY <2>2
  <2> QED
    BY <1>5, <2>1, <2>2, <2>3 DEF PathsRun
<1>8. c.rest \in Seq(FoundFilters)
  BY <1>2, <1>3 DEF IsCall
<1>9. \A m : m \notin Working
  <2>1. \A m : m \in Working <=> \E i \in 1 .. Len(s) : WorksFor(s[i], m)
    BY <1>1, WorkingIs DEF StreamInv
  <2>2. \A i \in 1 .. Len(s) : i = 1 \/ i = 2
    BY <1>3
  <2> QED
    BY <1>2, <1>3, <2>1, <2>2 DEF WorksFor
<1>10. PICK t : t = stack'
  OBVIOUS
<1>11. 1 <= Len(s) /\ Len(s) \in Nat /\ \A i \in 1 + 1 .. Len(s) : i = 2
  BY <1>3
<1>12. CASE c.rest = <<>>
  <2>1. Replaces(stack', 0, <<>>, s, 1)
    BY <1>2, <1>3, <1>12, InFront
  <2>2. Len(t) = 1 /\ t[1] = d /\ t # <<>>
    <3>1. Len(t) = 1 /\ t[0 + 1] = s[1 + 1] /\ Len(<<>>) = 0
      BY <1>3, <1>10, <2>1 DEF Replaces
    <3> QED
      BY <1>6, <3>1
  <2>3. Over(k)
    <3>1. Len(c.rest) = 0 /\ Len(paths[k]) \in Nat
      BY <1>2, <1>7, <1>12, PathFilter DEF StreamInv
    <3>2. ~\E i \in 1 .. Len(paths[k]) : Len(c.rest) = Len(paths[k]) + 1 - i
      BY <3>1
    <3> QED
      BY <1>7, <3>2 DEF Left
  <2>4. PathsRun(t, k)
    <3>1. \A p \in 1 .. k : p \in 1 .. k - 1 \/ p = k
      BY <1>7
    <3>2. \A p \in 1 .. k : Over(p)
      BY <1>7, <2>3, <3>1
    <3> QED
      BY <1>7, <2>2, <3>2 DEF PathsRun
  <2>5. InSequence'
    BY <1>4, <1>5, <1>10, <2>4 DEF InSequence
  <2>6. \A m : m \notin Working'
    <3>1. ~\E m : \E i \in 1 .. 0 : WorksFor(<<>>[i], m)
      OBVIOUS
    <3>2. \A m : m \in Working' <=> \/ \E i \in 1 .. 0 : WorksFor(<<>>[i], m)
                                    \/ \E i \in 1 + 1 .. Len(s) : WorksFor(s[i], m)
      BY <1>11, <2>1, WorkingAfter
    <3> QED
      BY <1>3, <1>11, <3>1, <3>2 DEF WorksFor
  <2>7. StreamStep
    BY <1>1, <1>2, <1>9, <1>10, <2>2, <2>6, AsksFor DEF moduleState
  <2> QED
    BY <1>4, <2>5, <2>7
<1>13. CASE c.rest # <<>>
  <2>1. PICK m : m = Head(c.rest)
    OBVIOUS
  <2>2. PICK a : a = [op |-> "filter", mod |-> m]
    OBVIOUS
  <2>3. PICK u : u = <<a, c>>
    OBVIOUS
  <2>4. Replaces(stack', 2, u, s, 1)
    BY <1>2, <1>3, <1>13, <2>1, <2>2, <2>3, InFront
  <2>5. u[1] = a /\ u[2] = c
    BY <2>3
  <2>6. Len(t) = 3 /\ t[2] = c /\ t[3] = d /\ t # <<>>
    <3>1. Len(t) = 3 /\ t[2] = u[2] /\ t[2 + 1] = s[1 + 1]
      BY <1>3, <1>10, <2>4 DEF Replaces
    <3>2. 2 + 1 = 3 /\ 1 + 1 = 2 /\ Len(<<>>) # 3
      OBVIOUS
    <3>3. t # <<>>
      BY <3>1, <3>2, Zenon
    <3> QED
      BY <1>6, <2>5, <3>1, <3>2, <3>3, Zenon
  <2>7. PathsRun(t, k)
    <3>1. Len(t) # 1 /\ Len(t) - 1 = 2 /\ k > 0
      BY <1>7, <2>6
    <3> QED
      BY <1>7, <2>6, <3>1 DEF PathsRun
  <2>8. InSequence'
    BY <1>4, <1>5, <1>10, <2>7 DEF InSequence
  <2>9. PICK i \in 1 .. Len(paths[k]) :
           Come(k, i) /\ m = paths[k][i] /\ m \in Modules
    BY <1>2, <1>7, <1>8, <1>13, <2>1, NextOnPath DEF StreamInv
  <2>10. CanAsk(m)
    BY <1>7, <2>9 DEF CanAsk
  <2>11. \A x : x \in Working' <=> x = m
    <3>1. \A x : x \in Working' <=> \/ \E j \in 1 .. 2 : WorksFor(u[j], x)
                                    \/ \E j \in 1 + 1 .. Len(s) : WorksFor(s[j], x)
      BY <1>11, <2>4, WorkingAfter
    <3>2. \A x : WorksFor(a, x) <=> x = m
      BY <2>2 DEF WorksFor
    <3>3. \A x : ~WorksFor(c, x) /\ ~WorksFor(s[2], x)
      BY <1>2, <1>3 DEF WorksFor
    <3>4. 1 \in 1 .. 2 /\ \A j \in 1 .. 2 : j = 1 \/ j = 2
      OBVIOUS
    <3> QED
      BY <1>11, <2>5, <3>1, <3>2, <3>3, <3>4
  <2>12. StreamStep
    <3>1. PICK M : M = {m}
      OBVIOUS
    <3>2. M \subseteq Modules /\ \E x : M = {x} /\ CanAsk(x)
      BY <2>9, <2>10, <3>1
    <3>3. \A x \in Modules :
             x \in Working' \/ runs[x] > 0 <=> x \in Working \/ runs[x] > 0 \/ x \in M
      BY <1>9, <2>11, <3>1
    <3> QED
      BY <1>1, <1>2, <1>10, <2>6, <3>2, <3>3, AsksFor DEF moduleState
  <2> QED
    BY <1>4, <2>8, <2>12
<1> QED
  BY <1>12, <1>13


\* A step of the innermost calls, those of a module or a Getter.
LEMMA InnerCalls ==
    ASSUME StreamInv, phase = "event", phase' = "event",
           UNCHANGED <<setup, m_wasRun, m_keep, m_lookupMap, m_seenEvents, runs>>,
           NEW s, s = stack, Len(s) \in Nat, s # <<>>, NEW q \in Nat, q + 2 <= Len(s),
           NEW n \in Nat, NEW u, Replaces(stack', n, u, s, q)
    PROVE  AsConfigured' /\ PathsRead' /\ Ran' /\ InSequence' /\ stack' # <<>>
<1>1. /\ AsConfigured' /\ PathsRead' /\ Ran'
      /\ \A t : \A k \in 0 .. Len(paths) : PathsRun(t, k) => PathsRun(t, k)'
  BY OnlyCalls
<1>2. PICK k \in 0 .. Len(paths) : PathsRun(s, k)
  BY DEF StreamInv, InSequence
<1>3. PICK t : t = stack'
  OBVIOUS
<1>4. PathsRun(t, k) /\ Len(t) > 1
  BY <1>2, <1>3, BelowStays
<1>5. t # <<>>
  <2>1. ~(Len(<<>>) > 1)
    OBVIOUS
  <2> QED
    BY <1>4, <2>1, Zenon
<1> QED
  BY <1>1, <1>3, <1>4, <1>5 DEF InSequence

\* A step of which only the calls tell, and that asks for no module.
LEMMA AsksForNone ==
    ASSUME StreamInv, IndInv', phase = "event", stack # <<>>, stack' # <<>>,
           UNCHANGED <<m_keep, m_seenEvents, runs>>,
           \A x \in Modules : x \in Working' \/ runs[x] > 0 <=> x \in Working \/ runs[x] > 0
    PROVE  StreamStep
<1>1. PICK M : M = {}
  OBVIOUS
<1>2. M \subseteq Modules /\ (M = {} \/ \E m : M = {m} /\ CanAsk(m))
  BY <1>1
<1>3. \A x \in Modules :
         x \in Working' \/ runs[x] > 0 <=> x \in Working \/ runs[x] > 0 \/ x \in M
  BY <1>1
<1> QED
  BY <1>2, <1>3, AsksFor

\* A module is called far enough inside of a path.
LEMMA Inner ==
    ASSUME IndInv, NEW s, s = stack, s # <<>>, NEW c, c = Head(s),
           c.op \in {"filter", "prefetch", "set"}
    PROVE  /\ s \in Seq(Range(s)) /\ Len(s) \in Nat /\ 1 + 2 <= Len(s)
           /\ c = s[1] /\ IsCall(c)
<1>1. s \in Seq(Range(s)) /\ Len(s) \in Nat /\ Len(s) >= 1 /\ c = s[1]
  BY Depth
<1>2. 1 \in 1 .. Len(s)
  BY <1>1
<1>3. IsCall(c) /\ 1 # Len(s) /\ 1 # Len(s) - 1
  BY <1>1, <1>2, Depth
<1>4. 1 + 2 <= Len(s)
  <2>1. PICK l \in Nat : l = Len(s)
    BY <1>1
  <2>2. l >= 1 /\ 1 # l /\ 1 # l - 1
    BY <1>1, <1>3, <2>1
  <2>3. 1 + 2 <= l
    BY <2>2
  <2> QED
    BY <2>1, <2>3
<1> QED
  BY <1>1, <1>3, <1>4

\* A filter that has run lets the path go on or not; another gets its data.
LEMMA DoFilterFollows ==
    ASSUME StreamInv, IndInv', DoFilter
    PROVE  AsConfigured' /\ PathsRead' /\ Ran' /\ InSequence' /\ StreamStep
<1>1. PICK s, c : s = stack /\ c = Top
  OBVIOUS
<1>2. /\ phase = "event" /\ s # <<>> /\ c.op = "filter" /\ c = Head(s)
      /\ UNCHANGED <<phase, setup, moduleState, m_seenEvents, runs, unset>>
      /\ IF m_wasRun[c.mod] THEN FilterReturns(c.mod)
         ELSE stack' = <<PrefetchFor(c.mod)>> \o s
  BY <1>1 DEF DoFilter, Inside, Top
<1>3. /\ s \in Seq(Range(s)) /\ Len(s) \in Nat /\ 1 + 2 <= Len(s) /\ c = s[1] /\ IsCall(c)
  BY <1>1, <1>2, Inner DEF StreamInv
<1>4. UNCHANGED <<setup, m_wasRun, m_keep, m_lookupMap, m_seenEvents, runs>> /\ phase' = "event"
  BY <1>2 DEF moduleState
<1>5. \A m : m \in Working <=> \E i \in 1 .. Len(s) : WorksFor(s[i], m)
  BY <1>1, WorkingIs DEF StreamInv
<1>6. CASE ~m_wasRun[c.mod]
  <2>1. PICK p : p = PrefetchFor(c.mod)
    OBVIOUS
  <2>2. p.op = "prefetch" /\ p.mod = c.mod
    BY <2>1 DEF PrefetchFor
  <2>3. PICK u : u = <<p>>
    OBVIOUS
  <2>4. Replaces(stack', 1, u, s, 0)
    BY <1>2, <1>3, <1>6, <2>1, <2>3, InFront
  <2>5. AsConfigured' /\ PathsRead' /\ Ran' /\ InSequence' /\ stack' # <<>>
    <3>1. 0 \in Nat /\ 0 + 2 <= Len(s) /\ 1 \in Nat
      BY <1>3
    <3> QED
      BY <1>1, <1>2, <1>3, <1>4, <2>4, <3>1, InnerCalls
  <2>6. \A m : m \in Working' <=> m \in Working
    <3>1. \A m : m \in Working' <=> \/ \E i \in 1 .. 1 : WorksFor(u[i], m)
                                    \/ \E i \in 0 + 1 .. Len(s) : WorksFor(s[i], m)
      <4>1. 0 \in Nat /\ 0 <= Len(s) /\ 1 \in Nat
        BY <1>3
      <4> QED
        BY <1>3, <2>4, <4>1, WorkingAfter
    <3>2. \A m : WorksFor(p, m) => WorksFor(s[1], m)
      BY <1>2, <1>3, <2>2 DEF WorksFor
    <3>3. 1 \in 1 .. Len(s) /\ \A i \in 1 .. 1 : u[i] = p
      BY <1>3, <2>3
    <3> QED
      BY <1>5, <3>1, <3>2, <3>3
  <2>7. StreamStep
    <3>1. stack # <<>> /\ UNCHANGED <<m_keep, m_seenEvents, runs>>
      BY <1>1, <1>2, <1>4
    <3>2. \A x \in Modules : x \in Working' \/ runs[x] > 0 <=> x \in Working \/ runs[x] > 0
      BY <2>6
    <3> QED
      BY <1>2, <2>5, <3>1, <3>2, AsksForNone
  <2> QED
    BY <2>5, <2>7
<1>7. CASE m_wasRun[c.mod]
  <2>1. PICK d, e : d = s[2] /\ e = s[3]
    OBVIOUS
  <2>2. d.op = "path" /\ d.rest # <<>> /\ Head(d.rest) = c.mod /\ IsCall(d)
    <3>1. IsCall(s[2]) /\ CalledBy(c, s[2])
      BY <1>1, <1>2, <1>3, Within DEF StreamInv
    <3> QED
      BY <1>2, <2>1, <3>1 DEF CalledBy
  <2>3. Len(s) = 3 /\ e.op = "paths"
    <3>1. 2 \in 1 .. Len(s) /\ 3 \in 1 .. Len(s)
      BY <1>3
    <3>2. 2 = Len(s) - 1
      BY <1>1, <1>2, <2>1, <2>2, <3>1, Depth DEF StreamInv
    <3>3. 3 = Len(s)
      BY <1>3, <3>2
    <3> QED
      BY <1>1, <1>2, <2>1, <3>1, <3>3, Depth DEF StreamInv
  <2>4. d = [op |-> "path", rest |-> d.rest] /\ d.rest \in Seq(FoundFilters)
    BY <2>2 DEF IsCall
  <2>5. PICK r : r = IF m_keep[c.mod] THEN Tail(d.rest) ELSE <<>>
    OBVIOUS
  <2>6. PICK a : a = [op |-> "path", rest |-> r]
    OBVIOUS
  <2>7. stack' = <<a>> \o SubSeq(s, 3, Len(s))
    <3>1. [d EXCEPT !.rest = r] = a
      BY <2>4, <2>6
    <3>2. [d EXCEPT !.rest = IF m_keep[c.mod] THEN Tail(@) ELSE <<>>] = [d EXCEPT !.rest = r]
      BY <2>4, <2>5
    <3>3. stack' = <<[d EXCEPT !.rest = IF m_keep[c.mod] THEN Tail(@) ELSE <<>>]>>
                     \o SubSeq(s, 3, Len(s))
      BY <1>1, <1>2, <1>7, <2>1 DEF FilterReturns
    <3> QED
      BY <3>1, <3>2, <3>3, Zenon
  <2>8. PICK u : u = <<a>>
    OBVIOUS
  <2>9. u[1] = a
    BY <2>8
  <2>10. Replaces(stack', 1, u, s, 2)
    <3>1. Len(s) >= 2
      BY <1>3
    <3>2. Replaces(<<a>> \o SubSeq(s, 3, Len(s)), 1, <<a>>, s, 2)
      BY <1>2, <1>3, <3>1, InFront, Zenon
    <3> QED
      BY <2>7, <2>8, <3>2, Zenon
  <2>11. PICK t : t = stack'
    OBVIOUS
  <2>12. Len(t) = 2 /\ t[1] = a /\ t[2] = e /\ t # <<>>
    <3>1. Len(t) = 2 /\ t[1] = u[1] /\ t[1 + 1] = s[2 + 1]
      BY <2>3, <2>10, <2>11 DEF Replaces
    <3>2. 1 + 1 = 2 /\ 2 + 1 = 3 /\ Len(<<>>) # 2
      OBVIOUS
    <3>3. t # <<>>
      BY <3>1, <3>2, Zenon
    <3> QED
      BY <2>1, <2>9, <3>1, <3>2, <3>3, Zenon
  <2>13. PICK k \in 0 .. Len(paths) : PathsRun(s, k)
    BY <1>1, <1>2 DEF StreamInv, InSequence
  <2>14. /\ Len(e.rest) = Len(paths) - k /\ Len(paths) \in Nat
         /\ \A i \in 1 .. Len(paths) - k : e.rest[i] = paths[k + i]
         /\ k \in 1 .. Len(paths) /\ Left(k, d.rest)
         /\ \A p \in 1 .. k - 1 : Over(p)
    <3>1. Len(s) > 1 /\ s[Len(s)] = e /\ s[Len(s) - 1] = d
      <4>1. Len(s) - 1 = 2
        BY <2>3
      <4> QED
        BY <2>1, <2>3, <4>1
    <3>2. k > 0 /\ Len(paths) \in Nat
      BY <2>13, <3>1, SingleThreadedAssumption DEF PathsRun
    <3>3. k \in 1 .. Len(paths)
      BY <3>2
    <3> QED
      BY <2>13, <3>1, <3>2, <3>3 DEF PathsRun
  <2>15. PICK i \in 1 .. Len(paths[k]) :
            /\ Come(k, i) /\ Len(d.rest) = Len(paths[k]) + 1 - i
            /\ \A j \in 1 .. Len(d.rest) : d.rest[j] = paths[k][i + j - 1]
            /\ c.mod = paths[k][i] /\ c.mod \in OnPaths
            /\ c.mod \in Modules /\ c.mod \in Filters
            /\ Len(paths[k]) \in Nat
    BY <1>2, <2>2, <2>4, <2>14, NextOnPath DEF StreamInv
  <2>16. runs[c.mod] = 1
    BY <1>2, <1>7, <2>15 DEF StreamInv, Ran
  <2>17. Left(k, r)
    <3>1. CASE ~m_keep[c.mod]
      <4>1. Over(k)
        BY <2>15, <2>16, <3>1 DEF Over
      <4> QED
        BY <2>5, <3>1, <4>1 DEF Left
    <3>2. CASE m_keep[c.mod]
      <4>1. Come(k, i + 1)
        <5>1. \A j \in 1 .. (i + 1) - 1 : j = i \/ j \in 1 .. i - 1
          OBVIOUS
        <5>2. Accepted(paths[k][i])
          BY <2>15, <2>16, <3>2 DEF Accepted
        <5> QED
          BY <2>15, <5>1, <5>2 DEF Come
      <4>2. /\ r = Tail(d.rest) /\ Len(r) = Len(paths[k]) - i
            /\ \A j \in 1 .. Len(r) : r[j] = d.rest[j + 1]
        <5>1. r = Tail(d.rest)
          BY <2>5, <3>2
        <5> QED
          BY <2>2, <2>4, <2>15, <5>1
      <4>3. CASE i = Len(paths[k])
        <5>1. r = <<>>
          <6>1. Len(r) = 0 /\ r \in Seq(FoundFilters)
            BY <2>2, <2>4, <2>15, <4>2, <4>3
          <6> QED
            BY <6>1
        <5>2. Over(k)
          BY <4>1, <4>3 DEF Over
        <5> QED
          BY <5>1, <5>2 DEF Left
      <4>4. CASE i # Len(paths[k])
        <5>1. i + 1 \in 1 .. Len(paths[k]) /\ Len(r) = Len(paths[k]) + 1 - (i + 1)
          <6>1. PICK l \in Nat : l = Len(paths[k])
            BY <2>15
          <6>2. i \in 1 .. l /\ i # l /\ Len(r) = l - i
            BY <4>2, <4>4, <6>1
          <6>3. i + 1 \in 1 .. l /\ l - i = l + 1 - (i + 1)
            BY <6>2
          <6> QED
            BY <6>1, <6>2, <6>3
        <5>2. \A j \in 1 .. Len(r) : r[j] = paths[k][(i + 1) + j - 1]
          <6> SUFFICES ASSUME NEW j \in 1 .. Len(r) PROVE r[j] = paths[k][(i + 1) + j - 1]
            OBVIOUS
          <6>1. j + 1 \in 1 .. Len(d.rest) /\ i + (j + 1) - 1 = (i + 1) + j - 1
            BY <2>15, <4>2
          <6>2. d.rest[j + 1] = paths[k][i + (j + 1) - 1]
            BY <2>15, <6>1
          <6> QED
            BY <4>2, <6>1, <6>2
        <5> QED
          BY <4>1, <5>1, <5>2 DEF Left
      <4> QED
        BY <4>3, <4>4
    <3> QED
      BY <3>1, <3>2
  <2>18. PathsRun(t, k)
    <3>1. Len(t) # 1 /\ Len(t) - 1 = 1 /\ k > 0
      BY <2>12, <2>14
    <3>2. a.rest = r
      BY <2>6
    <3> QED
      BY <2>12, <2>14, <2>17, <3>1, <3>2 DEF PathsRun
  <2>19. AsConfigured' /\ PathsRead' /\ Ran' /\ PathsRun(t, k)'
    BY <1>2, <1>4, <2>13, <2>18, OnlyCalls
  <2>20. InSequence'
    BY <2>11, <2>13, <2>19 DEF InSequence
  <2>21. \A m : /\ m \in Working <=> m = c.mod
                /\ m \notin Working'
    <3>1. \A m : m \in Working' <=> \/ \E j \in 1 .. 1 : WorksFor(u[j], m)
                                    \/ \E j \in 2 + 1 .. Len(s) : WorksFor(s[j], m)
      <4>1. 2 \in Nat /\ 2 <= Len(s) /\ 1 \in Nat
        BY <1>3
      <4> QED
        BY <1>3, <2>10, <4>1, WorkingAfter
    <3>2. \A m : WorksFor(c, m) <=> m = c.mod
      BY <1>2 DEF WorksFor
    <3>3. \A m : ~WorksFor(a, m) /\ ~WorksFor(d, m) /\ ~WorksFor(e, m)
      BY <2>2, <2>3, <2>6 DEF WorksFor
    <3>4. /\ \A j \in 1 .. 1 : j = 1
          /\ \A j \in 2 + 1 .. Len(s) : j = 3
          /\ \A j \in 1 .. Len(s) : j = 1 \/ j = 2 \/ j = 3
          /\ 1 \in 1 .. Len(s)
      BY <2>3
    <3> QED
      BY <1>3, <1>5, <2>1, <2>9, <3>1, <3>2, <3>3, <3>4
  <2>22. StreamStep
    <3>1. stack # <<>> /\ stack' # <<>> /\ UNCHANGED <<m_keep, m_seenEvents, runs>>
      BY <1>1, <1>2, <1>4, <2>11, <2>12
    <3>2. \A x \in Modules : x \in Working' \/ runs[x] > 0 <=> x \in Working \/ runs[x] > 0
      BY <2>16, <2>21
    <3> QED
      BY <1>2, <3>1, <3>2, AsksForNone
  <2> QED
    BY <2>19, <2>20, <2>22
<1> QED
  BY <1>6, <1>7


\* A Getter that is set asks for nothing.
LEMMA SetGetterFollows ==
    ASSUME StreamInv, IndInv', SetGetter
    PROVE  AsConfigured' /\ PathsRead' /\ Ran' /\ InSequence' /\ StreamStep
<1>1. PICK s, c : s = stack /\ c = Top
  OBVIOUS
<1>2. /\ phase = "event" /\ s # <<>> /\ c.op = "set" /\ c = Head(s)
      /\ stack' = <<>> \o Tail(s)
      /\ UNCHANGED <<phase, setup, m_wasRun, m_keep, m_lookupMap, m_seenEvents, runs>>
  BY <1>1 DEF SetGetter, Inside, Become, Top
<1>3. /\ s \in Seq(Range(s)) /\ Len(s) \in Nat /\ 1 + 2 <= Len(s) /\ c = s[1]
  BY <1>1, <1>2, Inner DEF StreamInv
<1>4. Replaces(stack', 0, <<>>, s, 1)
  BY <1>2, <1>3, InFront
<1>5. AsConfigured' /\ PathsRead' /\ Ran' /\ InSequence' /\ stack' # <<>>
  BY <1>1, <1>2, <1>3, <1>4, InnerCalls
<1>6. \A m : m \in Working' <=> m \in Working
  <2>1. \A m : m \in Working <=> \E i \in 1 .. Len(s) : WorksFor(s[i], m)
    BY <1>1, WorkingIs DEF StreamInv
  <2>2. \A m : m \in Working' <=> \/ \E i \in 1 .. 0 : WorksFor(<<>>[i], m)
                                  \/ \E i \in 1 + 1 .. Len(s) : WorksFor(s[i], m)
    <3>1. 1 <= Len(s) /\ 0 \in Nat /\ 1 \in Nat
      BY <1>3
    <3> QED
      BY <1>3, <1>4, <3>1, WorkingAfter
  <2>3. \A m : ~WorksFor(s[1], m)
    BY <1>2, <1>3 DEF WorksFor
  <2>4. /\ \A i \in 1 .. Len(s) : i = 1 \/ i \in 1 + 1 .. Len(s)
        /\ \A i \in 1 + 1 .. Len(s) : i \in 1 .. Len(s)
        /\ ~\E i : i \in 1 .. 0
    BY <1>3
  <2> QED
    BY <2>1, <2>2, <2>3, <2>4
<1>7. StreamStep
  <2>1. stack # <<>> /\ UNCHANGED <<m_keep, m_seenEvents, runs>>
    BY <1>1, <1>2
  <2>2. \A x \in Modules : x \in Working' \/ runs[x] > 0 <=> x \in Working \/ runs[x] > 0
    BY <1>6
  <2> QED
    BY <1>2, <1>5, <2>1, <2>2, AsksForNone
<1> QED
  BY <1>5, <1>7

\* A module asks for the producer of its next datum.
LEMMA PrefetchFollows ==
    ASSUME StreamInv, IndInv', Prefetch
    PROVE  AsConfigured' /\ PathsRead' /\ Ran' /\ InSequence' /\ StreamStep
<1>1. PICK s, c, key : s = stack /\ c = Top /\ key = Head(c.rest)
  OBVIOUS
<1>2. /\ phase = "event" /\ s # <<>> /\ c.op = "prefetch" /\ c.rest # <<>> /\ c = Head(s)
      /\ UNCHANGED <<setup, moduleState, m_seenEvents, runs, unset>>
      /\ IF key \notin DOMAIN m_lookupMap
           THEN phase' = "exit" /\ UNCHANGED stack
           ELSE /\ stack' = (GetDatum(c.mod, key) \o <<[c EXCEPT !.rest = Tail(@)]>>) \o Tail(s)
                /\ UNCHANGED phase
  BY <1>1 DEF Prefetch, Inside, Become, Top
<1>3. /\ s \in Seq(Range(s)) /\ Len(s) \in Nat /\ 1 + 2 <= Len(s) /\ c = s[1] /\ IsCall(c)
  BY <1>1, <1>2, Inner DEF StreamInv
<1>4. UNCHANGED <<setup, m_wasRun, m_keep, m_lookupMap, m_seenEvents, runs>>
  BY <1>2 DEF moduleState
<1>5. CASE key \notin DOMAIN m_lookupMap
  <2>1. phase' = "exit" /\ stack' = stack
    BY <1>2, <1>5
  <2>2. AsConfigured' /\ PathsRead' /\ Ran'
    BY <1>2, <1>4, <2>1, OnlyCalls
  <2>3. InSequence'
    BY <2>1 DEF InSequence
  <2>4. Later' <=> Later
    BY <1>4 DEF Later
  <2>5. laterEvent' = laterEvent /\ laterOpen' = laterOpen
    BY <1>4, <2>1, <2>4 DEF laterEvent, laterOpen
  <2>6. laterAsked' = laterAsked
    BY <1>4, <2>1, <2>4 DEF laterAsked, Working
  <2>7. laterRuns' = laterRuns /\ laterKept' = laterKept
    BY <1>4, <2>4 DEF laterRuns, laterKept
  <2> QED
    BY <2>2, <2>3, <2>5, <2>6, <2>7, Unseen
<1>6. CASE key \in DOMAIN m_lookupMap
  <2>1. PICK n, a : n = Maker(key) /\ a = c.mod
    OBVIOUS
  <2>2. PICK G : G = Range(module[a].m_getters)
    OBVIOUS
  <2>3. /\ c = [op |-> "prefetch", mod |-> a, rest |-> c.rest]
        /\ a \in DOMAIN module /\ ~m_wasRun[a] /\ c.rest \in Seq(G)
    BY <1>2, <1>3, <2>1, <2>2 DEF IsCall
  <2>4. PICK r : r = Tail(c.rest)
    OBVIOUS
  <2>5. key \in G
    BY <1>1, <1>2, <2>3, HeadAndTail
  <2>6. PICK d, e, p : /\ d = [op |-> "prefetch", mod |-> a, rest |-> r]
                       /\ e = [op |-> "set", mod |-> a, key |-> key]
                       /\ p = PrefetchFor(n)
    OBVIOUS
  <2>7. [c EXCEPT !.rest = Tail(@)] = d
    <3>1. [c EXCEPT !.rest = r] = d
      BY <2>3, <2>6
    <3>2. [c EXCEPT !.rest = Tail(@)] = [c EXCEPT !.rest = r]
      BY <2>3, <2>4
    <3> QED
      BY <3>1, <3>2, Zenon
  <2>8. phase' = "event"
    BY <1>2, <1>6
  <2>9. \A m : /\ WorksFor(d, m) <=> m = a
               /\ ~WorksFor(e, m)
               /\ WorksFor(p, m) <=> m = n
               /\ WorksFor(s[1], m) <=> m = a
    BY <1>2, <1>3, <2>1, <2>6 DEF WorksFor, PrefetchFor
  <2>10. \A m : m \in Working <=> \E i \in 1 .. Len(s) : WorksFor(s[i], m)
    BY <1>1, WorkingIs DEF StreamInv
  <2>11. /\ \A i \in 1 .. Len(s) : i = 1 \/ i \in 1 + 1 .. Len(s)
         /\ \A i \in 1 + 1 .. Len(s) : i \in 1 .. Len(s)
         /\ 1 \in 1 .. Len(s) /\ 1 <= Len(s) /\ 1 \in Nat
    BY <1>3
  <2>12. stack # <<>> /\ UNCHANGED <<m_keep, m_seenEvents, runs>>
    BY <1>1, <1>2, <1>4
  <2>13. CASE m_wasRun[n]
    <3>1. PICK u : u = <<e, d>>
      OBVIOUS
    <3>2. stack' = u \o Tail(s)
      <4>1. GetDatum(a, key) = <<e>>
        BY <2>1, <2>6, <2>13 DEF GetDatum, Maker
      <4>2. <<e>> \o <<d>> = <<e, d>>
        BY Chained
      <4> QED
        BY <1>2, <1>6, <2>1, <2>7, <3>1, <4>1, <4>2
    <3>3. Replaces(stack', 2, u, s, 1)
      BY <1>2, <1>3, <3>1, <3>2, InFront
    <3>4. AsConfigured' /\ PathsRead' /\ Ran' /\ InSequence' /\ stack' # <<>>
      <4>1. 2 \in Nat
        OBVIOUS
      <4> QED
        BY <1>1, <1>2, <1>3, <1>4, <2>8, <2>11, <3>3, <4>1, InnerCalls
    <3>5. \A m : m \in Working' <=> m \in Working
      <4>1. \A m : m \in Working' <=> \/ \E i \in 1 .. 2 : WorksFor(u[i], m)
                                      \/ \E i \in 1 + 1 .. Len(s) : WorksFor(s[i], m)
        <5>1. 2 \in Nat
          OBVIOUS
        <5> QED
          BY <1>3, <2>11, <3>3, <5>1, WorkingAfter
      <4>2. u[1] = e /\ u[2] = d /\ 2 \in 1 .. 2 /\ \A i \in 1 .. 2 : i = 1 \/ i = 2
        BY <3>1
      <4> QED
        BY <2>9, <2>10, <2>11, <4>1, <4>2
    <3>6. StreamStep
      <4>1. \A x \in Modules : x \in Working' \/ runs[x] > 0 <=> x \in Working \/ runs[x] > 0
        BY <3>5
      <4> QED
        BY <1>2, <2>12, <3>4, <4>1, AsksForNone
    <3> QED
      BY <3>4, <3>6
  <2>14. CASE ~m_wasRun[n]
    <3>1. PICK u : u = <<p, e, d>>
      OBVIOUS
    <3>2. stack' = u \o Tail(s)
      <4>1. GetDatum(a, key) = <<p>> \o <<e>>
        BY <2>1, <2>6, <2>14 DEF GetDatum, Maker
      <4>2. (<<p>> \o <<e>>) \o <<d>> = <<p, e, d>>
        BY Chained
      <4> QED
        BY <1>2, <1>6, <2>1, <2>7, <3>1, <4>1, <4>2
    <3>3. Replaces(stack', 3, u, s, 1)
      BY <1>2, <1>3, <3>1, <3>2, InFront
    <3>4. AsConfigured' /\ PathsRead' /\ Ran' /\ InSequence' /\ stack' # <<>>
      <4>1. 3 \in Nat
        OBVIOUS
      <4> QED
        BY <1>1, <1>2, <1>3, <1>4, <2>8, <2>11, <3>3, <4>1, InnerCalls
    <3>5. \A m : m \in Working' <=> m \in Working \/ m = n
      <4>1. \A m : m \in Working' <=> \/ \E i \in 1 .. 3 : WorksFor(u[i], m)
                                      \/ \E i \in 1 + 1 .. Len(s) : WorksFor(s[i], m)
        <5>1. 3 \in Nat
          OBVIOUS
        <5> QED
          BY <1>3, <2>11, <3>3, <5>1, WorkingAfter
      <4>2. /\ u[1] = p /\ u[2] = e /\ u[3] = d /\ 1 \in 1 .. 3 /\ 3 \in 1 .. 3
            /\ \A i \in 1 .. 3 : i = 1 \/ i = 2 \/ i = 3
        BY <3>1
      <4> QED
        BY <2>9, <2>10, <2>11, <4>1, <4>2
    <3>6. a \in Modules /\ n \in Modules /\ key[1] = n
      <4>1. key = <<n, "">> /\ n \in DOMAIN module
        BY <1>6, <2>1 DEF StreamInv, IndInv, LookupMade
      <4> QED
        BY <2>3, <4>1 DEF StreamInv, IndInv, Made, Modules
    <3>7. runs[a] = 0
      BY <1>2, <2>3, <3>6 DEF StreamInv, IndInv, Types, RunsOnce
    <3>8. n \in Range(Gets[a])
      BY <2>2, <2>3, <2>5, <3>6, GetsAre DEF StreamInv
    <3>9. a \in Working
      BY <2>9, <2>10, <2>11
    <3>10. CanAsk(n)
      BY <3>6, <3>7, <3>8, <3>9 DEF CanAsk
    <3>11. StreamStep
      <4>1. PICK M : M = {n}
        OBVIOUS
      <4>2. M \subseteq Modules /\ \E x : M = {x} /\ CanAsk(x)
        BY <3>6, <3>10, <4>1
      <4>3. \A x \in Modules :
               x \in Working' \/ runs[x] > 0 <=> x \in Working \/ runs[x] > 0 \/ x \in M
        BY <3>5, <4>1
      <4> QED
        BY <1>2, <2>12, <3>4, <4>2, <4>3, AsksFor
    <3> QED
      BY <3>4, <3>11
  <2> QED
    BY <2>13, <2>14
<1> QED
  BY <1>5, <1>6


\* What is changed when m has done its work.
LEMMA Worked ==
    ASSUME IndInv, Work, NEW m, m = Top.mod
    PROVE  /\ phase = "event" /\ stack # <<>> /\ Top.op = "prefetch" /\ stack' = <<>> \o Tail(stack)
           /\ UNCHANGED <<phase, setup, m_seenEvents>>
           /\ m \in Modules /\ m \in DOMAIN module
           /\ \A key \in Range(module[m].m_getters) : Got(m, key)
           /\ runs \in [Modules -> 0 .. 1] /\ runs[m] = 0 /\ runs' = [runs EXCEPT ![m] = 1]
           /\ m_wasRun \in [Modules -> BOOLEAN] /\ m_wasRun' = [m_wasRun EXCEPT ![m] = TRUE]
           /\ m_keep' \in [Filters -> BOOLEAN]
           /\ \A f \in Filters : f # m => m_keep'[f] = m_keep[f]
           /\ DOMAIN m_lookupMap' = DOMAIN m_lookupMap
           /\ \A key \in DOMAIN m_lookupMap : Maker(key)' = Maker(key)
<1>1. PICK s, c : s = stack /\ c = Top
  OBVIOUS
<1>2. /\ phase = "event" /\ s # <<>> /\ c.op = "prefetch" /\ c.rest = <<>> /\ m = c.mod
      /\ m_wasRun' = [m_wasRun EXCEPT ![m] = TRUE]
      /\ runs' = [runs EXCEPT ![m] = @ + 1]
      /\ IF m \in Filters THEN FilterWorks(m) ELSE Put(m)
      /\ stack' = <<>> \o Tail(s)
      /\ UNCHANGED <<phase, setup, m_value, m_seenEvents, unset>>
  BY <1>1 DEF Work, Inside, Become
<1>3. IsCall(c) /\ Innermost(c)
  BY <1>1, <1>2, Within
<1>4. m \in DOMAIN module /\ ~m_wasRun[m]
  BY <1>2, <1>3 DEF IsCall
<1>5. m \in Modules /\ IsModule(module[m])
  BY <1>4 DEF IndInv, Made, Modules
<1>6. \A key \in Range(module[m].m_getters) : Got(m, key)
  BY <1>2, <1>3 DEF Innermost, Range
<1>7. /\ runs \in [Modules -> 0 .. 1] /\ m_wasRun \in [Modules -> BOOLEAN]
      /\ m_keep \in [Filters -> BOOLEAN]
  BY DEF IndInv, Types
<1>8. runs[m] = 0
  BY <1>2, <1>4, <1>5, <1>7 DEF IndInv, RunsOnce
<1>9. runs' = [runs EXCEPT ![m] = 1]
  BY <1>2, <1>7, <1>8
<1>10. /\ m_keep' \in [Filters -> BOOLEAN]
       /\ \A f \in Filters : f # m => m_keep'[f] = m_keep[f]
       /\ DOMAIN m_lookupMap' = DOMAIN m_lookupMap
       /\ \A key \in DOMAIN m_lookupMap : Maker(key)' = Maker(key)
  <2>1. CASE m \in Filters
    <3>1. PICK keep \in IF m \in MayReject THEN BOOLEAN ELSE {module[m].keep} :
             m_keep' = [m_keep EXCEPT ![m] = keep]
      BY <1>2, <2>1 DEF FilterWorks
    <3>2. keep \in BOOLEAN
      BY <1>5, <3>1 DEF IsModule
    <3>3. m_lookupMap' = m_lookupMap
      BY <1>2, <2>1 DEF FilterWorks
    <3>4. m_keep' \in [Filters -> BOOLEAN] /\ \A f \in Filters : f # m => m_keep'[f] = m_keep[f]
      BY <1>7, <3>1, <3>2
    <3> QED
      BY <3>3, <3>4 DEF Maker
  <2>2. CASE m \notin Filters
    <3>1. m_keep' = m_keep
      BY <1>2, <2>2 DEF Put
    <3>2. m_lookupMap' = [key \in DOMAIN m_lookupMap |->
             IF key \in {m} \X module[m].m_products
               THEN [m_lookupMap[key] EXCEPT !.put = m_seenEvents]
               ELSE m_lookupMap[key]]
      BY <1>2, <2>2 DEF Put
    <3>3. ASSUME NEW key \in DOMAIN m_lookupMap PROVE Maker(key)' = Maker(key)
      <4>1. PICK e \in [producer : Producers, put : 0 .. iterations] : e = m_lookupMap[key]
        BY DEF IndInv, LookupMade
      <4>2. m_lookupMap'[key] \in {e, [e EXCEPT !.put = m_seenEvents]}
        BY <3>2, <4>1
      <4> QED
        BY <4>1, <4>2 DEF Maker
    <3>4. DOMAIN m_lookupMap' = DOMAIN m_lookupMap
      BY <3>2
    <3> QED
      BY <1>7, <3>1, <3>3, <3>4
  <2> QED
    BY <2>1, <2>2
<1> QED
  BY <1>1, <1>2, <1>4, <1>5, <1>6, <1>7, <1>8, <1>9, <1>10

\* A filter decides, or a producer puts its data: that is when it has run, with
\* all run that it gets from.
LEMMA WorkFollows ==
    ASSUME StreamInv, IndInv', Work
    PROVE  AsConfigured' /\ PathsRead' /\ Ran' /\ InSequence' /\ StreamStep
<1>1. PICK s, c, m : s = stack /\ c = Top /\ m = Top.mod
  OBVIOUS
<1>2. /\ phase = "event" /\ s # <<>> /\ c.op = "prefetch" /\ stack' = <<>> \o Tail(s)
      /\ UNCHANGED <<phase, setup, m_seenEvents>>
      /\ m \in Modules /\ m \in DOMAIN module
      /\ \A key \in Range(module[m].m_getters) : Got(m, key)
      /\ runs \in [Modules -> 0 .. 1] /\ runs[m] = 0 /\ runs' = [runs EXCEPT ![m] = 1]
      /\ m_wasRun \in [Modules -> BOOLEAN] /\ m_wasRun' = [m_wasRun EXCEPT ![m] = TRUE]
      /\ m_keep' \in [Filters -> BOOLEAN]
      /\ \A f \in Filters : f # m => m_keep'[f] = m_keep[f]
      /\ DOMAIN m_lookupMap' = DOMAIN m_lookupMap
      /\ \A key \in DOMAIN m_lookupMap : Maker(key)' = Maker(key)
  BY <1>1, Worked DEF StreamInv
<1>3. c = Head(s) /\ m = c.mod
  BY <1>1 DEF Top
<1>4. /\ s \in Seq(Range(s)) /\ Len(s) \in Nat /\ 1 + 2 <= Len(s) /\ c = s[1]
  BY <1>1, <1>2, <1>3, Inner DEF StreamInv
<1>5. AsConfigured' /\ PathsRead' /\ OnPaths' = OnPaths
  BY <1>2, RestKeeps DEF StreamInv
<1>6. OnPaths \subseteq Filters /\ Filters \subseteq Modules
  BY <1>2, PathFilter DEF StreamInv, Modules
<1>7. /\ runs'[m] = 1 /\ \A x \in Modules : x # m => runs'[x] = runs[x]
      /\ \A x \in Modules : x # m => m_wasRun'[x] = m_wasRun[x]
  BY <1>2
<1>8. \A key \in DOMAIN m_lookupMap : Maker(key) \in Modules /\ key[1] = Maker(key)
  <2> SUFFICES ASSUME NEW key \in DOMAIN m_lookupMap
               PROVE  Maker(key) \in Modules /\ key[1] = Maker(key)
    OBVIOUS
  <2>1. PICK n : n = Maker(key)
    OBVIOUS
  <2>2. key = <<n, "">> /\ n \in DOMAIN module
    BY <2>1 DEF StreamInv, IndInv, LookupMade
  <2>3. key[1] = n
    BY <2>2
  <2>4. n \in Modules
    BY <2>2 DEF StreamInv, IndInv, Made, Modules
  <2> QED
    BY <2>1, <2>3, <2>4
<1>9. Ran'
  <2>1. ASSUME NEW f \in OnPaths, m_wasRun'[f] PROVE runs'[f] = 1
    BY <1>2, <1>6, <1>7, <2>1 DEF StreamInv, Ran
  <2>2. ASSUME m_seenEvents > 1, NEW key \in DOMAIN m_lookupMap, m_wasRun'[Maker(key)]
        PROVE  runs'[Maker(key)] = 1
    BY <1>2, <1>7, <1>8, <2>2 DEF StreamInv, Ran
  <2> QED
    BY <1>2, <1>5, <2>1, <2>2 DEF Ran
<1>10. \A t : \A k \in 0 .. Len(paths) : PathsRun(t, k) => PathsRun(t, k)'
  <2>1. \A f \in OnPaths : /\ Accepted(f) => Accepted(f)'
                           /\ runs[f] = 1 /\ ~m_keep[f] => runs'[f] = 1 /\ ~m_keep'[f]
    <3> SUFFICES ASSUME NEW f \in OnPaths, runs[f] = 1
                 PROVE  runs'[f] = 1 /\ m_keep'[f] = m_keep[f]
      BY DEF Accepted
    <3>1. f # m /\ f \in Filters /\ f \in Modules
      BY <1>2, <1>6
    <3> QED
      BY <1>2, <1>7, <3>1
  <2> QED
    BY <1>2, <2>1, PathsStill DEF StreamInv
<1>11. Replaces(stack', 0, <<>>, s, 1)
  BY <1>2, <1>4, InFront
<1>12. InSequence' /\ stack' # <<>>
  <2>1. PICK k \in 0 .. Len(paths) : PathsRun(s, k)
    BY <1>1, <1>2 DEF StreamInv, InSequence
  <2>2. PICK t : t = stack'
    OBVIOUS
  <2>3. PathsRun(t, k) /\ Len(t) > 1
    <3>1. 0 \in Nat /\ 1 \in Nat
      OBVIOUS
    <3> QED
      BY <1>4, <1>11, <2>1, <2>2, <3>1, BelowStays
  <2>4. t # <<>>
    <3>1. ~(Len(<<>>) > 1)
      OBVIOUS
    <3> QED
      BY <2>3, <3>1, Zenon
  <2> QED
    BY <1>10, <2>1, <2>2, <2>3, <2>4 DEF InSequence
<1>13. /\ m \in Working
       /\ \A x : x # m => (x \in Working' <=> x \in Working)
  <2>1. \A x : x \in Working <=> \E i \in 1 .. Len(s) : WorksFor(s[i], x)
    BY <1>1, WorkingIs DEF StreamInv
  <2>2. \A x : x \in Working' <=> \/ \E i \in 1 .. 0 : WorksFor(<<>>[i], x)
                                  \/ \E i \in 1 + 1 .. Len(s) : WorksFor(s[i], x)
    <3>1. 1 <= Len(s) /\ 0 \in Nat /\ 1 \in Nat
      BY <1>4
    <3> QED
      BY <1>4, <1>11, <3>1, WorkingAfter
  <2>3. \A x : WorksFor(s[1], x) <=> x = m
    BY <1>2, <1>3, <1>4 DEF WorksFor
  <2>4. /\ \A i \in 1 .. Len(s) : i = 1 \/ i \in 1 + 1 .. Len(s)
        /\ \A i \in 1 + 1 .. Len(s) : i \in 1 .. Len(s)
        /\ 1 \in 1 .. Len(s)
        /\ ~\E i : i \in 1 .. 0
    BY <1>4
  <2> QED
    BY <2>1, <2>2, <2>3, <2>4
<1>14. StreamStep
  <2>1. CASE ~Later
    BY <1>2, <2>1, NotLater DEF Later
  <2>2. CASE Later
    <3>1. Later' /\ m_seenEvents > 1
      BY <1>2, <2>2 DEF Later
    <3>2. laterEvent' = laterEvent /\ laterOpen' = laterOpen /\ laterOpen
      BY <1>1, <1>2, <1>12, <2>2, <3>1 DEF laterEvent, laterOpen
    <3>3. laterAsked' = laterAsked /\ m \in laterAsked
      <4>1. Working \subseteq Modules /\ Working' \subseteq Modules
        <5>1. IndInv' => (Working \subseteq Modules)'
          BY WorkingModules, PTL
        <5> QED
          BY <5>1, WorkingModules DEF StreamInv
      <4>2. \A x \in Modules :
               x \in Working' \/ runs'[x] > 0 <=> x \in Working \/ runs[x] > 0
        <5> SUFFICES ASSUME NEW x \in Modules
                     PROVE  x \in Working' \/ runs'[x] > 0 <=> x \in Working \/ runs[x] > 0
          OBVIOUS
        <5>1. CASE x = m
          <6>1. runs'[x] > 0 /\ x \in Working
            BY <1>7, <1>13, <5>1
          <6> QED
            BY <6>1
        <5>2. CASE x # m
          BY <1>7, <1>13, <5>2
        <5> QED
          BY <5>1, <5>2
      <4> QED
        BY <1>13, <2>2, <3>1, <4>1, <4>2 DEF laterAsked
    <3>4. laterRuns' = [laterRuns EXCEPT ![m] = 1]
      BY <1>2, <2>2, <3>1 DEF laterRuns
    <3>5. ~Stream!Settled(m)
      BY <1>2, <2>2 DEF Stream!Settled, laterRuns
    <3>6. ASSUME NEW n \in Stream!Range(Gets[m]) PROVE laterRuns[n] > 0
      <4>1. n \in Range(Gets[m])
        BY DEF Stream!Range, Range
      <4>2. PICK key \in Range(module[m].m_getters) : key[1] = n
        BY <1>2, <4>1, GetsAre DEF StreamInv
      <4>3. key \in DOMAIN m_lookupMap /\ m_wasRun[Maker(key)]
        BY <1>2 DEF Got
      <4>4. n = Maker(key) /\ n \in Modules
        BY <1>8, <4>2, <4>3
      <4>5. runs[n] = 1
        BY <1>2, <3>1, <4>3, <4>4 DEF StreamInv, Ran
      <4> QED
        BY <2>2, <4>4, <4>5 DEF laterRuns
    <3>7. PICK keep \in BOOLEAN : keep <=> m \in Filters /\ m_keep'[m]
      <4>1. (m \in Filters /\ m_keep'[m]) \/ ~(m \in Filters /\ m_keep'[m])
        OBVIOUS
      <4> QED
        BY <4>1
    <3>8. laterKept' = IF keep /\ m \in Filters THEN laterKept \cup {m} ELSE laterKept
      <4>1. /\ laterKept = {f \in Filters : runs[f] > 0 /\ m_keep[f]}
            /\ laterKept' = {f \in Filters : runs'[f] > 0 /\ m_keep'[f]}
        BY <2>2, <3>1 DEF laterKept
      <4>2. \A f \in Filters : f # m => (f \in laterKept' <=> f \in laterKept)
        BY <1>2, <1>6, <1>7, <4>1
      <4>3. /\ laterKept \subseteq Filters /\ laterKept' \subseteq Filters
            /\ m \notin laterKept /\ (m \in laterKept' <=> keep)
        <5>1. runs'[m] > 0 /\ ~(runs[m] > 0)
          BY <1>2, <1>7
        <5> QED
          BY <3>7, <4>1, <5>1, Zenon
      <4>4. CASE keep
        BY <3>7, <4>2, <4>3, <4>4
      <4>5. CASE ~keep
        BY <4>2, <4>3, <4>5
      <4> QED
        BY <4>4, <4>5
    <3>9. Stream!Run(m, keep)
      BY <3>2, <3>3, <3>4, <3>5, <3>6, <3>8 DEF Stream!Run
    <3>10. m \in Stream!Modules
      BY <1>2 DEF Stream!Modules, Modules
    <3>11. Stream!Progress
      BY <3>7, <3>9, <3>10 DEF Stream!Progress
    <3> QED
      BY <3>11 DEF StreamStep
  <2> QED
    BY <2>1, <2>2
<1> QED
  BY <1>5, <1>9, <1>12, <1>14


-----------------------------------------------------------------------------
(* The refinement. *)

\* At the start nothing has been made, and EventStream has begun no event.
LEMMA StreamInit == Init => StreamInv /\ Stream!Init
<1> SUFFICES ASSUME Init PROVE StreamInv /\ Stream!Init
  OBVIOUS
<1> USE DEF Init
<1>1. IndInv
  BY InitInv
<1>2. AsConfigured /\ PathsRead
  <2>1. Len(m_paths) = 0 /\ DOMAIN module = {} /\ phase = "filters"
    OBVIOUS
  <2>2. \A i \in 1 .. Len(m_paths) : m_paths[i] = paths[i]
    BY <2>1
  <2> QED
    BY <2>1, <2>2 DEF AsConfigured, PathsRead
<1>3. Ran /\ InSequence
  BY DEF Ran, InSequence
<1>4. ~Later
  BY DEF Later
<1>5. Stream!Init
  BY <1>4 DEF Stream!Init, Stream!Modules, Modules, laterEvent, laterOpen, laterAsked, laterRuns,
              laterKept
<1> QED
  BY <1>1, <1>2, <1>3, <1>5 DEF StreamInv

\* Every step keeps the invariant, and is one of EventStream or none.
LEMMA StreamFollows == StreamInv /\ [Next]_vars => StreamInv' /\ StreamStep
<1> SUFFICES ASSUME StreamInv, [Next]_vars PROVE StreamInv' /\ StreamStep
  OBVIOUS
<1>1. IndInv'
  BY NextInv DEF StreamInv
<1>2. AsConfigured' /\ PathsRead' /\ Ran' /\ InSequence' /\ StreamStep
  <2>1. CASE AddFilter \/ AddProducer \/ AddPath
    BY <2>1, SetupFollows
  <2>2. CASE NextEvent
    BY <1>1, <2>2, NextEventFollows
  <2>3. CASE NoMoreEvents
    BY <1>1, <2>3, NoMoreEventsFollows
  <2>4. CASE ResetEvent
    BY <2>4, ResetEventFollows
  <2>5. CASE RunPath
    BY <1>1, <2>5, RunPathFollows
  <2>6. CASE RunFilter
    BY <1>1, <2>6, RunFilterFollows
  <2>7. CASE DoFilter
    BY <1>1, <2>7, DoFilterFollows
  <2>8. CASE Prefetch
    BY <1>1, <2>8, PrefetchFollows
  <2>9. CASE SetGetter
    BY <1>1, <2>9, SetGetterFollows
  <2>10. CASE Work
    BY <1>1, <2>10, WorkFollows
  <2>11. CASE UNCHANGED vars
    BY <2>11, StutterFollows
  <2> QED
    BY <2>1, <2>2, <2>3, <2>4, <2>5, <2>6, <2>7, <2>8, <2>9, <2>10, <2>11 DEF Next
<1> QED
  BY <1>1, <1>2 DEF StreamInv

\* The paths are run one after the other, each as far as its filters accept the
\* event, and what has run according to its memory has run in this event.
THEOREM PathsInSequence == Spec => [](Ran /\ InSequence)
<1>1. StreamInv => Ran /\ InSequence
  BY DEF StreamInv
<1>2. StreamInv /\ [Next]_vars => StreamInv'
  BY StreamFollows
<1> QED
  BY StreamInit, <1>1, <1>2, PTL DEF Spec

\* From the second event on the framework implements EventStream: a module runs
\* once, when a path has come to it or a module asks for its data, and not
\* before what it gets from; and an event is over when every path is, with
\* nothing asked for left.
THEOREM ImplementsStream == Spec => StreamSpec
<1>1. StreamInv /\ [Next]_vars => StreamInv'
  BY StreamFollows
<1>2. StreamInv /\ [Next]_vars => [Stream!Progress \/ Stream!JobFails]_(Stream!vars)
  BY StreamFollows DEF StreamStep
<1>3. Init => StreamInv /\ Stream!Init
  BY StreamInit
<1> QED
  BY <1>1, <1>2, <1>3, PTL DEF Spec, StreamSpec, Stream!Spec

=============================================================================
