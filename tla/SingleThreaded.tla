--------------------------- MODULE SingleThreaded ---------------------------
(***************************************************************************)
(* The single threaded framework: main builds filters, producers and paths *)
(* from the configuration, and processAll takes one event after the other  *)
(* through the paths.  A producer runs inside the first request for its    *)
(* data, so what goes on is the stack of calls of the only thread.         *)
(*                                                                         *)
(* Modules are known by their labels.  A datum is the number of the event  *)
(* it was put in, 0 if it never was.                                       *)
(***************************************************************************)
EXTENDS SingleThreadedTestModules, Naturals, Functions

CONSTANTS
    filters, producers, paths,  \* of the configuration file, each a sequence
    iterations,                 \* process.source.iterations
    UIntSize,                   \* unsigned int counts modulo this
    MayReject                   \* filters that may reject an event; of the test
                                \* modules none does

Labels(configs) == {configs[i].label : i \in DOMAIN configs}
Filters   == Labels(filters)
Producers == Labels(producers)
Modules   == Filters \cup Producers

\* The labels are different, the times of events are given (an index is taken
\* modulo their number), and the source's counter does not wrap.
ASSUME SingleThreadedAssumption ==
    /\ filters \in Seq(Range(filters)) /\ producers \in Seq(Range(producers))
    /\ paths \in Seq(Seq(STRING))
    /\ \A s \in {filters \o producers} : \A i, j \in DOMAIN s :
          s[i].label = s[j].label => i = j
    /\ \A c \in Range(filters) \cup Range(producers) :
          c.eventTimes # <<>> /\ c.toGet \in Seq(Range(c.toGet))
    /\ iterations \in Nat /\ UIntSize \in Nat /\ iterations + 1 < UIntSize
    /\ MayReject \subseteq Filters

VARIABLES
    phase,          \* what main is at
    rest,           \* of the list it reads
    module,         \* the modules made so far, by label
    m_paths,        \* the Schedule's: sequences of filters
    m_lookupMap,    \* the Event's: for a key the producer and the datum
    m_wasRun, m_keep,
                    \* of each module, of each filter
    m_value,        \* of each Getter: for a module and a key
    m_seenEvents,   \* of the source
    stack,          \* the calls, the innermost first
    runs, unset     \* history: how often each module ran in this event, and
                    \* the producers that seemed to have run from the start

setup   == <<rest, module, m_paths>>
moduleState == <<m_wasRun, m_keep, m_value, m_lookupMap>>
vars == <<phase, setup, moduleState, m_seenEvents, stack, runs, unset>>

-----------------------------------------------------------------------------
(* main, up to processAll *)

\* m_wasRun is not initialized: the memory a module is made in decides.
Init ==
    /\ phase = "filters" /\ rest = filters
    /\ module = <<>> /\ m_paths = <<>> /\ m_lookupMap = <<>>
    /\ m_wasRun \in [Modules -> BOOLEAN]
    /\ m_keep = [f \in Filters |-> TRUE]
    /\ m_value = <<>>
    /\ m_seenEvents = 0
    /\ stack = <<>>
    /\ runs = [m \in Modules |-> 0]
    /\ unset = {n \in Producers : m_wasRun[n]}

Join(f, g) == [x \in DOMAIN f \cup DOMAIN g |-> IF x \in DOMAIN g THEN g[x] ELSE f[x]]

Becomes(next, list) == phase' = next /\ rest' = list

\* The next filter of the file is made, and kept by the Schedule.
AddFilter ==
    /\ phase = "filters"
    /\ IF rest = <<>>
         THEN Becomes("producers", producers) /\ UNCHANGED module
         ELSE LET f == CreateFilter(Head(rest))
              IN IF f = NoModule
                   THEN Becomes("exit", <<>>) /\ UNCHANGED module
                   ELSE /\ Becomes("filters", Tail(rest))
                        /\ module' = Join(module, [l \in {f.label} |-> f])
    /\ UNCHANGED <<m_paths, moduleState, m_seenEvents, stack, runs, unset>>

\* Event::addProducer makes an entry for each product.
Entries(n) == [key \in {n.label} \X n.m_products |-> [producer |-> n.label, put |-> 0]]

\* The next producer.
AddProducer ==
    /\ phase = "producers"
    /\ IF rest = <<>>
         THEN Becomes("paths", paths) /\ UNCHANGED <<module, m_lookupMap>>
         ELSE LET n == CreateProducer(Head(rest))
              IN IF n = NoModule
                   THEN Becomes("exit", <<>>) /\ UNCHANGED <<module, m_lookupMap>>
                   ELSE /\ Becomes("producers", Tail(rest))
                        /\ module' = Join(module, [l \in {n.label} |-> n])
                        /\ m_lookupMap' = Join(m_lookupMap, Entries(n))
    /\ UNCHANGED <<m_paths, m_wasRun, m_keep, m_value, m_seenEvents, stack, runs, unset>>

\* Schedule::findFilter
FilterFound(l) == l \in DOMAIN module /\ module[l].base = "filter"

\* Schedule::addPath: the filters of a path must have been found.
PathMade(names) == \A l \in Range(names) : FilterFound(l)

\* The next path.
AddPath ==
    /\ phase = "paths"
    /\ IF rest = <<>>
         THEN Becomes("source", <<>>) /\ UNCHANGED m_paths
         ELSE IF PathMade(Head(rest))
                THEN /\ Becomes("paths", Tail(rest))
                     /\ m_paths' = Append(m_paths, Head(rest))
                ELSE Becomes("exit", <<>>) /\ UNCHANGED m_paths
    /\ UNCHANGED <<module, moduleState, m_seenEvents, stack, runs, unset>>

-----------------------------------------------------------------------------
(* EventProcessor::processAll *)

Top == Head(stack)
Inside(op) == phase = "event" /\ stack # <<>> /\ Top.op = op
Become(s) == stack' = s \o Tail(stack)

\* Mutant of HasNextEvent: counted after the comparison.
HasNextEventOneMore == iterations % UIntSize >= m_seenEvents % UIntSize

\* SimpleSource::setEventInfo
HasNextEvent == iterations % UIntSize >= (m_seenEvents + 1) % UIntSize
CountEvent   == m_seenEvents' = (m_seenEvents + 1) % UIntSize

NoMoreEvents ==
    /\ phase = "source" /\ ~HasNextEvent
    /\ CountEvent
    /\ phase' = "done"
    /\ UNCHANGED <<setup, moduleState, stack, runs, unset>>

\* Module::reset of the modules in s.
ResetModules(s) == m_wasRun' = [m \in Modules |-> m_wasRun[m] /\ m \notin s]

\* Schedule::reset, with Path::reset.
OnPaths == UNION {Range(m_paths[i]) : i \in DOMAIN m_paths}

\* There is an event: Schedule::process resets the filters of its paths.
NextEvent ==
    /\ phase = "source" /\ HasNextEvent
    /\ CountEvent
    /\ phase' = "event"
    /\ ResetModules(OnPaths)
    /\ stack' = <<[op |-> "paths", rest |-> m_paths]>>
    /\ runs' = [m \in Modules |-> 0]
    /\ UNCHANGED <<setup, m_keep, m_value, m_lookupMap, unset>>

\* Mutant of ResetEvent: the producers are left as they are.
ResetNothing ==
    /\ phase = "event" /\ stack = <<>>
    /\ phase' = "source"
    /\ UNCHANGED <<setup, moduleState, m_seenEvents, stack, runs, unset>>

\* After the Schedule has processed the event: Event::reset.
ResetEvent ==
    /\ phase = "event" /\ stack = <<>>
    /\ phase' = "source"
    /\ ResetModules({m_lookupMap[key].producer : key \in DOMAIN m_lookupMap})
    /\ UNCHANGED <<setup, m_keep, m_value, m_lookupMap, m_seenEvents, stack, runs, unset>>

-----------------------------------------------------------------------------
(* What goes on inside Schedule::process *)

RunPath ==
    /\ Inside("paths")
    /\ Become(IF Top.rest = <<>> THEN <<>>
              ELSE <<[op |-> "path", rest |-> Head(Top.rest)],
                     [op |-> "paths", rest |-> Tail(Top.rest)]>>)
    /\ UNCHANGED <<phase, setup, moduleState, m_seenEvents, runs, unset>>

\* Path::run calls doFilter of the next filter ...
RunFilter ==
    /\ Inside("path")
    /\ Become(IF Top.rest = <<>> THEN <<>>
              ELSE <<[op |-> "filter", mod |-> Head(Top.rest)], Top>>)
    /\ UNCHANGED <<phase, setup, moduleState, m_seenEvents, runs, unset>>

\* Mutant of FilterReturns: the path goes on whatever the filter decides.
FilterReturnsKeep(f) ==
    LET path == stack[2]
    IN stack' = <<[path EXCEPT !.rest = Tail(@)]>> \o SubSeq(stack, 3, Len(stack))

\* ... and goes on with the one after it if the event is kept.
FilterReturns(f) ==
    LET path == stack[2]
    IN stack' = <<[path EXCEPT !.rest = IF m_keep[f] THEN Tail(@) ELSE <<>>]>>
                   \o SubSeq(stack, 3, Len(stack))

\* Inside doFilter or doProduce of m: its data is to be got.
PrefetchFor(m) == [op |-> "prefetch", mod |-> m, rest |-> module[m].m_getters]

\* Filter::doFilter, for a filter that has run in this event or has not.
DoFilter ==
    /\ Inside("filter")
    /\ LET f == Top.mod
       IN IF m_wasRun[f]
            THEN FilterReturns(f)
            ELSE stack' = <<PrefetchFor(f)>> \o stack
    /\ UNCHANGED <<phase, setup, moduleState, m_seenEvents, runs, unset>>

\* Event::get(Getter*): the producer runs unless it has, and the Getter is set.
GetDatum(m, key) ==
    LET n == m_lookupMap[key].producer
        set == <<[op |-> "set", mod |-> m, key |-> key]>>
    IN IF m_wasRun[n] THEN set ELSE <<PrefetchFor(n)>> \o set

\* Module::prefetch gets the next datum.  The one of an unknown module is
\* beyond the end of the map: the job ends where it is.
Prefetch ==
    /\ Inside("prefetch") /\ Top.rest # <<>>
    /\ LET m == Top.mod
           key == Head(Top.rest)
       IN IF key \notin DOMAIN m_lookupMap
            THEN phase' = "exit" /\ UNCHANGED stack
            ELSE /\ Become(GetDatum(m, key) \o <<[Top EXCEPT !.rest = Tail(@)]>>)
                 /\ UNCHANGED phase
    /\ UNCHANGED <<setup, moduleState, m_seenEvents, runs, unset>>

\* Getter::set
SetGetter ==
    /\ Inside("set")
    /\ m_value' = Join(m_value, [g \in {<<Top.mod, Top.key>>} |-> m_lookupMap[Top.key].put])
    /\ Become(<<>>)
    /\ UNCHANGED <<phase, setup, m_wasRun, m_keep, m_lookupMap, m_seenEvents, runs, unset>>

\* The filter decides.
FilterWorks(f) ==
    /\ \E keep \in IF f \in MayReject THEN BOOLEAN ELSE {module[f].keep} :
          m_keep' = [m_keep EXCEPT ![f] = keep]
    /\ UNCHANGED m_lookupMap

\* Event::put of all products of n.
Put(n) ==
    /\ m_lookupMap' = [key \in DOMAIN m_lookupMap |->
          IF key \in {n} \X module[n].m_products
            THEN [m_lookupMap[key] EXCEPT !.put = m_seenEvents]
            ELSE m_lookupMap[key]]
    /\ UNCHANGED m_keep

\* All has been got: a filter decides, a producer puts its data, and either is
\* marked as run.
Work ==
    /\ Inside("prefetch") /\ Top.rest = <<>>
    /\ LET m == Top.mod
       IN /\ m_wasRun' = [m_wasRun EXCEPT ![m] = TRUE]
          /\ runs' = [runs EXCEPT ![m] = @ + 1]
          /\ IF m \in Filters THEN FilterWorks(m) ELSE Put(m)
    /\ Become(<<>>)
    /\ UNCHANGED <<phase, setup, m_value, m_seenEvents, unset>>

-----------------------------------------------------------------------------
Next == \/ AddFilter \/ AddProducer \/ AddPath
        \/ NextEvent \/ NoMoreEvents \/ ResetEvent
        \/ RunPath \/ RunFilter \/ DoFilter \/ Prefetch \/ SetGetter \/ Work

Spec == Init /\ [][Next]_vars

\* The only thread goes on.
FairSpec == Spec /\ WF_vars(Next)

-----------------------------------------------------------------------------
(* Properties. *)

TypeOK ==
    /\ phase \in {"filters", "producers", "paths", "source", "event", "done", "exit"}
    /\ DOMAIN module \subseteq Modules
    /\ m_wasRun \in [Modules -> BOOLEAN] /\ m_keep \in [Filters -> BOOLEAN]
    /\ m_seenEvents \in 0 .. iterations + 1
    /\ \A i \in DOMAIN m_paths : Range(m_paths[i]) \subseteq Filters
    /\ \A g \in DOMAIN m_value : m_value[g] \in 0 .. iterations
    /\ runs \in [Modules -> 0 .. 1]
    /\ unset \subseteq Producers

\* A module works on the data of the event it works for: what the Event keeps
\* from one event to the next is never taken for new.  Only in the first event
\* the memory of a producer may say that it has run.
FreshData ==
    Inside("prefetch") /\ Top.rest = <<>> =>
        \A i \in DOMAIN module[Top.mod].reads :
            LET key == module[Top.mod].reads[i]
            IN \/ m_value[<<Top.mod, key>>] = m_seenEvents
               \/ m_seenEvents = 1 /\ m_lookupMap[key].producer \in unset

\* From the second event on the framework does what EventStream promises of a
\* stream in which nothing fails, and comes to an end.  (In the first one a
\* producer may not run.)
Later == m_seenEvents > 1 /\ iterations > 1

laterEvent ==
    IF ~Later THEN 0 ELSE IF m_seenEvents > iterations THEN iterations - 1 ELSE m_seenEvents - 1
laterOpen == Later /\ stack # <<>>
Working == {stack[i].mod : i \in {j \in DOMAIN stack : stack[j].op \in {"filter", "prefetch"}}}
laterAsked == IF Later THEN Working \cup {m \in Modules : runs[m] > 0} ELSE {}
laterRuns == [m \in Modules |-> IF Later THEN runs[m] ELSE 0]
laterKept == IF Later THEN {f \in Filters : runs[f] > 0 /\ m_keep[f]} ELSE {}

\* What module m is when it has been made, and the producers it gets from.
Configured(m) == CHOOSE c \in Range(filters) \cup Range(producers) : c.label = m
Created(m) ==
    IF m \in Filters THEN CreateFilter(Configured(m)) ELSE CreateProducer(Configured(m))
Gets == [m \in Modules |->
            LET keys == Created(m).m_getters IN [i \in DOMAIN keys |-> keys[i][1]]]

Stream == INSTANCE EventStream
    WITH Paths <- DOMAIN paths, PathFilters <- paths,
         MayThrow <- {}, NEvents <- iterations - 1,
         event <- laterEvent, open <- laterOpen, asked <- laterAsked,
         runs <- laterRuns, kept <- laterKept,
         broken <- {}, fatal <- FALSE, failed <- FALSE

StreamSpec == Stream!Spec
StreamFairSpec == Stream!FairSpec

=============================================================================
