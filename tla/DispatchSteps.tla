-------------------------- MODULE DispatchSteps ---------------------------
(***************************************************************************)
(* What the proofs about the framework on libdispatch rest on.  First what *)
(* a group counts, what the blocks that run and those that wait in a queue *)
(* or for a group are still going to call, and what each function does to  *)
(* them: nothing there is about modules, paths or events.  Then the parts  *)
(* of EventInv, the inductive invariant: what main has made, that a group  *)
(* of a Schedule is entered as often as something is still going to leave  *)
(* it, that each list of calls is one that the code makes, and that what   *)
(* waits for what never goes in a circle; and that each function of the    *)
(* framework keeps them.                                                   *)
(***************************************************************************)
EXTENDS Dispatch, FiniteSetTheorems, TLAPS

-----------------------------------------------------------------------------
(* What is where in libdispatch. *)

\* A sequence of one call; a sequence, of whatever it is; a bag.
IsOne(s) == s = <<s[1]>>
IsSeq(s) == s \in Seq(Range(s))
IsBag(B) == B \in [DOMAIN B -> Nat \ {0}]

\* The blocks that run, and how many copies of each.
Runs(d) == DOMAIN d.running
Copies(d, b) == CopiesIn(b, d.running)

\* What a call that submits a block will have been: the first call of the block.
Inner(c) == IF c.call = "submit" THEN c.block[1] ELSE c
Inners(s) == {Inner(c) : c \in Range(s)}

Block(q, calls) == [queue |-> q, calls |-> calls]

\* The blocks that run, and those that wait in a queue.
Held(d) == Runs(d) \cup UNION {{Block(q, s) : s \in Range(d.queues[q].blocks)} : q \in DOMAIN d.queues}

\* The calls that will be made without any group becoming empty.
Now(d) == UNION {Inners(b.calls) : b \in Held(d)}

\* The first calls of blocks, and of those in each queue.
Firsts(blocks) == [i \in DOMAIN blocks |-> blocks[i][1]]
FirstCalls(Q) == [q \in DOMAIN Q |-> Firsts(Q[q].blocks)]

JobCalls == {"prefetch", "notifyPrefetched", "suspendOwn", "suspendUnsafe", "work", "next"}

\* The group that is left when a job is done.
JobGroup(c) == IF c.at = <<>> THEN m_group(c.wrapper) ELSE m_allPathsDoneGroup(c.wrapper[1])

StreamToken(s) == <<"stream", s>>

\* Who makes call c leaves group x, resumes queue x, goes on with a stream.
Owes(c, x) ==
    \/ c.call = "leave" /\ x = c.group
    \/ c.call = "resume" /\ x = c.queue
    \/ c.call \in JobCalls /\ x = JobGroup(c)
    \/ c.call = "suspendUnsafe" /\ x = <<"run", 0, c.wrapper[2]>>
    \/ c.call \in {"getAll", "awaitProducer"} /\ x = prefetchGroup(c.wrapper)
    \/ c.call = "lock" /\ x = Lock(c.wrapper)
    \/ c.call \in {"startPaths", "scheduleDone"} /\ x = m_eventLoopGroup
    \/ c.call \in {"event", "count", "startPaths", "scheduleDone"} /\ x = StreamToken(c.stream)

\* The places where that is, in a sequence of calls, in running blocks, and in
\* sequences by name.
OwingIn(s, x) == {i \in DOMAIN s : Owes(Inner(s[i]), x)}
RunPlaces(r, x) == UNION {{<<b, k, i>> : k \in 1 .. r[b], i \in OwingIn(b.calls, x)} : b \in DOMAIN r}
Places(F, x) == UNION {{<<q, i>> : i \in OwingIn(F[q], x)} : q \in DOMAIN F}

\* How many they are.
N(s, x) == Cardinality(OwingIn(s, x))

FinitePlaces(d, x) ==
    /\ IsFiniteSet(RunPlaces(d.running, x))
    /\ IsFiniteSet(Places(FirstCalls(d.queues), x))
    /\ IsFiniteSet(Places(d.notify, x))

Count(d, x) == Cardinality(RunPlaces(d.running, x))
                 + Cardinality(Places(FirstCalls(d.queues), x))
                 + Cardinality(Places(d.notify, x))

-----------------------------------------------------------------------------
(* What libdispatch keeps is what it should. *)

IsQueue(r) ==
    /\ r = [blocks |-> r.blocks, suspended |-> r.suspended, busy |-> r.busy]
    /\ IsSeq(r.blocks) /\ (\A block \in Range(r.blocks) : IsOne(block))
    /\ r.suspended \in Int /\ r.busy \in BOOLEAN

IsBlock(b) ==
    /\ b = [queue |-> b.queue, calls |-> b.calls]
    /\ IsSeq(b.calls) /\ b.calls # <<>>

\* All of it, the places where something is owed being finitely many.
IsGcd(d) ==
    /\ d = [groups |-> d.groups, notify |-> d.notify, queues |-> d.queues, running |-> d.running]
    /\ IsBag(d.groups)
    /\ IsBag(d.running)
    /\ \A b \in Runs(d) : IsBlock(b)
    /\ \A q \in DOMAIN d.queues : IsQueue(d.queues[q])
    /\ Global \notin DOMAIN d.queues
    /\ \A g \in DOMAIN d.notify : IsSeq(d.notify[g]) /\ d.notify[g] # <<>>
    /\ \A x : FinitePlaces(d, x)

-----------------------------------------------------------------------------
(* Sequences. *)

\* What is a sequence of anything is one of its own elements.
LEMMA SeqIs ==
  ASSUME NEW T, NEW s \in Seq(T)
  PROVE  IsSeq(s)
  <1>1. \A i \in 1 .. Len(s) : s[i] \in Range(s)
    BY DEF Range
  <1> QED
    BY <1>1 DEF IsSeq

\* What is known of a sequence, without Seq.
LEMMA SeqOf ==
  ASSUME NEW s, IsSeq(s)
  PROVE  /\ Len(s) \in Nat /\ DOMAIN s = 1 .. Len(s)
         /\ s # <<>> => Len(s) # 0
         /\ Range(s) = {s[i] : i \in 1 .. Len(s)}
         /\ s = [i \in 1 .. Len(s) |-> s[i]]
  BY DEF IsSeq, Range

\* Sequences are the same that have the same elements.
LEMMA SameSeq ==
  ASSUME NEW s, NEW t, IsSeq(s), IsSeq(t), Len(s) = Len(t), \A i \in 1 .. Len(s) : s[i] = t[i]
  PROVE  s = t
  <1>1. s = [i \in 1 .. Len(s) |-> s[i]] /\ t = [i \in 1 .. Len(t) |-> t[i]]
    BY SeqOf
  <1> QED
    BY <1>1

\* The empty sequence, and that of one element.
LEMMA OneElement ==
  ASSUME NEW c
  PROVE  /\ IsSeq(<<>>) /\ Range(<<>>) = {} /\ Len(<<>>) = 0
         /\ IsSeq(<<c>>) /\ Range(<<c>>) = {c} /\ Len(<<c>>) = 1 /\ <<c>>[1] = c
         /\ <<c>> # <<>> /\ DOMAIN <<c>> = {1}
  <1>1. <<>> \in Seq({}) /\ <<c>> \in Seq({c})
    OBVIOUS
  <1>2. IsSeq(<<>>) /\ IsSeq(<<c>>)
    BY <1>1, SeqIs
  <1> QED
    BY <1>2 DEF Range

\* An element before a sequence.
LEMMA Cons ==
  ASSUME NEW c, NEW s, IsSeq(s)
  PROVE  /\ IsSeq(<<c>> \o s)
         /\ Len(<<c>> \o s) = Len(s) + 1
         /\ (<<c>> \o s)[1] = c
         /\ \A i \in 1 .. Len(s) : (<<c>> \o s)[i + 1] = s[i]
         /\ Range(<<c>> \o s) = {c} \cup Range(s)
         /\ <<c>> \o s # <<>> /\ Head(<<c>> \o s) = c /\ Tail(<<c>> \o s) = s
  <1> DEFINE T == {c} \cup Range(s)
             r == <<c>> \o s
  <1>1. s \in Seq(T) /\ <<c>> \in Seq(T)
    BY DEF IsSeq
  <1>2. r \in Seq(T) /\ Len(r) = Len(s) + 1 /\ Len(s) \in Nat
    BY <1>1
  <1>3. r[1] = c /\ \A i \in 1 .. Len(s) : r[i + 1] = s[i]
    BY <1>1
  <1>a. r \in Seq(T) => Range(r) \subseteq T
    BY DEF Range
  <1> HIDE DEF r
  <1>4. IsSeq(r)
    BY <1>2, SeqIs
  <1>5. Range(r) = T
    <2>1. ASSUME NEW x \in Range(s)
          PROVE  x \in Range(r)
      <3>1. PICK i \in 1 .. Len(s) : x = s[i]
        BY SeqOf
      <3>2. i + 1 \in 1 .. Len(r)
        BY <1>2
      <3> QED
        BY <3>1, <3>2, <1>3, <1>4, SeqOf
    <2>2. c \in Range(r)
      BY <1>2, <1>3, <1>4, SeqOf
    <2> QED
      BY <2>1, <2>2, <1>2, <1>a
  <1>6. r # <<>> /\ Head(r) = c
    BY <1>2, <1>3 DEF r
  <1>7. Tail(r) = s
    <2>1. Tail(r) \in Seq(T) /\ Len(Tail(r)) = Len(s)
      BY <1>2
    <2>2. \A i \in 1 .. Len(s) : Tail(r)[i] = s[i]
      BY <1>2, <1>3
    <2>3. IsSeq(Tail(r))
      BY <2>1, SeqIs
    <2>4. s = [i \in 1 .. Len(s) |-> s[i]] /\ Tail(r) = [i \in 1 .. Len(Tail(r)) |-> Tail(r)[i]]
      BY <2>3, SeqOf
    <2> QED
      BY <2>1, <2>2, <2>4
  <1> QED
    BY <1>2, <1>3, <1>4, <1>5, <1>6, <1>7 DEF r

\* A sequence is its head before its tail.
LEMMA HeadTail ==
  ASSUME NEW s, IsSeq(s), s # <<>>
  PROVE  /\ s = <<Head(s)>> \o Tail(s)
         /\ IsSeq(Tail(s)) /\ Len(Tail(s)) = Len(s) - 1
         /\ Range(s) = {Head(s)} \cup Range(Tail(s))
         /\ Head(s) = s[1]
  <1>1. s \in Seq(Range(s))
    BY DEF IsSeq
  <1>2. Tail(s) \in Seq(Range(s)) /\ Len(Tail(s)) = Len(s) - 1 /\ Head(s) = s[1] /\ Len(s) \in Nat \ {0}
    BY <1>1
  <1>3. IsSeq(Tail(s))
    BY <1>2, SeqIs
  <1>4. \A i \in 1 .. Len(Tail(s)) : Tail(s)[i] = s[i + 1]
    BY <1>1, <1>2
  <1>5. s = <<Head(s)>> \o Tail(s)
    <2> DEFINE r == <<Head(s)>> \o Tail(s)
    <2>1. IsSeq(r) /\ Len(r) = Len(s) /\ r[1] = s[1]
      BY <1>2, <1>3, Cons
    <2>2. \A i \in 1 .. Len(Tail(s)) : r[i + 1] = s[i + 1]
      BY <1>3, <1>4, Cons
    <2>3. \A i \in 1 .. Len(s) : r[i] = s[i]
      <3> TAKE i \in 1 .. Len(s)
      <3>1. i = 1 \/ i - 1 \in 1 .. Len(Tail(s))
        BY <1>2
      <3>2. CASE i - 1 \in 1 .. Len(Tail(s))
        <4>1. r[(i - 1) + 1] = s[(i - 1) + 1]
          BY <2>2, <3>2
        <4> QED
          BY <4>1
      <3> QED
        BY <3>1, <3>2, <2>1
    <2>4. r \in Seq(Range(r))
      BY <2>1 DEF IsSeq
    <2> QED
      BY <2>1, <2>3, <2>4, <1>1
  <1> QED
    BY <1>2, <1>3, <1>5, Cons

\* Two sequences, one after the other.
LEMMA Concat ==
  ASSUME NEW s, NEW t, IsSeq(s), IsSeq(t)
  PROVE  /\ IsSeq(s \o t)
         /\ Len(s \o t) = Len(s) + Len(t)
         /\ \A i \in 1 .. Len(s) : (s \o t)[i] = s[i]
         /\ \A i \in 1 .. Len(t) : (s \o t)[Len(s) + i] = t[i]
         /\ Range(s \o t) = Range(s) \cup Range(t)
  <1> DEFINE T == Range(s) \cup Range(t)
             r == s \o t
  <1>1. s \in Seq(T) /\ t \in Seq(T)
    BY DEF IsSeq
  <1>2. r \in Seq(T) /\ Len(r) = Len(s) + Len(t) /\ Len(s) \in Nat /\ Len(t) \in Nat
    BY <1>1
  <1>3. /\ \A i \in 1 .. Len(s) : r[i] = s[i]
        /\ \A i \in 1 .. Len(t) : r[Len(s) + i] = t[i]
    BY <1>1
  <1>a. r \in Seq(T) => Range(r) \subseteq T
    BY DEF Range
  <1> HIDE DEF r
  <1>4. IsSeq(r)
    BY <1>2, SeqIs
  <1>5. Range(r) = T
    <2>1. ASSUME NEW x \in Range(s)
          PROVE  x \in Range(r)
      <3>1. PICK i \in 1 .. Len(s) : x = s[i]
        BY SeqOf
      <3>2. i \in 1 .. Len(r)
        BY <1>2
      <3> QED
        BY <3>1, <3>2, <1>3, <1>4, SeqOf
    <2>2. ASSUME NEW x \in Range(t)
          PROVE  x \in Range(r)
      <3>1. PICK i \in 1 .. Len(t) : x = t[i]
        BY SeqOf
      <3>2. Len(s) + i \in 1 .. Len(r)
        BY <1>2
      <3> QED
        BY <3>1, <3>2, <1>3, <1>4, SeqOf
    <2> QED
      BY <2>1, <2>2, <1>2, <1>a
  <1> QED
    BY <1>2, <1>3, <1>4, <1>5 DEF r

\* Sequences before a sequence.
LEMMA ConcatCons ==
  ASSUME NEW c, NEW s, NEW t, IsSeq(s), IsSeq(t)
  PROVE  /\ (<<c>> \o s) \o t = <<c>> \o (s \o t)
         /\ <<>> \o t = t /\ s \o <<>> = s
  <1> DEFINE T == {c} \cup Range(s) \cup Range(t)
  <1>1. s \in Seq(T) /\ t \in Seq(T) /\ <<c>> \in Seq(T)
    BY DEF IsSeq
  <1> QED
    BY <1>1

\* Concatenation is associative.
LEMMA Associative ==
  ASSUME NEW s, NEW t, NEW u, IsSeq(s), IsSeq(t), IsSeq(u)
  PROVE  (s \o t) \o u = s \o (t \o u)
  <1> DEFINE T == Range(s) \cup Range(t) \cup Range(u)
  <1>1. s \in Seq(T) /\ t \in Seq(T) /\ u \in Seq(T)
    BY DEF IsSeq
  <1> QED
    BY <1>1

\* Two and three elements are as many sequences of one.
LEMMA Elements ==
  ASSUME NEW a, NEW b, NEW c
  PROVE  /\ <<a, b>> = <<a>> \o <<b>>
         /\ <<a, b, c>> = <<a>> \o <<b, c>>
  <1> DEFINE T == {a, b, c}
  <1>1. <<a>> \in Seq(T) /\ <<b>> \in Seq(T) /\ <<a, b>> \in Seq(T) /\ <<b, c>> \in Seq(T) /\ <<a, b, c>> \in Seq(T)
    OBVIOUS
  <1>2. <<a>> \o <<b>> \in Seq(T) /\ <<a>> \o <<b, c>> \in Seq(T)
    BY <1>1
  <1>3. Len(<<a>> \o <<b>>) = 2 /\ (<<a>> \o <<b>>)[1] = a /\ (<<a>> \o <<b>>)[2] = b
    BY <1>1
  <1>4. /\ Len(<<a>> \o <<b, c>>) = 3 /\ (<<a>> \o <<b, c>>)[1] = a
        /\ (<<a>> \o <<b, c>>)[2] = b /\ (<<a>> \o <<b, c>>)[3] = c
    BY <1>1
  <1>5. <<a, b>> = <<a>> \o <<b>>
    <2>1. IsSeq(<<a, b>>) /\ IsSeq(<<a>> \o <<b>>)
      BY <1>1, <1>2, SeqIs
    <2>2. Len(<<a, b>>) = 2 /\ <<a, b>>[1] = a /\ <<a, b>>[2] = b
      OBVIOUS
    <2>3. \A i \in 1 .. 2 : i = 1 \/ i = 2
      OBVIOUS
    <2> QED
      BY <2>1, <2>2, <2>3, <1>3, SameSeq
  <1>6. <<a, b, c>> = <<a>> \o <<b, c>>
    <2>1. IsSeq(<<a, b, c>>) /\ IsSeq(<<a>> \o <<b, c>>)
      BY <1>1, <1>2, SeqIs
    <2>2. Len(<<a, b, c>>) = 3 /\ <<a, b, c>>[1] = a /\ <<a, b, c>>[2] = b /\ <<a, b, c>>[3] = c
      OBVIOUS
    <2>3. \A i \in 1 .. 3 : i = 1 \/ i = 2 \/ i = 3
      OBVIOUS
    <2> QED
      BY <2>1, <2>2, <2>3, <1>4, SameSeq
  <1> QED
    BY <1>5, <1>6

\* An element after a sequence.
LEMMA AppendIs ==
  ASSUME NEW s, NEW c, IsSeq(s)
  PROVE  /\ Append(s, c) = s \o <<c>>
         /\ IsSeq(Append(s, c)) /\ Append(s, c) # <<>>
         /\ Len(Append(s, c)) = Len(s) + 1
         /\ \A i \in 1 .. Len(s) : Append(s, c)[i] = s[i]
         /\ Append(s, c)[Len(s) + 1] = c
         /\ Range(Append(s, c)) = Range(s) \cup {c}
  <1> DEFINE T == {c} \cup Range(s)
  <1>1. s \in Seq(T) /\ <<c>> \in Seq(T)
    BY DEF IsSeq
  <1>2. Append(s, c) = s \o <<c>>
    BY <1>1
  <1>3. Append(s, c) \in Seq(T) /\ Append(s, c)[Len(s) + 1] = c /\ Len(Append(s, c)) = Len(s) + 1
    BY <1>1
  <1>4. Append(s, c) # <<>>
    BY <1>3, <1>1
  <1> QED
    BY <1>2, <1>3, <1>4, Concat, OneElement
-----------------------------------------------------------------------------
(* Counting. *)

\* A function that is one to one and onto does not change the size.
LEMMA SameSize ==
  ASSUME NEW S, IsFiniteSet(S), NEW T, NEW f \in [S -> T],
         \A x, y \in S : f[x] = f[y] => x = y,
         \A t \in T : \E x \in S : f[x] = t
  PROVE  IsFiniteSet(T) /\ Cardinality(T) = Cardinality(S)
  <1>1. f \in Bijection(S, T)
    BY DEF Bijection, Injection, Surjection, IsInjective
  <1>2. ExistsBijection(S, T)
    BY <1>1 DEF ExistsBijection
  <1> QED
    BY <1>2, FS_Bijection

\* Sets that have nothing in common.
LEMMA Disjoint ==
  ASSUME NEW S, NEW T, IsFiniteSet(S), IsFiniteSet(T), S \cap T = {}
  PROVE  /\ IsFiniteSet(S \cup T)
         /\ Cardinality(S \cup T) = Cardinality(S) + Cardinality(T)
  <1>1. Cardinality(S \cap T) = 0 /\ Cardinality(S) \in Nat /\ Cardinality(T) \in Nat
    BY FS_EmptySet, FS_CardinalityType
  <1>2. /\ IsFiniteSet(S \cup T)
        /\ Cardinality(S \cup T) = Cardinality(S) + Cardinality(T) - Cardinality(S \cap T)
    BY FS_Union
  <1> QED
    BY <1>1, <1>2

\* What is left of a set when a part is taken away.
LEMMA Without ==
  ASSUME NEW S, NEW T, IsFiniteSet(S), T \subseteq S
  PROVE  /\ IsFiniteSet(S \ T) /\ IsFiniteSet(T)
         /\ Cardinality(S) = Cardinality(S \ T) + Cardinality(T)
  <1>1. IsFiniteSet(S \ T) /\ IsFiniteSet(T)
    BY FS_Subset
  <1>2. (S \ T) \cap T = {} /\ (S \ T) \cup T = S
    OBVIOUS
  <1> QED
    BY <1>1, <1>2, Disjoint

\* Numbers with a name.
LEMMA Named ==
  ASSUME NEW S, IsFiniteSet(S), NEW q
  PROVE  /\ IsFiniteSet({<<q, i>> : i \in S})
         /\ Cardinality({<<q, i>> : i \in S}) = Cardinality(S)
  <1> DEFINE T == {<<q, i>> : i \in S}
             f == [i \in S |-> <<q, i>>]
  <1>1. f \in [S -> T]
    OBVIOUS
  <1>2. \A x, y \in S : f[x] = f[y] => x = y
    OBVIOUS
  <1>3. \A t \in T : \E x \in S : f[x] = t
    OBVIOUS
  <1> HIDE DEF f, T
  <1>4. IsFiniteSet(T) /\ Cardinality(T) = Cardinality(S)
    BY <1>1, <1>2, <1>3, SameSize
  <1> QED
    BY <1>4 DEF T

-----------------------------------------------------------------------------
(* What the calls of a sequence owe. *)

\* What a call costs: 1 if it owes x.
One(c, x) == IF Owes(Inner(c), x) THEN 1 ELSE 0

\* The places in a sequence are finitely many.
LEMMA FinitelyOwing ==
  ASSUME NEW s, IsSeq(s), NEW x
  PROVE  IsFiniteSet(OwingIn(s, x)) /\ N(s, x) \in Nat
  <1>1. OwingIn(s, x) \subseteq 1 .. Len(s) /\ Len(s) \in Nat
    BY SeqOf DEF OwingIn
  <1>2. IsFiniteSet(1 .. Len(s))
    BY <1>1, FS_Interval
  <1> QED
    BY <1>1, <1>2, FS_Subset, FS_CardinalityType DEF N

\* A sequence owes what its parts owe.
LEMMA NConcat ==
  ASSUME NEW s, NEW t, IsSeq(s), IsSeq(t), NEW x
  PROVE  N(s \o t, x) = N(s, x) + N(t, x)
  <1> DEFINE A == OwingIn(s, x)
             B == {Len(s) + i : i \in OwingIn(t, x)}
             r == s \o t
             f == [i \in OwingIn(t, x) |-> Len(s) + i]
  <1>1. /\ DOMAIN s = 1 .. Len(s) /\ DOMAIN t = 1 .. Len(t)
        /\ Len(s) \in Nat /\ Len(t) \in Nat
        /\ IsSeq(r) /\ DOMAIN r = 1 .. Len(r)
        /\ Len(r) = Len(s) + Len(t)
        /\ \A i \in 1 .. Len(s) : r[i] = s[i]
        /\ \A i \in 1 .. Len(t) : r[Len(s) + i] = t[i]
    BY SeqOf, Concat
  <1> HIDE DEF r
  <1>2. OwingIn(r, x) = A \cup B
    <2>1. ASSUME NEW i \in OwingIn(r, x)
          PROVE  i \in A \cup B
      <3>1. i \in 1 .. Len(s) + Len(t) /\ Owes(Inner(r[i]), x)
        BY <1>1 DEF OwingIn
      <3>2. CASE i \in 1 .. Len(s)
        BY <3>1, <3>2, <1>1 DEF OwingIn
      <3>3. CASE i \notin 1 .. Len(s)
        <4>1. i - Len(s) \in 1 .. Len(t) /\ Len(s) + (i - Len(s)) = i
          BY <3>1, <3>3, <1>1
        <4>2. i - Len(s) \in OwingIn(t, x)
          BY <4>1, <3>1, <1>1 DEF OwingIn
        <4> QED
          BY <4>1, <4>2
      <3> QED
        BY <3>2, <3>3
    <2>2. ASSUME NEW i \in A
          PROVE  i \in OwingIn(r, x)
      <3>1. i \in 1 .. Len(s) /\ Owes(Inner(s[i]), x)
        BY <1>1 DEF OwingIn
      <3> QED
        BY <3>1, <1>1 DEF OwingIn
    <2>3. ASSUME NEW i \in OwingIn(t, x)
          PROVE  Len(s) + i \in OwingIn(r, x)
      <3>1. i \in 1 .. Len(t) /\ Owes(Inner(t[i]), x)
        BY <1>1 DEF OwingIn
      <3> QED
        BY <3>1, <1>1 DEF OwingIn
    <2> QED
      BY <2>1, <2>2, <2>3
  <1>3. A \cap B = {}
    BY <1>1 DEF OwingIn
  <1>4. IsFiniteSet(A) /\ IsFiniteSet(OwingIn(t, x))
    BY FinitelyOwing
  <1>5. IsFiniteSet(B) /\ Cardinality(B) = Cardinality(OwingIn(t, x))
    <2>1. f \in [OwingIn(t, x) -> B]
      OBVIOUS
    <2>2. \A i, j \in OwingIn(t, x) : f[i] = f[j] => i = j
      BY <1>1 DEF OwingIn
    <2>3. \A k \in B : \E i \in OwingIn(t, x) : f[i] = k
      OBVIOUS
    <2> HIDE DEF f, B
    <2> QED
      BY <2>1, <2>2, <2>3, <1>4, SameSize
  <1> HIDE DEF A, B
  <1>6. Cardinality(A \cup B) = Cardinality(A) + Cardinality(B)
    BY <1>3, <1>4, <1>5, Disjoint
  <1> QED
    BY <1>2, <1>5, <1>6 DEF N, A, r

\* One call.
LEMMA NOne ==
  ASSUME NEW c, NEW x
  PROVE  N(<<c>>, x) = One(c, x) /\ N(<<>>, x) = 0
  <1>1. OwingIn(<<>>, x) = {}
    BY DEF OwingIn
  <1>2. OwingIn(<<c>>, x) = IF Owes(Inner(c), x) THEN {1} ELSE {}
    <2>1. DOMAIN <<c>> = {1} /\ <<c>>[1] = c
      BY OneElement
    <2> QED
      BY <2>1 DEF OwingIn
  <1> QED
    BY <1>1, <1>2, FS_EmptySet, FS_Singleton DEF N, One

\* A call before others.
LEMMA NCons ==
  ASSUME NEW c, NEW s, IsSeq(s), NEW x
  PROVE  /\ N(<<c>> \o s, x) = One(c, x) + N(s, x)
         /\ N(s, x) \in Nat /\ One(c, x) \in {0, 1}
  <1>1. IsSeq(<<c>>)
    BY OneElement
  <1> QED
    BY <1>1, NConcat, NOne, FinitelyOwing DEF One

-----------------------------------------------------------------------------
(* What sequences with names owe, and running blocks. *)

\* The sequence called q, if there is one.
At(F, q) == IF q \in DOMAIN F THEN F[q] ELSE <<>>

\* The places in the other sequences.
Elsewhere(F, q, x) == {p \in Places(F, x) : p[1] # q}

\* The places in one sequence and those in the others.
LEMMA PlacesSplit ==
  ASSUME NEW F, NEW q, NEW x, IsSeq(At(F, q))
  PROVE  /\ Places(F, x) = Elsewhere(F, q, x) \cup {<<q, i>> : i \in OwingIn(At(F, q), x)}
         /\ IsFiniteSet(Elsewhere(F, q, x)) =>
               /\ IsFiniteSet(Places(F, x))
               /\ Cardinality(Places(F, x)) = Cardinality(Elsewhere(F, q, x)) + N(At(F, q), x)
  <1> DEFINE own == {<<q, i>> : i \in OwingIn(At(F, q), x)}
  <1>1. Places(F, x) = Elsewhere(F, q, x) \cup own
    <2>1. OwingIn(<<>>, x) = {}
      BY DEF OwingIn
    <2>2. own \subseteq Places(F, x)
      BY <2>1 DEF Places, At
    <2>3. \A p \in Places(F, x) : p[1] = q => p \in own
      BY DEF Places, At
    <2> QED
      BY <2>2, <2>3 DEF Elsewhere
  <1>2. Elsewhere(F, q, x) \cap own = {}
    BY DEF Elsewhere
  <1>3. IsFiniteSet(OwingIn(At(F, q), x))
    BY FinitelyOwing
  <1>4. IsFiniteSet(own) /\ Cardinality(own) = N(At(F, q), x)
    BY <1>3, Named DEF N
  <1> QED
    BY <1>1, <1>2, <1>4, Disjoint

\* One of the sequences changes.
LEMMA PlacesChange ==
  ASSUME NEW F, NEW G, NEW q, NEW x,
         IsSeq(At(F, q)), IsSeq(At(G, q)),
         DOMAIN F \ {q} = DOMAIN G \ {q},
         \A y \in DOMAIN F \ {q} : G[y] = F[y],
         IsFiniteSet(Places(F, x))
  PROVE  /\ IsFiniteSet(Places(G, x))
         /\ Cardinality(Places(G, x)) = Cardinality(Places(F, x)) - N(At(F, q), x) + N(At(G, q), x)
  <1>1. Elsewhere(G, q, x) = Elsewhere(F, q, x)
    BY DEF Elsewhere, Places
  <1>2. Elsewhere(F, q, x) \subseteq Places(F, x)
    BY DEF Elsewhere
  <1>3. IsFiniteSet(Elsewhere(F, q, x))
    BY <1>2, FS_Subset
  <1>4. /\ N(At(F, q), x) \in Nat /\ N(At(G, q), x) \in Nat
        /\ Cardinality(Elsewhere(F, q, x)) \in Nat
    BY <1>3, FinitelyOwing, FS_CardinalityType
  <1> QED
    BY <1>1, <1>3, <1>4, PlacesSplit

\* What BagAdd does to the number of copies.
LEMMA BagAddIs ==
  ASSUME NEW B, NEW y, IsBag(B)
  PROVE  /\ IsBag(Bags!BagAdd(B, y))
         /\ DOMAIN Bags!BagAdd(B, y) = DOMAIN B \cup {y}
         /\ \A z : CopiesIn(z, Bags!BagAdd(B, y)) = IF z = y THEN CopiesIn(y, B) + 1
                                                 ELSE CopiesIn(z, B)
  BY DEF CopiesIn, Bags!BagAdd, IsBag

\* What BagRemove does.
LEMMA BagRemoveIs ==
  ASSUME NEW B, NEW y, IsBag(B)
  PROVE  /\ IsBag(Bags!BagRemove(B, y))
         /\ DOMAIN B \ {y} \subseteq DOMAIN Bags!BagRemove(B, y)
         /\ DOMAIN Bags!BagRemove(B, y) \subseteq DOMAIN B
         /\ \A z : CopiesIn(z, Bags!BagRemove(B, y)) =
                      IF z = y /\ y \in DOMAIN B THEN CopiesIn(y, B) - 1 ELSE CopiesIn(z, B)
         /\ y \in DOMAIN B => Bags!BagAdd(Bags!BagRemove(B, y), y) = B
  BY DEF CopiesIn, Bags!BagAdd, Bags!BagRemove, IsBag

\* Who is in a bag is in it at least once.
LEMMA CopiesPositive ==
  ASSUME NEW B, NEW y, IsBag(B)
  PROVE  /\ CopiesIn(y, B) \in Nat
         /\ y \in DOMAIN B <=> CopiesIn(y, B) > 0
  BY DEF CopiesIn, IsBag

\* One more running block.
LEMMA RunPlacesAdd ==
  ASSUME NEW r, NEW b, NEW x, IsBag(r), IsSeq(b.calls),
         IsFiniteSet(RunPlaces(r, x))
  PROVE  /\ IsFiniteSet(RunPlaces(Bags!BagAdd(r, b), x))
         /\ Cardinality(RunPlaces(Bags!BagAdd(r, b), x)) =
               Cardinality(RunPlaces(r, x)) + N(b.calls, x)
  <1> DEFINE k == CopiesIn(b, r) + 1
             own == {<<b, k, i>> : i \in OwingIn(b.calls, x)}
             r2 == Bags!BagAdd(r, b)
  <1>1. /\ DOMAIN r2 = DOMAIN r \cup {b} /\ r2[b] = k /\ k \in Nat \ {0}
        /\ \A z \in DOMAIN r \ {b} : r2[z] = r[z]
        /\ b \in DOMAIN r => r[b] = k - 1
        /\ b \notin DOMAIN r => k = 1
    BY DEF CopiesIn, Bags!BagAdd, IsBag
  <1> HIDE DEF r2, k
  <1>2. RunPlaces(r2, x) = RunPlaces(r, x) \cup own
    <2>1. ASSUME NEW p \in RunPlaces(r2, x)
          PROVE  p \in RunPlaces(r, x) \cup own
      <3>1a. PICK c \in DOMAIN r2 : \E j \in 1 .. r2[c] : \E i \in OwingIn(c.calls, x) : p = <<c, j, i>>
        BY DEF RunPlaces
      <3>1. PICK j \in 1 .. r2[c], i \in OwingIn(c.calls, x) : p = <<c, j, i>>
        BY <3>1a
      <3>2. CASE c # b
        <4>1. c \in DOMAIN r /\ j \in 1 .. r[c]
          BY <3>1, <3>2, <1>1
        <4> QED
          BY <3>1, <4>1 DEF RunPlaces
      <3>3. CASE c = b /\ j = k
        BY <3>1, <3>3
      <3>4. CASE c = b /\ j # k
        <4>1. b \in DOMAIN r /\ j \in 1 .. r[b]
          BY <3>1, <3>4, <1>1
        <4> QED
          BY <3>1, <3>4, <4>1 DEF RunPlaces
      <3> QED
        BY <3>2, <3>3, <3>4
    <2>2. ASSUME NEW p \in RunPlaces(r, x)
          PROVE  p \in RunPlaces(r2, x)
      <3>1a. PICK c \in DOMAIN r : \E j \in 1 .. r[c] : \E i \in OwingIn(c.calls, x) : p = <<c, j, i>>
        BY DEF RunPlaces
      <3>1. PICK j \in 1 .. r[c], i \in OwingIn(c.calls, x) : p = <<c, j, i>>
        BY <3>1a
      <3>2. c \in DOMAIN r2 /\ j \in 1 .. r2[c]
        BY <1>1
      <3> QED
        BY <3>1, <3>2 DEF RunPlaces
    <2>3. own \subseteq RunPlaces(r2, x)
      <3>1. b \in DOMAIN r2 /\ k \in 1 .. r2[b]
        BY <1>1
      <3> QED
        BY <3>1 DEF RunPlaces
    <2> QED
      BY <2>1, <2>2, <2>3
  <1>3. RunPlaces(r, x) \cap own = {}
    <2> SUFFICES ASSUME NEW p \in RunPlaces(r, x), p \in own
                 PROVE  FALSE
      OBVIOUS
    <2>1a. PICK c \in DOMAIN r : \E j \in 1 .. r[c] : \E i \in OwingIn(c.calls, x) : p = <<c, j, i>>
      BY DEF RunPlaces
    <2>1. PICK j \in 1 .. r[c], i \in OwingIn(c.calls, x) : p = <<c, j, i>>
      BY <2>1a
    <2>2. c = b /\ j = k
      BY <2>1
    <2> QED
      BY <2>1, <2>2, <1>1
  <1>4. IsFiniteSet(own) /\ Cardinality(own) = N(b.calls, x)
    <2> DEFINE S == OwingIn(b.calls, x)
    <2>1. IsFiniteSet(S)
      BY FinitelyOwing
    <2> HIDE DEF S
    <2> DEFINE f == [i \in S |-> <<b, k, i>>]
    <2>2. f \in [S -> own]
      BY DEF S
    <2>3. \A i, j \in S : f[i] = f[j] => i = j
      OBVIOUS
    <2>4. \A p \in own : \E i \in S : f[i] = p
      BY DEF S
    <2> HIDE DEF f, own
    <2>5. IsFiniteSet(own) /\ Cardinality(own) = Cardinality(S)
      BY <2>1, <2>2, <2>3, <2>4, SameSize
    <2> QED
      BY <2>5 DEF N, S
  <1> QED
    BY <1>2, <1>3, <1>4, Disjoint DEF r2

\* One running block less.
LEMMA RunPlacesRemove ==
  ASSUME NEW r, NEW b \in DOMAIN r, NEW x, IsBag(r), IsSeq(b.calls),
         IsFiniteSet(RunPlaces(r, x))
  PROVE  /\ IsFiniteSet(RunPlaces(Bags!BagRemove(r, b), x))
         /\ Cardinality(RunPlaces(Bags!BagRemove(r, b), x)) =
               Cardinality(RunPlaces(r, x)) - N(b.calls, x)
  <1> DEFINE r0 == Bags!BagRemove(r, b)
  <1>1. IsBag(r0) /\ Bags!BagAdd(r0, b) = r
    BY BagRemoveIs
  <1>2. RunPlaces(r0, x) \subseteq RunPlaces(r, x)
    <2>1. DOMAIN r0 \subseteq DOMAIN r /\ \A c \in DOMAIN r0 : r0[c] <= r[c]
      BY DEF Bags!BagRemove, IsBag
    <2>2. \A c \in DOMAIN r0 : 1 .. r0[c] \subseteq 1 .. r[c]
      BY <2>1, <1>1 DEF IsBag
    <2> QED
      BY <2>1, <2>2 DEF RunPlaces
  <1>3. IsFiniteSet(RunPlaces(r0, x))
    BY <1>2, FS_Subset
  <1> HIDE DEF r0
  <1>4. Cardinality(RunPlaces(r, x)) = Cardinality(RunPlaces(r0, x)) + N(b.calls, x)
    BY <1>1, <1>3, RunPlacesAdd
  <1>5. Cardinality(RunPlaces(r0, x)) \in Nat /\ N(b.calls, x) \in Nat
    BY <1>3, FS_CardinalityType, FinitelyOwing
  <1> QED
    BY <1>3, <1>4, <1>5 DEF r0

-----------------------------------------------------------------------------
(* libdispatch: what each of its functions does to what can be observed. *)

\* Fields of the record that are replaced.
LEMMA Replaced ==
  ASSUME NEW d, IsGcd(d), NEW v
  PROVE  /\ [d EXCEPT !.groups = v] =
              [groups |-> v, notify |-> d.notify, queues |-> d.queues, running |-> d.running]
         /\ [d EXCEPT !.notify = v] =
              [groups |-> d.groups, notify |-> v, queues |-> d.queues, running |-> d.running]
         /\ [d EXCEPT !.queues = v] =
              [groups |-> d.groups, notify |-> d.notify, queues |-> v, running |-> d.running]
         /\ [d EXCEPT !.running = v] =
              [groups |-> d.groups, notify |-> d.notify, queues |-> d.queues, running |-> v]
  <1> DEFINE r == [groups |-> d.groups, notify |-> d.notify, queues |-> d.queues,
                   running |-> d.running]
  <1>1. d = r
    BY DEF IsGcd
  <1>2. /\ [r EXCEPT !.groups = v] =
              [groups |-> v, notify |-> d.notify, queues |-> d.queues, running |-> d.running]
         /\ [r EXCEPT !.notify = v] =
              [groups |-> d.groups, notify |-> v, queues |-> d.queues, running |-> d.running]
         /\ [r EXCEPT !.queues = v] =
              [groups |-> d.groups, notify |-> d.notify, queues |-> v, running |-> d.running]
         /\ [r EXCEPT !.running = v] =
              [groups |-> d.groups, notify |-> d.notify, queues |-> d.queues, running |-> v]
    OBVIOUS
  <1> HIDE DEF r
  <1> QED
    BY <1>1, <1>2

\* What is counted are natural numbers.
LEMMA CountIsNat ==
  ASSUME NEW d, IsGcd(d), NEW x
  PROVE  Count(d, x) \in Nat
  <1>1. FinitePlaces(d, x)
    BY DEF IsGcd
  <1> QED
    BY <1>1, FS_CardinalityType DEF FinitePlaces, Count

\* A running block is there, and a sequence of calls of which the first is made.
LEMMA RunningBlock ==
  ASSUME NEW d, IsGcd(d), NEW b \in Runs(d)
  PROVE  /\ b = Block(b.queue, b.calls)
         /\ IsSeq(b.calls) /\ b.calls # <<>>
         /\ IsSeq(Later(b)) /\ b.calls = <<Call(b)>> \o Later(b)
         /\ Range(b.calls) = {Call(b)} \cup Range(Later(b))
         /\ Copies(d, b) \in Nat \ {0}
  <1>1. IsBlock(b)
    BY DEF IsGcd
  <1>2. IsSeq(b.calls) /\ b.calls # <<>> /\ b = Block(b.queue, b.calls)
    BY <1>1 DEF IsBlock, Block
  <1>3. Copies(d, b) \in Nat \ {0}
    BY CopiesPositive DEF IsGcd, Runs, Copies
  <1> QED
    BY <1>2, <1>3, HeadTail DEF Call, Later

\* Who runs.
LEMMA RunsPositive ==
  ASSUME NEW d, IsGcd(d), NEW b
  PROVE  /\ Copies(d, b) \in Nat
         /\ b \in Runs(d) <=> Copies(d, b) > 0
  BY CopiesPositive DEF IsGcd, Runs, Copies

\* A queue, whether it has been used or not.
LEMMA AnyQueue ==
  ASSUME NEW d, IsGcd(d), NEW q
  PROVE  IsQueue(QueueOf(d, q))
  <1>1. IsSeq(<<>>)
    BY OneElement
  <1>2. IsQueue([blocks |-> <<>>, suspended |-> 0, busy |-> FALSE])
    <2>1. Range(<<>>) = {}
      BY OneElement
    <2> QED
      BY <1>1, <2>1 DEF IsQueue
  <1> QED
    BY <1>2 DEF IsGcd, QueueOf

\* Those that wait for a group.
LEMMA AnyGroup ==
  ASSUME NEW d, IsGcd(d), NEW g
  PROVE  IsSeq(Waiting(d, g)) /\ Entered(d, g) \in Nat
  <1>1. IsSeq(<<>>)
    BY OneElement
  <1>2. IsBag(d.groups)
    BY DEF IsGcd
  <1>3. Entered(d, g) \in Nat
    BY <1>2, CopiesPositive DEF Entered
  <1> QED
    BY <1>1, <1>3 DEF IsGcd, Waiting

-----------------------------------------------------------------------------
(* Changes of one field. *)

\* A block more that runs.
LEMMA BlockAdded ==
  ASSUME NEW d, IsGcd(d), NEW c, IsBlock(c), NEW e,
         e = [d EXCEPT !.running = Bags!BagAdd(@, c)]
  PROVE  /\ IsGcd(e)
         /\ \A x : Count(e, x) = Count(d, x) + N(c.calls, x)
         /\ \A a : Copies(e, a) = IF a = c THEN Copies(d, c) + 1 ELSE Copies(d, a)
         /\ e.groups = d.groups /\ e.notify = d.notify /\ e.queues = d.queues
  <1>1. e = [groups |-> d.groups, notify |-> d.notify, queues |-> d.queues,
             running |-> Bags!BagAdd(d.running, c)]
    BY Replaced
  <1>2. /\ e.groups = d.groups /\ e.notify = d.notify /\ e.queues = d.queues
        /\ e.running = Bags!BagAdd(d.running, c)
        /\ e = [groups |-> e.groups, notify |-> e.notify, queues |-> e.queues, running |-> e.running]
    BY <1>1
  <1>3. IsBag(d.running) /\ IsSeq(c.calls)
    BY DEF IsGcd, IsBlock, Runs
  <1>4. /\ IsBag(e.running) /\ Runs(e) = Runs(d) \cup {c}
        /\ \A a : Copies(e, a) = IF a = c THEN Copies(d, c) + 1 ELSE Copies(d, a)
    <2>1. /\ IsBag(Bags!BagAdd(d.running, c))
          /\ DOMAIN Bags!BagAdd(d.running, c) = DOMAIN d.running \cup {c}
          /\ \A z : CopiesIn(z, Bags!BagAdd(d.running, c)) = IF z = c THEN CopiesIn(c, d.running) + 1
                                                           ELSE CopiesIn(z, d.running)
      BY <1>3, BagAddIs
    <2> QED
      BY <2>1, <1>2 DEF Runs, Copies
  <1>5. ASSUME NEW x
        PROVE  FinitePlaces(e, x) /\ Count(e, x) = Count(d, x) + N(c.calls, x)
    <2>1. FinitePlaces(d, x)
      BY DEF IsGcd
    <2>2. /\ IsFiniteSet(RunPlaces(e.running, x))
          /\ Cardinality(RunPlaces(e.running, x)) = Cardinality(RunPlaces(d.running, x)) + N(c.calls, x)
      BY <2>1, <1>2, <1>3, RunPlacesAdd DEF FinitePlaces
    <2>3. /\ N(c.calls, x) \in Nat /\ Cardinality(RunPlaces(d.running, x)) \in Nat
          /\ Cardinality(Places(FirstCalls(d.queues), x)) \in Nat
          /\ Cardinality(Places(d.notify, x)) \in Nat
      BY <2>1, <1>3, FS_CardinalityType, FinitelyOwing DEF FinitePlaces
    <2> QED
      BY <2>1, <2>2, <2>3, <1>2 DEF FinitePlaces, Count
  <1>6. IsGcd(e)
    <2>1. \A a \in Runs(e) : IsBlock(a)
      BY <1>4 DEF IsGcd
    <2> QED
      BY <1>2, <1>4, <1>5, <2>1 DEF IsGcd
  <1> QED
    BY <1>2, <1>4, <1>5, <1>6

\* A block less.
LEMMA BlockRemoved ==
  ASSUME NEW d, IsGcd(d), NEW b \in Runs(d), NEW e,
         e = [d EXCEPT !.running = Bags!BagRemove(@, b)]
  PROVE  /\ IsGcd(e)
         /\ \A x : Count(e, x) = Count(d, x) - N(b.calls, x)
         /\ \A a : Copies(e, a) = IF a = b THEN Copies(d, b) - 1 ELSE Copies(d, a)
         /\ e.groups = d.groups /\ e.notify = d.notify /\ e.queues = d.queues
  <1>1. e = [groups |-> d.groups, notify |-> d.notify, queues |-> d.queues,
             running |-> Bags!BagRemove(d.running, b)]
    BY Replaced
  <1>2. /\ e.groups = d.groups /\ e.notify = d.notify /\ e.queues = d.queues
        /\ e.running = Bags!BagRemove(d.running, b)
        /\ e = [groups |-> e.groups, notify |-> e.notify, queues |-> e.queues, running |-> e.running]
    BY <1>1
  <1>3. IsBag(d.running) /\ IsSeq(b.calls) /\ b \in DOMAIN d.running
    BY DEF IsGcd, IsBlock, Runs
  <1>4. /\ IsBag(e.running) /\ Runs(e) \subseteq Runs(d)
        /\ \A a : Copies(e, a) = IF a = b THEN Copies(d, b) - 1 ELSE Copies(d, a)
    BY <1>2, <1>3, BagRemoveIs DEF Runs, Copies
  <1>5. ASSUME NEW x
        PROVE  FinitePlaces(e, x) /\ Count(e, x) = Count(d, x) - N(b.calls, x)
    <2>1. FinitePlaces(d, x)
      BY DEF IsGcd
    <2>2. /\ IsFiniteSet(RunPlaces(e.running, x))
          /\ Cardinality(RunPlaces(e.running, x)) = Cardinality(RunPlaces(d.running, x)) - N(b.calls, x)
      BY <2>1, <1>2, <1>3, RunPlacesRemove DEF FinitePlaces
    <2>3. /\ N(b.calls, x) \in Nat /\ Cardinality(RunPlaces(d.running, x)) \in Nat
          /\ Cardinality(Places(FirstCalls(d.queues), x)) \in Nat
          /\ Cardinality(Places(d.notify, x)) \in Nat
      BY <2>1, <1>3, FS_CardinalityType, FinitelyOwing DEF FinitePlaces
    <2> QED
      BY <2>1, <2>2, <2>3, <1>2 DEF FinitePlaces, Count
  <1>6. IsGcd(e)
    BY <1>2, <1>4, <1>5 DEF IsGcd
  <1> QED
    BY <1>2, <1>4, <1>5, <1>6

\* The first calls of the blocks in a queue.
LEMMA FirstsIs ==
  ASSUME NEW s, IsSeq(s)
  PROVE  /\ IsSeq(Firsts(s)) /\ Len(Firsts(s)) = Len(s)
         /\ \A i \in 1 .. Len(s) : Firsts(s)[i] = s[i][1]
  <1> DEFINE T == {s[i][1] : i \in 1 .. Len(s)}
  <1>1. DOMAIN s = 1 .. Len(s) /\ Len(s) \in Nat
    BY SeqOf
  <1>2. Firsts(s) = [i \in 1 .. Len(s) |-> s[i][1]]
    BY <1>1 DEF Firsts
  <1>3. Firsts(s) \in Seq(T) /\ Len(Firsts(s)) = Len(s)
    BY <1>1, <1>2
  <1> QED
    BY <1>2, <1>3, SeqIs

\* Between d and e queue q has become r.
QueueSet(d, q, r, e) ==
    /\ IsGcd(e)
    /\ \A x : Count(e, x) = Count(d, x) - N(Firsts(QueueOf(d, q).blocks), x)
                                        + N(Firsts(r.blocks), x)
    /\ \A y : QueueOf(e, y) = IF y = q THEN r ELSE QueueOf(d, y)
    /\ e.groups = d.groups /\ e.notify = d.notify /\ e.running = d.running

\* A queue becomes another one.
LEMMA QueueChanged ==
  ASSUME NEW d, IsGcd(d), NEW q, q # Global, NEW r, IsQueue(r), NEW e, e = SetQueue(d, q, r)
  PROVE  QueueSet(d, q, r, e)
  <1> DEFINE Q == [y \in DOMAIN d.queues \cup {q} |-> IF y = q THEN r ELSE d.queues[y]]
  <1>1. e = [groups |-> d.groups, notify |-> d.notify, queues |-> Q, running |-> d.running]
    BY Replaced DEF SetQueue
  <1>2. /\ e.groups = d.groups /\ e.notify = d.notify /\ e.queues = Q /\ e.running = d.running
        /\ e = [groups |-> e.groups, notify |-> e.notify, queues |-> e.queues, running |-> e.running]
    BY <1>1
  <1>3. \A y : QueueOf(e, y) = IF y = q THEN r ELSE QueueOf(d, y)
    BY <1>2 DEF QueueOf
  <1>4. /\ DOMAIN Q = DOMAIN d.queues \cup {q} /\ Q[q] = r
        /\ \A y \in DOMAIN d.queues \ {q} : Q[y] = d.queues[y]
    OBVIOUS
  <1> HIDE DEF Q
  <1> DEFINE F == FirstCalls(d.queues)
             G == FirstCalls(Q)
  <1>5. /\ DOMAIN F \ {q} = DOMAIN G \ {q}
        /\ \A y \in DOMAIN F \ {q} : G[y] = F[y]
        /\ At(G, q) = Firsts(r.blocks)
        /\ At(F, q) = Firsts(QueueOf(d, q).blocks)
    <2>1. Firsts(<<>>) = <<>>
      BY DEF Firsts
    <2> QED
      BY <1>4, <2>1 DEF At, FirstCalls, QueueOf
  <1>6. IsSeq(At(G, q)) /\ IsSeq(At(F, q))
    BY <1>5, AnyQueue, FirstsIs DEF IsQueue
  <1> HIDE DEF F, G
  <1>7. ASSUME NEW x
        PROVE  /\ FinitePlaces(e, x)
               /\ Count(e, x) = Count(d, x) - N(Firsts(QueueOf(d, q).blocks), x)
                                            + N(Firsts(r.blocks), x)
    <2>1. FinitePlaces(d, x)
      BY DEF IsGcd
    <2>2. /\ IsFiniteSet(Places(G, x))
          /\ Cardinality(Places(G, x)) = Cardinality(Places(F, x)) - N(At(F, q), x) + N(At(G, q), x)
      BY <2>1, <1>5, <1>6, PlacesChange DEF FinitePlaces, F
    <2>3. /\ N(At(F, q), x) \in Nat /\ N(At(G, q), x) \in Nat
          /\ Cardinality(RunPlaces(d.running, x)) \in Nat
          /\ Cardinality(Places(F, x)) \in Nat
          /\ Cardinality(Places(d.notify, x)) \in Nat
      BY <2>1, <1>6, FS_CardinalityType, FinitelyOwing DEF FinitePlaces, F
    <2>4. Count(d, x) = Cardinality(RunPlaces(d.running, x)) + Cardinality(Places(F, x))
                          + Cardinality(Places(d.notify, x))
      BY DEF Count, F
    <2>5. Count(e, x) = Cardinality(RunPlaces(d.running, x)) + Cardinality(Places(G, x))
                          + Cardinality(Places(d.notify, x))
      BY <1>2 DEF Count, G
    <2>6. FinitePlaces(e, x)
      BY <2>1, <2>2, <1>2 DEF FinitePlaces, G
    <2> QED
      BY <2>2, <2>3, <2>4, <2>5, <2>6, <1>5
  <1>8. IsGcd(e)
    <2>1. \A y \in DOMAIN e.queues : IsQueue(e.queues[y])
      BY <1>2, <1>4 DEF IsGcd
    <2>2. Global \notin DOMAIN e.queues
      BY <1>2, <1>4 DEF IsGcd
    <2> QED
      BY <1>2, <1>7, <2>1, <2>2 DEF IsGcd, Runs
  <1> QED
    BY <1>2, <1>3, <1>7, <1>8 DEF QueueSet

\* Between d and e those that wait for group g have become s.
NotifySet(d, g, s, e) ==
    /\ IsGcd(e)
    /\ \A x : Count(e, x) = Count(d, x) - N(Waiting(d, g), x) + N(s, x)
    /\ \A h : Waiting(e, h) = IF h = g THEN s ELSE Waiting(d, h)
    /\ e.groups = d.groups /\ e.queues = d.queues /\ e.running = d.running

\* Who waits for a group changes.
LEMMA NotifyChanged ==
  ASSUME NEW d, IsGcd(d), NEW g, NEW s, IsSeq(s), NEW M,
         At(M, g) = s, g \in DOMAIN M => s # <<>>,
         DOMAIN d.notify \ {g} = DOMAIN M \ {g},
         \A y \in DOMAIN d.notify \ {g} : M[y] = d.notify[y],
         NEW e, e = [d EXCEPT !.notify = M]
  PROVE  NotifySet(d, g, s, e)
  <1>1. e = [groups |-> d.groups, notify |-> M, queues |-> d.queues, running |-> d.running]
    BY Replaced
  <1>2. /\ e.groups = d.groups /\ e.notify = M /\ e.queues = d.queues /\ e.running = d.running
        /\ e = [groups |-> e.groups, notify |-> e.notify, queues |-> e.queues, running |-> e.running]
    BY <1>1
  <1>3. At(M, g) = s /\ At(d.notify, g) = Waiting(d, g)
    BY DEF At, Waiting
  <1>4. \A h : Waiting(e, h) = IF h = g THEN s ELSE Waiting(d, h)
    BY <1>2, <1>3 DEF Waiting, At
  <1>5. IsSeq(Waiting(d, g))
    BY AnyGroup
  <1>6. ASSUME NEW x
        PROVE  FinitePlaces(e, x) /\ Count(e, x) = Count(d, x) - N(Waiting(d, g), x) + N(s, x)
    <2>1. FinitePlaces(d, x)
      BY DEF IsGcd
    <2>2. IsSeq(At(M, g)) /\ IsSeq(At(d.notify, g)) /\ IsFiniteSet(Places(d.notify, x))
      BY <2>1, <1>3, <1>5 DEF FinitePlaces
    <2>3. /\ IsFiniteSet(Places(M, x))
          /\ Cardinality(Places(M, x)) =
                Cardinality(Places(d.notify, x)) - N(At(d.notify, g), x) + N(At(M, g), x)
      <3>1. \A F, G, q : (/\ IsSeq(At(F, q)) /\ IsSeq(At(G, q))
                         /\ DOMAIN F \ {q} = DOMAIN G \ {q}
                         /\ (\A y \in DOMAIN F \ {q} : G[y] = F[y])
                         /\ IsFiniteSet(Places(F, x)))
               => /\ IsFiniteSet(Places(G, x))
                  /\ Cardinality(Places(G, x)) =
                        Cardinality(Places(F, x)) - N(At(F, q), x) + N(At(G, q), x)
        BY PlacesChange
      <3> QED
        BY <2>2, <3>1
    <2>4. /\ N(Waiting(d, g), x) \in Nat /\ N(s, x) \in Nat
          /\ Cardinality(RunPlaces(d.running, x)) \in Nat
          /\ Cardinality(Places(FirstCalls(d.queues), x)) \in Nat
          /\ Cardinality(Places(d.notify, x)) \in Nat
      BY <2>1, <1>5, FS_CardinalityType, FinitelyOwing DEF FinitePlaces
    <2> QED
      BY <2>1, <2>3, <2>4, <1>2, <1>3 DEF FinitePlaces, Count
  <1>7. IsGcd(e)
    <2>1. \A h \in DOMAIN M : h # g => h \in DOMAIN d.notify /\ M[h] = d.notify[h]
      OBVIOUS
    <2>2. \A h \in DOMAIN e.notify : IsSeq(e.notify[h]) /\ e.notify[h] # <<>>
      BY <1>2, <1>3, <2>1 DEF IsGcd, At
    <2> QED
      BY <1>2, <1>6, <2>2 DEF IsGcd, Runs
  <1> QED
    BY <1>2, <1>4, <1>6, <1>7 DEF NotifySet

\* The groups change.
LEMMA GroupsChanged ==
  ASSUME NEW d, IsGcd(d), NEW B, IsBag(B), NEW e, e = [d EXCEPT !.groups = B]
  PROVE  /\ IsGcd(e)
         /\ \A x : Count(e, x) = Count(d, x)
         /\ \A g : Entered(e, g) = CopiesIn(g, B)
         /\ e.notify = d.notify /\ e.queues = d.queues /\ e.running = d.running
  <1>1. e = [groups |-> B, notify |-> d.notify, queues |-> d.queues, running |-> d.running]
    BY Replaced
  <1>2. /\ e.groups = B /\ e.notify = d.notify /\ e.queues = d.queues /\ e.running = d.running
        /\ e = [groups |-> e.groups, notify |-> e.notify, queues |-> e.queues, running |-> e.running]
    BY <1>1
  <1>3. \A x : FinitePlaces(d, x) => FinitePlaces(e, x)
    BY <1>2 DEF FinitePlaces
  <1>4. IsGcd(e)
    BY <1>2, <1>3 DEF IsGcd, Runs
  <1> QED
    BY <1>2, <1>4 DEF Count, Entered

-----------------------------------------------------------------------------
(* The functions. *)

\* Between d and e group g has been entered.
EnterEffect(d, g, e) ==
    /\ IsGcd(e)
    /\ \A x : Count(e, x) = Count(d, x)
    /\ \A h : Entered(e, h) = Entered(d, h) + (IF h = g THEN 1 ELSE 0)
    /\ \A h : Waiting(e, h) = Waiting(d, h)
    /\ \A q : QueueOf(e, q) = QueueOf(d, q)
    /\ \A b : Copies(e, b) = Copies(d, b)

\* A group is entered once more.
LEMMA EnterIs ==
  ASSUME NEW d, IsGcd(d), NEW g, NEW e, e = dispatch_group_enter(d, g)
  PROVE  EnterEffect(d, g, e)
  <1>1. IsBag(d.groups)
    BY DEF IsGcd
  <1>2. /\ IsBag(Bags!BagAdd(d.groups, g))
        /\ \A h : CopiesIn(h, Bags!BagAdd(d.groups, g)) = CopiesIn(h, d.groups) + (IF h = g THEN 1 ELSE 0)
    <2>1. \A h : CopiesIn(h, d.groups) \in Nat
      BY <1>1, CopiesPositive
    <2>2. /\ IsBag(Bags!BagAdd(d.groups, g))
          /\ \A h : CopiesIn(h, Bags!BagAdd(d.groups, g)) = IF h = g THEN CopiesIn(g, d.groups) + 1
                                                         ELSE CopiesIn(h, d.groups)
      BY <1>1, BagAddIs
    <2> QED
      BY <2>1, <2>2
  <1>3. e = [d EXCEPT !.groups = Bags!BagAdd(d.groups, g)]
    BY DEF dispatch_group_enter
  <1>4. /\ IsGcd(e)
        /\ \A x : Count(e, x) = Count(d, x)
        /\ \A h : Entered(e, h) = CopiesIn(h, Bags!BagAdd(d.groups, g))
        /\ e.notify = d.notify /\ e.queues = d.queues /\ e.running = d.running
    BY <1>2, <1>3, GroupsChanged
  <1> QED
    BY <1>2, <1>4 DEF Entered, Waiting, QueueOf, Copies, EnterEffect

\* Group g has been left.
LeaveEffect(d, g, e) ==
    /\ IsGcd(e)
    /\ \A x : Count(e, x) = Count(d, x) - N(ToSubmit(d, g), x)
    /\ \A h : Entered(e, h) = IF h = g /\ Entered(d, g) > 0 THEN Entered(d, g) - 1
                              ELSE Entered(d, h)
    /\ \A h : Waiting(e, h) = IF h = g /\ IsLast(d, g) THEN <<>> ELSE Waiting(d, h)
    /\ \A q : QueueOf(e, q) = QueueOf(d, q)
    /\ \A b : Copies(e, b) = Copies(d, b)

\* The last to leave takes with him those that wait.
LEMMA LeaveIs ==
  ASSUME NEW d, IsGcd(d), NEW g, NEW e, e = dispatch_group_leave(d, g)
  PROVE  LeaveEffect(d, g, e)
  <1> DEFINE B == Bags!BagRemove(d.groups, g)
             d1 == [d EXCEPT !.groups = B]
             M == IF IsLast(d, g) THEN [x \in DOMAIN d.notify \ {g} |-> d.notify[x]] ELSE d.notify
  <1>1. /\ IsBag(d.groups)
        /\ g \in DOMAIN d.groups <=> Entered(d, g) > 0
    BY CopiesPositive DEF IsGcd, Entered
  <1>2. /\ IsBag(B)
        /\ \A h : CopiesIn(h, B) = IF h = g /\ Entered(d, g) > 0 THEN Entered(d, g) - 1 ELSE Entered(d, h)
    BY <1>1, BagRemoveIs DEF Entered
  <1>3. e = [d1 EXCEPT !.notify = M]
    <2>1. e = [d EXCEPT !.groups = B, !.notify = M]
      BY DEF dispatch_group_leave
    <2>2. d1 = [groups |-> B, notify |-> d.notify, queues |-> d.queues, running |-> d.running]
      BY Replaced
    <2>3. d = [groups |-> d.groups, notify |-> d.notify, queues |-> d.queues, running |-> d.running]
      BY DEF IsGcd
    <2> DEFINE r == [groups |-> d.groups, notify |-> d.notify, queues |-> d.queues,
                     running |-> d.running]
    <2> HIDE DEF B, M, d1
    <2> DEFINE r1 == [groups |-> B, notify |-> d.notify, queues |-> d.queues,
                      running |-> d.running]
    <2>4. [r EXCEPT !.groups = B, !.notify = M] =
             [groups |-> B, notify |-> M, queues |-> d.queues, running |-> d.running]
      <3>1. [r EXCEPT !.groups = B] = r1
        OBVIOUS
      <3>2. [r1 EXCEPT !.notify = M] =
               [groups |-> B, notify |-> M, queues |-> d.queues, running |-> d.running]
        OBVIOUS
      <3> HIDE DEF r, r1
      <3> QED
        BY <3>1, <3>2
    <2>5. [d1 EXCEPT !.notify = M] =
             [groups |-> B, notify |-> M, queues |-> d.queues, running |-> d.running]
      BY <2>2
    <2>6. d = r
      BY <2>3
    <2> HIDE DEF r
    <2>7. [d EXCEPT !.groups = B, !.notify = M] = [r EXCEPT !.groups = B, !.notify = M]
      BY <2>6
    <2> QED
      BY <2>1, <2>4, <2>5, <2>7
  <1> HIDE DEF B, d1
  <1>4. /\ IsGcd(d1)
        /\ \A x : Count(d1, x) = Count(d, x)
        /\ \A h : Entered(d1, h) = CopiesIn(h, B)
        /\ d1.notify = d.notify /\ d1.queues = d.queues /\ d1.running = d.running
    BY <1>2, GroupsChanged DEF d1
  <1>5. CASE IsLast(d, g)
    <2>1. /\ At(M, g) = <<>> /\ (g \in DOMAIN M => <<>> # <<>>)
          /\ DOMAIN d1.notify \ {g} = DOMAIN M \ {g}
          /\ \A y \in DOMAIN d1.notify \ {g} : M[y] = d1.notify[y]
      BY <1>4, <1>5 DEF At
    <2> HIDE DEF M
    <2>a. IsSeq(<<>>)
      BY OneElement
    <2>2. NotifySet(d1, g, <<>>, e)
      BY <1>3, <1>4, <2>1, <2>a, NotifyChanged
    <2>3. Waiting(d1, g) = ToSubmit(d, g) /\ \A h : Waiting(d1, h) = Waiting(d, h)
      BY <1>4, <1>5 DEF Waiting, ToSubmit
    <2>4. \A x : N(<<>>, x) = 0 /\ N(Waiting(d1, g), x) \in Nat /\ Count(d, x) \in Nat
      BY <1>4, NOne, AnyGroup, FinitelyOwing, CountIsNat
    <2> QED
      BY <2>2, <2>3, <2>4, <1>2, <1>4, <1>5 DEF LeaveEffect, NotifySet, Entered, QueueOf, Copies
  <1>6. CASE ~IsLast(d, g)
    <2>1. e = d1
      <3>1. M = d1.notify
        BY <1>4, <1>6
      <3> QED
        BY <3>1, <1>3, <1>4 DEF IsGcd
    <2>2. ToSubmit(d, g) = <<>> /\ \A x : N(<<>>, x) = 0 /\ Count(d, x) \in Nat
      BY <1>6, NOne, CountIsNat DEF ToSubmit
    <2> QED
      BY <2>1, <2>2, <1>2, <1>4, <1>6 DEF LeaveEffect, Entered, Waiting, QueueOf, Copies
  <1> QED
    BY <1>5, <1>6 DEF LeaveEffect

\* A block runs in the global queue.
ForkEffect(d, s, e) ==
    /\ IsGcd(e)
    /\ \A x : Count(e, x) = Count(d, x) + N(s, x)
    /\ \A h : Entered(e, h) = Entered(d, h)
    /\ \A h : Waiting(e, h) = Waiting(d, h)
    /\ \A q : QueueOf(e, q) = QueueOf(d, q)
    /\ \A b : Copies(e, b) = Copies(d, b) + (IF b = Block(Global, s) THEN 1 ELSE 0)

\* A block in the global queue runs.
LEMMA ForkIs ==
  ASSUME NEW d, IsGcd(d), NEW s, IsSeq(s), s # <<>>, NEW e, e = dispatch_async(d, Global, s)
  PROVE  ForkEffect(d, s, e)
  <1> DEFINE c == Block(Global, s)
  <1>1. IsBlock(c) /\ c.calls = s
    BY DEF IsBlock, Block
  <1>2. e = [d EXCEPT !.running = Bags!BagAdd(@, c)]
    BY DEF dispatch_async, Block
  <1> HIDE DEF c
  <1>3. /\ IsGcd(e)
        /\ \A x : Count(e, x) = Count(d, x) + N(c.calls, x)
        /\ \A a : Copies(e, a) = IF a = c THEN Copies(d, c) + 1 ELSE Copies(d, a)
        /\ e.groups = d.groups /\ e.notify = d.notify /\ e.queues = d.queues
    BY <1>1, <1>2, BlockAdded
  <1>4. \A a : Copies(d, a) \in Nat
    BY RunsPositive
  <1> QED
    BY <1>1, <1>3, <1>4 DEF Entered, Waiting, QueueOf, c, ForkEffect

\* A block waits in serial queue q.
EnqueueEffect(d, q, block, e) ==
    /\ IsGcd(e)
    /\ \A x : Count(e, x) = Count(d, x) + One(block[1], x)
    /\ \A h : Entered(e, h) = Entered(d, h)
    /\ \A h : Waiting(e, h) = Waiting(d, h)
    /\ \A y : QueueOf(e, y) =
                 IF y = q THEN [QueueOf(d, q) EXCEPT !.blocks = Append(@, block)]
                 ELSE QueueOf(d, y)
    /\ \A b : Copies(e, b) = Copies(d, b)

\* A block waits in a serial queue.
LEMMA EnqueueIs ==
  ASSUME NEW d, IsGcd(d), NEW q, q # Global, NEW block, IsOne(block),
         NEW e, e = dispatch_async(d, q, block)
  PROVE  EnqueueEffect(d, q, block, e)
  <1>o. PICK o : o = QueueOf(d, q)
    OBVIOUS
  <1>r. PICK r : r = [o EXCEPT !.blocks = Append(@, block)]
    OBVIOUS
  <1>1. IsQueue(o)
    BY <1>o, AnyQueue
  <1>2. /\ IsQueue(r) /\ r.blocks = Append(o.blocks, block)
        /\ IsSeq(o.blocks) /\ IsSeq(Append(o.blocks, block))
    <2>1. /\ IsSeq(o.blocks) /\ IsSeq(Append(o.blocks, block))
          /\ Range(Append(o.blocks, block)) = Range(o.blocks) \cup {block}
      BY <1>1, AppendIs DEF IsQueue
    <2>2. \A z \in Range(Append(o.blocks, block)) : IsOne(z)
      BY <1>1, <2>1 DEF IsQueue
    <2> HIDE DEF IsSeq
    <2>3. r = [blocks |-> Append(o.blocks, block), suspended |-> o.suspended, busy |-> o.busy]
      BY <1>1, <1>r DEF IsQueue
    <2> QED
      BY <1>1, <2>1, <2>2, <2>3 DEF IsQueue
  <1>3. e = SetQueue(d, q, r)
    BY <1>o, <1>r DEF dispatch_async
  <1>4. Firsts(Append(o.blocks, block)) = Append(Firsts(o.blocks), block[1])
    <2> DEFINE s == Firsts(Append(o.blocks, block))
               t == Append(Firsts(o.blocks), block[1])
    <2>1. /\ IsSeq(s) /\ Len(s) = Len(Append(o.blocks, block))
          /\ \A i \in 1 .. Len(s) : s[i] = Append(o.blocks, block)[i][1]
      BY <1>2, FirstsIs
    <2>2. /\ IsSeq(Firsts(o.blocks)) /\ Len(Firsts(o.blocks)) = Len(o.blocks)
          /\ \A i \in 1 .. Len(o.blocks) : Firsts(o.blocks)[i] = o.blocks[i][1]
      BY <1>2, FirstsIs
    <2>3. /\ IsSeq(t) /\ Len(t) = Len(o.blocks) + 1
          /\ \A i \in 1 .. Len(o.blocks) : t[i] = Firsts(o.blocks)[i]
          /\ t[Len(o.blocks) + 1] = block[1]
      <3> DEFINE f == Firsts(o.blocks)
      <3>1. IsSeq(f) /\ Len(f) = Len(o.blocks)
        BY <2>2
      <3> HIDE DEF f
      <3>2. /\ IsSeq(Append(f, block[1])) /\ Len(Append(f, block[1])) = Len(f) + 1
            /\ \A i \in 1 .. Len(f) : Append(f, block[1])[i] = f[i]
            /\ Append(f, block[1])[Len(f) + 1] = block[1]
        BY <3>1, AppendIs
      <3> QED
        BY <3>1, <3>2 DEF f
    <2>4. /\ Len(Append(o.blocks, block)) = Len(o.blocks) + 1
          /\ \A i \in 1 .. Len(o.blocks) : Append(o.blocks, block)[i] = o.blocks[i]
          /\ Append(o.blocks, block)[Len(o.blocks) + 1] = block
          /\ Len(o.blocks) \in Nat
      BY <1>2, AppendIs, SeqOf
    <2> HIDE DEF s, t
    <2>5. ASSUME NEW i \in 1 .. Len(s)
          PROVE  s[i] = t[i]
      <3>1. i \in 1 .. Len(o.blocks) \/ i = Len(o.blocks) + 1
        BY <2>1, <2>4
      <3> QED
        BY <3>1, <2>1, <2>2, <2>3, <2>4
    <2>6. s = t
      BY <2>1, <2>3, <2>4, <2>5, SameSeq
    <2> QED
      BY <2>6 DEF s, t
  <1>5. /\ IsGcd(e)
        /\ \A x : Count(e, x) = Count(d, x) - N(Firsts(QueueOf(d, q).blocks), x)
                                            + N(Firsts(r.blocks), x)
        /\ \A y : QueueOf(e, y) = IF y = q THEN r ELSE QueueOf(d, y)
        /\ e.groups = d.groups /\ e.notify = d.notify /\ e.running = d.running
    <2>1. IsQueue(r)
      BY <1>2
    <2>2. QueueSet(d, q, r, e)
      BY <2>1, <1>3, QueueChanged
    <2> QED
      BY <2>2 DEF QueueSet
  <1>6. ASSUME NEW x
        PROVE  Count(e, x) = Count(d, x) + One(block[1], x)
    <2>1. IsSeq(Firsts(o.blocks)) /\ IsSeq(<<block[1]>>)
      BY <1>2, FirstsIs, OneElement
    <2>2. N(Firsts(r.blocks), x) = N(Firsts(o.blocks), x) + One(block[1], x)
      <3>1. Firsts(r.blocks) = Firsts(o.blocks) \o <<block[1]>>
        BY <1>2, <1>4, <2>1, AppendIs
      <3>2. N(Firsts(o.blocks) \o <<block[1]>>, x) = N(Firsts(o.blocks), x) + N(<<block[1]>>, x)
        BY <2>1, NConcat
      <3> QED
        BY <3>1, <3>2, NOne
    <2>3. N(Firsts(o.blocks), x) \in Nat /\ Count(d, x) \in Nat /\ One(block[1], x) \in Nat
      BY <2>1, FinitelyOwing, CountIsNat DEF One
    <2> QED
      BY <2>2, <2>3, <1>5, <1>o
  <1> QED
    BY <1>5, <1>6, <1>o, <1>r DEF Entered, Waiting, Copies, EnqueueEffect


\* A block that is to be submitted waits for group g.
NoteEffect(d, g, q, block, e) ==
    /\ IsGcd(e)
    /\ \A x : Count(e, x) = Count(d, x) + One(submit(q, block), x)
    /\ \A h : Entered(e, h) = Entered(d, h)
    /\ \A h : Waiting(e, h) = IF h = g THEN Append(Waiting(d, g), submit(q, block))
                              ELSE Waiting(d, h)
    /\ \A y : QueueOf(e, y) = QueueOf(d, y)
    /\ \A b : Copies(e, b) = Copies(d, b)

\* Those that wait for a group that has been entered are one more.
LEMMA NoteIs ==
  ASSUME NEW d, IsGcd(d), NEW g, Entered(d, g) # 0, NEW q, NEW block,
         NEW e, e = dispatch_group_notify(d, g, q, block)
  PROVE  NoteEffect(d, g, q, block, e)
  <1>c. PICK c : c = submit(q, block)
    OBVIOUS
  <1>s. PICK s : s = Append(Waiting(d, g), c)
    OBVIOUS
  <1> DEFINE M == [x \in DOMAIN d.notify \cup {g} |-> IF x = g THEN s ELSE d.notify[x]]
  <1>1. IsSeq(Waiting(d, g))
    BY AnyGroup
  <1>2. IsSeq(s) /\ s # <<>> /\ s = Waiting(d, g) \o <<c>> /\ IsSeq(<<c>>)
    BY <1>1, <1>s, AppendIs, OneElement
  <1>3. e = [d EXCEPT !.notify = M]
    BY <1>c, <1>s DEF dispatch_group_notify
  <1>4. /\ At(M, g) = s
        /\ DOMAIN d.notify \ {g} = DOMAIN M \ {g}
        /\ \A y \in DOMAIN d.notify \ {g} : M[y] = d.notify[y]
    BY DEF At
  <1> HIDE DEF M
  <1>5. g \in DOMAIN M => s # <<>>
    BY <1>2
  <1>6. NotifySet(d, g, s, e)
    BY <1>2, <1>3, <1>4, <1>5, NotifyChanged
  <1>7. ASSUME NEW x
        PROVE  Count(e, x) = Count(d, x) + One(c, x)
    <2>1. N(s, x) = N(Waiting(d, g), x) + N(<<c>>, x)
      BY <1>1, <1>2, NConcat
    <2>2. N(<<c>>, x) = One(c, x) /\ One(c, x) \in Nat /\ N(Waiting(d, g), x) \in Nat
      BY <1>1, NOne, FinitelyOwing DEF One
    <2>3. Count(e, x) = Count(d, x) - N(Waiting(d, g), x) + N(s, x) /\ Count(d, x) \in Nat
      BY <1>6, CountIsNat DEF NotifySet
    <2> QED
      BY <2>1, <2>2, <2>3
  <1> QED
    BY <1>6, <1>7, <1>c, <1>s DEF NotifySet, Entered, QueueOf, Copies, NoteEffect

\* Queue q is suspended n times.
SuspendedEffect(d, q, n, e) ==
    /\ IsGcd(e)
    /\ \A x : Count(e, x) = Count(d, x)
    /\ \A h : Entered(e, h) = Entered(d, h)
    /\ \A h : Waiting(e, h) = Waiting(d, h)
    /\ \A y : QueueOf(e, y) = IF y = q THEN [QueueOf(d, q) EXCEPT !.suspended = n]
                              ELSE QueueOf(d, y)
    /\ \A b : Copies(e, b) = Copies(d, b)

\* A queue is suspended more or less often.
LEMMA SuspendedIs ==
  ASSUME NEW d, IsGcd(d), NEW q, q # Global, NEW n \in Int, NEW e,
         e = SetQueue(d, q, [QueueOf(d, q) EXCEPT !.suspended = n])
  PROVE  SuspendedEffect(d, q, n, e)
  <1>o. PICK o : o = QueueOf(d, q)
    OBVIOUS
  <1>r. PICK r : r = [o EXCEPT !.suspended = n]
    OBVIOUS
  <1>1. IsQueue(o)
    BY <1>o, AnyQueue
  <1>2. r = [blocks |-> o.blocks, suspended |-> n, busy |-> o.busy]
    BY <1>1, <1>r DEF IsQueue
  <1>3. IsQueue(r) /\ r.blocks = o.blocks
    BY <1>1, <1>2 DEF IsQueue
  <1>4. e = SetQueue(d, q, r)
    BY <1>o, <1>r
  <1>5. IsQueue(r)
    BY <1>3
  <1>6. QueueSet(d, q, r, e)
    BY <1>4, <1>5, QueueChanged
  <1>7. ASSUME NEW x
        PROVE  Count(e, x) = Count(d, x)
    <2>1. N(Firsts(o.blocks), x) \in Nat /\ Count(d, x) \in Nat
      BY <1>1, FirstsIs, FinitelyOwing, CountIsNat DEF IsQueue
    <2>2. Count(e, x) = Count(d, x) - N(Firsts(o.blocks), x) + N(Firsts(o.blocks), x)
      BY <1>6, <1>o, <1>3 DEF QueueSet
    <2> QED
      BY <2>1, <2>2
  <1> QED
    BY <1>6, <1>7, <1>o, <1>r DEF QueueSet, Entered, Waiting, Copies, SuspendedEffect

\* Queue q is busy or not.
BusyEffect(d, q, v, e) ==
    /\ IsGcd(e)
    /\ \A x : Count(e, x) = Count(d, x)
    /\ \A y : QueueOf(e, y) = IF y = q THEN [QueueOf(d, q) EXCEPT !.busy = v]
                              ELSE QueueOf(d, y)
    /\ e.groups = d.groups /\ e.notify = d.notify /\ e.running = d.running

\* A queue is busy or not.
LEMMA BusyIs ==
  ASSUME NEW d, IsGcd(d), NEW q, q # Global, NEW v \in BOOLEAN, NEW e,
         e = SetQueue(d, q, [QueueOf(d, q) EXCEPT !.busy = v])
  PROVE  BusyEffect(d, q, v, e)
  <1>o. PICK o : o = QueueOf(d, q)
    OBVIOUS
  <1>r. PICK r : r = [o EXCEPT !.busy = v]
    OBVIOUS
  <1>1. IsQueue(o)
    BY <1>o, AnyQueue
  <1>2. r = [blocks |-> o.blocks, suspended |-> o.suspended, busy |-> v]
    BY <1>1, <1>r DEF IsQueue
  <1>3. IsQueue(r) /\ r.blocks = o.blocks
    BY <1>1, <1>2 DEF IsQueue
  <1>4. e = SetQueue(d, q, r)
    BY <1>o, <1>r
  <1>5. IsQueue(r)
    BY <1>3
  <1>6. QueueSet(d, q, r, e)
    BY <1>4, <1>5, QueueChanged
  <1>7. ASSUME NEW x
        PROVE  Count(e, x) = Count(d, x)
    <2>1. N(Firsts(o.blocks), x) \in Nat /\ Count(d, x) \in Nat
      BY <1>1, FirstsIs, FinitelyOwing, CountIsNat DEF IsQueue
    <2>2. Count(e, x) = Count(d, x) - N(Firsts(o.blocks), x) + N(Firsts(o.blocks), x)
      BY <1>6, <1>o, <1>3 DEF QueueSet
    <2> QED
      BY <2>1, <2>2
  <1> QED
    BY <1>6, <1>7, <1>o, <1>r DEF QueueSet, BusyEffect


\* Block b goes on with calls s, or has ended.
GoOnEffect(d, b, s, e) ==
    /\ IsGcd(e)
    /\ \A x : Count(e, x) = Count(d, x) - N(b.calls, x) + N(s, x)
    /\ \A h : Entered(e, h) = Entered(d, h)
    /\ \A h : Waiting(e, h) = Waiting(d, h)
    /\ \A c : Copies(e, c) = Copies(d, c) - (IF c = b THEN 1 ELSE 0)
                               + (IF s # <<>> /\ c = Block(b.queue, s) THEN 1 ELSE 0)
    /\ \A y : QueueOf(e, y) = IF s = <<>> /\ b.queue # Global /\ y = b.queue
                                THEN [QueueOf(d, y) EXCEPT !.busy = FALSE]
                                ELSE QueueOf(d, y)

\* What GoOn does.
LEMMA GoOnIs ==
  ASSUME NEW d, IsGcd(d), NEW b \in Runs(d), NEW s, IsSeq(s), NEW e, e = GoOn(d, b, s)
  PROVE  GoOnEffect(d, b, s, e)
  <1>w. PICK w : w = [d EXCEPT !.running = Bags!BagRemove(@, b)]
    OBVIOUS
  <1>1. /\ IsGcd(w)
        /\ \A x : Count(w, x) = Count(d, x) - N(b.calls, x)
        /\ \A a : Copies(w, a) = IF a = b THEN Copies(d, b) - 1 ELSE Copies(d, a)
        /\ w.groups = d.groups /\ w.notify = d.notify /\ w.queues = d.queues
    BY <1>w, BlockRemoved
  <1>2. b = Block(b.queue, b.calls) /\ IsSeq(b.calls)
    BY RunningBlock
  <1>3. \A a : Copies(d, a) \in Nat /\ Copies(w, a) \in Nat
    BY <1>1, RunsPositive
  <1>4. \A x : N(<<>>, x) = 0 /\ Count(w, x) \in Nat /\ N(b.calls, x) \in Nat /\ Count(d, x) \in Nat
    BY <1>1, <1>2, NOne, FinitelyOwing, CountIsNat
  <1>5. CASE s # <<>>
    <2>c. PICK c : c = Block(b.queue, s)
      OBVIOUS
    <2>1. [b EXCEPT !.calls = s] = c
      BY <2>c, <1>2 DEF Block
    <2>2. IsBlock(c) /\ c.calls = s
      BY <2>c, <1>5 DEF Block, IsBlock
    <2>3. e = [w EXCEPT !.running = Bags!BagAdd(@, c)]
      BY <1>5, <1>w, <2>1 DEF GoOn
    <2>4. /\ IsGcd(e)
          /\ \A x : Count(e, x) = Count(w, x) + N(c.calls, x)
          /\ \A a : Copies(e, a) = IF a = c THEN Copies(w, c) + 1 ELSE Copies(w, a)
          /\ e.groups = w.groups /\ e.notify = w.notify /\ e.queues = w.queues
      BY <1>1, <2>2, <2>3, BlockAdded
    <2>5. \A a : Copies(e, a) = Copies(d, a) - (IF a = b THEN 1 ELSE 0)
                                  + (IF s # <<>> /\ a = Block(b.queue, s) THEN 1 ELSE 0)
      BY <1>1, <1>3, <1>5, <2>4, <2>c
    <2> QED
      BY <1>1, <1>4, <1>5, <2>2, <2>4, <2>5 DEF GoOnEffect, Entered, Waiting, QueueOf
  <1>6. CASE s = <<>> /\ b.queue = Global
    <2>1. e = w
      BY <1>6, <1>w DEF GoOn
    <2> QED
      BY <2>1, <1>1, <1>3, <1>4, <1>6 DEF GoOnEffect, Entered, Waiting, QueueOf
  <1>7. CASE s = <<>> /\ b.queue # Global
    <2>1. QueueOf(d, b.queue) = QueueOf(w, b.queue)
      BY <1>1 DEF QueueOf
    <2>2. e = SetQueue(w, b.queue, [QueueOf(w, b.queue) EXCEPT !.busy = FALSE])
      BY <1>7, <1>w, <2>1 DEF GoOn
    <2>3. BusyEffect(w, b.queue, FALSE, e)
      BY <1>1, <1>7, <2>2, BusyIs
    <2>4. \A y : QueueOf(w, y) = QueueOf(d, y)
      BY <1>1 DEF QueueOf
    <2>5. \A a : Copies(e, a) = Copies(d, a) - (IF a = b THEN 1 ELSE 0)
                                  + (IF s # <<>> /\ a = Block(b.queue, s) THEN 1 ELSE 0)
      BY <1>1, <1>3, <1>7, <2>3 DEF BusyEffect, Copies
    <2>6. \A y : QueueOf(e, y) = IF s = <<>> /\ b.queue # Global /\ y = b.queue
                                   THEN [QueueOf(d, y) EXCEPT !.busy = FALSE]
                                   ELSE QueueOf(d, y)
      BY <1>7, <2>3, <2>4 DEF BusyEffect
    <2>7. \A x : Count(e, x) = Count(d, x) - N(b.calls, x) + N(s, x)
      BY <1>1, <1>4, <1>7, <2>3 DEF BusyEffect
    <2> QED
      BY <1>1, <2>3, <2>5, <2>6, <2>7 DEF BusyEffect, GoOnEffect, Entered, Waiting
  <1> QED
    BY <1>5, <1>6, <1>7


\* The next block of queue q runs.
StartEffect(d, q, e) ==
    /\ IsGcd(e)
    /\ \A x : Count(e, x) = Count(d, x)
    /\ \A h : Entered(e, h) = Entered(d, h)
    /\ \A h : Waiting(e, h) = Waiting(d, h)
    /\ \A c : Copies(e, c) = Copies(d, c) + (IF c = Block(q, Head(QueueOf(d, q).blocks)) THEN 1 ELSE 0)
    /\ \A y : QueueOf(e, y) = IF y = q THEN [QueueOf(d, q) EXCEPT !.blocks = Tail(@), !.busy = TRUE]
                              ELSE QueueOf(d, y)

\* The first calls of the blocks after the first.
LEMMA FirstsTail ==
  ASSUME NEW s, IsSeq(s), s # <<>>
  PROVE  /\ IsSeq(Firsts(Tail(s)))
         /\ \A x : N(Firsts(s), x) = One(s[1][1], x) + N(Firsts(Tail(s)), x)
  <1>1. /\ IsSeq(Tail(s)) /\ Len(Tail(s)) = Len(s) - 1 /\ s = <<Head(s)>> \o Tail(s)
        /\ Head(s) = s[1] /\ Len(s) \in Nat
    BY HeadTail, SeqOf
  <1>2. \A i \in 1 .. Len(Tail(s)) : s[i + 1] = Tail(s)[i]
    BY <1>1, Cons
  <1> DEFINE f == Firsts(s)
             t == Firsts(Tail(s))
             u == <<s[1][1]>> \o t
  <1>3. IsSeq(f) /\ Len(f) = Len(s) /\ \A i \in 1 .. Len(s) : f[i] = s[i][1]
    BY FirstsIs
  <1>4. IsSeq(t) /\ Len(t) = Len(Tail(s)) /\ \A i \in 1 .. Len(Tail(s)) : t[i] = Tail(s)[i][1]
    BY <1>1, FirstsIs
  <1> HIDE DEF f, t
  <1>5. IsSeq(u) /\ Len(u) = Len(t) + 1 /\ u[1] = s[1][1] /\ \A i \in 1 .. Len(t) : u[i + 1] = t[i]
    BY <1>4, Cons
  <1> HIDE DEF u
  <1>6. ASSUME NEW i \in 1 .. Len(f)
        PROVE  f[i] = u[i]
    <2>1. CASE i = 1
      BY <2>1, <1>3, <1>5
    <2>2. CASE i # 1
      <3>1. i - 1 \in 1 .. Len(t) /\ i = (i - 1) + 1
        BY <2>2, <1>1, <1>3, <1>4
      <3>2. f[i] = s[i][1]
        BY <1>3
      <3>3. s[(i - 1) + 1] = Tail(s)[i - 1]
        BY <3>1, <1>2, <1>4
      <3>4. t[i - 1] = Tail(s)[i - 1][1] /\ u[(i - 1) + 1] = t[i - 1]
        BY <3>1, <1>4, <1>5
      <3> QED
        BY <3>1, <3>2, <3>3, <3>4
    <2> QED
      BY <2>1, <2>2
  <1>7. Len(f) = Len(u)
    BY <1>1, <1>3, <1>4, <1>5
  <1>8. f = u
    BY <1>3, <1>5, <1>6, <1>7, SameSeq
  <1>9. \A x : N(u, x) = One(s[1][1], x) + N(t, x)
    BY <1>4, NCons DEF u
  <1> QED
    BY <1>4, <1>8, <1>9 DEF f, t

\* What the step of a serial queue makes of libdispatch.
IsStart(d, q, e) ==
    e = [SetQueue(d, q, [QueueOf(d, q) EXCEPT !.blocks = Tail(@), !.busy = TRUE])
           EXCEPT !.running = Bags!BagAdd(@, Block(q, Head(QueueOf(d, q).blocks)))]

\* What a serial queue does when it starts its next block.
LEMMA StartIs ==
  ASSUME NEW d, IsGcd(d), NEW q, q # Global, QueueOf(d, q).blocks # <<>>, NEW e, IsStart(d, q, e)
  PROVE  StartEffect(d, q, e)
  <1>o. PICK o : o = QueueOf(d, q)
    OBVIOUS
  <1>r. PICK r : r = [o EXCEPT !.blocks = Tail(@), !.busy = TRUE]
    OBVIOUS
  <1>c. PICK c : c = Block(q, Head(o.blocks))
    OBVIOUS
  <1>w. PICK w : w = SetQueue(d, q, r)
    OBVIOUS
  <1>1. IsQueue(o)
    BY <1>o, AnyQueue
  <1>2. /\ IsSeq(o.blocks) /\ o.blocks # <<>> /\ IsSeq(Tail(o.blocks))
        /\ Range(o.blocks) = {Head(o.blocks)} \cup Range(Tail(o.blocks))
        /\ Head(o.blocks) = o.blocks[1]
    BY <1>1, <1>o, HeadTail DEF IsQueue
  <1>3. r = [blocks |-> Tail(o.blocks), suspended |-> o.suspended, busy |-> TRUE]
    <2>1. o = [blocks |-> o.blocks, suspended |-> o.suspended, busy |-> o.busy]
      BY <1>1 DEF IsQueue
    <2>2. PICK o1 : o1 = [o EXCEPT !.blocks = Tail(o.blocks)]
      OBVIOUS
    <2>3. o1 = [blocks |-> Tail(o.blocks), suspended |-> o.suspended, busy |-> o.busy]
      BY <2>1, <2>2
    <2>4. \A x, y, z, v : [[blocks |-> x, suspended |-> y, busy |-> z] EXCEPT !.busy = v] =
                           [blocks |-> x, suspended |-> y, busy |-> v]
      OBVIOUS
    <2>5. r = [o1 EXCEPT !.busy = TRUE]
      BY <1>r, <2>2
    <2> QED
      BY <2>3, <2>4, <2>5
  <1>4. IsQueue(r) /\ r.blocks = Tail(o.blocks)
    <2>1. \A z \in Range(Tail(o.blocks)) : IsOne(z)
      BY <1>1, <1>2 DEF IsQueue
    <2> QED
      BY <1>1, <1>2, <1>3, <2>1 DEF IsQueue
  <1>5. QueueSet(d, q, r, w)
    BY <1>4, <1>w, QueueChanged
  <1>6. e = [w EXCEPT !.running = Bags!BagAdd(@, c)]
    BY <1>o, <1>r, <1>c, <1>w DEF IsStart
  <1>7. /\ IsOne(Head(o.blocks))
        /\ IsBlock(c) /\ c.calls = Head(o.blocks)
    <2>1. IsOne(Head(o.blocks))
      BY <1>1, <1>2 DEF IsQueue
    <2>2. IsSeq(Head(o.blocks)) /\ Head(o.blocks) # <<>>
      BY <2>1, OneElement DEF IsOne
    <2> QED
      BY <1>c, <2>1, <2>2 DEF IsBlock, Block
  <1>8. IsGcd(w)
    BY <1>5 DEF QueueSet
  <1>9. /\ IsGcd(e)
        /\ \A x : Count(e, x) = Count(w, x) + N(c.calls, x)
        /\ \A a : Copies(e, a) = IF a = c THEN Copies(w, c) + 1 ELSE Copies(w, a)
        /\ e.groups = w.groups /\ e.notify = w.notify /\ e.queues = w.queues
    BY <1>6, <1>7, <1>8, BlockAdded
  <1>10. ASSUME NEW x
         PROVE  Count(e, x) = Count(d, x)
    <2>1. /\ IsSeq(Firsts(Tail(o.blocks)))
          /\ N(Firsts(o.blocks), x) = One(o.blocks[1][1], x) + N(Firsts(Tail(o.blocks)), x)
      BY <1>2, FirstsTail
    <2>2. N(Firsts(Tail(o.blocks)), x) \in Nat /\ Count(d, x) \in Nat
      BY <2>1, FinitelyOwing, CountIsNat
    <2>3. N(c.calls, x) = One(o.blocks[1][1], x)
      <3>1. c.calls = <<o.blocks[1][1]>>
        BY <1>2, <1>7 DEF IsOne
      <3> QED
        BY <3>1, NOne
    <2>4. One(o.blocks[1][1], x) \in Nat
      BY DEF One
    <2>5. Count(w, x) = Count(d, x) - N(Firsts(o.blocks), x) + N(Firsts(Tail(o.blocks)), x)
      BY <1>5, <1>4, <1>o DEF QueueSet
    <2>6. Count(e, x) = Count(w, x) + N(c.calls, x)
      BY <1>9
    <2> QED
      BY <2>1, <2>2, <2>3, <2>4, <2>5, <2>6
  <1>11. \A a : Copies(e, a) = Copies(d, a) + (IF a = c THEN 1 ELSE 0)
    <2>1. \A a : Copies(w, a) = Copies(d, a) /\ Copies(d, a) \in Nat
      BY <1>5, RunsPositive DEF QueueSet, Copies
    <2> QED
      BY <2>1, <1>9
  <1>12. \A y : QueueOf(e, y) = IF y = q THEN r ELSE QueueOf(d, y)
    BY <1>5, <1>9 DEF QueueSet, QueueOf
  <1> QED
    BY <1>5, <1>9, <1>10, <1>11, <1>12, <1>o, <1>r, <1>c DEF StartEffect, QueueSet, Entered, Waiting

-----------------------------------------------------------------------------
(* The blocks that run or wait in queues, and how a step changes them. *)

\* Block s waits in queue q.
InQueue(d, q, s) == s \in Range(QueueOf(d, q).blocks)

\* Who is held runs or waits in a queue.
LEMMA HeldIs ==
  ASSUME NEW d, IsGcd(d), NEW a
  PROVE  a \in Held(d) <=> Copies(d, a) > 0 \/ \E q, s : InQueue(d, q, s) /\ a = Block(q, s)
  <1>1. a \in Runs(d) <=> Copies(d, a) > 0
    BY RunsPositive
  <1>2. Range(<<>>) = {}
    BY OneElement
  <1>3. ASSUME NEW q, q \notin DOMAIN d.queues
        PROVE  \A s : ~InQueue(d, q, s)
    BY <1>2, <1>3 DEF InQueue, QueueOf
  <1>4. ASSUME NEW q \in DOMAIN d.queues
        PROVE  \A s : InQueue(d, q, s) <=> s \in Range(d.queues[q].blocks)
    BY DEF InQueue, QueueOf
  <1>5. a \in Held(d) <=> a \in Runs(d) \/ \E q \in DOMAIN d.queues :
                             \E s \in Range(d.queues[q].blocks) : a = Block(q, s)
    BY DEF Held
  <1> QED
    BY <1>1, <1>3, <1>4, <1>5

\* Who waits in a queue has one call to make.
LEMMA QueuedIs ==
  ASSUME NEW d, IsGcd(d), NEW q, NEW s, InQueue(d, q, s)
  PROVE  s = <<s[1]>> /\ Range(s) = {s[1]} /\ IsSeq(s)
  <1>1. IsOne(s)
    BY AnyQueue DEF InQueue, IsQueue
  <1> QED
    BY <1>1, OneElement DEF IsOne

\* A block that is held is a sequence of calls.
LEMMA HeldBlock ==
  ASSUME NEW d, IsGcd(d), NEW a \in Held(d)
  PROVE  a = Block(a.queue, a.calls) /\ IsSeq(a.calls)
  <1>1. CASE a \in Runs(d)
    BY <1>1, RunningBlock
  <1>2. CASE a \notin Runs(d)
    <2>1. PICK q, s : InQueue(d, q, s) /\ a = Block(q, s)
      BY <1>2, HeldIs, RunsPositive
    <2>2. IsSeq(s)
      BY <2>1, QueuedIs
    <2> QED
      BY <2>1, <2>2 DEF Block
  <1> QED
    BY <1>1, <1>2

\* Blocks are added to those that run or wait.
Adds(d, e, new) ==
    /\ IsGcd(e)
    /\ Held(e) = Held(d) \cup new
    /\ \A a : Copies(e, a) >= Copies(d, a)
    /\ \A a \in new : Copies(e, a) > Copies(d, a) \/ \E q, s : InQueue(e, q, s) /\ a = Block(q, s)

\* None is.
LEMMA AddsNone ==
  ASSUME NEW d, IsGcd(d), NEW e, IsGcd(e),
         \A a : Copies(e, a) = Copies(d, a),
         \A q : QueueOf(e, q).blocks = QueueOf(d, q).blocks
  PROVE  Adds(d, e, {})
  <1>1. \A q, s : InQueue(e, q, s) <=> InQueue(d, q, s)
    BY DEF InQueue
  <1>2. \A a : a \in Held(e) <=> a \in Held(d)
    BY <1>1, HeldIs
  <1>3. \A a : Copies(d, a) \in Nat
    BY RunsPositive
  <1>4. \A a : Copies(e, a) >= Copies(d, a)
    BY <1>3
  <1> QED
    BY <1>2, <1>4 DEF Adds

\* What does not change keeps all.
LEMMA AddsRefl ==
  ASSUME NEW d, IsGcd(d)
  PROVE  Adds(d, d, {})
  BY AddsNone

\* To enter a group adds no block.
LEMMA EnterAdds ==
  ASSUME NEW d, IsGcd(d), NEW g, NEW e, EnterEffect(d, g, e)
  PROVE  Adds(d, e, {})
  BY AddsNone DEF EnterEffect

\* To leave one adds none; what waited has still to be submitted.
LEMMA LeaveAdds ==
  ASSUME NEW d, IsGcd(d), NEW g, NEW e, LeaveEffect(d, g, e)
  PROVE  Adds(d, e, {})
  BY AddsNone DEF LeaveEffect

\* To wait for a group adds none.
LEMMA NoteAdds ==
  ASSUME NEW d, IsGcd(d), NEW g, NEW q, NEW s, NEW e, NoteEffect(d, g, q, s, e)
  PROVE  Adds(d, e, {})
  BY AddsNone DEF NoteEffect

\* To suspend or resume a queue adds none.
LEMMA SuspendedAdds ==
  ASSUME NEW d, IsGcd(d), NEW q, NEW n, NEW e, SuspendedEffect(d, q, n, e)
  PROVE  Adds(d, e, {})
  <1>1. QueueOf(d, q).blocks = [QueueOf(d, q) EXCEPT !.suspended = n].blocks
    <2>1. IsQueue(QueueOf(d, q))
      BY AnyQueue
    <2> QED
      BY <2>1 DEF IsQueue
  <1> QED
    BY <1>1, AddsNone DEF SuspendedEffect

\* A block of the global queue is added to those that run.
LEMMA ForkAdds ==
  ASSUME NEW d, IsGcd(d), NEW s, NEW e, ForkEffect(d, s, e)
  PROVE  Adds(d, e, {Block(Global, s)})
  <1>1. \A q, z : InQueue(e, q, z) <=> InQueue(d, q, z)
    BY DEF InQueue, ForkEffect
  <1>2. \A a : Copies(d, a) \in Nat
    BY RunsPositive
  <1>3. \A a : Copies(e, a) = Copies(d, a) + (IF a = Block(Global, s) THEN 1 ELSE 0)
    BY DEF ForkEffect
  <1>4. IsGcd(e)
    BY DEF ForkEffect
  <1>5. \A a : a \in Held(e) <=> a \in Held(d) \cup {Block(Global, s)}
    BY <1>1, <1>2, <1>3, <1>4, HeldIs
  <1>6. \A a : Copies(e, a) >= Copies(d, a)
    BY <1>2, <1>3
  <1>7. Copies(e, Block(Global, s)) > Copies(d, Block(Global, s))
    BY <1>2, <1>3
  <1> QED
    BY <1>4, <1>5, <1>6, <1>7 DEF Adds

\* A block of a serial queue is added to those that wait.
LEMMA EnqueueAdds ==
  ASSUME NEW d, IsGcd(d), NEW q, NEW s, NEW e, EnqueueEffect(d, q, s, e)
  PROVE  Adds(d, e, {Block(q, s)})
  <1>1. IsQueue(QueueOf(d, q))
    BY AnyQueue
  <1>2. PICK o : o = QueueOf(d, q)
    OBVIOUS
  <1>3. IsQueue(o)
    BY <1>1, <1>2
  <1>r. PICK r : r = [o EXCEPT !.blocks = Append(@, s)]
    OBVIOUS
  <1>4. r.blocks = Append(o.blocks, s)
    BY <1>3, <1>r DEF IsQueue
  <1>5. Range(Append(o.blocks, s)) = Range(o.blocks) \cup {s}
    BY <1>3, AppendIs DEF IsQueue
  <1>6. QueueOf(e, q) = r
    BY <1>2, <1>r DEF EnqueueEffect
  <1>7. \A y : y # q => QueueOf(e, y) = QueueOf(d, y)
    BY DEF EnqueueEffect
  <1>8. \A y, z : InQueue(e, y, z) <=> InQueue(d, y, z) \/ (y = q /\ z = s)
    <2>1. QueueOf(e, q).blocks = Append(o.blocks, s)
      BY <1>4, <1>6
    <2>2. Range(QueueOf(e, q).blocks) = Range(o.blocks) \cup {s}
      BY <2>1, <1>5
    <2>3. \A z : InQueue(e, q, z) <=> InQueue(d, q, z) \/ z = s
      BY <2>2, <1>2 DEF InQueue
    <2>4. \A y, z : y # q => (InQueue(e, y, z) <=> InQueue(d, y, z))
      BY <1>7 DEF InQueue
    <2> QED
      BY <2>3, <2>4
  <1>9. IsGcd(e) /\ \A a : Copies(e, a) = Copies(d, a) /\ Copies(d, a) \in Nat
    BY RunsPositive DEF EnqueueEffect
  <1>10. \A a : a \in Held(e) <=> a \in Held(d) \cup {Block(q, s)}
    BY <1>8, <1>9, HeldIs
  <1>11. \A a : Copies(e, a) >= Copies(d, a)
    BY <1>9
  <1> QED
    BY <1>8, <1>9, <1>10, <1>11 DEF Adds

\* One function after another.
LEMMA AddsThen ==
  ASSUME NEW d, IsGcd(d), NEW w, NEW e, NEW new, Adds(d, w, {}), Adds(w, e, new)
  PROVE  Adds(d, e, new)
  <1>1. \A a : Copies(d, a) \in Nat /\ Copies(w, a) \in Nat /\ Copies(e, a) \in Nat
    BY RunsPositive DEF Adds
  <1>2. \A a : Copies(w, a) >= Copies(d, a) /\ Copies(e, a) >= Copies(w, a)
    BY DEF Adds
  <1>3. \A a : Copies(e, a) >= Copies(d, a) /\ (Copies(e, a) > Copies(w, a) => Copies(e, a) > Copies(d, a))
    BY <1>1, <1>2
  <1> QED
    BY <1>3 DEF Adds

\* Blocks are added and then nothing is that matters.
LEMMA AddsBefore ==
  ASSUME NEW d, IsGcd(d), NEW w, NEW e, NEW new, Adds(d, w, new), Adds(w, e, {}),
         \A q : QueueOf(e, q).blocks = QueueOf(w, q).blocks
  PROVE  Adds(d, e, new)
  <1>1. \A a : Copies(d, a) \in Nat /\ Copies(w, a) \in Nat /\ Copies(e, a) \in Nat
    BY RunsPositive DEF Adds
  <1>2. \A a : Copies(w, a) >= Copies(d, a) /\ Copies(e, a) >= Copies(w, a)
    BY DEF Adds
  <1>3. \A a : Copies(e, a) >= Copies(d, a) /\ (Copies(w, a) > Copies(d, a) => Copies(e, a) > Copies(d, a))
    BY <1>1, <1>2
  <1>4. \A q, s : InQueue(e, q, s) <=> InQueue(w, q, s)
    BY DEF InQueue
  <1> QED
    BY <1>3, <1>4 DEF Adds

-----------------------------------------------------------------------------
(* A step of a block. *)

\* Block b has made its first call, has calls r to make, and has made new
\* blocks.
Stepped(d, e, b, r, new) ==
    /\ IsGcd(e)
    /\ Held(d) \ {b} \subseteq Held(e)
    /\ new \subseteq Held(e)
    /\ Held(e) \subseteq Held(d) \cup new \cup (IF r = <<>> THEN {} ELSE {Block(b.queue, r)})
    /\ Runs(d) \ {b} \subseteq Runs(e)
    /\ r # <<>> => Block(b.queue, r) \in Runs(e)
    /\ Copies(d, b) # 1 => b \in Runs(e)

\* What is held after a block has gone on.
LEMMA GoOnStepped ==
  ASSUME NEW d, IsGcd(d), NEW b \in Runs(d), NEW w, NEW new, Adds(d, w, new),
         NEW r, NEW e, GoOnEffect(w, b, r, e)
  PROVE  Stepped(d, e, b, r, new)
  <1>1. IsGcd(w) /\ IsGcd(e)
    BY DEF Adds, GoOnEffect
  <1>2. \A a : /\ Copies(d, a) \in Nat /\ Copies(w, a) \in Nat /\ Copies(e, a) \in Nat
               /\ a \in Runs(d) <=> Copies(d, a) > 0
               /\ a \in Runs(e) <=> Copies(e, a) > 0
               /\ a \in Runs(w) <=> Copies(w, a) > 0
    BY <1>1, RunsPositive
  <1>3. \A a : Copies(e, a) = Copies(w, a) - (IF a = b THEN 1 ELSE 0)
                                + (IF r # <<>> /\ a = Block(b.queue, r) THEN 1 ELSE 0)
    BY DEF GoOnEffect
  <1>4. \A q, s : InQueue(e, q, s) <=> InQueue(w, q, s)
    <2>1. ASSUME NEW q
          PROVE  QueueOf(e, q).blocks = QueueOf(w, q).blocks
      <3>1. IsQueue(QueueOf(w, q))
        BY <1>1, AnyQueue
      <3>2. [QueueOf(w, q) EXCEPT !.busy = FALSE].blocks = QueueOf(w, q).blocks
        BY <3>1 DEF IsQueue
      <3> QED
        BY <3>2 DEF GoOnEffect
    <2> QED
      BY <2>1 DEF InQueue
  <1>5. \A a : Copies(w, a) >= Copies(d, a)
    BY DEF Adds
  <1>6. \A a : a # b /\ Copies(w, a) > 0 => Copies(e, a) > 0
    BY <1>2, <1>3
  <1>7. ASSUME NEW a \in Held(d) \ {b}
        PROVE  a \in Held(e)
    <2>1. a \in Held(w)
      BY DEF Adds
    <2> QED
      BY <2>1, <1>1, <1>4, <1>6, HeldIs
  <1>8. ASSUME NEW a \in new
        PROVE  a \in Held(e)
    <2>1. CASE \E q, s : InQueue(w, q, s) /\ a = Block(q, s)
      BY <2>1, <1>1, <1>4, HeldIs
    <2>2. CASE Copies(w, a) > Copies(d, a)
      <3>1. Copies(e, a) > 0
        BY <2>2, <1>2, <1>3
      <3> QED
        BY <3>1, <1>1, HeldIs
    <2> QED
      BY <2>1, <2>2 DEF Adds
  <1>9. ASSUME NEW a \in Held(e)
        PROVE  a \in Held(d) \cup new \cup (IF r = <<>> THEN {} ELSE {Block(b.queue, r)})
    <2>1. CASE r # <<>> /\ a = Block(b.queue, r)
      BY <2>1
    <2>2. CASE ~(r # <<>> /\ a = Block(b.queue, r))
      <3>1. Copies(e, a) > 0 => Copies(w, a) > 0
        BY <2>2, <1>2, <1>3
      <3>2. a \in Held(w)
        BY <3>1, <1>1, <1>4, HeldIs
      <3> QED
        BY <3>2 DEF Adds
    <2> QED
      BY <2>1, <2>2
  <1>10. Runs(d) \ {b} \subseteq Runs(e)
    BY <1>2, <1>3, <1>5
  <1>11. r # <<>> => Block(b.queue, r) \in Runs(e)
    <2>1. Copies(w, b) > 0
      BY <1>2, <1>5
    <2> QED
      BY <2>1, <1>2, <1>3
  <1>12. Copies(d, b) # 1 => b \in Runs(e)
    BY <1>2, <1>3, <1>5
  <1> QED
    BY <1>1, <1>7, <1>8, <1>9, <1>10, <1>11, <1>12 DEF Stepped


\* A call stays, unless it is the one that has been made.
LEMMA NowKept ==
  ASSUME NEW d, IsGcd(d), NEW b \in Runs(d), NEW e, NEW r, NEW new, Stepped(d, e, b, r, new),
         Range(Later(b)) \subseteq Range(r), NEW c \in Now(d)
  PROVE  c = Inner(Call(b)) \/ c \in Now(e)
  <1>1. PICK a \in Held(d) : c \in Inners(a.calls)
    BY DEF Now
  <1>2. CASE a # b
    <2>1. a \in Held(e)
      BY <1>2 DEF Stepped
    <2> QED
      BY <2>1, <1>1 DEF Now
  <1>3. CASE a = b
    <2>1. Range(b.calls) = {Call(b)} \cup Range(Later(b))
      BY RunningBlock
    <2>2. SUFFICES ASSUME NEW z \in Range(Later(b)), c = Inner(z)
                   PROVE  c \in Now(e)
      BY <2>1, <1>1, <1>3 DEF Inners
    <2>3. z \in Range(r)
      OBVIOUS
    <2>4. r # <<>>
      BY <2>3, OneElement
    <2>5. PICK f : f = Block(b.queue, r)
      OBVIOUS
    <2>6. f \in Held(e)
      BY <2>4, <2>5 DEF Stepped, Held
    <2>7. f.calls = r
      BY <2>5 DEF Block
    <2> QED
      BY <2>2, <2>3, <2>6, <2>7 DEF Now, Inners
  <1> QED
    BY <1>2, <1>3

\* A call that was not to be made before is a new one.
LEMMA NowAdded ==
  ASSUME NEW d, IsGcd(d), NEW b \in Runs(d), NEW e, NEW r, NEW new, Stepped(d, e, b, r, new),
         NEW c \in Now(e)
  PROVE  c \in Now(d) \/ c \in Inners(r) \/ \E a \in new : c \in Inners(a.calls)
  <1>1. PICK a \in Held(e) : c \in Inners(a.calls)
    BY DEF Now
  <1>2. CASE a \in Held(d)
    BY <1>1, <1>2 DEF Now
  <1>3. CASE a \in new
    BY <1>1, <1>3
  <1>4. CASE a = Block(b.queue, r)
    <2>1. a.calls = r
      BY <1>4 DEF Block
    <2> QED
      BY <2>1, <1>1
  <1> QED
    BY <1>2, <1>3, <1>4 DEF Stepped

\* New calls are to be made.
LEMMA NowHas ==
  ASSUME NEW d, IsGcd(d), NEW b \in Runs(d), NEW e, NEW r, NEW new, Stepped(d, e, b, r, new)
  PROVE  /\ Inners(r) \subseteq Now(e)
         /\ \A a \in new : Inners(a.calls) \subseteq Now(e)
  <1>1. ASSUME NEW c \in Inners(r)
        PROVE  c \in Now(e)
    <2>1. r # <<>>
      BY OneElement DEF Inners
    <2>2. PICK f : f = Block(b.queue, r)
      OBVIOUS
    <2>3. f \in Held(e)
      BY <2>1, <2>2 DEF Stepped, Held
    <2>4. f.calls = r
      BY <2>2 DEF Block
    <2> QED
      BY <2>3, <2>4 DEF Now
  <1>2. \A a \in new : a \in Held(e)
    BY DEF Stepped
  <1> QED
    BY <1>1, <1>2 DEF Now

-----------------------------------------------------------------------------
(* What calls owe is counted. *)

\* By a call that will be made.
LEMMA OwedNow ==
  ASSUME NEW d, IsGcd(d), NEW c \in Now(d), NEW x, Owes(c, x)
  PROVE  Count(d, x) >= 1
  <1>1. /\ IsFiniteSet(RunPlaces(d.running, x))
        /\ IsFiniteSet(Places(FirstCalls(d.queues), x))
        /\ IsFiniteSet(Places(d.notify, x))
    BY DEF IsGcd, FinitePlaces
  <1>2. /\ Cardinality(RunPlaces(d.running, x)) \in Nat
        /\ Cardinality(Places(FirstCalls(d.queues), x)) \in Nat
        /\ Cardinality(Places(d.notify, x)) \in Nat
    BY <1>1, FS_CardinalityType
  <1>3. PICK a \in Held(d) : c \in Inners(a.calls)
    BY DEF Now
  <1>4. PICK z \in Range(a.calls) : c = Inner(z)
    BY <1>3 DEF Inners
  <1>5. IsSeq(a.calls)
    BY HeldBlock
  <1>6. PICK i \in DOMAIN a.calls : z = a.calls[i]
    BY <1>4 DEF Range
  <1>7. i \in OwingIn(a.calls, x)
    BY <1>4, <1>6 DEF OwingIn
  <1>8. CASE a \in Runs(d)
    <2>1. d.running[a] \in Nat \ {0} /\ a \in DOMAIN d.running
      BY <1>8 DEF IsGcd, IsBag, Runs
    <2>2. 1 \in 1 .. d.running[a]
      BY <2>1
    <2>3. <<a, 1, i>> \in RunPlaces(d.running, x)
      BY <2>1, <2>2, <1>7 DEF RunPlaces
    <2>4. Cardinality(RunPlaces(d.running, x)) # 0
      BY <2>3, <1>1, FS_EmptySet
    <2> QED
      BY <2>4, <1>2 DEF Count
  <1>9. CASE a \notin Runs(d)
    <2>1. PICK q \in DOMAIN d.queues : \E s \in Range(d.queues[q].blocks) : a = Block(q, s)
      BY <1>9 DEF Held
    <2>2. PICK s \in Range(d.queues[q].blocks) : a = Block(q, s)
      BY <2>1
    <2>3. a.calls = s
      BY <2>2 DEF Block
    <2>4. IsOne(s)
      BY <2>2 DEF IsGcd, IsQueue
    <2>5. i = 1
      BY <2>3, <2>4, <1>6, OneElement DEF IsOne
    <2>6. PICK k \in DOMAIN d.queues[q].blocks : d.queues[q].blocks[k] = s
      BY DEF Range
    <2>7. k \in OwingIn(Firsts(d.queues[q].blocks), x)
      BY <2>3, <2>5, <2>6, <1>4, <1>6 DEF OwingIn, Firsts
    <2>8. q \in DOMAIN FirstCalls(d.queues) /\ FirstCalls(d.queues)[q] = Firsts(d.queues[q].blocks)
      BY DEF FirstCalls
    <2>9. <<q, k>> \in Places(FirstCalls(d.queues), x)
      BY <2>7, <2>8 DEF Places
    <2>10. Cardinality(Places(FirstCalls(d.queues), x)) # 0
      BY <2>9, <1>1, FS_EmptySet
    <2> QED
      BY <2>10, <1>2 DEF Count
  <1> QED
    BY <1>8, <1>9

\* By one that waits for a group.
LEMMA OwedNoted ==
  ASSUME NEW d, IsGcd(d), NEW g, NEW z \in Range(Waiting(d, g)), NEW x, Owes(Inner(z), x)
  PROVE  Count(d, x) >= 1
  <1>1. /\ IsFiniteSet(RunPlaces(d.running, x))
        /\ IsFiniteSet(Places(FirstCalls(d.queues), x))
        /\ IsFiniteSet(Places(d.notify, x))
    BY DEF IsGcd, FinitePlaces
  <1>2. /\ Cardinality(RunPlaces(d.running, x)) \in Nat
        /\ Cardinality(Places(FirstCalls(d.queues), x)) \in Nat
        /\ Cardinality(Places(d.notify, x)) \in Nat
    BY <1>1, FS_CardinalityType
  <1>3. g \in DOMAIN d.notify /\ Waiting(d, g) = d.notify[g]
    BY OneElement DEF Waiting
  <1>4. PICK k \in DOMAIN d.notify[g] : d.notify[g][k] = z
    BY <1>3 DEF Range
  <1>5. k \in OwingIn(d.notify[g], x)
    BY <1>4 DEF OwingIn
  <1>6. <<g, k>> \in Places(d.notify, x)
    BY <1>3, <1>5 DEF Places
  <1>7. Cardinality(Places(d.notify, x)) # 0
    BY <1>6, <1>1, FS_EmptySet
  <1> QED
    BY <1>7, <1>2 DEF Count

\* By one of a running block.
LEMMA OwedByBlock ==
  ASSUME NEW d, IsGcd(d), NEW b \in Runs(d), NEW z \in Range(b.calls), NEW x, Owes(Inner(z), x)
  PROVE  Count(d, x) >= 1
  <1>1. Inner(z) \in Now(d)
    BY DEF Now, Inners, Held
  <1> QED
    BY <1>1, OwedNow

-----------------------------------------------------------------------------
(* The modules that main has made. *)

\* Main reads the file; libdispatch before anything is submitted.
SettingUp == phase \in {"filters", "producers", "paths"}

EmptyGcd == [groups |-> <<>>, notify |-> <<>>, queues |-> <<>>, running |-> <<>>]

\* The wrappers of a producer and of a filter, those of a filter on a path,
\* and those a job may be of.
IsProducer(n) == n \in Streams \X m_lookupMap
IsFilter(w) == w \in Streams \X {<<l, "">> : l \in {x \in DOMAIN module : module[x].base = "filter"}}
Works(w) == IsProducer(w) \/ IsFilter(w)

IsFilterAt(w, at) ==
    \E s \in Streams : \E p \in DOMAIN m_paths : \E i \in DOMAIN m_paths[p] :
        at = <<p, i>> /\ w = FilterAt(s, p, i)

HasJob(w, at) == IF at = <<>> THEN IsProducer(w) ELSE IsFilterAt(w, at)

\* A module that has been made under label l.
IsModule(m, l) == m.label = l /\ IsSeq(m.m_getters) /\ IsSeq(m.reads)

\* What main has read of the configuration, and made of it.
Numbers ==
    /\ phase \in {"filters", "producers", "paths", "clone", "wait", "done", "exit"}
    /\ pConfig \in Configurations
    /\ m_schedules \in 1 .. NStreams
    /\ SettingUp => m_schedules = 1 /\ gcd = EmptyGcd
    /\ m_seenEvents \in Nat

\* What it has still to read.
Lists ==
    /\ phase = "filters" => rest \in Seq(Range(pConfig.filters))
    /\ phase = "producers" => rest \in Seq(Range(pConfig.producers))
    /\ phase = "paths" => rest \in Seq(Seq(STRING))

\* What it has made.
Modules ==
    /\ \A l \in DOMAIN module : IsModule(module[l], l)
    /\ m_paths \in Seq(Seq(STRING))
    /\ \A p \in DOMAIN m_paths : \A i \in DOMAIN m_paths[p] :
          m_paths[p][i] \in DOMAIN module /\ module[m_paths[p][i]].base = "filter"
    /\ \A key \in m_lookupMap : key[1] \in DOMAIN module /\ module[key[1]].base = "producer"
    /\ phase = "filters" => m_lookupMap = {} /\ m_paths = <<>>
    /\ phase = "producers" => m_paths = <<>>

-----------------------------------------------------------------------------
(* Calls and blocks. *)

\* The groups of the framework.
IsGroup(g) ==
    \/ g = m_eventLoopGroup
    \/ \E s \in Streams : g = m_allPathsDoneGroup(s)
    \/ \E w : Works(w) /\ (g = prefetchGroup(w) \/ g = Lock(w))
    \/ \E n : IsProducer(n) /\ g = m_group(n)

\* A job that a wrapper may have.
IsJob(c) == c = Job(c.call, c.wrapper, c.at) /\ HasJob(c.wrapper, c.at)

\* What is submitted when a group is empty.
IsSubmitted(c) ==
    \/ \E s \in Streams : c = scheduleDone(s)
    \/ \E w : Works(w) /\ c = leave(prefetchGroup(w))
    \/ c.call \in {"work", "suspendOwn"} /\ IsJob(c)

\* What waits for group g.
IsNoted(g, c) ==
    /\ c = submit(c.queue, <<c.block[1]>>)
    /\ \/ \E s \in Streams : g = m_allPathsDoneGroup(s) /\ c.block[1] = scheduleDone(s)
       \/ /\ c.block[1].call \in {"work", "suspendOwn"} /\ IsJob(c.block[1])
          /\ g = prefetchGroup(c.block[1].wrapper)
       \/ \E n, w : /\ IsProducer(n) /\ Works(w) /\ w[1] = n[1] /\ g = m_group(n)
                    /\ c.block[1] = leave(prefetchGroup(w))

\* The work of w is to end among calls S.
Ending(w, S) == put(w) \in S \/ filtered(w) \in S

\* What a module does while it works, which nothing else is done along with.
Reading == {"reads", "syncGet", "sync", "wait", "put", "filtered"}
Calm(S) == \A x \in S : x.call \notin Reading

CallNames == JobCalls \cup Reading \cup
    {"submit", "leave", "resume", "event", "count", "startPaths", "path", "scheduleDone",
     "getAll", "getMissing", "awaitProducer", "produceImpl", "lock", "ran"}

\* Call c may be made by a block that has calls S to make after it.
Fits(c, S) ==
    /\ c.call \in CallNames
    /\ c.call = "submit" => c = submit(c.queue, <<c.block[1]>>) /\ IsSubmitted(c.block[1])
    /\ c.call = "leave" => c = leave(c.group) /\ IsGroup(c.group)
    /\ c.call = "resume" =>
          /\ c = resume(c.queue)
          /\ c.queue = s_non_thread_safe_queue \/ \E y, z : c.queue = <<"run", y, z>>
    /\ c.call = "wait" =>
          /\ c = wait(c.group)
          /\ \E w : /\ Works(w) /\ Ending(w, S)
                    /\ \/ c.group = Lock(w)
                       \/ \E n : IsProducer(n) /\ n[1] = w[1] /\ c.group = m_group(n)
    /\ c.call = "event" => c = event(c.stream) /\ c.stream \in Streams
    /\ c.call = "count" => c = count(c.stream, c.seen) /\ c.stream \in Streams /\ c.seen \in Nat
    /\ c.call = "startPaths" =>
          c = startPaths(c.stream, c.path) /\ c.stream \in Streams /\ c.path \in Nat \ {0}
    /\ c.call = "scheduleDone" => c = scheduleDone(c.stream) /\ c.stream \in Streams
    /\ c.call = "path" =>
          /\ c = path(c.stream, c.path) /\ c.stream \in Streams /\ c.path \in DOMAIN m_paths
          /\ leave(m_allPathsDoneGroup(c.stream)) \in S /\ Calm(S)
    /\ c.call \in JobCalls => IsJob(c) /\ Calm(S) /\ (c.call = "next" => c.at # <<>>)
    /\ c.call = "getAll" =>
          c = getAll(c.wrapper, c.keys) /\ Works(c.wrapper) /\ IsSeq(c.keys) /\ c.keys # <<>>
    /\ c.call = "getMissing" =>
          /\ c = getMissing(c.wrapper, c.producer) /\ Works(c.wrapper)
          /\ IsProducer(c.producer) /\ c.producer[1] = c.wrapper[1]
          /\ \E x \in S : x.call \in {"getAll", "leave"} /\ Owes(x, prefetchGroup(c.wrapper))
    /\ c.call = "awaitProducer" =>
          /\ c = awaitProducer(c.wrapper, c.producer) /\ Works(c.wrapper)
          /\ IsProducer(c.producer) /\ c.producer[1] = c.wrapper[1]
    /\ c.call = "produceImpl" =>
          /\ c = produceImpl(c.wrapper) /\ IsProducer(c.wrapper)
          /\ leave(m_group(c.wrapper)) \in S /\ Calm(S)
    /\ c.call = "reads" =>
          /\ c = reads(c.wrapper, c.keys) /\ Works(c.wrapper) /\ Ending(c.wrapper, S)
          /\ IsSeq(c.keys) /\ c.keys # <<>>
    /\ c.call = "syncGet" =>
          /\ c = syncGet(<<c.producer[1], c.producer[2]>>)
          /\ \E w : Works(w) /\ Ending(w, S) /\ c.producer[1] = w[1]
    /\ c.call = "sync" => c = sync(c.wrapper) /\ Works(c.wrapper) /\ Ending(c.wrapper, S)
    /\ c.call = "lock" => c = lock(c.wrapper) /\ Works(c.wrapper)
    /\ c.call = "filtered" =>
          /\ c = filtered(c.wrapper) /\ IsFilter(c.wrapper)
          /\ \E at : IsFilterAt(c.wrapper, at) /\ Job("next", c.wrapper, at) \in S
          /\ Calm(S)
    /\ c.call = "put" =>
          /\ c = put(c.wrapper) /\ IsProducer(c.wrapper)
          /\ leave(m_group(c.wrapper)) \in S /\ Calm(S)
    /\ c.call = "ran" =>
          /\ c = ran(c.wrapper) /\ IsProducer(c.wrapper)
          /\ leave(m_group(c.wrapper)) \in S

\* The calls of s after the i-th; and each fits in with them.
After(s, i) == {s[j] : j \in {k \in DOMAIN s : k > i}}

Good(s) == \A i \in DOMAIN s : Fits(s[i], After(s, i))

\* So do the calls of all blocks, and what waits for a group.
Blocks(d) ==
    /\ \A b \in Held(d) : Good(b.calls)
    /\ \A g : \A c \in Range(Waiting(d, g)) : IsNoted(g, c)

-----------------------------------------------------------------------------
(* Groups, streams, and who waits for whom. *)

\* Somebody owes x.
Owed(d, x) == Count(d, x) > 0

\* Each group has been entered as often as it will be left.
Groups(d) == \A g : IsGroup(g) => Entered(d, g) = Count(d, g)

Started(s) == IF phase = "clone" THEN s \in 1 .. m_schedules - 1 ELSE ~SettingUp

\* Somebody starts the paths of s, or has said what to do when they are over.
PathsToDo(d, s) ==
    \/ \E c \in Now(d) : c.call = "startPaths" /\ c.stream = s
    \/ Waiting(d, m_allPathsDoneGroup(s)) # <<>>

\* A stream is gone on with once, and its paths do not end unnoticed.
EventLoop(d) ==
    \A s \in Streams :
        /\ Count(d, StreamToken(s)) <= 1
        /\ Owed(d, m_allPathsDoneGroup(s)) => PathsToDo(d, s)

\* Wrapper w waits for producer n.
WaitsFor(d, w, n) ==
    \/ awaitProducer(w, n) \in Now(d)
    \/ \E z \in Range(Waiting(d, m_group(n))) : z.block[1] = leave(prefetchGroup(w))
    \/ \E b \in Runs(d) : wait(m_group(n)) \in Range(b.calls) /\ Ending(w, Range(b.calls))

\* Producers that somebody is busy with do not only wait for each other.
NoneInCircle(d) ==
    \A s \in Streams : \A X \in (SUBSET Of(s)) \ {{}} :
        (\A n \in X : Owed(d, m_group(n))) =>
            \E n \in X : \E w : Works(w) /\ w[1] = s /\ w \notin X /\ WaitsFor(d, w, n)

\* Somebody has still to say, or has said, what to do when w has got its data.
IsRequested(d, w) ==
    \/ \E c \in Now(d) : c.call = "notifyPrefetched" /\ c.wrapper = w
    \/ Waiting(d, prefetchGroup(w)) # <<>>

\* Who has not got all its data has somebody to go on when it has.
Requests(d) == \A w : Works(w) /\ Owed(d, prefetchGroup(w)) => IsRequested(d, w)

\* Who has to suspend a queue again is waited for.
Locks(d) ==
    \A w : Works(w) /\ Entered(d, Lock(w)) # 0 =>
        \E b \in Runs(d) : wait(Lock(w)) \in Range(b.calls)

\* A stream has something to do only once it has been started.
Begun(d) == \A s \in Streams : Owed(d, StreamToken(s)) => Started(s)

\* The whole of it.
InOrder(d) ==
    /\ IsGcd(d) /\ Blocks(d) /\ Groups(d)
    /\ EventLoop(d) /\ NoneInCircle(d) /\ Requests(d) /\ Locks(d)

Orderly(d) == InOrder(d) /\ Begun(d)

EventInv == Numbers /\ Lists /\ Modules /\ Orderly(gcd)

-----------------------------------------------------------------------------
(* What each call owes. *)

\* What each call costs.
LEMMA Costs ==
  ASSUME NEW c, NEW x
  PROVE  /\ c.call = "leave" => One(c, x) = IF x = c.group THEN 1 ELSE 0
         /\ c.call = "resume" => One(c, x) = IF x = c.queue THEN 1 ELSE 0
         /\ c.call \in JobCalls \ {"suspendUnsafe"} => One(c, x) = IF x = JobGroup(c) THEN 1 ELSE 0
         /\ c.call = "suspendUnsafe" =>
               One(c, x) = IF x = JobGroup(c) \/ x = <<"run", 0, c.wrapper[2]>> THEN 1 ELSE 0
         /\ c.call \in {"getAll", "awaitProducer"} =>
               One(c, x) = IF x = prefetchGroup(c.wrapper) THEN 1 ELSE 0
         /\ c.call = "lock" => One(c, x) = IF x = Lock(c.wrapper) THEN 1 ELSE 0
         /\ c.call \in {"startPaths", "scheduleDone"} =>
               One(c, x) = IF x = m_eventLoopGroup \/ x = StreamToken(c.stream) THEN 1 ELSE 0
         /\ c.call \in {"event", "count"} => One(c, x) = IF x = StreamToken(c.stream) THEN 1 ELSE 0
         /\ c.call \in Reading \cup {"path", "getMissing", "produceImpl", "ran"} => One(c, x) = 0
         /\ c.call = "submit" /\ c.block[1].call # "submit" => One(c, x) = One(c.block[1], x)
         /\ One(c, x) \in {0, 1}
  BY DEF One, Owes, Inner, JobCalls, Reading

\* Groups have names that differ.
LEMMA Names ==
  ASSUME NEW s, NEW t, NEW w, NEW n
  PROVE  /\ m_group(n) # prefetchGroup(w) /\ m_group(n) # Lock(w) /\ prefetchGroup(w) # Lock(n)
         /\ m_group(n) # m_allPathsDoneGroup(s) /\ prefetchGroup(w) # m_allPathsDoneGroup(s)
         /\ Lock(w) # m_allPathsDoneGroup(s)
         /\ StreamToken(s) # m_group(n) /\ StreamToken(s) # prefetchGroup(w)
         /\ StreamToken(s) # Lock(w) /\ StreamToken(s) # m_allPathsDoneGroup(t)
         /\ m_eventLoopGroup # m_group(n) /\ m_eventLoopGroup # prefetchGroup(w)
         /\ m_eventLoopGroup # Lock(w) /\ m_eventLoopGroup # m_allPathsDoneGroup(s)
         /\ m_eventLoopGroup # StreamToken(s)
         /\ m_group(n) = m_group(w) <=> n = w
         /\ prefetchGroup(n) = prefetchGroup(w) <=> n = w
         /\ Lock(n) = Lock(w) <=> n = w
         /\ m_allPathsDoneGroup(s) = m_allPathsDoneGroup(t) <=> s = t
         /\ StreamToken(s) = StreamToken(t) <=> s = t
  BY DEF m_group, prefetchGroup, Lock, m_allPathsDoneGroup, StreamToken, m_eventLoopGroup

\* Queues do not have the names of groups or streams.
LEMMA QueueNames ==
  ASSUME NEW g, NEW s, NEW y, NEW z, IsGroup(g) \/ g = StreamToken(s)
  PROVE  g # <<"run", y, z>> /\ g # s_non_thread_safe_queue
  BY DEF IsGroup, m_group, prefetchGroup, Lock, m_allPathsDoneGroup, StreamToken,
         m_eventLoopGroup, s_non_thread_safe_queue

-----------------------------------------------------------------------------
(* Blocks fit together. *)

\* Sequence r is s with c before it.
IsCons(r, c, s) == IsSeq(s) /\ r = <<c>> \o s

\* What is after a call, with one more before it.
LEMMA AfterCons ==
  ASSUME NEW c, NEW s, NEW r, IsCons(r, c, s)
  PROVE  /\ IsSeq(r) /\ Len(s) \in Nat /\ DOMAIN s = 1 .. Len(s) /\ DOMAIN r = 1 .. Len(s) + 1
         /\ r[1] = c /\ After(r, 1) = Range(s)
         /\ \A i \in 1 .. Len(s) : r[i + 1] = s[i] /\ After(r, i + 1) = After(s, i)
  <1>1. /\ IsSeq(r) /\ Len(r) = Len(s) + 1 /\ r[1] = c
        /\ \A i \in 1 .. Len(s) : r[i + 1] = s[i]
        /\ IsSeq(s)
    BY Cons DEF IsCons
  <1>2. /\ Len(s) \in Nat /\ DOMAIN s = 1 .. Len(s) /\ DOMAIN r = 1 .. Len(r)
        /\ Range(s) = {s[i] : i \in 1 .. Len(s)}
    BY <1>1, SeqOf
  <1>3. After(r, 1) = Range(s)
    <2>1. ASSUME NEW z \in After(r, 1)
          PROVE  z \in Range(s)
      <3>1. PICK j \in DOMAIN r : j > 1 /\ z = r[j]
        BY DEF After
      <3>2. j - 1 \in 1 .. Len(s) /\ j = (j - 1) + 1
        BY <3>1, <1>1, <1>2
      <3> QED
        BY <3>1, <3>2, <1>1, <1>2
    <2>2. ASSUME NEW j \in 1 .. Len(s)
          PROVE  s[j] \in After(r, 1)
      <3>1. j + 1 \in DOMAIN r /\ j + 1 > 1
        BY <1>1, <1>2
      <3> QED
        BY <3>1, <1>1 DEF After
    <2> QED
      BY <2>1, <2>2, <1>2
  <1>4. ASSUME NEW i \in 1 .. Len(s)
        PROVE  After(r, i + 1) = After(s, i)
    <2>1. ASSUME NEW z \in After(r, i + 1)
          PROVE  z \in After(s, i)
      <3>1. PICK j \in DOMAIN r : j > i + 1 /\ z = r[j]
        BY DEF After
      <3>2. j - 1 \in 1 .. Len(s) /\ j = (j - 1) + 1 /\ j - 1 > i
        BY <3>1, <1>1, <1>2
      <3>3. z = s[j - 1]
        BY <3>1, <3>2, <1>1
      <3> QED
        BY <3>2, <3>3, <1>2 DEF After
    <2>2. ASSUME NEW j \in 1 .. Len(s), j > i
          PROVE  s[j] \in After(r, i + 1)
      <3>1. j + 1 \in DOMAIN r /\ j + 1 > i + 1
        BY <2>2, <1>1, <1>2
      <3> QED
        BY <3>1, <1>1 DEF After
    <2> QED
      BY <2>1, <2>2, <1>2 DEF After
  <1> QED
    BY <1>1, <1>2, <1>3, <1>4

\* A good sequence with a call before it.
LEMMA GoodCons ==
  ASSUME NEW c, NEW s, IsSeq(s)
  PROVE  Good(<<c>> \o s) <=> Fits(c, Range(s)) /\ Good(s)
  <1>r. PICK r : r = <<c>> \o s
    OBVIOUS
  <1>c. IsCons(r, c, s)
    BY <1>r DEF IsCons
  <1>1. /\ IsSeq(r) /\ r[1] = c
        /\ \A i \in 1 .. Len(s) : r[i + 1] = s[i]
    BY <1>c, AfterCons
  <1>2. /\ Len(s) \in Nat /\ DOMAIN s = 1 .. Len(s) /\ DOMAIN r = 1 .. Len(s) + 1
    BY <1>c, AfterCons
  <1>3. After(r, 1) = Range(s)
    BY <1>c, AfterCons
  <1>4. \A i \in 1 .. Len(s) : After(r, i + 1) = After(s, i)
    BY <1>c, AfterCons
  <1>5. Good(r) => Fits(c, Range(s)) /\ Good(s)
    <2> SUFFICES ASSUME Good(r)
                 PROVE  Fits(c, Range(s)) /\ Good(s)
      OBVIOUS
    <2>1. 1 \in DOMAIN r
      BY <1>1, <1>2
    <2>2. Fits(r[1], After(r, 1))
      BY <2>1 DEF Good
    <2>3. ASSUME NEW i \in 1 .. Len(s)
          PROVE  Fits(s[i], After(s, i))
      <3>1. i + 1 \in DOMAIN r
        BY <1>1, <1>2
      <3>2. Fits(r[i + 1], After(r, i + 1))
        BY <3>1 DEF Good
      <3> QED
        BY <3>2, <1>1, <1>4
    <2> QED
      BY <2>2, <2>3, <1>1, <1>2, <1>3 DEF Good
  <1>6. ASSUME Fits(c, Range(s)), Good(s)
        PROVE  Good(r)
    <2>1. ASSUME NEW i \in DOMAIN r
          PROVE  Fits(r[i], After(r, i))
      <3>1. CASE i = 1
        BY <3>1, <1>1, <1>3, <1>6
      <3>2. CASE i # 1
        <4>1. i - 1 \in 1 .. Len(s) /\ i = (i - 1) + 1
          BY <3>2, <1>1, <1>2
        <4>2. Fits(s[i - 1], After(s, i - 1))
          BY <4>1, <1>2, <1>6 DEF Good
        <4>3. r[(i - 1) + 1] = s[i - 1] /\ After(r, (i - 1) + 1) = After(s, i - 1)
          BY <4>1, <1>1, <1>4
        <4> QED
          BY <4>1, <4>2, <4>3
      <3> QED
        BY <3>1, <3>2
    <2> QED
      BY <2>1 DEF Good
  <1> QED
    BY <1>5, <1>6, <1>r

\* None, or one call.
LEMMA GoodOne ==
  ASSUME NEW c
  PROVE  Good(<<>>) /\ (Good(<<c>>) <=> Fits(c, {}))
  <1>1. IsSeq(<<>>) /\ Range(<<>>) = {} /\ <<c>> \o <<>> = <<c>>
    BY OneElement, ConcatCons
  <1>2. Good(<<>>)
    BY DEF Good
  <1>3. Good(<<c>> \o <<>>) <=> Fits(c, Range(<<>>)) /\ Good(<<>>)
    BY <1>1, GoodCons
  <1> QED
    BY <1>1, <1>2, <1>3

\* Calls that fit before others may be made before them.
LEMMA GoodConcat ==
  ASSUME NEW t, NEW s, IsSeq(t), IsSeq(s), Good(s),
         \A c \in Range(t) : \A S : Range(s) \subseteq S => Fits(c, S)
  PROVE  Good(t \o s)
  <1>r. PICK r : r = t \o s
    OBVIOUS
  <1>1. /\ IsSeq(r) /\ Len(r) = Len(t) + Len(s)
        /\ \A i \in 1 .. Len(t) : r[i] = t[i]
        /\ \A i \in 1 .. Len(s) : r[Len(t) + i] = s[i]
    BY <1>r, Concat
  <1>2. /\ Len(s) \in Nat /\ DOMAIN s = 1 .. Len(s) /\ DOMAIN r = 1 .. Len(r)
        /\ Len(t) \in Nat /\ Range(t) = {t[i] : i \in 1 .. Len(t)}
    BY <1>1, SeqOf
  <1>3. ASSUME NEW i \in 1 .. Len(s)
        PROVE  After(r, Len(t) + i) = After(s, i)
    <2>1. ASSUME NEW z \in After(r, Len(t) + i)
          PROVE  z \in After(s, i)
      <3>1. PICK j \in DOMAIN r : j > Len(t) + i /\ z = r[j]
        BY DEF After
      <3>2. j - Len(t) \in 1 .. Len(s) /\ j = Len(t) + (j - Len(t)) /\ j - Len(t) > i
        BY <3>1, <1>1, <1>2
      <3>3. z = s[j - Len(t)]
        BY <3>1, <3>2, <1>1
      <3> QED
        BY <3>2, <3>3, <1>2 DEF After
    <2>2. ASSUME NEW j \in 1 .. Len(s), j > i
          PROVE  s[j] \in After(r, Len(t) + i)
      <3>1. Len(t) + j \in DOMAIN r /\ Len(t) + j > Len(t) + i
        BY <2>2, <1>1, <1>2
      <3> QED
        BY <3>1, <1>1 DEF After
    <2> QED
      BY <2>1, <2>2, <1>2 DEF After
  <1>4. ASSUME NEW i \in DOMAIN r
        PROVE  Fits(r[i], After(r, i))
    <2>1. CASE i \in 1 .. Len(t)
      <3>1. ASSUME NEW j \in 1 .. Len(s)
            PROVE  s[j] \in After(r, i)
        <4>1. Len(t) + j \in DOMAIN r /\ Len(t) + j > i /\ r[Len(t) + j] = s[j]
          BY <2>1, <1>1, <1>2
        <4>2. r[Len(t) + j] \in After(r, i)
          BY <4>1 DEF After
        <4> QED
          BY <4>1, <4>2
      <3>2. Range(s) \subseteq After(r, i)
        BY <3>1, SeqOf
      <3>3. t[i] \in Range(t) /\ r[i] = t[i]
        <4>1. r[i] = t[i]
          BY <2>1, <1>1
        <4>2. t[i] \in Range(t)
          BY <2>1, <1>2
        <4> QED
          BY <4>1, <4>2
      <3>4. Fits(t[i], After(r, i))
        BY <3>2, <3>3
      <3> QED
        BY <3>3, <3>4
    <2>2. CASE i \notin 1 .. Len(t)
      <3>1. i - Len(t) \in 1 .. Len(s) /\ i = Len(t) + (i - Len(t))
        BY <2>2, <1>1, <1>2
      <3>2. Fits(s[i - Len(t)], After(s, i - Len(t)))
        BY <3>1, <1>2 DEF Good
      <3>3. r[Len(t) + (i - Len(t))] = s[i - Len(t)] /\ After(r, Len(t) + (i - Len(t))) = After(s, i - Len(t))
        BY <3>1, <1>1, <1>3
      <3> QED
        BY <3>1, <3>2, <3>3
    <2> QED
      BY <2>1, <2>2
  <1> QED
    BY <1>4, <1>r DEF Good


-----------------------------------------------------------------------------
(* When calls fit. *)

\* Each call fits where the code makes it. A submit, of what may be submitted.
LEMMA FitsSubmit ==
  ASSUME NEW q, NEW x, NEW S, IsSubmitted(x)
  PROVE  Fits(submit(q, <<x>>), S)
  BY DEF Fits, CallNames, JobCalls, Reading, submit

\* A leave, of any group.
LEMMA FitsLeave ==
  ASSUME NEW g, NEW S, IsGroup(g)
  PROVE  Fits(leave(g), S)
  BY DEF Fits, CallNames, JobCalls, Reading, leave

\* A resume, of a queue that may be suspended.
LEMMA FitsResume ==
  ASSUME NEW q, q = s_non_thread_safe_queue \/ \E y, z : q = <<"run", y, z>>, NEW S
  PROVE  Fits(resume(q), S)
  BY DEF Fits, CallNames, JobCalls, Reading, resume

\* The wait of a module at work for a producer.
LEMMA FitsWaitProducer ==
  ASSUME NEW n, NEW w, NEW S, IsProducer(n), Works(w), n[1] = w[1], Ending(w, S)
  PROVE  Fits(wait(m_group(n)), S)
  BY DEF Fits, CallNames, JobCalls, Reading, wait

\* Its wait for the queue to be suspended again.
LEMMA FitsWaitLock ==
  ASSUME NEW w, NEW S, Works(w), Ending(w, S)
  PROVE  Fits(wait(Lock(w)), S)
  BY DEF Fits, CallNames, JobCalls, Reading, wait

\* The begin of an event.
LEMMA FitsEvent ==
  ASSUME NEW s \in Streams, NEW S
  PROVE  Fits(event(s), S)
  BY DEF Fits, CallNames, JobCalls, Reading, event

\* The count of an event.
LEMMA FitsCount ==
  ASSUME NEW s \in Streams, NEW k \in Nat, NEW S
  PROVE  Fits(count(s, k), S)
  BY DEF Fits, CallNames, JobCalls, Reading, count

\* The begin of paths.
LEMMA FitsStartPaths ==
  ASSUME NEW s \in Streams, NEW p \in Nat \ {0}, NEW S
  PROVE  Fits(startPaths(s, p), S)
  BY DEF Fits, CallNames, JobCalls, Reading, startPaths

\* The end of them all.
LEMMA FitsScheduleDone ==
  ASSUME NEW s \in Streams, NEW S
  PROVE  Fits(scheduleDone(s), S)
  BY DEF Fits, CallNames, JobCalls, Reading, scheduleDone

\* A path, which leaves its group in the end.
LEMMA FitsPath ==
  ASSUME NEW s \in Streams, NEW p \in DOMAIN m_paths, NEW S, leave(m_allPathsDoneGroup(s)) \in S, Calm(S)
  PROVE  Fits(path(s, p), S)
  BY DEF Fits, CallNames, JobCalls, Reading, path

\* A job, of a wrapper that may have it.
LEMMA FitsJob ==
  ASSUME NEW name \in JobCalls, NEW w, NEW at, NEW S, HasJob(w, at), Calm(S), name = "next" => at # <<>>
  PROVE  Fits(Job(name, w, at), S)
  BY DEF Fits, CallNames, JobCalls, Reading, Job, IsJob

\* A request for data.
LEMMA FitsGetAll ==
  ASSUME NEW w, NEW keys, NEW S, Works(w), IsSeq(keys), keys # <<>>
  PROVE  Fits(getAll(w, keys), S)
  BY DEF Fits, CallNames, JobCalls, Reading, getAll

\* The request for a datum that is not there, while the group is still entered.
LEMMA FitsGetMissing ==
  ASSUME NEW w, NEW n, NEW S, Works(w), IsProducer(n), n[1] = w[1],
         \E x \in S : x.call \in {"getAll", "leave"} /\ Owes(x, prefetchGroup(w))
  PROVE  Fits(getMissing(w, n), S)
  BY DEF Fits, CallNames, JobCalls, Reading, getMissing

\* The wait of a request for a producer.
LEMMA FitsAwaitProducer ==
  ASSUME NEW w, NEW n, NEW S, Works(w), IsProducer(n), n[1] = w[1]
  PROVE  Fits(awaitProducer(w, n), S)
  BY DEF Fits, CallNames, JobCalls, Reading, awaitProducer

\* A producer that is asked for, whose group is left in the end.
LEMMA FitsProduceImpl ==
  ASSUME NEW n, NEW S, IsProducer(n), leave(m_group(n)) \in S, Calm(S)
  PROVE  Fits(produceImpl(n), S)
  BY DEF Fits, CallNames, JobCalls, Reading, produceImpl

\* The reads of a module at work.
LEMMA FitsReads ==
  ASSUME NEW w, NEW keys, NEW S, Works(w), Ending(w, S), IsSeq(keys), keys # <<>>
  PROVE  Fits(reads(w, keys), S)
  BY DEF Fits, CallNames, JobCalls, Reading, reads

\* The get of a datum by label.
LEMMA FitsSyncGet ==
  ASSUME NEW s, NEW key, NEW w, NEW S, Works(w), Ending(w, S), s = w[1]
  PROVE  Fits(syncGet(<<s, key>>), S)
  BY DEF Fits, CallNames, JobCalls, Reading, syncGet

\* The call that has the queue suspended again.
LEMMA FitsSync ==
  ASSUME NEW w, NEW S, Works(w), Ending(w, S)
  PROVE  Fits(sync(w), S)
  BY DEF Fits, CallNames, JobCalls, Reading, sync

\* The block that suspends it.
LEMMA FitsLock ==
  ASSUME NEW w, NEW S, Works(w)
  PROVE  Fits(lock(w), S)
  BY DEF Fits, CallNames, JobCalls, Reading, lock

\* The end of a filter, which goes on with its path.
LEMMA FitsFiltered ==
  ASSUME NEW w, NEW at, NEW S, IsFilter(w), IsFilterAt(w, at), Job("next", w, at) \in S, Calm(S)
  PROVE  Fits(filtered(w), S)
  BY DEF Fits, CallNames, JobCalls, Reading, filtered

\* The put of a producer, which leaves its group.
LEMMA FitsPut ==
  ASSUME NEW n, NEW S, IsProducer(n), leave(m_group(n)) \in S, Calm(S)
  PROVE  Fits(put(n), S)
  BY DEF Fits, CallNames, JobCalls, Reading, put

\* The end of a producer, before it leaves its group.
LEMMA FitsRan ==
  ASSUME NEW n, NEW S, IsProducer(n), leave(m_group(n)) \in S
  PROVE  Fits(ran(n), S)
  BY DEF Fits, CallNames, JobCalls, Reading, ran

-----------------------------------------------------------------------------
(* What a step keeps. *)

\* Somebody waits for w to have the queue again.
LockAwaited(d, w) == \E b \in Runs(d) : wait(Lock(w)) \in Range(b.calls)

\* As long as a group is owed, who is to empty it is still known.
Follows(d, e) ==
    /\ \A s \in Streams : PathsToDo(d, s) /\ Owed(e, m_allPathsDoneGroup(s)) => PathsToDo(e, s)
    /\ \A w, n : IsProducer(n) /\ WaitsFor(d, w, n) /\ Owed(e, m_group(n)) => WaitsFor(e, w, n)
    /\ \A w : Works(w) /\ IsRequested(d, w) /\ Owed(e, prefetchGroup(w)) => IsRequested(e, w)
    /\ \A w : Works(w) /\ LockAwaited(d, w) /\ Entered(e, Lock(w)) # 0 => LockAwaited(e, w)

\* And a group is owed only if it was, or if that is known.
Debts(d, e) ==
    /\ \A s \in Streams : Owed(e, m_allPathsDoneGroup(s)) =>
                             Owed(d, m_allPathsDoneGroup(s)) \/ PathsToDo(e, s)
    /\ \A w : Works(w) /\ Owed(e, prefetchGroup(w)) => Owed(d, prefetchGroup(w)) \/ IsRequested(e, w)
    /\ \A w : Works(w) /\ Entered(e, Lock(w)) # 0 => Entered(d, Lock(w)) # 0 \/ LockAwaited(e, w)

\* At most one block goes on with a stream, and only with one that was begun.
Tokens(d) ==
    \A s \in Streams : Count(d, StreamToken(s)) <= 1 /\ (Owed(d, StreamToken(s)) => Started(s))

\* No producer is asked for that was not.
NoneAsked(d, e) == \A n : IsProducer(n) /\ Owed(e, m_group(n)) => Owed(d, m_group(n))

\* Then all is in order.
LEMMA OrderlyAfter ==
  ASSUME NEW d, Orderly(d), NEW e, IsGcd(e), Blocks(e), Groups(e), Tokens(e), NoneInCircle(e),
         Follows(d, e), Debts(d, e)
  PROVE  Orderly(e)
  <1>1. EventLoop(e)
    <2>1. ASSUME NEW s \in Streams, Owed(e, m_allPathsDoneGroup(s))
          PROVE  PathsToDo(e, s)
      <3>1. CASE Owed(d, m_allPathsDoneGroup(s))
        <4>1. PathsToDo(d, s)
          BY <3>1 DEF Orderly, InOrder, EventLoop
        <4> QED
          BY <4>1, <2>1 DEF Follows
      <3> QED
        BY <3>1, <2>1 DEF Debts
    <2> QED
      BY <2>1 DEF EventLoop, Tokens
  <1>2. Requests(e)
    <2>1. ASSUME NEW w, Works(w), Owed(e, prefetchGroup(w))
          PROVE  IsRequested(e, w)
      <3>1. CASE Owed(d, prefetchGroup(w))
        <4>1. IsRequested(d, w)
          BY <3>1, <2>1 DEF Orderly, InOrder, Requests
        <4> QED
          BY <4>1, <2>1 DEF Follows
      <3> QED
        BY <3>1, <2>1 DEF Debts
    <2> QED
      BY <2>1 DEF Requests
  <1>3. Locks(e)
    <2>1. ASSUME NEW w, Works(w), Entered(e, Lock(w)) # 0
          PROVE  LockAwaited(e, w)
      <3>1. CASE Entered(d, Lock(w)) # 0
        <4>1. LockAwaited(d, w)
          BY <3>1, <2>1 DEF Orderly, InOrder, Locks, LockAwaited
        <4> QED
          BY <4>1, <2>1 DEF Follows
      <3> QED
        BY <3>1, <2>1 DEF Debts
    <2> QED
      BY <2>1 DEF Locks, LockAwaited
  <1> QED
    BY <1>1, <1>2, <1>3 DEF Orderly, InOrder, Tokens, Begun

\* Producers nobody asked for are in no circle.
LEMMA CircleKept ==
  ASSUME NEW d, Orderly(d), NEW e, Follows(d, e), NoneAsked(d, e)
  PROVE  NoneInCircle(e)
  <1>1. ASSUME NEW s \in Streams, NEW X \in (SUBSET Of(s)) \ {{}},
               \A n \in X : Owed(e, m_group(n))
        PROVE  \E n \in X : \E w : Works(w) /\ w[1] = s /\ w \notin X /\ WaitsFor(e, w, n)
    <2>1. \A n \in X : IsProducer(n)
      BY DEF Of, IsProducer
    <2>2. \A n \in X : Owed(d, m_group(n))
      BY <1>1, <2>1 DEF NoneAsked
    <2>3. PICK n \in X : \E w : Works(w) /\ w[1] = s /\ w \notin X /\ WaitsFor(d, w, n)
      BY <2>2 DEF Orderly, InOrder, NoneInCircle
    <2>4. PICK w : Works(w) /\ w[1] = s /\ w \notin X /\ WaitsFor(d, w, n)
      BY <2>3
    <2>5. WaitsFor(e, w, n)
      BY <2>1, <2>4, <1>1 DEF Follows
    <2> QED
      BY <2>4, <2>5
  <1> QED
    BY <1>1 DEF NoneInCircle

-----------------------------------------------------------------------------
(* Who is wanted. *)

\* Somebody waits for w: a path, or whoever asked for the producer.
Wanted(d, w) ==
    \/ IsProducer(w) /\ Owed(d, m_group(w))
    \/ IsFilter(w) /\ Owed(d, m_allPathsDoneGroup(w[1]))

\* Members of a product.
LEMMA PairIs ==
  ASSUME NEW S, NEW T, NEW w \in S \X T
  PROVE  w[1] \in S /\ w[2] \in T /\ w = <<w[1], w[2]>>
  OBVIOUS

\* A wrapper is a filter's or a producer's.
LEMMA OneOrTheOther ==
  ASSUME Modules, NEW w, IsProducer(w)
  PROVE  ~IsFilter(w)
  <1>1. w[2] \in m_lookupMap
    BY DEF IsProducer
  <1>2. module[w[2][1]].base = "producer"
    BY <1>1 DEF Modules
  <1>3. ASSUME IsFilter(w)
        PROVE  module[w[2][1]].base = "filter"
    <2>1. w[2] \in {<<l, "">> : l \in {x \in DOMAIN module : module[x].base = "filter"}}
      BY <1>3, PairIs DEF IsFilter
    <2>2. PICK l \in DOMAIN module : module[l].base = "filter" /\ w[2] = <<l, "">>
      BY <2>1
    <2>k. PICK k : k = <<l, "">>
      OBVIOUS
    <2>4. k[1] = l
      BY <2>k
    <2>3. w[2][1] = l
      BY <2>2, <2>k, <2>4
    <2> QED
      BY <2>2, <2>3
  <1> QED
    BY <1>2, <1>3

\* The filters of paths are filters, of a stream.
LEMMA FilterWorks ==
  ASSUME Modules, NEW w, NEW at, IsFilterAt(w, at)
  PROVE  /\ IsFilter(w) /\ Works(w) /\ w[1] \in Streams /\ at # <<>> /\ at = <<at[1], at[2]>>
         /\ at[1] \in DOMAIN m_paths /\ at[2] \in DOMAIN m_paths[at[1]]
         /\ w = FilterAt(w[1], at[1], at[2])
  <1>1. PICK s \in Streams : \E p \in DOMAIN m_paths : \E i \in DOMAIN m_paths[p] :
                              at = <<p, i>> /\ w = FilterAt(s, p, i)
    BY DEF IsFilterAt
  <1>2. PICK p \in DOMAIN m_paths : \E i \in DOMAIN m_paths[p] :
                              at = <<p, i>> /\ w = FilterAt(s, p, i)
    BY <1>1
  <1>3. PICK i \in DOMAIN m_paths[p] : at = <<p, i>> /\ w = FilterAt(s, p, i)
    BY <1>2
  <1>4. m_paths[p][i] \in DOMAIN module /\ module[m_paths[p][i]].base = "filter"
    BY DEF Modules
  <1>5. IsFilter(w)
    BY <1>3, <1>4 DEF IsFilter, FilterAt
  <1>6. w[1] = s
    BY <1>3 DEF FilterAt
  <1> QED
    BY <1>3, <1>5, <1>6 DEF Works

\* The stream of a wrapper.
LEMMA StreamOfWorks ==
  ASSUME NEW w, Works(w)
  PROVE  w[1] \in Streams /\ w = <<w[1], w[2]>>
  BY PairIs DEF Works, IsProducer, IsFilter

\* What a job leaves.
LEMMA JobIs ==
  ASSUME Modules, NEW c, IsJob(c)
  PROVE  /\ Works(c.wrapper) /\ IsGroup(JobGroup(c))
         /\ c.at = <<>> => IsProducer(c.wrapper) /\ JobGroup(c) = m_group(c.wrapper)
         /\ c.at # <<>> => /\ IsFilterAt(c.wrapper, c.at) /\ IsFilter(c.wrapper)
                           /\ JobGroup(c) = m_allPathsDoneGroup(c.wrapper[1])
         /\ IsProducer(c.wrapper) => c.at = <<>>
  <1>1. CASE c.at = <<>>
    BY <1>1 DEF IsJob, HasJob, JobGroup, IsGroup, Works
  <1>2. CASE c.at # <<>>
    <2>1. IsFilterAt(c.wrapper, c.at)
      BY <1>2 DEF IsJob, HasJob
    <2>2. IsFilter(c.wrapper) /\ Works(c.wrapper) /\ c.wrapper[1] \in Streams
      BY <2>1, FilterWorks
    <2>3. ~IsProducer(c.wrapper)
      BY <2>2, OneOrTheOther
    <2> QED
      BY <1>2, <2>1, <2>2, <2>3 DEF JobGroup, IsGroup
  <1> QED
    BY <1>1, <1>2

\* Calls of blocks that run or wait in a queue fit.
LEMMA FitsNow ==
  ASSUME NEW d, IsGcd(d), Blocks(d), NEW c \in Now(d)
  PROVE  (\E S : Fits(c, S)) \/ IsSubmitted(c)
  <1>1. PICK b \in Held(d) : c \in Inners(b.calls)
    BY DEF Now
  <1>2. PICK z \in Range(b.calls) : c = Inner(z)
    BY <1>1 DEF Inners
  <1>3. PICK i \in DOMAIN b.calls : z = b.calls[i]
    BY <1>2 DEF Range
  <1>4. Fits(z, After(b.calls, i))
    BY <1>3 DEF Blocks, Good
  <1>5. CASE z.call = "submit"
    <2>1. z = submit(z.queue, <<z.block[1]>>) /\ IsSubmitted(z.block[1])
      BY <1>4, <1>5 DEF Fits
    <2> QED
      BY <2>1, <1>2, <1>5 DEF Inner
  <1>6. CASE z.call # "submit"
    BY <1>2, <1>4, <1>6 DEF Inner
  <1> QED
    BY <1>5, <1>6

\* What will be said when w has got its data is said by a job of w.
LEMMA RequestedWanted ==
  ASSUME Modules, NEW d, Orderly(d), NEW w, Works(w), IsRequested(d, w)
  PROVE  Wanted(d, w)
  <1> USE DEF Orderly, InOrder
  <1>1. ASSUME NEW c, IsJob(c), c.wrapper = w, c.call \in JobCalls, Count(d, JobGroup(c)) >= 1
        PROVE  Wanted(d, w)
    <2>1. Count(d, JobGroup(c)) \in Nat
      BY CountIsNat
    <2>2. Owed(d, JobGroup(c))
      BY <2>1, <1>1 DEF Owed
    <2>3. CASE c.at = <<>>
      <3>1. IsProducer(w) /\ JobGroup(c) = m_group(w)
        BY <2>3, <1>1, JobIs
      <3> QED
        BY <3>1, <2>2 DEF Wanted
    <2>4. CASE c.at # <<>>
      <3>1. IsFilter(w) /\ JobGroup(c) = m_allPathsDoneGroup(w[1])
        BY <2>4, <1>1, JobIs
      <3> QED
        BY <3>1, <2>2 DEF Wanted
    <2> QED
      BY <2>3, <2>4
  <1>2. CASE \E c \in Now(d) : c.call = "notifyPrefetched" /\ c.wrapper = w
    <2>1. PICK c \in Now(d) : c.call = "notifyPrefetched" /\ c.wrapper = w
      BY <1>2
    <2>2. (\E S : Fits(c, S)) \/ IsSubmitted(c)
      BY FitsNow
    <2>3. IsJob(c)
      <3>1. ~IsSubmitted(c)
        BY <2>1 DEF IsSubmitted, scheduleDone, leave
      <3>2. PICK S : Fits(c, S)
        BY <3>1, <2>2
      <3> QED
        BY <3>2, <2>1 DEF Fits, JobCalls
    <2>4. Owes(c, JobGroup(c)) /\ c.call \in JobCalls
      BY <2>1 DEF Owes, JobCalls
    <2> QED
      BY <2>1, <2>3, <2>4, <1>1, OwedNow
  <1>3. CASE Waiting(d, prefetchGroup(w)) # <<>>
    <2>1. IsSeq(Waiting(d, prefetchGroup(w)))
      BY AnyGroup
    <2>2. PICK z : z \in Range(Waiting(d, prefetchGroup(w)))
      BY <2>1, <1>3, HeadTail
    <2>3. IsNoted(prefetchGroup(w), z)
      BY <2>2 DEF Blocks
    <2>c. PICK c : c = z.block[1]
      OBVIOUS
    <2>4. IsJob(c) /\ c.wrapper = w /\ c.call \in {"work", "suspendOwn"} /\ z = submit(z.queue, <<c>>)
      BY <2>3, <2>c, Names DEF IsNoted
    <2>5. Inner(z) = c
      BY <2>4 DEF Inner, submit
    <2>6. Owes(c, JobGroup(c)) /\ c.call \in JobCalls
      BY <2>4 DEF Owes, JobCalls
    <2>7. Owes(Inner(z), JobGroup(c))
      BY <2>5, <2>6
    <2>8. Count(d, JobGroup(c)) >= 1
      BY <2>2, <2>7, OwedNoted
    <2> QED
      BY <2>4, <2>6, <2>8, <1>1
  <1> QED
    BY <1>2, <1>3 DEF IsRequested

\* Who has not got all its data is wanted.
LEMMA OwedWanted ==
  ASSUME Modules, NEW d, Orderly(d), NEW w, Works(w), Owed(d, prefetchGroup(w))
  PROVE  Wanted(d, w)
  BY RequestedWanted DEF Orderly, InOrder, Requests

\* So is who has still to end its work.
LEMMA EndingWanted ==
  ASSUME Modules, NEW d, Orderly(d), NEW w, NEW b \in Runs(d), Ending(w, Range(b.calls))
  PROVE  Wanted(d, w)
  <1> USE DEF Orderly, InOrder
  <1>1. \A x : Count(d, x) \in Nat
    BY CountIsNat
  <1>2. Good(b.calls)
    BY DEF Blocks, Held
  <1>3. \A i \in DOMAIN b.calls : After(b.calls, i) \subseteq Range(b.calls)
    BY DEF After, Range
  <1>4. CASE put(w) \in Range(b.calls)
    <2>1. PICK i \in DOMAIN b.calls : b.calls[i] = put(w)
      BY <1>4 DEF Range
    <2>2. Fits(put(w), After(b.calls, i))
      BY <1>2, <2>1 DEF Good
    <2>3. IsProducer(w) /\ leave(m_group(w)) \in After(b.calls, i)
      BY <2>2 DEF Fits, put
    <2>4. Owes(Inner(leave(m_group(w))), m_group(w))
      BY DEF Inner, Owes, leave
    <2>5. Count(d, m_group(w)) >= 1
      BY <2>3, <2>4, <1>3, OwedByBlock
    <2> QED
      BY <2>3, <2>5, <1>1 DEF Wanted, Owed
  <1>5. CASE filtered(w) \in Range(b.calls)
    <2>1. PICK i \in DOMAIN b.calls : b.calls[i] = filtered(w)
      BY <1>5 DEF Range
    <2>2. Fits(filtered(w), After(b.calls, i))
      BY <1>2, <2>1 DEF Good
    <2>3. PICK at : IsFilterAt(w, at) /\ Job("next", w, at) \in After(b.calls, i)
      BY <2>2 DEF Fits, filtered
    <2>4. IsFilter(w) /\ at # <<>>
      BY <2>3, FilterWorks
    <2>5. Owes(Inner(Job("next", w, at)), m_allPathsDoneGroup(w[1]))
      BY <2>4 DEF Inner, Owes, Job, JobCalls, JobGroup
    <2>6. Count(d, m_allPathsDoneGroup(w[1])) >= 1
      BY <2>3, <2>5, <1>3, OwedByBlock
    <2> QED
      BY <2>4, <2>6, <1>1 DEF Wanted, Owed
  <1> QED
    BY <1>4, <1>5 DEF Ending

\* So is who waits for a producer.
LEMMA WaiterWanted ==
  ASSUME Modules, NEW d, Orderly(d), NEW w, Works(w), NEW n, IsProducer(n), WaitsFor(d, w, n)
  PROVE  Wanted(d, w)
  <1> USE DEF Orderly, InOrder
  <1>1. \A x : Count(d, x) \in Nat
    BY CountIsNat
  <1>2. CASE awaitProducer(w, n) \in Now(d)
    <2>1. Owes(awaitProducer(w, n), prefetchGroup(w))
      BY DEF Owes, awaitProducer
    <2>2. Count(d, prefetchGroup(w)) >= 1
      BY <1>2, <2>1, OwedNow
    <2> QED
      BY <2>2, <1>1, OwedWanted DEF Owed
  <1>3. CASE \E z \in Range(Waiting(d, m_group(n))) : z.block[1] = leave(prefetchGroup(w))
    <2>1. PICK z \in Range(Waiting(d, m_group(n))) : z.block[1] = leave(prefetchGroup(w))
      BY <1>3
    <2>2. IsNoted(m_group(n), z)
      BY DEF Blocks
    <2>3. z.call = "submit"
      BY <2>2 DEF IsNoted, submit
    <2>4. Owes(Inner(z), prefetchGroup(w))
      BY <2>1, <2>3 DEF Inner, Owes, leave
    <2>5. Count(d, prefetchGroup(w)) >= 1
      BY <2>4, OwedNoted
    <2> QED
      BY <2>5, <1>1, OwedWanted DEF Owed
  <1>4. CASE \E b \in Runs(d) : Ending(w, Range(b.calls))
    BY <1>4, EndingWanted
  <1> QED
    BY <1>2, <1>3, <1>4 DEF WaitsFor

\* One producer n more may be asked for, by w that waits for it now.
LEMMA CircleWithOneMore ==
  ASSUME Modules, NEW d, Orderly(d), NEW e, Follows(d, e), NEW n, NEW w,
         Works(w), IsProducer(n), w[1] = n[1], WaitsFor(e, w, n),
         Wanted(d, w),
         \A m : IsProducer(m) /\ m # n /\ Owed(e, m_group(m)) => Owed(d, m_group(m))
  PROVE  NoneInCircle(e)
  <1>1. ASSUME NEW s \in Streams, NEW X \in (SUBSET Of(s)) \ {{}},
               \A m \in X : Owed(e, m_group(m))
        PROVE  \E m \in X : \E v : Works(v) /\ v[1] = s /\ v \notin X /\ WaitsFor(e, v, m)
    <2>1. \A m \in X : IsProducer(m) /\ m[1] = s
      BY DEF Of, IsProducer
    <2>2. CASE n \in X /\ w \notin X
      BY <2>1, <2>2
    <2>3. CASE ~(n \in X /\ w \notin X)
      <3>y. PICK Y : Y = IF Owed(d, m_group(n)) THEN X ELSE X \ {n}
        OBVIOUS
      <3>1. \A m \in Y : Owed(d, m_group(m))
        BY <3>y, <2>1, <1>1
      <3>2. Y \subseteq X /\ Y # {}
        <4>1. CASE ~Owed(d, m_group(n)) /\ n \in X
          <5>1. w # n
            BY <4>1, OneOrTheOther DEF Wanted
          <5> QED
            BY <5>1, <4>1, <2>3, <3>y
        <4> QED
          BY <4>1, <3>y
      <3>3. PICK m \in Y : \E v : Works(v) /\ v[1] = s /\ v \notin Y /\ WaitsFor(d, v, m)
        BY <3>1, <3>2 DEF Orderly, InOrder, NoneInCircle
      <3>4. PICK v : Works(v) /\ v[1] = s /\ v \notin Y /\ WaitsFor(d, v, m)
        BY <3>3
      <3>5. WaitsFor(e, v, m)
        BY <3>2, <3>4, <2>1, <1>1 DEF Follows
      <3>6. CASE ~Owed(d, m_group(n)) /\ n \in X /\ v = n
        <4>1. Wanted(d, n)
          BY <3>2, <3>4, <3>6, <2>1, WaiterWanted
        <4>2. ~IsFilter(n)
          BY OneOrTheOther
        <4> QED
          BY <4>1, <4>2, <3>6 DEF Wanted
      <3> QED
        BY <3>2, <3>4, <3>5, <3>6, <3>y
    <2> QED
      BY <2>2, <2>3
  <1> QED
    BY <1>1 DEF NoneInCircle

-----------------------------------------------------------------------------
(* A step of a block. *)

\* The next call fits the ones after it, which fit too.
LEMMA HeadFits ==
  ASSUME NEW d, IsGcd(d), Blocks(d), NEW b \in Runs(d)
  PROVE  Fits(Call(b), Range(Later(b))) /\ Good(Later(b))
  <1>1. Good(b.calls)
    BY DEF Blocks, Held
  <1>2. IsSeq(Later(b)) /\ b.calls = <<Call(b)>> \o Later(b)
    BY RunningBlock
  <1>3. Good(<<Call(b)>> \o Later(b))
    BY <1>1, <1>2
  <1> QED
    BY <1>2, <1>3, GoodCons

\* After a call of b that made w of libdispatch's state d, b has calls t to make
\* before the others, and the state is e.
Turned(d, w, b, t, new, e) ==
    /\ Stepped(d, e, b, t \o Later(b), new)
    /\ \A x : Count(e, x) = Count(w, x) - One(Call(b), x) + N(t, x)
    /\ \A h : Entered(e, h) = Entered(w, h)
    /\ \A h : Waiting(e, h) = Waiting(w, h)
    /\ Range(Later(b)) \subseteq Range(t \o Later(b))

\* That is what GoOn does.
LEMMA TurnedIs ==
  ASSUME NEW d, IsGcd(d), NEW b \in Runs(d), NEW w, NEW new, Adds(d, w, new),
         NEW t, IsSeq(t), NEW e, e = GoOn(w, b, t \o Later(b))
  PROVE  Turned(d, w, b, t, new, e)
  <1>1. /\ IsSeq(Later(b)) /\ b.calls = <<Call(b)>> \o Later(b) /\ IsGcd(w)
    BY RunningBlock DEF Adds
  <1>2. IsSeq(t \o Later(b)) /\ Range(t \o Later(b)) = Range(t) \cup Range(Later(b))
    BY <1>1, Concat
  <1>3. b \in Runs(w)
    <2>1. Copies(d, b) > 0 /\ Copies(d, b) \in Nat /\ Copies(w, b) \in Nat
      BY <1>1, RunsPositive
    <2>2. Copies(w, b) >= Copies(d, b)
      BY DEF Adds
    <2> QED
      BY <2>1, <2>2, <1>1, RunsPositive
  <1>r. PICK r : r = t \o Later(b)
    OBVIOUS
  <1>4. GoOnEffect(w, b, r, e)
    <2>1. e = GoOn(w, b, r) /\ IsSeq(r)
      BY <1>r, <1>2
    <2> QED
      BY <2>1, <1>1, <1>3, GoOnIs
  <1>5. Stepped(d, e, b, r, new)
    BY <1>4, GoOnStepped
  <1>6. ASSUME NEW x
        PROVE  Count(e, x) = Count(w, x) - One(Call(b), x) + N(t, x)
    <2>1. N(b.calls, x) = One(Call(b), x) + N(Later(b), x)
      BY <1>1, NCons
    <2>2. N(r, x) = N(t, x) + N(Later(b), x)
      BY <1>1, <1>r, NConcat
    <2>3. /\ N(Later(b), x) \in Nat /\ N(t, x) \in Nat /\ One(Call(b), x) \in {0, 1}
          /\ Count(w, x) \in Nat
      BY <1>1, NCons, FinitelyOwing, CountIsNat
    <2>4. Count(e, x) = Count(w, x) - N(b.calls, x) + N(r, x)
      BY <1>4 DEF GoOnEffect
    <2> QED
      BY <2>1, <2>2, <2>3, <2>4
  <1>7. \A h : Entered(e, h) = Entered(w, h) /\ Waiting(e, h) = Waiting(w, h)
    BY <1>4 DEF GoOnEffect
  <1> QED
    BY <1>2, <1>5, <1>6, <1>7, <1>r DEF Turned

\* Blocks that fit are made of calls that do.
LEMMA BlocksAfter ==
  ASSUME NEW d, Blocks(d), NEW b, NEW w, NEW t, NEW new, NEW e, Turned(d, w, b, t, new, e),
         Good(t \o Later(b)), \A a \in new : Good(a.calls),
         \A g : \A c \in Range(Waiting(w, g)) : c \in Range(Waiting(d, g)) \/ IsNoted(g, c)
  PROVE  Blocks(e)
  <1>1. ASSUME NEW a \in Held(e)
        PROVE  Good(a.calls)
    <2>1. CASE a = Block(b.queue, t \o Later(b))
      <3>1. a.calls = t \o Later(b)
        BY <2>1 DEF Block
      <3> QED
        BY <3>1
    <2>2. CASE a # Block(b.queue, t \o Later(b))
      <3>1. a \in Held(d) \cup new
        BY <2>2 DEF Turned, Stepped
      <3> QED
        BY <3>1 DEF Blocks
    <2> QED
      BY <2>1, <2>2
  <1>2. ASSUME NEW g, NEW c \in Range(Waiting(e, g))
        PROVE  IsNoted(g, c)
    BY DEF Turned, Blocks
  <1> QED
    BY <1>1, <1>2 DEF Blocks

\* What was to be done still is, but for what b has done, and what waited for
\* group x.
Still(d, b, x, e) ==
    /\ \A s \in Streams : PathsToDo(d, s) =>
          \/ PathsToDo(e, s)
          \/ Call(b).call = "startPaths" /\ Call(b).stream = s
          \/ x = m_allPathsDoneGroup(s)
    /\ \A v, n : WaitsFor(d, v, n) =>
          \/ WaitsFor(e, v, n)
          \/ Call(b) = awaitProducer(v, n) \/ Call(b) = wait(m_group(n)) \/ x = m_group(n)
    /\ \A v : IsRequested(d, v) =>
          \/ IsRequested(e, v)
          \/ Call(b).call = "notifyPrefetched" /\ Call(b).wrapper = v
          \/ x = prefetchGroup(v)
    /\ \A v : LockAwaited(d, v) => LockAwaited(e, v) \/ Call(b) = wait(Lock(v))

\* That is so after any step of a block that removes no note but of x.
LEMMA StillIs ==
  ASSUME NEW d, IsGcd(d), Blocks(d), NEW b \in Runs(d), NEW w, NEW t, NEW new, NEW e,
         Turned(d, w, b, t, new, e), NEW x,
         \A h : h # x => Range(Waiting(d, h)) \subseteq Range(Waiting(w, h))
  PROVE  Still(d, b, x, e)
  <1>1. Fits(Call(b), Range(Later(b)))
    BY HeadFits
  <1>2. \A c \in Now(d) : c = Inner(Call(b)) \/ c \in Now(e)
    BY NowKept DEF Turned
  <1>3. ASSUME NEW c, c = Inner(Call(b)), c.call \in {"startPaths", "awaitProducer", "notifyPrefetched"}
        PROVE  c = Call(b)
    <2>1. CASE Call(b).call = "submit"
      <3>1. IsSubmitted(Call(b).block[1])
        BY <1>1, <2>1 DEF Fits
      <3>2. c = Call(b).block[1]
        BY <1>3, <2>1 DEF Inner
      <3> QED
        BY <3>1, <3>2, <1>3 DEF IsSubmitted, scheduleDone, leave
    <2>2. CASE Call(b).call # "submit"
      BY <2>2, <1>3 DEF Inner
    <2> QED
      BY <2>1, <2>2
  <1>4. \A h : h # x => Range(Waiting(d, h)) \subseteq Range(Waiting(e, h))
    BY DEF Turned
  <1>5. ASSUME NEW h, h # x, Waiting(d, h) # <<>>
        PROVE  Waiting(e, h) # <<>>
    <2>1. IsSeq(Waiting(d, h))
      BY AnyGroup
    <2>2. PICK z : z \in Range(Waiting(d, h))
      BY <2>1, <1>5, HeadTail
    <2>3. z \in Range(Waiting(e, h))
      BY <2>2, <1>4, <1>5
    <2> QED
      BY <2>3, OneElement
  <1>6. ASSUME NEW a \in Runs(d), NEW c \in Range(a.calls), c # Call(b)
        PROVE  \E f \in Runs(e) : /\ c \in Range(f.calls)
                                  /\ \A z \in Range(a.calls) : z \in Range(f.calls) \/ (a = b /\ z = Call(b))
    <2>1. CASE a # b
      <3>1. a \in Runs(e)
        BY <2>1 DEF Turned, Stepped
      <3> QED
        BY <3>1
    <2>2. CASE a = b
      <3>r. PICK r : r = t \o Later(b)
        OBVIOUS
      <3>f. PICK f : f = Block(b.queue, r)
        OBVIOUS
      <3>1. Range(b.calls) = {Call(b)} \cup Range(Later(b))
        BY RunningBlock
      <3>2. c \in Range(r)
        BY <3>1, <3>r, <2>2, <1>6 DEF Turned
      <3>3. r # <<>>
        BY <3>2, OneElement
      <3>4. f \in Runs(e) /\ f.calls = r
        BY <3>3, <3>r, <3>f DEF Turned, Stepped, Block
      <3>5. \A z \in Range(a.calls) : z \in Range(f.calls) \/ z = Call(b)
        BY <3>1, <3>4, <3>r, <2>2 DEF Turned
      <3> QED
        BY <3>2, <3>4, <3>5, <2>2
    <2> QED
      BY <2>1, <2>2
  <1>7. ASSUME NEW s \in Streams, PathsToDo(d, s), x # m_allPathsDoneGroup(s)
        PROVE  PathsToDo(e, s) \/ (Call(b).call = "startPaths" /\ Call(b).stream = s)
    <2>1. CASE Waiting(d, m_allPathsDoneGroup(s)) # <<>>
      BY <2>1, <1>5, <1>7 DEF PathsToDo
    <2>2. CASE \E c \in Now(d) : c.call = "startPaths" /\ c.stream = s
      BY <2>2, <1>2, <1>3 DEF PathsToDo
    <2> QED
      BY <2>1, <2>2, <1>7 DEF PathsToDo
  <1>8. ASSUME NEW v, NEW n, WaitsFor(d, v, n), x # m_group(n)
        PROVE  WaitsFor(e, v, n) \/ Call(b) = awaitProducer(v, n) \/ Call(b) = wait(m_group(n))
    <2>1. CASE awaitProducer(v, n) \in Now(d)
      <3>1. awaitProducer(v, n).call = "awaitProducer"
        BY DEF awaitProducer
      <3> QED
        BY <2>1, <3>1, <1>2, <1>3 DEF WaitsFor
    <2>2. CASE \E z \in Range(Waiting(d, m_group(n))) : z.block[1] = leave(prefetchGroup(v))
      BY <2>2, <1>4, <1>8 DEF WaitsFor
    <2>3. CASE \E a \in Runs(d) : wait(m_group(n)) \in Range(a.calls) /\ Ending(v, Range(a.calls))
      <3>1. PICK a \in Runs(d) : wait(m_group(n)) \in Range(a.calls) /\ Ending(v, Range(a.calls))
        BY <2>3
      <3>2. SUFFICES ASSUME wait(m_group(n)) # Call(b)
                     PROVE  WaitsFor(e, v, n)
        OBVIOUS
      <3>3. PICK f \in Runs(e) : /\ wait(m_group(n)) \in Range(f.calls)
                                 /\ \A z \in Range(a.calls) : z \in Range(f.calls) \/ (a = b /\ z = Call(b))
        BY <3>1, <3>2, <1>6
      <3>4. ASSUME a = b, Call(b) = put(v) \/ Call(b) = filtered(v)
            PROVE  FALSE
        <4>1. Calm(Range(Later(b)))
          BY <3>4, <1>1 DEF Fits, put, filtered
        <4>2. wait(m_group(n)) \in Range(Later(b))
          BY <3>1, <3>2, <3>4, RunningBlock
        <4> QED
          BY <4>1, <4>2 DEF Calm, Reading, wait
      <3>5. Ending(v, Range(f.calls))
        BY <3>1, <3>3, <3>4 DEF Ending
      <3> QED
        BY <3>3, <3>5 DEF WaitsFor
    <2> QED
      BY <2>1, <2>2, <2>3, <1>8 DEF WaitsFor
  <1>9. ASSUME NEW v, IsRequested(d, v), x # prefetchGroup(v)
        PROVE  IsRequested(e, v) \/ (Call(b).call = "notifyPrefetched" /\ Call(b).wrapper = v)
    <2>1. CASE Waiting(d, prefetchGroup(v)) # <<>>
      BY <2>1, <1>5, <1>9 DEF IsRequested
    <2>2. CASE \E c \in Now(d) : c.call = "notifyPrefetched" /\ c.wrapper = v
      BY <2>2, <1>2, <1>3 DEF IsRequested
    <2> QED
      BY <2>1, <2>2, <1>9 DEF IsRequested
  <1>10. ASSUME NEW v, LockAwaited(d, v), Call(b) # wait(Lock(v))
         PROVE  LockAwaited(e, v)
    <2>1. PICK a \in Runs(d) : wait(Lock(v)) \in Range(a.calls)
      BY <1>10 DEF LockAwaited
    <2>2. \E f \in Runs(e) : wait(Lock(v)) \in Range(f.calls)
      BY <2>1, <1>10, <1>6
    <2> QED
      BY <2>2 DEF LockAwaited
  <1> QED
    BY <1>7, <1>8, <1>9, <1>10 DEF Still

-----------------------------------------------------------------------------
(* The steps of libdispatch. *)

\* A group is entered as often more as it will be left more often.
Balanced(d, e) ==
    \A g : IsGroup(g) => Entered(e, g) - Entered(d, g) = Count(e, g) - Count(d, g)

\* No more blocks go on with a stream.
FewerTokens(d, e) == \A s \in Streams : Count(e, StreamToken(s)) <= Count(d, StreamToken(s))

\* Groups still agree.
LEMMA GroupsAfter ==
  ASSUME NEW d, IsGcd(d), Groups(d), NEW e, IsGcd(e), Balanced(d, e)
  PROVE  Groups(e)
  <1>1. ASSUME NEW g, IsGroup(g)
        PROVE  Entered(e, g) = Count(e, g)
    <2>1. Count(d, g) \in Nat /\ Count(e, g) \in Nat /\ Entered(d, g) \in Nat /\ Entered(e, g) \in Nat
      BY CountIsNat, AnyGroup
    <2>2. Entered(d, g) = Count(d, g)
      BY <1>1 DEF Groups
    <2>3. Entered(e, g) - Entered(d, g) = Count(e, g) - Count(d, g)
      BY <1>1 DEF Balanced
    <2> QED
      BY <2>1, <2>2, <2>3
  <1> QED
    BY <1>1 DEF Groups

\* Streams still have one block each to go on with them.
LEMMA TokensAfter ==
  ASSUME NEW d, IsGcd(d), EventLoop(d), Begun(d), NEW e, IsGcd(e), FewerTokens(d, e)
  PROVE  Tokens(e)
  <1>1. ASSUME NEW s \in Streams
        PROVE  Count(e, StreamToken(s)) <= 1 /\ (Owed(e, StreamToken(s)) => Started(s))
    <2>1. Count(d, StreamToken(s)) \in Nat /\ Count(e, StreamToken(s)) \in Nat
      BY CountIsNat
    <2>2. Count(d, StreamToken(s)) <= 1 /\ (Owed(d, StreamToken(s)) => Started(s))
      BY DEF EventLoop, Begun
    <2>3. Count(e, StreamToken(s)) <= Count(d, StreamToken(s))
      BY DEF FewerTokens
    <2>4. Owed(e, StreamToken(s)) => Owed(d, StreamToken(s))
      BY <2>1, <2>3 DEF Owed
    <2> QED
      BY <2>1, <2>2, <2>3, <2>4
  <1> QED
    BY <1>1 DEF Tokens

\* Global is the name of no group.
LEMMA NotGlobal ==
  ASSUME NEW s, NEW w
  PROVE  /\ Global # m_allPathsDoneGroup(s) /\ Global # m_group(w) /\ Global # prefetchGroup(w)
         /\ Global # Lock(w) /\ Global # m_eventLoopGroup /\ Global # s_non_thread_safe_queue
         /\ Global # runQueue(w)
  BY DEF Global, m_allPathsDoneGroup, m_group, prefetchGroup, Lock, m_eventLoopGroup,
         s_non_thread_safe_queue, runQueue

\* Most calls keep all who has something to do.
SpecialCalls == {"startPaths", "awaitProducer", "notifyPrefetched", "wait"}

\* A call that is not special takes nothing from those who wait.
LEMMA FollowsPlain ==
  ASSUME NEW d, NEW b, NEW e, Still(d, b, Global, e), Call(b).call \notin SpecialCalls
  PROVE  Follows(d, e)
  <1>1. /\ Call(b).call # "startPaths" /\ Call(b).call # "notifyPrefetched"
        /\ \A w, n : Call(b) # awaitProducer(w, n)
        /\ \A g : Call(b) # wait(g)
    BY DEF SpecialCalls, awaitProducer, wait
  <1>2. \A s, w : Global # m_allPathsDoneGroup(s) /\ Global # m_group(w) /\ Global # prefetchGroup(w)
    BY NotGlobal
  <1> QED
    BY <1>1, <1>2 DEF Follows, Still

\* A step after which no more is owed than before.
NotMore(d, e) == \A g : IsGroup(g) /\ g # m_eventLoopGroup /\ Owed(e, g) => Owed(d, g)

\* Who owes no more has no new debts.
LEMMA NotMoreDebts ==
  ASSUME NEW d, IsGcd(d), Groups(d), NEW e, IsGcd(e), Groups(e), NotMore(d, e)
  PROVE  NoneAsked(d, e) /\ Debts(d, e)
  <1>1. ASSUME NEW g, IsGroup(g), g # m_eventLoopGroup, Owed(e, g)
        PROVE  Owed(d, g)
    BY <1>1 DEF NotMore
  <1>2. ASSUME NEW w, Works(w), Entered(e, Lock(w)) # 0
        PROVE  Entered(d, Lock(w)) # 0
    <2>1. IsGroup(Lock(w)) /\ Lock(w) # m_eventLoopGroup
      BY <1>2, Names DEF IsGroup
    <2>2. Entered(e, Lock(w)) = Count(e, Lock(w)) /\ Entered(d, Lock(w)) = Count(d, Lock(w))
      BY <2>1 DEF Groups
    <2>3. Count(e, Lock(w)) \in Nat /\ Count(d, Lock(w)) \in Nat
      BY CountIsNat
    <2>4. Owed(e, Lock(w))
      BY <1>2, <2>2, <2>3 DEF Owed
    <2>5. Owed(d, Lock(w))
      BY <2>1, <2>4, <1>1
    <2> QED
      BY <2>2, <2>3, <2>5 DEF Owed
  <1>3. \A s, w : /\ m_eventLoopGroup # m_group(w) /\ m_eventLoopGroup # prefetchGroup(w)
                  /\ m_eventLoopGroup # m_allPathsDoneGroup(s)
    BY Names
  <1>4. NoneAsked(d, e)
    BY <1>1, <1>3 DEF NoneAsked, IsGroup
  <1>5. \A s \in Streams : Owed(e, m_allPathsDoneGroup(s)) => Owed(d, m_allPathsDoneGroup(s))
    BY <1>1, <1>3 DEF IsGroup
  <1>6. \A w : Works(w) /\ Owed(e, prefetchGroup(w)) => Owed(d, prefetchGroup(w))
    BY <1>1, <1>3 DEF IsGroup
  <1> QED
    BY <1>2, <1>4, <1>5, <1>6 DEF Debts

\* What most steps are like.
Plain(d, b, w, t, new, e) ==
    /\ Turned(d, w, b, t, new, e)
    /\ Good(t \o Later(b)) /\ (\A a \in new : Good(a.calls))
    /\ \A h : Waiting(w, h) = Waiting(d, h)
    /\ Balanced(d, e) /\ FewerTokens(d, e)

\* What a plain step keeps by itself.
LEMMA PlainAfter ==
  ASSUME NEW d, Orderly(d), NEW b \in Runs(d), NEW w, NEW t, NEW new, NEW e,
         Plain(d, b, w, t, new, e)
  PROVE  IsGcd(e) /\ Blocks(e) /\ Groups(e) /\ Tokens(e) /\ Still(d, b, Global, e)
  <1> USE DEF Orderly, InOrder
  <1>1. Turned(d, w, b, t, new, e)
    BY DEF Plain
  <1>2. IsGcd(e)
    BY <1>1 DEF Turned, Stepped
  <1>3. Blocks(e)
    BY <1>1, BlocksAfter DEF Plain
  <1>4. Groups(e) /\ Tokens(e)
    BY <1>2, GroupsAfter, TokensAfter DEF Plain
  <1>5. Still(d, b, Global, e)
    <2>1. \A h : h # Global => Range(Waiting(d, h)) \subseteq Range(Waiting(w, h))
      BY DEF Plain
    <2> QED
      BY <2>1, <1>1, StillIs
  <1> QED
    BY <1>2, <1>3, <1>4, <1>5

\* A plain step keeps the order, if the new debts are known to somebody.
LEMMA PlainDebts ==
  ASSUME NEW d, Orderly(d), NEW b \in Runs(d), NEW w, NEW t, NEW new, NEW e,
         Plain(d, b, w, t, new, e), Call(b).call \notin SpecialCalls,
         NoneAsked(d, e), Debts(d, e)
  PROVE  Orderly(e)
  <1>1. IsGcd(e) /\ Blocks(e) /\ Groups(e) /\ Tokens(e) /\ Still(d, b, Global, e)
    BY PlainAfter
  <1>2. Follows(d, e)
    BY <1>1, FollowsPlain
  <1>3. NoneInCircle(e)
    BY <1>2, CircleKept
  <1> QED
    BY <1>1, <1>2, <1>3, OrderlyAfter

\* And so it does if there are none.
LEMMA PlainOrderly ==
  ASSUME NEW d, Orderly(d), NEW b \in Runs(d), NEW w, NEW t, NEW new, NEW e,
         Plain(d, b, w, t, new, e), Call(b).call \notin SpecialCalls, NotMore(d, e)
  PROVE  Orderly(e)
  <1>1. IsGcd(e) /\ Groups(e)
    BY PlainAfter
  <1>2. NoneAsked(d, e) /\ Debts(d, e)
    BY <1>1, NotMoreDebts DEF Orderly, InOrder
  <1> QED
    BY <1>2, PlainDebts

\* Groups are entered, and will be left, as often as before.
SameSums(d, e) ==
    /\ \A g : IsGroup(g) => Entered(e, g) = Entered(d, g) /\ Count(e, g) = Count(d, g)
    /\ \A s \in Streams : Count(e, StreamToken(s)) <= Count(d, StreamToken(s))

\* Sums that are the same are balanced.
LEMMA SameSumsIs ==
  ASSUME NEW d, IsGcd(d), NEW e, IsGcd(e), SameSums(d, e)
  PROVE  Balanced(d, e) /\ FewerTokens(d, e) /\ NotMore(d, e)
  <1>1. \A g : Count(d, g) \in Nat /\ Entered(d, g) \in Nat
    BY CountIsNat, AnyGroup
  <1>2. Balanced(d, e)
    <2>1. ASSUME NEW g, IsGroup(g)
          PROVE  Entered(e, g) - Entered(d, g) = Count(e, g) - Count(d, g)
      <3>1. Entered(e, g) = Entered(d, g) /\ Count(e, g) = Count(d, g)
        BY <2>1 DEF SameSums
      <3> QED
        BY <3>1, <1>1
    <2> QED
      BY <2>1 DEF Balanced
  <1>3. NotMore(d, e)
    BY DEF NotMore, Owed, SameSums
  <1> QED
    BY <1>2, <1>3 DEF SameSums, FewerTokens

\* What the queues and groups are asked to do.
AsyncEffect(d, q, c, w) ==
    /\ Adds(d, w, {Block(q, <<c>>)})
    /\ \A x : Count(w, x) = Count(d, x) + One(c, x)
    /\ \A h : Entered(w, h) = Entered(d, h)
    /\ \A h : Waiting(w, h) = Waiting(d, h)

\* What dispatch_async of one call does, in whatever queue.
LEMMA AsyncIs ==
  ASSUME NEW d, IsGcd(d), NEW q, NEW c, NEW w, w = dispatch_async(d, q, <<c>>)
  PROVE  AsyncEffect(d, q, c, w)
  <1>s. PICK s : s = <<c>>
    OBVIOUS
  <1>1. IsOne(s) /\ IsSeq(s) /\ s # <<>> /\ s[1] = c /\ \A x : N(s, x) = One(c, x)
    BY <1>s, OneElement, NOne DEF IsOne
  <1>2. w = dispatch_async(d, q, s)
    BY <1>s
  <1>3. CASE q = Global
    <2>1. ForkEffect(d, s, w)
      BY <1>1, <1>2, <1>3, ForkIs
    <2>2. Adds(d, w, {Block(Global, s)})
      BY <2>1, ForkAdds
    <2> QED
      BY <2>1, <2>2, <1>1, <1>3, <1>s DEF ForkEffect, AsyncEffect
  <1>4. CASE q # Global
    <2>1. EnqueueEffect(d, q, s, w)
      BY <1>1, <1>2, <1>4, EnqueueIs
    <2>2. Adds(d, w, {Block(q, s)})
      BY <2>1, EnqueueAdds
    <2> QED
      BY <2>1, <2>2, <1>1, <1>s DEF EnqueueEffect, AsyncEffect
  <1> QED
    BY <1>3, <1>4

\* The same in a group.
GroupAsyncEffect(d, g, c, w) ==
    /\ Adds(d, w, {Block(Global, <<c>> \o <<leave(g)>>)})
    /\ \A x : Count(w, x) = Count(d, x) + One(c, x) + (IF x = g THEN 1 ELSE 0)
    /\ \A h : Entered(w, h) = Entered(d, h) + (IF h = g THEN 1 ELSE 0)
    /\ \A h : Waiting(w, h) = Waiting(d, h)

\* What dispatch_group_async of one call does.
LEMMA GroupAsyncIs ==
  ASSUME NEW d, IsGcd(d), NEW g, NEW c, NEW w, w = dispatch_group_async(d, g, Global, <<c>>)
  PROVE  GroupAsyncEffect(d, g, c, w)
  <1>s. PICK s : s = <<c>> \o <<leave(g)>>
    OBVIOUS
  <1>o. PICK o : o = dispatch_group_enter(d, g)
    OBVIOUS
  <1>1. IsSeq(<<c>>) /\ IsSeq(<<leave(g)>>)
    BY OneElement
  <1>2. IsSeq(s) /\ s # <<>> /\ s = Append(<<c>>, leave(g))
    BY <1>1, <1>s, Cons, AppendIs
  <1>3. \A x : N(s, x) = One(c, x) + (IF x = g THEN 1 ELSE 0)
    <2>1. ASSUME NEW x
          PROVE  N(s, x) = One(c, x) + (IF x = g THEN 1 ELSE 0)
      <3>1. N(s, x) = One(c, x) + N(<<leave(g)>>, x)
        BY <1>1, <1>s, NCons
      <3>2. N(<<leave(g)>>, x) = One(leave(g), x)
        BY NOne
      <3>3. One(leave(g), x) = IF x = g THEN 1 ELSE 0
        BY Costs DEF leave
      <3> QED
        BY <3>1, <3>2, <3>3
    <2> QED
      BY <2>1
  <1>4. EnterEffect(d, g, o)
    BY <1>o, EnterIs
  <1>5. IsGcd(o) /\ Adds(d, o, {})
    BY <1>4, EnterAdds DEF EnterEffect
  <1>6. ForkEffect(o, s, w)
    <2>1. w = dispatch_async(o, Global, s)
      BY <1>2, <1>o DEF dispatch_group_async
    <2> QED
      BY <2>1, <1>2, <1>5, ForkIs
  <1>7. Adds(o, w, {Block(Global, s)})
    BY <1>5, <1>6, ForkAdds
  <1>8. Adds(d, w, {Block(Global, s)})
    BY <1>5, <1>7, AddsThen
  <1>9. \A x : One(c, x) \in {0, 1} /\ Count(d, x) \in Nat
    BY Costs, CountIsNat
  <1>10. \A x : Count(w, x) = Count(d, x) + One(c, x) + (IF x = g THEN 1 ELSE 0)
    <2>1. \A x : Count(w, x) = Count(o, x) + N(s, x)
      BY <1>6 DEF ForkEffect
    <2>2. \A x : Count(o, x) = Count(d, x)
      BY <1>4 DEF EnterEffect
    <2> QED
      BY <2>1, <2>2, <1>3, <1>9
  <1> QED
    BY <1>4, <1>6, <1>8, <1>10, <1>s DEF GroupAsyncEffect, EnterEffect, ForkEffect

\* Nothing to be done first.
LEMMA TurnedNone ==
  ASSUME NEW d, IsGcd(d), NEW b \in Runs(d), NEW w, NEW new, Adds(d, w, new),
         NEW e, e = GoOn(w, b, Later(b))
  PROVE  Turned(d, w, b, <<>>, new, e) /\ <<>> \o Later(b) = Later(b) /\ \A x : N(<<>>, x) = 0
  <1>1. <<>> \o Later(b) = Later(b) /\ IsSeq(<<>>)
    BY RunningBlock, ConcatCons, OneElement
  <1>2. e = GoOn(w, b, <<>> \o Later(b))
    BY <1>1
  <1> QED
    BY <1>1, <1>2, TurnedIs, NOne

\* One call to be made first.
LEMMA TurnedOne ==
  ASSUME NEW d, IsGcd(d), Blocks(d), NEW b \in Runs(d), NEW w, NEW new, Adds(d, w, new),
         NEW c, Fits(c, Range(Later(b))), NEW e, e = GoOn(w, b, <<c>> \o Later(b))
  PROVE  /\ Turned(d, w, b, <<c>>, new, e) /\ Good(<<c>> \o Later(b))
         /\ \A x : N(<<c>>, x) = One(c, x)
  <1>1. IsSeq(<<c>>) /\ \A x : N(<<c>>, x) = One(c, x)
    BY OneElement, NOne
  <1>2. Turned(d, w, b, <<c>>, new, e)
    BY <1>1, TurnedIs
  <1>3. Good(<<c>> \o Later(b))
    BY HeadFits, RunningBlock, GoodCons
  <1> QED
    BY <1>1, <1>2, <1>3

\* Blocks of one call, and of one that is followed by leave.
LEMMA GoodBlock ==
  ASSUME NEW q, NEW c
  PROVE  /\ Fits(c, {}) => \A a \in {Block(q, <<c>>)} : Good(a.calls)
         /\ \A g : IsGroup(g) /\ Fits(c, {leave(g)}) =>
               \A a \in {Block(q, <<c>> \o <<leave(g)>>)} : Good(a.calls)
  <1>1. \A s : \A a \in {Block(q, s)} : a.calls = s
    BY DEF Block
  <1>2. Fits(c, {}) => Good(<<c>>)
    BY GoodOne
  <1>3. ASSUME NEW g, IsGroup(g), Fits(c, {leave(g)})
        PROVE  Good(<<c>> \o <<leave(g)>>)
    <2>1. IsSeq(<<leave(g)>>) /\ Range(<<leave(g)>>) = {leave(g)}
      BY OneElement
    <2>2. Good(<<leave(g)>>)
      BY <1>3, FitsLeave, GoodOne
    <2> QED
      BY <2>1, <2>2, <1>3, GoodCons
  <1> QED
    BY <1>1, <1>2, <1>3

-----------------------------------------------------------------------------
(* Steps that keep all in order. *)

\* Calls t, and what has been done, owe what the call of b owed.
Even(d, b, w, t) ==
    /\ \A g : IsGroup(g) => /\ Entered(w, g) = Entered(d, g)
                            /\ Count(w, g) + N(t, g) = Count(d, g) + One(Call(b), g)
    /\ \A s \in Streams : Count(w, StreamToken(s)) + N(t, StreamToken(s)) <=
                             Count(d, StreamToken(s)) + One(Call(b), StreamToken(s))

\* A step that keeps the order: what is owed moves from one call to others.
LEMMA Ordinary ==
  ASSUME NEW d, Orderly(d), NEW b \in Runs(d), NEW w, IsGcd(w), NEW t, IsSeq(t), NEW new, NEW e,
         Turned(d, w, b, t, new, e), Good(t \o Later(b)), \A a \in new : Good(a.calls),
         \A h : Waiting(w, h) = Waiting(d, h), Even(d, b, w, t),
         Call(b).call \notin SpecialCalls
  PROVE  Orderly(e)
  <1>1. IsGcd(d) /\ IsGcd(e)
    BY DEF Orderly, InOrder, Turned, Stepped
  <1>2. \A x : /\ Count(d, x) \in Nat /\ Count(w, x) \in Nat /\ N(t, x) \in Nat
               /\ One(Call(b), x) \in {0, 1}
    BY <1>1, CountIsNat, FinitelyOwing, Costs
  <1>3. \A x : Count(e, x) = Count(w, x) - One(Call(b), x) + N(t, x)
    BY DEF Turned
  <1>4. SameSums(d, e)
    <2>1. ASSUME NEW g, IsGroup(g)
          PROVE  Entered(e, g) = Entered(d, g) /\ Count(e, g) = Count(d, g)
      <3>1. Entered(w, g) = Entered(d, g) /\ Count(w, g) + N(t, g) = Count(d, g) + One(Call(b), g)
        BY <2>1 DEF Even
      <3>2. Entered(e, g) = Entered(w, g)
        BY DEF Turned
      <3> QED
        BY <3>1, <3>2, <1>2, <1>3
    <2>2. ASSUME NEW s \in Streams
          PROVE  Count(e, StreamToken(s)) <= Count(d, StreamToken(s))
      <3>1. Count(w, StreamToken(s)) + N(t, StreamToken(s)) <=
               Count(d, StreamToken(s)) + One(Call(b), StreamToken(s))
        BY DEF Even
      <3> QED
        BY <3>1, <1>2, <1>3
    <2> QED
      BY <2>1, <2>2 DEF SameSums
  <1>5. Balanced(d, e) /\ FewerTokens(d, e) /\ NotMore(d, e)
    BY <1>1, <1>4, SameSumsIs
  <1>6. Plain(d, b, w, t, new, e)
    BY <1>5 DEF Plain
  <1> QED
    BY <1>5, <1>6, PlainOrderly

\* A state in which groups and calls are as before.
SameGroups(d, w) ==
    /\ Adds(d, w, {})
    /\ \A x : Count(w, x) = Count(d, x)
    /\ \A h : Entered(w, h) = Entered(d, h)
    /\ \A h : Waiting(w, h) = Waiting(d, h)

\* Nothing changed, or a queue suspended or resumed.
LEMMA SameGroupsIs ==
  ASSUME NEW d, IsGcd(d)
  PROVE  /\ SameGroups(d, d)
         /\ \A q, n, w : SuspendedEffect(d, q, n, w) => SameGroups(d, w)
  BY AddsRefl, SuspendedAdds DEF SameGroups, SuspendedEffect

\* Calls that owe nothing to groups and streams.
OweNothing == {"resume", "reads", "syncGet", "sync", "filtered", "put", "ran", "produceImpl"}

\* The calls that owe no group owe none.
LEMMA OwesNothing ==
  ASSUME NEW c, c.call \in OweNothing \cup {"count"}, NEW g, NEW S, Fits(c, S)
  PROVE  /\ IsGroup(g) => One(c, g) = 0
         /\ \A s : One(c, StreamToken(s)) >= 0
         /\ One(c, g) \in {0, 1}
  <1>1. One(c, g) \in {0, 1} /\ \A s : One(c, StreamToken(s)) \in {0, 1}
    BY Costs
  <1>2. ASSUME IsGroup(g)
        PROVE  One(c, g) = 0
    <2>1. CASE c.call = "resume"
      <3>1. One(c, g) = IF g = c.queue THEN 1 ELSE 0
        BY <2>1, Costs
      <3>2. c.queue = s_non_thread_safe_queue \/ \E y, z : c.queue = <<"run", y, z>>
        BY <2>1 DEF Fits
      <3>3. g # c.queue
        BY <3>2, <1>2, QueueNames
      <3> QED
        BY <3>1, <3>3
    <2>2. CASE c.call = "count"
      <3>1. One(c, g) = IF g = StreamToken(c.stream) THEN 1 ELSE 0
        BY <2>2, Costs
      <3>2. g # StreamToken(c.stream)
        BY <1>2, Names DEF IsGroup
      <3> QED
        BY <3>1, <3>2
    <2>3. CASE c.call \in OweNothing \ {"resume"}
      BY <2>3, Costs DEF OweNothing, Reading
    <2> QED
      BY <2>1, <2>2, <2>3
  <1> QED
    BY <1>1, <1>2

\* A block goes on after one of them.
LEMMA GoesOn ==
  ASSUME NEW d, Orderly(d), NEW b \in Runs(d), Call(b).call \in OweNothing \cup {"count"},
         NEW w, SameGroups(d, w), NEW e, e = GoOn(w, b, Later(b))
  PROVE  Orderly(e)
  <1>1. IsGcd(d) /\ IsGcd(w) /\ Adds(d, w, {}) /\ Blocks(d)
    BY DEF SameGroups, Adds, Orderly, InOrder
  <1>n. PICK new : new = {}
    OBVIOUS
  <1>2. /\ Turned(d, w, b, <<>>, new, e) /\ <<>> \o Later(b) = Later(b)
        /\ \A x : N(<<>>, x) = 0
    BY <1>1, <1>n, TurnedNone
  <1>3. Fits(Call(b), Range(Later(b))) /\ Good(Later(b)) /\ Good(<<>> \o Later(b))
    BY <1>1, <1>2, HeadFits
  <1>4. \A g : /\ IsGroup(g) => One(Call(b), g) = 0
               /\ \A s : One(Call(b), StreamToken(s)) >= 0
               /\ One(Call(b), g) \in {0, 1}
    BY <1>3, OwesNothing
  <1>5. \A x : Count(d, x) \in Nat
    BY <1>1, CountIsNat
  <1>6. Even(d, b, w, <<>>)
    <2>1. \A g : IsGroup(g) => /\ Entered(w, g) = Entered(d, g)
                               /\ Count(w, g) + N(<<>>, g) = Count(d, g) + One(Call(b), g)
      BY <1>2, <1>4, <1>5 DEF SameGroups
    <2>2. \A s \in Streams : Count(w, StreamToken(s)) + N(<<>>, StreamToken(s)) <=
                               Count(d, StreamToken(s)) + One(Call(b), StreamToken(s))
      BY <1>2, <1>4, <1>5 DEF SameGroups
    <2> QED
      BY <2>1, <2>2 DEF Even
  <1>7. Call(b).call \notin SpecialCalls /\ IsSeq(<<>>)
    BY OneElement DEF OweNothing, SpecialCalls
  <1>8. \A h : Waiting(w, h) = Waiting(d, h)
    BY DEF SameGroups
  <1>9. \A a \in new : Good(a.calls)
    BY <1>n
  <1> QED
    BY <1>1, <1>2, <1>3, <1>6, <1>7, <1>8, <1>9, Ordinary

\* What is submitted may be a block of its own.
LEMMA SubmittedFits ==
  ASSUME NEW c, IsSubmitted(c)
  PROVE  Fits(c, {})
  <1>1. CASE \E s \in Streams : c = scheduleDone(s)
    BY <1>1, FitsScheduleDone
  <1>2. CASE \E w : Works(w) /\ c = leave(prefetchGroup(w))
    BY <1>2, FitsLeave DEF IsGroup
  <1>3. CASE c.call \in {"work", "suspendOwn"} /\ IsJob(c)
    <2>1. c = Job(c.call, c.wrapper, c.at) /\ HasJob(c.wrapper, c.at) /\ c.call \in JobCalls
      BY <1>3 DEF IsJob, JobCalls
    <2>2. Calm({})
      BY DEF Calm
    <2>3. Fits(Job(c.call, c.wrapper, c.at), {})
      BY <2>1, <2>2, <1>3, FitsJob
    <2> QED
      BY <2>1, <2>3
  <1> QED
    BY <1>1, <1>2, <1>3 DEF IsSubmitted

\* A block goes on after a call that has been replaced by another.
LEMMA Replaces ==
  ASSUME NEW d, Orderly(d), NEW b \in Runs(d), Call(b).call \notin SpecialCalls,
         NEW w, SameGroups(d, w), NEW c, Fits(c, Range(Later(b))),
         \A g : IsGroup(g) => One(c, g) = One(Call(b), g),
         \A s \in Streams : One(c, StreamToken(s)) <= One(Call(b), StreamToken(s)),
         NEW e, e = GoOn(w, b, <<c>> \o Later(b))
  PROVE  Orderly(e)
  <1>1. IsGcd(d) /\ IsGcd(w) /\ Adds(d, w, {}) /\ Blocks(d)
    BY DEF SameGroups, Adds, Orderly, InOrder
  <1>n. PICK new : new = {}
    OBVIOUS
  <1>t. PICK t : t = <<c>>
    OBVIOUS
  <1>2. /\ Turned(d, w, b, t, new, e) /\ Good(t \o Later(b))
        /\ \A x : N(t, x) = One(c, x)
    BY <1>1, <1>n, <1>t, TurnedOne
  <1>4. \A x : Count(d, x) \in Nat /\ One(c, x) \in {0, 1} /\ One(Call(b), x) \in {0, 1}
    BY <1>1, CountIsNat, Costs
  <1>6. Even(d, b, w, t)
    <2>1. \A g : IsGroup(g) => /\ Entered(w, g) = Entered(d, g)
                               /\ Count(w, g) + N(t, g) = Count(d, g) + One(Call(b), g)
      BY <1>2, <1>4 DEF SameGroups
    <2>2. \A s \in Streams : Count(w, StreamToken(s)) + N(t, StreamToken(s)) <=
                               Count(d, StreamToken(s)) + One(Call(b), StreamToken(s))
      BY <1>2, <1>4 DEF SameGroups
    <2> QED
      BY <2>1, <2>2 DEF Even
  <1>7. IsSeq(t)
    BY <1>t, OneElement
  <1>8. \A h : Waiting(w, h) = Waiting(d, h)
    BY DEF SameGroups
  <1>9. \A a \in new : Good(a.calls)
    BY <1>n
  <1> QED
    BY <1>1, <1>2, <1>6, <1>7, <1>8, <1>9, Ordinary

\* A block goes on after it has submitted one of a call that owes the same.
LEMMA HandsOn ==
  ASSUME NEW d, Orderly(d), NEW b \in Runs(d), Call(b).call \notin SpecialCalls,
         NEW o, SameGroups(d, o), NEW q, NEW c, Fits(c, {}),
         \A g : IsGroup(g) => One(c, g) = One(Call(b), g),
         \A s \in Streams : One(c, StreamToken(s)) <= One(Call(b), StreamToken(s)),
         NEW e, e = GoOn(dispatch_async(o, q, <<c>>), b, Later(b))
  PROVE  Orderly(e)
  <1>1. IsGcd(d) /\ Blocks(d) /\ IsGcd(o) /\ Adds(d, o, {})
    BY DEF SameGroups, Adds, Orderly, InOrder
  <1>2. Fits(Call(b), Range(Later(b))) /\ Good(Later(b))
    BY <1>1, HeadFits
  <1>w. PICK w : w = dispatch_async(o, q, <<c>>)
    OBVIOUS
  <1>4. AsyncEffect(o, q, c, w)
    BY <1>1, <1>w, AsyncIs
  <1>n. PICK new : new = {Block(q, <<c>>)}
    OBVIOUS
  <1>5. Adds(d, w, new) /\ IsGcd(w)
    <2>1. Adds(o, w, new)
      BY <1>4, <1>n DEF AsyncEffect
    <2>2. Adds(d, w, new)
      BY <2>1, <1>1, AddsThen
    <2> QED
      BY <2>2 DEF Adds
  <1>t. PICK t : t = <<>>
    OBVIOUS
  <1>7. /\ Turned(d, w, b, t, new, e) /\ t \o Later(b) = Later(b)
        /\ \A x : N(t, x) = 0
    BY <1>1, <1>5, <1>w, <1>t, TurnedNone
  <1>8. Good(t \o Later(b))
    BY <1>2, <1>7
  <1>9. \A a \in new : Good(a.calls)
    BY <1>n, GoodBlock
  <1>10. \A x : One(Call(b), x) \in {0, 1} /\ One(c, x) \in {0, 1} /\ Count(d, x) \in Nat
    BY <1>1, Costs, CountIsNat
  <1>11. Even(d, b, w, t)
    <2>1. \A x : Count(w, x) = Count(d, x) + One(c, x) /\ Entered(w, x) = Entered(d, x)
      BY <1>4 DEF AsyncEffect, SameGroups
    <2>2. \A g : IsGroup(g) => /\ Entered(w, g) = Entered(d, g)
                               /\ Count(w, g) + N(t, g) = Count(d, g) + One(Call(b), g)
      BY <2>1, <1>7, <1>10
    <2>3. \A s \in Streams : Count(w, StreamToken(s)) + N(t, StreamToken(s)) <=
                               Count(d, StreamToken(s)) + One(Call(b), StreamToken(s))
      BY <2>1, <1>7, <1>10
    <2> QED
      BY <2>2, <2>3 DEF Even
  <1>12. IsSeq(t)
    BY <1>t, OneElement
  <1>13. \A h : Waiting(w, h) = Waiting(d, h)
    BY <1>4 DEF AsyncEffect, SameGroups
  <1> QED
    BY <1>5, <1>7, <1>8, <1>9, <1>11, <1>12, <1>13, Ordinary

\* What is submitted runs or waits in a queue.
LEMMA SubmitOrderly ==
  ASSUME NEW d, Orderly(d), NEW b \in Runs(d), Call(b).call = "submit",
         NEW e, e = GoOn(dispatch_async(d, Call(b).queue, Call(b).block), b, Later(b))
  PROVE  Orderly(e)
  <1>1. IsGcd(d) /\ Blocks(d)
    BY DEF Orderly, InOrder
  <1>2. Fits(Call(b), Range(Later(b)))
    BY <1>1, HeadFits
  <1>q. PICK q : q = Call(b).queue
    OBVIOUS
  <1>c. PICK c : c = Call(b).block[1]
    OBVIOUS
  <1>3. Call(b) = submit(q, <<c>>) /\ IsSubmitted(c) /\ Call(b).block = <<c>>
    BY <1>2, <1>q, <1>c DEF Fits, submit
  <1>4. e = GoOn(dispatch_async(d, q, <<c>>), b, Later(b))
    BY <1>q, <1>3
  <1>5. Fits(c, {})
    BY <1>3, SubmittedFits
  <1>6. \A x : One(Call(b), x) = One(c, x) /\ One(c, x) \in {0, 1}
    <2>1. c.call # "submit"
      BY <1>3 DEF IsSubmitted, scheduleDone, leave
    <2> QED
      BY <2>1, <1>c, Costs
  <1>7. \A s \in Streams : One(c, StreamToken(s)) <= One(Call(b), StreamToken(s))
    BY <1>6
  <1>8. Call(b).call \notin SpecialCalls /\ SameGroups(d, d)
    BY <1>1, SameGroupsIs DEF SpecialCalls
  <1> QED
    BY <1>4, <1>5, <1>6, <1>7, <1>8, HandsOn

-----------------------------------------------------------------------------
(* The event loop and the paths. *)

\* Event::reset keeps the order.
LEMMA ResetOrderly ==
  ASSUME NEW d, Orderly(d), NEW b \in Runs(d), Call(b).call = "event", NEW k \in Nat,
         NEW e, e = GoOn(d, b, <<count(Call(b).stream, k)>> \o Later(b))
  PROVE  Orderly(e)
  <1>1. IsGcd(d) /\ Blocks(d) /\ SameGroups(d, d)
    BY SameGroupsIs DEF Orderly, InOrder
  <1>2. Call(b).stream \in Streams
    BY <1>1, HeadFits DEF Fits
  <1>c. PICK c : c = count(Call(b).stream, k)
    OBVIOUS
  <1>3. Fits(c, Range(Later(b))) /\ c.call = "count" /\ c.stream = Call(b).stream
    BY <1>c, <1>2, FitsCount DEF count
  <1>4. \A x : One(c, x) = One(Call(b), x) /\ One(c, x) \in {0, 1}
    BY <1>3, Costs
  <1>5. \A s \in Streams : One(c, StreamToken(s)) <= One(Call(b), StreamToken(s))
    BY <1>4
  <1>6. Call(b).call \notin SpecialCalls
    BY DEF SpecialCalls
  <1> QED
    BY <1>1, <1>3, <1>4, <1>5, <1>6, <1>c, Replaces

\* A group is entered by a call that is replaced by one that leaves it.
LEMMA EntersFor ==
  ASSUME NEW d, Orderly(d), NEW b \in Runs(d), Call(b).call \notin SpecialCalls,
         NEW g, g = m_eventLoopGroup \/ Owed(d, g), NEW c, Fits(c, Range(Later(b))),
         \A x : One(c, x) = One(Call(b), x) + (IF x = g THEN 1 ELSE 0),
         \A s : g # StreamToken(s),
         NEW e, e = GoOn(dispatch_group_enter(d, g), b, <<c>> \o Later(b))
  PROVE  Orderly(e)
  <1>1. IsGcd(d) /\ Blocks(d)
    BY DEF Orderly, InOrder
  <1>w. PICK w : w = dispatch_group_enter(d, g)
    OBVIOUS
  <1>4. EnterEffect(d, g, w)
    BY <1>1, <1>w, EnterIs
  <1>n. PICK new : new = {}
    OBVIOUS
  <1>5. Adds(d, w, new) /\ IsGcd(w)
    BY <1>1, <1>4, <1>n, EnterAdds DEF EnterEffect
  <1>t. PICK t : t = <<c>>
    OBVIOUS
  <1>6. /\ Turned(d, w, b, t, new, e) /\ Good(t \o Later(b))
        /\ \A x : N(t, x) = One(c, x)
    BY <1>1, <1>5, <1>t, <1>w, TurnedOne
  <1>8. \A x : /\ Count(d, x) \in Nat /\ Entered(d, x) \in Nat
               /\ Count(e, x) = Count(d, x) + (IF x = g THEN 1 ELSE 0)
               /\ Entered(e, x) = Entered(d, x) + (IF x = g THEN 1 ELSE 0)
    <2>1. \A x : Count(d, x) \in Nat /\ Entered(d, x) \in Nat /\ One(Call(b), x) \in {0, 1}
      BY <1>1, CountIsNat, AnyGroup, Costs
    <2>2. \A x : Count(e, x) = Count(d, x) - One(Call(b), x) + One(c, x)
      BY <1>4, <1>6 DEF Turned, EnterEffect
    <2>3. \A x : Entered(e, x) = Entered(d, x) + (IF x = g THEN 1 ELSE 0)
      BY <1>4, <1>6 DEF Turned, EnterEffect
    <2> QED
      BY <2>1, <2>2, <2>3
  <1>10. Balanced(d, e)
    BY <1>8 DEF Balanced
  <1>11. FewerTokens(d, e)
    <2>2. \A s : Count(e, StreamToken(s)) <= Count(d, StreamToken(s))
      BY <1>8
    <2> QED
      BY <2>2 DEF FewerTokens
  <1>12. NotMore(d, e)
    BY <1>8 DEF NotMore, Owed
  <1>13. Plain(d, b, w, t, new, e)
    <2>1. \A a \in new : Good(a.calls)
      BY <1>n
    <2>2. \A h : Waiting(w, h) = Waiting(d, h)
      BY <1>4 DEF EnterEffect
    <2> QED
      BY <2>1, <2>2, <1>6, <1>10, <1>11 DEF Plain
  <1> QED
    BY <1>12, <1>13, PlainOrderly

\* An event that is taken.
LEMMA TakeOrderly ==
  ASSUME NEW d, Orderly(d), NEW b \in Runs(d), Call(b).call = "count",
         NEW c, c \in {scheduleDone(Call(b).stream), startPaths(Call(b).stream, 1)},
         NEW e, e = GoOn(dispatch_group_enter(d, m_eventLoopGroup), b, <<c>> \o Later(b))
  PROVE  Orderly(e)
  <1>1. IsGcd(d) /\ Blocks(d)
    BY DEF Orderly, InOrder
  <1>2. Call(b).stream \in Streams
    BY <1>1, HeadFits DEF Fits
  <1>3. /\ Fits(c, Range(Later(b))) /\ c.call \in {"scheduleDone", "startPaths"}
        /\ c.stream = Call(b).stream
    BY <1>2, FitsScheduleDone, FitsStartPaths DEF scheduleDone, startPaths
  <1>4. \A s : m_eventLoopGroup # StreamToken(s)
    BY Names
  <1>5. \A x : One(c, x) = One(Call(b), x) + (IF x = m_eventLoopGroup THEN 1 ELSE 0)
    <2>1. \A x : /\ One(c, x) = IF x = m_eventLoopGroup \/ x = StreamToken(c.stream) THEN 1 ELSE 0
                 /\ One(Call(b), x) = IF x = StreamToken(c.stream) THEN 1 ELSE 0
      BY <1>3, Costs
    <2> QED
      BY <2>1, <1>4
  <1>6. Call(b).call \notin SpecialCalls
    BY DEF SpecialCalls
  <1> QED
    BY <1>3, <1>4, <1>5, <1>6, EntersFor

\* The next event of a stream, or its first.
LEMMA AnotherEventIs ==
  ASSUME NEW d, IsGcd(d), NEW s \in Streams, NEW w, w = AnotherEvent(d, s)
  PROVE  /\ IsGcd(w) /\ Adds(d, w, {Block(Global, <<event(s)>> \o <<leave(m_eventLoopGroup)>>)})
         /\ \A x : Count(w, x) = Count(d, x) + (IF x = m_eventLoopGroup \/ x = StreamToken(s) THEN 1 ELSE 0)
         /\ \A h : Entered(w, h) = Entered(d, h) + (IF h = m_eventLoopGroup THEN 1 ELSE 0)
         /\ \A h : Waiting(w, h) = Waiting(d, h)
         /\ \A a \in {Block(Global, <<event(s)>> \o <<leave(m_eventLoopGroup)>>)} : Good(a.calls)
  <1>c. PICK c : c = event(s)
    OBVIOUS
  <1>1. GroupAsyncEffect(d, m_eventLoopGroup, c, w)
    BY <1>c, GroupAsyncIs DEF AnotherEvent
  <1>2. \A x : One(c, x) = IF x = StreamToken(s) THEN 1 ELSE 0
    BY <1>c, Costs DEF event
  <1>3. \A x : Count(w, x) = Count(d, x) + (IF x = m_eventLoopGroup \/ x = StreamToken(s) THEN 1 ELSE 0)
    <2>1. m_eventLoopGroup # StreamToken(s)
      BY Names
    <2>2. \A x : Count(w, x) = Count(d, x) + One(c, x) + (IF x = m_eventLoopGroup THEN 1 ELSE 0)
      BY <1>1 DEF GroupAsyncEffect
    <2>3. \A x : Count(d, x) \in Nat
      BY CountIsNat
    <2> QED
      BY <2>1, <2>2, <2>3, <1>2
  <1>4. \A a \in {Block(Global, <<c>> \o <<leave(m_eventLoopGroup)>>)} : Good(a.calls)
    <2>1. Fits(c, {leave(m_eventLoopGroup)}) /\ IsGroup(m_eventLoopGroup)
      BY <1>c, FitsEvent DEF IsGroup
    <2> QED
      BY <2>1, GoodBlock
  <1> QED
    BY <1>1, <1>3, <1>4, <1>c DEF GroupAsyncEffect, Adds

\* So does the end of a Schedule: another event is begun.
LEMMA ScheduleDoneOrderly ==
  ASSUME NEW d, Orderly(d), NEW b \in Runs(d), Call(b).call = "scheduleDone",
         NEW e, e = GoOn(AnotherEvent(d, Call(b).stream), b, <<leave(m_eventLoopGroup)>> \o Later(b))
  PROVE  Orderly(e)
  <1>1. IsGcd(d) /\ Blocks(d)
    BY DEF Orderly, InOrder
  <1>s. PICK s : s = Call(b).stream
    OBVIOUS
  <1>2. s \in Streams
    BY <1>1, <1>s, HeadFits DEF Fits
  <1>w. PICK w : w = AnotherEvent(d, s)
    OBVIOUS
  <1>c. PICK c : c = leave(m_eventLoopGroup)
    OBVIOUS
  <1>n. PICK new : new = {Block(Global, <<event(s)>> \o <<leave(m_eventLoopGroup)>>)}
    OBVIOUS
  <1>t. PICK t : t = <<c>>
    OBVIOUS
  <1>3. /\ IsGcd(w) /\ Adds(d, w, new)
        /\ \A x : Count(w, x) = Count(d, x) + (IF x = m_eventLoopGroup \/ x = StreamToken(s) THEN 1 ELSE 0)
        /\ \A h : Entered(w, h) = Entered(d, h) + (IF h = m_eventLoopGroup THEN 1 ELSE 0)
        /\ \A h : Waiting(w, h) = Waiting(d, h)
        /\ \A a \in new : Good(a.calls)
    BY <1>1, <1>2, <1>w, <1>n, AnotherEventIs
  <1>4. Fits(c, Range(Later(b)))
    BY <1>c, FitsLeave DEF IsGroup
  <1>5. /\ Turned(d, w, b, t, new, e) /\ Good(t \o Later(b))
        /\ \A x : N(t, x) = One(c, x)
    BY <1>1, <1>3, <1>4, <1>c, <1>t, <1>w, <1>s, TurnedOne
  <1>6. \A x : /\ One(c, x) = IF x = m_eventLoopGroup THEN 1 ELSE 0
               /\ One(Call(b), x) = IF x = m_eventLoopGroup \/ x = StreamToken(s) THEN 1 ELSE 0
    BY <1>c, <1>s, Costs DEF leave
  <1>7. \A x : /\ Count(d, x) \in Nat /\ Entered(d, x) \in Nat
               /\ Count(e, x) = Count(d, x) + (IF x = m_eventLoopGroup THEN 1 ELSE 0)
               /\ Entered(e, x) = Entered(d, x) + (IF x = m_eventLoopGroup THEN 1 ELSE 0)
    <2>1. \A x : Count(d, x) \in Nat /\ Entered(d, x) \in Nat
      BY <1>1, CountIsNat, AnyGroup
    <2>2. \A x : Count(e, x) = Count(w, x) - One(Call(b), x) + One(c, x)
      BY <1>5 DEF Turned
    <2>3. \A x : Count(e, x) = Count(d, x) + (IF x = m_eventLoopGroup THEN 1 ELSE 0)
      BY <2>1, <2>2, <1>3, <1>6
    <2>4. \A x : Entered(e, x) = Entered(w, x)
      BY <1>5 DEF Turned
    <2> QED
      BY <2>1, <2>3, <2>4, <1>3
  <1>8. Balanced(d, e)
    BY <1>7 DEF Balanced
  <1>9. \A z : m_eventLoopGroup # StreamToken(z)
    BY Names
  <1>10. FewerTokens(d, e)
    <2>1. \A z : Count(e, StreamToken(z)) <= Count(d, StreamToken(z))
      BY <1>7, <1>9
    <2> QED
      BY <2>1 DEF FewerTokens
  <1>11. NotMore(d, e)
    BY <1>7 DEF NotMore, Owed
  <1>12. Plain(d, b, w, t, new, e)
    BY <1>3, <1>5, <1>8, <1>10 DEF Plain
  <1>13. Call(b).call \notin SpecialCalls
    BY DEF SpecialCalls
  <1> QED
    BY <1>11, <1>12, <1>13, PlainOrderly

-----------------------------------------------------------------------------
(* Paths *)

\* What waits for a group, or is submitted at once when it is empty.
NotedEffect(d, g, q, c, new, w) ==
    /\ Adds(d, w, new) /\ new = (IF Entered(d, g) = 0 THEN {Block(q, <<c>>)} ELSE {})
    /\ \A x : Count(w, x) = Count(d, x) + One(c, x)
    /\ \A h : Entered(w, h) = Entered(d, h)
    /\ \A h : Waiting(w, h) = IF h = g /\ Entered(d, g) # 0
                                THEN Append(Waiting(d, g), submit(q, <<c>>))
                                ELSE Waiting(d, h)

\* What dispatch_group_notify does to a group that is entered.
LEMMA NotedIs ==
  ASSUME NEW d, IsGcd(d), NEW g, NEW q, NEW c, c.call # "submit",
         NEW w, w = dispatch_group_notify(d, g, q, <<c>>),
         NEW new, new = IF Entered(d, g) = 0 THEN {Block(q, <<c>>)} ELSE {}
  PROVE  NotedEffect(d, g, q, c, new, w)
  <1>1. CASE Entered(d, g) = 0
    <2>1. w = dispatch_async(d, q, <<c>>)
      BY <1>1 DEF dispatch_group_notify
    <2>2. AsyncEffect(d, q, c, w)
      BY <2>1, AsyncIs
    <2> QED
      BY <2>2, <1>1 DEF AsyncEffect, NotedEffect
  <1>2. CASE Entered(d, g) # 0
    <2>s. PICK s : s = <<c>>
      OBVIOUS
    <2>1. NoteEffect(d, g, q, s, w)
      BY <2>s, <1>2, NoteIs
    <2>2. Adds(d, w, {})
      BY <2>1, NoteAdds
    <2>3. \A x : One(submit(q, s), x) = One(c, x)
      <3>1. s[1] = c
        BY <2>s
      <3>2. submit(q, s).call = "submit" /\ submit(q, s).block = s
        BY DEF submit
      <3> QED
        BY <3>1, <3>2, Costs
    <2>4. \A x : Count(w, x) = Count(d, x) + One(c, x)
      BY <2>1, <2>3 DEF NoteEffect
    <2>5. \A h : Waiting(w, h) = IF h = g /\ Entered(d, g) # 0
                                THEN Append(Waiting(d, g), submit(q, s)) ELSE Waiting(d, h)
      BY <2>1, <1>2 DEF NoteEffect
    <2>6. \A h : Entered(w, h) = Entered(d, h)
      BY <2>1 DEF NoteEffect
    <2> QED
      BY <2>2, <2>4, <2>5, <2>6, <2>s, <1>2 DEF NotedEffect
  <1> QED
    BY <1>1, <1>2

\* What has been noted for g is all that is new.
NotesAfter(d, b, g, o, e) ==
    /\ IsGcd(e) /\ Blocks(e) /\ Groups(e) /\ Tokens(e) /\ Still(d, b, Global, e)
    /\ NotMore(d, e)
    /\ Owed(e, g) => o \in Range(Waiting(e, g))
    /\ ~Owed(e, g) => Entered(d, g) = 0

\* To wait for a group keeps the order.
LEMMA NotesOrderly ==
  ASSUME NEW d, Orderly(d), NEW b \in Runs(d), NEW g, IsGroup(g), NEW q, NEW c, NEW new, NEW w,
         NotedEffect(d, g, q, c, new, w), IsNoted(g, submit(q, <<c>>)), Fits(c, {}),
         \A x : One(c, x) = One(Call(b), x),
         NEW e, e = GoOn(w, b, Later(b))
  PROVE  NotesAfter(d, b, g, submit(q, <<c>>), e)
  <1>o. PICK o : o = submit(q, <<c>>)
    OBVIOUS
  <1>1. IsGcd(d) /\ Blocks(d) /\ IsGcd(w)
    BY DEF Orderly, InOrder, NotedEffect, Adds
  <1>t. PICK t : t = <<>>
    OBVIOUS
  <1>2. /\ Turned(d, w, b, t, new, e) /\ t \o Later(b) = Later(b)
        /\ \A x : N(t, x) = 0
    BY <1>1, <1>t, TurnedNone DEF NotedEffect
  <1>3. Good(t \o Later(b))
    BY <1>1, <1>2, HeadFits
  <1>4. \A a \in new : Good(a.calls)
    BY GoodBlock DEF NotedEffect
  <1>z. PICK z : z = Append(Waiting(d, g), o)
    OBVIOUS
  <1>5. Range(z) = Range(Waiting(d, g)) \cup {o}
    BY <1>1, <1>z, AnyGroup, AppendIs
  <1>6. \A h : Waiting(w, h) = IF h = g /\ Entered(d, g) # 0 THEN z ELSE Waiting(d, h)
    BY <1>o, <1>z DEF NotedEffect
  <1>7. Blocks(e)
    <2>1. \A h : \A y \in Range(Waiting(w, h)) : y \in Range(Waiting(d, h)) \/ IsNoted(h, y)
      BY <1>5, <1>6, <1>o
    <2> QED
      BY <2>1, <1>1, <1>2, <1>3, <1>4, BlocksAfter
  <1>8. Still(d, b, Global, e)
    <2>1. \A h : h # Global => Range(Waiting(d, h)) \subseteq Range(Waiting(w, h))
      BY <1>5, <1>6
    <2> QED
      BY <2>1, <1>1, <1>2, StillIs
  <1>9. IsGcd(e)
    BY <1>2 DEF Turned, Stepped
  <1>10. \A x : /\ Count(e, x) = Count(d, x) /\ Entered(e, x) = Entered(d, x)
                /\ Count(d, x) \in Nat
    <2>1. \A x : Count(d, x) \in Nat /\ One(c, x) \in {0, 1}
      BY <1>1, CountIsNat, Costs
    <2>2. \A x : Count(e, x) = Count(w, x) - One(Call(b), x) + N(t, x)
      BY <1>2 DEF Turned
    <2>3. \A x : Count(w, x) = Count(d, x) + One(c, x)
      BY DEF NotedEffect
    <2>4. \A x : Count(e, x) = Count(d, x)
      BY <2>1, <2>2, <2>3, <1>2
    <2>5. \A x : Entered(e, x) = Entered(d, x)
      BY <1>2 DEF Turned, NotedEffect
    <2> QED
      BY <2>1, <2>4, <2>5
  <1>11. SameSums(d, e)
    BY <1>10 DEF SameSums
  <1>12. Balanced(d, e) /\ FewerTokens(d, e) /\ NotMore(d, e)
    BY <1>1, <1>9, <1>11, SameSumsIs
  <1>13. Groups(e) /\ Tokens(e)
    BY <1>1, <1>9, <1>12, GroupsAfter, TokensAfter DEF Orderly, InOrder
  <1>14. Entered(d, g) = Count(d, g)
    BY DEF Orderly, InOrder, Groups
  <1>15. ASSUME Owed(e, g)
         PROVE  o \in Range(Waiting(e, g))
    <2>1. Entered(d, g) # 0
      BY <1>10, <1>14, <1>15 DEF Owed
    <2>2. Waiting(e, g) = z
      BY <2>1, <1>2, <1>6 DEF Turned
    <2> QED
      BY <2>2, <1>5
  <1>16. ASSUME ~Owed(e, g)
         PROVE  Entered(d, g) = 0
    BY <1>10, <1>14, <1>16 DEF Owed
  <1> QED
    BY <1>7, <1>8, <1>9, <1>12, <1>13, <1>15, <1>16, <1>o DEF NotesAfter

\* So it does when the group is empty and the block is submitted at once.
LEMMA NotesEnd ==
  ASSUME NEW d, Orderly(d), NEW b, NEW g, NEW o, NEW e, NotesAfter(d, b, g, o, e), Follows(d, e)
  PROVE  Orderly(e)
  <1>1. NoneAsked(d, e) /\ Debts(d, e)
    BY NotMoreDebts DEF NotesAfter, Orderly, InOrder
  <1>2. NoneInCircle(e)
    BY <1>1, CircleKept
  <1> QED
    BY <1>1, <1>2, OrderlyAfter DEF NotesAfter

\* A path is begun in a block of its own.
LEMMA StartPathOrderly ==
  ASSUME NEW d, Orderly(d), NEW b \in Runs(d), Call(b).call = "startPaths",
         Call(b).path \in DOMAIN m_paths,
         NEW e, e = GoOn(dispatch_group_async(d, m_allPathsDoneGroup(Call(b).stream), Global,
                                              <<path(Call(b).stream, Call(b).path)>>), b,
                         <<startPaths(Call(b).stream, Call(b).path + 1)>> \o Later(b))
  PROVE  Orderly(e)
  <1>1. IsGcd(d) /\ Blocks(d)
    BY DEF Orderly, InOrder
  <1>s. PICK s : s = Call(b).stream
    OBVIOUS
  <1>p. PICK p : p = Call(b).path
    OBVIOUS
  <1>2. s \in Streams /\ p \in Nat \ {0} /\ p \in DOMAIN m_paths
    BY <1>1, <1>s, <1>p, HeadFits DEF Fits
  <1>g. PICK g : g = m_allPathsDoneGroup(s)
    OBVIOUS
  <1>x. PICK x : x = path(s, p)
    OBVIOUS
  <1>c. PICK c : c = startPaths(s, p + 1)
    OBVIOUS
  <1>w. PICK w : w = dispatch_group_async(d, g, Global, <<x>>)
    OBVIOUS
  <1>n. PICK new : new = {Block(Global, <<x>> \o <<leave(g)>>)}
    OBVIOUS
  <1>t. PICK t : t = <<c>>
    OBVIOUS
  <1>3. GroupAsyncEffect(d, g, x, w)
    BY <1>1, <1>w, GroupAsyncIs
  <1>4. Adds(d, w, new)
    BY <1>3, <1>n DEF GroupAsyncEffect
  <1>5. Fits(c, Range(Later(b)))
    BY <1>c, <1>2, FitsStartPaths
  <1>6. /\ Turned(d, w, b, t, new, e) /\ Good(t \o Later(b))
        /\ \A y : N(t, y) = One(c, y)
    BY <1>1, <1>4, <1>5, <1>c, <1>t, <1>w, <1>g, <1>x, <1>s, <1>p, TurnedOne
  <1>7. \A a \in new : Good(a.calls)
    <2>1. IsGroup(g)
      BY <1>g, <1>2 DEF IsGroup
    <2>2. Calm({leave(g)})
      BY DEF Calm, Reading, leave
    <2>3. Fits(x, {leave(g)})
      BY <2>2, <1>2, <1>x, <1>g, FitsPath
    <2> QED
      BY <2>1, <2>3, <1>n, GoodBlock
  <1>8. \A y : One(c, y) = One(Call(b), y) /\ One(c, y) \in {0, 1} /\ One(x, y) = 0
    <2>1. c.call = "startPaths" /\ c.stream = s /\ x.call = "path"
      BY <1>c, <1>x DEF startPaths, path
    <2> QED
      BY <2>1, <1>s, Costs
  <1>9. \A y : /\ Count(d, y) \in Nat /\ Entered(d, y) \in Nat
               /\ Count(e, y) = Count(d, y) + (IF y = g THEN 1 ELSE 0)
               /\ Entered(e, y) = Entered(d, y) + (IF y = g THEN 1 ELSE 0)
    <2>1. \A y : Count(d, y) \in Nat /\ Entered(d, y) \in Nat
      BY <1>1, CountIsNat, AnyGroup
    <2>2. \A y : Count(w, y) = Count(d, y) + One(x, y) + (IF y = g THEN 1 ELSE 0)
      BY <1>3 DEF GroupAsyncEffect
    <2>3. \A y : Count(e, y) = Count(w, y) - One(Call(b), y) + One(c, y)
      BY <1>6 DEF Turned
    <2>4. \A y : Count(e, y) = Count(d, y) + (IF y = g THEN 1 ELSE 0)
      BY <2>1, <2>2, <2>3, <1>8
    <2>5. \A y : Entered(e, y) = Entered(d, y) + (IF y = g THEN 1 ELSE 0)
      BY <1>3, <1>6 DEF Turned, GroupAsyncEffect
    <2> QED
      BY <2>1, <2>4, <2>5
  <1>10. Balanced(d, e)
    BY <1>9 DEF Balanced
  <1>11. \A z : g # StreamToken(z)
    BY <1>g, Names
  <1>12. FewerTokens(d, e)
    <2>1. \A z : Count(e, StreamToken(z)) <= Count(d, StreamToken(z))
      BY <1>9, <1>11
    <2> QED
      BY <2>1 DEF FewerTokens
  <1>13. Plain(d, b, w, t, new, e)
    <2>1. \A h : Waiting(w, h) = Waiting(d, h)
      BY <1>3 DEF GroupAsyncEffect
    <2> QED
      BY <2>1, <1>6, <1>7, <1>10, <1>12 DEF Plain
  <1>14. IsGcd(e) /\ Blocks(e) /\ Groups(e) /\ Tokens(e) /\ Still(d, b, Global, e)
    BY <1>13, PlainAfter
  <1>15. PathsToDo(e, s)
    <2>1. Inners(t \o Later(b)) \subseteq Now(e)
      BY <1>1, <1>6, NowHas DEF Turned
    <2>2. c \in Range(t \o Later(b))
      <3>1. IsSeq(Later(b))
        BY <1>1, RunningBlock
      <3>2. Range(<<c>> \o Later(b)) = {c} \cup Range(Later(b))
        BY <3>1, Cons
      <3> QED
        BY <3>2, <1>t
    <2>3. Inner(c) = c /\ c.call = "startPaths" /\ c.stream = s
      BY <1>c DEF Inner, startPaths
    <2>4. c \in Now(e)
      BY <2>1, <2>2, <2>3 DEF Inners
    <2> QED
      BY <2>3, <2>4 DEF PathsToDo
  <1>16. \A z, v : /\ Call(b) # awaitProducer(z, v)
                   /\ Call(b) # wait(v)
                   /\ Global # m_allPathsDoneGroup(z) /\ Global # m_group(v) /\ Global # prefetchGroup(v)
    BY NotGlobal DEF awaitProducer, wait
  <1>17. Follows(d, e)
    <2>1. \A z \in Streams : PathsToDo(d, z) => PathsToDo(e, z)
      BY <1>14, <1>15, <1>16, <1>s DEF Still
    <2>2. \A v, n : WaitsFor(d, v, n) => WaitsFor(e, v, n)
      BY <1>14, <1>16 DEF Still
    <2>3. \A v : IsRequested(d, v) => IsRequested(e, v)
      BY <1>14, <1>16 DEF Still
    <2>4. \A v : LockAwaited(d, v) => LockAwaited(e, v)
      BY <1>14, <1>16 DEF Still
    <2> QED
      BY <2>1, <2>2, <2>3, <2>4 DEF Follows
  <1>18. \A y : y # g => Count(e, y) = Count(d, y) /\ Entered(e, y) = Entered(d, y)
    BY <1>9
  <1>19. NoneAsked(d, e) /\ Debts(d, e)
    <2>1. \A v : g # m_group(v) /\ g # prefetchGroup(v) /\ g # Lock(v)
      BY <1>g, Names
    <2>2. \A z : m_allPathsDoneGroup(z) = g <=> z = s
      BY <1>g, Names
    <2>3. NoneAsked(d, e)
      BY <2>1, <1>18 DEF NoneAsked, Owed
    <2> QED
      BY <2>1, <2>2, <2>3, <1>15, <1>18 DEF Debts, Owed
  <1>20. NoneInCircle(e)
    BY <1>17, <1>19, CircleKept
  <1> QED
    BY <1>14, <1>17, <1>19, <1>20, OrderlyAfter

\* Once all paths have begun it is known what is to be done when they are over.
LEMMA LastPathOrderly ==
  ASSUME NEW d, Orderly(d), NEW b \in Runs(d), Call(b).call = "startPaths",
         NEW e, e = GoOn(dispatch_group_notify(d, m_allPathsDoneGroup(Call(b).stream), Global,
                                               <<scheduleDone(Call(b).stream)>>), b, Later(b))
  PROVE  Orderly(e)
  <1>1. IsGcd(d) /\ Blocks(d)
    BY DEF Orderly, InOrder
  <1>s. PICK s : s = Call(b).stream
    OBVIOUS
  <1>2. s \in Streams
    BY <1>1, <1>s, HeadFits DEF Fits
  <1>g. PICK g : g = m_allPathsDoneGroup(s)
    OBVIOUS
  <1>c. PICK c : c = scheduleDone(s)
    OBVIOUS
  <1>o. PICK o : o = submit(Global, <<c>>)
    OBVIOUS
  <1>w. PICK w : w = dispatch_group_notify(d, g, Global, <<c>>)
    OBVIOUS
  <1>3. e = GoOn(w, b, Later(b))
    BY <1>w, <1>g, <1>c, <1>s
  <1>n. PICK new : new = IF Entered(d, g) = 0 THEN {Block(Global, <<c>>)} ELSE {}
    OBVIOUS
  <1>4. NotedEffect(d, g, Global, c, new, w)
    BY <1>1, <1>w, <1>n, <1>c, NotedIs DEF scheduleDone
  <1>5. IsNoted(g, o)
    BY <1>o, <1>c, <1>g, <1>2 DEF IsNoted, submit
  <1>6. Fits(c, {})
    BY <1>c, <1>2, FitsScheduleDone
  <1>7. \A x : One(c, x) = One(Call(b), x)
    BY <1>c, <1>s, Costs DEF scheduleDone
  <1>8. NotesAfter(d, b, g, submit(Global, <<c>>), e)
    <2>1. IsGroup(g) /\ IsNoted(g, submit(Global, <<c>>))
      BY <1>g, <1>2, <1>5, <1>o DEF IsGroup
    <2> QED
      BY <2>1, <1>3, <1>4, <1>6, <1>7, NotesOrderly
  <1>9. NotesAfter(d, b, g, o, e)
    BY <1>8, <1>o
  <1>10. Owed(e, g) => PathsToDo(e, s)
    BY <1>9, <1>g, OneElement DEF NotesAfter, PathsToDo
  <1>11. \A z, v : Call(b) # awaitProducer(z, v) /\ Call(b) # wait(v)
    BY DEF awaitProducer, wait
  <1>12. Follows(d, e)
    <2>1. \A z \in Streams : PathsToDo(d, z) /\ Owed(e, m_allPathsDoneGroup(z)) => PathsToDo(e, z)
      BY <1>8, <1>10, <1>s, <1>g, NotGlobal DEF Still, NotesAfter
    <2>2. \A v, n : WaitsFor(d, v, n) => WaitsFor(e, v, n)
      BY <1>8, <1>11, NotGlobal DEF Still, NotesAfter
    <2>3. \A v : IsRequested(d, v) => IsRequested(e, v)
      BY <1>8, <1>11, NotGlobal DEF Still, NotesAfter
    <2>4. \A v : LockAwaited(d, v) => LockAwaited(e, v)
      BY <1>8, <1>11 DEF Still, NotesAfter
    <2> QED
      BY <2>1, <2>2, <2>3, <2>4 DEF Follows
  <1> QED
    BY <1>8, <1>12, NotesEnd

\* What a path goes on with.
LEMMA NextOnPath ==
  ASSUME Modules, NEW s \in Streams, NEW p \in DOMAIN m_paths, NEW S, Calm(S),
         NEW c, \/ c = leave(m_allPathsDoneGroup(s))
                \/ \E i \in DOMAIN m_paths[p] : c = runFilterAsync(s, p, i)
  PROVE  /\ Fits(c, S)
         /\ \A x : One(c, x) = IF x = m_allPathsDoneGroup(s) THEN 1 ELSE 0
  <1>1. CASE c = leave(m_allPathsDoneGroup(s))
    <2>1. IsGroup(m_allPathsDoneGroup(s))
      BY DEF IsGroup
    <2>2. \A x : One(c, x) = IF x = m_allPathsDoneGroup(s) THEN 1 ELSE 0
      BY <1>1, Costs DEF leave
    <2> QED
      BY <2>1, <2>2, <1>1, FitsLeave
  <1>2. CASE \E i \in DOMAIN m_paths[p] : c = runFilterAsync(s, p, i)
    <2>1. PICK i \in DOMAIN m_paths[p] : c = runFilterAsync(s, p, i)
      BY <1>2
    <2>w. PICK w : w = FilterAt(s, p, i)
      OBVIOUS
    <2>a. PICK at : at = <<p, i>>
      OBVIOUS
    <2>2. IsFilterAt(w, at)
      BY <2>w, <2>a DEF IsFilterAt
    <2>3. at # <<>> /\ w[1] = s
      BY <2>2, <2>w, FilterWorks DEF FilterAt
    <2>n. PICK name \in {"work", "prefetch"} : c = Job(name, w, at)
      BY <2>1, <2>w, <2>a DEF runFilterAsync
    <2>4. HasJob(w, at)
      BY <2>2, <2>3 DEF HasJob
    <2>5. Fits(c, S)
      BY <2>4, <2>n, FitsJob DEF JobCalls
    <2>6. c.call \in JobCalls \ {"suspendUnsafe"} /\ JobGroup(c) = m_allPathsDoneGroup(s)
      BY <2>n, <2>3 DEF Job, JobCalls, JobGroup
    <2> QED
      BY <2>5, <2>6, Costs
  <1> QED
    BY <1>1, <1>2

\* A path that begins keeps the order.
LEMMA RunPathOrderly ==
  ASSUME Modules, NEW d, Orderly(d), NEW b \in Runs(d), Call(b).call = "path",
         NEW c, \/ c = leave(m_allPathsDoneGroup(Call(b).stream))
                \/ \E i \in DOMAIN m_paths[Call(b).path] :
                      c = runFilterAsync(Call(b).stream, Call(b).path, i),
         NEW e, e = GoOn(dispatch_group_enter(d, m_allPathsDoneGroup(Call(b).stream)), b,
                         <<c>> \o Later(b))
  PROVE  Orderly(e)
  <1>1. IsGcd(d) /\ Blocks(d)
    BY DEF Orderly, InOrder
  <1>s. PICK s : s = Call(b).stream
    OBVIOUS
  <1>g. PICK g : g = m_allPathsDoneGroup(s)
    OBVIOUS
  <1>2. /\ s \in Streams /\ Call(b).path \in DOMAIN m_paths
        /\ leave(g) \in Range(Later(b)) /\ Calm(Range(Later(b)))
    BY <1>1, <1>s, <1>g, HeadFits DEF Fits
  <1>3. /\ Fits(c, Range(Later(b)))
        /\ \A x : One(c, x) = IF x = g THEN 1 ELSE 0
    BY <1>2, <1>s, <1>g, NextOnPath
  <1>4. Owed(d, g)
    <2>1. leave(g) \in Range(b.calls) /\ Owes(Inner(leave(g)), g)
      BY <1>1, <1>2, RunningBlock DEF Owes, Inner, leave
    <2>2. Count(d, g) >= 1 /\ Count(d, g) \in Nat
      BY <2>1, <1>1, OwedByBlock, CountIsNat
    <2> QED
      BY <2>2 DEF Owed
  <1>5. \A x : One(Call(b), x) = 0
    BY Costs
  <1>6. \A x : One(c, x) = One(Call(b), x) + (IF x = g THEN 1 ELSE 0)
    BY <1>3, <1>5
  <1>7. Call(b).call \notin SpecialCalls /\ \A z : g # StreamToken(z)
    BY <1>g, Names DEF SpecialCalls
  <1> QED
    BY <1>3, <1>4, <1>6, <1>7, <1>g, <1>s, EntersFor

\* So does one that goes on.
LEMMA NextFilterOrderly ==
  ASSUME Modules, NEW d, Orderly(d), NEW b \in Runs(d), Call(b).call = "next",
         NEW c, \/ c = leave(m_allPathsDoneGroup(Call(b).wrapper[1]))
                \/ \E i \in DOMAIN m_paths[Call(b).at[1]] :
                      c = runFilterAsync(Call(b).wrapper[1], Call(b).at[1], i),
         NEW e, e = GoOn(d, b, <<c>> \o Later(b))
  PROVE  Orderly(e)
  <1>1. IsGcd(d) /\ Blocks(d) /\ SameGroups(d, d)
    BY SameGroupsIs DEF Orderly, InOrder
  <1>s. PICK s : s = Call(b).wrapper[1]
    OBVIOUS
  <1>p. PICK p : p = Call(b).at[1]
    OBVIOUS
  <1>2. IsJob(Call(b)) /\ Calm(Range(Later(b))) /\ Call(b).at # <<>>
    BY <1>1, HeadFits DEF Fits, JobCalls
  <1>3. IsFilterAt(Call(b).wrapper, Call(b).at) /\ JobGroup(Call(b)) = m_allPathsDoneGroup(s)
    BY <1>2, <1>s, JobIs
  <1>4. s \in Streams /\ p \in DOMAIN m_paths
    BY <1>3, <1>s, <1>p, FilterWorks
  <1>5. /\ Fits(c, Range(Later(b)))
        /\ \A x : One(c, x) = IF x = m_allPathsDoneGroup(s) THEN 1 ELSE 0
    <2>1. \/ c = leave(m_allPathsDoneGroup(s))
          \/ \E i \in DOMAIN m_paths[p] : c = runFilterAsync(s, p, i)
      BY <1>s, <1>p
    <2> QED
      BY <2>1, <1>2, <1>4, NextOnPath
  <1>6. \A x : One(Call(b), x) = IF x = m_allPathsDoneGroup(s) THEN 1 ELSE 0
    <2>1. Call(b).call \in JobCalls \ {"suspendUnsafe"}
      BY DEF JobCalls
    <2> QED
      BY <2>1, <1>3, Costs
  <1>7. \A x : One(c, x) = One(Call(b), x) /\ One(c, x) \in {0, 1}
    BY <1>5, <1>6
  <1>8. \A z \in Streams : One(c, StreamToken(z)) <= One(Call(b), StreamToken(z))
    BY <1>7
  <1>9. Call(b).call \notin SpecialCalls
    BY DEF SpecialCalls
  <1> QED
    BY <1>1, <1>5, <1>7, <1>8, <1>9, Replaces

-----------------------------------------------------------------------------
(* Getting data beforehand *)

\* A producer's task, once more.
LEMMA ProduceOrderly ==
  ASSUME Modules, NEW d, Orderly(d), NEW b \in Runs(d), Call(b).call = "produceImpl",
         NEW e, e = GoOn(dispatch_group_enter(d, m_group(Call(b).wrapper)), b,
                         <<Job("prefetch", Call(b).wrapper, <<>>)>> \o Later(b))
  PROVE  Orderly(e)
  <1>1. IsGcd(d) /\ Blocks(d)
    BY DEF Orderly, InOrder
  <1>n. PICK n : n = Call(b).wrapper
    OBVIOUS
  <1>g. PICK g : g = m_group(n)
    OBVIOUS
  <1>c. PICK c : c = Job("prefetch", n, <<>>)
    OBVIOUS
  <1>2. IsProducer(n) /\ leave(g) \in Range(Later(b)) /\ Calm(Range(Later(b)))
    BY <1>1, <1>n, <1>g, HeadFits DEF Fits
  <1>3. Fits(c, Range(Later(b)))
    <2>a. PICK at : at = <<>>
      OBVIOUS
    <2>1. HasJob(n, at) /\ c = Job("prefetch", n, at)
      BY <1>2, <1>c, <2>a DEF HasJob
    <2> QED
      BY <2>1, <1>2, FitsJob DEF JobCalls
  <1>4. Owed(d, g)
    <2>1. leave(g) \in Range(b.calls) /\ Owes(Inner(leave(g)), g)
      BY <1>1, <1>2, RunningBlock DEF Owes, Inner, leave
    <2>2. Count(d, g) >= 1 /\ Count(d, g) \in Nat
      BY <2>1, <1>1, OwedByBlock, CountIsNat
    <2> QED
      BY <2>2 DEF Owed
  <1>5. \A x : One(Call(b), x) = 0 /\ One(c, x) = IF x = g THEN 1 ELSE 0
    <2>1. c.call \in JobCalls \ {"suspendUnsafe"} /\ JobGroup(c) = g
      BY <1>c, <1>g DEF Job, JobCalls, JobGroup
    <2> QED
      BY <2>1, Costs
  <1>6. \A x : One(c, x) = One(Call(b), x) + (IF x = g THEN 1 ELSE 0)
    BY <1>5
  <1>7. Call(b).call \notin SpecialCalls /\ \A z : g # StreamToken(z)
    BY <1>g, Names DEF SpecialCalls
  <1> QED
    BY <1>3, <1>4, <1>6, <1>7, <1>g, <1>c, <1>n, EntersFor

\* A request that waits for a producer keeps the order.
LEMMA AwaitOrderly ==
  ASSUME Modules, NEW d, Orderly(d), NEW b \in Runs(d), Call(b).call = "awaitProducer",
         NEW e, e = GoOn(dispatch_group_notify(d, m_group(Call(b).producer), Global,
                                               <<leave(prefetchGroup(Call(b).wrapper))>>), b, Later(b))
  PROVE  Orderly(e)
  <1>1. IsGcd(d) /\ Blocks(d)
    BY DEF Orderly, InOrder
  <1>v. PICK v : v = Call(b).wrapper
    OBVIOUS
  <1>n. PICK n : n = Call(b).producer
    OBVIOUS
  <1>2. Works(v) /\ IsProducer(n) /\ n[1] = v[1] /\ Call(b) = awaitProducer(v, n)
    BY <1>1, <1>v, <1>n, HeadFits DEF Fits
  <1>g. PICK g : g = m_group(n)
    OBVIOUS
  <1>c. PICK c : c = leave(prefetchGroup(v))
    OBVIOUS
  <1>o. PICK o : o = submit(Global, <<c>>)
    OBVIOUS
  <1>w. PICK w : w = dispatch_group_notify(d, g, Global, <<c>>)
    OBVIOUS
  <1>3. e = GoOn(w, b, Later(b))
    BY <1>w, <1>g, <1>c, <1>v, <1>n
  <1>x. PICK new : new = IF Entered(d, g) = 0 THEN {Block(Global, <<c>>)} ELSE {}
    OBVIOUS
  <1>4. NotedEffect(d, g, Global, c, new, w)
    BY <1>1, <1>w, <1>x, <1>c, NotedIs DEF leave
  <1>5. IsNoted(g, o) /\ o.block[1] = c
    BY <1>o, <1>c, <1>g, <1>2 DEF IsNoted, submit
  <1>6. Fits(c, {})
    BY <1>c, <1>2, FitsLeave DEF IsGroup
  <1>7. \A x : One(c, x) = One(Call(b), x)
    BY <1>c, <1>v, Costs DEF leave
  <1>8. NotesAfter(d, b, g, submit(Global, <<c>>), e)
    <2>1. IsGroup(g) /\ IsNoted(g, submit(Global, <<c>>))
      BY <1>g, <1>2, <1>5, <1>o DEF IsGroup
    <2> QED
      BY <2>1, <1>3, <1>4, <1>6, <1>7, NotesOrderly
  <1>9. NotesAfter(d, b, g, o, e)
    BY <1>8, <1>o
  <1>10. Owed(e, g) => WaitsFor(e, v, n)
    BY <1>9, <1>5, <1>g, <1>c DEF NotesAfter, WaitsFor
  <1>11. \A z, y : /\ Call(b) # wait(y)
                   /\ Call(b) = awaitProducer(z, y) => z = v /\ y = n
    BY <1>v, <1>n DEF awaitProducer, wait
  <1>12. Follows(d, e)
    <2>1. \A z \in Streams : PathsToDo(d, z) => PathsToDo(e, z)
      BY <1>9, NotGlobal DEF Still, NotesAfter
    <2>2. \A y, m : WaitsFor(d, y, m) /\ Owed(e, m_group(m)) => WaitsFor(e, y, m)
      BY <1>9, <1>10, <1>11, <1>g, NotGlobal DEF Still, NotesAfter
    <2>3. \A y : IsRequested(d, y) => IsRequested(e, y)
      BY <1>9, NotGlobal DEF Still, NotesAfter
    <2>4. \A y : LockAwaited(d, y) => LockAwaited(e, y)
      BY <1>9, <1>11 DEF Still, NotesAfter
    <2> QED
      BY <2>1, <2>2, <2>3, <2>4 DEF Follows
  <1> QED
    BY <1>9, <1>12, NotesEnd

\* So does a job that waits for its data.
LEMMA NotifyOrderly ==
  ASSUME Modules, NEW d, Orderly(d), NEW b \in Runs(d), Call(b).call = "notifyPrefetched",
         NEW q, NEW task \in {"work", "suspendOwn"},
         NEW e, e = GoOn(dispatch_group_notify(d, prefetchGroup(Call(b).wrapper), q,
                                               <<Job(task, Call(b).wrapper, Call(b).at)>>), b, Later(b))
  PROVE  Orderly(e)
  <1>1. IsGcd(d) /\ Blocks(d)
    BY DEF Orderly, InOrder
  <1>v. PICK v : v = Call(b).wrapper
    OBVIOUS
  <1>a. PICK at : at = Call(b).at
    OBVIOUS
  <1>2. IsJob(Call(b)) /\ HasJob(v, at) /\ Works(v)
    <2>1. IsJob(Call(b))
      BY <1>1, HeadFits DEF Fits, JobCalls
    <2> QED
      BY <2>1, <1>v, <1>a, JobIs DEF IsJob
  <1>g. PICK g : g = prefetchGroup(v)
    OBVIOUS
  <1>c. PICK c : c = Job(task, v, at)
    OBVIOUS
  <1>o. PICK o : o = submit(q, <<c>>)
    OBVIOUS
  <1>w. PICK w : w = dispatch_group_notify(d, g, q, <<c>>)
    OBVIOUS
  <1>3. e = GoOn(w, b, Later(b))
    BY <1>w, <1>g, <1>c, <1>v, <1>a
  <1>x. PICK new : new = IF Entered(d, g) = 0 THEN {Block(q, <<c>>)} ELSE {}
    OBVIOUS
  <1>4. NotedEffect(d, g, q, c, new, w)
    <2>1. c.call # "submit"
      BY <1>c DEF Job
    <2> QED
      BY <2>1, <1>1, <1>w, <1>x, NotedIs
  <1>5. IsNoted(g, o) /\ o.block[1] = c
    <2>1. IsJob(c) /\ c.call \in {"work", "suspendOwn"} /\ c.wrapper = v
      BY <1>c, <1>2 DEF Job, IsJob
    <2>2. o = submit(o.queue, <<o.block[1]>>) /\ o.block[1] = c
      BY <1>o DEF submit
    <2> QED
      BY <2>1, <2>2, <1>g DEF IsNoted
  <1>6. Fits(c, {})
    <2>1. Calm({})
      BY DEF Calm
    <2> QED
      BY <2>1, <1>c, <1>2, FitsJob DEF JobCalls
  <1>7. \A x : One(c, x) = One(Call(b), x)
    <2>1. c.call \in JobCalls \ {"suspendUnsafe"} /\ JobGroup(c) = JobGroup(Call(b))
      BY <1>c, <1>v, <1>a DEF Job, JobCalls, JobGroup
    <2>2. Call(b).call \in JobCalls \ {"suspendUnsafe"}
      BY DEF JobCalls
    <2> QED
      BY <2>1, <2>2, Costs
  <1>8. NotesAfter(d, b, g, submit(q, <<c>>), e)
    <2>1. IsGroup(g) /\ IsNoted(g, submit(q, <<c>>))
      BY <1>g, <1>2, <1>5, <1>o DEF IsGroup
    <2> QED
      BY <2>1, <1>3, <1>4, <1>6, <1>7, NotesOrderly
  <1>9. NotesAfter(d, b, g, o, e)
    BY <1>8, <1>o
  <1>10. Owed(e, g) => IsRequested(e, v)
    BY <1>9, <1>g, OneElement DEF NotesAfter, IsRequested
  <1>11. \A z, y : Call(b) # wait(y) /\ Call(b) # awaitProducer(z, y)
    BY DEF awaitProducer, wait
  <1>12. Follows(d, e)
    <2>1. \A z \in Streams : PathsToDo(d, z) => PathsToDo(e, z)
      BY <1>9, NotGlobal DEF Still, NotesAfter
    <2>2. \A y, m : WaitsFor(d, y, m) => WaitsFor(e, y, m)
      BY <1>9, <1>11, NotGlobal DEF Still, NotesAfter
    <2>3. \A y : IsRequested(d, y) /\ Owed(e, prefetchGroup(y)) => IsRequested(e, y)
      BY <1>9, <1>10, <1>v, <1>g, NotGlobal DEF Still, NotesAfter
    <2>4. \A y : LockAwaited(d, y) => LockAwaited(e, y)
      BY <1>9, <1>11 DEF Still, NotesAfter
    <2> QED
      BY <2>1, <2>2, <2>3, <2>4 DEF Follows
  <1> QED
    BY <1>9, <1>12, NotesEnd

\* Calls a and c are to be made before those that b has still to make.
TwoFit(b, a, c, t) ==
    /\ t = <<a>> \o <<c>>
    /\ Fits(a, {c} \cup Range(Later(b))) /\ Fits(c, Range(Later(b)))

\* A block has gone on with two calls, and with what it had later.
TurnedTwice(d, w, b, a, c, t, new, e) ==
    /\ Turned(d, w, b, t, new, e) /\ Good(t \o Later(b)) /\ IsSeq(t)
    /\ \A x : N(t, x) = One(a, x) + One(c, x)
    /\ c \in Range(t \o Later(b))

\* Two calls to be made first.
LEMMA TurnedTwo ==
  ASSUME NEW d, IsGcd(d), Blocks(d), NEW b \in Runs(d), NEW w, NEW new, Adds(d, w, new),
         NEW a, NEW c, NEW t, TwoFit(b, a, c, t), NEW e, e = GoOn(w, b, t \o Later(b))
  PROVE  TurnedTwice(d, w, b, a, c, t, new, e)
  <1>l. PICK l : l = <<c>>
    OBVIOUS
  <1>t. t = <<a>> \o l /\ Fits(a, {c} \cup Range(Later(b))) /\ Fits(c, Range(Later(b)))
    BY <1>l DEF TwoFit
  <1>1. IsSeq(<<a>>) /\ IsSeq(l) /\ IsSeq(Later(b)) 
    BY <1>l, OneElement, RunningBlock
  <1>r. PICK r : r = <<c>> \o Later(b)
    OBVIOUS
  <1>2. IsSeq(t) /\ IsSeq(r) /\ Range(r) = {c} \cup Range(Later(b))
    BY <1>1, <1>r, <1>t, Cons
  <1>3. t \o Later(b) = <<a>> \o r
    BY <1>1, <1>l, <1>t, <1>r, ConcatCons
  <1>4. Range(<<a>> \o r) = {a} \cup Range(r)
    BY <1>2, Cons
  <1>5. Good(r)
    BY <1>1, <1>r, <1>t, HeadFits, GoodCons
  <1>6. Good(<<a>> \o r)
    BY <1>2, <1>5, <1>t, GoodCons
  <1>7. \A x : N(t, x) = One(a, x) + One(c, x)
    <2>1. ASSUME NEW x
          PROVE  N(t, x) = One(a, x) + One(c, x)
      <3>1. N(t, x) = One(a, x) + N(l, x)
        BY <1>1, <1>t, NCons
      <3>2. N(l, x) = One(c, x)
        BY <1>l, NOne
      <3> QED
        BY <3>1, <3>2
    <2> QED
      BY <2>1
  <1>8. Turned(d, w, b, t, new, e)
    BY <1>2, TurnedIs
  <1> QED
    BY <1>2, <1>3, <1>4, <1>6, <1>7, <1>8 DEF TurnedTwice

\* What is done to get all data.
LEMMA GetAllIs ==
  ASSUME NEW w, Works(w), NEW keys, IsSeq(keys)
  PROVE  /\ \A S : Fits(GetAll(w, keys), S)
         /\ \A x : One(GetAll(w, keys), x) = IF x = prefetchGroup(w) THEN 1 ELSE 0
         /\ GetAll(w, keys).call \in {"getAll", "leave"}
         /\ Owes(GetAll(w, keys), prefetchGroup(w))
  <1>1. CASE keys = <<>>
    <2>c. PICK c : c = leave(prefetchGroup(w))
      OBVIOUS
    <2>1. GetAll(w, keys) = c /\ c.call = "leave" /\ c.group = prefetchGroup(w)
      BY <1>1, <2>c DEF GetAll, leave
    <2>2. \A S : Fits(c, S)
      BY <2>c, FitsLeave DEF IsGroup
    <2>3. \A x : One(c, x) = IF x = prefetchGroup(w) THEN 1 ELSE 0
      BY <2>1, Costs
    <2> QED
      BY <2>1, <2>2, <2>3 DEF Owes
  <1>2. CASE keys # <<>>
    <2>c. PICK c : c = getAll(w, keys)
      OBVIOUS
    <2>1. GetAll(w, keys) = c /\ c.call = "getAll" /\ c.wrapper = w
      BY <1>2, <2>c DEF GetAll, getAll
    <2>2. \A S : Fits(c, S)
      BY <2>c, <1>2, FitsGetAll
    <2>3. \A x : One(c, x) = IF x = prefetchGroup(w) THEN 1 ELSE 0
      BY <2>1, Costs
    <2> QED
      BY <2>1, <2>2, <2>3 DEF Owes
  <1> QED
    BY <1>1, <1>2

\* A wrapper begins to get its data, and it is to be said what is done then.
LEMMA PrefetchOrderly ==
  ASSUME Modules, NEW d, Orderly(d), NEW b \in Runs(d), Call(b).call = "prefetch",
         NEW keys, IsSeq(keys),
         NEW e, e = GoOn(dispatch_group_enter(d, prefetchGroup(Call(b).wrapper)), b,
                         <<GetAll(Call(b).wrapper, keys),
                           Job("notifyPrefetched", Call(b).wrapper, Call(b).at)>> \o Later(b))
  PROVE  Orderly(e)
  <1>1. IsGcd(d) /\ Blocks(d)
    BY DEF Orderly, InOrder
  <1>v. PICK v : v = Call(b).wrapper
    OBVIOUS
  <1>at. PICK at : at = Call(b).at
    OBVIOUS
  <1>2. IsJob(Call(b)) /\ HasJob(v, at) /\ Works(v) /\ Calm(Range(Later(b)))
    <2>1. IsJob(Call(b)) /\ Calm(Range(Later(b)))
      BY <1>1, HeadFits DEF Fits, JobCalls
    <2> QED
      BY <2>1, <1>v, <1>at, JobIs DEF IsJob
  <1>g. PICK g : g = prefetchGroup(v)
    OBVIOUS
  <1>a. PICK a : a = GetAll(v, keys)
    OBVIOUS
  <1>c. PICK c : c = Job("notifyPrefetched", v, at)
    OBVIOUS
  <1>w. PICK w : w = dispatch_group_enter(d, g)
    OBVIOUS
  <1>l. PICK l : l = <<c>>
    OBVIOUS
  <1>s. PICK S : S = {c} \cup Range(Later(b))
    OBVIOUS
  <1>t. PICK t : t = <<a>> \o l
    OBVIOUS
  <1>n. PICK new : new = {}
    OBVIOUS
  <1>3. EnterEffect(d, g, w)
    BY <1>1, <1>w, EnterIs
  <1>4. Adds(d, w, new)
    BY <1>1, <1>3, <1>n, EnterAdds
  <1>5. Fits(c, Range(Later(b)))
    BY <1>2, <1>c, FitsJob DEF JobCalls
  <1>6. /\ Fits(a, S)
        /\ \A x : One(a, x) = IF x = g THEN 1 ELSE 0
    BY <1>2, <1>a, <1>g, GetAllIs
  <1>7. e = GoOn(w, b, t \o Later(b))
    BY <1>w, <1>g, <1>v, <1>at, <1>l, <1>t, <1>a, <1>c, Elements
  <1>8. TurnedTwice(d, w, b, a, c, t, new, e)
    <2>1. TwoFit(b, a, c, t)
      BY <1>5, <1>6, <1>l, <1>s, <1>t DEF TwoFit
    <2> QED
      BY <2>1, <1>1, <1>4, <1>7, TurnedTwo
  <1>9. \A x : One(c, x) = One(Call(b), x) /\ One(c, x) \in {0, 1}
    <2>1. c.call \in JobCalls \ {"suspendUnsafe"} /\ JobGroup(c) = JobGroup(Call(b))
      BY <1>c, <1>v, <1>at DEF Job, JobCalls, JobGroup
    <2>2. Call(b).call \in JobCalls \ {"suspendUnsafe"}
      BY DEF JobCalls
    <2> QED
      BY <2>1, <2>2, Costs
  <1>10. \A x : /\ Count(d, x) \in Nat /\ Entered(d, x) \in Nat
                /\ Count(e, x) = Count(d, x) + (IF x = g THEN 1 ELSE 0)
                /\ Entered(e, x) = Entered(d, x) + (IF x = g THEN 1 ELSE 0)
    <2>1. \A x : Count(d, x) \in Nat /\ Entered(d, x) \in Nat
      BY <1>1, CountIsNat, AnyGroup
    <2>2. \A x : Count(e, x) = Count(w, x) - One(Call(b), x) + N(t, x)
      BY <1>8 DEF Turned, TurnedTwice
    <2>3. \A x : Count(w, x) = Count(d, x)
      BY <1>3 DEF EnterEffect
    <2>4. \A x : Count(e, x) = Count(d, x) + (IF x = g THEN 1 ELSE 0)
      BY <2>1, <2>2, <2>3, <1>6, <1>8, <1>9 DEF TurnedTwice
    <2>5. \A x : Entered(e, x) = Entered(d, x) + (IF x = g THEN 1 ELSE 0)
      BY <1>3, <1>8 DEF Turned, TurnedTwice, EnterEffect
    <2> QED
      BY <2>1, <2>4, <2>5
  <1>11. Balanced(d, e)
    BY <1>10 DEF Balanced
  <1>12. FewerTokens(d, e)
    <2>1. \A z : g # StreamToken(z)
      BY <1>g, Names
    <2>2. \A z : Count(e, StreamToken(z)) <= Count(d, StreamToken(z))
      BY <2>1, <1>10
    <2> QED
      BY <2>2 DEF FewerTokens
  <1>13. Plain(d, b, w, t, new, e)
    <2>1. \A h : Waiting(w, h) = Waiting(d, h)
      BY <1>3 DEF EnterEffect
    <2>2. \A y \in new : Good(y.calls)
      BY <1>n
    <2> QED
      BY <2>1, <2>2, <1>8, <1>11, <1>12 DEF Plain, TurnedTwice
  <1>14. IsRequested(e, v)
    <2>1. Inner(c) = c /\ c.call = "notifyPrefetched" /\ c.wrapper = v
      BY <1>c DEF Job, Inner
    <2>2. c \in Inners(t \o Later(b))
      BY <2>1, <1>8 DEF Inners, TurnedTwice
    <2>3. c \in Now(e)
      BY <2>2, <1>1, <1>8, NowHas DEF Turned, TurnedTwice
    <2> QED
      BY <2>1, <2>3 DEF IsRequested
  <1>15. NoneAsked(d, e) /\ Debts(d, e)
    <2>1. \A n, s : g # m_group(n) /\ g # m_allPathsDoneGroup(s) /\ g # Lock(n)
      BY <1>g, Names
    <2>2. \A y : prefetchGroup(y) = g <=> y = v
      BY <1>g, Names
    <2>3. NoneAsked(d, e)
      BY <2>1, <1>10 DEF NoneAsked, Owed
    <2>4. \A x : x # g => Count(e, x) = Count(d, x) /\ Entered(e, x) = Entered(d, x)
      BY <1>10
    <2>5. Debts(d, e)
      BY <2>1, <2>2, <2>4, <1>14 DEF Debts, Owed
    <2> QED
      BY <2>3, <2>5
  <1>16. Call(b).call \notin SpecialCalls
    BY DEF SpecialCalls
  <1> QED
    BY <1>13, <1>15, <1>16, PlainDebts

\* Who has been asked for a datum goes on with the next.
LEMMA GetAsyncOrderly ==
  ASSUME Modules, NEW d, Orderly(d), NEW b \in Runs(d), Call(b).call = "getAll",
         NEW n, IsProducer(n), n[1] = Call(b).wrapper[1],
         NEW m \in {<<>>, <<getMissing(Call(b).wrapper, n)>>},
         NEW e, e = GoOn(d, b, m \o <<GetAll(Call(b).wrapper, Tail(Call(b).keys))>> \o Later(b))
  PROVE  Orderly(e)
  <1>1. IsGcd(d) /\ Blocks(d) /\ Adds(d, d, {})
    BY AddsRefl DEF Orderly, InOrder
  <1>v. PICK v : v = Call(b).wrapper
    OBVIOUS
  <1>k. PICK keys : keys = Tail(Call(b).keys)
    OBVIOUS
  <1>2. Works(v) /\ IsSeq(keys)
    <2>1. Works(Call(b).wrapper) /\ IsSeq(Call(b).keys) /\ Call(b).keys # <<>>
      BY <1>1, HeadFits DEF Fits
    <2> QED
      BY <2>1, <1>v, <1>k, HeadTail
  <1>g. PICK g : g = prefetchGroup(v)
    OBVIOUS
  <1>c. PICK c : c = GetAll(v, keys)
    OBVIOUS
  <1>3. /\ \A S : Fits(c, S)
        /\ \A x : One(c, x) = IF x = g THEN 1 ELSE 0
        /\ c.call \in {"getAll", "leave"} /\ Owes(c, g)
    BY <1>2, <1>c, <1>g, GetAllIs
  <1>4. \A x : One(Call(b), x) = IF x = g THEN 1 ELSE 0
    BY <1>v, <1>g, Costs
  <1>5. Call(b).call \notin SpecialCalls
    BY DEF SpecialCalls
  <1>6. CASE m = <<>>
    <2>1. m \o <<c>> = <<c>>
      BY <1>6, ConcatCons, OneElement
    <2>2. e = GoOn(d, b, <<c>> \o Later(b))
      BY <2>1, <1>c, <1>v, <1>k
    <2>3. \A s \in Streams : One(c, StreamToken(s)) <= One(Call(b), StreamToken(s))
      BY <1>3, <1>4
    <2>4. SameGroups(d, d) /\ Fits(c, Range(Later(b))) /\ \A x : One(c, x) = One(Call(b), x)
      BY <1>1, <1>3, <1>4, SameGroupsIs
    <2> QED
      BY <2>2, <2>3, <2>4, <1>5, Replaces
  <1>7. CASE m # <<>>
    <2>a. PICK a : a = getMissing(v, n)
      OBVIOUS
    <2>l. PICK l : l = <<c>>
      OBVIOUS
    <2>s. PICK S : S = {c} \cup Range(Later(b))
      OBVIOUS
    <2>t. PICK t : t = <<a>> \o l
      OBVIOUS
    <2>n. PICK new : new = {}
      OBVIOUS
    <2>1. e = GoOn(d, b, t \o Later(b))
      BY <1>7, <2>a, <2>l, <2>t, <1>c, <1>v, <1>k
    <2>2. Fits(a, S)
      BY <2>a, <2>s, <1>2, <1>3, <1>v, <1>g, FitsGetMissing
    <2>3. Fits(c, Range(Later(b)))
      BY <1>3
    <2>4. TurnedTwice(d, d, b, a, c, t, new, e)
      <3>1. Adds(d, d, new)
        BY <1>1, <2>n
      <3>2. TwoFit(b, a, c, t)
        BY <2>2, <2>3, <2>l, <2>s, <2>t DEF TwoFit
      <3> QED
        BY <3>1, <3>2, <1>1, <2>1, TurnedTwo
    <2>5. \A x : One(a, x) = 0
      BY <2>a, Costs DEF getMissing
    <2>6. \A x : N(t, x) = One(Call(b), x) /\ One(Call(b), x) \in {0, 1} /\ Count(d, x) \in Nat
      BY <2>4, <2>5, <1>1, <1>3, <1>4, CountIsNat DEF TurnedTwice
    <2>7. Even(d, b, d, t)
      <3>1. \A s \in Streams : Count(d, StreamToken(s)) + N(t, StreamToken(s)) <=
                                 Count(d, StreamToken(s)) + One(Call(b), StreamToken(s))
        BY <2>6
      <3>2. \A x : IsGroup(x) => /\ Entered(d, x) = Entered(d, x)
                                 /\ Count(d, x) + N(t, x) = Count(d, x) + One(Call(b), x)
        BY <2>6
      <3> QED
        BY <3>1, <3>2 DEF Even
    <2>8. \A y \in new : Good(y.calls)
      BY <2>n
    <2>9. \A h : Waiting(d, h) = Waiting(d, h)
      OBVIOUS
    <2> QED
      BY <2>4, <2>7, <2>8, <2>9, <1>1, <1>5, Ordinary DEF TurnedTwice
  <1> QED
    BY <1>6, <1>7

\* A step that may ask for producer n.
Asks(d, e, n) ==
    \A g : IsGroup(g) /\ g # m_eventLoopGroup /\ g # m_group(n) /\ Owed(e, g) => Owed(d, g)

\* Who waits for a producer may ask for it.
LEMMA AskOrderly ==
  ASSUME Modules, NEW d, Orderly(d), NEW b \in Runs(d), Call(b).call \notin SpecialCalls,
         NEW w, NEW t, NEW new, NEW e, Plain(d, b, w, t, new, e),
         NEW v, NEW n, Works(v), IsProducer(n), v[1] = n[1], Wanted(d, v), WaitsFor(e, v, n),
         Asks(d, e, n)
  PROVE  Orderly(e)
  <1>1. IsGcd(e) /\ Blocks(e) /\ Groups(e) /\ Tokens(e) /\ Still(d, b, Global, e)
    BY PlainAfter
  <1>2. Follows(d, e)
    BY <1>1, FollowsPlain
  <1>3. \A m : IsProducer(m) /\ m # n /\ Owed(e, m_group(m)) => Owed(d, m_group(m))
    <2>1. ASSUME NEW m, IsProducer(m), m # n, Owed(e, m_group(m))
          PROVE  Owed(d, m_group(m))
      <3>1. m_group(m) # m_eventLoopGroup /\ m_group(m) # m_group(n) /\ IsGroup(m_group(m))
        BY <2>1, Names DEF IsGroup
      <3> QED
        BY <3>1, <2>1 DEF Asks
    <2> QED
      BY <2>1
  <1>4. NoneInCircle(e)
    BY <1>2, <1>3, CircleWithOneMore
  <1>5. Debts(d, e)
    <2>1. ASSUME NEW g, IsGroup(g), g # m_eventLoopGroup, g # m_group(n), Owed(e, g)
          PROVE  Owed(d, g)
      BY <2>1 DEF Asks
    <2>2. ASSUME NEW s \in Streams, Owed(e, m_allPathsDoneGroup(s))
          PROVE  Owed(d, m_allPathsDoneGroup(s))
      <3>1. /\ m_allPathsDoneGroup(s) # m_eventLoopGroup /\ m_allPathsDoneGroup(s) # m_group(n)
            /\ IsGroup(m_allPathsDoneGroup(s))
        BY Names DEF IsGroup
      <3> QED
        BY <3>1, <2>1, <2>2
    <2>3. ASSUME NEW y, Works(y), Owed(e, prefetchGroup(y))
          PROVE  Owed(d, prefetchGroup(y))
      <3>1. /\ prefetchGroup(y) # m_eventLoopGroup /\ prefetchGroup(y) # m_group(n)
            /\ IsGroup(prefetchGroup(y))
        BY <2>3, Names DEF IsGroup
      <3> QED
        BY <3>1, <2>1, <2>3
    <2>4. ASSUME NEW y, Works(y), Entered(e, Lock(y)) # 0
          PROVE  Entered(d, Lock(y)) # 0
      <3>1. Lock(y) # m_eventLoopGroup /\ Lock(y) # m_group(n) /\ IsGroup(Lock(y))
        BY <2>4, Names DEF IsGroup
      <3>2. Entered(e, Lock(y)) = Count(e, Lock(y)) /\ Entered(d, Lock(y)) = Count(d, Lock(y))
        BY <3>1, <1>1 DEF Groups, Orderly, InOrder
      <3>3. Count(e, Lock(y)) \in Nat /\ Count(d, Lock(y)) \in Nat
        BY <1>1, CountIsNat DEF Orderly, InOrder
      <3>4. Owed(e, Lock(y))
        BY <3>2, <3>3, <2>4 DEF Owed
      <3>5. Owed(d, Lock(y))
        BY <3>1, <3>4, <2>1
      <3> QED
        BY <3>2, <3>3, <3>5 DEF Owed
    <2> QED
      BY <2>2, <2>3, <2>4 DEF Debts
  <1> QED
    BY <1>1, <1>2, <1>4, <1>5, OrderlyAfter

\* Either n is asked for, or it has run and nothing happens.
AskedEffect(d, n, new, o) ==
    /\ Adds(d, o, new) /\ \A a \in new : Good(a.calls)
    /\ \E k \in {0, 1} : \A x :
          /\ Count(o, x) = Count(d, x) + (IF x = m_group(n) THEN k ELSE 0)
          /\ Entered(o, x) = Entered(d, x) + (IF x = m_group(n) THEN k ELSE 0)
    /\ \A h : Waiting(o, h) = Waiting(d, h)

\* A producer is asked for.
LEMMA AskedIs ==
  ASSUME NEW d, IsGcd(d), NEW n, IsProducer(n), NEW o, o = doProduceAsync(d, n)
  PROVE  \E new : AskedEffect(d, n, new, o)
  <1>0. \A x : Count(d, x) \in Nat /\ Entered(d, x) \in Nat
    BY CountIsNat, AnyGroup
  <1>1. CASE o = d
    <2>1. Adds(d, o, {})
      BY <1>1, AddsRefl
    <2>2. \A x : Count(o, x) = Count(d, x) + (IF x = m_group(n) THEN 0 ELSE 0)
                 /\ Entered(o, x) = Entered(d, x) + (IF x = m_group(n) THEN 0 ELSE 0)
      BY <1>0, <1>1
    <2>3. \A a \in {} : Good(a.calls)
      OBVIOUS
    <2>4. \A h : Waiting(o, h) = Waiting(d, h)
      BY <1>1
    <2>5. \E k \in {0, 1} : \A x :
          /\ Count(o, x) = Count(d, x) + (IF x = m_group(n) THEN k ELSE 0)
          /\ Entered(o, x) = Entered(d, x) + (IF x = m_group(n) THEN k ELSE 0)
      BY <2>2
    <2>6. AskedEffect(d, n, {}, o)
      BY <2>1, <2>3, <2>4, <2>5 DEF AskedEffect
    <2> QED
      BY <2>6
  <1>2. CASE o = dispatch_group_async(d, m_group(n), Global, <<produceImpl(n)>>)
    <2>g. PICK g : g = m_group(n)
      OBVIOUS
    <2>c. PICK c : c = produceImpl(n)
      OBVIOUS
    <2>n. PICK new : new = {Block(Global, <<c>> \o <<leave(g)>>)}
      OBVIOUS
    <2>1. GroupAsyncEffect(d, g, c, o)
      BY <1>2, <2>g, <2>c, GroupAsyncIs
    <2>2. \A x : One(c, x) = 0
      BY <2>c, Costs DEF produceImpl
    <2>3. IsGroup(g) /\ Fits(c, {leave(g)})
      <3>1. Calm({leave(g)})
        BY DEF Calm, Reading, leave
      <3> QED
        BY <3>1, <2>g, <2>c, FitsProduceImpl DEF IsGroup
    <2>4. \A a \in new : Good(a.calls)
      BY <2>3, <2>n, GoodBlock
    <2>5. Adds(d, o, new)
      BY <2>1, <2>n DEF GroupAsyncEffect
    <2>6. \A x : /\ Count(o, x) = Count(d, x) + (IF x = m_group(n) THEN 1 ELSE 0)
                 /\ Entered(o, x) = Entered(d, x) + (IF x = m_group(n) THEN 1 ELSE 0)
      BY <2>1, <2>2, <2>g, <1>0 DEF GroupAsyncEffect
    <2>7. \A h : Waiting(o, h) = Waiting(d, h)
      BY <2>1 DEF GroupAsyncEffect
    <2>8. \E k \in {0, 1} : \A x :
          /\ Count(o, x) = Count(d, x) + (IF x = m_group(n) THEN k ELSE 0)
          /\ Entered(o, x) = Entered(d, x) + (IF x = m_group(n) THEN k ELSE 0)
      BY <2>6
    <2>9. AskedEffect(d, n, new, o)
      BY <2>4, <2>5, <2>7, <2>8 DEF AskedEffect
    <2> QED
      BY <2>9
  <1> QED
    BY <1>1, <1>2 DEF doProduceAsync

\* A datum that is missing is asked for.
LEMMA GetMissingOrderly ==
  ASSUME Modules, NEW d, Orderly(d), NEW b \in Runs(d), Call(b).call = "getMissing",
         NEW e, e = GoOn(dispatch_group_enter(doProduceAsync(d, Call(b).producer),
                                              prefetchGroup(Call(b).wrapper)), b,
                         <<awaitProducer(Call(b).wrapper, Call(b).producer)>> \o Later(b))
  PROVE  Orderly(e)
  <1>1. IsGcd(d) /\ Blocks(d)
    BY DEF Orderly, InOrder
  <1>v. PICK v : v = Call(b).wrapper
    OBVIOUS
  <1>n. PICK n : n = Call(b).producer
    OBVIOUS
  <1>p. PICK p : p = prefetchGroup(v)
    OBVIOUS
  <1>g. PICK g : g = m_group(n)
    OBVIOUS
  <1>c. PICK c : c = awaitProducer(v, n)
    OBVIOUS
  <1>o. PICK o : o = doProduceAsync(d, n)
    OBVIOUS
  <1>w. PICK w : w = dispatch_group_enter(o, p)
    OBVIOUS
  <1>t. PICK t : t = <<c>>
    OBVIOUS
  <1>2. /\ Works(v) /\ IsProducer(n) /\ n[1] = v[1]
        /\ \E x \in Range(Later(b)) : x.call \in {"getAll", "leave"} /\ Owes(x, p)
    BY <1>1, <1>v, <1>n, <1>p, HeadFits DEF Fits
  <1>3. Owed(d, p)
    <2>1. PICK x \in Range(Later(b)) : x.call \in {"getAll", "leave"} /\ Owes(x, p)
      BY <1>2
    <2>2. Inner(x) = x /\ x \in Range(b.calls)
      BY <2>1, <1>1, RunningBlock DEF Inner
    <2>3. Owes(Inner(x), p)
      BY <2>1, <2>2
    <2>4. Count(d, p) >= 1 /\ Count(d, p) \in Nat
      BY <2>2, <2>3, <1>1, OwedByBlock, CountIsNat
    <2> QED
      BY <2>4 DEF Owed
  <1>4. PICK new : AskedEffect(d, n, new, o)
    BY <1>1, <1>2, <1>o, AskedIs
  <1>5. IsGcd(o) /\ Adds(d, o, new)
    BY <1>4 DEF AskedEffect, Adds
  <1>6. EnterEffect(o, p, w)
    BY <1>5, <1>w, EnterIs
  <1>7. Adds(d, w, new)
    <2>1. Adds(o, w, {})
      BY <1>5, <1>6, EnterAdds
    <2>2. \A q : QueueOf(w, q).blocks = QueueOf(o, q).blocks
      BY <1>6 DEF EnterEffect
    <2> QED
      BY <2>1, <2>2, <1>1, <1>5, AddsBefore
  <1>8. Fits(c, Range(Later(b)))
    BY <1>2, <1>c, FitsAwaitProducer
  <1>9. e = GoOn(w, b, <<c>> \o Later(b))
    BY <1>c, <1>w, <1>o, <1>p, <1>n, <1>v
  <1>10. /\ Turned(d, w, b, t, new, e) /\ Good(t \o Later(b))
         /\ \A x : N(t, x) = One(c, x)
    BY <1>1, <1>7, <1>8, <1>9, <1>t, TurnedOne
  <1>11. \A x : One(Call(b), x) = 0 /\ One(c, x) = IF x = p THEN 1 ELSE 0
    <2>1. c.call = "awaitProducer" /\ c.wrapper = v
      BY <1>c DEF awaitProducer
    <2> QED
      BY <2>1, <1>p, Costs
  <1>12. PICK k \in {0, 1} : \A x :
            /\ Count(o, x) = Count(d, x) + (IF x = g THEN k ELSE 0)
            /\ Entered(o, x) = Entered(d, x) + (IF x = g THEN k ELSE 0)
    BY <1>4, <1>g DEF AskedEffect
  <1>13. \A x : Count(d, x) \in Nat /\ Entered(d, x) \in Nat
    BY <1>1, CountIsNat, AnyGroup
  <1>14. \A x : Count(e, x) = Count(d, x) + (IF x = g THEN k ELSE 0) + (IF x = p THEN 1 ELSE 0)
    <2>1. \A x : Count(e, x) = Count(w, x) - One(Call(b), x) + One(c, x)
      BY <1>10 DEF Turned
    <2>2. \A x : Count(w, x) = Count(o, x)
      BY <1>6 DEF EnterEffect
    <2> QED
      BY <2>1, <2>2, <1>11, <1>12, <1>13
  <1>15. \A x : Entered(e, x) = Entered(d, x) + (IF x = g THEN k ELSE 0) + (IF x = p THEN 1 ELSE 0)
    <2>1. \A x : Entered(e, x) = Entered(o, x) + (IF x = p THEN 1 ELSE 0)
      BY <1>6, <1>10 DEF Turned, EnterEffect
    <2> QED
      BY <2>1, <1>12, <1>13
  <1>16. Balanced(d, e)
    BY <1>13, <1>14, <1>15 DEF Balanced
  <1>17. FewerTokens(d, e)
    <2>1. \A z : g # StreamToken(z) /\ p # StreamToken(z)
      BY <1>g, <1>p, Names
    <2>2. \A z : Count(e, StreamToken(z)) <= Count(d, StreamToken(z))
      BY <2>1, <1>13, <1>14
    <2> QED
      BY <2>2 DEF FewerTokens
  <1>18. Plain(d, b, w, t, new, e)
    <2>1. \A h : Waiting(w, h) = Waiting(d, h)
      BY <1>4, <1>6 DEF EnterEffect, AskedEffect
    <2>2. \A y \in new : Good(y.calls)
      BY <1>4 DEF AskedEffect
    <2> QED
      BY <2>1, <2>2, <1>10, <1>16, <1>17 DEF Plain
  <1>19. Wanted(d, v)
    BY <1>2, <1>3, <1>p, OwedWanted
  <1>20. WaitsFor(e, v, n)
    <2>1. Inner(c) = c
      BY <1>c DEF Inner, awaitProducer
    <2>2. c \in Range(t \o Later(b))
      <3>1. IsSeq(Later(b))
        BY <1>1, RunningBlock
      <3>2. Range(<<c>> \o Later(b)) = {c} \cup Range(Later(b))
        BY <3>1, Cons
      <3> QED
        BY <3>2, <1>t
    <2>3. c \in Inners(t \o Later(b))
      BY <2>1, <2>2 DEF Inners
    <2>4. c \in Now(e)
      BY <2>3, <1>1, <1>10, NowHas DEF Turned
    <2> QED
      BY <2>4, <1>c DEF WaitsFor
  <1>21. Asks(d, e, n)
    <2>1. ASSUME NEW x, x # g, Owed(e, x)
          PROVE  Owed(d, x)
      <3>1. CASE x = p
        BY <3>1, <1>3
      <3>2. CASE x # p
        BY <3>2, <2>1, <1>13, <1>14 DEF Owed
      <3> QED
        BY <3>1, <3>2
    <2> QED
      BY <2>1, <1>g DEF Asks
  <1>22. Call(b).call \notin SpecialCalls /\ v[1] = n[1]
    BY <1>2 DEF SpecialCalls
  <1> QED
    BY <1>2, <1>18, <1>19, <1>20, <1>21, <1>22, AskOrderly

\* A thread waits for a producer.
LEMMA GetWaitOrderly ==
  ASSUME Modules, NEW d, Orderly(d), NEW b \in Runs(d), Call(b).call = "syncGet",
         IsProducer(Call(b).producer),
         NEW e, e = GoOn(doProduceAsync(d, Call(b).producer), b,
                         <<wait(m_group(Call(b).producer))>> \o Later(b))
  PROVE  Orderly(e)
  <1>1. IsGcd(d) /\ Blocks(d)
    BY DEF Orderly, InOrder
  <1>n. PICK n : n = Call(b).producer
    OBVIOUS
  <1>g. PICK g : g = m_group(n)
    OBVIOUS
  <1>c. PICK c : c = wait(g)
    OBVIOUS
  <1>w. PICK w : w = doProduceAsync(d, n)
    OBVIOUS
  <1>t. PICK t : t = <<c>>
    OBVIOUS
  <1>2. PICK v : Works(v) /\ Ending(v, Range(Later(b))) /\ n[1] = v[1]
    BY <1>1, <1>n, HeadFits DEF Fits
  <1>3. IsProducer(n)
    BY <1>n
  <1>4. PICK new : AskedEffect(d, n, new, w)
    BY <1>1, <1>3, <1>w, AskedIs
  <1>5. Adds(d, w, new)
    BY <1>4 DEF AskedEffect
  <1>8. Fits(c, Range(Later(b)))
    BY <1>2, <1>3, <1>c, <1>g, FitsWaitProducer
  <1>9. e = GoOn(w, b, <<c>> \o Later(b))
    BY <1>c, <1>w, <1>g, <1>n
  <1>10. /\ Turned(d, w, b, t, new, e) /\ Good(t \o Later(b))
         /\ \A x : N(t, x) = One(c, x)
    BY <1>1, <1>5, <1>8, <1>9, <1>t, TurnedOne
  <1>11. \A x : One(Call(b), x) = 0 /\ One(c, x) = 0
    <2>1. c.call \in Reading /\ Call(b).call \in Reading
      BY <1>c DEF wait, Reading
    <2> QED
      BY <2>1, Costs
  <1>12. PICK k \in {0, 1} : \A x :
            /\ Count(w, x) = Count(d, x) + (IF x = g THEN k ELSE 0)
            /\ Entered(w, x) = Entered(d, x) + (IF x = g THEN k ELSE 0)
    BY <1>4, <1>g DEF AskedEffect
  <1>13. \A x : Count(d, x) \in Nat /\ Entered(d, x) \in Nat
    BY <1>1, CountIsNat, AnyGroup
  <1>14. \A x : Count(e, x) = Count(d, x) + (IF x = g THEN k ELSE 0)
    <2>1. \A x : Count(e, x) = Count(w, x) - One(Call(b), x) + One(c, x)
      BY <1>10 DEF Turned
    <2> QED
      BY <2>1, <1>11, <1>12, <1>13
  <1>15. \A x : Entered(e, x) = Entered(d, x) + (IF x = g THEN k ELSE 0)
    BY <1>10, <1>12 DEF Turned
  <1>16. Balanced(d, e)
    BY <1>13, <1>14, <1>15 DEF Balanced
  <1>17. FewerTokens(d, e)
    <2>1. \A z : g # StreamToken(z)
      BY <1>g, Names
    <2>2. \A z : Count(e, StreamToken(z)) <= Count(d, StreamToken(z))
      BY <2>1, <1>13, <1>14
    <2> QED
      BY <2>2 DEF FewerTokens
  <1>18. Plain(d, b, w, t, new, e)
    <2>1. \A h : Waiting(w, h) = Waiting(d, h)
      BY <1>4 DEF AskedEffect
    <2>2. \A y \in new : Good(y.calls)
      BY <1>4 DEF AskedEffect
    <2> QED
      BY <2>1, <2>2, <1>10, <1>16, <1>17 DEF Plain
  <1>19. Wanted(d, v)
    <2>1. Ending(v, Range(b.calls))
      BY <1>1, <1>2, RunningBlock DEF Ending
    <2> QED
      BY <2>1, EndingWanted
  <1>20. WaitsFor(e, v, n)
    <2>r. PICK r : r = t \o Later(b)
      OBVIOUS
    <2>2. Range(r) = {c} \cup Range(Later(b)) /\ r # <<>>
      <3>1. IsSeq(Later(b))
        BY <1>1, RunningBlock
      <3>2. Range(<<c>> \o Later(b)) = {c} \cup Range(Later(b)) /\ <<c>> \o Later(b) # <<>>
        BY <3>1, Cons
      <3> QED
        BY <3>2, <1>t, <2>r
    <2>3. Block(b.queue, r) \in Runs(e) /\ Block(b.queue, r).calls = r
      BY <2>2, <2>r, <1>10 DEF Turned, Stepped, Block
    <2>4. Ending(v, Range(r)) /\ wait(m_group(n)) \in Range(r)
      BY <2>2, <1>2, <1>c, <1>g DEF Ending
    <2> QED
      BY <2>3, <2>4 DEF WaitsFor
  <1>21. Asks(d, e, n)
    <2>1. \A x : x # g => Count(e, x) = Count(d, x)
      BY <1>13, <1>14
    <2> QED
      BY <2>1, <1>g DEF Asks, Owed
  <1>22. Call(b).call \notin SpecialCalls /\ v[1] = n[1]
    BY <1>2 DEF SpecialCalls
  <1> QED
    BY <1>2, <1>3, <1>18, <1>19, <1>20, <1>21, <1>22, AskOrderly

-----------------------------------------------------------------------------
(* Queues that are suspended and resumed. *)

\* That changes nothing in groups and calls.
LEMMA SuspendIs ==
  ASSUME NEW d, IsGcd(d), NEW q, q # Global, NEW w,
         w = dispatch_suspend(d, q) \/ w = dispatch_resume(d, q)
  PROVE  SameGroups(d, w)
  <1>1. QueueOf(d, q).suspended \in Int
    BY AnyQueue DEF IsQueue
  <1>2. CASE w = dispatch_suspend(d, q)
    <2>n. PICK n : n = QueueOf(d, q).suspended + 1
      OBVIOUS
    <2>1. n \in Int /\ w = SetQueue(d, q, [QueueOf(d, q) EXCEPT !.suspended = n])
      BY <1>1, <1>2, <2>n DEF dispatch_suspend
    <2>2. SuspendedEffect(d, q, n, w)
      BY <2>1, SuspendedIs
    <2> QED
      BY <2>2, SameGroupsIs
  <1>3. CASE w = dispatch_resume(d, q)
    <2>n. PICK n : n = QueueOf(d, q).suspended - 1
      OBVIOUS
    <2>1. n \in Int /\ w = SetQueue(d, q, [QueueOf(d, q) EXCEPT !.suspended = n])
      BY <1>1, <1>3, <2>n DEF dispatch_resume
    <2>2. SuspendedEffect(d, q, n, w)
      BY <2>1, SuspendedIs
    <2> QED
      BY <2>2, SameGroupsIs
  <1> QED
    BY <1>2, <1>3

\* A block that suspends the queue it runs in, and has the other suspended.
LEMMA SuspendOwnOrderly ==
  ASSUME Modules, NEW d, Orderly(d), NEW b \in Runs(d), Call(b).call = "suspendOwn",
         NEW q, q # Global,
         NEW e, e = GoOn(dispatch_async(dispatch_suspend(d, q), s_non_thread_safe_queue,
                                        <<Job("suspendUnsafe", Call(b).wrapper, Call(b).at)>>), b, Later(b))
  PROVE  Orderly(e)
  <1>1. IsGcd(d) /\ Blocks(d)
    BY DEF Orderly, InOrder
  <1>v. PICK v : v = Call(b).wrapper
    OBVIOUS
  <1>a. PICK at : at = Call(b).at
    OBVIOUS
  <1>c. PICK c : c = Job("suspendUnsafe", v, at)
    OBVIOUS
  <1>o. PICK o : o = dispatch_suspend(d, q)
    OBVIOUS
  <1>s. PICK s : s = s_non_thread_safe_queue
    OBVIOUS
  <1>2. HasJob(v, at)
    <2>1. IsJob(Call(b))
      BY <1>1, HeadFits DEF Fits, JobCalls
    <2> QED
      BY <2>1, <1>v, <1>a DEF IsJob
  <1>3. Fits(c, {})
    <2>1. Calm({})
      BY DEF Calm
    <2> QED
      BY <2>1, <1>2, <1>c, FitsJob DEF JobCalls
  <1>4. SameGroups(d, o)
    BY <1>1, <1>o, SuspendIs
  <1>5. \A x : /\ One(c, x) = IF x = JobGroup(c) \/ x = <<"run", 0, v[2]>> THEN 1 ELSE 0
               /\ One(Call(b), x) = IF x = JobGroup(c) THEN 1 ELSE 0
    <2>1. c.call = "suspendUnsafe" /\ c.wrapper = v /\ JobGroup(c) = JobGroup(Call(b))
      BY <1>c, <1>v, <1>a DEF Job, JobGroup
    <2>2. Call(b).call \in JobCalls \ {"suspendUnsafe"}
      BY DEF JobCalls
    <2> QED
      BY <2>1, <2>2, Costs
  <1>6. \A g : IsGroup(g) => One(c, g) = One(Call(b), g)
    <2>1. \A g : IsGroup(g) => g # <<"run", 0, v[2]>>
      BY QueueNames
    <2> QED
      BY <2>1, <1>5
  <1>7. \A z \in Streams : One(c, StreamToken(z)) <= One(Call(b), StreamToken(z))
    <2>1. \A z : StreamToken(z) # <<"run", 0, v[2]>>
      BY QueueNames
    <2> QED
      BY <2>1, <1>5
  <1>8. Call(b).call \notin SpecialCalls
    BY DEF SpecialCalls
  <1>9. e = GoOn(dispatch_async(o, s, <<c>>), b, Later(b))
    BY <1>o, <1>s, <1>c, <1>v, <1>a
  <1> QED
    BY <1>3, <1>4, <1>6, <1>7, <1>8, <1>9, HandsOn

\* A block that suspends the queue of all modules that are not thread safe, and
\* has the work done.
LEMMA SuspendUnsafeOrderly ==
  ASSUME Modules, NEW d, Orderly(d), NEW b \in Runs(d), Call(b).call = "suspendUnsafe",
         NEW q, \E y, z : q = <<"run", y, z>>,
         NEW e, e = GoOn(dispatch_async(dispatch_suspend(d, s_non_thread_safe_queue), Global,
                                        <<Job("work", Call(b).wrapper, Call(b).at),
                                          resume(s_non_thread_safe_queue), resume(q)>>), b, Later(b))
  PROVE  Orderly(e)
  <1>1. IsGcd(d) /\ Blocks(d)
    BY DEF Orderly, InOrder
  <1>v. PICK v : v = Call(b).wrapper
    OBVIOUS
  <1>at. PICK at : at = Call(b).at
    OBVIOUS
  <1>c. PICK c : c = Job("work", v, at)
    OBVIOUS
  <1>y. PICK y : y = resume(s_non_thread_safe_queue)
    OBVIOUS
  <1>z. PICK z : z = resume(q)
    OBVIOUS
  <1>o. PICK o : o = dispatch_suspend(d, s_non_thread_safe_queue)
    OBVIOUS
  <1>l. PICK l : l = <<z>>
    OBVIOUS
  <1>m. PICK m : m = <<y>> \o l
    OBVIOUS
  <1>s. PICK s : s = <<c>> \o m
    OBVIOUS
  <1>w. PICK w : w = dispatch_async(o, Global, s)
    OBVIOUS
  <1>n. PICK new : new = {Block(Global, s)}
    OBVIOUS
  <1>t. PICK t : t = <<>>
    OBVIOUS
  <1>2. HasJob(v, at)
    <2>1. IsJob(Call(b))
      BY <1>1, HeadFits DEF Fits, JobCalls
    <2> QED
      BY <2>1, <1>v, <1>at DEF IsJob
  <1>3. /\ IsSeq(l) /\ Range(l) = {z} /\ IsSeq(m) /\ Range(m) = {y, z}
        /\ IsSeq(s) /\ s # <<>>
    <2>1. IsSeq(l) /\ Range(l) = {z}
      BY <1>l, OneElement
    <2>2. IsSeq(m) /\ Range(m) = {y} \cup Range(l)
      BY <2>1, <1>m, Cons
    <2>3. IsSeq(s) /\ s # <<>>
      BY <2>2, <1>s, Cons
    <2> QED
      BY <2>1, <2>2, <2>3
  <1>4. Good(s)
    <2>1. Fits(z, {}) /\ Fits(y, Range(l))
      BY <1>y, <1>z, FitsResume
    <2>2. Good(l)
      BY <2>1, <1>l, GoodOne
    <2>3. Good(m)
      BY <2>1, <2>2, <1>3, <1>m, GoodCons
    <2>4. Calm(Range(m))
      BY <1>3, <1>y, <1>z DEF Calm, Reading, resume
    <2>5. Fits(c, Range(m))
      BY <2>4, <1>2, <1>c, FitsJob DEF JobCalls
    <2> QED
      BY <2>3, <2>5, <1>3, <1>s, GoodCons
  <1>5. SameGroups(d, o)
    <2>1. s_non_thread_safe_queue # Global
      BY NotGlobal
    <2> QED
      BY <2>1, <1>1, <1>o, SuspendIs
  <1>6. IsGcd(o) /\ Adds(d, o, {})
    BY <1>5 DEF SameGroups, Adds
  <1>7. ForkEffect(o, s, w)
    BY <1>3, <1>6, <1>w, ForkIs
  <1>8. Adds(d, w, new) /\ IsGcd(w)
    <2>1. Adds(o, w, new)
      BY <1>6, <1>7, <1>n, ForkAdds
    <2>2. Adds(d, w, new)
      BY <2>1, <1>1, <1>6, AddsThen
    <2> QED
      BY <2>2 DEF Adds
  <1>9. e = GoOn(w, b, Later(b))
    <2>1. <<c, y, z>> = <<c>> \o <<y, z>> /\ <<y, z>> = <<y>> \o <<z>>
      BY Elements
    <2>2. s = <<c, y, z>>
      BY <2>1, <1>s, <1>m, <1>l
    <2> QED
      BY <2>2, <1>w, <1>o, <1>c, <1>y, <1>z, <1>v, <1>at
  <1>10. /\ Turned(d, w, b, t, new, e) /\ t \o Later(b) = Later(b)
         /\ \A x : N(t, x) = 0
    BY <1>1, <1>8, <1>9, <1>t, TurnedNone
  <1>11. Good(t \o Later(b)) /\ IsSeq(t)
    BY <1>1, <1>10, <1>t, HeadFits, OneElement
  <1>12. \A a \in new : Good(a.calls)
    BY <1>n, <1>4 DEF Block
  <1>13. \A x : IsGroup(x) \/ (\E k : x = StreamToken(k)) => N(s, x) = One(Call(b), x)
    <2>1. ASSUME NEW x, IsGroup(x) \/ (\E k : x = StreamToken(k))
          PROVE  N(s, x) = One(Call(b), x)
      <3>1. N(s, x) = One(c, x) + N(m, x)
        BY <1>3, <1>s, NCons
      <3>2. N(m, x) = One(y, x) + N(l, x)
        BY <1>3, <1>m, NCons
      <3>3. N(l, x) = One(z, x)
        BY <1>l, NOne
      <3>4. x # s_non_thread_safe_queue /\ x # q /\ \A k : x # <<"run", 0, k>>
        BY <2>1, QueueNames
      <3>5. One(y, x) = 0 /\ One(z, x) = 0
        BY <3>4, <1>y, <1>z, Costs DEF resume
      <3>6. One(c, x) = One(Call(b), x) /\ One(c, x) \in {0, 1}
        <4>1. c.call \in JobCalls \ {"suspendUnsafe"} /\ JobGroup(c) = JobGroup(Call(b))
          BY <1>c, <1>v, <1>at DEF Job, JobCalls, JobGroup
        <4> QED
          BY <4>1, <3>4, Costs
      <3> QED
        BY <3>1, <3>2, <3>3, <3>5, <3>6
    <2> QED
      BY <2>1
  <1>14. \A x : /\ Count(w, x) = Count(d, x) + N(s, x) /\ Entered(w, x) = Entered(d, x)
                /\ Waiting(w, x) = Waiting(d, x)
    BY <1>5, <1>7 DEF SameGroups, ForkEffect
  <1>15. \A x : One(Call(b), x) \in {0, 1} /\ Count(d, x) \in Nat
    BY <1>1, Costs, CountIsNat
  <1>16. Even(d, b, w, t)
    <2>1. \A g : IsGroup(g) => /\ Entered(w, g) = Entered(d, g)
                               /\ Count(w, g) + N(t, g) = Count(d, g) + One(Call(b), g)
      BY <1>10, <1>13, <1>14, <1>15
    <2>2. \A k \in Streams : Count(w, StreamToken(k)) + N(t, StreamToken(k)) <=
                               Count(d, StreamToken(k)) + One(Call(b), StreamToken(k))
      BY <1>10, <1>13, <1>14, <1>15
    <2> QED
      BY <2>1, <2>2 DEF Even
  <1>17. Call(b).call \notin SpecialCalls
    BY DEF SpecialCalls
  <1> QED
    BY <1>8, <1>10, <1>11, <1>12, <1>14, <1>16, <1>17, Ordinary

-----------------------------------------------------------------------------
(* A module's work *)

\* Calls g owe nothing, and may be made as long as the work of v is to end.
Reader(g, v) ==
    /\ IsSeq(g) /\ \A x : N(g, x) = 0
    /\ \A c \in Range(g) : \A S : Ending(v, S) => Fits(c, S)

\* Nothing, one of the calls of reading, and what comes after another.
LEMMA ReaderIs ==
  ASSUME NEW v, Works(v)
  PROVE  /\ Reader(<<>>, v)
         /\ \A keys : IsSeq(keys) => Reader(Reads(v, keys), v)
         /\ Reader(<<sync(v)>>, v)
         /\ \A key : Reader(<<syncGet(<<v[1], key>>)>>, v)
         /\ \A f, g : Reader(f, v) /\ Reader(g, v) => Reader(f \o g, v)
  <1>1. Reader(<<>>, v)
    BY OneElement, NOne DEF Reader
  <1>2. ASSUME NEW c, c.call \in Reading, \A S : Ending(v, S) => Fits(c, S)
        PROVE  Reader(<<c>>, v)
    <2>l. PICK l : l = <<c>>
      OBVIOUS
    <2>1. IsSeq(l) /\ Range(l) = {c} /\ \A x : N(l, x) = One(c, x)
      BY <2>l, OneElement, NOne
    <2>2. \A x : One(c, x) = 0
      BY <1>2, Costs
    <2>3. Reader(l, v)
      BY <2>1, <2>2, <1>2 DEF Reader
    <2> QED
      BY <2>3, <2>l
  <1>3. ASSUME NEW keys, IsSeq(keys)
        PROVE  Reader(Reads(v, keys), v)
    <2>1. CASE keys = <<>>
      BY <2>1, <1>1 DEF Reads
    <2>2. CASE keys # <<>>
      <3>c. PICK c : c = reads(v, keys)
        OBVIOUS
      <3>1. \A S : Ending(v, S) => Fits(c, S)
        BY <2>2, <1>3, <3>c, FitsReads
      <3>2. c.call \in Reading
        BY <3>c DEF reads, Reading
      <3>3. Reader(<<c>>, v)
        BY <3>1, <3>2, <1>2
      <3> QED
        BY <3>3, <3>c, <2>2 DEF Reads
    <2> QED
      BY <2>1, <2>2
  <1>4. Reader(<<sync(v)>>, v)
    <2>c. PICK c : c = sync(v)
      OBVIOUS
    <2>1. \A S : Ending(v, S) => Fits(c, S)
      BY <2>c, FitsSync
    <2>2. c.call \in Reading
      BY <2>c DEF sync, Reading
    <2>3. Reader(<<c>>, v)
      BY <2>1, <2>2, <1>2
    <2> QED
      BY <2>3, <2>c
  <1>5. ASSUME NEW key
        PROVE  Reader(<<syncGet(<<v[1], key>>)>>, v)
    <2>s. PICK s : s = v[1]
      OBVIOUS
    <2>c. PICK c : c = syncGet(<<s, key>>)
      OBVIOUS
    <2>1. \A S : Ending(v, S) => Fits(c, S)
      BY <2>c, <2>s, FitsSyncGet
    <2>2. c.call \in Reading
      BY <2>c DEF syncGet, Reading
    <2>3. Reader(<<c>>, v)
      BY <2>1, <2>2, <1>2
    <2> QED
      BY <2>3, <2>c, <2>s
  <1>6. ASSUME NEW f, NEW g, Reader(f, v), Reader(g, v)
        PROVE  Reader(f \o g, v)
    <2>1. IsSeq(f) /\ IsSeq(g) /\ \A x : N(f, x) = 0 /\ N(g, x) = 0
      BY <1>6 DEF Reader
    <2>2. IsSeq(f \o g) /\ Range(f \o g) = Range(f) \cup Range(g)
      BY <2>1, Concat
    <2>3. \A x : N(f \o g, x) = N(f, x) + N(g, x)
      BY <2>1, NConcat
    <2>4. \A c \in Range(f) \cup Range(g) : \A S : Ending(v, S) => Fits(c, S)
      BY <1>6 DEF Reader
    <2> QED
      BY <2>1, <2>2, <2>3, <2>4 DEF Reader
  <1> QED
    BY <1>1, <1>3, <1>4, <1>5, <1>6

\* A block that gets data first, and goes on with calls u.
LEMMA ReaderOrderly ==
  ASSUME NEW d, Orderly(d), NEW b \in Runs(d), Call(b).call \notin SpecialCalls,
         NEW w, SameGroups(d, w), NEW v, NEW g, Reader(g, v), NEW u, IsSeq(u),
         Good(u \o Later(b)), Ending(v, Range(u \o Later(b))),
         \A x : N(u, x) = One(Call(b), x),
         NEW e, e = GoOn(w, b, (g \o u) \o Later(b))
  PROVE  Orderly(e)
  <1>1. IsGcd(d) /\ Blocks(d) /\ IsGcd(w) /\ Adds(d, w, {})
    BY DEF Orderly, InOrder, SameGroups, Adds
  <1>2. IsSeq(Later(b)) /\ IsSeq(g) /\ \A x : N(g, x) = 0
    BY <1>1, RunningBlock DEF Reader
  <1>t. PICK t : t = g \o u
    OBVIOUS
  <1>r. PICK r : r = u \o Later(b)
    OBVIOUS
  <1>n. PICK new : new = {}
    OBVIOUS
  <1>3. IsSeq(t) /\ IsSeq(r) /\ t \o Later(b) = g \o r
    BY <1>2, <1>t, <1>r, Concat, Associative
  <1>4. Good(t \o Later(b))
    <2>1. ASSUME NEW c \in Range(g), NEW S, Range(r) \subseteq S
          PROVE  Fits(c, S)
      <3>1. Ending(v, S)
        BY <2>1, <1>r DEF Ending
      <3> QED
        BY <3>1 DEF Reader
    <2>2. Good(r)
      BY <1>r
    <2>3. Good(g \o r)
      BY <2>1, <2>2, <1>2, <1>3, GoodConcat
    <2> QED
      BY <2>3, <1>3
  <1>5. \A x : N(t, x) = One(Call(b), x) /\ One(Call(b), x) \in {0, 1} /\ Count(d, x) \in Nat
    <2>1. \A x : N(t, x) = N(g, x) + N(u, x)
      BY <1>2, <1>t, NConcat
    <2>2. \A x : One(Call(b), x) \in {0, 1} /\ Count(d, x) \in Nat
      BY <1>1, Costs, CountIsNat
    <2> QED
      BY <2>1, <2>2, <1>2
  <1>6. Adds(d, w, new)
    BY <1>1, <1>n
  <1>7. Turned(d, w, b, t, new, e)
    BY <1>1, <1>3, <1>6, <1>t, TurnedIs
  <1>8. Even(d, b, w, t)
    <2>1. \A h : IsGroup(h) => /\ Entered(w, h) = Entered(d, h)
                               /\ Count(w, h) + N(t, h) = Count(d, h) + One(Call(b), h)
      BY <1>5 DEF SameGroups
    <2>2. \A k \in Streams : Count(w, StreamToken(k)) + N(t, StreamToken(k)) <=
                               Count(d, StreamToken(k)) + One(Call(b), StreamToken(k))
      BY <1>5 DEF SameGroups
    <2> QED
      BY <2>1, <2>2 DEF Even
  <1>9. \A a \in new : Good(a.calls)
    BY <1>n
  <1>10. \A h : Waiting(w, h) = Waiting(d, h)
    BY DEF SameGroups
  <1> QED
    BY <1>1, <1>3, <1>4, <1>7, <1>8, <1>9, <1>10, Ordinary

\* The next datum is got, and the queue given up until then.
LEMMA ReadNextOrderly ==
  ASSUME Modules, NEW d, Orderly(d), NEW b \in Runs(d), Call(b).call = "reads",
         NEW w, SameGroups(d, w), NEW key, NEW m \in {<<>>, <<sync(Call(b).wrapper)>>},
         NEW e, e = GoOn(w, b, <<syncGet(<<Call(b).wrapper[1], key>>)>> \o m
                                 \o Reads(Call(b).wrapper, Tail(Call(b).keys)) \o Later(b))
  PROVE  Orderly(e)
  <1>1. IsGcd(d) /\ Blocks(d)
    BY DEF Orderly, InOrder
  <1>v. PICK v : v = Call(b).wrapper
    OBVIOUS
  <1>k. PICK keys : keys = Tail(Call(b).keys)
    OBVIOUS
  <1>a. PICK a : a = <<syncGet(<<v[1], key>>)>>
    OBVIOUS
  <1>r. PICK r : r = Reads(v, keys)
    OBVIOUS
  <1>2. Works(v) /\ IsSeq(keys) /\ Ending(v, Range(Later(b)))
    <2>1. /\ Works(Call(b).wrapper) /\ IsSeq(Call(b).keys) /\ Call(b).keys # <<>>
          /\ Ending(Call(b).wrapper, Range(Later(b)))
      BY <1>1, HeadFits DEF Fits
    <2> QED
      BY <2>1, <1>v, <1>k, HeadTail
  <1>3. Reader(a, v) /\ Reader(r, v)
    BY <1>2, <1>a, <1>r, ReaderIs
  <1>4. Reader(m, v)
    <2>1. CASE m = <<>>
      BY <2>1, <1>2, ReaderIs
    <2>2. CASE m = <<sync(v)>>
      BY <2>2, <1>2, ReaderIs
    <2> QED
      BY <2>1, <2>2, <1>v
  <1>f. PICK f : f = a \o m
    OBVIOUS
  <1>5. Reader(f, v)
    BY <1>2, <1>3, <1>4, <1>f, ReaderIs
  <1>g. PICK g : g = f \o r
    OBVIOUS
  <1>6. Reader(g, v)
    BY <1>2, <1>3, <1>5, <1>g, ReaderIs
  <1>u. PICK u : u = <<>>
    OBVIOUS
  <1>7. IsSeq(u) /\ g \o u = g /\ u \o Later(b) = Later(b) /\ \A x : N(u, x) = 0
    <2>1. IsSeq(g) /\ IsSeq(Later(b))
      BY <1>1, <1>6, RunningBlock DEF Reader
    <2> QED
      BY <2>1, <1>u, OneElement, ConcatCons, NOne
  <1>8. e = GoOn(w, b, (g \o u) \o Later(b))
    BY <1>7, <1>g, <1>f, <1>a, <1>r, <1>v, <1>k
  <1>9. Good(u \o Later(b)) /\ Ending(v, Range(u \o Later(b)))
    BY <1>1, <1>2, <1>7, HeadFits
  <1>10. \A x : N(u, x) = One(Call(b), x)
    BY <1>7, Costs DEF Reading
  <1>11. Call(b).call \notin SpecialCalls
    BY DEF SpecialCalls
  <1> QED
    BY <1>6, <1>7, <1>8, <1>9, <1>10, <1>11, ReaderOrderly

\* What a module gets by label.
LEMMA GetByLabelIs ==
  ASSUME Modules, NEW v, Works(v)
  PROVE  Reader(GetByLabel(v), v)
  <1>1. v[2][1] \in DOMAIN module
    <2>1. CASE IsProducer(v)
      BY <2>1, PairIs DEF IsProducer, Modules
    <2>2. CASE IsFilter(v)
      <3>1. v[2] \in {<<l, "">> : l \in {x \in DOMAIN module : module[x].base = "filter"}}
        BY <2>2, PairIs DEF IsFilter
      <3>2. PICK l \in DOMAIN module : v[2] = <<l, "">>
        BY <3>1
      <3>k. PICK k : k = <<l, "">>
        OBVIOUS
      <3>3. k[1] = l
        BY <3>k
      <3> QED
        BY <3>2, <3>k, <3>3
    <2> QED
      BY <2>1, <2>2 DEF Works
  <1>2. IsSeq(module[v[2][1]].reads)
    BY <1>1 DEF Modules, IsModule
  <1>3. Reader(Reads(v, module[v[2][1]].reads), v) /\ Reader(<<>>, v)
    BY <1>2, ReaderIs
  <1> QED
    BY <1>3 DEF GetByLabel

\* A filter works, or has.
LEMMA BeginFilterOrderly ==
  ASSUME Modules, NEW d, Orderly(d), NEW b \in Runs(d), Call(b).call = "work", Call(b).at # <<>>,
         NEW e, \/ e = GoOn(d, b, <<>> \o <<Job("next", Call(b).wrapper, Call(b).at)>> \o Later(b))
                \/ e = GoOn(d, b, (GetByLabel(Call(b).wrapper) \o <<filtered(Call(b).wrapper)>>)
                                     \o <<Job("next", Call(b).wrapper, Call(b).at)>> \o Later(b))
  PROVE  Orderly(e)
  <1>1. IsGcd(d) /\ Blocks(d)
    BY DEF Orderly, InOrder
  <1>v. PICK v : v = Call(b).wrapper
    OBVIOUS
  <1>at. PICK at : at = Call(b).at
    OBVIOUS
  <1>c. PICK c : c = Job("next", v, at)
    OBVIOUS
  <1>g. PICK g : g = GetByLabel(v)
    OBVIOUS
  <1>y. PICK y : y = filtered(v)
    OBVIOUS
  <1>2. /\ HasJob(v, at) /\ Works(v) /\ Calm(Range(Later(b)))
        /\ IsFilterAt(v, at) /\ IsFilter(v)
    <2>1. IsJob(Call(b)) /\ Calm(Range(Later(b)))
      BY <1>1, HeadFits DEF Fits, JobCalls
    <2> QED
      BY <2>1, <1>v, <1>at, JobIs DEF IsJob
  <1>3. Fits(c, Range(Later(b)))
    BY <1>2, <1>c, <1>at, FitsJob DEF JobCalls
  <1>4. \A x : One(c, x) = One(Call(b), x) /\ One(c, x) \in {0, 1}
    <2>1. c.call \in JobCalls \ {"suspendUnsafe"} /\ JobGroup(c) = JobGroup(Call(b))
      BY <1>c, <1>v, <1>at DEF Job, JobCalls, JobGroup
    <2>2. Call(b).call \in JobCalls \ {"suspendUnsafe"}
      BY DEF JobCalls
    <2> QED
      BY <2>1, <2>2, Costs
  <1>5. Call(b).call \notin SpecialCalls /\ SameGroups(d, d)
    BY <1>1, SameGroupsIs DEF SpecialCalls
  <1>l. PICK l : l = <<c>>
    OBVIOUS
  <1>6. IsSeq(l) /\ IsSeq(Later(b)) /\ \A x : N(l, x) = One(c, x)
    BY <1>1, <1>l, RunningBlock, OneElement, NOne
  <1>7. CASE e = GoOn(d, b, <<>> \o <<Job("next", Call(b).wrapper, Call(b).at)>> \o Later(b))
    <2>1. <<>> \o l = l
      BY <1>6, ConcatCons
    <2>2. e = GoOn(d, b, <<c>> \o Later(b))
      BY <2>1, <1>7, <1>l, <1>c, <1>v, <1>at
    <2>3. \A s \in Streams : One(c, StreamToken(s)) <= One(Call(b), StreamToken(s))
      BY <1>4
    <2> QED
      BY <2>2, <2>3, <1>3, <1>4, <1>5, Replaces
  <1>8. CASE e = GoOn(d, b, (GetByLabel(Call(b).wrapper) \o <<filtered(Call(b).wrapper)>>)
                               \o <<Job("next", Call(b).wrapper, Call(b).at)>> \o Later(b))
    <2>f. PICK f : f = <<y>>
      OBVIOUS
    <2>u. PICK u : u = f \o l
      OBVIOUS
    <2>r. PICK r : r = l \o Later(b)
      OBVIOUS
    <2>1. Reader(g, v)
      BY <1>2, <1>g, GetByLabelIs
    <2>2. IsSeq(g) /\ IsSeq(f) /\ IsSeq(u) /\ IsSeq(r)
      BY <2>1, <2>f, <2>u, <2>r, <1>6, OneElement, Concat DEF Reader
    <2>3. (g \o f) \o l = g \o u
      <3>1. IsSeq(g) /\ IsSeq(f) /\ IsSeq(l)
        BY <2>2, <1>6
      <3>2. (g \o f) \o l = g \o (f \o l)
        BY <3>1, Associative
      <3> QED
        BY <3>2, <2>u
    <2>4. e = GoOn(d, b, (g \o u) \o Later(b))
      BY <2>3, <2>f, <1>8, <1>g, <1>y, <1>l, <1>c, <1>v, <1>at
    <2>5. u \o Later(b) = <<y>> \o r
      BY <2>2, <2>u, <2>r, <2>f, <1>6, Associative
    <2>6. Good(r) /\ Range(r) = {c} \cup Range(Later(b))
      <3>1. Good(Later(b))
        BY <1>1, HeadFits
      <3>2. r = <<c>> \o Later(b)
        BY <1>l, <2>r
      <3>3. Fits(c, Range(Later(b)))
        BY <1>3
      <3>4. Good(<<c>> \o Later(b))
        BY <1>6, <3>1, <3>3, GoodCons
      <3>5. Range(<<c>> \o Later(b)) = {c} \cup Range(Later(b))
        BY <1>6, Cons
      <3> QED
        BY <3>2, <3>4, <3>5
    <2>7. Fits(y, Range(r))
      <3>1. Calm(Range(r))
        BY <2>6, <1>2, <1>c DEF Calm, Job, Reading
      <3> QED
        BY <3>1, <2>6, <1>2, <1>y, <1>c, FitsFiltered
    <2>8. Good(u \o Later(b)) /\ Ending(v, Range(u \o Later(b)))
      <3>1. Good(<<y>> \o r)
        BY <2>2, <2>6, <2>7, GoodCons
      <3>2. Range(<<y>> \o r) = {y} \cup Range(r)
        BY <2>2, Cons
      <3> QED
        BY <3>1, <3>2, <2>5, <1>y DEF Ending
    <2>9. \A x : N(u, x) = One(Call(b), x)
      <3>1. \A x : N(u, x) = N(f, x) + N(l, x)
        BY <2>2, <2>u, <1>6, NConcat
      <3>2. \A x : N(f, x) = One(y, x)
        BY <2>f, NOne
      <3>3. \A x : One(y, x) = 0
        BY <1>y, Costs DEF filtered, Reading
      <3> QED
        BY <3>1, <3>2, <3>3, <1>4, <1>6
    <2> QED
      BY <2>1, <2>2, <2>4, <2>8, <2>9, <1>5, ReaderOrderly
  <1> QED
    BY <1>7, <1>8

\* A producer works, or has.
LEMMA BeginProduceOrderly ==
  ASSUME Modules, NEW d, Orderly(d), NEW b \in Runs(d), Call(b).call = "work", Call(b).at = <<>>,
         NEW e, \/ e = GoOn(d, b, <<>> \o <<leave(m_group(Call(b).wrapper))>> \o Later(b))
                \/ e = GoOn(d, b, (GetByLabel(Call(b).wrapper)
                                     \o <<put(Call(b).wrapper), ran(Call(b).wrapper)>>)
                                     \o <<leave(m_group(Call(b).wrapper))>> \o Later(b))
  PROVE  Orderly(e)
  <1>1. IsGcd(d) /\ Blocks(d)
    BY DEF Orderly, InOrder
  <1>v. PICK v : v = Call(b).wrapper
    OBVIOUS
  <1>h. PICK h : h = m_group(v)
    OBVIOUS
  <1>c. PICK c : c = leave(h)
    OBVIOUS
  <1>g. PICK g : g = GetByLabel(v)
    OBVIOUS
  <1>y. PICK y : y = put(v)
    OBVIOUS
  <1>z. PICK z : z = ran(v)
    OBVIOUS
  <1>2. IsProducer(v) /\ Works(v) /\ Calm(Range(Later(b))) /\ JobGroup(Call(b)) = h
    <2>1. IsJob(Call(b)) /\ Calm(Range(Later(b)))
      BY <1>1, HeadFits DEF Fits, JobCalls
    <2> QED
      BY <2>1, <1>v, <1>h, JobIs DEF IsJob
  <1>3. \A S : Fits(c, S)
    BY <1>2, <1>c, <1>h, FitsLeave DEF IsGroup
  <1>4. \A x : One(c, x) = One(Call(b), x) /\ One(c, x) \in {0, 1}
    <2>1. c.call = "leave" /\ c.group = h
      BY <1>c DEF leave
    <2>2. Call(b).call \in JobCalls \ {"suspendUnsafe"}
      BY DEF JobCalls
    <2> QED
      BY <2>1, <2>2, <1>2, Costs
  <1>5. Call(b).call \notin SpecialCalls /\ SameGroups(d, d)
    BY <1>1, SameGroupsIs DEF SpecialCalls
  <1>l. PICK l : l = <<c>>
    OBVIOUS
  <1>6. IsSeq(l) /\ IsSeq(Later(b)) /\ \A x : N(l, x) = One(c, x)
    BY <1>1, <1>l, RunningBlock, OneElement, NOne
  <1>7. CASE e = GoOn(d, b, <<>> \o <<leave(m_group(Call(b).wrapper))>> \o Later(b))
    <2>1. <<>> \o l = l
      BY <1>6, ConcatCons
    <2>2. e = GoOn(d, b, <<c>> \o Later(b))
      BY <2>1, <1>7, <1>l, <1>c, <1>v, <1>h
    <2>3. \A s \in Streams : One(c, StreamToken(s)) <= One(Call(b), StreamToken(s))
      BY <1>4
    <2> QED
      BY <2>2, <2>3, <1>3, <1>4, <1>5, Replaces
  <1>8. CASE e = GoOn(d, b, (GetByLabel(Call(b).wrapper)
                               \o <<put(Call(b).wrapper), ran(Call(b).wrapper)>>)
                               \o <<leave(m_group(Call(b).wrapper))>> \o Later(b))
    <2>f. PICK f : f = <<y, z>>
      OBVIOUS
    <2>k. PICK k : k = <<z>>
      OBVIOUS
    <2>u. PICK u : u = f \o l
      OBVIOUS
    <2>r. PICK r : r = l \o Later(b)
      OBVIOUS
    <2>q. PICK q : q = k \o r
      OBVIOUS
    <2>1. Reader(g, v)
      BY <1>2, <1>g, GetByLabelIs
    <2>0. f = <<y>> \o k /\ IsSeq(k) /\ IsSeq(<<y>>)
      BY <2>f, <2>k, Elements, OneElement
    <2>2. IsSeq(g) /\ IsSeq(f) /\ IsSeq(u) /\ IsSeq(r) /\ IsSeq(q)
      <3>1. IsSeq(f)
        BY <2>0, Concat
      <3> QED
        BY <3>1, <2>1, <2>0, <2>u, <2>r, <2>q, <1>6, Concat DEF Reader
    <2>3. (g \o f) \o l = g \o u
      <3>1. IsSeq(g) /\ IsSeq(f) /\ IsSeq(l)
        BY <2>2, <1>6
      <3>2. (g \o f) \o l = g \o (f \o l)
        BY <3>1, Associative
      <3> QED
        BY <3>2, <2>u
    <2>4. e = GoOn(d, b, (g \o u) \o Later(b))
      BY <2>3, <2>f, <1>8, <1>g, <1>y, <1>z, <1>l, <1>c, <1>v, <1>h
    <2>5. u \o Later(b) = <<y>> \o q
      <3>j. PICK j : j = <<y>>
        OBVIOUS
      <3>1. f = j \o k /\ IsSeq(j) /\ IsSeq(k) /\ IsSeq(r)
        BY <2>0, <2>2, <3>j
      <3>2. u \o Later(b) = f \o r
        <4>1. IsSeq(f) /\ IsSeq(l) /\ IsSeq(Later(b))
          BY <2>2, <1>6
        <4>2. (f \o l) \o Later(b) = f \o (l \o Later(b))
          BY <4>1, Associative
        <4> QED
          BY <4>2, <2>u, <2>r
      <3>3. (j \o k) \o r = j \o (k \o r)
        BY <3>1, Associative
      <3>4. u \o Later(b) = j \o q
        BY <3>1, <3>2, <3>3, <2>q
      <3> QED
        BY <3>4, <3>j
    <2>6. Good(r) /\ Range(r) = {c} \cup Range(Later(b))
      <3>1. Good(Later(b))
        BY <1>1, HeadFits
      <3>2. r = <<c>> \o Later(b)
        BY <1>l, <2>r
      <3>3. Fits(c, Range(Later(b)))
        BY <1>3
      <3>4. Good(<<c>> \o Later(b))
        BY <1>6, <3>1, <3>3, GoodCons
      <3>5. Range(<<c>> \o Later(b)) = {c} \cup Range(Later(b))
        BY <1>6, Cons
      <3> QED
        BY <3>2, <3>4, <3>5
    <2>7. Good(q) /\ Range(q) = {z} \cup Range(r)
      <3>1. Fits(z, Range(r))
        BY <2>6, <1>2, <1>z, <1>c, <1>h, FitsRan
      <3>2. q = <<z>> \o r
        BY <2>k, <2>q
      <3>3. Good(<<z>> \o r)
        BY <3>1, <2>2, <2>6, GoodCons
      <3>4. Range(<<z>> \o r) = {z} \cup Range(r)
        BY <2>2, Cons
      <3> QED
        BY <3>2, <3>3, <3>4
    <2>8. Good(u \o Later(b)) /\ Ending(v, Range(u \o Later(b)))
      <3>1. Calm(Range(q))
        BY <2>6, <2>7, <1>2, <1>c, <1>z DEF Calm, leave, ran, Reading
      <3>2. Fits(y, Range(q))
        BY <3>1, <2>6, <2>7, <1>2, <1>y, <1>c, <1>h, FitsPut
      <3>3. Good(<<y>> \o q)
        BY <3>2, <2>2, <2>7, GoodCons
      <3>4. Range(<<y>> \o q) = {y} \cup Range(q)
        BY <2>2, Cons
      <3> QED
        BY <3>3, <3>4, <2>5, <1>y DEF Ending
    <2>9. \A x : N(u, x) = One(Call(b), x)
      <3>1. \A x : N(u, x) = N(f, x) + N(l, x)
        BY <2>2, <2>u, <1>6, NConcat
      <3>2. \A x : N(f, x) = One(y, x) + N(k, x)
        BY <2>0, NCons
      <3>3. \A x : N(k, x) = One(z, x)
        BY <2>k, NOne
      <3>4. \A x : One(y, x) = 0 /\ One(z, x) = 0
        BY <1>y, <1>z, Costs DEF put, ran, Reading
      <3> QED
        BY <3>1, <3>2, <3>3, <3>4, <1>4, <1>6
    <2> QED
      BY <2>1, <2>2, <2>4, <2>8, <2>9, <1>5, ReaderOrderly
  <1> QED
    BY <1>7, <1>8

\* A queue that has to be suspended again, by a block that is waited for.
LEMMA SyncOrderly ==
  ASSUME Modules, NEW d, Orderly(d), NEW b \in Runs(d), Call(b).call = "sync",
         NEW e, e = GoOn(dispatch_async(dispatch_group_enter(d, Lock(Call(b).wrapper)),
                                        s_non_thread_safe_queue, <<lock(Call(b).wrapper)>>), b,
                         <<wait(Lock(Call(b).wrapper))>> \o Later(b))
  PROVE  Orderly(e)
  <1>1. IsGcd(d) /\ Blocks(d)
    BY DEF Orderly, InOrder
  <1>v. PICK v : v = Call(b).wrapper
    OBVIOUS
  <1>g. PICK g : g = Lock(v)
    OBVIOUS
  <1>c. PICK c : c = lock(v)
    OBVIOUS
  <1>y. PICK y : y = wait(g)
    OBVIOUS
  <1>s. PICK s : s = s_non_thread_safe_queue
    OBVIOUS
  <1>o. PICK o : o = dispatch_group_enter(d, g)
    OBVIOUS
  <1>w. PICK w : w = dispatch_async(o, s, <<c>>)
    OBVIOUS
  <1>n. PICK new : new = {Block(s, <<c>>)}
    OBVIOUS
  <1>t. PICK t : t = <<y>>
    OBVIOUS
  <1>2. Works(v) /\ Ending(v, Range(Later(b)))
    BY <1>1, <1>v, HeadFits DEF Fits
  <1>3. EnterEffect(d, g, o)
    BY <1>1, <1>o, EnterIs
  <1>4. IsGcd(o) /\ Adds(d, o, {})
    BY <1>1, <1>3, EnterAdds DEF EnterEffect
  <1>5. AsyncEffect(o, s, c, w)
    BY <1>4, <1>w, AsyncIs
  <1>6. Adds(d, w, new)
    <2>1. Adds(o, w, new)
      BY <1>5, <1>n DEF AsyncEffect
    <2> QED
      BY <2>1, <1>1, <1>4, AddsThen
  <1>7. Fits(y, Range(Later(b))) /\ Fits(c, {})
    BY <1>2, <1>y, <1>g, <1>c, FitsWaitLock, FitsLock
  <1>8. e = GoOn(w, b, <<y>> \o Later(b))
    BY <1>w, <1>o, <1>g, <1>s, <1>c, <1>y, <1>v
  <1>9. /\ Turned(d, w, b, t, new, e) /\ Good(t \o Later(b))
        /\ \A x : N(t, x) = One(y, x)
    BY <1>1, <1>6, <1>7, <1>8, <1>t, TurnedOne
  <1>10. \A x : One(Call(b), x) = 0 /\ One(y, x) = 0 /\ One(c, x) = IF x = g THEN 1 ELSE 0
    <2>1. y.call \in Reading /\ Call(b).call \in Reading
      BY <1>y DEF wait, Reading
    <2>2. c.call = "lock" /\ c.wrapper = v
      BY <1>c DEF lock
    <2> QED
      BY <2>1, <2>2, <1>g, Costs
  <1>11. \A x : Count(d, x) \in Nat /\ Entered(d, x) \in Nat
    BY <1>1, CountIsNat, AnyGroup
  <1>12. \A x : Count(e, x) = Count(d, x) + (IF x = g THEN 1 ELSE 0)
    <2>1. \A x : Count(e, x) = Count(w, x) - One(Call(b), x) + One(y, x)
      BY <1>9 DEF Turned
    <2>2. \A x : Count(w, x) = Count(o, x) + One(c, x)
      BY <1>5 DEF AsyncEffect
    <2>3. \A x : Count(o, x) = Count(d, x)
      BY <1>3 DEF EnterEffect
    <2> QED
      BY <2>1, <2>2, <2>3, <1>10, <1>11
  <1>13. \A x : Entered(e, x) = Entered(d, x) + (IF x = g THEN 1 ELSE 0)
    <2>1. \A x : Entered(e, x) = Entered(o, x)
      BY <1>9, <1>5 DEF Turned, AsyncEffect
    <2> QED
      BY <2>1, <1>3 DEF EnterEffect
  <1>14. Balanced(d, e)
    BY <1>11, <1>12, <1>13 DEF Balanced
  <1>15. \A z, x : /\ g # StreamToken(z) /\ g # m_allPathsDoneGroup(z)
                   /\ g # m_group(x) /\ g # prefetchGroup(x)
    BY <1>g, Names
  <1>16. FewerTokens(d, e)
    <2>1. \A z : Count(e, StreamToken(z)) <= Count(d, StreamToken(z))
      BY <1>11, <1>12, <1>15
    <2> QED
      BY <2>1 DEF FewerTokens
  <1>17. Plain(d, b, w, t, new, e)
    <2>1. \A h : Waiting(w, h) = Waiting(o, h)
      BY <1>5 DEF AsyncEffect
    <2>2. \A h : Waiting(o, h) = Waiting(d, h)
      BY <1>3 DEF EnterEffect
    <2>3. \A a \in new : Good(a.calls)
      BY <1>7, <1>n, GoodBlock
    <2> QED
      BY <2>1, <2>2, <2>3, <1>9, <1>14, <1>16 DEF Plain
  <1>18. NoneAsked(d, e)
    BY <1>11, <1>12, <1>15 DEF NoneAsked, Owed
  <1>19. LockAwaited(e, v)
    <2>r. PICK r : r = t \o Later(b)
      OBVIOUS
    <2>1. y \in Range(r) /\ r # <<>>
      <3>1. IsSeq(Later(b))
        BY <1>1, RunningBlock
      <3>2. Range(<<y>> \o Later(b)) = {y} \cup Range(Later(b)) /\ <<y>> \o Later(b) # <<>>
        BY <3>1, Cons
      <3> QED
        BY <3>2, <1>t, <2>r
    <2>2. Block(b.queue, r) \in Runs(e) /\ Block(b.queue, r).calls = r
      BY <2>1, <2>r, <1>9 DEF Turned, Stepped, Block
    <2> QED
      BY <2>1, <2>2, <1>y, <1>g DEF LockAwaited
  <1>20. Debts(d, e)
    <2>1. \A z \in Streams : Owed(e, m_allPathsDoneGroup(z)) => Owed(d, m_allPathsDoneGroup(z))
      BY <1>12, <1>11, <1>15 DEF Owed
    <2>2. \A x : Owed(e, prefetchGroup(x)) => Owed(d, prefetchGroup(x))
      BY <1>12, <1>11, <1>15 DEF Owed
    <2>3. ASSUME NEW x, Entered(e, Lock(x)) # 0
          PROVE  Entered(d, Lock(x)) # 0 \/ LockAwaited(e, x)
      <3>1. CASE Lock(x) = g
        <4>1. x = v
          BY <3>1, <1>g, Names
        <4> QED
          BY <4>1, <1>19
      <3>2. CASE Lock(x) # g
        BY <3>2, <2>3, <1>13, <1>11
      <3> QED
        BY <3>1, <3>2
    <2> QED
      BY <2>1, <2>2, <2>3 DEF Debts
  <1>21. Call(b).call \notin SpecialCalls
    BY DEF SpecialCalls
  <1> QED
    BY <1>17, <1>18, <1>20, <1>21, PlainDebts

\* Nobody is told when a queue has been suspended again.
LEMMA NobodyNoted ==
  ASSUME NEW d, IsGcd(d), Blocks(d), NEW v
  PROVE  Waiting(d, Lock(v)) = <<>>
  <1>1. \A c : ~IsNoted(Lock(v), c)
    BY Names DEF IsNoted
  <1>2. \A c \in Range(Waiting(d, Lock(v))) : FALSE
    BY <1>1 DEF Blocks
  <1>s. PICK s : s = Waiting(d, Lock(v))
    OBVIOUS
  <1>3. IsSeq(s)
    BY <1>s, AnyGroup
  <1>4. s # <<>> => Head(s) \in Range(s)
    BY <1>3, HeadTail
  <1> QED
    BY <1>2, <1>4, <1>s

\* The queue is suspended again.
LEMMA SuspendAgainOrderly ==
  ASSUME NEW d, Orderly(d), NEW b \in Runs(d), Call(b).call = "lock",
         NEW q, q # Global,
         NEW e, e = GoOn(dispatch_group_leave(dispatch_suspend(d, q), Lock(Call(b).wrapper)), b, Later(b))
  PROVE  Orderly(e)
  <1>1. IsGcd(d) /\ Blocks(d) /\ Groups(d)
    BY DEF Orderly, InOrder
  <1>v. PICK v : v = Call(b).wrapper
    OBVIOUS
  <1>g. PICK g : g = Lock(v)
    OBVIOUS
  <1>o. PICK o : o = dispatch_suspend(d, q)
    OBVIOUS
  <1>w. PICK w : w = dispatch_group_leave(o, g)
    OBVIOUS
  <1>t. PICK t : t = <<>>
    OBVIOUS
  <1>n. PICK new : new = {}
    OBVIOUS
  <1>2. Works(v) /\ IsGroup(g)
    BY <1>1, <1>v, <1>g, HeadFits DEF Fits, IsGroup
  <1>3. SameGroups(d, o)
    BY <1>1, <1>o, SuspendIs
  <1>4. IsGcd(o) /\ Adds(d, o, {})
    BY <1>3 DEF SameGroups, Adds
  <1>5. LeaveEffect(o, g, w)
    BY <1>4, <1>w, LeaveIs
  <1>6. Waiting(d, g) = <<>> /\ ToSubmit(o, g) = <<>>
    <2>1. Waiting(d, g) = <<>>
      BY <1>1, <1>g, NobodyNoted
    <2>2. Waiting(o, g) = Waiting(d, g)
      BY <1>3 DEF SameGroups
    <2> QED
      BY <2>1, <2>2 DEF ToSubmit
  <1>7. Adds(d, w, new)
    <2>1. Adds(o, w, new)
      BY <1>4, <1>5, <1>n, LeaveAdds
    <2> QED
      BY <2>1, <1>1, <1>4, AddsThen
  <1>8. e = GoOn(w, b, Later(b))
    BY <1>w, <1>o, <1>g, <1>v
  <1>9. Turned(d, w, b, t, new, e) /\ t \o Later(b) = Later(b) /\ \A x : N(t, x) = 0
    BY <1>1, <1>7, <1>8, <1>t, TurnedNone
  <1>10. Good(t \o Later(b))
    BY <1>1, <1>9, HeadFits
  <1>11. \A x : One(Call(b), x) = IF x = g THEN 1 ELSE 0
    BY <1>g, <1>v, Costs
  <1>12. \A x : Count(d, x) \in Nat /\ Count(e, x) \in Nat /\ Entered(d, x) \in Nat
    <2>1. IsGcd(e)
      BY <1>9 DEF Turned, Stepped
    <2> QED
      BY <2>1, <1>1, CountIsNat, AnyGroup
  <1>13. \A x : Count(e, x) = Count(d, x) - (IF x = g THEN 1 ELSE 0)
    <2>1. \A x : Count(e, x) = Count(w, x) - One(Call(b), x) + N(t, x)
      BY <1>9 DEF Turned
    <2>2. \A x : Count(w, x) = Count(o, x) - N(<<>>, x)
      BY <1>5, <1>6 DEF LeaveEffect
    <2>3. \A x : Count(o, x) = Count(d, x)
      BY <1>3 DEF SameGroups
    <2> QED
      BY <2>1, <2>2, <2>3, <1>9, <1>11, <1>12, <1>t
  <1>14. Entered(d, g) > 0
    <2>1. Count(e, g) = Count(d, g) - 1
      BY <1>13
    <2>2. Entered(d, g) = Count(d, g)
      BY <1>1, <1>2 DEF Groups
    <2> QED
      BY <2>1, <2>2, <1>12
  <1>15. \A x : Entered(e, x) = Entered(d, x) - (IF x = g THEN 1 ELSE 0)
    <2>1. \A x : Entered(o, x) = Entered(d, x)
      BY <1>3 DEF SameGroups
    <2>2. \A x : Entered(e, x) = Entered(w, x)
      BY <1>9 DEF Turned
    <2>3. \A x : Entered(w, x) = IF x = g /\ Entered(o, g) > 0 THEN Entered(o, g) - 1 ELSE Entered(o, x)
      BY <1>5 DEF LeaveEffect
    <2> QED
      BY <2>1, <2>2, <2>3, <1>14, <1>12
  <1>16. Balanced(d, e)
    BY <1>12, <1>13, <1>15 DEF Balanced
  <1>17. FewerTokens(d, e)
    BY <1>12, <1>13 DEF FewerTokens
  <1>18. NotMore(d, e)
    BY <1>12, <1>13 DEF NotMore, Owed
  <1>19. Plain(d, b, w, t, new, e)
    <2>1. \A h : Waiting(w, h) = IF h = g /\ IsLast(o, g) THEN <<>> ELSE Waiting(o, h)
      BY <1>5 DEF LeaveEffect
    <2>2. \A h : Waiting(o, h) = Waiting(d, h)
      BY <1>3 DEF SameGroups
    <2>3. \A h : Waiting(w, h) = Waiting(d, h)
      BY <2>1, <2>2, <1>6
    <2>4. \A a \in new : Good(a.calls)
      BY <1>n
    <2> QED
      BY <2>3, <2>4, <1>9, <1>10, <1>16, <1>17 DEF Plain
  <1>20. Call(b).call \notin SpecialCalls
    BY DEF SpecialCalls
  <1> QED
    BY <1>18, <1>19, <1>20, PlainOrderly

\* A group that is empty is waited for no longer.
LEMMA WaitOrderly ==
  ASSUME NEW d, Orderly(d), NEW b \in Runs(d), Call(b).call = "wait",
         Entered(d, Call(b).group) = 0, NEW e, e = GoOn(d, b, Later(b))
  PROVE  Orderly(e)
  <1>1. IsGcd(d) /\ Blocks(d) /\ Groups(d)
    BY DEF Orderly, InOrder
  <1>t. PICK t : t = <<>>
    OBVIOUS
  <1>n. PICK new : new = {}
    OBVIOUS
  <1>2. Adds(d, d, new)
    BY <1>1, <1>n, AddsRefl
  <1>3. Turned(d, d, b, t, new, e) /\ t \o Later(b) = Later(b) /\ \A x : N(t, x) = 0
    BY <1>1, <1>2, <1>t, TurnedNone
  <1>4. Good(t \o Later(b)) /\ \A a \in new : Good(a.calls)
    BY <1>1, <1>3, <1>n, HeadFits
  <1>5. \A x : One(Call(b), x) = 0 /\ Count(d, x) \in Nat
    BY <1>1, CountIsNat, Costs DEF Reading
  <1>6. \A x : Count(e, x) = Count(d, x) /\ Entered(e, x) = Entered(d, x)
    BY <1>3, <1>5 DEF Turned
  <1>7. SameSums(d, e) /\ IsGcd(e)
    BY <1>3, <1>5, <1>6 DEF SameSums, Turned, Stepped
  <1>8. Balanced(d, e) /\ FewerTokens(d, e) /\ NotMore(d, e)
    BY <1>1, <1>7, SameSumsIs
  <1>9. Plain(d, b, d, t, new, e)
    BY <1>3, <1>4, <1>8 DEF Plain
  <1>10. IsGcd(e) /\ Blocks(e) /\ Groups(e) /\ Tokens(e) /\ Still(d, b, Global, e)
    BY <1>9, PlainAfter
  <1>11. \A n : IsProducer(n) /\ Call(b) = wait(m_group(n)) => ~Owed(e, m_group(n))
    <2>1. ASSUME NEW n, IsProducer(n), Call(b) = wait(m_group(n))
          PROVE  ~Owed(e, m_group(n))
      <3>1. Call(b).group = m_group(n) /\ IsGroup(m_group(n))
        BY <2>1 DEF wait, IsGroup
      <3>2. Count(d, m_group(n)) = 0
        BY <3>1, <1>1 DEF Groups
      <3> QED
        BY <3>2, <1>6 DEF Owed
    <2> QED
      BY <2>1
  <1>12. \A v : Call(b) = wait(Lock(v)) => Entered(e, Lock(v)) = 0
    BY <1>6 DEF wait
  <1>13. \A v, n : Call(b) # awaitProducer(v, n)
    BY DEF awaitProducer
  <1>14. Follows(d, e)
    <2>1. \A z \in Streams : PathsToDo(d, z) => PathsToDo(e, z)
      BY <1>10, NotGlobal DEF Still
    <2>2. \A y, m : IsProducer(m) /\ WaitsFor(d, y, m) /\ Owed(e, m_group(m)) => WaitsFor(e, y, m)
      BY <1>10, <1>11, <1>13, NotGlobal DEF Still
    <2>3. \A y : IsRequested(d, y) => IsRequested(e, y)
      BY <1>10, NotGlobal DEF Still
    <2>4. \A y : LockAwaited(d, y) /\ Entered(e, Lock(y)) # 0 => LockAwaited(e, y)
      BY <1>10, <1>12 DEF Still
    <2> QED
      BY <2>1, <2>2, <2>3, <2>4 DEF Follows
  <1>15. NoneAsked(d, e) /\ Debts(d, e)
    BY <1>1, <1>8, <1>10, NotMoreDebts
  <1>16. NoneInCircle(e)
    BY <1>14, <1>15, CircleKept
  <1> QED
    BY <1>10, <1>14, <1>15, <1>16, OrderlyAfter

\* A group is left, and if it is empty then, what waits for it is submitted.
LEMMA LeaveOrderly ==
  ASSUME NEW d, Orderly(d), NEW b \in Runs(d), Call(b).call = "leave",
         NEW e, e = GoOn(dispatch_group_leave(d, Call(b).group), b,
                         ToSubmit(d, Call(b).group) \o Later(b))
  PROVE  Orderly(e)
  <1>1. IsGcd(d) /\ Blocks(d) /\ Groups(d) /\ EventLoop(d) /\ Begun(d)
    BY DEF Orderly, InOrder
  <1>g. PICK g : g = Call(b).group
    OBVIOUS
  <1>w. PICK w : w = dispatch_group_leave(d, g)
    OBVIOUS
  <1>t. PICK t : t = ToSubmit(d, g)
    OBVIOUS
  <1>n. PICK new : new = {}
    OBVIOUS
  <1>x. PICK x : x = IF IsLast(d, g) THEN g ELSE Global
    OBVIOUS
  <1>2. IsGroup(g)
    BY <1>1, <1>g, HeadFits DEF Fits
  <1>3. LeaveEffect(d, g, w)
    BY <1>1, <1>w, LeaveIs
  <1>4. Adds(d, w, new)
    BY <1>1, <1>3, <1>n, LeaveAdds
  <1>5. IsSeq(t) /\ Range(t) \subseteq Range(Waiting(d, g))
    <2>1. IsSeq(<<>>) /\ Range(<<>>) = {} /\ IsSeq(Waiting(d, g))
      BY <1>1, OneElement, AnyGroup
    <2> QED
      BY <2>1, <1>t DEF ToSubmit
  <1>6. Turned(d, w, b, t, new, e)
    BY <1>1, <1>4, <1>5, <1>w, <1>t, <1>g, TurnedIs
  <1>7. Good(t \o Later(b))
    <2>1. ASSUME NEW c \in Range(t), NEW S
          PROVE  Fits(c, S)
      <3>1. IsNoted(g, c)
        BY <1>1, <1>5 DEF Blocks
      <3>2. IsSubmitted(c.block[1])
        BY <3>1 DEF IsNoted, IsSubmitted
      <3>3. Fits(submit(c.queue, <<c.block[1]>>), S)
        BY <3>2, FitsSubmit
      <3> QED
        BY <3>1, <3>3 DEF IsNoted
    <2>2. IsSeq(Later(b)) /\ Good(Later(b))
      BY <1>1, RunningBlock, HeadFits
    <2> QED
      BY <2>1, <2>2, <1>5, GoodConcat
  <1>8. IsGcd(e)
    BY <1>6 DEF Turned, Stepped
  <1>9. \A y : /\ Count(d, y) \in Nat /\ Count(e, y) \in Nat /\ Entered(d, y) \in Nat
               /\ N(t, y) \in Nat /\ One(Call(b), y) = IF y = g THEN 1 ELSE 0
    BY <1>1, <1>5, <1>8, <1>g, CountIsNat, AnyGroup, FinitelyOwing, Costs
  <1>10. \A y : Count(e, y) = Count(d, y) - (IF y = g THEN 1 ELSE 0)
    <2>1. \A y : Count(e, y) = Count(w, y) - One(Call(b), y) + N(t, y)
      BY <1>6 DEF Turned
    <2>2. \A y : Count(w, y) = Count(d, y) - N(t, y)
      BY <1>3, <1>t DEF LeaveEffect
    <2> QED
      BY <2>1, <2>2, <1>9
  <1>11. Entered(d, g) = Count(d, g) /\ Entered(d, g) > 0
    <2>1. Count(e, g) = Count(d, g) - 1
      BY <1>10
    <2>2. Entered(d, g) = Count(d, g)
      BY <1>1, <1>2 DEF Groups
    <2> QED
      BY <2>1, <2>2, <1>9
  <1>12. \A y : Entered(e, y) = Entered(d, y) - (IF y = g THEN 1 ELSE 0)
    <2>1. \A y : Entered(e, y) = Entered(w, y)
      BY <1>6 DEF Turned
    <2>2. \A y : Entered(w, y) = IF y = g /\ Entered(d, g) > 0 THEN Entered(d, g) - 1 ELSE Entered(d, y)
      BY <1>3 DEF LeaveEffect
    <2> QED
      BY <2>1, <2>2, <1>11, <1>9
  <1>13. Balanced(d, e) /\ FewerTokens(d, e) /\ NotMore(d, e)
    <2>1. Balanced(d, e)
      BY <1>9, <1>10, <1>12 DEF Balanced
    <2>2. FewerTokens(d, e)
      BY <1>9, <1>10 DEF FewerTokens
    <2>3. NotMore(d, e)
      BY <1>9, <1>10 DEF NotMore, Owed
    <2> QED
      BY <2>1, <2>2, <2>3
  <1>14. Groups(e) /\ Tokens(e)
    BY <1>1, <1>8, <1>13, GroupsAfter, TokensAfter
  <1>15. \A h : Waiting(w, h) = IF h = g /\ IsLast(d, g) THEN <<>> ELSE Waiting(d, h)
    BY <1>3 DEF LeaveEffect
  <1>16. Blocks(e)
    <2>1. \A h : \A c \in Range(Waiting(w, h)) : c \in Range(Waiting(d, h)) \/ IsNoted(h, c)
      <3>1. Range(<<>>) = {}
        BY OneElement
      <3> QED
        BY <3>1, <1>15
    <2>2. \A a \in new : Good(a.calls)
      BY <1>n
    <2> QED
      BY <2>1, <2>2, <1>1, <1>6, <1>7, BlocksAfter
  <1>17. Still(d, b, x, e)
    <2>1. \A h : h # x => Waiting(w, h) = Waiting(d, h)
      BY <1>15, <1>x
    <2>2. \A h : h # x => Range(Waiting(d, h)) \subseteq Range(Waiting(w, h))
      BY <2>1
    <2> QED
      BY <2>2, <1>1, <1>6, StillIs
  <1>18. x # Global => ~Owed(e, x)
    <2>1. SUFFICES ASSUME x # Global
                   PROVE  Count(e, g) = 0
      <3>1. x # Global => x = g
        BY <1>x
      <3> QED
        BY <3>1 DEF Owed
    <2>2. Count(d, g) <= 1
      BY <2>1, <1>x, <1>11 DEF IsLast
    <2> QED
      BY <2>2, <1>9, <1>10
  <1>19. \A y, v, m : Call(b) # awaitProducer(v, m) /\ Call(b) # wait(y)
    BY DEF awaitProducer, wait
  <1>20. Follows(d, e)
    <2>1. \A z \in Streams : PathsToDo(d, z) /\ Owed(e, m_allPathsDoneGroup(z)) => PathsToDo(e, z)
      BY <1>17, <1>18, NotGlobal DEF Still
    <2>2. \A y, m : WaitsFor(d, y, m) /\ Owed(e, m_group(m)) => WaitsFor(e, y, m)
      BY <1>17, <1>18, <1>19, NotGlobal DEF Still
    <2>3. \A y : IsRequested(d, y) /\ Owed(e, prefetchGroup(y)) => IsRequested(e, y)
      BY <1>17, <1>18, NotGlobal DEF Still
    <2>4. \A y : LockAwaited(d, y) => LockAwaited(e, y)
      BY <1>17, <1>19 DEF Still
    <2> QED
      BY <2>1, <2>2, <2>3, <2>4 DEF Follows
  <1>21. NoneAsked(d, e) /\ Debts(d, e)
    BY <1>1, <1>8, <1>13, <1>14, NotMoreDebts
  <1>22. NoneInCircle(e)
    BY <1>20, <1>21, CircleKept
  <1> QED
    BY <1>8, <1>14, <1>16, <1>20, <1>21, <1>22, OrderlyAfter

-----------------------------------------------------------------------------
(* Steps in which no block goes on. *)

\* Blocks begin to run, or are submitted, and nothing else happens.
Grows(d, e) ==
    /\ Held(d) \subseteq Held(e) /\ Runs(d) \subseteq Runs(e)
    /\ \A h : Waiting(e, h) = Waiting(d, h)

\* Then whoever waited still does.
LEMMA GrowsKeeps ==
  ASSUME NEW d, NEW e, Grows(d, e)
  PROVE  Follows(d, e)
  <1>1. Now(d) \subseteq Now(e)
    BY DEF Grows, Now
  <1>2. \A s : PathsToDo(d, s) => PathsToDo(e, s)
    BY <1>1 DEF Grows, PathsToDo
  <1>3. \A w, n : WaitsFor(d, w, n) => WaitsFor(e, w, n)
    <2>1. ASSUME NEW w, NEW n, awaitProducer(w, n) \in Now(d)
          PROVE  WaitsFor(e, w, n)
      BY <2>1, <1>1 DEF WaitsFor
    <2>2. ASSUME NEW w, NEW n, \E z \in Range(Waiting(d, m_group(n))) : z.block[1] = leave(prefetchGroup(w))
          PROVE  WaitsFor(e, w, n)
      BY <2>2 DEF WaitsFor, Grows
    <2>3. ASSUME NEW w, NEW n, \E b \in Runs(d) : wait(m_group(n)) \in Range(b.calls) /\ Ending(w, Range(b.calls))
          PROVE  WaitsFor(e, w, n)
      BY <2>3 DEF WaitsFor, Grows
    <2> QED
      BY <2>1, <2>2, <2>3 DEF WaitsFor
  <1>4. \A w : IsRequested(d, w) => IsRequested(e, w)
    BY <1>1 DEF Grows, IsRequested
  <1>5. \A w : LockAwaited(d, w) => LockAwaited(e, w)
    BY DEF Grows, LockAwaited
  <1> QED
    BY <1>2, <1>3, <1>4, <1>5 DEF Follows

\* A serial queue starts its next block.
LEMMA StartOrderly ==
  ASSUME NEW d, Orderly(d), NEW q, q # Global, QueueOf(d, q).blocks # <<>>,
         NEW e, IsStart(d, q, e)
  PROVE  Orderly(e)
  <1>1. IsGcd(d) /\ Blocks(d) /\ Groups(d) /\ EventLoop(d) /\ Begun(d)
    BY DEF Orderly, InOrder
  <1>2. StartEffect(d, q, e)
    BY <1>1, StartIs
  <1>3. IsGcd(e)
    BY <1>2 DEF StartEffect
  <1>s. PICK s : s = QueueOf(d, q).blocks
    OBVIOUS
  <1>4. IsSeq(s) /\ Range(s) = {Head(s)} \cup Range(Tail(s))
    BY <1>1, <1>s, AnyQueue, HeadTail DEF IsQueue
  <1>5. \A a : InQueue(d, q, a) <=> a = Head(s) \/ a \in Range(Tail(s))
    BY <1>4, <1>s DEF InQueue
  <1>6. \A a : InQueue(e, q, a) <=> a \in Range(Tail(s))
    <2>1. QueueOf(e, q) = [QueueOf(d, q) EXCEPT !.blocks = Tail(@), !.busy = TRUE]
      BY <1>2 DEF StartEffect
    <2>2. IsQueue(QueueOf(d, q))
      BY <1>1, AnyQueue
    <2>3. QueueOf(e, q).blocks = Tail(s)
      BY <2>1, <2>2, <1>s DEF IsQueue
    <2> QED
      BY <2>3 DEF InQueue
  <1>7. \A y, a : y # q => (InQueue(e, y, a) <=> InQueue(d, y, a))
    BY <1>2 DEF StartEffect, InQueue
  <1>8. \A c : Copies(e, c) = Copies(d, c) + (IF c = Block(q, Head(s)) THEN 1 ELSE 0)
    BY <1>2, <1>s DEF StartEffect
  <1>9. \A c : Copies(d, c) \in Nat
    BY <1>1, RunsPositive
  <1>10. ASSUME NEW a
         PROVE  a \in Held(e) <=> a \in Held(d)
    <2>1. a \in Held(d) <=> Copies(d, a) > 0 \/ \E y, z : InQueue(d, y, z) /\ a = Block(y, z)
      BY <1>1, HeldIs
    <2>2. a \in Held(e) <=> Copies(e, a) > 0 \/ \E y, z : InQueue(e, y, z) /\ a = Block(y, z)
      BY <1>3, HeldIs
    <2>3. ASSUME Copies(d, a) > 0
          PROVE  Copies(e, a) > 0
      BY <2>3, <1>8, <1>9
    <2>4. ASSUME Copies(e, a) > 0
          PROVE  Copies(d, a) > 0 \/ \E y, z : InQueue(d, y, z) /\ a = Block(y, z)
      BY <2>4, <1>5, <1>8, <1>9
    <2>5. ASSUME NEW y, NEW z, InQueue(d, y, z), a = Block(y, z)
          PROVE  Copies(e, a) > 0 \/ \E u, v : InQueue(e, u, v) /\ a = Block(u, v)
      <3>1. CASE y = q /\ z = Head(s)
        BY <3>1, <2>5, <1>8, <1>9
      <3>2. CASE ~(y = q /\ z = Head(s))
        BY <3>2, <2>5, <1>5, <1>6, <1>7
      <3> QED
        BY <3>1, <3>2
    <2>6. ASSUME NEW y, NEW z, InQueue(e, y, z), a = Block(y, z)
          PROVE  \E u, v : InQueue(d, u, v) /\ a = Block(u, v)
      BY <2>6, <1>5, <1>6, <1>7
    <2> QED
      BY <2>1, <2>2, <2>3, <2>4, <2>5, <2>6
  <1>11. Grows(d, e)
    <2>1. Runs(d) \subseteq Runs(e)
      <3>1. ASSUME NEW a \in Runs(d)
            PROVE  a \in Runs(e)
        <4>1. Copies(d, a) > 0
          BY <1>1, RunsPositive
        <4>2. Copies(e, a) > 0
          BY <4>1, <1>8, <1>9
        <4> QED
          BY <4>2, <1>3, RunsPositive
      <3> QED
        BY <3>1
    <2>2. \A h : Waiting(e, h) = Waiting(d, h)
      BY <1>2 DEF StartEffect
    <2> QED
      BY <2>1, <2>2, <1>10 DEF Grows
  <1>12. Blocks(e)
    BY <1>1, <1>10, <1>11 DEF Blocks, Grows
  <1>13. SameSums(d, e)
    <2>1. \A x : Count(e, x) = Count(d, x) /\ Entered(e, x) = Entered(d, x) /\ Count(d, x) \in Nat
      BY <1>1, <1>2, CountIsNat DEF StartEffect
    <2> QED
      BY <2>1 DEF SameSums
  <1>14. Balanced(d, e) /\ FewerTokens(d, e) /\ NotMore(d, e)
    BY <1>1, <1>3, <1>13, SameSumsIs
  <1>15. Groups(e) /\ Tokens(e)
    BY <1>1, <1>3, <1>14, GroupsAfter, TokensAfter
  <1>16. NoneAsked(d, e) /\ Debts(d, e) /\ Follows(d, e)
    BY <1>1, <1>3, <1>11, <1>14, <1>15, NotMoreDebts, GrowsKeeps
  <1>17. NoneInCircle(e)
    BY <1>16, CircleKept
  <1> QED
    BY <1>3, <1>12, <1>15, <1>16, <1>17, OrderlyAfter

\* A stream that has nothing to do begins with its first event.
LEMMA BeginOrderly ==
  ASSUME NEW d, Orderly(d), NEW s \in Streams, ~Owed(d, StreamToken(s)),
         NEW e, e = AnotherEvent(d, s)
  PROVE  InOrder(e) /\ \A z \in Streams : Owed(e, StreamToken(z)) => z = s \/ Started(z)
  <1>1. /\ IsGcd(d) /\ Blocks(d) /\ Groups(d) /\ EventLoop(d) /\ Begun(d)
        /\ Requests(d) /\ Locks(d)
    BY DEF Orderly, InOrder
  <1>n. PICK new : new = {Block(Global, <<event(s)>> \o <<leave(m_eventLoopGroup)>>)}
    OBVIOUS
  <1>2. /\ IsGcd(e) /\ Adds(d, e, new)
        /\ \A x : Count(e, x) = Count(d, x) + (IF x = m_eventLoopGroup \/ x = StreamToken(s) THEN 1 ELSE 0)
        /\ \A h : Entered(e, h) = Entered(d, h) + (IF h = m_eventLoopGroup THEN 1 ELSE 0)
        /\ \A h : Waiting(e, h) = Waiting(d, h)
        /\ \A a \in new : Good(a.calls)
    BY <1>1, <1>n, AnotherEventIs
  <1>3. \A x : Count(d, x) \in Nat /\ Entered(d, x) \in Nat
    BY <1>1, CountIsNat, AnyGroup
  <1>4. Grows(d, e)
    <2>1. Runs(d) \subseteq Runs(e)
      <3>1. ASSUME NEW a \in Runs(d)
            PROVE  a \in Runs(e)
        <4>1. Copies(d, a) > 0 /\ Copies(e, a) >= Copies(d, a) /\ Copies(d, a) \in Nat /\ Copies(e, a) \in Nat
          BY <1>1, <1>2, RunsPositive DEF Adds
        <4>2. Copies(e, a) > 0
          BY <4>1
        <4> QED
          BY <4>2, <1>2, RunsPositive
      <3> QED
        BY <3>1
    <2> QED
      BY <2>1, <1>2 DEF Grows, Adds
  <1>5. Blocks(e)
    <2>1. Held(e) = Held(d) \cup new
      BY <1>2 DEF Adds
    <2> QED
      BY <2>1, <1>1, <1>2 DEF Blocks
  <1>6. \A g : IsGroup(g) => g # StreamToken(s)
    BY Names DEF IsGroup
  <1>7. Groups(e)
    <2>1. ASSUME NEW g, IsGroup(g)
          PROVE  Entered(e, g) = Count(e, g)
      <3>1. Entered(d, g) = Count(d, g) /\ g # StreamToken(s)
        BY <2>1, <1>1, <1>6 DEF Groups
      <3>2. Count(e, g) = Count(d, g) + (IF g = m_eventLoopGroup THEN 1 ELSE 0)
        BY <3>1, <1>2
      <3> QED
        BY <3>1, <3>2, <1>2
    <2> QED
      BY <2>1 DEF Groups
  <1>8. \A g : IsGroup(g) /\ g # m_eventLoopGroup =>
                 Count(e, g) = Count(d, g) /\ Entered(e, g) = Entered(d, g)
    BY <1>2, <1>3, <1>6
  <1>9. NotMore(d, e)
    BY <1>8 DEF NotMore, Owed
  <1>10. NoneAsked(d, e) /\ Debts(d, e) /\ Follows(d, e)
    BY <1>1, <1>2, <1>4, <1>7, <1>9, NotMoreDebts, GrowsKeeps
  <1>11. NoneInCircle(e)
    BY <1>10, CircleKept
  <1>12. \A z \in Streams : Count(e, StreamToken(z)) =
            Count(d, StreamToken(z)) + (IF z = s THEN 1 ELSE 0)
    <2>1. \A z : StreamToken(z) # m_eventLoopGroup /\ (StreamToken(z) = StreamToken(s) <=> z = s)
      BY Names
    <2> QED
      BY <2>1, <1>2
  <1>13. EventLoop(e)
    <2>1. ASSUME NEW z \in Streams
          PROVE  Count(e, StreamToken(z)) <= 1
      <3>1. CASE z = s
        BY <3>1, <1>3, <1>12 DEF Owed
      <3>2. CASE z # s
        BY <3>2, <1>1, <1>3, <1>12 DEF EventLoop
      <3> QED
        BY <3>1, <3>2
    <2>2. ASSUME NEW z \in Streams, Owed(e, m_allPathsDoneGroup(z))
          PROVE  PathsToDo(e, z)
      <3>1. Owed(d, m_allPathsDoneGroup(z)) => PathsToDo(d, z)
        BY <1>1 DEF EventLoop
      <3> QED
        BY <3>1, <2>2, <1>10 DEF Debts, Follows
    <2> QED
      BY <2>1, <2>2 DEF EventLoop
  <1>14. Requests(e)
    <2>1. ASSUME NEW w, Works(w), Owed(e, prefetchGroup(w))
          PROVE  IsRequested(e, w)
      <3>1. Owed(d, prefetchGroup(w)) => IsRequested(d, w)
        BY <2>1, <1>1 DEF Requests
      <3> QED
        BY <3>1, <2>1, <1>10 DEF Debts, Follows
    <2> QED
      BY <2>1 DEF Requests
  <1>15. Locks(e)
    <2>1. ASSUME NEW w, Works(w), Entered(e, Lock(w)) # 0
          PROVE  LockAwaited(e, w)
      <3>1. Entered(d, Lock(w)) # 0 => LockAwaited(d, w)
        BY <2>1, <1>1 DEF Locks, LockAwaited
      <3> QED
        BY <3>1, <2>1, <1>10 DEF Debts, Follows
    <2> QED
      BY <2>1 DEF Locks, LockAwaited
  <1>16. \A z \in Streams : Owed(e, StreamToken(z)) => z = s \/ Started(z)
    <2>1. ASSUME NEW z \in Streams, Owed(e, StreamToken(z)), z # s
          PROVE  Started(z)
      <3>1. Owed(d, StreamToken(z))
        BY <2>1, <1>3, <1>12 DEF Owed
      <3> QED
        BY <3>1, <1>1 DEF Begun
    <2> QED
      BY <2>1
  <1> QED
    BY <1>2, <1>5, <1>7, <1>11, <1>13, <1>14, <1>15, <1>16 DEF InOrder

-----------------------------------------------------------------------------
(* The modules that are made. *)

\* A function on the first numbers is a sequence.
LEMMA FunctionIsSeq ==
  ASSUME NEW n \in Nat, NEW f, f = [i \in 1 .. n |-> f[i]]
  PROVE  IsSeq(f)
  <1>1. f \in [1 .. n -> Range(f)]
    BY DEF Range
  <1>2. f \in Seq(Range(f))
    BY <1>1
  <1> QED
    BY <1>2 DEF IsSeq

\* Data are got by sequences of keys.
LEMMA KeysAre ==
  ASSUME NEW toGet, IsSeq(toGet)
  PROVE  IsSeq(Common!Blank(toGet)) /\ IsSeq(Common!Exact(toGet)) /\ IsSeq(<<>>)
  <1>1. DOMAIN toGet = 1 .. Len(toGet) /\ Len(toGet) \in Nat
    BY DEF IsSeq
  <1>f. PICK f : f = Common!Blank(toGet)
    OBVIOUS
  <1>g. PICK g : g = Common!Exact(toGet)
    OBVIOUS
  <1>2. f = [i \in 1 .. Len(toGet) |-> f[i]]
    BY <1>1, <1>f DEF Common!Blank
  <1>3. g = [i \in 1 .. Len(toGet) |-> g[i]]
    BY <1>1, <1>g DEF Common!Exact
  <1> QED
    BY <1>1, <1>2, <1>3, <1>f, <1>g, FunctionIsSeq, OneElement

\* Modules of one kind.
IsOf(m, c, base) == m.label = c.label /\ m.base = base /\ IsSeq(m.m_getters) /\ IsSeq(m.reads)

\* What all are made from, and what is got before they work.
LEMMA ConstructedIs ==
  ASSUME NEW c, NEW base, NEW t, NEW m, m = Common!Constructed(c, base, t),
         NEW k, IsSeq(k), NEW l, IsSeq(l)
  PROVE  /\ IsOf(m, c, base)
         /\ \A keep : IsOf([m EXCEPT !.keep = keep], c, base)
         /\ IsOf([m EXCEPT !.m_getters = k], c, base)
         /\ \A products : IsOf([m EXCEPT !.m_products = products], c, base)
         /\ \A products, adds : IsOf([m EXCEPT !.m_products = products, !.adds = adds], c, base)
         /\ \A times : IsOf([m EXCEPT !.reads = k, !.byLabel = TRUE, !.m_eventTimes = times], c, base)
         /\ \A products, times :
               IsOf([m EXCEPT !.m_products = products, !.reads = k, !.byLabel = TRUE,
                              !.m_eventTimes = times], c, base)
         /\ IsOf([m EXCEPT !.m_getters = k, !.reads = l], c, base)
         /\ \A products :
               IsOf([[m EXCEPT !.m_getters = k, !.reads = l] EXCEPT !.m_products = products], c, base)
         /\ \A times :
               IsOf([[m EXCEPT !.m_getters = k, !.reads = l] EXCEPT !.m_eventTimes = times], c, base)
         /\ \A products, times :
               IsOf([[m EXCEPT !.m_getters = k, !.reads = l] EXCEPT
                       !.m_products = products, !.m_eventTimes = times], c, base)
  <1>1. IsSeq(<<>>)
    BY OneElement
  <1> QED
    BY <1>1 DEF IsOf, Common!Constructed

\* A filter that is made has its label, and the keys it gets.
LEMMA CreatedFilterIs ==
  ASSUME NEW c, IsSeq(c.toGet), CreateFilter(c) # NoModule
  PROVE  IsOf(CreateFilter(c), c, "filter")
  <1>t. PICK t : t = thread_type_from_config(c)
    OBVIOUS
  <1>m. PICK m : m = Common!Constructed(c, "filter", t)
    OBVIOUS
  <1>u. PICK u : u = Common!Constructed(c, "filter", "kThreadSafeBetweenModules")
    OBVIOUS
  <1>k. PICK k : k = Common!Blank(c.toGet)
    OBVIOUS
  <1>x. PICK x : x = Common!Exact(c.toGet)
    OBVIOUS
  <1>1. IsSeq(k) /\ IsSeq(x)
    BY <1>k, <1>x, KeysAre
  <1>f. PICK f : f = CreateFilter(c)
    OBVIOUS
  <1>2. \/ f = BusyWaitPassFilter(c) \/ f = SleepingPassFilter(c)
        \/ f = EventTimesPassFilterBase(c) \/ f = EventTimesSyncGetPassFilterBase(c)
        \/ f = PassFilter(c) \/ f = ThreadSaferGetterFilter(c)
    BY <1>f DEF CreateFilter, EventTimesBusyWaitPassFilter, EventTimesSleepingPassFilter,
                EventTimesSyncGetSleepingPassFilter
  <1>3. Filter(c, t) = m /\ Filter(c, "kThreadSafeBetweenModules") = u
    BY <1>m, <1>u DEF Filter, Common!Filter
  <1>r. PICK r : r = [m EXCEPT !.m_getters = k, !.reads = k]
    OBVIOUS
  <1>4. IsOf(r, c, "filter")
    BY <1>1, <1>m, <1>r, ConstructedIs
  <1>5. CASE f = BusyWaitPassFilter(c) \/ f = SleepingPassFilter(c)
    <2>1. f = r
      BY <1>5, <1>3, <1>t, <1>k, <1>r DEF BusyWaitPassFilter, SleepingPassFilter, ReadsAll
    <2> QED
      BY <2>1, <1>4, <1>f
  <1>6. CASE f = EventTimesPassFilterBase(c)
    <2>1. f = [r EXCEPT !.m_eventTimes = Len(c.eventTimes)]
      BY <1>6, <1>3, <1>t, <1>k, <1>r DEF EventTimesPassFilterBase, ReadsAll
    <2>n. PICK n : n = Len(c.eventTimes)
      OBVIOUS
    <2>2. IsOf([r EXCEPT !.m_eventTimes = n], c, "filter")
      BY <1>1, <1>m, <1>r, ConstructedIs
    <2> QED
      BY <2>1, <2>2, <2>n, <1>f
  <1>7. CASE f = EventTimesSyncGetPassFilterBase(c)
    <2>1. f = [m EXCEPT !.reads = k, !.byLabel = TRUE, !.m_eventTimes = Len(c.eventTimes)]
      BY <1>7, <1>3, <1>t, <1>k DEF EventTimesSyncGetPassFilterBase
    <2>n. PICK n : n = Len(c.eventTimes)
      OBVIOUS
    <2>2. IsOf([m EXCEPT !.reads = k, !.byLabel = TRUE, !.m_eventTimes = n], c, "filter")
      BY <1>1, <1>m, ConstructedIs
    <2> QED
      BY <2>1, <2>2, <2>n, <1>f
  <1>8. CASE f = PassFilter(c)
    <2>1. \A n : IsOf([u EXCEPT !.keep = n], c, "filter")
      BY <1>1, <1>u, ConstructedIs
    <2>2. \A n : IsOf([Filter(c, "kThreadSafeBetweenModules") EXCEPT !.keep = n], c, "filter")
      BY <2>1, <1>3
    <2>3. IsOf(PassFilter(c), c, "filter")
      BY <2>2 DEF PassFilter
    <2> QED
      BY <2>3, <1>8, <1>f
  <1>9. CASE f = ThreadSaferGetterFilter(c)
    <2>1. f = [u EXCEPT !.m_getters = x]
      BY <1>9, <1>3, <1>x DEF ThreadSaferGetterFilter
    <2>2. IsOf([u EXCEPT !.m_getters = x], c, "filter")
      BY <1>1, <1>u, ConstructedIs
    <2> QED
      BY <2>1, <2>2, <1>f
  <1> QED
    BY <1>2, <1>5, <1>6, <1>7, <1>8, <1>9

\* So has a producer.
LEMMA CreatedProducerIs ==
  ASSUME NEW c, IsSeq(c.toGet), CreateProducer(c) # NoModule
  PROVE  IsOf(CreateProducer(c), c, "producer")
  <1>t. PICK t : t = thread_type_from_config(c)
    OBVIOUS
  <1>m. PICK m : m = Common!Constructed(c, "producer", t)
    OBVIOUS
  <1>u. PICK u : u = Common!Constructed(c, "producer", "kThreadSafeBetweenInstances")
    OBVIOUS
  <1>k. PICK k : k = Common!Blank(c.toGet)
    OBVIOUS
  <1>n. PICK n : n = Len(c.eventTimes)
    OBVIOUS
  <1>1. IsSeq(k)
    BY <1>k, KeysAre
  <1>f. PICK f : f = CreateProducer(c)
    OBVIOUS
  <1>2. \/ f = BusyWaitProducer(c) \/ f = SleepingProducer(c)
        \/ f = EventTimesProducerBase(c) \/ f = EventTimesSyncGetProducerBase(c)
        \/ f = ThreadSafeProducer(c)
    BY <1>f DEF CreateProducer, EventTimesBusyWaitProducer, EventTimesSleepingProducer,
                EventTimesSyncGetSleepingProducer
  <1>3. Producer(c, t) = m /\ Producer(c, "kThreadSafeBetweenInstances") = u
    BY <1>m, <1>u DEF Producer, Common!Producer
  <1>r. PICK r : r = [m EXCEPT !.m_getters = k, !.reads = k]
    OBVIOUS
  <1>4. CASE f = BusyWaitProducer(c) \/ f = SleepingProducer(c)
    <2>1. f = [r EXCEPT !.m_products = {""}]
      BY <1>4, <1>3, <1>t, <1>k, <1>r DEF BusyWaitProducer, SleepingProducer, ReadsAll
    <2>p. PICK p : p = {""}
      OBVIOUS
    <2>2. IsOf([r EXCEPT !.m_products = p], c, "producer")
      BY <1>1, <1>m, <1>r, ConstructedIs
    <2> QED
      BY <2>1, <2>2, <2>p, <1>f
  <1>5. CASE f = EventTimesProducerBase(c)
    <2>1. f = [r EXCEPT !.m_products = {""}, !.m_eventTimes = n]
      BY <1>5, <1>3, <1>t, <1>k, <1>n, <1>r DEF EventTimesProducerBase, ReadsAll
    <2>p. PICK p : p = {""}
      OBVIOUS
    <2>2. IsOf([r EXCEPT !.m_products = p, !.m_eventTimes = n], c, "producer")
      BY <1>1, <1>m, <1>r, ConstructedIs
    <2> QED
      BY <2>1, <2>2, <2>p, <1>f
  <1>6. CASE f = EventTimesSyncGetProducerBase(c)
    <2>1. f = [m EXCEPT !.m_products = {""}, !.reads = k, !.byLabel = TRUE, !.m_eventTimes = n]
      BY <1>6, <1>3, <1>t, <1>k, <1>n DEF EventTimesSyncGetProducerBase
    <2>p. PICK p : p = {""}
      OBVIOUS
    <2>2. IsOf([m EXCEPT !.m_products = p, !.reads = k, !.byLabel = TRUE, !.m_eventTimes = n], c, "producer")
      BY <1>1, <1>m, ConstructedIs
    <2> QED
      BY <2>1, <2>2, <2>p, <1>f
  <1>7. CASE f = ThreadSafeProducer(c)
    <2>p. PICK p : p = {c.productLabel}
      OBVIOUS
    <2>a. PICK a : a = c.value + Common!BusyWaitLastDigit
      OBVIOUS
    <2>1. f = [u EXCEPT !.m_products = p, !.adds = a]
      BY <1>7, <1>3, <2>p, <2>a DEF ThreadSafeProducer
    <2>2. IsOf([u EXCEPT !.m_products = p, !.adds = a], c, "producer")
      BY <1>1, <1>u, ConstructedIs
    <2> QED
      BY <2>1, <2>2, <1>f
  <1> QED
    BY <1>2, <1>4, <1>5, <1>6, <1>7

-----------------------------------------------------------------------------
(* Once main has read its configuration, what is in order stays so. *)

\* What only main changes, before the first event.
Lasting == <<pConfig, module, m_lookupMap, m_paths>>

\* The wrappers and groups are the same.
LEMMA SameNames ==
  ASSUME UNCHANGED Lasting
  PROVE  /\ Streams' = Streams
         /\ \A n : IsProducer(n)' <=> IsProducer(n)
         /\ \A w : (IsFilter(w)' <=> IsFilter(w)) /\ (Works(w)' <=> Works(w))
         /\ \A w, at : (IsFilterAt(w, at)' <=> IsFilterAt(w, at)) /\ (HasJob(w, at)' <=> HasJob(w, at))
         /\ \A g : IsGroup(g)' <=> IsGroup(g)
         /\ \A c : IsJob(c)' <=> IsJob(c)
         /\ \A s : Of(s)' = Of(s)
  <1>1. Streams' = Streams
    BY DEF Streams, NStreams, Lasting
  <1>2. \A n : IsProducer(n)' <=> IsProducer(n)
    BY <1>1 DEF IsProducer, Lasting
  <1>3. \A w : IsFilter(w)' <=> IsFilter(w)
    BY <1>1 DEF IsFilter, Lasting
  <1>4. \A w : Works(w)' <=> Works(w)
    BY <1>2, <1>3 DEF Works
  <1>5. \A w, at : IsFilterAt(w, at)' <=> IsFilterAt(w, at)
    BY <1>1 DEF IsFilterAt, FilterAt, Lasting
  <1>6. \A w, at : HasJob(w, at)' <=> HasJob(w, at)
    BY <1>2, <1>5 DEF HasJob
  <1>7. \A g : IsGroup(g)' <=> IsGroup(g)
    BY <1>1, <1>2, <1>4 DEF IsGroup
  <1>8. \A c : IsJob(c)' <=> IsJob(c)
    BY <1>6 DEF IsJob
  <1>9. \A s : Of(s)' = Of(s)
    BY DEF Of, Lasting
  <1> QED
    BY <1>1, <1>2, <1>3, <1>4, <1>5, <1>6, <1>7, <1>8, <1>9

\* So are the calls that fit.
LEMMA SameFits ==
  ASSUME UNCHANGED Lasting
  PROVE  /\ \A c, S : Fits(c, S)' <=> Fits(c, S)
         /\ \A g, c : IsNoted(g, c)' <=> IsNoted(g, c)
  <1>1. /\ Streams' = Streams
        /\ \A n : IsProducer(n)' <=> IsProducer(n)
        /\ \A w : (IsFilter(w)' <=> IsFilter(w)) /\ (Works(w)' <=> Works(w))
        /\ \A w, at : (IsFilterAt(w, at)' <=> IsFilterAt(w, at)) /\ (HasJob(w, at)' <=> HasJob(w, at))
        /\ \A g : IsGroup(g)' <=> IsGroup(g)
        /\ \A c : IsJob(c)' <=> IsJob(c)
    BY SameNames
  <1>2. m_paths' = m_paths
    BY DEF Lasting
  <1>3. \A c : IsSubmitted(c)' <=> IsSubmitted(c)
    BY <1>1 DEF IsSubmitted
  <1>4. \A g, c : IsNoted(g, c)' <=> IsNoted(g, c)
    BY <1>1 DEF IsNoted
  <1>5. ASSUME NEW c, NEW S
        PROVE  Fits(c, S)' <=> Fits(c, S)
    BY <1>1, <1>2, <1>3 DEF Fits
  <1> QED
    BY <1>4, <1>5

\* So is all that is in order.
LEMMA SameOrder ==
  ASSUME UNCHANGED Lasting, NEW d
  PROVE  InOrder(d)' <=> InOrder(d)
  <1>1. /\ Streams' = Streams
        /\ \A n : IsProducer(n)' <=> IsProducer(n)
        /\ \A w : Works(w)' <=> Works(w)
        /\ \A g : IsGroup(g)' <=> IsGroup(g)
        /\ \A s : Of(s)' = Of(s)
    BY SameNames
  <1>2. \A s : Good(s)' <=> Good(s)
    BY SameFits DEF Good
  <1>3. Blocks(d)' <=> Blocks(d)
    BY <1>2, SameFits DEF Blocks
  <1>4. Groups(d)' <=> Groups(d)
    BY <1>1 DEF Groups
  <1>5. EventLoop(d)' <=> EventLoop(d)
    BY <1>1 DEF EventLoop
  <1>6. NoneInCircle(d)' <=> NoneInCircle(d)
    BY <1>1 DEF NoneInCircle
  <1>7. Requests(d)' <=> Requests(d)
    BY <1>1 DEF Requests
  <1>8. Locks(d)' <=> Locks(d)
    BY <1>1 DEF Locks
  <1> QED
    BY <1>3, <1>4, <1>5, <1>6, <1>7, <1>8 DEF InOrder

\* What holds of a state of libdispatch holds of the next if it becomes that.
LEMMA OrderBecomes ==
  ASSUME NEW e
  PROVE  (gcd = e /\ InOrder(e) /\ Begun(e) => Orderly(gcd))'
  <1>1. gcd = e /\ InOrder(e) /\ Begun(e) => Orderly(gcd)
    BY DEF Orderly
  <1> QED
    BY <1>1, PTL

\* A step after which streams that have something to do have been started.
LEMMA NextOrderly ==
  ASSUME UNCHANGED Lasting, NEW e, gcd' = e, InOrder(e),
         \A s \in Streams : Owed(e, StreamToken(s)) => Started(s)'
  PROVE  Orderly(gcd)'
  <1>1. InOrder(e)'
    BY SameOrder
  <1>2. Begun(e)'
    BY SameNames DEF Begun
  <1>3. (gcd = e)' /\ (InOrder(e) /\ Begun(e))'
    BY <1>1, <1>2
  <1> QED
    BY <1>3, OrderBecomes

\* A step of a block, which main takes no part in.
LEMMA NextOrderlyToo ==
  ASSUME UNCHANGED Lasting, UNCHANGED <<phase, m_schedules>>, NEW e, gcd' = e, Orderly(e)
  PROVE  Orderly(gcd)'
  <1>1. \A s : Started(s)' <=> Started(s)
    BY DEF Started, SettingUp
  <1>2. InOrder(e) /\ \A s \in Streams : Owed(e, StreamToken(s)) => Started(s)'
    BY <1>1 DEF Orderly, Begun
  <1> QED
    BY <1>2, NextOrderly

\* When main does not read its configuration all streams have been started, or
\* as many as there are.
LEMMA NextOrderlyLater ==
  ASSUME UNCHANGED Lasting, UNCHANGED gcd, Orderly(gcd), phase' \in {"wait", "done", "exit"}
  PROVE  Orderly(gcd)'
  <1>e. PICK e : e = gcd
    OBVIOUS
  <1>1. gcd' = e /\ InOrder(e)
    BY <1>e DEF Orderly
  <1>2. \A s : Started(s)'
    BY DEF Started, SettingUp
  <1> QED
    BY <1>1, <1>2, NextOrderly

\* Nothing has been done yet.
LEMMA EmptyOrderly == Orderly(EmptyGcd)
  <1>d. PICK d : d = EmptyGcd
    OBVIOUS
  <1>1. /\ d.groups = <<>> /\ d.notify = <<>> /\ d.queues = <<>> /\ d.running = <<>>
        /\ d = [groups |-> d.groups, notify |-> d.notify, queues |-> d.queues, running |-> d.running]
    BY <1>d DEF EmptyGcd
  <1>2. DOMAIN <<>> = {} /\ <<>> = [x \in {} |-> 0]
    OBVIOUS
  <1>3. Runs(d) = {} /\ Held(d) = {} /\ Now(d) = {}
    <2>1. Runs(d) = {} /\ DOMAIN d.queues = {}
      BY <1>1, <1>2 DEF Runs
    <2>2. Held(d) = {}
      BY <2>1 DEF Held
    <2> QED
      BY <2>1, <2>2 DEF Now
  <1>4. \A x : RunPlaces(d.running, x) = {} /\ Places(FirstCalls(d.queues), x) = {} /\ Places(d.notify, x) = {}
    <2>1. DOMAIN FirstCalls(d.queues) = {} /\ DOMAIN d.notify = {} /\ DOMAIN d.running = {}
      BY <1>1, <1>2 DEF FirstCalls
    <2> QED
      BY <2>1 DEF RunPlaces, Places
  <1>5. \A x : FinitePlaces(d, x) /\ Count(d, x) = 0
    <2>1. IsFiniteSet({}) /\ Cardinality({}) = 0
      BY FS_EmptySet
    <2> QED
      BY <2>1, <1>4 DEF FinitePlaces, Count
  <1>6. \A g : Entered(d, g) = 0 /\ Waiting(d, g) = <<>>
    BY <1>1, <1>2 DEF Entered, CopiesIn, Waiting
  <1>7. IsGcd(d)
    <2>1. IsBag(<<>>)
      BY <1>2 DEF IsBag
    <2> QED
      BY <2>1, <1>1, <1>2, <1>3, <1>5 DEF IsGcd
  <1>8. Blocks(d) /\ Groups(d)
    <2>1. Range(<<>>) = {}
      BY OneElement
    <2> QED
      BY <2>1, <1>3, <1>5, <1>6 DEF Blocks, Groups
  <1>9. \A x : ~Owed(d, x)
    BY <1>5 DEF Owed
  <1>10. EventLoop(d) /\ Requests(d) /\ Locks(d) /\ Begun(d)
    BY <1>5, <1>6, <1>9 DEF EventLoop, Requests, Locks, Begun
  <1>11. NoneInCircle(d)
    BY <1>9 DEF NoneInCircle
  <1> QED
    BY <1>7, <1>8, <1>10, <1>11, <1>d DEF Orderly, InOrder

=============================================================================
