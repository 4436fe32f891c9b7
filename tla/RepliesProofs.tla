---------------------------- MODULE RepliesProofs ----------------------------
(***************************************************************************)
(* A program reads the replies to its queries and clipboard requests in    *)
(* the order it made them, but for those held while an image is decoded,   *)
(* and what is on its way is counted right: for any bounds of the queues,  *)
(* any number of requests and views, and in whatever order feeder, worker, *)
(* views and deadlines take their steps.                                   *)
(***************************************************************************)
EXTENDS Replies, FiniteSetTheorems, WellFoundedInduction, TLAPS

-----------------------------------------------------------------------------
(* The inductive invariant.                                                *)

Job == [kind : {"load", "kitty", "reply", "reset", "overflow", "answer"}, n : Nat]
SlotType == [n : Nat, what : Outcomes \cup {"waiting"}]

SlotNumbers(ss) == {ss[i].n : i \in DOMAIN ss}
Elements(ns)    == {ns[i] : i \in DOMAIN ns}

Before(A, B) == \A a \in A, b \in B : a < b

Increasing(ss) == \A i, j \in DOMAIN ss : i < j => ss[i].n < ss[j].n
IncreasingEvents(es) ==
  \A i, j \in DOMAIN es : i < j /\ Ordered(es[i]) /\ Ordered(es[j]) => es[i].n < es[j].n

Typed ==
  /\ parsed \in Nat /\ held \in Seq(Nat)
  /\ events \in Seq(Job) /\ jobs \in Seq(Job)
  /\ slots \in Seq(SlotType) /\ sent \in Seq(SlotType)
  /\ inFlight \in Nat /\ written \in Nat

\* What is owed: taken or not, written down or not.
Due == SlotNumbers(slots) \cup Numbers(jobs) \cup Numbers(events)

\* Owed replies are in order along slots, jobs and events, behind what was sent.
Lined ==
  /\ Increasing(slots) /\ IncreasingEvents(jobs) /\ IncreasingEvents(events)
  /\ Before(SlotNumbers(slots), Numbers(jobs) \cup Numbers(events))
  /\ Before(Numbers(jobs), Numbers(events))
  /\ Before(SlotNumbers(sent), Due)

\* The replies of the slice were held when nothing was owed: while the lock is
\* not let go of, the worker has nothing to write.
HeldFirst ==
  /\ \A i, j \in DOMAIN held : i < j => held[i] < held[j]
  /\ Before(Elements(held), Due)
  /\ feeder = "parsing" /\ held # <<>> =>
       slots = <<>> /\ Numbers(jobs) = {} /\ Before(SlotNumbers(sent), Elements(held))
  /\ feeder = "decoding" => Elements(held) \subseteq delayed
  /\ feeder \notin {"parsing", "decoding"} => held = <<>>

\* Nothing is answered before it is parsed; the image being decoded is last.
Parsed ==
  LET all == SlotNumbers(sent) \cup Due \cup Elements(held)
  IN  /\ \A n \in all : n =< parsed
      /\ feeder = "decoding" => \A n \in all : n < parsed

Counted == inFlight = Len(slots) + written + Count(jobs)

\* What comes to the worker, and from where.
Work == [kind : {"wake", "answer"}, n : Nat]
WorkTyped == queue \in Seq(Work) /\ asked \in [1..MaxViews -> Seq(Nat)]

IInv == Typed /\ Counted /\ Lined /\ HeldFirst /\ Parsed /\ InOrderUnlessDecoding

core == <<parsed, feeder, held, delayed, events, jobs, inFlight, written, slots, sent>>

-----------------------------------------------------------------------------
(* Sequences of events and of slots.                                       *)

OrderedAt(es) == {i \in DOMAIN es : Ordered(es[i])}

\* The count is a number, and is 0 when nothing is ordered.
LEMMA CountZero ==
  ASSUME NEW es \in Seq(Job)
  PROVE  Count(es) \in Nat /\ (Count(es) = 0 <=> Numbers(es) = {})
<1>1. IsFiniteSet(OrderedAt(es))
  <2>1. OrderedAt(es) \in SUBSET (1..Len(es)) /\ Len(es) \in Nat
    BY DEF OrderedAt
  <2>2. IsFiniteSet(1..Len(es))
    BY <2>1, FS_Interval
  <2> QED
    BY <2>1, <2>2, FS_Subset
<1>2. Count(es) = Cardinality(OrderedAt(es))
  BY DEF Count, OrderedAt
<1>3. Numbers(es) = {} <=> OrderedAt(es) = {}
  BY DEF Numbers, OrderedAt
<1> QED
  BY <1>1, <1>2, <1>3, FS_CardinalityType, FS_EmptySet

\* Numbers are numbers.
LEMMA NumbersType ==
  /\ \A es \in Seq(Job) : Numbers(es) \subseteq Nat
  /\ \A ss \in Seq(SlotType) : SlotNumbers(ss) \subseteq Nat
  /\ \A ns \in Seq(Nat) : Elements(ns) \subseteq Nat
<1>1. ASSUME NEW es \in Seq(Job) PROVE Numbers(es) \subseteq Nat
  <2>1. \A i \in DOMAIN es : es[i] \in Job
    OBVIOUS
  <2>2. \A j \in Job : j.n \in Nat
    BY DEF Job
  <2> QED
    BY <2>1, <2>2 DEF Numbers
<1>2. ASSUME NEW ss \in Seq(SlotType) PROVE SlotNumbers(ss) \subseteq Nat
  <2>1. \A i \in DOMAIN ss : ss[i] \in SlotType
    OBVIOUS
  <2>2. \A t \in SlotType : t.n \in Nat
    BY DEF SlotType
  <2> QED
    BY <2>1, <2>2 DEF SlotNumbers
<1>3. ASSUME NEW ns \in Seq(Nat) PROVE Elements(ns) \subseteq Nat
  BY DEF Elements
<1> QED
  BY <1>1, <1>2, <1>3

\* What has been parsed comes before what is parsed next.
LEMMA NextNumber ==
  ASSUME IInv
  PROVE  \A n \in SlotNumbers(sent) \cup Due \cup Elements(held) :
            n \in Nat /\ n =< parsed /\ n < parsed + 1
<1>1. SlotNumbers(sent) \cup Due \cup Elements(held) \subseteq Nat /\ parsed \in Nat
  BY NumbersType DEF IInv, Typed, Due
<1>2. \A n \in SlotNumbers(sent) \cup Due \cup Elements(held) : n =< parsed
  BY DEF IInv, Parsed
<1> QED
  BY <1>1, <1>2

\* Taking the first event takes one off the count if that event is ordered.
LEMMA CountTail ==
  ASSUME NEW es \in Seq(Job), es # <<>>
  PROVE  Count(es) = Count(Tail(es)) + (IF Ordered(Head(es)) THEN 1 ELSE 0)
<1> DEFINE I == OrderedAt(es)
           J == OrderedAt(Tail(es))
           f == [i \in J |-> i + 1]
<1>1. /\ Len(es) \in Nat \ {0} /\ DOMAIN es = 1..Len(es)
      /\ DOMAIN Tail(es) = 1..(Len(es) - 1)
      /\ \A i \in 1..(Len(es) - 1) : Tail(es)[i] = es[i + 1]
      /\ Head(es) = es[1]
  OBVIOUS
<1>2. IsFiniteSet(I) /\ IsFiniteSet(J)
  <2>1. I \in SUBSET (1..Len(es)) /\ J \in SUBSET (1..Len(es))
    BY <1>1 DEF OrderedAt
  <2>2. IsFiniteSet(1..Len(es))
    BY <1>1, FS_Interval
  <2> QED
    BY <2>1, <2>2, FS_Subset
<1>3. ExistsBijection(J, I \ {1})
  <2>1. f \in [J -> I \ {1}]
    BY <1>1 DEF OrderedAt
  <2>2. \A a, b \in J : f[a] = f[b] => a = b
    BY <1>1 DEF OrderedAt
  <2>3. \A t \in I \ {1} : \E s \in J : f[s] = t
    <3> SUFFICES ASSUME NEW t \in I \ {1} PROVE \E s \in J : f[s] = t
      OBVIOUS
    <3>1. t - 1 \in J /\ (t - 1) + 1 = t
      BY <1>1 DEF OrderedAt
    <3> QED
      BY <3>1
  <2> HIDE DEF f, I, J
  <2>4. f \in Injection(J, I \ {1}) /\ f \in Surjection(J, I \ {1})
    BY <2>1, <2>2, <2>3 DEF Injection, Surjection, IsInjective
  <2> QED
    BY <2>4 DEF ExistsBijection, Bijection
<1>4. 1 \in I <=> Ordered(Head(es))
  BY <1>1 DEF OrderedAt
<1>5. Cardinality(J) = Cardinality(I \ {1})
  BY <1>2, <1>3, FS_Bijection
<1>6. Cardinality(I \ {1}) = IF 1 \in I THEN Cardinality(I) - 1 ELSE Cardinality(I)
  BY <1>2, FS_RemoveElement
<1>7. Cardinality(I) \in Nat /\ Cardinality(J) \in Nat
  BY <1>2, FS_CardinalityType
<1>8. Count(es) = Cardinality(I) /\ Count(Tail(es)) = Cardinality(J)
  BY DEF Count, OrderedAt
<1> HIDE DEF I, J
<1> QED
  BY <1>4, <1>5, <1>6, <1>7, <1>8

\* What is left after the first event, if that is ordered, comes after it.
LEMMA NumbersTail ==
  ASSUME NEW es \in Seq(Job), es # <<>>, IncreasingEvents(es)
  PROVE  /\ Tail(es) \in Seq(Job) /\ Head(es) \in Job
         /\ IncreasingEvents(Tail(es))
         /\ Numbers(Tail(es)) \subseteq Numbers(es)
         /\ Ordered(Head(es)) =>
              Head(es).n \in Numbers(es) /\ Before({Head(es).n}, Numbers(Tail(es)))
<1>1. /\ Len(es) \in Nat \ {0} /\ DOMAIN es = 1..Len(es)
      /\ DOMAIN Tail(es) = 1..(Len(es) - 1)
      /\ \A i \in 1..(Len(es) - 1) : Tail(es)[i] = es[i + 1]
      /\ Head(es) = es[1] /\ Tail(es) \in Seq(Job) /\ es[1] \in Job
  OBVIOUS
<1>2. IncreasingEvents(Tail(es))
  BY <1>1 DEF IncreasingEvents
<1>3. Numbers(Tail(es)) \subseteq Numbers(es)
  BY <1>1 DEF Numbers
<1>4. Ordered(Head(es)) =>
        Head(es).n \in Numbers(es) /\ Before({Head(es).n}, Numbers(Tail(es)))
  BY <1>1 DEF IncreasingEvents, Numbers, Before
<1> QED
  BY <1>1, <1>2, <1>3, <1>4

\* A new event goes last.
LEMMA NumbersAppend ==
  ASSUME NEW es \in Seq(Job), NEW e \in Job, IncreasingEvents(es),
         Before(Numbers(es), {e.n})
  PROVE  /\ Append(es, e) \in Seq(Job)
         /\ IncreasingEvents(Append(es, e))
         /\ Numbers(Append(es, e)) \subseteq Numbers(es) \cup {e.n}
<1>1. /\ Len(es) \in Nat /\ DOMAIN es = 1..Len(es)
      /\ DOMAIN Append(es, e) = 1..(Len(es) + 1)
      /\ \A i \in 1..Len(es) : Append(es, e)[i] = es[i]
      /\ Append(es, e)[Len(es) + 1] = e
      /\ Append(es, e) \in Seq(Job)
  OBVIOUS
<1>2. IncreasingEvents(Append(es, e))
  <2> SUFFICES ASSUME NEW i \in 1..(Len(es) + 1), NEW j \in 1..(Len(es) + 1), i < j,
                      Ordered(Append(es, e)[i]), Ordered(Append(es, e)[j])
               PROVE  Append(es, e)[i].n < Append(es, e)[j].n
    BY <1>1 DEF IncreasingEvents
  <2>1. i \in 1..Len(es) /\ Ordered(es[i]) /\ es[i].n \in Numbers(es)
    BY <1>1 DEF Numbers
  <2>2. ASSUME j \in 1..Len(es) PROVE Append(es, e)[i].n < Append(es, e)[j].n
    BY <1>1, <2>1, <2>2 DEF IncreasingEvents
  <2>3. ASSUME j = Len(es) + 1 PROVE Append(es, e)[i].n < Append(es, e)[j].n
    BY <1>1, <2>1, <2>3 DEF Before
  <2> QED
    BY <1>1, <2>2, <2>3
<1>3. Numbers(Append(es, e)) \subseteq Numbers(es) \cup {e.n}
  BY <1>1 DEF Numbers
<1> QED
  BY <1>1, <1>2, <1>3

\* The first events and the others, in order.
LEMMA NumbersSplit ==
  ASSUME NEW es \in Seq(Job), NEW k \in 0..Len(es), IncreasingEvents(es)
  PROVE  LET first == SubSeq(es, 1, k)
             rest  == SubSeq(es, k + 1, Len(es))
         IN  /\ first \in Seq(Job) /\ rest \in Seq(Job)
             /\ IncreasingEvents(first) /\ IncreasingEvents(rest)
             /\ Numbers(first) \subseteq Numbers(es) /\ Numbers(rest) \subseteq Numbers(es)
             /\ Before(Numbers(first), Numbers(rest))
<1> DEFINE first == SubSeq(es, 1, k)
           rest  == SubSeq(es, k + 1, Len(es))
<1>1. /\ Len(es) \in Nat /\ DOMAIN es = 1..Len(es)
      /\ first \in Seq(Job) /\ rest \in Seq(Job)
      /\ DOMAIN first = 1..k /\ DOMAIN rest = 1..(Len(es) - k)
      /\ \A i \in 1..k : first[i] = es[i]
      /\ \A i \in 1..(Len(es) - k) : rest[i] = es[k + i]
  OBVIOUS
<1> HIDE DEF first, rest
<1>5. /\ \A i \in 1..k : i \in 1..Len(es)
      /\ \A i \in 1..(Len(es) - k) : k + i \in 1..Len(es)
      /\ \A i, j \in 1..(Len(es) - k) : i < j => k + i < k + j
      /\ \A i \in 1..k, j \in 1..(Len(es) - k) : i < k + j
  BY <1>1
<1>2. IncreasingEvents(first) /\ IncreasingEvents(rest)
  <2>1. IncreasingEvents(first)
    BY <1>1, <1>5 DEF IncreasingEvents
  <2>2. ASSUME NEW i \in 1..(Len(es) - k), NEW j \in 1..(Len(es) - k), i < j,
               Ordered(rest[i]), Ordered(rest[j])
        PROVE  rest[i].n < rest[j].n
    <3>1. k + i \in DOMAIN es /\ k + j \in DOMAIN es /\ k + i < k + j
      BY <1>1, <1>5, <2>2
    <3>2. rest[i] = es[k + i] /\ rest[j] = es[k + j]
      BY <1>1
    <3> QED
      BY <2>2, <3>1, <3>2 DEF IncreasingEvents
  <2> QED
    BY <1>1, <2>1, <2>2 DEF IncreasingEvents
<1>3. Numbers(first) \subseteq Numbers(es) /\ Numbers(rest) \subseteq Numbers(es)
  <2>1. ASSUME NEW i \in 1..k, Ordered(first[i]) PROVE first[i].n \in Numbers(es)
    BY <1>1, <1>5, <2>1 DEF Numbers
  <2>2. ASSUME NEW i \in 1..(Len(es) - k), Ordered(rest[i]) PROVE rest[i].n \in Numbers(es)
    <3>1. k + i \in DOMAIN es /\ rest[i] = es[k + i]
      BY <1>1, <1>5
    <3> QED
      BY <2>2, <3>1 DEF Numbers
  <2>3. Numbers(first) \subseteq Numbers(es)
    BY <1>1, <2>1 DEF Numbers
  <2>4. Numbers(rest) \subseteq Numbers(es)
    BY <1>1, <2>2 DEF Numbers
  <2> QED
    BY <2>3, <2>4
<1>4. Before(Numbers(first), Numbers(rest))
  <2> SUFFICES ASSUME NEW i \in 1..k, NEW j \in 1..(Len(es) - k), Ordered(first[i]), Ordered(rest[j])
               PROVE  first[i].n < rest[j].n
    BY <1>1 DEF Numbers, Before
  <2>1. first[i] = es[i] /\ rest[j] = es[k + j] /\ i < k + j
    BY <1>1, <1>5
  <2>2. i \in DOMAIN es /\ k + j \in DOMAIN es
    BY <1>1, <1>5
  <2> QED
    BY <2>1, <2>2 DEF IncreasingEvents
<1> QED
  BY <1>1, <1>2, <1>3, <1>4 DEF first, rest

\* The first slots and the others, in order.
LEMMA SlotsSplit ==
  ASSUME NEW ss \in Seq(SlotType), NEW k \in 0..Len(ss), Increasing(ss)
  PROVE  LET first == SubSeq(ss, 1, k)
             rest  == SubSeq(ss, k + 1, Len(ss))
         IN  /\ first \in Seq(SlotType) /\ rest \in Seq(SlotType)
             /\ Len(rest) = Len(ss) - k
             /\ Increasing(first) /\ Increasing(rest)
             /\ SlotNumbers(first) \subseteq SlotNumbers(ss)
             /\ SlotNumbers(rest) \subseteq SlotNumbers(ss)
             /\ Before(SlotNumbers(first), SlotNumbers(rest))
<1> DEFINE first == SubSeq(ss, 1, k)
           rest  == SubSeq(ss, k + 1, Len(ss))
<1>1. /\ Len(ss) \in Nat /\ DOMAIN ss = 1..Len(ss)
      /\ first \in Seq(SlotType) /\ rest \in Seq(SlotType)
      /\ Len(rest) = Len(ss) - k
      /\ DOMAIN first = 1..k /\ DOMAIN rest = 1..(Len(ss) - k)
      /\ \A i \in 1..k : first[i] = ss[i]
      /\ \A i \in 1..(Len(ss) - k) : rest[i] = ss[k + i]
  OBVIOUS
<1> HIDE DEF first, rest
<1>5. /\ \A i \in 1..k : i \in 1..Len(ss)
      /\ \A i \in 1..(Len(ss) - k) : k + i \in 1..Len(ss)
      /\ \A i, j \in 1..(Len(ss) - k) : i < j => k + i < k + j
      /\ \A i \in 1..k, j \in 1..(Len(ss) - k) : i < k + j
  BY <1>1
<1>2. Increasing(first) /\ Increasing(rest)
  <2>1. Increasing(first)
    BY <1>1, <1>5 DEF Increasing
  <2>2. ASSUME NEW i \in 1..(Len(ss) - k), NEW j \in 1..(Len(ss) - k), i < j
        PROVE  rest[i].n < rest[j].n
    <3>1. k + i \in DOMAIN ss /\ k + j \in DOMAIN ss /\ k + i < k + j
      BY <1>1, <1>5, <2>2
    <3>2. rest[i] = ss[k + i] /\ rest[j] = ss[k + j]
      BY <1>1
    <3> QED
      BY <2>2, <3>1, <3>2 DEF Increasing
  <2> QED
    BY <1>1, <2>1, <2>2 DEF Increasing
<1>3. /\ SlotNumbers(first) \subseteq SlotNumbers(ss)
      /\ SlotNumbers(rest) \subseteq SlotNumbers(ss)
  <2>1. ASSUME NEW i \in 1..k PROVE first[i].n \in SlotNumbers(ss)
    BY <1>1, <1>5, <2>1 DEF SlotNumbers
  <2>2. ASSUME NEW i \in 1..(Len(ss) - k) PROVE rest[i].n \in SlotNumbers(ss)
    <3>1. k + i \in DOMAIN ss /\ rest[i] = ss[k + i]
      BY <1>1, <1>5
    <3> QED
      BY <2>2, <3>1 DEF SlotNumbers
  <2>3. SlotNumbers(first) \subseteq SlotNumbers(ss)
    BY <1>1, <2>1 DEF SlotNumbers
  <2>4. SlotNumbers(rest) \subseteq SlotNumbers(ss)
    BY <1>1, <2>2 DEF SlotNumbers
  <2> QED
    BY <2>3, <2>4
<1>4. Before(SlotNumbers(first), SlotNumbers(rest))
  <2> SUFFICES ASSUME NEW i \in 1..k, NEW j \in 1..(Len(ss) - k)
               PROVE  first[i].n < rest[j].n
    BY <1>1 DEF SlotNumbers, Before
  <2>1. first[i] = ss[i] /\ rest[j] = ss[k + j] /\ i < k + j
    BY <1>1, <1>5
  <2>2. i \in DOMAIN ss /\ k + j \in DOMAIN ss
    BY <1>1, <1>5
  <2> QED
    BY <2>1, <2>2 DEF Increasing
<1> QED
  BY <1>1, <1>2, <1>3, <1>4 DEF first, rest

\* A new slot goes last.
LEMMA SlotsAppend ==
  ASSUME NEW ss \in Seq(SlotType), NEW s \in SlotType, Increasing(ss),
         Before(SlotNumbers(ss), {s.n})
  PROVE  /\ Append(ss, s) \in Seq(SlotType) /\ Len(Append(ss, s)) = Len(ss) + 1
         /\ Increasing(Append(ss, s))
         /\ SlotNumbers(Append(ss, s)) = SlotNumbers(ss) \cup {s.n}
<1>1. /\ Len(ss) \in Nat /\ DOMAIN ss = 1..Len(ss)
      /\ DOMAIN Append(ss, s) = 1..(Len(ss) + 1)
      /\ \A i \in 1..Len(ss) : Append(ss, s)[i] = ss[i]
      /\ Append(ss, s)[Len(ss) + 1] = s
      /\ Append(ss, s) \in Seq(SlotType) /\ Len(Append(ss, s)) = Len(ss) + 1
  OBVIOUS
<1>2. Increasing(Append(ss, s))
  BY <1>1 DEF Increasing, Before, SlotNumbers
<1>3. SlotNumbers(Append(ss, s)) = SlotNumbers(ss) \cup {s.n}
  <2>1. SlotNumbers(Append(ss, s)) \subseteq SlotNumbers(ss) \cup {s.n}
    BY <1>1 DEF SlotNumbers
  <2>2. SlotNumbers(ss) \subseteq SlotNumbers(Append(ss, s))
    BY <1>1 DEF SlotNumbers
  <2>3. s.n \in SlotNumbers(Append(ss, s))
    BY <1>1 DEF SlotNumbers
  <2> QED
    BY <2>1, <2>2, <2>3
<1> QED
  BY <1>1, <1>2, <1>3

\* Replies that come after everything sent, or were held for an image, may be
\* sent next.
LEMMA SentNext ==
  ASSUME NEW s \in Seq(SlotType), NEW t \in Seq(SlotType), NEW D,
         \A i, j \in DOMAIN s : i < j => s[i].n < s[j].n \/ s[j].n \in D,
         \A j \in DOMAIN t :
            \/ t[j].n \in D
            \/ /\ \A i \in DOMAIN s : s[i].n < t[j].n
               /\ \A i \in DOMAIN t : i < j => t[i].n < t[j].n
  PROVE  LET u == s \o t
         IN  /\ u \in Seq(SlotType)
             /\ SlotNumbers(u) = SlotNumbers(s) \cup SlotNumbers(t)
             /\ \A i, j \in DOMAIN u : i < j => u[i].n < u[j].n \/ u[j].n \in D
<1> DEFINE u == s \o t
<1>1. /\ Len(s) \in Nat /\ Len(t) \in Nat
      /\ DOMAIN s = 1..Len(s) /\ DOMAIN t = 1..Len(t)
      /\ u \in Seq(SlotType) /\ DOMAIN u = 1..(Len(s) + Len(t))
      /\ \A i \in 1..Len(s) : u[i] = s[i]
      /\ \A i \in 1..Len(t) : u[Len(s) + i] = t[i]
  OBVIOUS
<1>2. \A i \in 1..(Len(s) + Len(t)) :
        i \in 1..Len(s) \/ \E k \in 1..Len(t) : i = Len(s) + k
  <2> SUFFICES ASSUME NEW i \in 1..(Len(s) + Len(t)), i \notin 1..Len(s)
               PROVE  \E k \in 1..Len(t) : i = Len(s) + k
    OBVIOUS
  <2>1. i - Len(s) \in 1..Len(t) /\ i = Len(s) + (i - Len(s))
    BY <1>1
  <2> QED
    BY <2>1
<1> HIDE DEF u
<1>3. SlotNumbers(u) = SlotNumbers(s) \cup SlotNumbers(t)
  <2>1. SlotNumbers(u) \subseteq SlotNumbers(s) \cup SlotNumbers(t)
    <3> SUFFICES ASSUME NEW i \in 1..(Len(s) + Len(t))
                 PROVE  u[i].n \in SlotNumbers(s) \cup SlotNumbers(t)
      BY <1>1 DEF SlotNumbers
    <3>1. ASSUME i \in 1..Len(s) PROVE u[i].n \in SlotNumbers(s)
      BY <1>1, <3>1 DEF SlotNumbers
    <3>2. ASSUME NEW l \in 1..Len(t), i = Len(s) + l PROVE u[i].n \in SlotNumbers(t)
      BY <1>1, <3>2 DEF SlotNumbers
    <3> QED
      BY <1>2, <3>1, <3>2
  <2>2. SlotNumbers(s) \subseteq SlotNumbers(u)
    BY <1>1 DEF SlotNumbers
  <2>3. SlotNumbers(t) \subseteq SlotNumbers(u)
    <3> SUFFICES ASSUME NEW k \in 1..Len(t) PROVE t[k].n \in SlotNumbers(u)
      BY <1>1 DEF SlotNumbers
    <3>1. Len(s) + k \in DOMAIN u /\ u[Len(s) + k] = t[k]
      BY <1>1
    <3> QED
      BY <3>1 DEF SlotNumbers
  <2> QED
    BY <2>1, <2>2, <2>3
<1>4. ASSUME NEW i \in DOMAIN u, NEW j \in DOMAIN u, i < j
      PROVE  u[i].n < u[j].n \/ u[j].n \in D
  <2>1. ASSUME j \in 1..Len(s) PROVE u[i].n < u[j].n \/ u[j].n \in D
    <3>1. i \in 1..Len(s)
      BY <1>1, <1>4, <2>1
    <3> QED
      BY <1>1, <1>4, <2>1, <3>1
  <2>2. ASSUME NEW k \in 1..Len(t), j = Len(s) + k
        PROVE  u[i].n < u[j].n \/ u[j].n \in D
    <3>1. u[j] = t[k]
      BY <1>1, <2>2
    <3>2. ASSUME i \in 1..Len(s) PROVE u[i].n < u[j].n \/ u[j].n \in D
      BY <1>1, <3>1, <3>2
    <3>3. ASSUME NEW l \in 1..Len(t), i = Len(s) + l
          PROVE  u[i].n < u[j].n \/ u[j].n \in D
      <4>1. l < k /\ u[i] = t[l]
        BY <1>1, <1>4, <2>2, <3>3
      <4> QED
        BY <1>1, <3>1, <4>1
    <3> QED
      BY <1>1, <1>2, <3>2, <3>3
  <2> QED
    BY <1>1, <1>2, <2>1, <2>2
<1> QED
  BY <1>1, <1>3, <1>4 DEF u

-----------------------------------------------------------------------------
(* Steps that add an event, and steps that write.                          *)

\* What becomes of the event queue: the new event is last, if it is there.
LEMMA WithKeeps ==
  ASSUME IInv, NEW e \in Job, Before(Numbers(events), {e.n})
  PROVE  /\ With(e) \in Seq(Job) /\ IncreasingEvents(With(e))
         /\ Numbers(With(e)) \subseteq Numbers(events) \cup {e.n}
<1>1. /\ events \in Seq(Job) /\ IncreasingEvents(events) /\ parsed \in Nat /\ e.n \in Nat
  BY DEF IInv, Typed, Lined, Job
<1>2. \A f \in Job : Before(Numbers(<<>>), {f.n}) /\ IncreasingEvents(<<>>) /\ <<>> \in Seq(Job)
  BY DEF Before, Numbers, IncreasingEvents
<1>3. Compacted \in Seq(Job) /\ IncreasingEvents(Compacted) /\ Numbers(Compacted) = {}
  <2>1. Compacted \in {<<>>, <<Entry("reset", parsed)>>, <<Entry("overflow", 0)>>}
    BY DEF Compacted
  <2>2. \A f \in Job : ~Ordered(f) =>
          <<f>> \in Seq(Job) /\ IncreasingEvents(<<f>>) /\ Numbers(<<f>>) = {}
    BY DEF IncreasingEvents, Numbers
  <2>3. /\ Entry("reset", parsed) \in Job /\ ~Ordered(Entry("reset", parsed))
        /\ Entry("overflow", 0) \in Job /\ ~Ordered(Entry("overflow", 0))
    BY <1>1 DEF Entry, Job, Ordered
  <2>4. Numbers(<<>>) = {}
    BY DEF Numbers
  <2> QED
    BY <1>2, <2>1, <2>2, <2>3, <2>4
<1>4. Entry("overflow", e.n) \in Job /\ Entry("overflow", e.n).n = e.n
  BY <1>1 DEF Entry, Job
<1>5. With(e) \in {events, Append(events, e), Append(Compacted, e),
                   Append(Compacted, Entry("overflow", e.n))}
  BY DEF With
<1>6. \A f \in {e, Entry("overflow", e.n)} :
        /\ Append(Compacted, f) \in Seq(Job) /\ IncreasingEvents(Append(Compacted, f))
        /\ Numbers(Append(Compacted, f)) \subseteq {e.n}
  <2> SUFFICES ASSUME NEW f \in Job, f.n = e.n
               PROVE  /\ Append(Compacted, f) \in Seq(Job)
                      /\ IncreasingEvents(Append(Compacted, f))
                      /\ Numbers(Append(Compacted, f)) \subseteq {e.n}
    BY <1>4
  <2>1. Before(Numbers(Compacted), {f.n})
    BY <1>3 DEF Before
  <2> QED
    BY <1>3, <2>1, NumbersAppend
<1>7. /\ Append(events, e) \in Seq(Job) /\ IncreasingEvents(Append(events, e))
      /\ Numbers(Append(events, e)) \subseteq Numbers(events) \cup {e.n}
  BY <1>1, NumbersAppend
<1> QED
  BY <1>1, <1>5, <1>6, <1>7

\* The feeder parses something and adds an event for it.
LEMMA Putting ==
  ASSUME IInv, NEW e \in Job, e.n = parsed + 1, parsed' = parsed + 1,
         feeder # "decoding", feeder' = "parsing", events' = With(e),
         UNCHANGED <<held, delayed, jobs, inFlight, written, slots, sent>>
  PROVE  IInv'
<1>1. Before(Numbers(events), {e.n})
  BY NextNumber DEF Due, Before
<1>2. /\ events' \in Seq(Job) /\ IncreasingEvents(events')
      /\ Numbers(events') \subseteq Numbers(events) \cup {e.n}
  BY <1>1, WithKeeps
<1>3. Typed'
  BY <1>2 DEF IInv, Typed
<1>4. Counted' /\ InOrderUnlessDecoding'
  BY DEF IInv, Counted, InOrderUnlessDecoding, Count
<1>5. /\ Due' \subseteq Due \cup {e.n}
      /\ \A n \in SlotNumbers(sent) \cup Due \cup Elements(held) : n \in Nat /\ n < e.n
  <2>1. Due' \subseteq Due \cup {e.n}
    BY <1>2 DEF Due, SlotNumbers, Numbers
  <2> QED
    BY <2>1, NextNumber
<1>6. Lined'
  <2>1. Increasing(slots') /\ IncreasingEvents(jobs') /\ IncreasingEvents(events')
    BY <1>2 DEF IInv, Lined
  <2>2. Before(SlotNumbers(slots'), Numbers(jobs') \cup Numbers(events'))
    BY <1>2, <1>5 DEF IInv, Lined, Before, Due
  <2>3. Before(Numbers(jobs'), Numbers(events'))
    BY <1>2, <1>5 DEF IInv, Lined, Before, Due
  <2>4. Before(SlotNumbers(sent'), Due')
    BY <1>5 DEF IInv, Lined, Before
  <2> QED
    BY <2>1, <2>2, <2>3, <2>4 DEF Lined
<1>7. HeldFirst'
  <2>1. Before(Elements(held'), Due')
    BY <1>5 DEF IInv, HeldFirst, Before
  <2>2. feeder # "parsing" => held = <<>>
    BY DEF IInv, HeldFirst
  <2> QED
    BY <2>1, <2>2 DEF IInv, HeldFirst
<1>8. Parsed'
  BY <1>5 DEF IInv, Typed, Parsed
<1> QED
  BY <1>3, <1>4, <1>6, <1>7, <1>8 DEF IInv

\* The worker writes some of the slots, which are those it had and perhaps that
\* of the event it has just done.
LEMMA Writing ==
  ASSUME IInv, NEW ss \in Seq(SlotType), NEW k \in 0..Len(ss), Increasing(ss),
         SlotNumbers(ss) \subseteq SlotNumbers(slots) \cup Numbers(jobs),
         jobs' \in Seq(Job), IncreasingEvents(jobs'), Numbers(jobs') \subseteq Numbers(jobs),
         Before(SlotNumbers(ss), Numbers(jobs')),
         sent' = sent \o SubSeq(ss, 1, k), slots' = SubSeq(ss, k + 1, Len(ss)),
         UNCHANGED <<parsed, feeder, held, delayed, events>>
  PROVE  /\ slots' \in Seq(SlotType) /\ Len(slots') = Len(ss) - k /\ sent' \in Seq(SlotType)
         /\ Lined' /\ HeldFirst' /\ Parsed' /\ InOrderUnlessDecoding'
<1> DEFINE first == SubSeq(ss, 1, k)
<1>1. /\ first \in Seq(SlotType) /\ slots' \in Seq(SlotType)
      /\ Len(slots') = Len(ss) - k
      /\ Increasing(first) /\ Increasing(slots')
      /\ SlotNumbers(first) \subseteq SlotNumbers(ss)
      /\ SlotNumbers(slots') \subseteq SlotNumbers(ss)
      /\ Before(SlotNumbers(first), SlotNumbers(slots'))
  BY SlotsSplit
<1>2. sent' = sent \o first
  OBVIOUS
<1>3. first = <<>> \/ SlotNumbers(ss) # {}
  BY <1>1 DEF SlotNumbers
<1>7. ss = <<>> \/ SlotNumbers(ss) # {}
  BY DEF SlotNumbers
<1> HIDE DEF first
<1>4. Before(SlotNumbers(sent), SlotNumbers(first))
  BY <1>1 DEF IInv, Lined, Before, Due
<1>5. /\ sent' \in Seq(SlotType)
      /\ SlotNumbers(sent') = SlotNumbers(sent) \cup SlotNumbers(first)
      /\ InOrderUnlessDecoding'
  <2>1. \A i, j \in DOMAIN sent : i < j => sent[i].n < sent[j].n \/ sent[j].n \in delayed
    BY DEF IInv, InOrderUnlessDecoding
  <2>2. \A j \in DOMAIN first :
          /\ \A i \in DOMAIN sent : sent[i].n < first[j].n
          /\ \A i \in DOMAIN first : i < j => first[i].n < first[j].n
    BY <1>1, <1>4 DEF Before, SlotNumbers, Increasing
  <2>3. sent \in Seq(SlotType)
    BY DEF IInv, Typed
  <2>4. /\ sent' \in Seq(SlotType)
        /\ SlotNumbers(sent') = SlotNumbers(sent) \cup SlotNumbers(first)
        /\ \A i, j \in DOMAIN sent' :
              i < j => sent'[i].n < sent'[j].n \/ sent'[j].n \in delayed
    <3>1. \A j \in DOMAIN first :
            \/ first[j].n \in delayed
            \/ /\ \A i \in DOMAIN sent : sent[i].n < first[j].n
               /\ \A i \in DOMAIN first : i < j => first[i].n < first[j].n
      BY <2>2
    <3> QED
      <4>1. first \in Seq(SlotType)
        BY <1>1
      <4> DEFINE u == sent \o first
      <4>2. /\ u \in Seq(SlotType)
            /\ SlotNumbers(u) = SlotNumbers(sent) \cup SlotNumbers(first)
            /\ \A i, j \in DOMAIN u : i < j => u[i].n < u[j].n \/ u[j].n \in delayed
        BY <2>1, <2>3, <3>1, <4>1, SentNext
      <4>3. sent' = u
        BY <1>2
      <4> HIDE DEF u
      <4> QED
        BY <4>2, <4>3
  <2> QED
    BY <2>4 DEF InOrderUnlessDecoding
<1>6. Due' \subseteq Due /\ SlotNumbers(sent') \subseteq SlotNumbers(sent) \cup Due
  BY <1>1, <1>5 DEF Due
<1>8. Lined'
  <2>1. Increasing(slots') /\ IncreasingEvents(jobs') /\ IncreasingEvents(events')
    BY <1>1 DEF IInv, Lined
  <2>2. Before(SlotNumbers(slots'), Numbers(jobs') \cup Numbers(events'))
    BY <1>1 DEF IInv, Lined, Before
  <2>3. Before(Numbers(jobs'), Numbers(events'))
    BY DEF IInv, Lined, Before
  <2>4. Before(SlotNumbers(sent), Due')
    BY <1>6 DEF IInv, Lined, Before
  <2>5. Before(SlotNumbers(first), Due')
    <3>1. Before(SlotNumbers(first), Numbers(jobs'))
      BY <1>1 DEF Before
    <3>2. Before(SlotNumbers(first), Numbers(events'))
      BY <1>1 DEF IInv, Lined, Before
    <3> QED
      BY <1>1, <3>1, <3>2 DEF Due, Before
  <2>6. Before(SlotNumbers(sent'), Due')
    BY <1>5, <2>4, <2>5 DEF Before
  <2> QED
    BY <2>1, <2>2, <2>3, <2>6 DEF Lined
<1>9. HeldFirst'
  <2>1. Before(Elements(held'), Due')
    BY <1>6 DEF IInv, HeldFirst, Before
  <2>2. ASSUME feeder' = "parsing", held' # <<>>
        PROVE  slots' = <<>> /\ Numbers(jobs') = {} /\ Before(SlotNumbers(sent'), Elements(held'))
    <3>1. slots = <<>> /\ Numbers(jobs) = {} /\ Before(SlotNumbers(sent), Elements(held))
      BY <2>2 DEF IInv, HeldFirst
    <3>2. SlotNumbers(ss) = {}
      <4>1. SlotNumbers(slots) = {}
        BY <3>1 DEF SlotNumbers
      <4> QED
        BY <3>1, <4>1
    <3>3. slots' = <<>>
      BY <1>1, <1>7, <3>2
    <3> QED
      BY <1>1, <1>5, <3>1, <3>2, <3>3 DEF Before
  <2>3. /\ \A i, j \in DOMAIN held' : i < j => held'[i] < held'[j]
        /\ feeder' = "decoding" => Elements(held') \subseteq delayed'
        /\ feeder' \notin {"parsing", "decoding"} => held' = <<>>
    BY DEF IInv, HeldFirst
  <2> QED
    BY <2>1, <2>2, <2>3 DEF HeldFirst
<1>10. Parsed'
  BY <1>6 DEF IInv, Parsed
<1> QED
  BY <1>1, <1>5, <1>8, <1>9, <1>10

-----------------------------------------------------------------------------
(* The feeder.                                                             *)

\* Nothing is owed and nothing said at the start.
LEMMA InitInvariant == Init => IInv
<1> SUFFICES ASSUME Init PROVE IInv
  OBVIOUS
<1>1. Typed
  BY DEF Init, Typed
<1>2. /\ SlotNumbers(<<>>) = {} /\ Numbers(<<>>) = {} /\ Elements(<<>>) = {}
      /\ Increasing(<<>>) /\ IncreasingEvents(<<>>)
  BY DEF SlotNumbers, Numbers, Elements, Increasing, IncreasingEvents
<1>3. Counted
  <2>1. <<>> \in Seq(Job) /\ Len(<<>>) = 0
    OBVIOUS
  <2>2. Count(<<>>) = 0
    BY <1>2, <2>1, CountZero
  <2> QED
    BY <2>1, <2>2 DEF Init, Counted
<1>4. Lined /\ HeldFirst /\ Parsed /\ InOrderUnlessDecoding
  BY <1>2 DEF Init, Lined, HeldFirst, Parsed, Due, Before, InOrderUnlessDecoding
<1> QED
  BY <1>1, <1>3, <1>4 DEF IInv

\* What changes none of the core keeps the invariant.
LEMMA CoreUnchanged ==
  ASSUME IInv, UNCHANGED core
  PROVE  IInv'
<1>1. Typed' /\ Counted'
  BY DEF IInv, core, Typed, Counted, Count
<1>2. Lined' /\ HeldFirst' /\ Parsed' /\ InOrderUnlessDecoding'
  BY DEF IInv, core, Lined, HeldFirst, Parsed, Due, SlotNumbers, Numbers, Elements,
     InOrderUnlessDecoding
<1> QED
  BY <1>1, <1>2 DEF IInv

\* So does waking the worker.
LEMMA NotifyStep ==
  ASSUME IInv, Notify
  PROVE  IInv'
<1>0. /\ feeder = "between" /\ feeder' = "idle" /\ held = <<>>
      /\ UNCHANGED <<parsed, held, delayed, events, jobs, inFlight, written, slots, sent>>
  BY DEF Notify, IInv, HeldFirst
<1>1. Typed' /\ Counted'
  BY <1>0 DEF IInv, Typed, Counted, Count
<1>2. Lined' /\ Parsed' /\ InOrderUnlessDecoding'
  BY <1>0 DEF IInv, Lined, Parsed, Due, SlotNumbers, Numbers, Elements, InOrderUnlessDecoding
<1>3. HeldFirst'
  BY <1>0 DEF IInv, HeldFirst, Due, SlotNumbers, Numbers, Elements
<1> QED
  BY <1>1, <1>2, <1>3 DEF IInv

\* While nothing is owed, nothing waits anywhere.
LEMMA NothingOwed ==
  ASSUME IInv, ~Owed
  PROVE  Due = {} /\ slots = <<>> /\ Numbers(jobs) = {}
<1>1. /\ Count(events) \in Nat /\ (Count(events) = 0 <=> Numbers(events) = {})
      /\ Count(jobs) \in Nat /\ (Count(jobs) = 0 <=> Numbers(jobs) = {})
  BY CountZero DEF IInv, Typed
<1>2. /\ Len(slots) \in Nat /\ written \in Nat /\ inFlight \in Nat
      /\ Len(slots) = 0 => slots = <<>>
  BY DEF IInv, Typed
<1>3. Count(events) = 0 /\ Count(jobs) = 0 /\ Len(slots) = 0
  BY <1>1, <1>2 DEF IInv, Counted, Owed
<1>4. SlotNumbers(slots) = {}
  BY <1>2, <1>3 DEF SlotNumbers
<1> QED
  BY <1>1, <1>2, <1>3, <1>4 DEF Due

\* A reply the feeder holds back, when nothing is owed.
LEMMA HoldsQuery ==
  ASSUME IInv, ParseQuery, ~Owed
  PROVE  IInv'
<1>1. Due = {} /\ slots = <<>> /\ Numbers(jobs) = {}
  BY NothingOwed
<1>2. /\ parsed' = parsed + 1 /\ held' = Append(held, parsed + 1) /\ feeder' = "parsing"
      /\ feeder # "decoding"
      /\ UNCHANGED <<delayed, events, jobs, inFlight, written, slots, sent>>
  BY DEF ParseQuery, Parses, Queries, FeederOnly
<1>3. /\ Len(held) \in Nat /\ DOMAIN held = 1..Len(held) /\ parsed \in Nat
      /\ held' \in Seq(Nat) /\ DOMAIN held' = 1..(Len(held) + 1)
      /\ \A i \in 1..Len(held) : held'[i] = held[i] /\ held[i] \in Elements(held) /\ held[i] \in Nat
      /\ held'[Len(held) + 1] = parsed + 1
  BY <1>2 DEF IInv, Typed, Elements
<1>4. Elements(held') \subseteq Elements(held) \cup {parsed + 1}
  BY <1>3 DEF Elements
<1>5. Typed' /\ Counted'
  BY <1>2, <1>3 DEF IInv, Typed, Counted, Count
<1>6. Lined' /\ InOrderUnlessDecoding'
  BY <1>2 DEF IInv, Lined, Due, SlotNumbers, Numbers, InOrderUnlessDecoding
<1>7. Due' = {} /\ SlotNumbers(sent') = SlotNumbers(sent)
  <2>1. Due' = Due
    BY <1>2 DEF Due, SlotNumbers, Numbers
  <2>2. SlotNumbers(sent') = SlotNumbers(sent)
    BY <1>2 DEF SlotNumbers
  <2> QED
    BY <1>1, <2>1, <2>2
<1>8. \A n \in SlotNumbers(sent) \cup Elements(held) : n \in Nat /\ n < parsed + 1
  BY NextNumber
<1>9. HeldFirst'
  <2>1. \A i, j \in DOMAIN held' : i < j => held'[i] < held'[j]
    BY <1>3, <1>8 DEF IInv, HeldFirst
  <2>2. Before(Elements(held'), Due')
    BY <1>7 DEF Before
  <2>3. Before(SlotNumbers(sent), Elements(held))
    BY <1>2 DEF IInv, HeldFirst, Before, Elements
  <2>4. Before(SlotNumbers(sent'), Elements(held'))
    BY <1>4, <1>7, <1>8, <2>3 DEF Before
  <2>5. slots' = <<>> /\ Numbers(jobs') = {}
    BY <1>1, <1>2
  <2> QED
    BY <1>2, <2>1, <2>2, <2>4, <2>5 DEF HeldFirst
<1>10. Parsed'
  <2>1. \A n \in SlotNumbers(sent') \cup Due' \cup Elements(held') : n =< parsed + 1
    BY <1>3, <1>4, <1>7, <1>8
  <2> QED
    BY <1>2, <2>1 DEF Parsed
<1> QED
  BY <1>5, <1>6, <1>9, <1>10 DEF IInv

\* What the feeder parses while it has the lock, but for images.
LEMMA ParseStep ==
  ASSUME IInv, ParseQuery \/ ParseLoad \/ ParseKitty \/ ParseReset
  PROVE  IInv'
<1>1. /\ parsed \in Nat /\ parsed' = parsed + 1 /\ feeder # "decoding" /\ feeder' = "parsing"
      /\ UNCHANGED <<delayed, jobs, inFlight, written, slots, sent>>
  BY DEF IInv, Typed, ParseQuery, ParseLoad, ParseKitty, ParseReset, Parses, FeederOnly
<1>2. \A kind \in {"load", "kitty", "reply", "reset", "overflow"} :
        Entry(kind, parsed + 1) \in Job /\ Entry(kind, parsed + 1).n = parsed + 1
  BY <1>1 DEF Entry, Job
<1>3. ASSUME NEW kind \in {"load", "kitty", "reply", "reset", "overflow"},
             Put(Entry(kind, parsed + 1), parsed + 1), UNCHANGED held
      PROVE  IInv'
  BY <1>1, <1>2, <1>3, Putting DEF Put
<1>4. CASE ParseQuery
  <2>1. CASE Owed
    BY <1>1, <1>3, <1>4, <2>1 DEF ParseQuery, Queries
  <2>2. CASE ~Owed
    BY <1>4, <2>2, HoldsQuery
  <2> QED
    BY <2>1, <2>2
<1>5. CASE ParseLoad
  BY <1>1, <1>3, <1>5 DEF ParseLoad
<1>6. CASE ParseKitty
  BY <1>1, <1>3, <1>6 DEF ParseKitty
<1>7. CASE ParseReset
  BY <1>1, <1>3, <1>7 DEF ParseReset
<1> QED
  BY <1>4, <1>5, <1>6, <1>7

\* The lock is let go of to decode an image.
LEMMA UploadStep ==
  ASSUME IInv, ParseUpload
  PROVE  IInv'
<1>1. /\ parsed' = parsed + 1 /\ feeder # "decoding" /\ feeder' = "decoding"
      /\ delayed' = delayed \cup {held[i] : i \in DOMAIN held}
      /\ UNCHANGED <<held, events, jobs, inFlight, written, slots, sent>>
  BY DEF ParseUpload, Parses, FeederOnly
<1>2. Typed' /\ Counted' /\ Lined' /\ InOrderUnlessDecoding'
  <2>1. Typed'
    BY <1>1 DEF IInv, Typed
  <2>2. Counted'
    BY <1>1 DEF IInv, Counted, Count
  <2>3. Lined'
    BY <1>1 DEF IInv, Lined, Due, SlotNumbers, Numbers
  <2>4. InOrderUnlessDecoding'
    BY <1>1 DEF IInv, InOrderUnlessDecoding
  <2> QED
    BY <2>1, <2>2, <2>3, <2>4
<1>3. Due' = Due /\ SlotNumbers(sent') = SlotNumbers(sent) /\ Elements(held') = Elements(held)
  BY <1>1 DEF Due, SlotNumbers, Numbers, Elements
<1>4. HeldFirst'
  BY <1>1, <1>3 DEF IInv, HeldFirst, Elements
<1>5. Parsed'
  <2>1. \A n \in SlotNumbers(sent') \cup Due' \cup Elements(held') : n < parsed'
    BY <1>1, <1>3, NextNumber
  <2>2. parsed \in Nat /\ \A n \in SlotNumbers(sent') \cup Due' \cup Elements(held') : n =< parsed'
    BY <1>1, <1>3, NextNumber DEF IInv, Typed
  <2> QED
    BY <2>1, <2>2 DEF Parsed
<1> QED
  BY <1>2, <1>4, <1>5 DEF IInv

\* What the engine answers itself, as slots.
LEMMA DirectSlots ==
  ASSUME NEW ns \in Seq(Nat)
  PROVE  /\ Direct(ns) \in Seq(SlotType) /\ DOMAIN Direct(ns) = DOMAIN ns
         /\ \A i \in DOMAIN ns : Direct(ns)[i].n = ns[i]
<1>1. DOMAIN ns = 1..Len(ns) /\ Len(ns) \in Nat
  OBVIOUS
<1>2. \A i \in 1..Len(ns) : Slot(ns[i], "reply") \in SlotType /\ Slot(ns[i], "reply").n = ns[i]
  BY <1>1 DEF Slot, SlotType, Outcomes
<1>3. Direct(ns) = [i \in 1..Len(ns) |-> Slot(ns[i], "reply")]
  BY <1>1 DEF Direct
<1> QED
  BY <1>1, <1>2, <1>3

\* The image is committed, and what was held is written with its reply.
LEMMA CommitStep ==
  ASSUME IInv, Commit
  PROVE  IInv'
<1>1. /\ feeder = "decoding" /\ feeder' = "between" /\ held' = <<>>
      /\ UNCHANGED <<parsed, delayed, jobs, inFlight, written, slots>>
  BY DEF Commit, FeederOnly
<1>2. /\ held \in Seq(Nat) /\ parsed \in Nat /\ sent \in Seq(SlotType)
      /\ Elements(held) \subseteq delayed /\ Before(Elements(held), Due)
      /\ \A n \in SlotNumbers(sent) \cup Due \cup Elements(held) : n < parsed
      /\ \A i, j \in DOMAIN sent : i < j => sent[i].n < sent[j].n \/ sent[j].n \in delayed
  BY <1>1 DEF IInv, Typed, HeldFirst, Parsed, InOrderUnlessDecoding
<1>3. Elements(held') = {}
  BY <1>1 DEF Elements
<1>4. Counted'
  BY <1>1 DEF IInv, Counted, Count
<1>5. CASE Owed
  <2> DEFINE e == Entry("reply", parsed)
             t == Direct(held)
  <2>1. events' = With(e) /\ sent' = sent \o t
    BY <1>5 DEF Commit, Put
  <2>2. e \in Job /\ e.n = parsed
    BY <1>2 DEF Entry, Job
  <2>3. Before(Numbers(events), {e.n})
    BY <1>2, <2>2 DEF Before, Due
  <2> HIDE DEF e
  <2>4. /\ events' \in Seq(Job) /\ IncreasingEvents(events')
        /\ Numbers(events') \subseteq Numbers(events) \cup {parsed}
    BY <2>1, <2>2, <2>3, WithKeeps
  <2>5. /\ t \in Seq(SlotType) /\ DOMAIN t = DOMAIN held /\ \A i \in DOMAIN held : t[i].n = held[i]
    BY <1>2, DirectSlots
  <2>6. SlotNumbers(t) = Elements(held)
    BY <2>5 DEF SlotNumbers, Elements
  <2>7. \A j \in DOMAIN t : t[j].n \in delayed
    BY <1>2, <2>5 DEF Elements
  <2> HIDE DEF t
  <2>8. /\ sent' \in Seq(SlotType) /\ SlotNumbers(sent') = SlotNumbers(sent) \cup Elements(held)
        /\ \A i, j \in DOMAIN sent' : i < j => sent'[i].n < sent'[j].n \/ sent'[j].n \in delayed
    BY <1>2, <2>1, <2>5, <2>6, <2>7, SentNext
  <2>9. Due' \subseteq Due \cup {parsed}
    BY <1>1, <2>4 DEF Due, SlotNumbers, Numbers
  <2>10. Typed' /\ InOrderUnlessDecoding'
    BY <1>1, <2>4, <2>8 DEF IInv, Typed, InOrderUnlessDecoding
  <2>11. Lined'
    <3>1. Increasing(slots') /\ IncreasingEvents(jobs') /\ IncreasingEvents(events')
      BY <1>1, <2>4 DEF IInv, Lined
    <3>2. Before(SlotNumbers(slots'), Numbers(jobs') \cup Numbers(events'))
      BY <1>1, <1>2, <2>4 DEF IInv, Lined, Before, Due
    <3>3. Before(Numbers(jobs'), Numbers(events'))
      BY <1>1, <1>2, <2>4 DEF IInv, Lined, Before, Due
    <3>4. Before(SlotNumbers(sent) \cup Elements(held), Due \cup {parsed})
      BY <1>2 DEF IInv, Lined, Before
    <3>5. Before(SlotNumbers(sent'), Due')
      BY <2>8, <2>9, <3>4 DEF Before
    <3> QED
      BY <3>1, <3>2, <3>3, <3>5 DEF Lined
  <2>12. HeldFirst'
    BY <1>1, <1>3 DEF HeldFirst, Before
  <2>13. Parsed'
    <3>1. \A n \in SlotNumbers(sent') \cup Due' \cup Elements(held') :
            n \in SlotNumbers(sent) \cup Due \cup Elements(held) \/ n = parsed
      BY <1>3, <2>8, <2>9
    <3>2. \A n \in SlotNumbers(sent) \cup Due \cup Elements(held) : n =< parsed
      BY DEF IInv, Parsed
    <3> QED
      BY <1>1, <1>2, <3>1, <3>2 DEF Parsed
  <2> QED
    BY <1>4, <2>10, <2>11, <2>12, <2>13 DEF IInv
<1>6. CASE ~Owed
  <2> DEFINE ns == Append(held, parsed)
             t == Direct(ns)
  <2>1. sent' = sent \o t /\ UNCHANGED events
    BY <1>6 DEF Commit
  <2>2. Due = {}
    BY <1>6, NothingOwed
  <2>3. /\ Len(held) \in Nat /\ DOMAIN held = 1..Len(held)
        /\ ns \in Seq(Nat) /\ DOMAIN ns = 1..(Len(held) + 1)
        /\ \A i \in 1..Len(held) : ns[i] = held[i]
        /\ ns[Len(held) + 1] = parsed
    BY <1>2
  <2> HIDE DEF ns
  <2>4. /\ t \in Seq(SlotType) /\ DOMAIN t = 1..(Len(held) + 1)
        /\ \A i \in 1..Len(held) : t[i].n = held[i]
        /\ t[Len(held) + 1].n = parsed
    BY <2>3, DirectSlots
  <2> HIDE DEF t
  <2>5. SlotNumbers(t) \subseteq Elements(held) \cup {parsed}
    BY <2>3, <2>4 DEF SlotNumbers, Elements
  <2>6. \A j \in DOMAIN t :
          \/ t[j].n \in delayed
          \/ /\ \A i \in DOMAIN sent : sent[i].n < t[j].n
             /\ \A i \in DOMAIN t : i < j => t[i].n < t[j].n
    <3> SUFFICES ASSUME NEW j \in 1..(Len(held) + 1)
                 PROVE  \/ t[j].n \in delayed
                        \/ /\ \A i \in DOMAIN sent : sent[i].n < t[j].n
                           /\ \A i \in DOMAIN t : i < j => t[i].n < t[j].n
      BY <2>4
    <3>1. ASSUME j \in 1..Len(held) PROVE t[j].n \in delayed
      BY <1>2, <2>3, <2>4, <3>1 DEF Elements
    <3>2. ASSUME j = Len(held) + 1
          PROVE  /\ \A i \in DOMAIN sent : sent[i].n < t[j].n
                 /\ \A i \in DOMAIN t : i < j => t[i].n < t[j].n
      <4>1. \A i \in DOMAIN sent : sent[i].n < parsed
        BY <1>2 DEF SlotNumbers
      <4>2. \A i \in 1..Len(held) : held[i] < parsed
        BY <1>2, <2>3 DEF Elements
      <4>3. t[j].n = parsed /\ \A i \in DOMAIN t : i < j => i \in 1..Len(held)
        BY <2>3, <2>4, <3>2
      <4> QED
        BY <2>4, <4>1, <4>2, <4>3
    <3> QED
      BY <2>3, <3>1, <3>2
  <2>7. /\ sent' \in Seq(SlotType) /\ SlotNumbers(sent') = SlotNumbers(sent) \cup SlotNumbers(t)
        /\ \A i, j \in DOMAIN sent' : i < j => sent'[i].n < sent'[j].n \/ sent'[j].n \in delayed
    BY <1>2, <2>1, <2>4, <2>6, SentNext
  <2>8. Due' = {}
    BY <1>1, <2>1, <2>2 DEF Due, SlotNumbers, Numbers
  <2>9. Typed' /\ InOrderUnlessDecoding'
    BY <1>1, <2>1, <2>7 DEF IInv, Typed, InOrderUnlessDecoding
  <2>10. Lined'
    BY <1>1, <2>1, <2>8 DEF IInv, Lined, Before, SlotNumbers, Numbers
  <2>11. HeldFirst'
    BY <1>1, <1>3 DEF HeldFirst, Before
  <2>12. Parsed'
    <3>1. \A n \in SlotNumbers(sent') \cup Due' \cup Elements(held') :
            n \in SlotNumbers(sent) \cup Elements(held) \/ n = parsed
      BY <1>3, <2>5, <2>7, <2>8
    <3>2. \A n \in SlotNumbers(sent) \cup Due \cup Elements(held) : n =< parsed
      BY NextNumber
    <3> QED
      BY <1>1, <1>2, <3>1, <3>2 DEF Parsed
  <2> QED
    BY <1>4, <2>9, <2>10, <2>11, <2>12 DEF IInv
<1> QED
  BY <1>5, <1>6

\* The replies of a slice are written at its end.
LEMMA EndSliceStep ==
  ASSUME IInv, EndSlice
  PROVE  IInv'
<1> DEFINE t == Direct(held)
<1>1. /\ feeder = "parsing" /\ feeder' = "between" /\ held' = <<>> /\ sent' = sent \o t
      /\ UNCHANGED <<parsed, delayed, events, jobs, inFlight, written, slots>>
  BY DEF EndSlice, FeederOnly
<1>2. /\ held \in Seq(Nat) /\ sent \in Seq(SlotType)
      /\ Before(Elements(held), Due)
      /\ held # <<>> => Before(SlotNumbers(sent), Elements(held))
      /\ \A i, j \in DOMAIN held : i < j => held[i] < held[j]
      /\ \A i, j \in DOMAIN sent : i < j => sent[i].n < sent[j].n \/ sent[j].n \in delayed
  BY <1>1 DEF IInv, Typed, HeldFirst, InOrderUnlessDecoding
<1>3. /\ t \in Seq(SlotType) /\ DOMAIN t = DOMAIN held /\ \A i \in DOMAIN held : t[i].n = held[i]
  BY <1>2, DirectSlots
<1> HIDE DEF t
<1>4. SlotNumbers(t) = Elements(held)
  BY <1>3 DEF SlotNumbers, Elements
<1>5. \A j \in DOMAIN t :
        /\ \A i \in DOMAIN sent : sent[i].n < t[j].n
        /\ \A i \in DOMAIN t : i < j => t[i].n < t[j].n
  BY <1>2, <1>3 DEF Before, SlotNumbers, Elements
<1>6. /\ sent' \in Seq(SlotType) /\ SlotNumbers(sent') = SlotNumbers(sent) \cup Elements(held)
      /\ \A i, j \in DOMAIN sent' : i < j => sent'[i].n < sent'[j].n \/ sent'[j].n \in delayed
  BY <1>1, <1>2, <1>3, <1>4, <1>5, SentNext
<1>7. Due' = Due /\ Elements(held') = {}
  BY <1>1 DEF Due, SlotNumbers, Numbers, Elements
<1>8. Typed' /\ InOrderUnlessDecoding'
  BY <1>1, <1>6 DEF IInv, Typed, InOrderUnlessDecoding
<1>9. Counted'
  BY <1>1 DEF IInv, Counted, Count
<1>10. Lined'
  <2>1. Before(SlotNumbers(sent'), Due')
    BY <1>2, <1>6, <1>7 DEF IInv, Lined, Before
  <2> QED
    BY <1>1, <2>1 DEF IInv, Lined, SlotNumbers, Numbers
<1>11. HeldFirst'
  BY <1>1, <1>7 DEF HeldFirst, Before
<1>12. Parsed'
  BY <1>1, <1>6, <1>7 DEF IInv, Parsed
<1> QED
  BY <1>8, <1>9, <1>10, <1>11, <1>12 DEF IInv

-----------------------------------------------------------------------------
(* The worker.                                                             *)

\* Slots keep their numbers when what they wait for is answered, denied or
\* cancelled, and some of them may be written; the events left to do are none, or
\* follow one that is not ordered.
LEMMA SlotsStep ==
  ASSUME IInv, written = 0,
         NEW ss \in Seq(SlotType), Len(ss) = Len(slots),
         \A i \in DOMAIN slots : ss[i].n = slots[i].n,
         NEW k \in 0..Len(ss), written' = k,
         sent' = sent \o SubSeq(ss, 1, k), slots' = SubSeq(ss, k + 1, Len(ss)),
         \/ jobs' = jobs
         \/ jobs # <<>> /\ ~Ordered(Head(jobs)) /\ jobs' = Tail(jobs),
         UNCHANGED <<parsed, feeder, held, delayed, events, inFlight>>
  PROVE  IInv'
<1>1. /\ jobs \in Seq(Job) /\ IncreasingEvents(jobs) /\ slots \in Seq(SlotType)
      /\ Increasing(slots) /\ Before(SlotNumbers(slots), Numbers(jobs))
  BY DEF IInv, Typed, Lined, Before
<1>2. /\ jobs' \in Seq(Job) /\ IncreasingEvents(jobs') /\ Numbers(jobs') \subseteq Numbers(jobs)
      /\ Count(jobs') = Count(jobs) /\ Count(jobs) \in Nat
  <2>1. CASE jobs' = jobs
    BY <1>1, <2>1, CountZero
  <2>2. CASE jobs # <<>> /\ ~Ordered(Head(jobs)) /\ jobs' = Tail(jobs)
    <3>1. /\ jobs' \in Seq(Job) /\ IncreasingEvents(jobs') /\ Numbers(jobs') \subseteq Numbers(jobs)
      BY <1>1, <2>2, NumbersTail
    <3>2. Count(jobs) = Count(Tail(jobs)) + 0 /\ Count(Tail(jobs)) \in Nat
      BY <1>1, <2>2, <3>1, CountTail, CountZero
    <3> QED
      BY <2>2, <3>1, <3>2
  <2> QED
    BY <2>1, <2>2
<1>3. Len(ss) \in Nat /\ DOMAIN ss = DOMAIN slots
  BY <1>1
<1>4. Increasing(ss) /\ SlotNumbers(ss) = SlotNumbers(slots)
  <2>1. Increasing(ss)
    BY <1>1, <1>3 DEF Increasing
  <2>2. SlotNumbers(ss) \subseteq SlotNumbers(slots)
    BY <1>3 DEF SlotNumbers
  <2>3. SlotNumbers(slots) \subseteq SlotNumbers(ss)
    BY <1>3 DEF SlotNumbers
  <2> QED
    BY <2>1, <2>2, <2>3
<1>5. Before(SlotNumbers(ss), Numbers(jobs'))
  BY <1>1, <1>2, <1>4 DEF Before
<1>6. /\ slots' \in Seq(SlotType) /\ Len(slots') = Len(ss) - k /\ sent' \in Seq(SlotType)
      /\ Lined' /\ HeldFirst' /\ Parsed' /\ InOrderUnlessDecoding'
  BY <1>2, <1>4, <1>5, Writing
<1>9. written' \in Nat /\ k \in Nat /\ Len(ss) - k + k = Len(ss)
  BY <1>3
<1>7. Typed'
  BY <1>2, <1>6, <1>9 DEF IInv, Typed
<1>8. Counted'
  <2>1. Count(jobs)' = Count(jobs)
    BY <1>2 DEF Count
  <2>2. inFlight = Len(ss) + Count(jobs)
    BY <1>2, <1>3 DEF IInv, Counted
  <2> QED
    BY <1>2, <1>3, <1>6, <1>9, <2>1, <2>2 DEF Counted
<1> QED
  BY <1>6, <1>7, <1>8 DEF IInv

\* Answers and denials are such a step.
LEMMA CompleteStep ==
  ASSUME IInv, NEW ns, Complete(ns), written = 0,
         \/ jobs' = jobs
         \/ jobs # <<>> /\ ~Ordered(Head(jobs)) /\ jobs' = Tail(jobs),
         UNCHANGED <<parsed, feeder, held, delayed, events, inFlight>>
  PROVE  IInv'
<1> DEFINE ss == [i \in DOMAIN slots |->
                    IF i \in Waiting(ns) THEN Slot(slots[i].n, "clipboard") ELSE slots[i]]
<1>1. slots \in Seq(SlotType)
  BY DEF IInv, Typed
<1>2. /\ \A i \in DOMAIN slots : ss[i].n = slots[i].n
      /\ ss \in Seq(SlotType) /\ Len(ss) = Len(slots)
  <2>1. \A i \in 1..Len(slots) : ss[i] \in SlotType /\ ss[i].n = slots[i].n
    <3>1. \A i \in 1..Len(slots) : slots[i] \in SlotType /\ slots[i].n \in Nat
      <4>1. \A i \in 1..Len(slots) : slots[i] \in SlotType
        BY <1>1
      <4>2. \A t \in SlotType : t.n \in Nat
        BY DEF SlotType
      <4> QED
        BY <4>1, <4>2
    <3>2. \A n \in Nat, what \in Outcomes : Slot(n, what) \in SlotType /\ Slot(n, what).n = n
      BY DEF Slot, SlotType
    <3>3. {"clipboard", "nothing"} \subseteq Outcomes
      BY DEF Outcomes
    <3> QED
      BY <1>1, <3>1, <3>2, <3>3
  <2>2. Len(slots) \in Nat /\ DOMAIN slots = 1..Len(slots) /\ ss = [i \in 1..Len(slots) |-> ss[i]]
    BY <1>1
  <2> HIDE DEF ss
  <2>3. ss \in Seq(SlotType) /\ Len(ss) = Len(slots)
    BY <2>1, <2>2
  <2> QED
    BY <2>1, <2>2, <2>3
<1>3. WriteDue(ss)
  BY DEF Complete
<1> HIDE DEF ss
<1>4. PICK k \in 0..Len(ss) : /\ sent' = sent \o SubSeq(ss, 1, k)
                              /\ slots' = SubSeq(ss, k + 1, Len(ss))
                              /\ written' = k
  BY <1>3 DEF WriteDue
<1> QED
  BY <1>2, <1>4, SlotsStep

\* An ordered event is done: its slot, if it gets one, goes behind the others,
\* and some of them may be written.
LEMMA EventStep ==
  ASSUME IInv, jobs # <<>>, Ordered(Head(jobs)), written = 0, jobs' = Tail(jobs),
         UNCHANGED <<parsed, feeder, held, delayed, events, inFlight>>,
         NEW s \in SlotType, s.n = Head(jobs).n,
         NEW ss \in {slots, Append(slots, s)}, NEW k \in 0..Len(ss),
         sent' = sent \o SubSeq(ss, 1, k), slots' = SubSeq(ss, k + 1, Len(ss)),
         written' = k + (IF ss = slots THEN 1 ELSE 0)
  PROVE  IInv'
<1>1. /\ jobs \in Seq(Job) /\ IncreasingEvents(jobs) /\ slots \in Seq(SlotType)
      /\ Increasing(slots) /\ Before(SlotNumbers(slots), Numbers(jobs))
  BY DEF IInv, Typed, Lined, Before
<1>2. /\ jobs' \in Seq(Job) /\ IncreasingEvents(jobs') /\ Numbers(jobs') \subseteq Numbers(jobs)
      /\ s.n \in Numbers(jobs) /\ Before({s.n}, Numbers(jobs'))
  BY <1>1, NumbersTail
<1>3. /\ Append(slots, s) \in Seq(SlotType) /\ Len(Append(slots, s)) = Len(slots) + 1
      /\ Increasing(Append(slots, s))
      /\ SlotNumbers(Append(slots, s)) = SlotNumbers(slots) \cup {s.n}
  <2>1. Before(SlotNumbers(slots), {s.n})
    BY <1>1, <1>2 DEF Before
  <2> QED
    BY <1>1, <2>1, SlotsAppend
<1>4. /\ ss \in Seq(SlotType) /\ Increasing(ss)
      /\ SlotNumbers(ss) \subseteq SlotNumbers(slots) \cup Numbers(jobs)
      /\ Before(SlotNumbers(ss), Numbers(jobs'))
  BY <1>1, <1>2, <1>3 DEF Before
<1>5. /\ slots' \in Seq(SlotType) /\ Len(slots') = Len(ss) - k /\ sent' \in Seq(SlotType)
      /\ Lined' /\ HeldFirst' /\ Parsed' /\ InOrderUnlessDecoding'
  BY <1>2, <1>4, Writing
<1>6. /\ Len(ss) \in Nat /\ Len(slots) \in Nat /\ k \in Nat /\ written' \in Nat
      /\ Len(ss) - k + written' = Len(slots) + 1
  <2>1. Len(ss) \in Nat /\ Len(slots) \in Nat
    BY <1>1, <1>4
  <2>2. CASE ss = slots
    BY <2>1, <2>2
  <2>3. CASE ss # slots
    <3>1. ss = Append(slots, s)
      BY <2>3
    <3>2. Len(ss) = Len(slots) + 1
      BY <1>3, <3>1
    <3> QED
      BY <2>1, <2>3, <3>2
  <2> QED
    BY <2>2, <2>3
<1>7. Typed'
  BY <1>2, <1>5, <1>6 DEF IInv, Typed
<1>8. Counted'
  <2>1. Count(jobs) \in Nat /\ Count(jobs)' \in Nat /\ Count(jobs) = Count(jobs)' + 1
    <3>1. Count(jobs) = Count(Tail(jobs)) + 1 /\ Count(Tail(jobs)) \in Nat
      BY <1>1, <1>2, CountTail, CountZero
    <3>2. Count(jobs)' = Count(Tail(jobs))
      BY DEF Count
    <3> QED
      BY <3>1, <3>2
  <2>2. inFlight = Len(slots) + Count(jobs)
    BY <1>6, <2>1 DEF IInv, Counted
  <2>3. Len(slots') = Len(ss) - k /\ inFlight' = inFlight
    BY <1>5
  <2>4. inFlight' = Len(slots') + written' + Count(jobs)'
    <3>1. Len(slots') + written' = Len(slots) + 1
      BY <1>6, <2>3
    <3>2. inFlight' = Len(slots) + 1 + Count(jobs)'
      BY <1>6, <2>1, <2>2, <2>3
    <3> QED
      BY <3>1, <3>2
  <2> QED
    BY <2>4 DEF Counted
<1> QED
  BY <1>5, <1>7, <1>8 DEF IInv

\* A reply that goes behind the others, or is dropped because they are too many.
LEMMA WriteOrderedStep ==
  ASSUME IInv, jobs # <<>>, Ordered(Head(jobs)), written = 0, jobs' = Tail(jobs),
         UNCHANGED <<parsed, feeder, held, delayed, events, inFlight>>,
         NEW s \in SlotType, s.n = Head(jobs).n, WriteOrdered(s)
  PROVE  IInv'
<1>1. slots \in Seq(SlotType) /\ sent \in Seq(SlotType)
  BY DEF IInv, Typed
<1>2. /\ Append(slots, s) # slots /\ Append(slots, s) \in Seq(SlotType)
      /\ 0 \in 0..Len(Append(slots, s)) /\ 0 \in 0..Len(slots)
      /\ \A ss \in Seq(SlotType) :
           sent \o SubSeq(ss, 1, 0) = sent /\ SubSeq(ss, 0 + 1, Len(ss)) = ss
  <2>1. Len(Append(slots, s)) = Len(slots) + 1 /\ Len(slots) \in Nat
    BY <1>1
  <2>2. ASSUME NEW ss \in Seq(SlotType)
        PROVE  sent \o SubSeq(ss, 1, 0) = sent /\ SubSeq(ss, 0 + 1, Len(ss)) = ss
    BY <1>1
  <2> QED
    BY <1>1, <2>1, <2>2
<1>3. CASE slots = <<>>
  <2>1. sent' = Append(sent, s) /\ written' = 1 /\ slots' = <<>>
    BY <1>3 DEF WriteOrdered
  <2>2. /\ Append(slots, s) = <<s>> /\ Len(<<s>>) = 1 /\ 1 \in 0..1
        /\ SubSeq(<<s>>, 1, 1) = <<s>> /\ SubSeq(<<s>>, 1 + 1, 1) = <<>>
        /\ sent \o <<s>> = Append(sent, s)
    <3>1. Append(slots, s) = <<s>> /\ Len(<<s>>) = 1 /\ 1 \in 0..1
      BY <1>3
    <3>2. SubSeq(<<s>>, 1, 1) = <<s>> /\ SubSeq(<<s>>, 1 + 1, 1) = <<>>
      <4>1. \A ss \in Seq(SlotType) :
              SubSeq(ss, 1, Len(ss)) = ss /\ SubSeq(ss, Len(ss) + 1, Len(ss)) = <<>>
        OBVIOUS
      <4>2. <<s>> \in Seq(SlotType)
        OBVIOUS
      <4> QED
        BY <3>1, <4>1, <4>2
    <3>3. sent \o <<s>> = Append(sent, s)
      BY <1>1
    <3> QED
      BY <3>1, <3>2, <3>3
  <2>3. /\ sent' = sent \o SubSeq(<<s>>, 1, 1) /\ slots' = SubSeq(<<s>>, 1 + 1, Len(<<s>>))
        /\ written' = 1 + (IF <<s>> = slots THEN 1 ELSE 0)
    BY <1>2, <2>1, <2>2
  <2> QED
    BY <2>2, <2>3, EventStep
<1>4. CASE slots # <<>> /\ Len(slots) >= MaxQueued
  <2>1. /\ sent' = sent \o SubSeq(slots, 1, 0) /\ slots' = SubSeq(slots, 0 + 1, Len(slots))
        /\ written' = 0 + (IF slots = slots THEN 1 ELSE 0)
    BY <1>1, <1>2, <1>4 DEF WriteOrdered
  <2> QED
    BY <1>2, <2>1, EventStep
<1>5. CASE slots # <<>> /\ ~(Len(slots) >= MaxQueued)
  <2> DEFINE ss == Append(slots, s)
  <2>1. slots' = ss /\ written' = 0 /\ sent' = sent
    BY <1>5 DEF WriteOrdered
  <2>2. ss \in Seq(SlotType) /\ ss # slots /\ 0 \in 0..Len(ss) /\ ss \in {slots, Append(slots, s)}
    BY <1>2
  <2> HIDE DEF ss
  <2>3. /\ sent' = sent \o SubSeq(ss, 1, 0) /\ slots' = SubSeq(ss, 0 + 1, Len(ss))
        /\ written' = 0 + (IF ss = slots THEN 1 ELSE 0)
    BY <1>2, <2>1, <2>2
  <2> QED
    BY <2>2, <2>3, EventStep
<1> QED
  BY <1>3, <1>4, <1>5

\* A view is asked, or nobody can be.
LEMMA AsksStep ==
  ASSUME IInv, Asks
  PROVE  IInv'
<1> DEFINE n == Head(jobs).n
           ss == Append(slots, Slot(n, "clipboard"))
           tt == Append(slots, Slot(n, "waiting"))
<1>1. /\ jobs # <<>> /\ Ordered(Head(jobs)) /\ written = 0 /\ jobs' = Tail(jobs) /\ Ask(n)
      /\ UNCHANGED <<parsed, feeder, held, delayed, events, inFlight>>
  BY DEF Asks, Does, Ordered, feeding
<1>2. slots \in Seq(SlotType) /\ sent \in Seq(SlotType) /\ n \in Nat
  BY <1>1, NumbersTail DEF IInv, Typed, Lined, Job
<1>3. Slot(n, "clipboard") \in SlotType /\ Slot(n, "clipboard").n = n
  BY <1>2 DEF Slot, SlotType, Outcomes
<1>4. Slot(n, "waiting") \in SlotType /\ Slot(n, "waiting").n = n
  BY <1>2 DEF Slot, SlotType, Outcomes
<1>5. ss # slots /\ tt # slots /\ tt \in Seq(SlotType) /\ Len(tt) \in Nat
  <2>1. Len(ss) = Len(slots) + 1 /\ Len(tt) = Len(slots) + 1 /\ Len(slots) \in Nat
    BY <1>2
  <2> QED
    BY <1>2, <1>4, <2>1
<1>6. CASE waiting >= MaxWaiting
  <2>1. WriteOrdered(Slot(n, "clipboard"))
    BY <1>1, <1>6 DEF Ask
  <2> HIDE DEF n
  <2> QED
    BY <1>1, <1>3, <2>1, WriteOrderedStep DEF n
<1>7. CASE ~(waiting >= MaxWaiting) /\ open = {}
  <2>1. WriteDue(ss)
    BY <1>1, <1>7 DEF Ask
  <2>2. PICK k \in 0..Len(ss) : /\ sent' = sent \o SubSeq(ss, 1, k)
                                /\ slots' = SubSeq(ss, k + 1, Len(ss))
                                /\ written' = k
    BY <2>1 DEF WriteDue
  <2>3. written' = k + (IF ss = slots THEN 1 ELSE 0)
    BY <1>5, <2>2
  <2> QED
    BY <1>1, <1>3, <2>2, <2>3, EventStep
<1>8. CASE ~(waiting >= MaxWaiting) /\ open # {}
  <2>1. slots' = tt /\ written' = written /\ sent' = sent
    BY <1>1, <1>8 DEF Ask
  <2>2. sent' = sent \o SubSeq(tt, 1, 0) /\ slots' = SubSeq(tt, 0 + 1, Len(tt)) /\ 0 \in 0..Len(tt)
    <3>1. \A uu \in Seq(SlotType) :
            sent \o SubSeq(uu, 1, 0) = sent /\ SubSeq(uu, 0 + 1, Len(uu)) = uu
      BY <1>2
    <3> HIDE DEF tt
    <3> QED
      BY <1>5, <2>1, <3>1
  <2>3. written' = 0 + (IF tt = slots THEN 1 ELSE 0)
    BY <1>1, <1>5, <2>1
  <2> QED
    BY <1>1, <1>4, <2>2, <2>3, EventStep
<1> QED
  BY <1>6, <1>7, <1>8

\* A reply that had to wait, or needs no view.
LEMMA RepliesStep ==
  ASSUME IInv, Replies
  PROVE  IInv'
<1> DEFINE s == Slot(Head(jobs).n, "reply")
<1>1. /\ jobs # <<>> /\ Ordered(Head(jobs)) /\ written = 0 /\ jobs' = Tail(jobs)
      /\ WriteOrdered(s)
      /\ UNCHANGED <<parsed, feeder, held, delayed, events, inFlight>>
  BY DEF Replies, Does, Ordered, feeding
<1>2. Head(jobs).n \in Nat
  BY <1>1, NumbersTail DEF IInv, Typed, Lined, Job
<1>3. s \in SlotType /\ s.n = Head(jobs).n
  BY <1>2 DEF Slot, SlotType, Outcomes
<1> HIDE DEF s
<1> QED
  BY <1>1, <1>3, WriteOrderedStep

\* A reset writes all slots, in order, those that waited as nothing.
LEMMA CancelsStep ==
  ASSUME IInv, Cancels
  PROVE  IInv'
<1> DEFINE ss == [i \in DOMAIN slots |->
                    IF slots[i].what = "waiting" THEN Slot(slots[i].n, "nothing") ELSE slots[i]]
<1>1. /\ jobs # <<>> /\ ~Ordered(Head(jobs)) /\ written = 0 /\ jobs' = Tail(jobs)
      /\ sent' = sent \o ss /\ written' = Len(slots) /\ slots' = <<>>
      /\ UNCHANGED <<parsed, feeder, held, delayed, events, inFlight>>
  BY DEF Cancels, Does, Ordered, feeding
<1>2. slots \in Seq(SlotType)
  BY DEF IInv, Typed
<1>3. /\ \A i \in DOMAIN slots : ss[i].n = slots[i].n
      /\ ss \in Seq(SlotType) /\ Len(ss) = Len(slots) /\ Len(ss) \in Nat
  <2>1. \A i \in 1..Len(slots) : ss[i] \in SlotType /\ ss[i].n = slots[i].n
    <3>1. \A i \in 1..Len(slots) : slots[i] \in SlotType /\ slots[i].n \in Nat
      <4>1. \A i \in 1..Len(slots) : slots[i] \in SlotType
        BY <1>2
      <4>2. \A t \in SlotType : t.n \in Nat
        BY DEF SlotType
      <4> QED
        BY <4>1, <4>2
    <3>2. \A n \in Nat, what \in Outcomes : Slot(n, what) \in SlotType /\ Slot(n, what).n = n
      BY DEF Slot, SlotType
    <3>3. {"clipboard", "nothing"} \subseteq Outcomes
      BY DEF Outcomes
    <3> QED
      BY <1>2, <3>1, <3>2, <3>3
  <2>2. Len(slots) \in Nat /\ DOMAIN slots = 1..Len(slots) /\ ss = [i \in 1..Len(slots) |-> ss[i]]
    BY <1>2
  <2> HIDE DEF ss
  <2>3. ss \in Seq(SlotType) /\ Len(ss) = Len(slots)
    BY <2>1, <2>2
  <2> QED
    BY <2>1, <2>2, <2>3
<1> HIDE DEF ss
<1>4. /\ SubSeq(ss, 1, Len(ss)) = ss /\ SubSeq(ss, Len(ss) + 1, Len(ss)) = <<>>
      /\ Len(ss) \in 0..Len(ss)
  BY <1>3
<1>5. /\ sent' = sent \o SubSeq(ss, 1, Len(ss)) /\ slots' = SubSeq(ss, Len(ss) + 1, Len(ss))
      /\ written' = Len(ss)
  BY <1>1, <1>3, <1>4
<1> QED
  BY <1>1, <1>3, <1>4, <1>5, SlotsStep

\* An answer from a view, or nothing to do, takes the place of no events.
LEMMA ReceiveStep ==
  ASSUME IInv, WorkTyped, Receive
  PROVE  IInv'
<1>1. /\ jobs = <<>> /\ queue # <<>> /\ queue' = Tail(queue)
      /\ jobs' \in {<<>>, <<Head(queue)>>} /\ (jobs' # <<>> => Head(queue).kind = "answer")
      /\ UNCHANGED <<parsed, feeder, held, delayed, events, inFlight, written, slots, sent>>
  BY DEF Receive, Free, feeding
<1>2. Head(queue) \in Work /\ (Head(queue).kind = "answer" => Head(queue) \in Job)
  <2>1. Head(queue) \in Work
    BY <1>1 DEF WorkTyped
  <2>2. \A w \in Work : w.kind = "answer" => w \in Job
    BY DEF Work, Job
  <2> QED
    BY <2>1, <2>2
<1>3. jobs' \in Seq(Job) /\ Numbers(jobs') = {} /\ IncreasingEvents(jobs')
  <2>1. ASSUME jobs' = <<>> PROVE jobs' \in Seq(Job) /\ Numbers(jobs') = {} /\ IncreasingEvents(jobs')
    BY <2>1 DEF Numbers, IncreasingEvents
  <2>2. ASSUME jobs' = <<Head(queue)>>
        PROVE  jobs' \in Seq(Job) /\ Numbers(jobs') = {} /\ IncreasingEvents(jobs')
    <3>1. ~Ordered(Head(queue))
      BY <1>1, <2>2 DEF Ordered
    <3>2. \A f \in Job : ~Ordered(f) =>
            <<f>> \in Seq(Job) /\ IncreasingEvents(<<f>>) /\ Numbers(<<f>>) = {}
      BY DEF IncreasingEvents, Numbers
    <3>3. Head(queue) \in Job
      BY <1>1, <1>2, <2>2
    <3> QED
      BY <2>2, <3>1, <3>2, <3>3
  <2> QED
    BY <1>1, <2>1, <2>2
<1>4. Count(jobs) = 0 /\ Count(jobs)' = 0 /\ Numbers(jobs) = {}
  <2>1. Numbers(jobs) = {}
    BY <1>1 DEF Numbers
  <2>2. Count(jobs) = 0
    BY <2>1, CountZero DEF IInv, Typed
  <2>3. Count(jobs') = 0
    BY <1>3, CountZero
  <2> QED
    BY <2>1, <2>2, <2>3 DEF Count
<1>5. Typed' /\ Counted' /\ InOrderUnlessDecoding'
  <2>1. Typed'
    BY <1>1, <1>2, <1>3 DEF IInv, Typed
  <2>2. Counted'
    BY <1>1, <1>4 DEF IInv, Counted
  <2> QED
    BY <1>1, <2>1, <2>2 DEF IInv, InOrderUnlessDecoding
<1>6. /\ Due' = Due /\ SlotNumbers(slots') = SlotNumbers(slots)
      /\ SlotNumbers(sent') = SlotNumbers(sent)
      /\ Numbers(events') = Numbers(events) /\ Elements(held') = Elements(held)
  BY <1>1, <1>3, <1>4 DEF Due, SlotNumbers, Numbers, Elements
<1>7. Lined'
  BY <1>1, <1>3, <1>4, <1>6 DEF IInv, Lined
<1>8. HeldFirst' /\ Parsed'
  BY <1>1, <1>3, <1>6 DEF IInv, HeldFirst, Parsed
<1> QED
  BY <1>5, <1>7, <1>8 DEF IInv

\* A batch of events goes from the queue to the worker, which counts them.
LEMMA TakeEventsStep ==
  ASSUME IInv, RepliesAssumption, TakeEvents
  PROVE  IInv'
<1> DEFINE k == IF Len(events) < EventBatch THEN Len(events) ELSE EventBatch
<1>1. /\ jobs = <<>> /\ feeder # "parsing"
      /\ jobs' = SubSeq(events, 1, k) /\ events' = SubSeq(events, k + 1, Len(events))
      /\ inFlight' = inFlight + Count(jobs')
      /\ UNCHANGED <<parsed, feeder, held, delayed, written, slots, sent>>
  BY DEF TakeEvents, Free, feeding
<1>2. events \in Seq(Job) /\ IncreasingEvents(events) /\ k \in 0..Len(events)
  BY DEF IInv, Typed, Lined, RepliesAssumption
<1> HIDE DEF k
<1>3. /\ jobs' \in Seq(Job) /\ events' \in Seq(Job)
      /\ IncreasingEvents(jobs') /\ IncreasingEvents(events')
      /\ Numbers(jobs') \subseteq Numbers(events) /\ Numbers(events') \subseteq Numbers(events)
      /\ Before(Numbers(jobs'), Numbers(events'))
  BY <1>1, <1>2, NumbersSplit
<1>4. Count(jobs) = 0 /\ Count(jobs') \in Nat /\ Count(jobs)' = Count(jobs')
  <2>1. Numbers(jobs) = {}
    BY <1>1 DEF Numbers
  <2>2. Count(jobs) = 0 /\ Count(jobs') \in Nat
    BY <1>3, <2>1, CountZero DEF IInv, Typed
  <2> QED
    BY <2>2 DEF Count
<1>5. Typed'
  BY <1>1, <1>3, <1>4 DEF IInv, Typed
<1>6. Counted'
  BY <1>1, <1>4 DEF IInv, Typed, Counted
<1>7. /\ Due' \subseteq Due /\ SlotNumbers(slots') = SlotNumbers(slots)
      /\ SlotNumbers(sent') = SlotNumbers(sent) /\ Elements(held') = Elements(held)
  BY <1>1, <1>3 DEF Due, SlotNumbers, Elements
<1>8. Lined'
  BY <1>1, <1>3, <1>7 DEF IInv, Lined, Before
<1>9. HeldFirst' /\ Parsed' /\ InOrderUnlessDecoding'
  <2>1. HeldFirst'
    BY <1>1, <1>7 DEF IInv, HeldFirst, Before
  <2>2. Parsed'
    BY <1>1, <1>7 DEF IInv, Parsed
  <2> QED
    BY <1>1, <2>1, <2>2 DEF IInv, InOrderUnlessDecoding
<1> QED
  BY <1>5, <1>6, <1>8, <1>9 DEF IInv

\* What has been written is taken off the count.
LEMMA ReleaseStep ==
  ASSUME IInv, Release
  PROVE  IInv'
<1>1. /\ inFlight' = (IF inFlight > written THEN inFlight - written ELSE 0) /\ written' = 0
      /\ UNCHANGED <<parsed, feeder, held, delayed, events, jobs, slots, sent>>
  BY DEF Release, feeding
<1>2. /\ inFlight \in Nat /\ written \in Nat /\ Len(slots) \in Nat /\ Count(jobs) \in Nat
      /\ inFlight = Len(slots) + written + Count(jobs)
  BY CountZero DEF IInv, Typed, Counted
<1>3. inFlight' = Len(slots) + Count(jobs) /\ inFlight' \in Nat
  BY <1>1, <1>2
<1>4. Typed'
  BY <1>1, <1>3 DEF IInv, Typed
<1>5. Counted'
  <2>1. Count(jobs)' = Count(jobs) /\ Len(slots)' = Len(slots)
    BY <1>1 DEF Count
  <2> QED
    BY <1>1, <1>2, <1>3, <2>1 DEF Counted
<1>6. Lined' /\ HeldFirst' /\ Parsed' /\ InOrderUnlessDecoding'
  <2>1. Lined'
    BY <1>1 DEF IInv, Lined, Due, SlotNumbers, Numbers
  <2>2. HeldFirst'
    BY <1>1 DEF IInv, HeldFirst, Due, SlotNumbers, Numbers, Elements
  <2>3. Parsed'
    BY <1>1 DEF IInv, Parsed, Due, SlotNumbers, Numbers, Elements
  <2>4. InOrderUnlessDecoding'
    BY <1>1 DEF IInv, InOrderUnlessDecoding
  <2> QED
    BY <2>1, <2>2, <2>3, <2>4
<1> QED
  BY <1>4, <1>5, <1>6 DEF IInv

-----------------------------------------------------------------------------
\* Requests keep their numbers on their way to a view and back.
LEMMA WorkTypedStep ==
  ASSUME IInv, WorkTyped, [Next]_vars
  PROVE  WorkTyped'
<1> DEFINE Same == UNCHANGED <<queue, asked>>
<1>1. CASE Notify
  <2>1. Append(queue, Entry("wake", 0)) \in Seq(Work)
    <3>1. Entry("wake", 0) \in Work
      BY DEF Entry, Work
    <3> QED
      BY <3>1 DEF WorkTyped
  <2>2. queue' \in {queue, Append(queue, Entry("wake", 0))} /\ asked' = asked
    BY <1>1 DEF Notify, bridge
  <2> QED
    BY <2>1, <2>2 DEF WorkTyped
<1>2. CASE Receive
  BY <1>2 DEF Receive, WorkTyped
<1>3. CASE Asks
  <2>1. jobs \in Seq(Job) /\ jobs # <<>>
    BY <1>3 DEF Asks, Does, IInv, Typed
  <2>2. Head(jobs) \in Job
    BY <2>1
  <2>3. Head(jobs).n \in Nat
    BY <2>2 DEF Job
  <2>4. \/ asked' = asked
        \/ asked' = [asked EXCEPT ![ClipboardHost] = Append(@, Head(jobs).n)]
    BY <1>3 DEF Asks, Ask, bridge
  <2>5. UNCHANGED queue
    BY <1>3 DEF Asks, Does
  <2> HIDE DEF ClipboardHost
  <2>6. \A v \in 1..MaxViews, n \in Nat : Append(asked[v], n) \in Seq(Nat)
    BY DEF WorkTyped
  <2> QED
    BY <2>3, <2>4, <2>5, <2>6 DEF WorkTyped
<1>4. ASSUME NEW v, Detach(v) PROVE WorkTyped'
  <2>1. PICK k \in 0..Len(asked[v]) : asked' = [asked EXCEPT ![v] = SubSeq(@, 1, k)]
    BY <1>4 DEF Detach
  <2>2. ASSUME v \in 1..MaxViews PROVE SubSeq(asked[v], 1, k) \in Seq(Nat)
    BY <2>2 DEF WorkTyped
  <2> QED
    BY <1>4, <2>1, <2>2 DEF Detach, WorkTyped
<1>5. ASSUME NEW v \in 1..MaxViews, Answer(v) PROVE WorkTyped'
  <2>1. asked[v] \in Seq(Nat) /\ asked[v] # <<>> /\ asked' = [asked EXCEPT ![v] = Tail(@)]
    BY <1>5 DEF Answer, WorkTyped
  <2>2. Head(asked[v]) \in Nat /\ Tail(asked[v]) \in Seq(Nat)
    BY <2>1
  <2>3. Entry("answer", Head(asked[v])) \in Work
    BY <2>2 DEF Entry, Work
  <2>4. queue' = queue \/ queue' = Append(queue, Entry("answer", Head(asked[v])))
    BY <1>5 DEF Answer
  <2>5. Append(queue, Entry("answer", Head(asked[v]))) \in Seq(Work)
    BY <2>3 DEF WorkTyped
  <2>6. queue' \in Seq(Work)
    BY <2>4, <2>5 DEF WorkTyped
  <2> QED
    BY <2>1, <2>2, <2>6 DEF WorkTyped
<1>6. CASE Commit \/ EndSlice \/ ProgramStep
  BY <1>6 DEF WorkTyped, Commit, EndSlice, ProgramStep, ParseQuery, ParseLoad, ParseKitty,
              ParseReset, ParseUpload, Parses, FeederOnly, bridge
<1>7. CASE Timeout \/ Expire \/ TakeEvents \/ Answered \/ Replies \/ Cancels \/ Release
  BY <1>7 DEF WorkTyped, Timeout, Expire, TakeEvents, Answered, Replies, Cancels, Release, Does,
     bridge
<1>8. CASE OtherWork \/ Attach \/ PassDeadline \/ UNCHANGED vars
  BY <1>8 DEF WorkTyped, OtherWork, Attach, PassDeadline, vars, bridge
<1> QED
  BY <1>1, <1>2, <1>3, <1>4, <1>5, <1>6, <1>7, <1>8 DEF Next, FeederStep, WorkerStep

\* Every step keeps the invariant.
LEMMA NextInvariant ==
  ASSUME RepliesAssumption, IInv, WorkTyped, [Next]_vars
  PROVE  IInv'
<1>1. CASE FeederStep
  BY <1>1, CommitStep, EndSliceStep, NotifyStep DEF FeederStep
<1>2. CASE ProgramStep
  BY <1>2, ParseStep, UploadStep DEF ProgramStep
<1>3. CASE Expire
  <2>1. jobs' = jobs /\ written = 0
        /\ UNCHANGED <<parsed, feeder, held, delayed, events, inFlight>>
    BY <1>3 DEF Expire, Free, feeding
  <2>2. PICK ns : Complete(ns)
    BY <1>3 DEF Expire
  <2> QED
    BY <2>1, <2>2, CompleteStep
<1>4. CASE Answered
  <2>1. /\ jobs # <<>> /\ ~Ordered(Head(jobs)) /\ jobs' = Tail(jobs) /\ written = 0
        /\ UNCHANGED <<parsed, feeder, held, delayed, events, inFlight>>
    BY <1>4 DEF Answered, Does, Ordered, feeding
  <2>2. Complete({Head(jobs).n})
    BY <1>4 DEF Answered
  <2> QED
    BY <2>1, <2>2, CompleteStep
<1>5. CASE Receive \/ TakeEvents \/ Asks \/ Replies \/ Cancels \/ Release
  BY <1>5, ReceiveStep, TakeEventsStep, AsksStep, RepliesStep, CancelsStep, ReleaseStep
<1>6. CASE Timeout \/ OtherWork \/ Attach \/ PassDeadline \/ UNCHANGED vars
  <2>1. UNCHANGED core
    BY <1>6 DEF core, Timeout, OtherWork, Attach, PassDeadline, ViewsOnly, vars, feeding
  <2> QED
    BY <2>1, CoreUnchanged
<1>7. ASSUME NEW v, Detach(v) \/ Answer(v) PROVE IInv'
  <2>1. UNCHANGED core
    BY <1>7 DEF core, Detach, Answer, ViewsOnly, feeding
  <2> QED
    BY <2>1, CoreUnchanged
<1> QED
  BY <1>1, <1>2, <1>3, <1>4, <1>5, <1>6, <1>7 DEF Next, WorkerStep

-----------------------------------------------------------------------------
\* What a program reads is in the order of what it wrote, and nothing is answered
\* twice, but for replies held while an image was decoded: `route_replies' and
\* `write_ordered' keep the order between the feeder and the worker.
THEOREM OrderKept ==
  ASSUME RepliesAssumption
  PROVE  Spec => []InOrderUnlessDecoding
<1>1. Init => IInv /\ WorkTyped
  BY InitInvariant DEF Init, WorkTyped
<1>2. IInv /\ WorkTyped /\ [Next]_vars => (IInv /\ WorkTyped)'
  BY NextInvariant, WorkTypedStep
<1>3. IInv => InOrderUnlessDecoding
  BY DEF IInv
<1> QED
  BY <1>1, <1>2, <1>3, PTL DEF Spec

-----------------------------------------------------------------------------
(* The count of what waits.                                                *)

WaitingAt(ss) == {i \in DOMAIN ss : ss[i].what = "waiting"}

Waits == waiting = Cardinality(WaitingAt(slots))

\* The places that wait are finitely many.
LEMMA WaitingFinite ==
  ASSUME NEW ss \in Seq(SlotType)
  PROVE  IsFiniteSet(WaitingAt(ss)) /\ Cardinality(WaitingAt(ss)) \in Nat
<1>1. WaitingAt(ss) \in SUBSET (1..Len(ss)) /\ Len(ss) \in Nat
  BY DEF WaitingAt
<1>2. IsFiniteSet(1..Len(ss))
  BY <1>1, FS_Interval
<1> QED
  BY <1>1, <1>2, FS_Subset, FS_CardinalityType

\* Writing what is due leaves as many that wait.
LEMMA WaitingDue ==
  ASSUME NEW ss \in Seq(SlotType), NEW k \in 0..Len(ss),
         \A i \in 1..k : ss[i].what # "waiting"
  PROVE  Cardinality(WaitingAt(SubSeq(ss, k + 1, Len(ss)))) = Cardinality(WaitingAt(ss))
<1> DEFINE rest == SubSeq(ss, k + 1, Len(ss))
           I == WaitingAt(ss)
           J == WaitingAt(rest)
           f == [i \in J |-> k + i]
<1>1. /\ Len(ss) \in Nat /\ k \in Nat /\ DOMAIN ss = 1..Len(ss)
      /\ rest \in Seq(SlotType) /\ DOMAIN rest = 1..(Len(ss) - k)
      /\ \A i \in 1..(Len(ss) - k) : rest[i] = ss[k + i]
  OBVIOUS
<1> HIDE DEF rest
<1>2. f \in [J -> I]
  <2> SUFFICES ASSUME NEW i \in J PROVE k + i \in I
    OBVIOUS
  <2>1. i \in 1..(Len(ss) - k) /\ k + i \in 1..Len(ss) /\ rest[i].what = "waiting"
    BY <1>1 DEF WaitingAt
  <2> QED
    BY <1>1, <2>1 DEF WaitingAt
<1>3. \A a, b \in J : f[a] = f[b] => a = b
  BY <1>1 DEF WaitingAt
<1>4. \A t \in I : \E i \in J : f[i] = t
  <2> SUFFICES ASSUME NEW t \in I PROVE \E i \in J : f[i] = t
    OBVIOUS
  <2>1. t \in 1..Len(ss) /\ t \notin 1..k /\ ss[t].what = "waiting"
    BY <1>1 DEF WaitingAt
  <2>2. t - k \in 1..(Len(ss) - k) /\ k + (t - k) = t
    BY <1>1, <2>1
  <2>3. t - k \in J
    BY <1>1, <2>1, <2>2 DEF WaitingAt
  <2> QED
    BY <2>2, <2>3
<1>5. IsFiniteSet(J)
  BY <1>1, WaitingFinite
<1> HIDE DEF f, I, J
<1>6. f \in Injection(J, I) /\ f \in Surjection(J, I)
  BY <1>2, <1>3, <1>4 DEF Injection, Surjection, IsInjective
<1>7. ExistsBijection(J, I)
  BY <1>6 DEF ExistsBijection, Bijection
<1>8. Cardinality(I) = Cardinality(J)
  BY <1>5, <1>7, FS_Bijection
<1> QED
  BY <1>8 DEF I, J, rest

\* A new slot adds one, if it waits.
LEMMA WaitingAppend ==
  ASSUME NEW ss \in Seq(SlotType), NEW s \in SlotType
  PROVE  Cardinality(WaitingAt(Append(ss, s))) =
           Cardinality(WaitingAt(ss)) + (IF s.what = "waiting" THEN 1 ELSE 0)
<1>1. /\ Len(ss) \in Nat /\ DOMAIN ss = 1..Len(ss)
      /\ DOMAIN Append(ss, s) = 1..(Len(ss) + 1)
      /\ \A i \in 1..Len(ss) : Append(ss, s)[i] = ss[i]
      /\ Append(ss, s)[Len(ss) + 1] = s
  OBVIOUS
<1>2. IsFiniteSet(WaitingAt(ss)) /\ Cardinality(WaitingAt(ss)) \in Nat
  BY WaitingFinite
<1>3. CASE s.what = "waiting"
  <2>1. WaitingAt(Append(ss, s)) = WaitingAt(ss) \cup {Len(ss) + 1}
    BY <1>1, <1>3 DEF WaitingAt
  <2>2. Len(ss) + 1 \notin WaitingAt(ss)
    BY <1>1 DEF WaitingAt
  <2> QED
    BY <1>2, <1>3, <2>1, <2>2, FS_AddElement
<1>4. CASE s.what # "waiting"
  <2>1. WaitingAt(Append(ss, s)) = WaitingAt(ss)
    BY <1>1, <1>4 DEF WaitingAt
  <2> QED
    BY <1>2, <1>4, <2>1
<1> QED
  BY <1>3, <1>4

\* Writing what is due of slots that are as many as the count says.
LEMMA DueWaits ==
  ASSUME NEW ss \in Seq(SlotType), WriteDue(ss), waiting' = Cardinality(WaitingAt(ss))
  PROVE  Waits'
<1>1. PICK k \in 0..Len(ss) : /\ \A i \in 1..k : ss[i].what # "waiting"
                              /\ slots' = SubSeq(ss, k + 1, Len(ss))
  BY DEF WriteDue
<1>2. Cardinality(WaitingAt(slots')) = Cardinality(WaitingAt(ss))
  BY <1>1, WaitingDue
<1>3. Waits' <=> waiting' = Cardinality(WaitingAt(slots'))
  BY DEF Waits, WaitingAt
<1> QED
  BY <1>2, <1>3

\* Answers and denials take as many off as they answer.
LEMMA CompleteWaits ==
  ASSUME IInv, Waits, NEW ns, Complete(ns)
  PROVE  Waits'
<1> DEFINE ss == [i \in DOMAIN slots |->
                    IF i \in Waiting(ns) THEN Slot(slots[i].n, "clipboard") ELSE slots[i]]
<1>1. slots \in Seq(SlotType) /\ DOMAIN slots = 1..Len(slots) /\ Len(slots) \in Nat
  BY DEF IInv, Typed
<1>2. /\ ss \in Seq(SlotType) /\ DOMAIN ss = 1..Len(slots)
      /\ \A i \in 1..Len(slots) :
           ss[i].what = "waiting" <=> slots[i].what = "waiting" /\ i \notin Waiting(ns)
  <2>1. \A i \in 1..Len(slots) : slots[i] \in SlotType /\ slots[i].n \in Nat
    <3>1. \A i \in 1..Len(slots) : slots[i] \in SlotType
      BY <1>1
    <3>2. \A t \in SlotType : t.n \in Nat
      BY DEF SlotType
    <3> QED
      BY <3>1, <3>2
  <2>2. \A n \in Nat : Slot(n, "clipboard") \in SlotType /\ Slot(n, "clipboard").what # "waiting"
    BY DEF Slot, SlotType, Outcomes
  <2>3. \A i \in 1..Len(slots) :
          /\ ss[i] \in SlotType
          /\ ss[i].what = "waiting" <=> slots[i].what = "waiting" /\ i \notin Waiting(ns)
    BY <1>1, <2>1, <2>2
  <2>4. ss = [i \in 1..Len(slots) |-> ss[i]]
    BY <1>1
  <2> HIDE DEF ss
  <2> QED
    BY <1>1, <2>3, <2>4
<1>3. WriteDue(ss) /\ waiting' = waiting - Cardinality(Waiting(ns))
  BY DEF Complete
<1> HIDE DEF ss
<1>4. WaitingAt(ss) = WaitingAt(slots) \ Waiting(ns)
  BY <1>1, <1>2 DEF WaitingAt
<1>5. WaitingAt(slots) \cap Waiting(ns) = Waiting(ns)
  BY DEF WaitingAt, Waiting
<1>6. Cardinality(WaitingAt(ss)) = Cardinality(WaitingAt(slots)) - Cardinality(Waiting(ns))
  <2>1. IsFiniteSet(WaitingAt(slots))
    BY <1>1, WaitingFinite
  <2> QED
    BY <1>4, <1>5, <2>1, FS_Difference
<1>7. waiting' = Cardinality(WaitingAt(ss))
  BY <1>3, <1>6 DEF Waits
<1> QED
  BY <1>2, <1>3, <1>7, DueWaits

\* A reply that only goes behind the others does not wait.
LEMMA OrderedWaits ==
  ASSUME IInv, Waits, NEW s \in SlotType, s.what # "waiting", WriteOrdered(s),
         UNCHANGED waiting
  PROVE  Waits'
<1>1. slots \in Seq(SlotType)
  BY DEF IInv, Typed
<1>2. slots' = slots \/ slots' = Append(slots, s)
  BY DEF WriteOrdered
<1>3. Cardinality(WaitingAt(Append(slots, s))) = Cardinality(WaitingAt(slots))
  <2>1. Cardinality(WaitingAt(slots)) \in Nat
    BY <1>1, WaitingFinite
  <2> QED
    BY <1>1, <2>1, WaitingAppend
<1>4. Waits' <=> waiting' = Cardinality(WaitingAt(slots'))
  BY DEF Waits, WaitingAt
<1> QED
  BY <1>2, <1>3, <1>4 DEF Waits

\* A view that is asked is waited for.
LEMMA AsksWaits ==
  ASSUME IInv, Waits, Asks
  PROVE  Waits'
<1> DEFINE n == Head(jobs).n
<1>1. slots \in Seq(SlotType) /\ n \in Nat /\ Ask(n)
  BY NumbersTail DEF Asks, Does, IInv, Typed, Lined, Job
<1> HIDE DEF n
<1>2. /\ Slot(n, "clipboard") \in SlotType /\ Slot(n, "clipboard").what # "waiting"
      /\ Slot(n, "waiting") \in SlotType /\ Slot(n, "waiting").what = "waiting"
  BY <1>1 DEF Slot, SlotType, Outcomes
<1>3. Cardinality(WaitingAt(slots)) \in Nat
  BY <1>1, WaitingFinite
<1>4. CASE waiting >= MaxWaiting
  <2>1. WriteOrdered(Slot(n, "clipboard")) /\ UNCHANGED waiting
    BY <1>1, <1>4 DEF Ask
  <2> QED
    BY <1>2, <2>1, OrderedWaits
<1>5. CASE ~(waiting >= MaxWaiting) /\ open = {}
  <2> DEFINE ss == Append(slots, Slot(n, "clipboard"))
  <2>1. WriteDue(ss) /\ UNCHANGED waiting
    BY <1>1, <1>5 DEF Ask
  <2>2. ss \in Seq(SlotType) /\ Cardinality(WaitingAt(ss)) = Cardinality(WaitingAt(slots))
    BY <1>1, <1>2, <1>3, WaitingAppend
  <2> HIDE DEF ss
  <2> QED
    BY <2>1, <2>2, DueWaits DEF Waits
<1>6. CASE ~(waiting >= MaxWaiting) /\ open # {}
  <2>1. slots' = Append(slots, Slot(n, "waiting")) /\ waiting' = waiting + 1
    BY <1>1, <1>6 DEF Ask
  <2>2. Cardinality(WaitingAt(slots')) = Cardinality(WaitingAt(slots)) + 1
    BY <1>1, <1>2, <2>1, WaitingAppend
  <2>3. Waits' <=> waiting' = Cardinality(WaitingAt(slots'))
    BY DEF Waits, WaitingAt
  <2> QED
    BY <2>1, <2>2, <2>3 DEF Waits
<1> QED
  BY <1>4, <1>5, <1>6

\* Every step keeps the count of what waits.
LEMMA WaitsStep ==
  ASSUME IInv, Waits, [Next]_vars
  PROVE  Waits'
<1>1. CASE Expire
  <2>1. PICK ns : Complete(ns)
    BY <1>1 DEF Expire
  <2> QED
    BY <2>1, CompleteWaits
<1>2. CASE Answered
  <2>1. Complete({Head(jobs).n})
    BY <1>2 DEF Answered
  <2> QED
    BY <2>1, CompleteWaits
<1>3. CASE Asks
  BY <1>3, AsksWaits
<1>4. CASE Replies
  <2> DEFINE s == Slot(Head(jobs).n, "reply")
  <2>1. WriteOrdered(s) /\ UNCHANGED waiting /\ Head(jobs).n \in Nat
    BY <1>4, NumbersTail DEF Replies, Does, IInv, Typed, Lined, Job
  <2>2. s \in SlotType /\ s.what # "waiting"
    BY <2>1 DEF Slot, SlotType, Outcomes
  <2> HIDE DEF s
  <2> QED
    BY <2>1, <2>2, OrderedWaits
<1>5. CASE Cancels
  <2>1. slots' = <<>> /\ waiting' = 0
    BY <1>5 DEF Cancels
  <2>2. WaitingAt(<<>>) = {}
    BY DEF WaitingAt
  <2>3. Waits' <=> waiting' = Cardinality(WaitingAt(slots'))
    BY DEF Waits, WaitingAt
  <2> QED
    BY <2>1, <2>2, <2>3, FS_EmptySet
<1>6. ASSUME UNCHANGED <<slots, waiting>> PROVE Waits'
  BY <1>6 DEF Waits, WaitingAt
<1>7. CASE FeederStep
  BY <1>6, <1>7 DEF FeederStep, Commit, EndSlice, Notify, FeederOnly
<1>8. CASE ProgramStep
  BY <1>6, <1>8 DEF ProgramStep, ParseQuery, ParseLoad, ParseKitty, ParseReset, ParseUpload,
                    Parses, FeederOnly
<1>9. CASE Receive \/ Timeout \/ TakeEvents \/ Release
  BY <1>6, <1>9 DEF Receive, Timeout, TakeEvents, Release
<1>10. CASE OtherWork \/ Attach \/ PassDeadline \/ UNCHANGED vars
  BY <1>6, <1>10 DEF OtherWork, Attach, PassDeadline, ViewsOnly, vars
<1>11. ASSUME NEW v, Detach(v) \/ Answer(v) PROVE Waits'
  BY <1>6, <1>11 DEF Detach, Answer, ViewsOnly
<1> QED
  BY <1>1, <1>2, <1>3, <1>4, <1>5, <1>7, <1>8, <1>9, <1>10, <1>11 DEF Next, WorkerStep

\* What is on its way is counted, whatever comes in between: `ordered_in_flight'
\* never lets a reply wait behind nothing, or overtake what is owed, and the
\* requests that wait are as many as MAX_WAITING is compared with.
THEOREM CountsRight ==
  ASSUME RepliesAssumption
  PROVE  Spec => []InFlightCounted
<1>1. Init => IInv /\ WorkTyped /\ Waits
  <2>1. WaitingAt(<<>>) = {}
    BY DEF WaitingAt
  <2> QED
    BY <2>1, InitInvariant, FS_EmptySet DEF Init, WorkTyped, Waits
<1>2. IInv /\ WorkTyped /\ Waits /\ [Next]_vars => (IInv /\ WorkTyped /\ Waits)'
  BY NextInvariant, WorkTypedStep, WaitsStep
<1>3. IInv /\ Waits => InFlightCounted
  BY DEF IInv, Counted, Waits, WaitingAt, InFlightCounted
<1> QED
  BY <1>1, <1>2, <1>3, PTL DEF Spec


-----------------------------------------------------------------------------
(* Types.                                                                  *)

Event   == [kind : {"load", "kitty", "reply", "reset", "overflow"}, n : Nat]
Request == [n : Nat, view : 1..MaxViews, late : BOOLEAN]
Reply   == [n : Nat, what : Outcomes]

ControlTyped ==
  /\ parsed \in 0..MaxItems
  /\ feeder \in {"idle", "parsing", "decoding", "between"}
  /\ delayed \subseteq Nat /\ woken \in BOOLEAN
  /\ phase \in {"waiting", "expiring", "taking"}
  /\ more \in BOOLEAN /\ resetAt \in Nat
EventsTyped   == events \in Seq(Event) /\ Len(events) =< MaxEvents
QueueTyped    == Len(queue) =< QueueBound
RequestsTyped ==
  /\ parked \subseteq Request /\ waiting \in 0..MaxWaiting
  /\ subscribed \in 0..MaxViews /\ open \subseteq 1..subscribed
RepliesTyped  == sent \in Seq(Reply) /\ lost \subseteq Nat

Types == ControlTyped /\ EventsTyped /\ QueueTyped /\ RequestsTyped /\ RepliesTyped
Base  == IInv /\ WorkTyped /\ Waits

\* What the parts say together is what the model says of its state.
LEMMA TypesTypeOK == Base /\ Types => TypeOK
BY DEF Base, Types, ControlTyped, EventsTyped, QueueTyped, RequestsTyped, RepliesTyped, IInv,
       Typed, WorkTyped, Work, Job, SlotType, Event, Request, Reply, TypeOK

\* Steps that change no control state but what they say keep its type.
LEMMA ControlStep ==
  ASSUME RepliesAssumption, Base, ControlTyped, [Next]_vars
  PROVE  ControlTyped'
<1>0. /\ MaxItems \in Nat /\ parsed \in Nat /\ held \in Seq(Nat)
      /\ \A i \in DOMAIN held : held[i] \in Nat
  BY DEF RepliesAssumption, Base, IInv, Typed
<1>1. CASE FeederStep
  BY <1>1 DEF FeederStep, Commit, EndSlice, Notify, FeederOnly, ControlTyped
<1>2. CASE ProgramStep
  <2>1. parsed' = parsed + 1 /\ parsed < MaxItems /\ UNCHANGED <<woken, phase, more, resetAt>>
    BY <1>2 DEF ProgramStep, ParseQuery, ParseLoad, ParseKitty, ParseReset, ParseUpload,
                Parses, FeederOnly
  <2>2. feeder' \in {"parsing", "decoding"}
    BY <1>2 DEF ProgramStep, ParseQuery, ParseLoad, ParseKitty, ParseReset, ParseUpload
  <2>3. delayed' = delayed \/ delayed' = delayed \cup Elements(held)
    BY <1>2 DEF ProgramStep, ParseQuery, ParseLoad, ParseKitty, ParseReset, ParseUpload, Elements
  <2>4. parsed' \in 0..MaxItems
    BY <1>0, <2>1
  <2>5. delayed' \subseteq Nat
    BY <1>0, <2>3, NumbersType DEF ControlTyped
  <2> QED
    BY <2>1, <2>2, <2>4, <2>5 DEF ControlTyped
<1>3. CASE Receive \/ Timeout \/ Expire \/ TakeEvents \/ OtherWork \/ Release
  BY <1>3 DEF Receive, Timeout, Expire, TakeEvents, OtherWork, Release, feeding, ControlTyped
<1>4. CASE Answered \/ Asks \/ Replies
  BY <1>4 DEF Answered, Asks, Replies, Does, feeding, ControlTyped
<1>5. CASE Cancels
  <2>1. Head(jobs).n \in Nat
    BY <1>5, NumbersTail DEF Cancels, Does, Base, IInv, Typed, Lined, Job
  <2> QED
    BY <1>5, <2>1 DEF Cancels, Does, feeding, ControlTyped
<1>6. CASE Attach \/ PassDeadline \/ UNCHANGED vars \/ \E v : Detach(v) \/ Answer(v)
  BY <1>6 DEF Attach, PassDeadline, Detach, Answer, ViewsOnly, vars, feeding, ControlTyped
<1> QED
  BY <1>1, <1>2, <1>3, <1>4, <1>5, <1>6 DEF Next, WorkerStep

\* Compaction makes room: what is left of a full queue is one event at most.
LEMMA WithTyped ==
  ASSUME RepliesAssumption, parsed \in Nat, EventsTyped, NEW e \in Event
  PROVE  With(e) \in Seq(Event) /\ Len(With(e)) =< MaxEvents
<1>1. MaxEvents \in Nat /\ MaxEvents >= 2
  BY DEF RepliesAssumption
<1>2. /\ Entry("reset", parsed) \in Event /\ Entry("overflow", 0) \in Event
      /\ Entry("overflow", e.n) \in Event
  BY DEF Entry, Event
<1>3. Compacted \in Seq(Event) /\ Len(Compacted) =< 1
  <2>1. \/ Compacted = <<>>
        \/ Compacted = <<Entry("reset", parsed)>>
        \/ Compacted = <<Entry("overflow", 0)>>
    BY DEF Compacted
  <2>2. \A f \in Event : <<f>> \in Seq(Event) /\ Len(<<f>>) = 1
    OBVIOUS
  <2>3. <<>> \in Seq(Event) /\ Len(<<>>) = 0
    OBVIOUS
  <2>4. CASE Compacted = <<>>
    BY <2>3, <2>4
  <2>5. CASE Compacted = <<Entry("reset", parsed)>>
    BY <1>2, <2>2, <2>5
  <2>6. CASE Compacted = <<Entry("overflow", 0)>>
    BY <1>2, <2>2, <2>6
  <2> QED
    BY <2>1, <2>4, <2>5, <2>6
<1>4. \A f \in Event : Append(Compacted, f) \in Seq(Event) /\ Len(Append(Compacted, f)) =< 2
  <2>1. \A s \in Seq(Event), f \in Event :
          Append(s, f) \in Seq(Event) /\ Len(Append(s, f)) = Len(s) + 1 /\ Len(s) \in Nat
    OBVIOUS
  <2> QED
    BY <1>3, <2>1
<1>5. Len(events) < MaxEvents =>
        Append(events, e) \in Seq(Event) /\ Len(Append(events, e)) =< MaxEvents
  BY <1>1 DEF EventsTyped
<1>6. \/ Len(events) < MaxEvents /\ With(e) = Append(events, e)
      \/ With(e) = Append(Compacted, e)
      \/ With(e) = Append(Compacted, Entry("overflow", e.n))
      \/ With(e) = events
  BY DEF With
<1>7. \A f \in Event : Len(Append(Compacted, f)) =< MaxEvents
  <2>1. \A f \in Event : Len(Append(Compacted, f)) \in Nat
    BY <1>4
  <2> QED
    BY <1>1, <1>4, <2>1
<1> QED
  BY <1>2, <1>4, <1>5, <1>6, <1>7 DEF EventsTyped

\* A step puts an event on the queue, takes a batch of them, or leaves it alone.
LEMMA EventsStep ==
  ASSUME RepliesAssumption, Base, EventsTyped, [Next]_vars
  PROVE  EventsTyped'
<1>0. parsed \in Nat /\ parsed + 1 \in Nat
  BY DEF Base, IInv, Typed
<1>1. \A kind \in {"load", "kitty", "reply", "reset", "overflow"}, n \in Nat :
        Entry(kind, n) \in Event
  BY DEF Entry, Event
<1>2. ASSUME NEW e \in Event, NEW n, Put(e, n) PROVE EventsTyped'
  BY <1>0, <1>2, WithTyped DEF Put, EventsTyped
<1>3. ASSUME UNCHANGED events PROVE EventsTyped'
  BY <1>3 DEF EventsTyped
<1>4. CASE ParseQuery \/ ParseLoad \/ ParseKitty \/ ParseReset
  <2>1. \/ UNCHANGED events
        \/ \E kind \in {"load", "kitty", "reply", "reset", "overflow"} :
             Put(Entry(kind, parsed'), parsed')
    BY <1>4 DEF ParseQuery, ParseLoad, ParseKitty, ParseReset, Queries
  <2>2. parsed' \in Nat
    BY <1>0, <1>4 DEF ParseQuery, ParseLoad, ParseKitty, ParseReset, Parses
  <2> QED
    BY <1>1, <1>2, <1>3, <2>1, <2>2
<1>5. CASE Commit
  <2>1. UNCHANGED events \/ Put(Entry("reply", parsed), parsed)
    BY <1>5 DEF Commit
  <2> QED
    BY <1>0, <1>1, <1>2, <1>3, <2>1
<1>6. CASE TakeEvents
  <2> DEFINE k == IF Len(events) < EventBatch THEN Len(events) ELSE EventBatch
  <2>1. events' = SubSeq(events, k + 1, Len(events))
    BY <1>6 DEF TakeEvents
  <2>2. k \in 0..Len(events) /\ Len(events) \in Nat /\ MaxEvents \in Nat
    BY DEF RepliesAssumption, EventsTyped
  <2> HIDE DEF k
  <2>3. /\ SubSeq(events, k + 1, Len(events)) \in Seq(Event)
        /\ Len(SubSeq(events, k + 1, Len(events))) = Len(events) - k
    BY <2>2 DEF EventsTyped
  <2> QED
    BY <2>1, <2>2, <2>3 DEF EventsTyped
<1>7. CASE ParseUpload \/ EndSlice \/ Notify \/ Attach \/ PassDeadline \/ OtherWork
           \/ UNCHANGED vars \/ \E v : Detach(v) \/ Answer(v)
  BY <1>3, <1>7 DEF ParseUpload, EndSlice, Notify, Attach, PassDeadline, OtherWork, Detach,
                    Answer, ViewsOnly, vars
<1>8. CASE Receive \/ Timeout \/ Expire \/ Release \/ Answered \/ Asks \/ Replies \/ Cancels
  BY <1>3, <1>8 DEF Receive, Timeout, Expire, Release, Answered, Asks, Replies, Cancels, Does
<1> QED
  BY <1>4, <1>5, <1>6, <1>7, <1>8 DEF Next, FeederStep, ProgramStep, WorkerStep

\* The worker's queue never outgrows its bound.
LEMMA QueueStep ==
  ASSUME RepliesAssumption, Base, QueueTyped, [Next]_vars
  PROVE  QueueTyped'
<1>0. /\ queue \in Seq(Work) /\ QueueBound \in Nat
      /\ \A w : Len(queue) < QueueBound => Len(Append(queue, w)) =< QueueBound
      /\ queue # <<>> => Len(Tail(queue)) =< QueueBound
  <2>1. queue \in Seq(Work) /\ Len(queue) \in Nat /\ QueueBound \in Nat
    BY DEF RepliesAssumption, Base, WorkTyped
  <2>2. \A w : Len(Append(queue, w)) = Len(queue) + 1
    BY <2>1
  <2>3. queue # <<>> => Len(Tail(queue)) = Len(queue) - 1
    BY <2>1
  <2> QED
    BY <2>1, <2>2, <2>3 DEF QueueTyped
<1>1. CASE Notify \/ Receive \/ \E v : Answer(v)
  <2>1. \/ queue' = queue
        \/ Len(queue) < QueueBound /\ \E w : queue' = Append(queue, w)
        \/ queue # <<>> /\ queue' = Tail(queue)
    BY <1>1 DEF Notify, Receive, Answer
  <2> QED
    BY <1>0, <2>1 DEF QueueTyped
<1>2. ASSUME UNCHANGED queue PROVE QueueTyped'
  BY <1>2 DEF QueueTyped
<1>3. CASE ProgramStep \/ Commit \/ EndSlice
  BY <1>2, <1>3 DEF ProgramStep, ParseQuery, ParseLoad, ParseKitty, ParseReset, ParseUpload,
                    Parses, Commit, EndSlice, FeederOnly
<1>4. CASE Timeout \/ Expire \/ TakeEvents \/ Answered \/ Asks \/ Replies \/ Cancels \/ Release
  BY <1>2, <1>4 DEF Timeout, Expire, TakeEvents, Answered, Asks, Replies, Cancels, Release, Does
<1>5. CASE OtherWork \/ Attach \/ PassDeadline \/ UNCHANGED vars \/ \E v : Detach(v)
  BY <1>2, <1>5 DEF OtherWork, Attach, PassDeadline, Detach, ViewsOnly, vars
<1> QED
  BY <1>1, <1>3, <1>4, <1>5 DEF Next, FeederStep, WorkerStep

\* A set of numbers that is not empty has a least one.
LEMMA Least ==
  ASSUME NEW S \in SUBSET Nat, S # {}
  PROVE  \E m \in S : \A y \in S : ~(<<y, m>> \in OpToRel(<, Nat))
BY WFMin, NatLessThanWellFounded

\* Being less is the relation that has least elements.
LEMMA LessRelated ==
  ASSUME NEW y \in Nat, NEW m \in Nat, y < m
  PROVE  <<y, m>> \in OpToRel(<, Nat)
BY SMT DEF OpToRel

\* Of the views that are attached one is the newest.
LEMMA NewestView ==
  ASSUME RepliesAssumption, RequestsTyped, open # {}
  PROVE  ClipboardHost \in 1..MaxViews
<1>1. /\ subscribed \in Nat /\ MaxViews \in Nat /\ subscribed =< MaxViews
      /\ \A v \in open : v \in Nat /\ v >= 1 /\ v =< subscribed
  <2>1. open \subseteq 1..subscribed /\ subscribed \in 0..MaxViews /\ MaxViews \in Nat
    BY DEF RequestsTyped, RepliesAssumption
  <2>2. subscribed \in Nat /\ subscribed =< MaxViews
    BY <2>1
  <2>3. \A v \in 1..subscribed : v \in Nat /\ v >= 1 /\ v =< subscribed
    BY <2>2
  <2> QED
    BY <2>1, <2>2, <2>3
<1> DEFINE below == {subscribed - v : v \in open}
<1>2. below \in SUBSET Nat /\ below # {}
  <2>1. \A v \in open : subscribed - v \in Nat
    BY <1>1
  <2> QED
    BY <2>1
<1>3. PICK m \in below : \A y \in below : ~(<<y, m>> \in OpToRel(<, Nat))
  <2> HIDE DEF below
  <2> QED
    BY <1>2, Least
<1>4. \A y \in below : ~(y < m)
  <2> SUFFICES ASSUME NEW y \in below, y < m PROVE FALSE
    OBVIOUS
  <2>1. y \in Nat /\ m \in Nat
    BY <1>2
  <2>2. <<y, m>> \in OpToRel(<, Nat)
    BY <2>1, LessRelated
  <2> QED
    BY <1>3, <2>2
<1>5. PICK v \in open : m = subscribed - v
  OBVIOUS
<1>6. \A w \in open : w =< v
  <2> SUFFICES ASSUME NEW w \in open PROVE w =< v
    OBVIOUS
  <2>1. ~(subscribed - w < m)
    BY <1>4
  <2>2. v \in Nat /\ w \in Nat /\ v =< subscribed /\ w =< subscribed /\ subscribed \in Nat
    BY <1>1
  <2> QED
    BY <1>5, <2>1, <2>2
<1>7. ClipboardHost \in open
  BY <1>6 DEF ClipboardHost
<1> QED
  BY <1>1, <1>7


\* The requests that are asked of a view, in time or not, are numbered.
LEMMA RequestsStep ==
  ASSUME RepliesAssumption, Base, RequestsTyped, [Next]_vars, Waits'
  PROVE  RequestsTyped'
<1>0. /\ parked \subseteq Request /\ waiting \in Nat /\ waiting =< MaxWaiting
      /\ subscribed \in Nat /\ subscribed =< MaxViews /\ open \subseteq 1..subscribed
      /\ MaxViews \in Nat /\ MaxWaiting \in Nat
  <2>1. /\ parked \subseteq Request /\ waiting \in 0..MaxWaiting /\ subscribed \in 0..MaxViews
        /\ open \subseteq 1..subscribed /\ MaxViews \in Nat /\ MaxWaiting \in Nat
    BY DEF RequestsTyped, RepliesAssumption
  <2> QED
    BY <2>1
<1>1. ASSUME UNCHANGED <<parked, waiting, subscribed, open>> PROVE RequestsTyped'
  BY <1>1 DEF RequestsTyped
<1>2. CASE FeederStep
  BY <1>1, <1>2 DEF FeederStep, Commit, EndSlice, Notify, FeederOnly, bridge, views
<1>3. CASE ProgramStep
  BY <1>1, <1>3 DEF ProgramStep, ParseQuery, ParseLoad, ParseKitty, ParseReset, ParseUpload,
                    Parses, FeederOnly, bridge, views
<1>4. CASE Timeout \/ TakeEvents \/ Release \/ OtherWork \/ Replies \/ UNCHANGED vars
           \/ \E v : Answer(v)
  BY <1>1, <1>4 DEF Timeout, TakeEvents, Release, OtherWork, Replies, Does, Answer, ViewsOnly,
                    vars, bridge, views
<1>5. CASE Receive
  BY <1>5 DEF Receive, RequestsTyped, views
<1>6. CASE Cancels
  <2>1. waiting' = 0 /\ UNCHANGED <<parked, subscribed, open>>
    BY <1>6 DEF Cancels, Does, bridge, views
  <2> QED
    BY <1>0, <2>1 DEF RequestsTyped
<1>7. ASSUME NEW ns, Complete(ns), parked' \subseteq parked, UNCHANGED <<subscribed, open>>
      PROVE  RequestsTyped'
  <2>1. waiting' = waiting - Cardinality(Waiting(ns))
    BY <1>7 DEF Complete
  <2>2. Cardinality(Waiting(ns)) \in Nat /\ Cardinality(Waiting(ns)) =< waiting
    <3>1. Waiting(ns) \subseteq WaitingAt(slots)
      BY DEF Waiting, WaitingAt
    <3>2. IsFiniteSet(WaitingAt(slots))
      BY WaitingFinite DEF Base, IInv, Typed
    <3> QED
      BY <3>1, <3>2, FS_Subset, FS_CardinalityType DEF Base, Waits
  <2>3. waiting' \in 0..MaxWaiting
    BY <1>0, <2>1, <2>2
  <2> QED
    BY <1>7, <2>3 DEF RequestsTyped
<1>8. CASE Expire
  <2>1. parked' \subseteq parked /\ UNCHANGED <<subscribed, open>>
    BY <1>8 DEF Expire, views
  <2>2. PICK ns : Complete(ns)
    BY <1>8 DEF Expire
  <2> QED
    BY <1>7, <2>1, <2>2
<1>9. CASE Answered
  <2>1. Complete({Head(jobs).n}) /\ UNCHANGED <<parked, subscribed, open>>
    BY <1>9 DEF Answered, Does, bridge, views
  <2> QED
    BY <1>7, <2>1
<1>10. CASE Asks
  <2>1. UNCHANGED <<subscribed, open>> /\ Ask(Head(jobs).n) /\ Head(jobs).n \in Nat
    BY <1>10, NumbersTail DEF Asks, Does, views, Base, IInv, Typed, Lined, Job
  <2>2. CASE waiting >= MaxWaiting \/ open = {}
    BY <1>1, <2>1, <2>2 DEF Ask, bridge
  <2>3. CASE ~(waiting >= MaxWaiting) /\ open # {}
    <3>1. /\ waiting' = waiting + 1
          /\ parked' = parked \cup {[n |-> Head(jobs).n, view |-> ClipboardHost, late |-> FALSE]}
      BY <2>1, <2>3 DEF Ask
    <3>2. ClipboardHost \in 1..MaxViews
      BY <2>3, NewestView
    <3>3. [n |-> Head(jobs).n, view |-> ClipboardHost, late |-> FALSE] \in Request
      BY <2>1, <3>2 DEF Request
    <3>4. waiting' \in 0..MaxWaiting
      BY <1>0, <2>3, <3>1
    <3>5. parked' \subseteq Request
      BY <1>0, <3>1, <3>3
    <3> QED
      BY <2>1, <3>4, <3>5 DEF RequestsTyped
  <2> QED
    BY <2>2, <2>3
<1>11. CASE Attach
  <2>1. subscribed' = subscribed + 1 /\ subscribed < MaxViews /\ open' = open \cup {subscribed'}
        /\ UNCHANGED <<parked, waiting>>
    BY <1>11 DEF Attach, ViewsOnly, bridge
  <2>2. subscribed' \in 0..MaxViews /\ open' \subseteq 1..subscribed'
    BY <1>0, <2>1
  <2> QED
    BY <2>1, <2>2 DEF RequestsTyped
<1>12. CASE PassDeadline
  <2>1. PICK p \in parked : parked' = (parked \ {p}) \cup {[p EXCEPT !.late = TRUE]}
    BY <1>12 DEF PassDeadline
  <2>2. [p EXCEPT !.late = TRUE] \in Request
    BY <1>0, <2>1 DEF Request
  <2>3. UNCHANGED <<waiting, subscribed, open>>
    BY <1>12 DEF PassDeadline, ViewsOnly, views
  <2> QED
    BY <1>0, <2>1, <2>2, <2>3 DEF RequestsTyped
<1>13. ASSUME NEW v, Detach(v) PROVE RequestsTyped'
  BY <1>13 DEF Detach, ViewsOnly, RequestsTyped
<1> QED
  BY <1>2, <1>3, <1>4, <1>5, <1>6, <1>8, <1>9, <1>10, <1>11, <1>12, <1>13 DEF Next, WorkerStep

-----------------------------------------------------------------------------
(* What is written, and what is left to be written.                        *)

\* The requests of a view among slots, answered or not.
AskedFor(ss) == {ss[i].n : i \in {i \in DOMAIN ss : ss[i].what \in {"waiting", "clipboard"}}}

\* Those among events.
Asking       == {"load", "kitty"}
AskingIn(es) == {es[i].n : i \in {i \in DOMAIN es : es[i].kind \in Asking}}

\* What is written, and what is left, is of the requests F.
Moves(F) ==
  /\ \E t \in Seq(Reply) : sent' = sent \o t /\ AskedFor(t) \subseteq F
  /\ AskedFor(slots') \subseteq F

\* A part of the slots is of their requests; what does not wait is a reply.
LEMMA PartAsked ==
  ASSUME NEW ss \in Seq(SlotType), NEW a \in 1..(Len(ss) + 1), NEW b \in 0..Len(ss)
  PROVE  /\ SubSeq(ss, a, b) \in Seq(SlotType)
         /\ AskedFor(SubSeq(ss, a, b)) \subseteq AskedFor(ss)
         /\ (\A i \in a..b : ss[i].what # "waiting") => SubSeq(ss, a, b) \in Seq(Reply)
<1> DEFINE t == SubSeq(ss, a, b)
           l == IF a =< b THEN b - a + 1 ELSE 0
<1>1. /\ Len(ss) \in Nat /\ a \in Nat /\ b \in Nat /\ DOMAIN ss = 1..Len(ss)
      /\ t \in Seq(SlotType) /\ Len(t) = l /\ DOMAIN t = 1..l /\ l \in Nat
      /\ \A i \in 1..l : t[i] = ss[a + i - 1]
      /\ t = [i \in 1..l |-> t[i]]
  OBVIOUS
<1>2. \A i \in 1..l : a + i - 1 \in DOMAIN ss /\ a + i - 1 \in a..b
  BY <1>1
<1> HIDE DEF t
<1>3. AskedFor(t) \subseteq AskedFor(ss)
  <2>1. \A i \in DOMAIN t : \E j \in DOMAIN ss : t[i] = ss[j]
    BY <1>1, <1>2
  <2> QED
    BY <2>1 DEF AskedFor
<1>4. ASSUME \A i \in a..b : ss[i].what # "waiting" PROVE t \in Seq(Reply)
  <2>1. \A s \in SlotType : s.what # "waiting" => s \in Reply
    BY DEF SlotType, Reply
  <2>2. \A i \in 1..l : t[i] \in Reply
    <3> SUFFICES ASSUME NEW i \in 1..l PROVE t[i] \in Reply
      OBVIOUS
    <3>1. t[i] \in SlotType
      BY <1>1
    <3>2. t[i] = ss[a + i - 1] /\ a + i - 1 \in a..b
      BY <1>1, <1>2
    <3> QED
      BY <1>4, <2>1, <3>1, <3>2
  <2> HIDE DEF l
  <2>3. [i \in 1..l |-> t[i]] \in Seq(Reply)
    BY <1>1, <2>2
  <2> QED
    BY <1>1, <2>3
<1> QED
  BY <1>1, <1>3, <1>4 DEF t

\* A slot more is a request more, or none.
LEMMA AppendAsked ==
  ASSUME NEW ss \in Seq(SlotType), NEW s \in SlotType, NEW F, AskedFor(ss) \subseteq F,
         s.what \in {"waiting", "clipboard"} => s.n \in F
  PROVE  Append(ss, s) \in Seq(SlotType) /\ AskedFor(Append(ss, s)) \subseteq F
<1>1. /\ Len(ss) \in Nat /\ DOMAIN ss = 1..Len(ss) /\ Append(ss, s) \in Seq(SlotType)
      /\ DOMAIN Append(ss, s) = 1..(Len(ss) + 1)
      /\ \A i \in 1..Len(ss) : Append(ss, s)[i] = ss[i]
      /\ Append(ss, s)[Len(ss) + 1] = s
  OBVIOUS
<1> DEFINE t == Append(ss, s)
<1>2. \A i \in DOMAIN t : t[i] = s \/ (i \in DOMAIN ss /\ t[i] = ss[i])
  BY <1>1
<1> HIDE DEF t
<1>3. AskedFor(t) \subseteq F
  BY <1>2 DEF AskedFor
<1> QED
  BY <1>1, <1>3 DEF t

\* Writing what is due.
LEMMA DueMoves ==
  ASSUME NEW ss \in Seq(SlotType), NEW F, AskedFor(ss) \subseteq F, WriteDue(ss)
  PROVE  Moves(F)
<1>1. PICK k \in 0..Len(ss) : /\ \A i \in 1..k : ss[i].what # "waiting"
                              /\ sent' = sent \o SubSeq(ss, 1, k)
                              /\ slots' = SubSeq(ss, k + 1, Len(ss))
  BY DEF WriteDue
<1>2. 1 \in 1..(Len(ss) + 1) /\ k + 1 \in 1..(Len(ss) + 1) /\ Len(ss) \in 0..Len(ss)
  OBVIOUS
<1>3. /\ SubSeq(ss, 1, k) \in Seq(Reply) /\ AskedFor(SubSeq(ss, 1, k)) \subseteq F
      /\ AskedFor(SubSeq(ss, k + 1, Len(ss))) \subseteq F
  BY <1>1, <1>2, PartAsked
<1> QED
  BY <1>1, <1>3 DEF Moves

\* A reply of the worker's own goes behind the others.
LEMMA OrderedMoves ==
  ASSUME IInv, NEW s \in Reply, NEW F, AskedFor(slots) \subseteq F, WriteOrdered(s),
         s.what = "clipboard" => s.n \in F
  PROVE  Moves(F)
<1>1. slots \in Seq(SlotType) /\ sent \in Seq(SlotType)
  BY DEF IInv, Typed
<1>2. s \in SlotType /\ s.what # "waiting"
  BY DEF Reply, SlotType, Outcomes
<1>3. AskedFor(<<s>>) \subseteq F /\ <<s>> \in Seq(Reply) /\ Append(sent, s) = sent \o <<s>>
  <2>1. DOMAIN <<s>> = {1} /\ <<s>>[1] = s
    OBVIOUS
  <2> QED
    BY <1>1, <1>2, <2>1 DEF AskedFor
<1>4. AskedFor(<<>>) \subseteq F /\ <<>> \in Seq(Reply) /\ sent = sent \o <<>>
  BY <1>1 DEF AskedFor
<1>5. AskedFor(Append(slots, s)) \subseteq F
  BY <1>1, <1>2, AppendAsked
<1>6. \/ sent' = sent \o <<s>> /\ slots' = slots
      \/ (sent' = sent \o <<>> /\ (slots' = slots \/ slots' = Append(slots, s)))
  BY <1>3, <1>4 DEF WriteOrdered
<1> QED
  BY <1>3, <1>4, <1>5, <1>6 DEF Moves


\* Each slot with what the answer makes of it.
LEMMA SlotsAnswered ==
  ASSUME NEW ss \in Seq(SlotType), NEW f, DOMAIN f = DOMAIN ss,
         \A i \in DOMAIN ss : f[i] = ss[i] \/ \E what \in Outcomes : f[i] = Slot(ss[i].n, what),
         f = [i \in DOMAIN ss |-> f[i]]
  PROVE  /\ f \in Seq(SlotType) /\ Len(f) = Len(ss)
         /\ (\A i \in DOMAIN ss : f[i].what # "waiting") => f \in Seq(Reply)
<1>1. DOMAIN ss = 1..Len(ss) /\ Len(ss) \in Nat /\ \A i \in DOMAIN ss : ss[i] \in SlotType
  OBVIOUS
<1>2. \A t \in SlotType, what \in Outcomes : Slot(t.n, what) \in SlotType
  BY DEF SlotType, Slot
<1>3. \A i \in 1..Len(ss) : f[i] \in SlotType
  <2> SUFFICES ASSUME NEW i \in DOMAIN ss PROVE f[i] \in SlotType
    BY <1>1
  <2>1. f[i] = ss[i] \/ \E what \in Outcomes : f[i] = Slot(ss[i].n, what)
    OBVIOUS
  <2> QED
    BY <1>1, <1>2, <2>1
<1>4. \A t \in SlotType : t.what # "waiting" => t \in Reply
  BY DEF SlotType, Reply
<1>5. f = [i \in 1..Len(ss) |-> f[i]]
  BY <1>1
<1>6. f \in Seq(SlotType) /\ Len(f) = Len(ss)
  BY <1>1, <1>3, <1>5
<1>7. ASSUME \A i \in DOMAIN ss : f[i].what # "waiting" PROVE f \in Seq(Reply)
  <2>1. \A i \in 1..Len(ss) : f[i] \in Reply
    BY <1>1, <1>3, <1>4, <1>7
  <2> QED
    BY <1>1, <1>5, <2>1
<1> QED
  BY <1>6, <1>7

\* An answer or a denial is to a request that waits.
LEMMA CompleteMoves ==
  ASSUME IInv, NEW ns, Complete(ns)
  PROVE  Moves(AskedFor(slots))
<1> DEFINE ss == [i \in DOMAIN slots |->
                    IF i \in Waiting(ns) THEN Slot(slots[i].n, "clipboard") ELSE slots[i]]
<1>1. slots \in Seq(SlotType)
  BY DEF IInv, Typed
<1>2. /\ DOMAIN ss = DOMAIN slots /\ ss = [i \in DOMAIN slots |-> ss[i]]
      /\ \A i \in DOMAIN slots :
           \/ ss[i] = slots[i]
           \/ ss[i] = Slot(slots[i].n, "clipboard") /\ slots[i].what = "waiting"
  BY DEF Waiting
<1>3. WriteDue(ss)
  BY DEF Complete
<1> HIDE DEF ss
<1>4. ss \in Seq(SlotType)
  <2>1. \A i \in DOMAIN slots : ss[i] = slots[i] \/ \E what \in Outcomes : ss[i] = Slot(slots[i].n, what)
    BY <1>2 DEF Outcomes
  <2> QED
    BY <1>1, <1>2, <2>1, SlotsAnswered
<1>5. AskedFor(ss) \subseteq AskedFor(slots)
  <2>1. \A i \in DOMAIN ss : ss[i].what \in {"waiting", "clipboard"} =>
          slots[i].what \in {"waiting", "clipboard"} /\ ss[i].n = slots[i].n /\ i \in DOMAIN slots
    BY <1>2 DEF Slot
  <2> QED
    BY <2>1 DEF AskedFor
<1> QED
  BY <1>3, <1>4, <1>5, DueMoves

\* A request of a view is asked of one, or answered for it.
LEMMA AsksMoves ==
  ASSUME IInv, Asks
  PROVE  Moves(AskedFor(slots) \cup {Head(jobs).n})
<1> DEFINE n == Head(jobs).n
           F == AskedFor(slots) \cup {n}
<1>1. slots \in Seq(SlotType) /\ sent \in Seq(SlotType) /\ n \in Nat /\ Ask(n)
  BY NumbersTail DEF Asks, Does, IInv, Typed, Lined, Job
<1>2. AskedFor(slots) \subseteq F /\ n \in F
  OBVIOUS
<1> HIDE DEF n, F
<1>3. /\ Slot(n, "clipboard") \in SlotType /\ Slot(n, "clipboard") \in Reply
      /\ Slot(n, "clipboard").n = n
      /\ Slot(n, "waiting") \in SlotType /\ Slot(n, "waiting").n = n
  BY <1>1 DEF Slot, SlotType, Reply, Outcomes
<1>4. CASE waiting >= MaxWaiting
  <2>1. WriteOrdered(Slot(n, "clipboard"))
    BY <1>1, <1>4 DEF Ask
  <2>2. Moves(F)
    BY <1>2, <1>3, <2>1, OrderedMoves
  <2> QED
    BY <2>2 DEF F, n
<1>5. CASE ~(waiting >= MaxWaiting) /\ open = {}
  <2>1. WriteDue(Append(slots, Slot(n, "clipboard")))
    BY <1>1, <1>5 DEF Ask
  <2>2. /\ Append(slots, Slot(n, "clipboard")) \in Seq(SlotType)
        /\ AskedFor(Append(slots, Slot(n, "clipboard"))) \subseteq F
    BY <1>1, <1>2, <1>3, AppendAsked
  <2>3. Moves(F)
    BY <2>1, <2>2, DueMoves
  <2> QED
    BY <2>3 DEF F, n
<1>6. CASE ~(waiting >= MaxWaiting) /\ open # {}
  <2>1. slots' = Append(slots, Slot(n, "waiting")) /\ sent' = sent
    BY <1>1, <1>6 DEF Ask
  <2>2. AskedFor(Append(slots, Slot(n, "waiting"))) \subseteq F
    BY <1>1, <1>2, <1>3, AppendAsked
  <2>3. AskedFor(<<>>) \subseteq F /\ <<>> \in Seq(Reply) /\ sent = sent \o <<>>
    BY <1>1 DEF AskedFor
  <2>4. Moves(F)
    BY <2>1, <2>2, <2>3 DEF Moves
  <2> QED
    BY <2>4 DEF F, n
<1> QED
  BY <1>4, <1>5, <1>6

\* A reset writes what waits as nothing.
LEMMA CancelsMoves ==
  ASSUME IInv, Cancels
  PROVE  Moves(AskedFor(slots))
<1> DEFINE ss == [i \in DOMAIN slots |->
                    IF slots[i].what = "waiting" THEN Slot(slots[i].n, "nothing") ELSE slots[i]]
<1>1. slots \in Seq(SlotType) /\ sent' = sent \o ss /\ slots' = <<>>
  BY DEF IInv, Typed, Cancels
<1>2. /\ DOMAIN ss = DOMAIN slots /\ ss = [i \in DOMAIN slots |-> ss[i]]
      /\ \A i \in DOMAIN slots :
           \/ ss[i] = slots[i] /\ slots[i].what # "waiting"
           \/ ss[i] = Slot(slots[i].n, "nothing")
  OBVIOUS
<1> HIDE DEF ss
<1>3. ss \in Seq(Reply)
  <2>1. \A i \in DOMAIN slots : ss[i] = slots[i] \/ \E what \in Outcomes : ss[i] = Slot(slots[i].n, what)
    BY <1>2 DEF Outcomes
  <2>2. \A i \in DOMAIN slots : ss[i].what # "waiting"
    BY <1>2 DEF Slot
  <2> QED
    BY <1>1, <1>2, <2>1, <2>2, SlotsAnswered
<1>4. AskedFor(ss) \subseteq AskedFor(slots)
  <2>1. \A i \in DOMAIN ss : ss[i].what \in {"waiting", "clipboard"} =>
          slots[i].what \in {"waiting", "clipboard"} /\ ss[i].n = slots[i].n /\ i \in DOMAIN slots
    BY <1>2 DEF Slot
  <2> QED
    BY <2>1 DEF AskedFor
<1>5. AskedFor(<<>>) = {}
  BY DEF AskedFor
<1> QED
  BY <1>1, <1>3, <1>4, <1>5 DEF Moves

\* The feeder's replies answer no request of a view.
LEMMA DirectMoves ==
  ASSUME IInv, NEW ns \in Seq(Nat), sent' = sent \o Direct(ns), UNCHANGED slots
  PROVE  Moves(AskedFor(slots))
<1>1. /\ DOMAIN ns = 1..Len(ns) /\ Len(ns) \in Nat /\ \A i \in 1..Len(ns) : ns[i] \in Nat
  OBVIOUS
<1>2. \A n \in Nat : Slot(n, "reply") \in Reply
  BY DEF Slot, Reply, Outcomes
<1>3. Direct(ns) = [i \in 1..Len(ns) |-> Slot(ns[i], "reply")]
  BY <1>1 DEF Direct
<1>4. Direct(ns) \in Seq(Reply)
  <2>1. \A i \in 1..Len(ns) : Slot(ns[i], "reply") \in Reply
    BY <1>1, <1>2
  <2> QED
    BY <1>1, <1>3, <2>1
<1>5. AskedFor(Direct(ns)) = {}
  BY <1>3 DEF AskedFor, Slot
<1> QED
  BY <1>4, <1>5 DEF Moves

\* Whatever is done next, what is written is of the requests that have slots, or
\* that the worker has taken.
LEMMA MovesStep ==
  ASSUME IInv, [Next]_vars
  PROVE  Moves(AskedFor(slots) \cup AskingIn(jobs))
<1> DEFINE F == AskedFor(slots) \cup AskingIn(jobs)
<1>0. sent \in Seq(SlotType) /\ jobs \in Seq(Job) /\ held \in Seq(Nat)
  BY DEF IInv, Typed
<1>1. ASSUME NEW G \in SUBSET F, Moves(G) PROVE Moves(F)
  BY <1>1 DEF Moves
<1>2. ASSUME UNCHANGED <<sent, slots>> PROVE Moves(F)
  <2>1. AskedFor(<<>>) = {} /\ <<>> \in Seq(Reply) /\ sent = sent \o <<>>
    BY <1>0 DEF AskedFor
  <2> QED
    BY <1>2, <2>1 DEF Moves
<1>3. ASSUME Moves(AskedFor(slots)) PROVE Moves(F)
  <2>1. AskedFor(slots) \in SUBSET F
    OBVIOUS
  <2> QED
    BY <1>1, <1>3, <2>1
<1>4. CASE Asks
  <2>1. jobs # <<>> /\ Head(jobs).kind \in Asking
    BY <1>4 DEF Asks, Does, Asking
  <2>2. Head(jobs) = jobs[1] /\ 1 \in DOMAIN jobs
    BY <1>0, <2>1
  <2>3. Head(jobs).n \in AskingIn(jobs)
    BY <2>1, <2>2 DEF AskingIn
  <2>4. AskedFor(slots) \cup {Head(jobs).n} \in SUBSET F
    BY <2>3
  <2>5. Moves(AskedFor(slots) \cup {Head(jobs).n})
    BY <1>4, AsksMoves
  <2> QED
    BY <2>4, <2>5 DEF Moves
<1>5. CASE Commit \/ EndSlice
  <2>1. UNCHANGED slots
    BY <1>5 DEF Commit, EndSlice, FeederOnly
  <2>2. \/ sent' = sent \o Direct(held)
        \/ sent' = sent \o Direct(Append(held, parsed))
    BY <1>5 DEF Commit, EndSlice
  <2>3. Append(held, parsed) \in Seq(Nat)
    BY <1>0 DEF IInv, Typed
  <2>4. Moves(AskedFor(slots))
    BY <1>0, <2>1, <2>2, <2>3, DirectMoves
  <2> QED
    BY <1>3, <2>4
<1>6. CASE Notify \/ ProgramStep
  BY <1>2, <1>6 DEF Notify, ProgramStep, ParseQuery, ParseLoad, ParseKitty, ParseReset,
                    ParseUpload, Parses, FeederOnly
<1>7. CASE Expire
  <2>1. PICK ns : Complete(ns)
    BY <1>7 DEF Expire
  <2> QED
    BY <1>3, <2>1, CompleteMoves
<1>8. CASE Answered
  <2>1. Complete({Head(jobs).n})
    BY <1>8 DEF Answered
  <2> QED
    BY <1>3, <2>1, CompleteMoves
<1>9. CASE Replies
  <2> DEFINE s == Slot(Head(jobs).n, "reply")
  <2>1. WriteOrdered(s) /\ Head(jobs).n \in Nat
    BY <1>9, NumbersTail DEF Replies, Does, IInv, Typed, Lined, Job
  <2>2. s \in Reply /\ s.what # "clipboard"
    BY <2>1 DEF Slot, Reply, Outcomes
  <2> HIDE DEF s
  <2>3. Moves(AskedFor(slots))
    BY <2>1, <2>2, OrderedMoves
  <2> QED
    BY <1>3, <2>3
<1>10. CASE Cancels
  BY <1>3, <1>10, CancelsMoves
<1>11. CASE Receive \/ Timeout \/ TakeEvents \/ Release \/ OtherWork
  BY <1>2, <1>11 DEF Receive, Timeout, TakeEvents, Release, OtherWork
<1>12. CASE Attach \/ PassDeadline \/ UNCHANGED vars \/ \E v : Detach(v) \/ Answer(v)
  BY <1>2, <1>12 DEF Attach, PassDeadline, Detach, Answer, ViewsOnly, vars
<1> QED
  BY <1>4, <1>5, <1>6, <1>7, <1>8, <1>9, <1>10, <1>11, <1>12 DEF Next, FeederStep, WorkerStep


\* Replies that were written stay as they are, and new ones are replies.
LEMMA SentStep ==
  ASSUME IInv, sent \in Seq(Reply), [Next]_vars
  PROVE  sent' \in Seq(Reply)
<1>1. Moves(AskedFor(slots) \cup AskingIn(jobs))
  BY MovesStep
<1>2. PICK t \in Seq(Reply) : sent' = sent \o t
  BY <1>1 DEF Moves
<1> QED
  BY <1>2

\* What gets no reply has a number.
LEMMA LostStep ==
  ASSUME IInv, lost \subseteq Nat, [Next]_vars
  PROVE  lost' \subseteq Nat
<1>0. /\ events \in Seq(Job) /\ slots \in Seq(SlotType) /\ parsed \in Nat /\ parsed + 1 \in Nat
      /\ Numbers(events) \subseteq Nat /\ SlotNumbers(slots) \subseteq Nat
  BY NumbersType DEF IInv, Typed
<1>1. ASSUME NEW e, NEW n \in Nat, Put(e, n) PROVE lost' \subseteq Nat
  BY <1>0, <1>1 DEF Put
<1>2. ASSUME UNCHANGED lost PROVE lost' \subseteq Nat
  BY <1>2
<1>3. CASE ParseQuery \/ ParseLoad \/ ParseKitty \/ ParseReset
  <2>1. UNCHANGED lost \/ \E kind : Put(Entry(kind, parsed'), parsed')
    BY <1>3 DEF ParseQuery, ParseLoad, ParseKitty, ParseReset, Queries
  <2>2. parsed' \in Nat
    BY <1>0, <1>3 DEF ParseQuery, ParseLoad, ParseKitty, ParseReset, Parses
  <2> QED
    BY <1>1, <1>2, <2>1, <2>2
<1>4. CASE Commit
  <2>1. UNCHANGED lost \/ Put(Entry("reply", parsed), parsed)
    BY <1>4 DEF Commit
  <2> QED
    BY <1>0, <1>1, <1>2, <2>1
<1>5. CASE Cancels
  <2>1. lost' \subseteq lost \cup SlotNumbers(slots)
    BY <1>5 DEF Cancels, SlotNumbers
  <2> QED
    BY <1>0, <2>1
<1>6. ASSUME NEW s, WriteOrdered(s), s.n \in Nat PROVE lost' \subseteq Nat
  BY <1>6 DEF WriteOrdered
<1>7. CASE Asks \/ Replies
  <2>1. Head(jobs).n \in Nat
    BY <1>7, NumbersTail DEF Asks, Replies, Does, IInv, Typed, Lined, Job
  <2>2. UNCHANGED lost \/ \E what : WriteOrdered(Slot(Head(jobs).n, what))
    BY <1>7 DEF Asks, Replies, Ask
  <2>3. \A what : Slot(Head(jobs).n, what).n \in Nat
    BY <2>1 DEF Slot
  <2> QED
    BY <1>2, <1>6, <2>2, <2>3
<1>8. CASE ParseUpload \/ EndSlice \/ Notify \/ Receive \/ Timeout \/ Expire \/ TakeEvents
           \/ Answered \/ Release \/ OtherWork
  BY <1>2, <1>8 DEF ParseUpload, EndSlice, Notify, Receive, Timeout, Expire, TakeEvents, Answered,
                    Release, OtherWork
<1>9. CASE Attach \/ PassDeadline \/ UNCHANGED vars \/ \E v : Detach(v) \/ Answer(v)
  BY <1>2, <1>9 DEF Attach, PassDeadline, Detach, Answer, ViewsOnly, vars
<1> QED
  BY <1>3, <1>4, <1>5, <1>7, <1>8, <1>9 DEF Next, FeederStep, ProgramStep, WorkerStep

\* Every step keeps the types, with what they rest on.
LEMMA TypesStep ==
  ASSUME RepliesAssumption, Base, Types, [Next]_vars
  PROVE  Base' /\ Types'
<1>1. Base'
  BY NextInvariant, WorkTypedStep, WaitsStep DEF Base
<1>2. ControlTyped' /\ EventsTyped' /\ QueueTyped'
  BY ControlStep, EventsStep, QueueStep DEF Types
<1>3. RequestsTyped'
  BY <1>1, RequestsStep DEF Types, Base
<1>4. RepliesTyped'
  BY SentStep, LostStep DEF Types, Base, RepliesTyped
<1> QED
  BY <1>1, <1>2, <1>3, <1>4 DEF Types

\* The types hold at the start.
LEMMA InitTypes ==
  ASSUME RepliesAssumption, Init
  PROVE  Base /\ Types
<1>1. IInv /\ WorkTyped /\ Waits
  <2>1. WaitingAt(<<>>) = {}
    BY DEF WaitingAt
  <2> QED
    BY <2>1, InitInvariant, FS_EmptySet DEF Init, WorkTyped, Waits
<1>2. /\ 0 \in 0..MaxItems /\ 0 \in 0..MaxWaiting /\ 0 \in 0..MaxViews
      /\ 0 =< MaxEvents /\ 0 =< QueueBound /\ Len(<<>>) = 0
  BY DEF RepliesAssumption
<1>3. ControlTyped /\ EventsTyped /\ QueueTyped
  <2>1. ControlTyped
    BY <1>2 DEF Init, ControlTyped
  <2>2. events = <<>> /\ queue = <<>> /\ <<>> \in Seq(Event)
    BY DEF Init
  <2> QED
    BY <1>2, <2>1, <2>2 DEF EventsTyped, QueueTyped
<1>4. RequestsTyped /\ RepliesTyped
  BY <1>2 DEF Init, RequestsTyped, RepliesTyped
<1> QED
  BY <1>1, <1>3, <1>4 DEF Base, Types

\* The state is of its types, and every queue within its bound: the event queue
\* whatever `compact_saturated_events' has to make room for, the worker's queue
\* and the requests that wait for a view.
THEOREM TypeCorrect ==
  ASSUME RepliesAssumption
  PROVE  Spec => []TypeOK
<1>1. Init => Base /\ Types
  BY InitTypes
<1>2. Base /\ Types /\ [Next]_vars => (Base /\ Types)'
  BY TypesStep
<1>3. Base /\ Types => TypeOK
  BY TypesTypeOK
<1> QED
  BY <1>1, <1>2, <1>3, PTL DEF Spec

-----------------------------------------------------------------------------
(* Requests that wait are looked after.                                    *)

\* The requests that wait, among slots, and the answers among jobs.
WaitingFor(ss) == {ss[i].n : i \in {i \in DOMAIN ss : ss[i].what = "waiting"}}
AnswersIn(es)  == {es[i].n : i \in {i \in DOMAIN es : es[i].kind = "answer"}}
Parked(ps)     == {p.n : p \in ps}

LookedAfter == WaitingFor(slots) \subseteq Parked(parked) \cup AnswersIn(jobs)

\* A part of the slots waits for no more; a slot more waits for one more, or none.
LEMMA PartWaits ==
  ASSUME NEW ss \in Seq(SlotType)
  PROVE  /\ \A k \in 0..Len(ss) : WaitingFor(SubSeq(ss, k + 1, Len(ss))) \subseteq WaitingFor(ss)
         /\ \A s \in SlotType :
              /\ s.what # "waiting" => WaitingFor(Append(ss, s)) \subseteq WaitingFor(ss)
              /\ WaitingFor(Append(ss, s)) \subseteq WaitingFor(ss) \cup {s.n}
<1>1. ASSUME NEW k \in 0..Len(ss)
      PROVE  WaitingFor(SubSeq(ss, k + 1, Len(ss))) \subseteq WaitingFor(ss)
  <2> DEFINE t == SubSeq(ss, k + 1, Len(ss))
  <2>1. /\ Len(ss) \in Nat /\ DOMAIN ss = 1..Len(ss) /\ DOMAIN t = 1..(Len(ss) - k)
        /\ \A i \in 1..(Len(ss) - k) : t[i] = ss[k + i] /\ k + i \in 1..Len(ss)
    OBVIOUS
  <2> HIDE DEF t
  <2>2. \A i \in DOMAIN t : \E j \in DOMAIN ss : t[i] = ss[j]
    BY <2>1
  <2>3. WaitingFor(t) \subseteq WaitingFor(ss)
    BY <2>2 DEF WaitingFor
  <2> QED
    BY <2>3 DEF t
<1>2. ASSUME NEW s \in SlotType
      PROVE  /\ s.what # "waiting" => WaitingFor(Append(ss, s)) \subseteq WaitingFor(ss)
             /\ WaitingFor(Append(ss, s)) \subseteq WaitingFor(ss) \cup {s.n}
  <2> DEFINE t == Append(ss, s)
  <2>1. /\ Len(ss) \in Nat /\ DOMAIN ss = 1..Len(ss) /\ DOMAIN t = 1..(Len(ss) + 1)
        /\ \A i \in 1..Len(ss) : t[i] = ss[i]
        /\ t[Len(ss) + 1] = s
    OBVIOUS
  <2>2. \A i \in DOMAIN t : t[i] = s \/ (i \in DOMAIN ss /\ t[i] = ss[i])
    BY <2>1
  <2> HIDE DEF t
  <2>3. /\ s.what # "waiting" => WaitingFor(t) \subseteq WaitingFor(ss)
        /\ WaitingFor(t) \subseteq WaitingFor(ss) \cup {s.n}
    BY <2>2 DEF WaitingFor
  <2> QED
    BY <2>3 DEF t
<1> QED
  BY <1>1, <1>2

\* After answers and denials nobody waits for what was answered.
LEMMA CompleteWaitsFor ==
  ASSUME IInv, NEW ns, Complete(ns)
  PROVE  WaitingFor(slots') \subseteq WaitingFor(slots) \ ns
<1> DEFINE ss == [i \in DOMAIN slots |->
                    IF i \in Waiting(ns) THEN Slot(slots[i].n, "clipboard") ELSE slots[i]]
<1>1. slots \in Seq(SlotType)
  BY DEF IInv, Typed
<1>2. /\ DOMAIN ss = DOMAIN slots /\ ss = [i \in DOMAIN slots |-> ss[i]]
      /\ \A i \in DOMAIN slots :
           \/ ss[i] = slots[i] /\ (slots[i].what # "waiting" \/ slots[i].n \notin ns)
           \/ ss[i] = Slot(slots[i].n, "clipboard")
  BY DEF Waiting
<1>3. WriteDue(ss)
  BY DEF Complete
<1> HIDE DEF ss
<1>4. ss \in Seq(SlotType)
  <2>1. \A i \in DOMAIN slots : ss[i] = slots[i] \/ \E what \in Outcomes : ss[i] = Slot(slots[i].n, what)
    BY <1>2 DEF Outcomes
  <2> QED
    BY <1>1, <1>2, <2>1, SlotsAnswered
<1>5. WaitingFor(ss) \subseteq WaitingFor(slots) \ ns
  <2>1. \A i \in DOMAIN ss : ss[i].what = "waiting" =>
          /\ i \in DOMAIN slots /\ slots[i].what = "waiting"
          /\ slots[i].n \notin ns /\ ss[i].n = slots[i].n
    BY <1>2 DEF Slot
  <2> QED
    BY <2>1 DEF WaitingFor
<1>6. PICK k \in 0..Len(ss) : slots' = SubSeq(ss, k + 1, Len(ss))
  BY <1>3 DEF WriteDue
<1>7. WaitingFor(slots') \subseteq WaitingFor(ss)
  BY <1>4, <1>6, PartWaits
<1> QED
  BY <1>5, <1>7

\* The next answer is the first, and there is no other way to lose one.
LEMMA AnswersTail ==
  ASSUME NEW es \in Seq(Job), es # <<>>
  PROVE  /\ AnswersIn(es) \subseteq AnswersIn(Tail(es)) \cup {Head(es).n}
         /\ Head(es).kind # "answer" => AnswersIn(es) \subseteq AnswersIn(Tail(es))
<1> DEFINE t == Tail(es)
<1>1. /\ Len(es) \in Nat \ {0} /\ DOMAIN es = 1..Len(es) /\ Head(es) = es[1]
      /\ DOMAIN t = 1..(Len(es) - 1)
      /\ \A i \in 1..(Len(es) - 1) : t[i] = es[i + 1]
  OBVIOUS
<1>2. \A i \in DOMAIN es : i = 1 \/ (i - 1 \in DOMAIN t /\ t[i - 1] = es[i])
  BY <1>1
<1> HIDE DEF t
<1>3. \A i \in DOMAIN es : es[i] = Head(es) \/ \E j \in DOMAIN t : t[j] = es[i]
  BY <1>1, <1>2
<1>4. /\ AnswersIn(es) \subseteq AnswersIn(t) \cup {Head(es).n}
      /\ Head(es).kind # "answer" => AnswersIn(es) \subseteq AnswersIn(t)
  BY <1>3 DEF AnswersIn
<1> QED
  BY <1>4 DEF t


\* What is asked of a view is parked; it is denied, or answered, only with its slot.
LEMMA LookedAfterStep ==
  ASSUME RepliesAssumption, Base, Types, LookedAfter, [Next]_vars
  PROVE  LookedAfter'
<1>0. /\ IInv /\ slots \in Seq(SlotType) /\ jobs \in Seq(Job) /\ parked \subseteq Request
      /\ queue \in Seq(Work)
  BY DEF Base, IInv, Typed, Types, RequestsTyped, WorkTyped
<1>1. ASSUME UNCHANGED <<slots, parked, jobs>> PROVE LookedAfter'
  BY <1>1 DEF LookedAfter
<1>2. CASE FeederStep
  BY <1>1, <1>2 DEF FeederStep, Commit, EndSlice, Notify, FeederOnly, bridge
<1>3. CASE ProgramStep
  BY <1>1, <1>3 DEF ProgramStep, ParseQuery, ParseLoad, ParseKitty, ParseReset, ParseUpload,
                    Parses, FeederOnly, bridge
<1>4. CASE Timeout \/ Release \/ OtherWork \/ Attach \/ UNCHANGED vars
           \/ \E v : Answer(v) \/ Detach(v)
  BY <1>1, <1>4 DEF Timeout, Release, OtherWork, Attach, Answer, Detach, ViewsOnly, vars, bridge
<1>5. CASE Receive
  <2> DEFINE known == {p \in parked : Head(queue).kind = "answer" /\ p.n = Head(queue).n}
  <2>1. /\ jobs = <<>> /\ slots' = slots /\ parked' = parked \ known
        /\ jobs' = IF known # {} THEN <<Head(queue)>> ELSE <<>>
    BY <1>5 DEF Receive, Free
  <2>2. AnswersIn(jobs) = {}
    BY <2>1 DEF AnswersIn
  <2>3. ASSUME NEW n \in WaitingFor(slots) PROVE n \in Parked(parked') \cup AnswersIn(jobs')
    <3>1. PICK p \in parked : p.n = n
      BY <2>2 DEF LookedAfter, Parked
    <3>2. CASE p \in known
      <4>1. jobs' = <<Head(queue)>> /\ Head(queue).kind = "answer" /\ Head(queue).n = n
        BY <2>1, <3>1, <3>2
      <4>2. DOMAIN jobs' = {1} /\ jobs'[1] = Head(queue)
        BY <4>1
      <4> QED
        BY <4>1, <4>2 DEF AnswersIn
    <3>3. CASE p \notin known
      BY <2>1, <3>1, <3>3 DEF Parked
    <3> QED
      BY <3>2, <3>3
  <2> QED
    BY <2>1, <2>3 DEF LookedAfter
<1>6. CASE Expire
  <2> DEFINE gone == {p \in parked : p.late \/ p.view \notin open}
             ns == {p.n : p \in gone}
  <2>1. /\ jobs = <<>> /\ jobs' = jobs /\ parked' = parked \ gone /\ Complete(ns)
    BY <1>6 DEF Expire, Free
  <2>2. WaitingFor(slots') \subseteq WaitingFor(slots) \ ns
    BY <1>0, <2>1, CompleteWaitsFor
  <2>3. AnswersIn(jobs) = {}
    BY <2>1 DEF AnswersIn
  <2>4. Parked(parked) \ ns \subseteq Parked(parked')
    BY <2>1 DEF Parked
  <2> QED
    BY <2>1, <2>2, <2>3, <2>4 DEF LookedAfter
<1>7. CASE TakeEvents
  <2>1. jobs = <<>> /\ UNCHANGED <<slots, parked>>
    BY <1>7 DEF TakeEvents, Free, bridge
  <2>2. AnswersIn(jobs) = {}
    BY <2>1 DEF AnswersIn
  <2> QED
    BY <2>1, <2>2 DEF LookedAfter
<1>8. CASE Answered
  <2>1. jobs # <<>> /\ jobs' = Tail(jobs) /\ Complete({Head(jobs).n}) /\ parked' = parked
    BY <1>8 DEF Answered, Does, bridge
  <2>2. WaitingFor(slots') \subseteq WaitingFor(slots) \ {Head(jobs).n}
    BY <1>0, <2>1, CompleteWaitsFor
  <2>3. AnswersIn(jobs) \subseteq AnswersIn(jobs') \cup {Head(jobs).n}
    BY <1>0, <2>1, AnswersTail
  <2> QED
    BY <2>1, <2>2, <2>3 DEF LookedAfter
<1>9. ASSUME NEW s \in SlotType, s.what # "waiting", WriteOrdered(s)
      PROVE  WaitingFor(slots') \subseteq WaitingFor(slots)
  <2>1. slots' = slots \/ slots' = Append(slots, s)
    BY <1>9 DEF WriteOrdered
  <2> QED
    BY <1>0, <1>9, <2>1, PartWaits
<1>10. ASSUME jobs # <<>>, Head(jobs).kind # "answer", jobs' = Tail(jobs),
              WaitingFor(slots') \subseteq WaitingFor(slots), parked' = parked
       PROVE  LookedAfter'
  <2>1. AnswersIn(jobs) \subseteq AnswersIn(jobs')
    BY <1>0, <1>10, AnswersTail
  <2> QED
    BY <1>10, <2>1 DEF LookedAfter
<1>11. CASE Replies
  <2> DEFINE s == Slot(Head(jobs).n, "reply")
  <2>1. /\ jobs # <<>> /\ Head(jobs).kind # "answer" /\ jobs' = Tail(jobs) /\ parked' = parked
        /\ WriteOrdered(s) /\ Head(jobs).n \in Nat
    BY <1>0, <1>11, NumbersTail DEF Replies, Does, bridge, IInv, Typed, Lined, Job
  <2>2. s \in SlotType /\ s.what # "waiting"
    BY <2>1 DEF Slot, SlotType, Outcomes
  <2> HIDE DEF s
  <2> QED
    BY <1>9, <1>10, <2>1, <2>2
<1>12. CASE Cancels
  <2>1. /\ jobs # <<>> /\ Head(jobs).kind # "answer" /\ jobs' = Tail(jobs) /\ parked' = parked
        /\ slots' = <<>>
    BY <1>12 DEF Cancels, Does, bridge
  <2>2. WaitingFor(<<>>) = {}
    BY DEF WaitingFor
  <2> QED
    BY <1>10, <2>1, <2>2
<1>13. CASE Asks
  <2> DEFINE n == Head(jobs).n
  <2>1. /\ jobs # <<>> /\ Head(jobs).kind # "answer" /\ jobs' = Tail(jobs) /\ Ask(n)
        /\ n \in Nat
    BY <1>0, <1>13, NumbersTail DEF Asks, Does, IInv, Typed, Lined, Job
  <2> HIDE DEF n
  <2>2. /\ Slot(n, "clipboard") \in SlotType /\ Slot(n, "clipboard").what # "waiting"
        /\ Slot(n, "waiting") \in SlotType /\ Slot(n, "waiting").n = n
    BY <2>1 DEF Slot, SlotType, Outcomes
  <2>3. CASE waiting >= MaxWaiting
    <3>1. WriteOrdered(Slot(n, "clipboard")) /\ parked' = parked
      BY <2>1, <2>3 DEF Ask, bridge
    <3>2. WaitingFor(slots') \subseteq WaitingFor(slots)
      BY <1>9, <2>2, <3>1
    <3> QED
      BY <1>10, <2>1, <3>1, <3>2
  <2>4. CASE ~(waiting >= MaxWaiting) /\ open = {}
    <3> DEFINE ss == Append(slots, Slot(n, "clipboard"))
    <3>1. WriteDue(ss) /\ parked' = parked
      BY <2>1, <2>4 DEF Ask, bridge
    <3>2. ss \in Seq(SlotType) /\ WaitingFor(ss) \subseteq WaitingFor(slots)
      BY <1>0, <2>2, PartWaits
    <3> HIDE DEF ss
    <3>3. PICK k \in 0..Len(ss) : slots' = SubSeq(ss, k + 1, Len(ss))
      BY <3>1 DEF WriteDue
    <3>4. WaitingFor(slots') \subseteq WaitingFor(slots)
      BY <3>2, <3>3, PartWaits
    <3> QED
      BY <1>10, <2>1, <3>1, <3>4
  <2>5. CASE ~(waiting >= MaxWaiting) /\ open # {}
    <3> DEFINE p == [n |-> n, view |-> ClipboardHost, late |-> FALSE]
    <3>1. slots' = Append(slots, Slot(n, "waiting")) /\ parked' = parked \cup {p}
      BY <2>1, <2>5 DEF Ask
    <3>2. WaitingFor(slots') \subseteq WaitingFor(slots) \cup {n}
      BY <1>0, <2>2, <3>1, PartWaits
    <3>3. p.n = n
      OBVIOUS
    <3> HIDE DEF p
    <3>4. n \in Parked(parked') /\ Parked(parked) \subseteq Parked(parked')
      BY <3>1, <3>3 DEF Parked
    <3>5. AnswersIn(jobs) \subseteq AnswersIn(jobs')
      BY <1>0, <2>1, AnswersTail
    <3> QED
      BY <3>2, <3>4, <3>5 DEF LookedAfter
  <2> QED
    BY <2>3, <2>4, <2>5
<1>14. CASE PassDeadline
  <2>1. PICK p \in parked : parked' = (parked \ {p}) \cup {[p EXCEPT !.late = TRUE]}
    BY <1>14 DEF PassDeadline
  <2>2. [p EXCEPT !.late = TRUE].n = p.n
    BY <1>0, <2>1 DEF Request
  <2>3. Parked(parked) \subseteq Parked(parked')
    BY <2>1, <2>2 DEF Parked
  <2>4. UNCHANGED <<slots, jobs>>
    BY <1>14 DEF PassDeadline, ViewsOnly
  <2> QED
    BY <2>3, <2>4 DEF LookedAfter
<1> QED
  BY <1>2, <1>3, <1>4, <1>5, <1>6, <1>7, <1>8, <1>11, <1>12, <1>13, <1>14 DEF Next, WorkerStep

\* A request that waits is parked, to be denied when it is late, or its answer has
\* been taken: none is left that the bridge knows nothing of.
THEOREM DeadlineKept ==
  ASSUME RepliesAssumption
  PROVE  Spec => []WaitingHasDeadline
<1>1. Init => Base /\ Types /\ LookedAfter
  <2>1. WaitingFor(<<>>) = {}
    BY DEF WaitingFor
  <2> QED
    BY <2>1, InitTypes DEF Init, LookedAfter
<1>2. Base /\ Types /\ LookedAfter /\ [Next]_vars => (Base /\ Types /\ LookedAfter)'
  BY TypesStep, LookedAfterStep
<1>3. Base /\ LookedAfter => WaitingHasDeadline
  <2> SUFFICES ASSUME Base, LookedAfter, NEW i \in DOMAIN slots, slots[i].what = "waiting"
               PROVE  \/ \E p \in parked : p.n = slots[i].n
                      \/ \E k \in DOMAIN jobs : jobs[k] = Entry("answer", slots[i].n)
    BY DEF WaitingHasDeadline
  <2>1. slots[i].n \in Parked(parked) \cup AnswersIn(jobs)
    BY DEF LookedAfter, WaitingFor
  <2>2. CASE slots[i].n \in Parked(parked)
    BY <2>2 DEF Parked
  <2>3. CASE slots[i].n \in AnswersIn(jobs)
    <3>1. PICK k \in DOMAIN jobs : jobs[k].kind = "answer" /\ jobs[k].n = slots[i].n
      BY <2>3 DEF AnswersIn
    <3>2. jobs[k] \in Job
      BY DEF Base, IInv, Typed
    <3>3. jobs[k] = Entry("answer", slots[i].n)
      BY <3>1, <3>2 DEF Job, Entry
    <3> QED
      BY <3>3
  <2> QED
    BY <2>1, <2>2, <2>3
<1> QED
  BY <1>1, <1>2, <1>3, PTL DEF Spec


-----------------------------------------------------------------------------
(* Resets.                                                                 *)

\* What makes the worker forget what was asked; an overflow stands for what was
\* too much, and tells nothing more of it.
Cancelling == {"reset", "overflow"}

\* No request that was made before a reset comes behind it.
CancelsFirst(as, bs) ==
  \A i \in DOMAIN as, j \in DOMAIN bs :
    as[i].kind \in Cancelling /\ bs[j].kind \in Asking => as[i].n < bs[j].n
InTurn(es) ==
  \A i, j \in DOMAIN es :
    i < j /\ es[i].kind \in Cancelling /\ es[j].kind \in Asking => es[i].n < es[j].n

\* Events have been parsed; answers, which views make, are no events.
UpTo(es, m) == \A i \in DOMAIN es : es[i].kind # "answer" => es[i].n =< m

Above(S, m) == \A n \in S : n > m

\* The requests that can still be answered were made after the last reset, and
\* those made before the next one come before it.
AfterReset ==
  /\ Above(AskedFor(slots) \cup AskingIn(jobs) \cup AskingIn(events), resetAt)
  /\ InTurn(jobs) /\ InTurn(events) /\ CancelsFirst(jobs, events)
  /\ UpTo(jobs, parsed) /\ UpTo(events, parsed) /\ resetAt =< parsed

\* Of the first event and the others.
LEMMA InTurnTail ==
  ASSUME NEW es \in Seq(Job), es # <<>>, InTurn(es), NEW m, UpTo(es, m)
  PROVE  /\ InTurn(Tail(es)) /\ UpTo(Tail(es), m)
         /\ AskingIn(Tail(es)) \subseteq AskingIn(es)
         /\ \A bs \in Seq(Job) : CancelsFirst(es, bs) => CancelsFirst(Tail(es), bs)
         /\ Head(es).kind \in Cancelling =>
              /\ Above(AskingIn(Tail(es)), Head(es).n)
              /\ \A bs \in Seq(Job) : CancelsFirst(es, bs) => Above(AskingIn(bs), Head(es).n)
         /\ Head(es).kind # "answer" => Head(es).n =< m
<1> DEFINE t == Tail(es)
<1>1. /\ Len(es) \in Nat \ {0} /\ DOMAIN es = 1..Len(es) /\ Head(es) = es[1]
      /\ DOMAIN t = 1..(Len(es) - 1)
      /\ \A i \in 1..(Len(es) - 1) : t[i] = es[i + 1]
      /\ \A i \in DOMAIN es : es[i] \in Job
  OBVIOUS
<1>2. \A i \in DOMAIN t : i + 1 \in DOMAIN es /\ t[i] = es[i + 1] /\ 1 < i + 1 /\ i \in Nat
  BY <1>1
<1>3. 1 \in DOMAIN es
  BY <1>1
<1>4. \A j \in Job : j.n \in Nat
  BY DEF Job
<1> HIDE DEF t
<1>5. InTurn(t)
  BY <1>2 DEF InTurn
<1>6. UpTo(t, m) /\ AskingIn(t) \subseteq AskingIn(es)
  BY <1>2 DEF UpTo, AskingIn
<1>7. ASSUME NEW bs \in Seq(Job), CancelsFirst(es, bs) PROVE CancelsFirst(t, bs)
  BY <1>2, <1>7 DEF CancelsFirst
<1>8. ASSUME Head(es).kind \in Cancelling PROVE Above(AskingIn(t), Head(es).n)
  <2> SUFFICES ASSUME NEW i \in DOMAIN t, t[i].kind \in Asking PROVE t[i].n > Head(es).n
    BY DEF Above, AskingIn
  <2>1. es[1].n < es[i + 1].n
    BY <1>1, <1>2, <1>3, <1>8 DEF InTurn
  <2>2. es[1].n \in Nat /\ es[i + 1].n \in Nat
    BY <1>1, <1>2, <1>3, <1>4
  <2> QED
    BY <1>1, <1>2, <2>1, <2>2
<1>9. ASSUME Head(es).kind \in Cancelling, NEW bs \in Seq(Job), CancelsFirst(es, bs)
      PROVE  Above(AskingIn(bs), Head(es).n)
  <2> SUFFICES ASSUME NEW i \in DOMAIN bs, bs[i].kind \in Asking PROVE bs[i].n > Head(es).n
    BY DEF Above, AskingIn
  <2>1. es[1].n < bs[i].n
    BY <1>1, <1>3, <1>9 DEF CancelsFirst
  <2>2. bs[i] \in Job
    OBVIOUS
  <2>3. es[1].n \in Nat /\ bs[i].n \in Nat
    BY <1>1, <1>3, <1>4, <2>2
  <2> QED
    BY <1>1, <2>1, <2>3
<1>10. Head(es).kind # "answer" => Head(es).n =< m
  BY <1>1, <1>3 DEF UpTo
<1> QED
  BY <1>5, <1>6, <1>7, <1>8, <1>9, <1>10 DEF t

\* Of an event behind the others, which are not younger.
LEMMA InTurnAppend ==
  ASSUME NEW es \in Seq(Job), NEW e \in Job, InTurn(es), NEW m \in Nat, UpTo(es, m), e.n =< m,
         e.kind \in Asking => \A i \in DOMAIN es : es[i].kind # "answer" => es[i].n < e.n
  PROVE  /\ Append(es, e) \in Seq(Job) /\ InTurn(Append(es, e)) /\ UpTo(Append(es, e), m)
         /\ AskingIn(Append(es, e)) \subseteq
              AskingIn(es) \cup (IF e.kind \in Asking THEN {e.n} ELSE {})
<1> DEFINE t == Append(es, e)
<1>1. /\ Len(es) \in Nat /\ DOMAIN es = 1..Len(es) /\ DOMAIN t = 1..(Len(es) + 1)
      /\ t \in Seq(Job) /\ \A i \in 1..Len(es) : t[i] = es[i]
      /\ t[Len(es) + 1] = e
  OBVIOUS
<1>2. \A i \in DOMAIN t : (i = Len(es) + 1 /\ t[i] = e) \/ (i \in DOMAIN es /\ t[i] = es[i])
  BY <1>1
<1>3. \A i, j \in DOMAIN t : i < j => i \in DOMAIN es
  BY <1>1
<1> HIDE DEF t
<1>4. InTurn(t)
  <2> SUFFICES ASSUME NEW i \in DOMAIN t, NEW j \in DOMAIN t, i < j,
                      t[i].kind \in Cancelling, t[j].kind \in Asking
               PROVE  t[i].n < t[j].n
    BY DEF InTurn
  <2>1. i \in DOMAIN es
    BY <1>3
  <2>2. t[i] = es[i]
    BY <1>1, <2>1
  <2>3. CASE j \in DOMAIN es /\ t[j] = es[j]
    BY <2>1, <2>2, <2>3 DEF InTurn
  <2>4. CASE t[j] = e
    BY <2>1, <2>2, <2>4 DEF Cancelling
  <2> QED
    BY <1>2, <2>3, <2>4
<1>5. UpTo(t, m)
  BY <1>2 DEF UpTo
<1>6. AskingIn(t) \subseteq AskingIn(es) \cup (IF e.kind \in Asking THEN {e.n} ELSE {})
  BY <1>2 DEF AskingIn
<1> QED
  BY <1>1, <1>4, <1>5, <1>6 DEF t


\* Events that are put in keep their turn, also when compaction makes room.
LEMMA WithInTurn ==
  ASSUME IInv, InTurn(events), UpTo(events, parsed),
         NEW e \in Job, e.kind # "answer", parsed =< e.n, e.kind \in Asking => parsed < e.n
  PROVE  /\ With(e) \in Seq(Job) /\ InTurn(With(e)) /\ UpTo(With(e), e.n)
         /\ AskingIn(With(e)) \subseteq
              AskingIn(events) \cup (IF e.kind \in Asking THEN {e.n} ELSE {})
<1> DEFINE Kept(t) == /\ t \in Seq(Job) /\ InTurn(t) /\ UpTo(t, e.n)
                      /\ AskingIn(t) \subseteq
                           AskingIn(events) \cup (IF e.kind \in Asking THEN {e.n} ELSE {})
<1>1. events \in Seq(Job) /\ parsed \in Nat /\ e.n \in Nat
  BY DEF IInv, Typed, Job
<1>2. ASSUME NEW es \in Seq(Job), UpTo(es, parsed)
      PROVE  /\ UpTo(es, e.n)
             /\ e.kind \in Asking => \A i \in DOMAIN es : es[i].kind # "answer" => es[i].n < e.n
  <2>1. \A i \in DOMAIN es : es[i] \in Job
    OBVIOUS
  <2>2. \A i \in DOMAIN es : es[i].n \in Nat
    BY <2>1 DEF Job
  <2> QED
    BY <1>1, <1>2, <2>2 DEF UpTo
<1>3. Kept(events)
  BY <1>1, <1>2
<1>4. Kept(Append(events, e))
  <2>1. e.n =< e.n /\ UpTo(events, e.n)
    BY <1>1, <1>2
  <2>2. e.kind \in Asking => \A i \in DOMAIN events : events[i].kind # "answer" => events[i].n < e.n
    BY <1>1, <1>2
  <2> QED
    BY <1>1, <2>1, <2>2, InTurnAppend
<1>5. /\ Compacted \in Seq(Job) /\ InTurn(Compacted) /\ UpTo(Compacted, parsed)
      /\ AskingIn(Compacted) = {}
  <2>1. \/ Compacted = <<>>
        \/ Compacted = <<Entry("reset", parsed)>>
        \/ Compacted = <<Entry("overflow", 0)>>
    BY DEF Compacted
  <2>2. <<>> \in Seq(Job) /\ InTurn(<<>>) /\ UpTo(<<>>, parsed) /\ AskingIn(<<>>) = {}
    BY DEF InTurn, UpTo, AskingIn
  <2>3. ASSUME NEW f \in Job, f.kind \in Cancelling, f.n =< parsed
        PROVE  <<f>> \in Seq(Job) /\ InTurn(<<f>>) /\ UpTo(<<f>>, parsed) /\ AskingIn(<<f>>) = {}
    <3>1. f.kind \notin Asking
      BY <2>3 DEF Cancelling, Asking
    <3> QED
      BY <2>3, <3>1 DEF InTurn, UpTo, AskingIn
  <2>4. /\ Entry("reset", parsed) \in Job /\ Entry("reset", parsed).kind \in Cancelling
        /\ Entry("reset", parsed).n =< parsed
    BY <1>1 DEF Entry, Job, Cancelling
  <2>5. /\ Entry("overflow", 0) \in Job /\ Entry("overflow", 0).kind \in Cancelling
        /\ Entry("overflow", 0).n =< parsed
    BY <1>1 DEF Entry, Job, Cancelling
  <2>6. CASE Compacted = <<>>
    BY <2>2, <2>6
  <2>7. CASE Compacted = <<Entry("reset", parsed)>>
    BY <2>3, <2>4, <2>7
  <2>8. CASE Compacted = <<Entry("overflow", 0)>>
    BY <2>3, <2>5, <2>8
  <2> QED
    BY <2>1, <2>6, <2>7, <2>8
<1>6. ASSUME NEW f \in Job, f.n = e.n, f.kind \in Asking => e.kind \in Asking,
             f.kind # "answer"
      PROVE  Kept(Append(Compacted, f))
  <2>1. f.n =< e.n /\ UpTo(Compacted, e.n)
    BY <1>1, <1>2, <1>5, <1>6
  <2>2. f.kind \in Asking =>
          \A i \in DOMAIN Compacted : Compacted[i].kind # "answer" => Compacted[i].n < f.n
    BY <1>2, <1>5, <1>6
  <2>3. /\ Append(Compacted, f) \in Seq(Job) /\ InTurn(Append(Compacted, f))
        /\ UpTo(Append(Compacted, f), e.n)
        /\ AskingIn(Append(Compacted, f)) \subseteq
             AskingIn(Compacted) \cup (IF f.kind \in Asking THEN {f.n} ELSE {})
    BY <1>1, <1>5, <2>1, <2>2, InTurnAppend
  <2> QED
    BY <1>5, <1>6, <2>3
<1>7. Kept(Append(Compacted, e))
  BY <1>6
<1>8. Kept(Append(Compacted, Entry("overflow", e.n)))
  <2>1. /\ Entry("overflow", e.n) \in Job /\ Entry("overflow", e.n).n = e.n
        /\ Entry("overflow", e.n).kind \notin Asking
        /\ Entry("overflow", e.n).kind # "answer"
    BY <1>1 DEF Entry, Job, Asking
  <2> QED
    BY <1>6, <2>1
<1>9. \/ With(e) = Append(events, e)
      \/ With(e) = Append(Compacted, e)
      \/ With(e) = Append(Compacted, Entry("overflow", e.n))
      \/ With(e) = events
  BY DEF With
<1>10. Kept(With(e))
  <2> HIDE DEF Kept
  <2> QED
    BY <1>3, <1>4, <1>7, <1>8, <1>9
<1> QED
  BY <1>10

\* A batch of events that is taken keeps its turn, and what is left comes after it.
LEMMA InTurnSplit ==
  ASSUME NEW es \in Seq(Job), NEW k \in 0..Len(es), InTurn(es), NEW m, UpTo(es, m)
  PROVE  LET a == SubSeq(es, 1, k)
             b == SubSeq(es, k + 1, Len(es))
         IN  /\ InTurn(a) /\ InTurn(b) /\ CancelsFirst(a, b) /\ UpTo(a, m) /\ UpTo(b, m)
             /\ AskingIn(a) \subseteq AskingIn(es) /\ AskingIn(b) \subseteq AskingIn(es)
<1> DEFINE a == SubSeq(es, 1, k)
           b == SubSeq(es, k + 1, Len(es))
<1>1. /\ Len(es) \in Nat /\ k \in Nat /\ k =< Len(es) /\ DOMAIN es = 1..Len(es)
      /\ DOMAIN a = 1..k /\ DOMAIN b = 1..(Len(es) - k)
      /\ \A i \in 1..k : a[i] = es[i]
      /\ \A i \in 1..(Len(es) - k) : b[i] = es[k + i]
  OBVIOUS
<1>2. \A i \in DOMAIN a : i \in DOMAIN es /\ a[i] = es[i] /\ i \in Nat /\ i =< k
  BY <1>1
<1>3. \A i \in DOMAIN b : k + i \in DOMAIN es /\ b[i] = es[k + i] /\ i \in Nat /\ k < k + i
  BY <1>1
<1> HIDE DEF a, b
<1>4. InTurn(a) /\ UpTo(a, m) /\ AskingIn(a) \subseteq AskingIn(es)
  BY <1>2 DEF InTurn, UpTo, AskingIn
<1>5. UpTo(b, m) /\ AskingIn(b) \subseteq AskingIn(es)
  BY <1>3 DEF UpTo, AskingIn
<1>6. InTurn(b)
  <2> SUFFICES ASSUME NEW i \in DOMAIN b, NEW j \in DOMAIN b, i < j,
                      b[i].kind \in Cancelling, b[j].kind \in Asking
               PROVE  b[i].n < b[j].n
    BY DEF InTurn
  <2>1. k + i < k + j
    BY <1>1, <1>3
  <2> QED
    BY <1>3, <2>1 DEF InTurn
<1>7. CancelsFirst(a, b)
  <2> SUFFICES ASSUME NEW i \in DOMAIN a, NEW j \in DOMAIN b,
                      a[i].kind \in Cancelling, b[j].kind \in Asking
               PROVE  a[i].n < b[j].n
    BY DEF CancelsFirst
  <2>1. i < k + j
    BY <1>1, <1>2, <1>3
  <2> QED
    BY <1>2, <1>3, <2>1 DEF InTurn
<1> QED
  BY <1>4, <1>5, <1>6, <1>7 DEF a, b


\* What keeps the events keeps the rest.
AfterEvents ==
  /\ Above(AskingIn(jobs') \cup AskingIn(events'), resetAt')
  /\ InTurn(jobs') /\ InTurn(events') /\ CancelsFirst(jobs', events')
  /\ UpTo(jobs', parsed') /\ UpTo(events', parsed') /\ resetAt' =< parsed'

\* New output is younger than every reset that is known.
LEMMA PutAfterReset ==
  ASSUME IInv, AfterReset, resetAt \in Nat, UNCHANGED <<jobs, resetAt>>,
         parsed' \in Nat, parsed =< parsed',
         \/ UNCHANGED events
         \/ \E e \in Job : /\ events' = With(e) /\ e.kind # "answer" /\ e.n = parsed'
                           /\ e.kind \in Asking => parsed < e.n
  PROVE  AfterEvents
<1>0. /\ parsed \in Nat /\ jobs \in Seq(Job) /\ events \in Seq(Job)
      /\ \A i \in DOMAIN jobs : jobs[i] \in Job
      /\ \A i \in DOMAIN events : events[i] \in Job
      /\ \A j \in Job : j.n \in Nat
  <2>1. parsed \in Nat /\ jobs \in Seq(Job) /\ events \in Seq(Job)
    BY DEF IInv, Typed
  <2>2. \A j \in Job : j.n \in Nat
    BY DEF Job
  <2> QED
    BY <2>1, <2>2
<1>1. UpTo(jobs, parsed') /\ UpTo(events, parsed') /\ resetAt =< parsed'
  <2>1. /\ \A i \in DOMAIN jobs : jobs[i].n \in Nat
        /\ \A i \in DOMAIN events : events[i].n \in Nat
    BY <1>0
  <2>2. UpTo(jobs, parsed')
    BY <1>0, <2>1 DEF AfterReset, UpTo
  <2>3. UpTo(events, parsed')
    BY <1>0, <2>1 DEF AfterReset, UpTo
  <2> QED
    BY <1>0, <2>2, <2>3 DEF AfterReset
<1>2. CASE UNCHANGED events
  BY <1>1, <1>2 DEF AfterReset, AfterEvents, Above
<1>3. CASE \E e \in Job : /\ events' = With(e) /\ e.kind # "answer" /\ e.n = parsed'
                          /\ e.kind \in Asking => parsed < e.n
  <2>1. PICK e \in Job : /\ events' = With(e) /\ e.kind # "answer" /\ e.n = parsed'
                         /\ e.kind \in Asking => parsed < e.n
    BY <1>3
  <2>2. /\ InTurn(events') /\ UpTo(events', parsed') /\ events' \in Seq(Job)
        /\ AskingIn(events') \subseteq
             AskingIn(events) \cup (IF e.kind \in Asking THEN {e.n} ELSE {})
    BY <2>1, WithInTurn DEF AfterReset
  <2>3. Above(AskingIn(events'), resetAt)
    <3>1. e.kind \in Asking => e.n > resetAt
      BY <1>0, <2>1 DEF AfterReset
    <3> QED
      BY <2>2, <3>1 DEF AfterReset, Above
  <2>4. CancelsFirst(jobs, events')
    <3> SUFFICES ASSUME NEW i \in DOMAIN jobs, NEW j \in DOMAIN events',
                        jobs[i].kind \in Cancelling, events'[j].kind \in Asking
                 PROVE  jobs[i].n < events'[j].n
      BY DEF CancelsFirst
    <3>1. events'[j].n \in AskingIn(events')
      BY DEF AskingIn
    <3>2. CASE events'[j].n \in AskingIn(events)
      BY <3>2 DEF AfterReset, CancelsFirst, AskingIn
    <3>3. CASE e.kind \in Asking /\ events'[j].n = e.n
      <4>1. jobs[i].n =< parsed /\ jobs[i].n \in Nat
        BY <1>0 DEF AfterReset, UpTo, Cancelling
      <4> QED
        BY <1>0, <2>1, <3>3, <4>1
    <3> QED
      BY <2>2, <3>1, <3>2, <3>3
  <2> QED
    BY <1>1, <2>2, <2>3, <2>4 DEF AfterReset, AfterEvents, Above
<1> QED
  BY <1>2, <1>3

\* No step lets a request that was made before a reset be answered after it.
LEMMA AfterResetStep ==
  ASSUME RepliesAssumption, Base, Types, AfterReset, [Next]_vars
  PROVE  AfterReset'
<1>0. /\ IInv /\ WorkTyped /\ jobs \in Seq(Job) /\ events \in Seq(Job) /\ slots \in Seq(SlotType)
      /\ parsed \in Nat /\ resetAt \in Nat /\ queue \in Seq(Work)
      /\ AskedFor(slots') \subseteq AskedFor(slots) \cup AskingIn(jobs)
  <2>1. Moves(AskedFor(slots) \cup AskingIn(jobs))
    BY MovesStep DEF Base
  <2> QED
    BY <2>1 DEF Base, IInv, Typed, Types, ControlTyped, WorkTyped, Moves
<1>1. ASSUME AfterEvents, resetAt' = resetAt PROVE AfterReset'
  <2>1. Above(AskedFor(slots'), resetAt)
    BY <1>0 DEF AfterReset, Above
  <2> QED
    BY <1>1, <2>1 DEF AfterReset, AfterEvents, Above
<1>2. ASSUME UNCHANGED <<events, jobs, parsed, resetAt>> PROVE AfterReset'
  <2>1. AfterEvents
    BY <1>2 DEF AfterReset, AfterEvents, Above
  <2> QED
    BY <1>1, <1>2, <2>1
<1>3. CASE ProgramStep
  <2>1. UNCHANGED <<jobs, resetAt>> /\ parsed' = parsed + 1
    BY <1>3 DEF ProgramStep, ParseQuery, ParseLoad, ParseKitty, ParseReset, ParseUpload,
                Parses, FeederOnly
  <2>2. \/ UNCHANGED events
        \/ \E kind \in {"load", "kitty", "reply", "reset", "overflow"} :
             events' = With(Entry(kind, parsed'))
    BY <1>3 DEF ProgramStep, ParseQuery, ParseLoad, ParseKitty, ParseReset, ParseUpload,
                Queries, Put
  <2>3. parsed' \in Nat /\ parsed =< parsed' /\ parsed < parsed'
    BY <1>0, <2>1
  <2>4. \A kind \in {"load", "kitty", "reply", "reset", "overflow"} :
          /\ Entry(kind, parsed') \in Job /\ Entry(kind, parsed').kind # "answer"
          /\ Entry(kind, parsed').n = parsed'
    BY <2>3 DEF Entry, Job
  <2>5. AfterEvents
    <3>1. CASE UNCHANGED events
      BY <1>0, <2>1, <2>3, <3>1, PutAfterReset
    <3>2. CASE \E kind \in {"load", "kitty", "reply", "reset", "overflow"} :
                 events' = With(Entry(kind, parsed'))
      BY <1>0, <2>1, <2>3, <2>4, <3>2, PutAfterReset
    <3> QED
      BY <2>2, <3>1, <3>2
  <2> QED
    BY <1>1, <2>1, <2>5
<1>4. CASE Commit
  <2>1. UNCHANGED <<jobs, resetAt, parsed>>
    BY <1>4 DEF Commit, FeederOnly
  <2>2. UNCHANGED events \/ events' = With(Entry("reply", parsed))
    BY <1>4 DEF Commit, Put
  <2>3. /\ Entry("reply", parsed) \in Job /\ Entry("reply", parsed).kind # "answer"
        /\ Entry("reply", parsed).n = parsed' /\ Entry("reply", parsed).kind \notin Asking
        /\ parsed =< parsed' /\ parsed' \in Nat
    BY <1>0, <2>1 DEF Entry, Job, Asking
  <2>4. AfterEvents
    BY <1>0, <2>1, <2>2, <2>3, PutAfterReset
  <2> QED
    BY <1>1, <2>1, <2>4
<1>5. CASE EndSlice \/ Notify \/ Timeout \/ Expire \/ Release \/ OtherWork
  BY <1>2, <1>5 DEF EndSlice, Notify, Timeout, Expire, Release, OtherWork, FeederOnly, feeding
<1>6. CASE Attach \/ PassDeadline \/ UNCHANGED vars \/ \E v : Detach(v) \/ Answer(v)
  BY <1>2, <1>6 DEF Attach, PassDeadline, Detach, Answer, ViewsOnly, vars, feeding
<1>7. CASE Receive
  <2>1. /\ queue # <<>> /\ UNCHANGED <<events, parsed, resetAt>>
        /\ jobs' = <<>> \/ (jobs' = <<Head(queue)>> /\ Head(queue).kind = "answer")
    BY <1>7 DEF Receive, feeding
  <2>2. AskingIn(jobs') = {} /\ InTurn(jobs') /\ UpTo(jobs', parsed) /\ CancelsFirst(jobs', events)
    <3>1. \A i \in DOMAIN jobs' : jobs'[i].kind = "answer"
      BY <2>1
    <3> QED
      BY <3>1 DEF AskingIn, InTurn, UpTo, CancelsFirst, Asking, Cancelling
  <2>3. AfterEvents
    BY <2>1, <2>2 DEF AfterReset, AfterEvents, Above
  <2> QED
    BY <1>1, <2>1, <2>3
<1>8. CASE TakeEvents
  <2> DEFINE k == IF Len(events) < EventBatch THEN Len(events) ELSE EventBatch
  <2>1. /\ jobs' = SubSeq(events, 1, k) /\ events' = SubSeq(events, k + 1, Len(events))
        /\ UNCHANGED <<parsed, resetAt>>
    BY <1>8 DEF TakeEvents, feeding
  <2>2. k \in 0..Len(events)
    BY <1>0 DEF RepliesAssumption
  <2> HIDE DEF k
  <2>3. /\ InTurn(jobs') /\ InTurn(events') /\ CancelsFirst(jobs', events')
        /\ UpTo(jobs', parsed) /\ UpTo(events', parsed)
        /\ AskingIn(jobs') \subseteq AskingIn(events)
        /\ AskingIn(events') \subseteq AskingIn(events)
    BY <1>0, <2>1, <2>2, InTurnSplit DEF AfterReset
  <2>4. AfterEvents
    BY <2>1, <2>3 DEF AfterReset, AfterEvents, Above
  <2> QED
    BY <1>1, <2>1, <2>4
<1>9. ASSUME jobs # <<>>, jobs' = Tail(jobs)
      PROVE  /\ InTurn(jobs') /\ UpTo(jobs', parsed) /\ AskingIn(jobs') \subseteq AskingIn(jobs)
             /\ CancelsFirst(jobs', events)
             /\ Head(jobs).kind \in Cancelling =>
                  Above(AskingIn(jobs'), Head(jobs).n) /\ Above(AskingIn(events), Head(jobs).n)
             /\ Head(jobs).kind # "answer" => Head(jobs).n =< parsed
  BY <1>0, <1>9, InTurnTail DEF AfterReset
<1>10. CASE Asks \/ Replies \/ Answered
  <2>1. jobs # <<>> /\ jobs' = Tail(jobs) /\ UNCHANGED <<events, parsed, resetAt>>
    BY <1>10 DEF Asks, Replies, Answered, Does, feeding
  <2>2. AfterEvents
    BY <1>9, <2>1 DEF AfterReset, AfterEvents, Above
  <2> QED
    BY <1>1, <2>1, <2>2
<1>11. CASE Cancels
  <2>1. /\ jobs # <<>> /\ jobs' = Tail(jobs) /\ UNCHANGED <<events, parsed>> /\ slots' = <<>>
        /\ Head(jobs).kind \in Cancelling
        /\ resetAt' = IF Head(jobs).n > resetAt THEN Head(jobs).n ELSE resetAt
    BY <1>11 DEF Cancels, Does, feeding, Cancelling
  <2>2. Above(AskingIn(jobs') \cup AskingIn(events), Head(jobs).n) /\ Head(jobs).n =< parsed
    BY <1>9, <2>1 DEF Above, Cancelling
  <2>3. Above(AskingIn(jobs') \cup AskingIn(events), resetAt)
    BY <1>9, <2>1 DEF AfterReset, Above
  <2>4. AskedFor(slots') = {}
    BY <2>1 DEF AskedFor
  <2>5. Above(AskingIn(jobs') \cup AskingIn(events), resetAt') /\ resetAt' =< parsed
    BY <2>1, <2>2, <2>3 DEF AfterReset
  <2> QED
    BY <1>9, <2>1, <2>4, <2>5 DEF AfterReset, Above
<1> QED
  BY <1>3, <1>4, <1>5, <1>6, <1>7, <1>8, <1>10, <1>11 DEF Next, FeederStep, WorkerStep

\* Only the step of a reset moves the mark.
LEMMA OnlyResetsReset ==
  ASSUME [Next]_vars, resetAt' # resetAt
  PROVE  Cancels
BY DEF Next, FeederStep, WorkerStep, ProgramStep, vars, views, bridge, feeding,
       ParseQuery, ParseLoad, ParseKitty, ParseReset, ParseUpload, Parses, FeederOnly,
       Commit, EndSlice, Notify, Receive, Timeout, OtherWork, Expire, TakeEvents, Answered,
       Asks, Replies, Release, Attach, Detach, Answer, PassDeadline, ViewsOnly

\* An answer that the step of a reset writes was held in the slots, as it is.
LEMMA CancelWrites ==
  ASSUME Cancels, sent \in Seq(SlotType), slots \in Seq(SlotType),
         NEW i \in DOMAIN sent' \ DOMAIN sent, sent'[i].what = "clipboard"
  PROVE  \E j \in DOMAIN slots : slots[j] = sent'[i]
<1> DEFINE w(j) == IF slots[j].what = "waiting" THEN Slot(slots[j].n, "nothing") ELSE slots[j]
           t == [j \in DOMAIN slots |-> w(j)]
<1>1. sent' = sent \o t
  BY DEF Cancels
<1>2. t \in Seq(SlotType) /\ Len(t) = Len(slots) /\ DOMAIN slots = 1..Len(slots)
  <2>1. DOMAIN slots = 1..Len(slots) /\ Len(slots) \in Nat
    OBVIOUS
  <2>2. \A j \in 1..Len(slots) : w(j) \in SlotType
    <3>1. TAKE j \in 1..Len(slots)
    <3>2. slots[j] \in SlotType
      BY <2>1
    <3>3. Slot(slots[j].n, "nothing") \in SlotType
      BY <3>2 DEF SlotType, Slot, Outcomes
    <3> QED
      BY <3>2, <3>3
  <2> QED
    BY <2>1, <2>2
<1>3. i \in 1..(Len(sent) + Len(slots)) /\ i > Len(sent) /\ i - Len(sent) \in DOMAIN slots
  BY <1>1, <1>2
<1>4. sent'[i] = w(i - Len(sent))
  BY <1>1, <1>2, <1>3
<1>5. slots[i - Len(sent)].what # "waiting"
  BY <1>4 DEF Slot
<1> QED
  BY <1>3, <1>4, <1>5

\* From a reset on no answer that comes is written for a request made before it:
\* the requests that wait are cancelled, and those in the queues behind a reset are
\* younger, also when `compact_saturated_events' queues it anew.  What the step of
\* the reset writes was in the slots, answered, before it.
THEOREM ResetKept ==
  ASSUME RepliesAssumption
  PROVE  Spec => ResetForgets
<1>1. Init => Base /\ Types /\ AfterReset
  <2>1. ASSUME Init PROVE AfterReset
    <3>1. AskedFor(<<>>) = {} /\ AskingIn(<<>>) = {} /\ InTurn(<<>>) /\ CancelsFirst(<<>>, <<>>)
      BY DEF AskedFor, AskingIn, InTurn, CancelsFirst
    <3>2. UpTo(<<>>, 0)
      BY DEF UpTo
    <3> QED
      BY <2>1, <3>1, <3>2 DEF Init, AfterReset, Above
  <2> QED
    BY <2>1, InitTypes
<1>2. Base /\ Types /\ AfterReset /\ [Next]_vars => (Base /\ Types /\ AfterReset)'
  BY TypesStep, AfterResetStep
<1>3. Base /\ AfterReset /\ [Next]_vars =>
        [\A i \in DOMAIN sent' \ DOMAIN sent :
            sent'[i].what = "clipboard" =>
              \/ sent'[i].n > resetAt'
              \/ resetAt' # resetAt /\ \E j \in DOMAIN slots : slots[j] = sent'[i]]_vars
  <2> SUFFICES ASSUME Base, AfterReset, [Next]_vars, NEW i \in DOMAIN sent' \ DOMAIN sent,
                      sent'[i].what = "clipboard"
               PROVE  \/ sent'[i].n > resetAt'
                      \/ resetAt' # resetAt /\ \E j \in DOMAIN slots : slots[j] = sent'[i]
    OBVIOUS
  <2>1. Moves(AskedFor(slots) \cup AskingIn(jobs))
    BY MovesStep DEF Base
  <2>2. PICK t \in Seq(Reply) : sent' = sent \o t /\ AskedFor(t) \subseteq AskedFor(slots) \cup AskingIn(jobs)
    BY <2>1 DEF Moves
  <2>3. \E j \in DOMAIN t : sent'[i] = t[j]
    <3>1. /\ Len(sent) \in Nat /\ DOMAIN sent = 1..Len(sent) /\ Len(t) \in Nat
          /\ sent \in Seq(SlotType)
      BY DEF Base, IInv, Typed
    <3>2. /\ DOMAIN sent' = 1..(Len(sent) + Len(t))
          /\ \A a \in 1..(Len(sent) + Len(t)) : a > Len(sent) => sent'[a] = t[a - Len(sent)]
      BY <2>2, <3>1
    <3>3. i \in 1..(Len(sent) + Len(t)) /\ i > Len(sent) /\ i - Len(sent) \in 1..Len(t)
      BY <3>1, <3>2
    <3> QED
      BY <3>1, <3>2, <3>3
  <2>4. sent'[i].n \in AskedFor(t)
    BY <2>3 DEF AskedFor
  <2>5. sent'[i].n > resetAt
    BY <2>2, <2>4 DEF AfterReset, Above
  <2>6. CASE resetAt' = resetAt
    BY <2>5, <2>6
  <2>7. CASE resetAt' # resetAt
    <3>1. Cancels
      BY <2>7, OnlyResetsReset
    <3>2. \E j \in DOMAIN slots : slots[j] = sent'[i]
      BY <3>1, CancelWrites DEF Base, IInv, Typed
    <3> QED
      BY <2>7, <3>2
  <2> QED
    BY <2>6, <2>7
<1> QED
  BY <1>1, <1>2, <1>3, PTL DEF Spec, ResetForgets
=============================================================================
