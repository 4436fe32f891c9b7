-------------------------- MODULE FrameStreamProofs --------------------------
(***************************************************************************)
(* Proofs about a stream, whatever is paused and resumed, in whatever order  *)
(* the worker and the threads of the host take their steps, and through      *)
(* streams that end and are opened again: a hidden view gets no frames, as   *)
(* the confirmations stay in order with them; and while every state fits,    *)
(* each frame does, and the caches of host and client agree.                 *)
(***************************************************************************)
EXTENDS FrameStream, SequenceTheorems, FiniteSetTheorems, TLAPS

Requests == {Resync} \cup [kind : {"setPaused"}, paused : BOOLEAN]

\* The types the argument needs.
Typed ==
    /\ paused \in BOOLEAN
    /\ pending \in [paused : BOOLEAN, acknowledge : BOOLEAN \cup {Nothing},
                    state : BOOLEAN, resync : BOOLEAN, resume : BOOLEAN]
    /\ link \in [open : BOOLEAN, disconnected : BOOLEAN, confirmed : BOOLEAN,
                 resubscribed : BOOLEAN, shown : BOOLEAN, short : Nat]
    /\ up \in Seq(Requests)
    /\ \E S : down \in Seq(S) /\ \A u \in S : u.kind = "paused" => u.paused \in BOOLEAN

\* The confirmation read last by a client that has read c before the updates d,
\* once it has read those before place n, is v.
LastIs(d, c, n, v) ==
    \/ \E k \in 1..(n - 1) : /\ d[k].kind = "paused" /\ d[k].paused = v
                             /\ \A j \in (k + 1)..(n - 1) : d[j].kind # "paused"
    \/ c = v /\ \A j \in 1..(n - 1) : d[j].kind # "paused"

\* The order of the stream.  The next confirmation tells what the view asked
\* last; when none is due, the last one sent told it.  A frame, in a thread's
\* hands or on its way, follows a confirmation that the view is shown.
Ordered ==
    /\ pending.acknowledge # Nothing => pending.acknowledge = pending.paused
    /\ pending.acknowledge = Nothing =>
           LastIs(down, link.confirmed, Len(down) + 1, pending.paused)
    /\ hand # Nothing => LastIs(down, link.confirmed, Len(down) + 1, FALSE)
    /\ \A i \in 1..Len(down) :
           down[i].kind = "frame" => LastIs(down, link.confirmed, i, FALSE)

\* The invariant.
Invariant ==
    /\ Typed
    /\ link.open => Ordered
    /\ ~link.open => down = <<>> /\ up = <<>> /\ hand = Nothing /\ pending = NewPending

-----------------------------------------------------------------------------
\* Sequences of one and two elements.
LEMMA ShortSeq ==
    ASSUME NEW S, NEW x \in S, NEW y \in S
    PROVE  /\ <<x>> \in Seq(S) /\ \A i \in 1..Len(<<x>>) : <<x>>[i] = x
           /\ <<x, y>> \in Seq(S) /\ \A i \in 1..Len(<<x, y>>) : <<x, y>>[i] \in {x, y}
OBVIOUS

(* What reading and writing the stream does to the last confirmation.       *)

\* Updates that are no confirmations leave the last one as it is.
LEMMA ConcatLast ==
    ASSUME NEW S, NEW d \in Seq(S), NEW t \in Seq(S), NEW c, NEW v,
           \A i \in 1..Len(t) : t[i].kind # "paused"
    PROVE  /\ d \o t \in Seq(S) /\ Len(d \o t) = Len(d) + Len(t)
           /\ \A i \in 1..Len(d) : (d \o t)[i] = d[i]
           /\ \A i \in 1..Len(t) : (d \o t)[Len(d) + i] = t[i]
           /\ \A n \in 1..(Len(d) + 1) : LastIs(d, c, n, v) => LastIs(d \o t, c, n, v)
           /\ LastIs(d, c, Len(d) + 1, v) =>
                  \A n \in (Len(d) + 1)..(Len(d) + Len(t) + 1) : LastIs(d \o t, c, n, v)
<1>1. /\ d \o t \in Seq(S) /\ Len(d \o t) = Len(d) + Len(t)
      /\ Len(d) \in Nat /\ Len(t) \in Nat
      /\ \A i \in 1..(Len(d) + Len(t)) :
             (d \o t)[i] = IF i <= Len(d) THEN d[i] ELSE t[i - Len(d)]
  BY ConcatProperties, LenProperties
<1> DEFINE e == d \o t
<1> HIDE DEF e
<1>2. /\ \A i \in 1..Len(d) : e[i] = d[i]
      /\ \A i \in 1..Len(t) : e[Len(d) + i] = t[i]
      /\ \A i \in (Len(d) + 1)..(Len(d) + Len(t)) : e[i].kind # "paused"
  BY <1>1 DEF e
<1>3. ASSUME NEW n \in 1..(Len(d) + 1), LastIs(d, c, n, v)
      PROVE  LastIs(e, c, n, v)
  <2>1. \A j \in 1..(n - 1) : e[j] = d[j]
    BY <1>1, <1>2
  <2> QED
    BY <1>3, <2>1 DEF LastIs
<1>4. ASSUME LastIs(d, c, Len(d) + 1, v), NEW n \in (Len(d) + 1)..(Len(d) + Len(t) + 1)
      PROVE  LastIs(e, c, n, v)
  <2>1. CASE \E k \in 1..Len(d) : /\ d[k].kind = "paused" /\ d[k].paused = v
                                  /\ \A j \in (k + 1)..Len(d) : d[j].kind # "paused"
    <3>1. PICK k \in 1..Len(d) : /\ d[k].kind = "paused" /\ d[k].paused = v
                                 /\ \A j \in (k + 1)..Len(d) : d[j].kind # "paused"
      BY <2>1
    <3>2. \A j \in (k + 1)..(n - 1) : e[j].kind # "paused"
      BY <1>1, <1>2, <3>1
    <3> QED
      BY <1>1, <1>2, <3>1, <3>2 DEF LastIs
  <2>2. CASE c = v /\ \A j \in 1..Len(d) : d[j].kind # "paused"
    <3>1. \A j \in 1..(n - 1) : e[j].kind # "paused"
      <4>1. ASSUME NEW j \in 1..(n - 1)
            PROVE  j \in 1..Len(d) \/ j \in (Len(d) + 1)..(Len(d) + Len(t))
        BY <1>1
      <4> QED
        BY <1>2, <2>2, <4>1
    <3> QED
      BY <2>2, <3>1 DEF LastIs
  <2> QED
    BY <1>1, <1>4, <2>1, <2>2 DEF LastIs
<1> QED
  BY <1>1, <1>2, <1>3, <1>4 DEF e

\* A confirmation that is sent is the last one.
LEMMA AppendLast ==
    ASSUME NEW S, NEW d \in Seq(S), NEW x \in S, NEW c, x.kind = "paused"
    PROVE  /\ Append(d, x) \in Seq(S) /\ Len(Append(d, x)) = Len(d) + 1
           /\ Append(d, x)[Len(d) + 1] = x
           /\ \A i \in 1..Len(d) : Append(d, x)[i] = d[i]
           /\ \A v : \A n \in 1..(Len(d) + 1) : LastIs(d, c, n, v) => LastIs(Append(d, x), c, n, v)
           /\ LastIs(Append(d, x), c, Len(d) + 2, x.paused)
<1> DEFINE e == Append(d, x)
<1>1. /\ e \in Seq(S) /\ Len(e) = Len(d) + 1 /\ Len(d) \in Nat
      /\ \A i \in 1..Len(d) : e[i] = d[i]
      /\ e[Len(d) + 1] = x
  BY AppendProperties, LenProperties
<1> HIDE DEF e
<1>2. ASSUME NEW n \in 1..(Len(d) + 1), NEW v, LastIs(d, c, n, v)
      PROVE  LastIs(e, c, n, v)
  BY <1>1, <1>2 DEF LastIs
<1>3. LastIs(e, c, Len(d) + 2, x.paused)
  <2>1. Len(d) + 1 \in 1..(Len(d) + 2 - 1)
    BY <1>1
  <2>2. \A j \in (Len(d) + 1 + 1)..(Len(d) + 2 - 1) : e[j].kind # "paused"
    BY <1>1
  <2> QED
    BY <1>1, <2>1, <2>2 DEF LastIs
<1> QED
  BY <1>1, <1>2, <1>3 DEF e

\* Reading an update moves a confirmation from the stream to the client.
LEMMA TailLast ==
    ASSUME NEW S, NEW d \in Seq(S), d # <<>>, NEW c, NEW v,
           NEW n \in 2..(Len(d) + 1), LastIs(d, c, n, v)
    PROVE  LastIs(Tail(d), IF Head(d).kind = "paused" THEN Head(d).paused ELSE c, n - 1, v)
<1> DEFINE e == Tail(d)
           b == IF Head(d).kind = "paused" THEN Head(d).paused ELSE c
<1>1. /\ Len(d) \in Nat /\ Len(e) = Len(d) - 1
      /\ \A i \in 1..(Len(d) - 1) : e[i] = d[i + 1]
      /\ Head(d) = d[1]
  BY HeadTailProperties, LenProperties
<1>4. b = IF d[1].kind = "paused" THEN d[1].paused ELSE c
  BY <1>1
<1> HIDE DEF e, b
<1>2. CASE \E k \in 1..(n - 1) : /\ d[k].kind = "paused" /\ d[k].paused = v
                                 /\ \A j \in (k + 1)..(n - 1) : d[j].kind # "paused"
  <2>1. PICK k \in 1..(n - 1) : /\ d[k].kind = "paused" /\ d[k].paused = v
                                /\ \A j \in (k + 1)..(n - 1) : d[j].kind # "paused"
    BY <1>2
  <2>2. \A j \in k..(n - 2) : e[j].kind # "paused"
    BY <1>1, <2>1
  <2>3. CASE k = 1
    BY <1>1, <1>4, <2>1, <2>2, <2>3 DEF LastIs
  <2>4. CASE k # 1
    <3>1. PICK m \in 1..(n - 1 - 1) : m = k - 1 /\ e[m] = d[k]
      BY <1>1, <2>1, <2>4
    <3>2. e[m].kind = "paused" /\ e[m].paused = v
      BY <2>1, <3>1
    <3>3. \A j \in (m + 1)..(n - 1 - 1) : e[j].kind # "paused"
      BY <2>2, <3>1
    <3>4. \E i \in 1..(n - 1 - 1) : /\ e[i].kind = "paused" /\ e[i].paused = v
                                   /\ \A j \in (i + 1)..(n - 1 - 1) : e[j].kind # "paused"
      BY <3>2, <3>3
    <3> QED
      BY <3>4 DEF LastIs
  <2> QED
    BY <2>3, <2>4
<1>3. CASE c = v /\ \A j \in 1..(n - 1) : d[j].kind # "paused"
  BY <1>1, <1>3, <1>4 DEF LastIs
<1>5. \/ \E k \in 1..(n - 1) : /\ d[k].kind = "paused" /\ d[k].paused = v
                               /\ \A j \in (k + 1)..(n - 1) : d[j].kind # "paused"
      \/ c = v /\ \A j \in 1..(n - 1) : d[j].kind # "paused"
  BY DEF LastIs
<1> QED
  BY <1>2, <1>3, <1>5 DEF e, b

-----------------------------------------------------------------------------
LEMMA InitInvariant == Init => Invariant
<1> SUFFICES ASSUME Init PROVE Invariant
  OBVIOUS
<1>1. pending = NewPending /\ down = <<>> /\ up = <<>> /\ paused = FALSE /\ hand = Nothing
      /\ link = [open |-> TRUE, disconnected |-> FALSE, confirmed |-> FALSE,
                 resubscribed |-> FALSE, shown |-> FALSE, short |-> 0]
  BY DEF Init
<1>2. Typed
  <2>1. down \in Seq({}) /\ up \in Seq(Requests)
    BY <1>1
  <2>2. pending \in [paused : BOOLEAN, acknowledge : BOOLEAN \cup {Nothing},
                     state : BOOLEAN, resync : BOOLEAN, resume : BOOLEAN]
    BY <1>1 DEF NewPending
  <2>3. link \in [open : BOOLEAN, disconnected : BOOLEAN, confirmed : BOOLEAN,
                  resubscribed : BOOLEAN, shown : BOOLEAN, short : Nat]
    BY <1>1
  <2>4. \E S : down \in Seq(S) /\ \A u \in S : u.kind = "paused" => u.paused \in BOOLEAN
    <3> WITNESS {}
    <3> QED
      BY <2>1
  <2> QED
    BY <1>1, <2>1, <2>2, <2>3, <2>4, Zenon DEF Typed
<1>3. Ordered
  BY <1>1 DEF Ordered, LastIs, NewPending
<1> QED
  BY <1>1, <1>2, <1>3 DEF Invariant

\* A stream that ends, or one opened anew, has nothing in it.
LEMMA EndStreamInvariant ==
    ASSUME Invariant, NEW protocol \in BOOLEAN, EndStream(protocol), UNCHANGED paused
    PROVE  Invariant'
<1> DEFINE short == IF link.shown THEN 0
                    ELSE IF link.short < Unhealthy THEN link.short + 1 ELSE Unhealthy
           cut == link.disconnected \/ protocol \/ short = Unhealthy
<1>1. /\ down' = <<>> /\ up' = <<>> /\ hand' = Nothing /\ pending' = NewPending
      /\ link' = [link EXCEPT !.open = FALSE, !.short = short, !.disconnected = cut]
  BY DEF EndStream
<1>2. short \in Nat
  BY FrameAssumption DEF Invariant, Typed
<1>3. cut \in BOOLEAN
  BY DEF Invariant, Typed
<1> HIDE DEF short, cut
<1>4. /\ link'.open = FALSE
      /\ link' \in [open : BOOLEAN, disconnected : BOOLEAN, confirmed : BOOLEAN,
                    resubscribed : BOOLEAN, shown : BOOLEAN, short : Nat]
  BY <1>1, <1>2, <1>3 DEF Invariant, Typed
<1>5. down' \in Seq({}) /\ up' \in Seq(Requests)
  BY <1>1
<1>6. pending' \in [paused : BOOLEAN, acknowledge : BOOLEAN \cup {Nothing},
                    state : BOOLEAN, resync : BOOLEAN, resume : BOOLEAN]
  BY <1>1 DEF NewPending
<1>7. Typed'
  BY <1>4, <1>5, <1>6 DEF Invariant, Typed
<1> QED
  BY <1>1, <1>4, <1>7 DEF Invariant, NewPending

LEMMA ResubscribeInvariant ==
    ASSUME Invariant, Resubscribe
    PROVE  Invariant'
<1>1. /\ down = <<>> /\ hand = Nothing /\ pending = NewPending
      /\ UNCHANGED <<down, hand, pending, paused>>
      /\ up' = IF paused THEN <<SetPaused(TRUE)>> ELSE <<>>
      /\ link' = [link EXCEPT !.open = TRUE, !.confirmed = FALSE,
                              !.resubscribed = TRUE, !.shown = FALSE]
  BY DEF Resubscribe, Invariant
<1>2. up' \in Seq(Requests)
  <2>1. SetPaused(TRUE) \in Requests
    BY DEF Requests, SetPaused
  <2>2. CASE paused
    <3>1. up' = <<SetPaused(TRUE)>>
      BY <1>1, <2>2
    <3> QED
      BY <2>1, <3>1, ShortSeq
  <2>3. CASE ~paused
    <3>1. up' = <<>>
      BY <1>1, <2>3
    <3> QED
      BY <3>1
  <2> QED
    BY <2>2, <2>3
<1>3. Typed'
  BY <1>1, <1>2 DEF Typed, Invariant
<1>4. Ordered'
  BY <1>1 DEF Ordered, LastIs, NewPending, Invariant, Typed
<1> QED
  BY <1>1, <1>3, <1>4 DEF Invariant, Typed

-----------------------------------------------------------------------------
(* The host's steps.                                                       *)

\* A step of the host that neither writes to the stream nor pauses keeps it in
\* order.
LEMMA QuietStep ==
    ASSUME Invariant, link.open, UNCHANGED <<down, link, paused>>,
           pending' \in [paused : BOOLEAN, acknowledge : BOOLEAN \cup {Nothing},
                         state : BOOLEAN, resync : BOOLEAN, resume : BOOLEAN],
           pending'.paused = pending.paused, pending'.acknowledge = pending.acknowledge,
           hand' # Nothing => hand # Nothing \/ (pending.acknowledge = Nothing /\ ~pending.paused),
           up' \in Seq(Requests)
    PROVE  Invariant'
<1>1. Typed'
  BY DEF Invariant, Typed
<1>2. Ordered'
  <2>1. hand' # Nothing => LastIs(down, link.confirmed, Len(down) + 1, FALSE)
    <3>1. CASE pending.acknowledge = Nothing /\ ~pending.paused
      <4>1. pending.paused = FALSE
        BY <3>1 DEF Invariant, Typed
      <4> QED
        BY <3>1, <4>1 DEF Invariant, Ordered
    <3>2. CASE hand # Nothing
      BY <3>2 DEF Invariant, Ordered
    <3> QED
      BY <3>1, <3>2
  <2> QED
    BY <2>1 DEF Invariant, Ordered
<1> QED
  BY <1>1, <1>2 DEF Invariant

LEMMA ReadSetPausedInvariant ==
    ASSUME Invariant, NEW sent \in BOOLEAN, ReadSetPaused(sent)
    PROVE  Invariant'
<1> DEFINE b == Head(up).paused
<1>1. link.open /\ up # <<>> /\ Head(up).kind = "setPaused" /\ up' = Tail(up)
      /\ UNCHANGED <<down, link, paused, hand>>
  BY DEF ReadSetPaused, clientVars
<1>2. Head(up) \in Requests /\ up' \in Seq(Requests)
  BY <1>1, HeadTailProperties DEF Invariant, Typed
<1>3. b \in BOOLEAN
  BY <1>1, <1>2 DEF Requests, Resync
<1>4. CASE pending.paused = b
  <2>1. pending' = pending
    BY <1>4 DEF ReadSetPaused
  <2> QED
    BY <1>1, <1>2, <2>1, QuietStep DEF Invariant, Typed
<1>5. CASE pending.paused # b
  <2>1. pending' = [pending EXCEPT !.paused = b, !.acknowledge = b,
                                   !.resume = @ \/ (~b /\ sent), !.state = ~b /\ ~sent]
    BY <1>5 DEF ReadSetPaused
  <2>2. /\ pending' \in [paused : BOOLEAN, acknowledge : BOOLEAN \cup {Nothing},
                          state : BOOLEAN, resync : BOOLEAN, resume : BOOLEAN]
        /\ pending'.acknowledge = b /\ pending'.paused = b
    BY <1>3, <2>1, ZenonT(60) DEF Invariant, Typed
  <2>3. Typed'
    BY <1>1, <1>2, <2>2 DEF Invariant, Typed
  <2>4. b # Nothing
    BY <1>3, FrameAssumption
  <2>5. Ordered'
    BY <1>1, <2>2, <2>4 DEF Invariant, Ordered
  <2> QED
    BY <1>1, <2>3, <2>5 DEF Invariant
<1> QED
  BY <1>4, <1>5

\* The confirmation that is sent becomes the last one, and is what the view
\* asked last.
LEMMA SendPausedInvariant ==
    ASSUME Invariant, SendPaused
    PROVE  Invariant'
<1> DEFINE x == PausedUpdate(pending.acknowledge)
<1>1. /\ link.open /\ hand = Nothing /\ pending.acknowledge # Nothing
      /\ down' = Append(down, x) /\ pending' = [pending EXCEPT !.acknowledge = Nothing]
      /\ UNCHANGED <<link, paused, hand, up>>
  BY DEF SendPaused, clientVars
<1>2. /\ Typed /\ Ordered /\ pending.acknowledge = pending.paused
      /\ x.kind = "paused" /\ x.paused = pending.paused
  BY <1>1 DEF Invariant, Ordered, PausedUpdate
<1> HIDE DEF x
<1>3. PICK S : down \in Seq(S) /\ \A w \in S : w.kind = "paused" => w.paused \in BOOLEAN
  BY <1>2 DEF Typed
<1> DEFINE T == S \cup {x}
<1>4. /\ down \in Seq(T) /\ x \in T
      /\ \A w \in T : w.kind = "paused" => w.paused \in BOOLEAN
  BY <1>2, <1>3, SeqMonotonic DEF Typed
<1> HIDE DEF T
<1>5. /\ down' \in Seq(T) /\ Len(down') = Len(down) + 1 /\ Len(down) \in Nat
      /\ down'[Len(down) + 1] = x
      /\ \A i \in 1..Len(down) : down'[i] = down[i]
      /\ \A v : \A n \in 1..(Len(down) + 1) :
             LastIs(down, link.confirmed, n, v) => LastIs(down', link.confirmed, n, v)
      /\ LastIs(down', link.confirmed, Len(down) + 2, x.paused)
  BY <1>1, <1>2, <1>4, AppendLast, LenProperties
<1>6. /\ pending' \in [paused : BOOLEAN, acknowledge : BOOLEAN \cup {Nothing},
                        state : BOOLEAN, resync : BOOLEAN, resume : BOOLEAN]
      /\ pending'.acknowledge = Nothing /\ pending'.paused = pending.paused
  BY <1>1, <1>2 DEF Typed
<1>7. Typed'
  BY <1>1, <1>2, <1>4, <1>5, <1>6 DEF Typed
<1>8. Ordered'
  <2>1. LastIs(down', link.confirmed', Len(down') + 1, pending'.paused)
    BY <1>1, <1>2, <1>5, <1>6
  <2>2. ASSUME NEW i \in 1..Len(down'), down'[i].kind = "frame"
        PROVE  LastIs(down', link.confirmed', i, FALSE)
    <3>1. i \in 1..Len(down) /\ down[i].kind = "frame"
      BY <1>2, <1>5, <2>2
    <3>2. LastIs(down, link.confirmed, i, FALSE)
      BY <1>2, <3>1 DEF Ordered
    <3> QED
      BY <1>1, <1>5, <3>1, <3>2
  <2> QED
    BY <1>1, <1>6, <2>1, <2>2 DEF Ordered
<1> QED
  BY <1>1, <1>7, <1>8 DEF Invariant

\* The frame that is sent was taken while the view was shown, and no
\* confirmation was sent since.
LEMMA SendFrameInvariant ==
    ASSUME Invariant, SendFrame
    PROVE  Invariant'
<1>1. PICK t, S : /\ down' = down \o t /\ t \in Seq(S) /\ down \in Seq(S)
                  /\ \A w \in S : w.kind = "paused" => w.paused \in BOOLEAN
                  /\ \A i \in 1..Len(t) : t[i].kind # "paused"
  <2> DEFINE from == IF pending.resync THEN NewEncoder ELSE encoder
             g == Encoded(from.cache, hand.images)
             f == FrameUpdate(hand, Base(from.last, hand), g.evicted)
             u == ImagesUpdate(g.uploads)
             t == IF g.uploads = {} THEN <<f>> ELSE <<u, f>>
  <2>1. down' = down \o t
    BY DEF SendFrame
  <2>2. f.kind # "paused" /\ u.kind # "paused"
    BY DEF FrameUpdate, ImagesUpdate
  <2>3. PICK S : down \in Seq(S) /\ \A w \in S : w.kind = "paused" => w.paused \in BOOLEAN
    BY DEF Invariant, Typed
  <2> HIDE DEF f, u, g
  <2> DEFINE T == S \cup {u, f}
  <2>4. t \in Seq(T) /\ \A i \in 1..Len(t) : t[i] \in {u, f}
    <3>1. u \in T /\ f \in T
      OBVIOUS
    <3> HIDE DEF T
    <3>2. CASE g.uploads = {}
      <4>1. t = <<f>>
        BY <3>2
      <4> HIDE DEF t
      <4> QED
        BY <3>1, <4>1, ShortSeq
    <3>3. CASE g.uploads # {}
      <4>1. t = <<u, f>>
        BY <3>3
      <4> HIDE DEF t
      <4> QED
        BY <3>1, <4>1, ShortSeq
    <3> QED
      BY <3>2, <3>3
  <2>5. down \in Seq(T) /\ \A w \in T : w.kind = "paused" => w.paused \in BOOLEAN
    BY <2>2, <2>3, SeqMonotonic
  <2> HIDE DEF t, T
  <2> QED
    BY <2>1, <2>2, <2>4, <2>5
<1>2. /\ link.open /\ hand # Nothing /\ hand' = Nothing
      /\ pending' = [pending EXCEPT !.resync = FALSE]
      /\ UNCHANGED <<link, paused, up>>
  BY DEF SendFrame, clientVars
<1>3. Typed /\ Ordered
  BY <1>2 DEF Invariant
<1>4. /\ pending' \in [paused : BOOLEAN, acknowledge : BOOLEAN \cup {Nothing},
                        state : BOOLEAN, resync : BOOLEAN, resume : BOOLEAN]
      /\ pending'.acknowledge = pending.acknowledge /\ pending'.paused = pending.paused
  BY <1>2, <1>3 DEF Typed
<1>5. /\ down' \in Seq(S) /\ Len(down') = Len(down) + Len(t)
      /\ Len(down) \in Nat /\ Len(t) \in Nat
      /\ \A i \in 1..Len(down) : down'[i] = down[i]
      /\ \A v : \A n \in 1..(Len(down) + 1) :
             LastIs(down, link.confirmed, n, v) => LastIs(down', link.confirmed, n, v)
      /\ \A v : LastIs(down, link.confirmed, Len(down) + 1, v) =>
             \A n \in (Len(down) + 1)..(Len(down) + Len(t) + 1) :
                 LastIs(down', link.confirmed, n, v)
  BY <1>1, ConcatLast, LenProperties
<1>6. Typed'
  BY <1>1, <1>2, <1>3, <1>4, <1>5 DEF Typed
<1>7. Ordered'
  <2>1. pending.acknowledge = Nothing =>
            LastIs(down', link.confirmed', Len(down') + 1, pending'.paused)
    BY <1>2, <1>3, <1>4, <1>5 DEF Ordered
  <2>2. ASSUME NEW i \in 1..Len(down'), down'[i].kind = "frame"
        PROVE  LastIs(down', link.confirmed', i, FALSE)
    <3>1. CASE i \in 1..Len(down)
      <4>1. LastIs(down, link.confirmed, i, FALSE)
        BY <1>3, <1>5, <2>2, <3>1 DEF Ordered
      <4>2. i \in 1..(Len(down) + 1)
        BY <1>5, <3>1
      <4>3. LastIs(down', link.confirmed, i, FALSE)
        BY <1>5, <4>1, <4>2
      <4> QED
        BY <1>2, <4>3
    <3>2. CASE i \in (Len(down) + 1)..(Len(down) + Len(t))
      <4>1. LastIs(down, link.confirmed, Len(down) + 1, FALSE)
        BY <1>2, <1>3 DEF Ordered
      <4>2. i \in (Len(down) + 1)..(Len(down) + Len(t) + 1)
        BY <1>5, <3>2
      <4>3. LastIs(down', link.confirmed, i, FALSE)
        BY <1>5, <4>1, <4>2
      <4> QED
        BY <1>2, <4>3
    <3>3. i \in 1..Len(down) \/ i \in (Len(down) + 1)..(Len(down) + Len(t))
      BY <1>5, <2>2
    <3> QED
      BY <3>1, <3>2, <3>3
  <2> QED
    BY <1>2, <1>3, <1>4, <2>1, <2>2 DEF Ordered
<1> QED
  BY <1>2, <1>6, <1>7 DEF Invariant

-----------------------------------------------------------------------------
(* The client's steps.                                                     *)

\* Reading an update keeps the stream in order; the client keeps what a
\* confirmation tells it.
LEMMA ReadStep ==
    ASSUME Invariant, link.open, down # <<>>, down' = Tail(down),
           UNCHANGED <<pending, hand, paused>>, up' \in Seq(Requests),
           link' \in [open : BOOLEAN, disconnected : BOOLEAN, confirmed : BOOLEAN,
                      resubscribed : BOOLEAN, shown : BOOLEAN, short : Nat],
           link'.open,
           link'.confirmed = IF Head(down).kind = "paused" THEN Head(down).paused
                             ELSE link.confirmed
    PROVE  Invariant'
<1>1. Typed /\ Ordered
  BY DEF Invariant
<1>2. PICK S : down \in Seq(S) /\ \A w \in S : w.kind = "paused" => w.paused \in BOOLEAN
  BY <1>1 DEF Typed
<1>3. /\ down' \in Seq(S) /\ Len(down) \in Nat /\ Len(down) # 0
      /\ Len(down') = Len(down) - 1
      /\ \A i \in 1..(Len(down) - 1) : down'[i] = down[i + 1]
  BY <1>2, HeadTailProperties, LenProperties, EmptySeq
<1>4. ASSUME NEW v, NEW n \in 2..(Len(down) + 1), LastIs(down, link.confirmed, n, v)
      PROVE  LastIs(down', link'.confirmed, n - 1, v)
  BY <1>2, <1>4, TailLast
<1>5. Typed'
  BY <1>1, <1>2, <1>3 DEF Typed
<1>6. ASSUME NEW v, LastIs(down, link.confirmed, Len(down) + 1, v)
      PROVE  LastIs(down', link'.confirmed, Len(down') + 1, v)
  <2>1. Len(down) + 1 \in 2..(Len(down) + 1) /\ Len(down) + 1 - 1 = Len(down') + 1
    BY <1>3
  <2>2. LastIs(down', link'.confirmed, Len(down) + 1 - 1, v)
    BY <1>4, <1>6, <2>1
  <2> QED
    BY <2>1, <2>2
<1>7. ASSUME NEW i \in 1..Len(down'), down'[i].kind = "frame"
      PROVE  LastIs(down', link'.confirmed, i, FALSE)
  <2>1. PICK n \in 2..(Len(down) + 1) : /\ n \in 1..Len(down) /\ n - 1 = i
                                        /\ down[n].kind = "frame"
    BY <1>3, <1>7
  <2>2. LastIs(down, link.confirmed, n, FALSE)
    BY <1>1, <2>1 DEF Ordered
  <2>3. LastIs(down', link'.confirmed, n - 1, FALSE)
    BY <1>4, <2>2
  <2> QED
    BY <2>1, <2>3
<1>8. Ordered'
  BY <1>1, <1>6, <1>7 DEF Ordered
<1> QED
  BY <1>5, <1>8 DEF Invariant

\* Every step of the client's reader keeps the invariant.
LEMMA ClientInvariant ==
    ASSUME Invariant, Client
    PROVE  Invariant'
<1> DEFINE Link == [open : BOOLEAN, disconnected : BOOLEAN, confirmed : BOOLEAN,
                    resubscribed : BOOLEAN, shown : BOOLEAN, short : Nat]
<1>1. link \in Link /\ up \in Seq(Requests) /\ Typed
  BY DEF Invariant, Typed
<1>2. CASE ReadImages
  BY <1>1, <1>2, ReadStep DEF ReadImages, Incoming, hostVars
<1>3. CASE ReadPaused
  <2>1. PICK S : down \in Seq(S) /\ \A w \in S : w.kind = "paused" => w.paused \in BOOLEAN
    BY <1>1 DEF Typed
  <2>2. /\ link.open /\ down # <<>> /\ Head(down).kind = "paused"
        /\ link' = [link EXCEPT !.confirmed = Head(down).paused]
        /\ down' = Tail(down) /\ UNCHANGED <<pending, hand, up, paused>>
    BY <1>3 DEF ReadPaused, Incoming, hostVars
  <2>3. Head(down).paused \in BOOLEAN
    BY <2>1, <2>2, HeadTailProperties
  <2>4. link' \in Link /\ link'.open /\ link'.confirmed = Head(down).paused
    BY <1>1, <2>2, <2>3
  <2> QED
    BY <1>1, <2>2, <2>4, ReadStep
<1>4. CASE IgnoreDelta
  BY <1>1, <1>4, ReadStep DEF IgnoreDelta, Incoming, hostVars, clientVars
<1>5. CASE ShowFrame
  <2>1. /\ link.open /\ down # <<>> /\ Head(down).kind = "frame"
        /\ link' = [link EXCEPT !.shown = TRUE, !.resubscribed = FALSE,
                                !.disconnected = @ /\ ~link.resubscribed]
        /\ down' = Tail(down) /\ UNCHANGED <<pending, hand, up, paused>>
    BY <1>5 DEF ShowFrame, Incoming, hostVars
  <2>2. link' \in Link /\ link'.open /\ link'.confirmed = link.confirmed
    BY <1>1, <2>1
  <2> QED
    BY <1>1, <2>1, <2>2, ReadStep
<1>6. CASE SkipFrame
  <2>1. /\ link.open /\ down # <<>> /\ Head(down).kind = "frame"
        /\ up' = Append(up, Resync)
        /\ down' = Tail(down) /\ UNCHANGED <<link, pending, hand, paused>>
    BY <1>6 DEF SkipFrame, Incoming, hostVars
  <2>2. up' \in Seq(Requests)
    BY <1>1, <2>1, AppendProperties DEF Requests
  <2> QED
    BY <1>1, <2>1, <2>2, ReadStep
<1>7. CASE RejectFrame
  BY <1>7, EndStreamInvariant DEF RejectFrame
<1>8. CASE LoseStream
  BY <1>8, EndStreamInvariant DEF LoseStream
<1>9. CASE Resubscribe
  BY <1>9, ResubscribeInvariant
<1>10. CASE RefuseSubscription
  <2>1. /\ ~link.open /\ link' = [link EXCEPT !.disconnected = TRUE]
        /\ UNCHANGED <<pending, hand, down, up, paused>>
    BY <1>10 DEF RefuseSubscription, hostVars
  <2>2. link' \in Link /\ ~link'.open
    BY <1>1, <2>1
  <2>3. Typed'
    BY <1>1, <2>1, <2>2 DEF Typed
  <2> QED
    BY <2>1, <2>2, <2>3 DEF Invariant
<1> QED
  BY <1>2, <1>3, <1>4, <1>5, <1>6, <1>7, <1>8, <1>9, <1>10 DEF Client

-----------------------------------------------------------------------------
\* A step that leaves all the invariant speaks of keeps it.
LEMMA Unmoved ==
    ASSUME Invariant, UNCHANGED <<paused, pending, link, up, down, hand>>
    PROVE  Invariant'
BY DEF Invariant, Typed, Ordered, LastIs

\* Every step of the host keeps the invariant.
LEMMA HostInvariant ==
    ASSUME Invariant, Host
    PROVE  Invariant'
<1> DEFINE Pending == [paused : BOOLEAN, acknowledge : BOOLEAN \cup {Nothing},
                       state : BOOLEAN, resync : BOOLEAN, resume : BOOLEAN]
<1>1. pending \in Pending /\ up \in Seq(Requests)
  BY DEF Invariant, Typed
<1>2. CASE Publish
  <2>1. /\ pending' = [pending EXCEPT !.state = @ \/ ~pending.paused]
        /\ UNCHANGED <<hand, down, up, paused, link>>
    BY <1>2 DEF Publish, clientVars
  <2>2. /\ pending' \in Pending /\ pending'.paused = pending.paused
        /\ pending'.acknowledge = pending.acknowledge
    BY <1>1, <2>1
  <2>3. CASE link.open
    BY <1>1, <2>1, <2>2, <2>3, QuietStep
  <2>4. CASE ~link.open
    <3>1. pending = NewPending
      BY <2>4 DEF Invariant
    <3>2. pending.state /\ pending \in Pending
      BY <1>1, <3>1 DEF NewPending
    <3>3. (pending.state \/ ~pending.paused) = pending.state
      BY <3>2
    <3>4. pending' = [pending EXCEPT !.state = pending.state]
      BY <2>1, <3>3
    <3>5. pending' = pending
      BY <1>1, <3>4
    <3> QED
      BY <2>1, <3>5, Unmoved
  <2> QED
    BY <2>3, <2>4
<1>3. CASE CaptureForResume
  <2>1. /\ pending.resume
        /\ pending' = [pending EXCEPT !.resume = FALSE, !.state = @ \/ ~pending.paused]
        /\ UNCHANGED <<hand, down, up, paused, link>>
    BY <1>3 DEF CaptureForResume, clientVars
  <2>2. link.open
    BY <2>1 DEF Invariant, NewPending
  <2>3. /\ pending' \in Pending /\ pending'.paused = pending.paused
        /\ pending'.acknowledge = pending.acknowledge
    BY <1>1, <2>1
  <2> QED
    BY <1>1, <2>1, <2>2, <2>3, QuietStep
<1>4. CASE \E sent \in BOOLEAN : ReadSetPaused(sent)
  BY <1>4, ReadSetPausedInvariant
<1>5. CASE ReadResync
  <2>1. /\ link.open /\ up # <<>> /\ up' = Tail(up)
        /\ pending' = [pending EXCEPT !.resync = TRUE, !.state = ~pending.paused]
        /\ UNCHANGED <<hand, down, paused, link>>
    BY <1>5 DEF ReadResync, clientVars
  <2>2. up' \in Seq(Requests)
    BY <1>1, <2>1, HeadTailProperties
  <2>3. /\ pending' \in Pending /\ pending'.paused = pending.paused
        /\ pending'.acknowledge = pending.acknowledge
    BY <1>1, <2>1
  <2> QED
    BY <2>1, <2>2, <2>3, QuietStep
<1>6. CASE SendPaused
  BY <1>6, SendPausedInvariant
<1>7. CASE TakeState
  <2>1. /\ link.open /\ pending.acknowledge = Nothing /\ ~pending.paused
        /\ pending' = [pending EXCEPT !.state = FALSE]
        /\ UNCHANGED <<down, up, paused, link>>
    BY <1>7 DEF TakeState, clientVars
  <2>2. /\ pending' \in Pending /\ pending'.paused = pending.paused
        /\ pending'.acknowledge = pending.acknowledge
    BY <1>1, <2>1
  <2> QED
    BY <1>1, <2>1, <2>2, QuietStep
<1>8. CASE SendFrame
  BY <1>8, SendFrameInvariant
<1> QED
  BY <1>2, <1>3, <1>4, <1>5, <1>6, <1>7, <1>8 DEF Host

LEMMA StepInvariant == Invariant /\ [Next]_vars => Invariant'
<1> SUFFICES ASSUME Invariant, [Next]_vars PROVE Invariant'
  OBVIOUS
<1>1. ASSUME NEW s \in Screens, Output(s)
      PROVE  Invariant'
  BY <1>1, Unmoved DEF Output, clientVars
<1>2. CASE SetWakeupEnabled
  <2>1. /\ paused' = ~paused /\ UNCHANGED <<pending, link, down, hand>>
        /\ up' = IF link.open /\ ~link.disconnected
                 THEN Append(up, SetPaused(~paused)) ELSE up
    BY <1>2 DEF SetWakeupEnabled, hostVars
  <2>2. SetPaused(~paused) \in Requests
    BY DEF SetPaused, Requests, Invariant, Typed
  <2>3. up' \in Seq(Requests)
    BY <2>1, <2>2, AppendProperties DEF Invariant, Typed
  <2>4. Typed'
    BY <2>1, <2>3 DEF Invariant, Typed
  <2>5. Ordered => Ordered'
    BY <2>1 DEF Ordered, LastIs
  <2> QED
    BY <2>1, <2>4, <2>5 DEF Invariant
<1>3. CASE UNCHANGED vars
  BY <1>3, Unmoved DEF vars, hostVars, clientVars
<1> QED
  BY <1>1, <1>2, <1>3, HostInvariant, ClientInvariant DEF Next

\* A view that knows it is hidden gets no frame until it is told that it is
\* shown, for every size of the connection and the cache and any number of
\* pauses, faults and frames.
THEOREM HiddenQuiet == Spec => []HiddenGetsNoFrames
<1>1. Invariant => HiddenGetsNoFrames
  <2> SUFFICES ASSUME Invariant, Incoming("frame") PROVE ~link.confirmed
    BY DEF HiddenGetsNoFrames
  <2>1. PICK S : down \in Seq(S)
    BY DEF Invariant, Typed
  <2>2. link.open /\ 1 \in 1..Len(down) /\ down[1].kind = "frame"
    BY <2>1, HeadTailProperties, LenProperties, EmptySeq DEF Incoming
  <2>3. LastIs(down, link.confirmed, 1, FALSE)
    BY <2>2 DEF Invariant, Ordered
  <2> QED
    BY <2>3 DEF LastIs
<1> QED
  BY <1>1, InitInvariant, StepInvariant, PTL DEF Spec

-----------------------------------------------------------------------------
(* Sequences that list a set.                                               *)

\* A set of numbers that is not empty has a least one.
LEMMA HasLeast ==
    ASSUME NEW S \in SUBSET Nat, S # {}
    PROVE  \E m \in S : \A y \in S : m <= y
<1>1. PICK m \in S : \A y \in S : ~(<<y, m>> \in OpToRel(<, Nat))
  BY WFMin, NatLessThanWellFounded
<1>2. ASSUME NEW y \in Nat, NEW n \in Nat, y < n PROVE <<y, n>> \in OpToRel(<, Nat)
  BY <1>2, SMT DEF OpToRel
<1>3. \A y \in S : ~(y < m)
  BY <1>1, <1>2
<1>4. \A y \in S : y \in Nat /\ m \in Nat
  OBVIOUS
<1>5. \A y \in S : m <= y
  BY <1>3, <1>4
<1> QED
  BY <1>5

\* A list without repetitions of the members of `held'.
Lists(s, held) == s \in Seq(held) /\ IsInjective(s) /\ ToSet(s) = held

LEMMA ListsEach ==
    ASSUME NEW s, NEW held
    PROVE  Lists(s, held) <=> /\ s \in Seq(held)
                              /\ \A i, j \in 1..Len(s) : s[i] = s[j] => i = j
                              /\ \A x \in held : \E i \in 1..Len(s) : s[i] = x
<1> SUFFICES ASSUME s \in Seq(held)
             PROVE  /\ IsInjective(s) <=> \A i, j \in 1..Len(s) : s[i] = s[j] => i = j
                    /\ ToSet(s) = held <=> \A x \in held : \E i \in 1..Len(s) : s[i] = x
  BY DEF Lists
<1>1. DOMAIN s = 1..Len(s) /\ \A i \in 1..Len(s) : s[i] \in held
  BY LenProperties, ElementOfSeq
<1> QED
  BY <1>1 DEF IsInjective, ToSet

\* The members of a finite set can be listed.
LEMMA SetListed ==
    ASSUME NEW S, IsFiniteSet(S)
    PROVE  Lists(SetToSeq(S), S) /\ Len(SetToSeq(S)) = Cardinality(S)
<1> DEFINE n == Cardinality(S)
           f == SetToSeq(S)
<1>1. n \in Nat /\ \E g \in [1..n -> S] : IsInjective(g)
  <2>1. n \in Nat /\ ExistsBijection(1..n, S)
    BY FS_CardinalityType
  <2> HIDE DEF n
  <2> QED
    BY <2>1 DEF ExistsBijection, Bijection, Injection
<1>2. f \in [1..n -> S] /\ IsInjective(f)
  BY <1>1 DEF SetToSeq
<1> HIDE DEF f
<1>3. f \in Injection(1..n, S) /\ IsFiniteSet(1..n) /\ Cardinality(1..n) = n
  BY <1>1, <1>2, FS_Interval DEF Injection
<1>4. f \in Surjection(1..n, S)
  BY <1>3, FS_Injection
<1> HIDE DEF n
<1>5. f \in Seq(S) /\ Len(f) = n
  BY <1>1, <1>2
<1>6. \A x \in S : \E i \in 1..Len(f) : f[i] = x
  BY <1>4, <1>5 DEF Surjection
<1>7. \A i, j \in 1..Len(f) : f[i] = f[j] => i = j
  BY <1>2, <1>5 DEF IsInjective
<1> QED
  BY <1>5, <1>6, <1>7, ListsEach DEF f, n

\* Two lists that have no member in common make one.
LEMMA ListsJoined ==
    ASSUME NEW A, NEW B, A \cap B = {}, NEW s, NEW t, Lists(s, A), Lists(t, B)
    PROVE  Lists(s \o t, A \cup B)
<1> DEFINE e == s \o t
           k == Len(s)
           l == Len(t)
<1>1. /\ s \in Seq(A) /\ t \in Seq(B)
      /\ \A i, j \in 1..k : s[i] = s[j] => i = j
      /\ \A i, j \in 1..l : t[i] = t[j] => i = j
      /\ \A x \in A : \E i \in 1..k : s[i] = x
      /\ \A x \in B : \E i \in 1..l : t[i] = x
  BY ListsEach
<1>2. s \in Seq(A \cup B) /\ t \in Seq(A \cup B) /\ k \in Nat /\ l \in Nat
  BY <1>1, SeqMonotonic, LenProperties
<1>3. /\ e \in Seq(A \cup B) /\ Len(e) = k + l
      /\ \A i \in 1..(k + l) : e[i] = IF i <= k THEN s[i] ELSE t[i - k]
  BY <1>2, ConcatProperties
<1>4. /\ \A i \in 1..k : s[i] \in A
      /\ \A i \in 1..l : t[i] \in B
  BY <1>1, ElementOfSeq
<1> HIDE DEF e, k, l
<1>5. ASSUME NEW i \in 1..(k + l), NEW j \in 1..(k + l), e[i] = e[j]
      PROVE  i = j
  <2>1. CASE i <= k /\ j <= k
    <3>1. i \in 1..k /\ j \in 1..k /\ s[i] = s[j]
      BY <1>2, <1>3, <1>5, <2>1
    <3> QED
      BY <1>1, <3>1
  <2>2. CASE ~(i <= k) /\ ~(j <= k)
    <3>1. i - k \in 1..l /\ j - k \in 1..l /\ t[i - k] = t[j - k]
      BY <1>2, <1>3, <1>5, <2>2
    <3>2. i - k = j - k
      BY <1>1, <3>1
    <3> QED
      BY <1>2, <3>2
  <2>3. CASE i <= k /\ ~(j <= k)
    <3>1. i \in 1..k /\ j - k \in 1..l /\ s[i] = t[j - k]
      BY <1>2, <1>3, <1>5, <2>3
    <3> QED
      BY <1>4, <3>1
  <2>4. CASE ~(i <= k) /\ j <= k
    <3>1. i - k \in 1..l /\ j \in 1..k /\ t[i - k] = s[j]
      BY <1>2, <1>3, <1>5, <2>4
    <3> QED
      BY <1>4, <3>1
  <2> QED
    BY <2>1, <2>2, <2>3, <2>4
<1>6. ASSUME NEW x \in A \cup B PROVE \E i \in 1..(k + l) : e[i] = x
  <2>1. CASE x \in A
    <3>1. PICK i \in 1..k : s[i] = x
      BY <1>1, <2>1
    <3>2. i \in 1..(k + l) /\ i <= k
      BY <1>2
    <3> QED
      BY <1>3, <3>1, <3>2
  <2>2. CASE x \in B
    <3>1. PICK i \in 1..l : t[i] = x
      BY <1>1, <2>2
    <3>2. PICK j \in 1..(k + l) : j = k + i
      BY <1>2
    <3>3. ~(j <= k) /\ j - k = i
      BY <1>2, <3>2
    <3> QED
      BY <1>3, <3>1, <3>3
  <2> QED
    BY <2>1, <2>2
<1>7. e \in Seq(A \cup B) /\ Len(e) = k + l
  BY <1>3
<1>8. Lists(e, A \cup B)
  BY <1>5, <1>6, <1>7, ListsEach
<1> QED
  BY <1>8 DEF e

\* What a list holds is in its beginning or in its rest, and not in both.
LEMMA ListCut ==
    ASSUME NEW S, NEW s, Lists(s, S), NEW n \in 0..Len(s)
    PROVE  /\ ToSet(SubSeq(s, 1, n)) \subseteq S
           /\ Lists(SubSeq(s, n + 1, Len(s)), S \ ToSet(SubSeq(s, 1, n)))
<1> DEFINE a == SubSeq(s, 1, n)
           b == SubSeq(s, n + 1, Len(s))
           k == Len(s)
           rest == S \ ToSet(a)
<1>1. /\ s \in Seq(S)
      /\ \A i, j \in 1..k : s[i] = s[j] => i = j
      /\ \A x \in S : \E i \in 1..k : s[i] = x
  BY ListsEach
<1>2. k \in Nat /\ n \in Nat /\ n <= k /\ \A i \in 1..k : s[i] \in S
  BY <1>1, LenProperties, ElementOfSeq
<1>3. a \in Seq(S) /\ Len(a) = n /\ \A i \in 1..n : a[i] = s[i]
  <2>1. \A i \in 1..n : s[i] \in S
    BY <1>2
  <2> QED
    BY <1>2, <2>1, SubSeqProperties
<1>4. Len(b) = k - n /\ \A i \in 1..(k - n) : b[i] = s[n + i]
  <2>1. \A i \in (n + 1)..k : s[i] \in S
    BY <1>2
  <2>2. /\ Len(b) = IF n + 1 <= k THEN k - (n + 1) + 1 ELSE 0
        /\ \A i \in 1..(k - (n + 1) + 1) : b[i] = s[n + 1 + i - 1]
    BY <1>2, <2>1, SubSeqProperties
  <2> HIDE DEF b
  <2>3. Len(b) = k - n
    BY <1>2, <2>2
  <2>4. \A i \in 1..(k - n) : b[i] = s[n + i]
    BY <1>2, <2>2
  <2> QED
    BY <2>3, <2>4
<1>5. b \in Seq(S)
  <2>1. \A i \in (n + 1)..k : s[i] \in S
    BY <1>2
  <2> QED
    BY <1>2, <2>1, SubSeqProperties
<1> HIDE DEF a, b, k
<1>6. ToSet(a) = {s[i] : i \in 1..n}
  <2>1. DOMAIN a = 1..n
    BY <1>3, LenProperties
  <2> QED
    BY <1>3, <2>1 DEF ToSet
<1>7. \A x \in S : x \in rest <=> \A i \in 1..n : s[i] # x
  BY <1>6
<1>8. \A i \in 1..(k - n) : b[i] \in rest
  <2> SUFFICES ASSUME NEW i \in 1..(k - n) PROVE b[i] \in rest
    OBVIOUS
  <2>1. n + i \in 1..k /\ b[i] = s[n + i]
    BY <1>2, <1>4
  <2>2. \A j \in 1..n : j \in 1..k /\ j # n + i
    BY <1>2
  <2>3. \A j \in 1..n : s[j] # b[i]
    BY <1>1, <2>1, <2>2
  <2> QED
    BY <1>2, <1>7, <2>1, <2>3
<1> HIDE DEF rest
<1>9. b \in Seq(rest)
  <2>1. b \in [1..(k - n) -> S]
    BY <1>4, <1>5, LenProperties
  <2>2. b \in [1..(k - n) -> rest] /\ k - n \in Nat
    BY <1>2, <1>8, <2>1
  <2> QED
    BY <2>2
<1>10. ASSUME NEW i \in 1..(k - n), NEW j \in 1..(k - n), b[i] = b[j] PROVE i = j
  <2>1. n + i \in 1..k /\ n + j \in 1..k /\ s[n + i] = s[n + j]
    BY <1>2, <1>4, <1>10
  <2>2. n + i = n + j
    BY <1>1, <2>1
  <2> QED
    BY <1>2, <2>2
<1>11. ASSUME NEW x \in rest PROVE \E i \in 1..(k - n) : b[i] = x
  <2>1. x \in S
    BY DEF rest
  <2>2. PICK i \in 1..k : s[i] = x
    BY <1>1, <2>1
  <2>3. ~(i \in 1..n)
    BY <1>7, <2>1, <2>2
  <2>4. PICK j \in 1..(k - n) : n + j = i
    <3>1. i - n \in 1..(k - n) /\ n + (i - n) = i
      BY <1>2, <2>3
    <3> QED
      BY <3>1
  <2> QED
    BY <1>4, <2>2, <2>4
<1>12. Lists(b, rest)
  BY <1>4, <1>9, <1>10, <1>11, ListsEach
<1>13. ToSet(a) \subseteq S
  BY <1>2, <1>6
<1> QED
  BY <1>12, <1>13 DEF a, b, rest, k

-----------------------------------------------------------------------------
(* The host's cache.                                                       *)

\* What is kept of the first places of a cache.
IsSieve(f, cache, images, k) ==
    f = [n \in 0..k |->
            IF n = 0 THEN <<>>
            ELSE IF cache[n] \in images THEN f[n - 1] ELSE Append(f[n - 1], cache[n])]

\* However long a cache is, it can be sieved.
LEMMA SieveExists ==
    ASSUME NEW cache, NEW images, NEW k \in Nat
    PROVE  \E f : IsSieve(f, cache, images, k)
<1> DEFINE Bad == {n \in Nat : ~ \E f : IsSieve(f, cache, images, n)}
           Kept(s, n) == IF cache[n] \in images THEN s ELSE Append(s, cache[n])
<1>1. SUFFICES ASSUME Bad # {} PROVE FALSE
  OBVIOUS
<1>2. PICK m \in Bad : \A y \in Bad : m <= y
  <2>1. Bad \in SUBSET Nat
    OBVIOUS
  <2> HIDE DEF Bad
  <2> QED
    BY <1>1, <2>1, HasLeast
<1>3. m # 0
  <2>1. IsSieve([n \in 0..0 |-> <<>>], cache, images, 0)
    BY DEF IsSieve
  <2> QED
    BY <1>2, <2>1
<1>4. m \in Nat /\ m - 1 \in Nat /\ ~(m <= m - 1)
  BY <1>2, <1>3
<1>5. PICK f : IsSieve(f, cache, images, m - 1)
  BY <1>2, <1>4
<1> DEFINE g == [n \in 0..m |-> IF n = m THEN Kept(f[m - 1], m) ELSE f[n]]
<1>6. \A n \in 0..(m - 1) : f[n] = IF n = 0 THEN <<>> ELSE Kept(f[n - 1], n)
  BY <1>5 DEF IsSieve
<1> HIDE DEF Kept
<1>7. ASSUME NEW n \in 0..m
      PROVE  g[n] = IF n = 0 THEN <<>> ELSE Kept(g[n - 1], n)
  <2>1. CASE n = m
    <3>1. m - 1 \in 0..m /\ m - 1 # m
      BY <1>4
    <3>2. g[m] = Kept(f[m - 1], m) /\ g[m - 1] = f[m - 1]
      BY <1>4, <3>1
    <3> HIDE DEF g
    <3> QED
      BY <1>3, <2>1, <3>2
  <2>2. CASE n # m
    <3>1. n \in 0..(m - 1) /\ (n # 0 => n - 1 \in 0..m /\ n - 1 # m)
      BY <1>4, <2>2
    <3>2. f[n] = IF n = 0 THEN <<>> ELSE Kept(f[n - 1], n)
      BY <1>6, <3>1
    <3>3. g[n] = f[n] /\ (n # 0 => g[n - 1] = f[n - 1])
      BY <2>2, <3>1
    <3> HIDE DEF g
    <3> QED
      BY <3>2, <3>3
  <2> QED
    BY <2>1, <2>2
<1>8. g = [n \in 0..m |-> g[n]]
  OBVIOUS
<1>9. IsSieve(g, cache, images, m)
  <2> HIDE DEF g
  <2>1. g = [n \in 0..m |-> IF n = 0 THEN <<>> ELSE Kept(g[n - 1], n)]
    BY <1>7, <1>8
  <2> QED
    BY <2>1 DEF IsSieve, Kept
<1> QED
  BY <1>2, <1>9

\* One member more makes a longer list.
LEMMA ListsOneMore ==
    ASSUME NEW A, NEW s, Lists(s, A), NEW x, x \notin A
    PROVE  Lists(Append(s, x), A \cup {x})
<1>1. Lists(<<x>>, {x})
  <2> DEFINE t == <<x>>
  <2>1. t \in Seq({x}) /\ Len(t) = 1 /\ t[1] = x
    OBVIOUS
  <2> HIDE DEF t
  <2>2. \A i, j \in 1..Len(t) : t[i] = t[j] => i = j
    BY <2>1
  <2>3. \A y \in {x} : \E i \in 1..Len(t) : t[i] = y
    <3>1. 1 \in 1..Len(t)
      BY <2>1
    <3> QED
      BY <2>1, <3>1
  <2>4. Lists(t, {x})
    BY <2>1, <2>2, <2>3, ListsEach, Zenon
  <2> QED
    BY <2>4 DEF t
<1>2. A \cap {x} = {}
  OBVIOUS
<1>3. Lists(s \o <<x>>, A \cup {x})
  BY <1>1, <1>2, ListsJoined
<1>4. Append(s, x) = s \o <<x>>
  <2>1. s \in Seq(A \cup {x})
    BY SeqMonotonic DEF Lists
  <2> QED
    BY <2>1, AppendIsConcat
<1> QED
  BY <1>3, <1>4

\* A cache without the images shown lists the other images of the cache.
LEMMA OthersListed ==
    ASSUME NEW S, NEW cache, Lists(cache, S), NEW images
    PROVE  Lists(Others(cache, images), S \ images)
<1> DEFINE k == Len(cache)
           kept == CHOOSE f : IsSieve(f, cache, images, k)
           Seen(n) == {cache[i] : i \in 1..n}
<1>1. /\ k \in Nat /\ \A i \in 1..k : cache[i] \in S
      /\ \A i, j \in 1..k : cache[i] = cache[j] => i = j
      /\ \A x \in S : \E i \in 1..k : cache[i] = x
  <2>1. cache \in Seq(S)
    BY DEF Lists
  <2> QED
    BY <2>1, ListsEach, LenProperties, ElementOfSeq
<1>2. IsSieve(kept, cache, images, k) /\ Others(cache, images) = kept[k]
  <2>1. \E f : IsSieve(f, cache, images, k)
    BY <1>1, SieveExists
  <2>2. IsSieve(kept, cache, images, k)
    BY <2>1
  <2> QED
    BY <2>2 DEF Others, IsSieve
<1> HIDE DEF kept, k
<1>3. /\ kept[0] = <<>>
      /\ \A n \in 1..k : kept[n] = IF cache[n] \in images THEN kept[n - 1]
                                   ELSE Append(kept[n - 1], cache[n])
  <2>1. \A n \in 0..k : kept[n] = IF n = 0 THEN <<>>
                                  ELSE IF cache[n] \in images THEN kept[n - 1]
                                  ELSE Append(kept[n - 1], cache[n])
    BY <1>2 DEF IsSieve
  <2>2. 0 \in 0..k /\ \A n \in 1..k : n \in 0..k /\ n # 0
    BY <1>1
  <2> QED
    BY <2>1, <2>2
<1> DEFINE Bad == {n \in 0..k : ~Lists(kept[n], Seen(n) \ images)}
<1>4. Bad = {}
  <2>1. SUFFICES ASSUME Bad # {} PROVE FALSE
    OBVIOUS
  <2>2. PICK m \in Bad : \A y \in Bad : m <= y
    <3>1. Bad \in SUBSET Nat
      BY <1>1
    <3> HIDE DEF Bad
    <3> QED
      BY <2>1, <3>1, HasLeast
  <2>3. m \in 0..k /\ ~Lists(kept[m], Seen(m) \ images)
    BY <2>2
  <2>4. m # 0
    <3>1. Seen(0) \ images = {}
      OBVIOUS
    <3>2. Lists(<<>>, {})
      <4>1. <<>> \in Seq({}) /\ Len(<<>>) = 0
        BY EmptySeq
      <4>2. \A i, j \in 1..Len(<<>>) : <<>>[i] = <<>>[j] => i = j
        BY <4>1
      <4> QED
        BY <4>1, <4>2, ListsEach, Zenon
    <3> QED
      BY <1>3, <2>3, <3>1, <3>2
  <2>5. m \in 1..k /\ m - 1 \in 0..k /\ ~(m <= m - 1)
    BY <1>1, <2>3, <2>4
  <2>6. Lists(kept[m - 1], Seen(m - 1) \ images)
    BY <2>2, <2>5
  <2>7. Seen(m) = Seen(m - 1) \cup {cache[m]}
    <3>1. \A i \in 1..m : i \in 1..(m - 1) \/ i = m
      BY <2>5
    <3>2. \A i \in 1..(m - 1) : i \in 1..m
      BY <2>5
    <3>3. m \in 1..m
      BY <2>5
    <3> QED
      BY <3>1, <3>2, <3>3
  <2>8. cache[m] \notin Seen(m - 1)
    <3>1. \A i \in 1..(m - 1) : i \in 1..k /\ i # m
      BY <1>1, <2>5
    <3> QED
      BY <1>1, <2>5, <3>1
  <2> HIDE DEF Seen
  <2>9. CASE cache[m] \in images
    <3>1. kept[m] = kept[m - 1] /\ Seen(m) \ images = Seen(m - 1) \ images
      BY <1>3, <2>5, <2>7, <2>9
    <3> QED
      BY <2>3, <2>6, <3>1
  <2>10. CASE cache[m] \notin images
    <3>1. /\ kept[m] = Append(kept[m - 1], cache[m])
          /\ Seen(m) \ images = (Seen(m - 1) \ images) \cup {cache[m]}
          /\ cache[m] \notin Seen(m - 1) \ images
      BY <1>3, <2>5, <2>7, <2>8, <2>10
    <3> QED
      BY <2>3, <2>6, <3>1, ListsOneMore
  <2> QED
    BY <2>9, <2>10
<1>5. Seen(k) = S
  BY <1>1
<1>6. k \in 0..k
  BY <1>1
<1> QED
  BY <1>2, <1>4, <1>5, <1>6

\* What the encoder remembers is what it remembered and what is shown now,
\* without what it evicts, which is nothing that is shown; and it sends what it
\* did not remember.
LEMMA EncodedRight ==
    ASSUME NEW S, NEW cache, Lists(cache, S), NEW images, IsFiniteSet(images)
    PROVE  LET g == Encoded(cache, images)
           IN  /\ g.uploads = images \ S
               /\ g.evicted \subseteq S \ images
               /\ Lists(g.cache, (S \cup images) \ g.evicted)
<1> DEFINE others == Others(cache, images)
           over == Len(others) + Cardinality(images)
           n == IF over <= CacheBudget THEN 0
                ELSE IF over - CacheBudget < Len(others) THEN over - CacheBudget
                ELSE Len(others)
           first == SubSeq(others, 1, n)
           rest == SubSeq(others, n + 1, Len(others))
<1>1. Lists(others, S \ images) /\ Len(others) \in Nat
  <2>1. Lists(others, S \ images)
    BY OthersListed
  <2> QED
    BY <2>1, LenProperties DEF Lists
<1>2. Cardinality(images) \in Nat /\ Lists(SetToSeq(images), images)
  BY SetListed, FS_CardinalityType
<1> HIDE DEF others
<1>3. n \in 0..Len(others)
  BY <1>1, <1>2, FrameAssumption
<1>4. Encoded(cache, images) = [uploads |-> images \ ToSet(cache), evicted |-> ToSet(first),
                                cache |-> rest \o SetToSeq(images)]
  BY DEF Encoded, others
<1> HIDE DEF n
<1>5. ToSet(first) \subseteq S \ images /\ Lists(rest, (S \ images) \ ToSet(first))
  BY <1>1, <1>3, ListCut
<1> HIDE DEF first, rest
<1>6. ((S \ images) \ ToSet(first)) \cap images = {}
      /\ ((S \ images) \ ToSet(first)) \cup images = (S \cup images) \ ToSet(first)
  BY <1>5
<1>7. Lists(rest \o SetToSeq(images), (S \cup images) \ ToSet(first))
  BY <1>2, <1>5, <1>6, ListsJoined
<1>8. ToSet(cache) = S
  BY DEF Lists
<1> QED
  BY <1>4, <1>5, <1>7, <1>8

-----------------------------------------------------------------------------
(* What the client will have read.                                         *)

\* A client that has images, shows a state and knows of its pause as in x reads
\* update u, which it can use, and then is as in y.
Reads(x, u, y) ==
    \/ /\ u.kind = "images"
       /\ y = [images |-> x.images \cup u.images, shown |-> x.shown, confirmed |-> x.confirmed]
    \/ /\ u.kind = "paused"
       /\ y = [images |-> IF u.paused THEN x.images \cap x.shown.images ELSE {},
               shown |-> x.shown, confirmed |-> u.paused]
    \/ /\ u.kind = "frame"
       /\ IsFull(u) \/ (u.base = x.shown.generation /\ u.state.size = x.shown.size)
       /\ u.state.fits /\ u.state.images \subseteq x.images \ u.evicted
       /\ y = [images |-> x.images \ u.evicted, shown |-> u.state, confirmed |-> x.confirmed]

\* Reading the updates d, one after the other, leads from x to y.
Leads(d, x, y) ==
    \E h : /\ h[1] = x /\ h[Len(d) + 1] = y
           /\ \A i \in 1..Len(d) : Reads(h[i], d[i], h[i + 1])

LEMMA LeadsNowhere ==
    ASSUME NEW x, NEW y
    PROVE  Leads(<<>>, x, y) <=> x = y
<1>1. Len(<<>>) = 0 /\ 1..0 = {}
  BY EmptySeq
<1>2. ASSUME x = y PROVE Leads(<<>>, x, y)
  <2> DEFINE h == [i \in {1} |-> x]
  <2>1. h[1] = x
    OBVIOUS
  <2> HIDE DEF h
  <2> QED
    BY <1>1, <1>2, <2>1 DEF Leads
<1>3. ASSUME Leads(<<>>, x, y) PROVE x = y
  BY <1>1, <1>3 DEF Leads
<1> QED
  BY <1>2, <1>3

LEMMA LeadsOn ==
    ASSUME NEW S, NEW d \in Seq(S), d # <<>>, NEW x, NEW y, Leads(d, x, y)
    PROVE  \E z : Reads(x, Head(d), z) /\ Leads(Tail(d), z, y)
<1>1. PICK h : /\ h[1] = x /\ h[Len(d) + 1] = y
               /\ \A i \in 1..Len(d) : Reads(h[i], d[i], h[i + 1])
  BY DEF Leads
<1> DEFINE n == Len(d)
           e == Tail(d)
           g == [i \in 1..n |-> h[i + 1]]
<1>2. /\ n \in Nat \ {0} /\ Head(d) = d[1] /\ Len(e) = n - 1
      /\ \A i \in 1..(n - 1) : e[i] = d[i + 1]
  BY HeadTailProperties, EmptySeq
<1> HIDE DEF n, e
<1>3. 1 \in 1..n /\ n \in 1..n
  BY <1>2
<1>4. Reads(x, d[1], h[2])
  BY <1>1, <1>3 DEF n
<1>5. g[1] = h[2] /\ g[n] = y
  BY <1>1, <1>3 DEF n
<1>6. ASSUME NEW i \in 1..(n - 1) PROVE Reads(g[i], e[i], g[i + 1])
  <2>1. i \in 1..n /\ i + 1 \in 1..n
    BY <1>2
  <2>2. Reads(h[i + 1], d[i + 1], h[i + 1 + 1])
    BY <1>1, <2>1 DEF n
  <2>3. g[i] = h[i + 1] /\ g[i + 1] = h[i + 1 + 1]
    BY <2>1
  <2> QED
    BY <1>2, <2>2, <2>3
<1> HIDE DEF g
<1>7. Len(e) + 1 = n
  BY <1>2
<1>8. Leads(e, h[2], y)
  BY <1>2, <1>5, <1>6, <1>7 DEF Leads
<1> QED
  BY <1>2, <1>4, <1>8 DEF e

LEMMA LeadsFurther ==
    ASSUME NEW S, NEW d \in Seq(S), NEW u \in S, NEW x, NEW y, NEW z,
           Leads(d, x, y), Reads(y, u, z)
    PROVE  Leads(Append(d, u), x, z)
<1>1. PICK h : /\ h[1] = x /\ h[Len(d) + 1] = y
               /\ \A i \in 1..Len(d) : Reads(h[i], d[i], h[i + 1])
  BY DEF Leads
<1> DEFINE n == Len(d)
           e == Append(d, u)
           g == [i \in 1..(n + 2) |-> IF i = n + 2 THEN z ELSE h[i]]
<1>2. /\ n \in Nat /\ Len(e) = n + 1 /\ e[n + 1] = u
      /\ \A i \in 1..n : e[i] = d[i]
  BY AppendProperties, LenProperties
<1> HIDE DEF e
<1>3. g[1] = x /\ g[n + 1] = y /\ g[n + 2] = z /\ \A i \in 1..(n + 1) : g[i] = h[i]
  <2>1. \A i \in 1..(n + 1) : i \in 1..(n + 2) /\ i # n + 2
    BY <1>2
  <2>2. 1 \in 1..(n + 1) /\ n + 1 \in 1..(n + 1) /\ n + 2 \in 1..(n + 2)
    BY <1>2
  <2> HIDE DEF n
  <2> QED
    BY <1>1, <2>1, <2>2 DEF n
<1> HIDE DEF g, n
<1>4. ASSUME NEW i \in 1..(n + 1) PROVE Reads(g[i], e[i], g[i + 1])
  <2>1. CASE i = n + 1
    <3>1. i + 1 = n + 2
      BY <1>2, <2>1
    <3> QED
      BY <1>2, <1>3, <2>1, <3>1
  <2>2. CASE i # n + 1
    <3>1. i \in 1..n /\ i + 1 \in 1..(n + 1)
      BY <1>2, <2>2
    <3>2. Reads(h[i], d[i], h[i + 1])
      BY <1>1, <3>1 DEF n
    <3> QED
      BY <1>2, <1>3, <3>1, <3>2
  <2> QED
    BY <2>1, <2>2
<1>5. Len(e) + 1 = n + 2
  BY <1>2
<1>6. Leads(e, x, z)
  BY <1>2, <1>3, <1>4, <1>5 DEF Leads
<1> QED
  BY <1>6 DEF e

-----------------------------------------------------------------------------
(* Types.                                                                  *)

Updates == FrameType \cup [kind : {"images"}, images : SUBSET Images]
                     \cup [kind : {"paused"}, paused : BOOLEAN]

EncoderType == [last : StateType \cup {Nothing}, cache : Seq(Images)]
ReaderType == [images : SUBSET Images, resyncing : BOOLEAN]

\* The state of the terminal, the states on their way, and the two ends' caches.
Types ==
    /\ engine \in StateType /\ screen \in StateType /\ shown \in StateType
    /\ hand \in StateType \cup {Nothing}
    /\ IsFiniteSet(engine.images) /\ IsFiniteSet(screen.images)
    /\ hand # Nothing => IsFiniteSet(hand.images)
    /\ encoder \in EncoderType /\ Lists(encoder.cache, ToSet(encoder.cache))
    /\ down \in Seq(Updates)
    /\ reader \in ReaderType
    /\ link.short \in 0..Unhealthy
    /\ toggles \in 0..MaxToggles /\ faults \in 0..MaxFaults
    /\ unfit \in Nat /\ unfit <= engine.generation
    /\ ~link.open => encoder = NewEncoder /\ reader = NewReader

LEMMA StateTyped ==
    ASSUME NEW s \in Screens, NEW g \in 0..MaxGeneration
    PROVE  /\ State(s, g) \in StateType /\ IsFiniteSet(State(s, g).images)
           /\ State(s, g).generation = g /\ State(s, g).fits = s.fits
  BY FrameAssumption DEF State, StateType

\* At the beginning of a stream neither end has an image.
LEMMA FreshTyped ==
    /\ NewEncoder \in EncoderType /\ Lists(NewEncoder.cache, ToSet(NewEncoder.cache))
    /\ ToSet(NewEncoder.cache) = {} /\ NewEncoder.last = Nothing
    /\ NewReader \in ReaderType /\ NewReader.images = {} /\ ~NewReader.resyncing
<1>1. <<>> \in Seq({}) /\ <<>> \in Seq(Images) /\ Len(<<>>) = 0
  BY EmptySeq
<1>2. ToSet(<<>>) = {}
  <2>1. DOMAIN <<>> = 1..0 /\ 1..0 = {}
    BY <1>1, LenProperties
  <2> QED
    BY <2>1 DEF ToSet
<1>3. \A i, j \in 1..Len(<<>>) : <<>>[i] = <<>>[j] => i = j
  BY <1>1
<1>4. Lists(<<>>, {})
  BY <1>1, <1>3, ListsEach, Zenon
<1> QED
  BY <1>1, <1>2, <1>4 DEF NewEncoder, NewReader, EncoderType, ReaderType

LEMMA InitTypes == Init => Types
<1> SUFFICES ASSUME Init PROVE Types
  OBVIOUS
<1>1. PICK s \in Screens : engine = State(s, 0) /\ screen = engine
                           /\ shown = [engine EXCEPT !.images = {}]
  BY DEF Init
<1>2. 0 \in 0..MaxGeneration /\ 0 \in 0..MaxToggles /\ 0 \in 0..MaxFaults /\ 0 \in 0..Unhealthy
  BY FrameAssumption
<1>3. engine \in StateType /\ IsFiniteSet(engine.images) /\ engine.generation = 0
  BY <1>1, <1>2, StateTyped
<1>4. shown \in StateType
  <2>1. [engine EXCEPT !.images = {}] \in StateType
    BY <1>3 DEF StateType
  <2> QED
    BY <1>1, <2>1
<1>5. /\ hand = Nothing /\ encoder = NewEncoder /\ down = <<>> /\ reader = NewReader
      /\ link.open /\ link.short = 0 /\ toggles = 0 /\ faults = 0 /\ unfit = 0
  BY DEF Init
<1> QED
  BY <1>1, <1>2, <1>3, <1>4, <1>5, FreshTyped, EmptySeq DEF Types

\* The stream ends: both ends start afresh.
LEMMA EndStreamTypes ==
    ASSUME Invariant, Types, NEW protocol \in BOOLEAN, EndStream(protocol),
           UNCHANGED <<engine, screen, shown, toggles, unfit>>, faults' \in 0..MaxFaults
    PROVE  Types'
<1> DEFINE short == IF link.shown THEN 0
                    ELSE IF link.short < Unhealthy THEN link.short + 1 ELSE Unhealthy
           cut == link.disconnected \/ protocol \/ short = Unhealthy
<1>1. /\ down' = <<>> /\ hand' = Nothing /\ encoder' = NewEncoder /\ reader' = NewReader
      /\ link' = [link EXCEPT !.open = FALSE, !.short = short, !.disconnected = cut]
  BY DEF EndStream
<1>2. short \in 0..Unhealthy
  BY FrameAssumption DEF Types
<1> HIDE DEF short, cut
<1>3. link'.short = short
  BY <1>1 DEF Invariant, Typed
<1> QED
  BY <1>1, <1>2, <1>3, FreshTyped, EmptySeq DEF Types

\* An update is read, or one end or the other sends and encodes.
LEMMA StreamTypes ==
    ASSUME Types, UNCHANGED <<engine, screen, toggles, faults, unfit>>,
           link.open, link'.open, link'.short = link.short,
           shown' \in StateType, hand' \in {hand, screen, Nothing},
           encoder' \in EncoderType, Lists(encoder'.cache, ToSet(encoder'.cache)),
           down' \in Seq(Updates), reader' \in ReaderType
    PROVE  Types'
  BY DEF Types

\* What is sent with a frame.
LEMMA SendFrameTypes ==
    ASSUME Types, SendFrame
    PROVE  LET from == IF pending.resync THEN NewEncoder ELSE encoder
               g == Encoded(from.cache, hand.images)
               u == ImagesUpdate(g.uploads)
               f == FrameUpdate(hand, Base(from.last, hand), g.evicted)
           IN  /\ u \in Updates /\ f \in Updates
               /\ down' = IF g.uploads = {} THEN Append(down, f) ELSE Append(Append(down, u), f)
               /\ encoder' = [last |-> hand, cache |-> g.cache] /\ encoder' \in EncoderType
               /\ Lists(g.cache, (ToSet(from.cache) \cup hand.images) \ g.evicted)
               /\ g.uploads = hand.images \ ToSet(from.cache)
               /\ g.evicted \subseteq ToSet(from.cache) \ hand.images
<1> DEFINE from == IF pending.resync THEN NewEncoder ELSE encoder
           g == Encoded(from.cache, hand.images)
           u == ImagesUpdate(g.uploads)
           b == Base(from.last, hand)
           f == FrameUpdate(hand, b, g.evicted)
           held == ToSet(from.cache)
<1>1. /\ hand # Nothing
      /\ down' = down \o (IF g.uploads = {} THEN <<f>> ELSE <<u, f>>)
      /\ encoder' = [last |-> hand, cache |-> g.cache]
  BY DEF SendFrame
<1>2. from \in EncoderType /\ Lists(from.cache, held)
  BY FreshTyped DEF Types
<1>3. /\ hand \in StateType /\ IsFiniteSet(hand.images) /\ hand.images \subseteq Images
  BY <1>1 DEF Types, StateType
<1> HIDE DEF from
<1>4. held \subseteq Images
  <2>1. from.cache \in Seq(Images)
    BY <1>2 DEF EncoderType
  <2> QED
    BY <2>1, LenProperties, ElementOfSeq DEF ToSet
<1> HIDE DEF held
<1>5. /\ g.uploads = hand.images \ held
      /\ g.evicted \subseteq held \ hand.images
      /\ Lists(g.cache, (held \cup hand.images) \ g.evicted)
  BY <1>2, <1>3, EncodedRight
<1> HIDE DEF g
<1>6. g.cache \in Seq(Images)
  <2>1. (held \cup hand.images) \ g.evicted \subseteq Images
    BY <1>3, <1>4
  <2> QED
    BY <1>5, <2>1, SeqMonotonic DEF Lists
<1>7. b \in (0..MaxGeneration) \cup {Nothing}
  BY <1>2 DEF Base, EncoderType, StateType
<1> HIDE DEF b
<1>8. u \in Updates /\ f \in Updates
  <2>1. g.uploads \in SUBSET Images /\ g.evicted \in SUBSET Images
    BY <1>3, <1>4, <1>5
  <2>2. u \in [kind : {"images"}, images : SUBSET Images]
    BY <2>1 DEF ImagesUpdate
  <2>3. f \in FrameType
    BY <1>3, <1>7, <2>1 DEF FrameUpdate, FrameType
  <2> QED
    BY <2>2, <2>3 DEF Updates
<1>9. encoder' \in EncoderType
  BY <1>1, <1>3, <1>6 DEF EncoderType
<1> HIDE DEF u, f
<1>10. down' = IF g.uploads = {} THEN Append(down, f) ELSE Append(Append(down, u), f)
  <2>1. down \in Seq(Updates)
    BY DEF Types
  <2>2. Append(down, f) = down \o <<f>>
    BY <1>8, <2>1, AppendIsConcat
  <2>3. Append(Append(down, u), f) = down \o <<u, f>>
    <3>1. Append(down, u) \in Seq(Updates) /\ Append(down, u) = down \o <<u>>
      BY <1>8, <2>1, AppendProperties, AppendIsConcat
    <3>2. Append(Append(down, u), f) = (down \o <<u>>) \o <<f>>
      BY <1>8, <3>1, AppendIsConcat
    <3>3. <<u>> \in Seq(Updates) /\ <<f>> \in Seq(Updates) /\ <<u>> \o <<f>> = <<u, f>>
      <4>1. <<u>> \in Seq(Updates) /\ <<f>> \in Seq(Updates)
        BY <1>8, ShortSeq
      <4>2. <<u, f>> \in Seq(Updates)
        BY <1>8, ShortSeq
      <4>3. /\ Len(<<u>>) = 1 /\ <<u>>[1] = u /\ Len(<<f>>) = 1 /\ <<f>>[1] = f
            /\ Len(<<u, f>>) = 2 /\ <<u, f>>[1] = u /\ <<u, f>>[2] = f
        OBVIOUS
      <4> DEFINE p == <<u>>
                 q == <<f>>
                 r == <<u, f>>
      <4> HIDE DEF p, q, r
      <4>4. /\ p \o q \in Seq(Updates) /\ Len(p \o q) = Len(p) + Len(q)
            /\ \A i \in 1..(Len(p) + Len(q)) :
                   (p \o q)[i] = IF i <= Len(p) THEN p[i] ELSE q[i - Len(p)]
        BY <4>1, ConcatProperties DEF p, q
      <4>5. /\ Len(p) = 1 /\ p[1] = u /\ Len(q) = 1 /\ q[1] = f
            /\ Len(r) = 2 /\ r[1] = u /\ r[2] = f /\ r \in Seq(Updates)
        BY <4>2, <4>3 DEF p, q, r
      <4>6. Len(p \o q) = Len(r) /\ \A i \in 1..2 : (p \o q)[i] = r[i]
        BY <4>4, <4>5
      <4>7. p \o q = r
        BY <4>4, <4>5, <4>6, SeqEqual
      <4> QED
        BY <4>1, <4>7 DEF p, q, r
    <3>4. (down \o <<u>>) \o <<f>> = down \o (<<u>> \o <<f>>)
      BY <2>1, <3>3, ConcatAssociative
    <3> QED
      BY <3>2, <3>3, <3>4
  <2> QED
    BY <1>1, <2>2, <2>3
<1> QED
  BY <1>1, <1>5, <1>8, <1>9, <1>10 DEF from, g, u, b, f, held

\* Every step of the host keeps the types.
LEMMA HostTypes ==
    ASSUME Invariant, Types, Host
    PROVE  Types'
<1>1. CASE Publish \/ CaptureForResume
  <2>1. screen' = engine /\ UNCHANGED <<engine, hand, encoder, down, shown, reader, link,
                                        toggles, faults, unfit>>
    BY <1>1 DEF Publish, CaptureForResume, clientVars, boundVars
  <2> QED
    BY <2>1 DEF Types
<1>2. CASE (\E sent \in BOOLEAN : ReadSetPaused(sent)) \/ ReadResync
  <2>1. UNCHANGED <<engine, screen, hand, encoder, down, shown, reader, link,
                    toggles, faults, unfit>>
    BY <1>2 DEF ReadSetPaused, ReadResync, clientVars, boundVars
  <2> QED
    BY <2>1 DEF Types
<1>3. CASE SendPaused
  <2> DEFINE b == pending.acknowledge
             c == IF b THEN encoder ELSE [encoder EXCEPT !.cache = <<>>]
  <2>1. /\ link.open /\ b # Nothing
        /\ down' = Append(down, PausedUpdate(b)) /\ encoder' = c
        /\ UNCHANGED <<engine, screen, hand, shown, reader, link, toggles, faults, unfit>>
    BY <1>3 DEF SendPaused, clientVars, boundVars
  <2>2. b \in BOOLEAN
    BY <2>1 DEF Invariant, Typed
  <2>3. down' \in Seq(Updates)
    <3>1. PausedUpdate(b) \in Updates
      BY <2>2 DEF PausedUpdate, Updates
    <3>2. down \in Seq(Updates)
      BY DEF Types
    <3> QED
      BY <2>1, <3>1, <3>2, AppendProperties
  <2>4. c \in EncoderType /\ Lists(c.cache, ToSet(c.cache))
    <3>1. CASE b
      BY <3>1 DEF Types
    <3>2. CASE ~b
      <4>1. encoder.last \in StateType \cup {Nothing}
        BY DEF Types, EncoderType
      <4>2. c.last = encoder.last /\ c.cache = NewEncoder.cache /\ c \in EncoderType
        BY <3>2, <4>1, EmptySeq DEF Types, EncoderType, NewEncoder
      <4> QED
        BY <4>2, FreshTyped
    <3> QED
      BY <3>1, <3>2
  <2> HIDE DEF b, c
  <2> QED
    BY <2>1, <2>3, <2>4, StreamTypes DEF Types
<1>4. CASE TakeState
  <2>1. /\ link.open /\ hand' = screen
        /\ UNCHANGED <<engine, screen, encoder, down, shown, reader, link, toggles, faults, unfit>>
    BY <1>4 DEF TakeState, clientVars, boundVars
  <2> QED
    BY <2>1, StreamTypes DEF Types
<1>5. CASE SendFrame
  <2> DEFINE from == IF pending.resync THEN NewEncoder ELSE encoder
             g == Encoded(from.cache, hand.images)
             u == ImagesUpdate(g.uploads)
             f == FrameUpdate(hand, Base(from.last, hand), g.evicted)
             held == (ToSet(from.cache) \cup hand.images) \ g.evicted
  <2>1. /\ link.open /\ hand' = Nothing
        /\ UNCHANGED <<engine, screen, shown, reader, link, toggles, faults, unfit>>
    BY <1>5 DEF SendFrame, clientVars, boundVars
  <2>2. /\ u \in Updates /\ f \in Updates
        /\ down' = IF g.uploads = {} THEN Append(down, f) ELSE Append(Append(down, u), f)
        /\ encoder' = [last |-> hand, cache |-> g.cache] /\ encoder' \in EncoderType
        /\ Lists(g.cache, held)
    BY <1>5, SendFrameTypes
  <2> HIDE DEF from, g, u, f, held
  <2>3. down' \in Seq(Updates)
    <3>1. down \in Seq(Updates)
      BY DEF Types
    <3>2. Append(down, f) \in Seq(Updates) /\ Append(down, u) \in Seq(Updates)
      BY <2>2, <3>1, AppendProperties
    <3>3. Append(Append(down, u), f) \in Seq(Updates)
      BY <2>2, <3>2, AppendProperties
    <3> QED
      BY <2>2, <3>2, <3>3
  <2>4. Lists(encoder'.cache, ToSet(encoder'.cache))
    <3>1. encoder'.cache = g.cache /\ ToSet(g.cache) = held
      BY <2>2 DEF Lists
    <3> QED
      BY <2>2, <3>1
  <2> QED
    BY <2>1, <2>2, <2>3, <2>4, StreamTypes DEF Types
<1> QED
  BY <1>1, <1>2, <1>3, <1>4, <1>5 DEF Host

\* Every step of the client's reader keeps the types.
LEMMA ClientTypes ==
    ASSUME Invariant, Types, Client
    PROVE  Types'
<1>1. down # <<>> => Head(down) \in Updates /\ Tail(down) \in Seq(Updates)
  BY HeadTailProperties DEF Types
<1>2. reader.images \in SUBSET Images /\ reader.resyncing \in BOOLEAN
  BY DEF Types, ReaderType
<1>3. CASE ReadImages
  <2>1. /\ link.open /\ down # <<>> /\ Head(down).kind = "images" /\ down' = Tail(down)
        /\ reader' = [reader EXCEPT !.images = @ \cup Head(down).images]
        /\ UNCHANGED <<engine, screen, hand, encoder, shown, link, toggles, faults, unfit>>
    BY <1>3 DEF ReadImages, Incoming, hostVars, boundVars
  <2>2. Head(down).images \in SUBSET Images
    BY <1>1, <2>1 DEF Updates, FrameType
  <2>3. reader' \in ReaderType
    BY <1>2, <2>1, <2>2 DEF Types, ReaderType
  <2> QED
    BY <1>1, <2>1, <2>3, StreamTypes DEF Types
<1>4. CASE ReadPaused
  <2> DEFINE kept == IF Head(down).paused THEN reader.images \cap shown.images ELSE {}
  <2>1. /\ link.open /\ down # <<>> /\ down' = Tail(down)
        /\ link' = [link EXCEPT !.confirmed = Head(down).paused]
        /\ reader' = [reader EXCEPT !.images = kept]
        /\ UNCHANGED <<engine, screen, hand, encoder, shown, toggles, faults, unfit>>
    BY <1>4 DEF ReadPaused, Incoming, hostVars, boundVars
  <2>2. kept \in SUBSET Images
    BY <1>2
  <2> HIDE DEF kept
  <2>3. reader' \in ReaderType
    BY <1>2, <2>1, <2>2 DEF Types, ReaderType
  <2>4. link'.open /\ link'.short = link.short
    BY <2>1 DEF Invariant, Typed
  <2> QED
    BY <1>1, <2>1, <2>3, <2>4, StreamTypes DEF Types
<1>5. CASE IgnoreDelta
  <2>1. /\ link.open /\ down # <<>> /\ down' = Tail(down)
        /\ UNCHANGED <<engine, screen, hand, encoder, shown, reader, link, toggles, faults, unfit>>
    BY <1>5 DEF IgnoreDelta, Incoming, hostVars, clientVars, boundVars
  <2> QED
    BY <1>1, <2>1, StreamTypes DEF Types
<1>6. CASE ShowFrame
  <2> DEFINE f == Head(down)
             kept == reader.images \ f.evicted
             left == IF reader.resyncing THEN kept \cap f.state.images ELSE kept
  <2>1. /\ link.open /\ down # <<>> /\ f.kind = "frame" /\ down' = Tail(down)
        /\ shown' = f.state
        /\ reader' = [resyncing |-> FALSE, images |-> left]
        /\ link' = [link EXCEPT !.shown = TRUE, !.resubscribed = FALSE,
                                !.disconnected = @ /\ ~link.resubscribed]
        /\ UNCHANGED <<engine, screen, hand, encoder, toggles, faults, unfit>>
    BY <1>6 DEF ShowFrame, Incoming, hostVars, boundVars
  <2>2. f.state \in StateType
    BY <1>1, <2>1 DEF Updates, FrameType
  <2>3. left \in SUBSET Images
    BY <1>2
  <2> HIDE DEF left
  <2>4. reader' \in ReaderType
    BY <2>1, <2>3 DEF ReaderType
  <2>5. link'.open /\ link'.short = link.short
    BY <2>1 DEF Invariant, Typed
  <2> QED
    BY <1>1, <2>1, <2>2, <2>4, <2>5, StreamTypes DEF Types
<1>7. CASE SkipFrame
  <2>1. /\ link.open /\ down # <<>> /\ down' = Tail(down)
        /\ reader' = [images |-> {}, resyncing |-> TRUE]
        /\ UNCHANGED <<engine, screen, hand, encoder, shown, link, toggles, faults, unfit>>
    BY <1>7 DEF SkipFrame, Incoming, hostVars, boundVars
  <2>2. reader' \in ReaderType
    BY <2>1 DEF ReaderType
  <2> QED
    BY <1>1, <2>1, <2>2, StreamTypes DEF Types
<1>8. CASE RejectFrame
  <2>1. EndStream(TRUE) /\ UNCHANGED <<engine, screen, shown, toggles, faults, unfit>>
    BY <1>8 DEF RejectFrame, boundVars
  <2> QED
    BY <2>1, EndStreamTypes DEF Types
<1>9. CASE LoseStream
  <2>1. /\ EndStream(FALSE) /\ faults < MaxFaults /\ faults' = faults + 1
        /\ UNCHANGED <<engine, screen, shown, toggles, unfit>>
    BY <1>9 DEF LoseStream
  <2>2. faults' \in 0..MaxFaults
    BY <2>1, FrameAssumption DEF Types
  <2> QED
    BY <2>1, <2>2, EndStreamTypes
<1>10. CASE Resubscribe
  <2>1. /\ ~link.open /\ screen' = engine
        /\ link' = [link EXCEPT !.open = TRUE, !.confirmed = FALSE,
                                !.resubscribed = TRUE, !.shown = FALSE]
        /\ UNCHANGED <<engine, hand, encoder, down, shown, reader, toggles, faults, unfit>>
    BY <1>10 DEF Resubscribe, boundVars
  <2>2. link'.open /\ link'.short = link.short
    BY <2>1 DEF Invariant, Typed
  <2> QED
    BY <2>1, <2>2 DEF Types
<1>11. CASE RefuseSubscription
  <2>1. /\ ~link.open /\ faults < MaxFaults /\ faults' = faults + 1
        /\ link' = [link EXCEPT !.disconnected = TRUE]
        /\ UNCHANGED <<engine, screen, hand, encoder, down, shown, reader, toggles, unfit>>
    BY <1>11 DEF RefuseSubscription, hostVars
  <2>2. ~link'.open /\ link'.short = link.short
    BY <2>1 DEF Invariant, Typed
  <2>3. faults' \in 0..MaxFaults
    BY <2>1, FrameAssumption DEF Types
  <2> QED
    BY <2>1, <2>2, <2>3 DEF Types
<1> QED
  BY <1>3, <1>4, <1>5, <1>6, <1>7, <1>8, <1>9, <1>10, <1>11 DEF Client

LEMMA StepTypes == Invariant /\ Types /\ [Next]_vars => Types'
<1> SUFFICES ASSUME Invariant, Types, [Next]_vars PROVE Types'
  OBVIOUS
<1>1. ASSUME NEW s \in Screens, Output(s)
      PROVE  Types'
  <2> DEFINE g == engine.generation + 1
  <2>1. /\ engine.generation < MaxGeneration /\ engine' = State(s, g)
        /\ unfit' = IF s.fits THEN unfit ELSE unfit + 1
        /\ UNCHANGED <<screen, hand, encoder, down, shown, reader, link, toggles, faults>>
    BY <1>1 DEF Output, clientVars
  <2>2. engine.generation \in 0..MaxGeneration
    BY DEF Types, StateType
  <2>3. g \in 0..MaxGeneration
    BY <2>1, <2>2, FrameAssumption
  <2>4. engine' \in StateType /\ IsFiniteSet(engine'.images) /\ engine'.generation = g
    BY <2>1, <2>3, StateTyped
  <2>5. unfit' \in Nat /\ unfit' <= engine'.generation
    BY <2>1, <2>2, <2>4 DEF Types
  <2> HIDE DEF g
  <2> QED
    BY <2>1, <2>4, <2>5 DEF Types
<1>2. CASE SetWakeupEnabled
  <2>1. /\ toggles < MaxToggles /\ toggles' = toggles + 1
        /\ UNCHANGED <<engine, screen, hand, encoder, down, shown, reader, link, faults, unfit>>
    BY <1>2 DEF SetWakeupEnabled, hostVars
  <2>2. toggles' \in 0..MaxToggles
    BY <2>1, FrameAssumption DEF Types
  <2> QED
    BY <2>1, <2>2 DEF Types
<1>3. CASE UNCHANGED vars
  BY <1>3 DEF vars, hostVars, clientVars, boundVars, Types
<1> QED
  BY <1>1, <1>2, <1>3, HostTypes, ClientTypes DEF Next

\* Every reachable state is well typed, with the counts within their bounds,
\* and the host's cache (GraphicsEncoder of remote/graphics.rs) names no image
\* twice, for every size of the connection and the cache, any images and any
\* number of frames, pauses and faults.
THEOREM TypeCorrect == Spec => []TypeOK
<1>1. Invariant /\ Types => TypeOK
  <2> SUFFICES ASSUME Invariant, Types PROVE TypeOK
    OBVIOUS
  <2>1. /\ encoder.last \in StateType \cup {Nothing}
        /\ encoder.cache \in Seq(Images) /\ IsInjective(encoder.cache)
    BY DEF Types, EncoderType, Lists
  <2>2. \A i \in 1..Len(down) : \/ down[i] \in FrameType
                                \/ down[i] \in [kind : {"images"}, images : SUBSET Images]
                                \/ down[i] \in [kind : {"paused"}, paused : BOOLEAN]
    <3>1. \A i \in 1..Len(down) : down[i] \in Updates
      BY ElementOfSeq DEF Types
    <3> QED
      BY <3>1 DEF Updates
  <2>3. \A i \in 1..Len(up) : up[i] = Resync \/ up[i] \in [kind : {"setPaused"}, paused : BOOLEAN]
    <3>1. \A i \in 1..Len(up) : up[i] \in Requests
      BY ElementOfSeq DEF Invariant, Typed
    <3> QED
      BY <3>1 DEF Requests
  <2>4. link \in [open : BOOLEAN, disconnected : BOOLEAN, confirmed : BOOLEAN,
                  resubscribed : BOOLEAN, shown : BOOLEAN, short : 0..Unhealthy]
    BY DEF Invariant, Typed, Types
  <2>5. unfit \in 0..MaxGeneration
    <3>1. engine.generation \in 0..MaxGeneration
      BY DEF Types, StateType
    <3> QED
      BY <3>1, FrameAssumption DEF Types
  <2> QED
    BY <2>1, <2>2, <2>3, <2>4, <2>5 DEF Invariant, Typed, Types, ReaderType, TypeOK
<1>2. Init => Invariant /\ Types
  BY InitInvariant, InitTypes
<1>3. Invariant /\ Types /\ [Next]_vars => (Invariant /\ Types)'
  BY StepInvariant, StepTypes
<1> QED
  BY <1>1, <1>2, <1>3, PTL DEF Spec

-----------------------------------------------------------------------------
(* While every state fits, the two ends stay in step.                      *)

View == [images |-> reader.images, shown |-> shown, confirmed |-> link.confirmed]

\* A client that has read all that was sent, and is as in y then, shows what the
\* host's next delta starts from, and has the images that the host counts on; a
\* frame that was taken is sent to a view that is not paused.
Agrees(y) ==
    /\ encoder.last # Nothing => y.shown = encoder.last
    /\ IF y.confirmed THEN y.images \subseteq ToSet(encoder.cache)
                      ELSE y.images = ToSet(encoder.cache)
    /\ hand # Nothing => ~y.confirmed
    /\ IF pending.acknowledge = Nothing THEN y.confirmed = pending.paused
                                        ELSE pending.acknowledge = pending.paused

\* Nobody starts afresh, as every state fits.
Smooth ==
    /\ engine.fits /\ screen.fits /\ (hand # Nothing => hand.fits)
    /\ ~reader.resyncing /\ ~pending.resync
    /\ \A i \in 1..Len(up) : up[i] # Resync

InStep ==
    unfit = 0 => /\ Smooth
                 /\ link.open => \E y : Leads(down, View, y) /\ Agrees(y)

LEMMA InitInStep == Init => InStep
<1> SUFFICES ASSUME Init PROVE InStep
  OBVIOUS
<1>1. PICK s \in Screens : s.fits /\ engine = State(s, 0) /\ screen = engine
  BY DEF Init
<1>2. /\ pending = NewPending /\ hand = Nothing /\ encoder = NewEncoder
      /\ down = <<>> /\ up = <<>> /\ reader = NewReader /\ link.confirmed = FALSE
  BY DEF Init
<1>3. Smooth
  <2>1. Len(up) = 0
    BY <1>2, EmptySeq
  <2> QED
    BY <1>1, <1>2, <2>1, FreshTyped DEF Smooth, State, NewPending
<1>4. Leads(down, View, View)
  BY <1>2, LeadsNowhere
<1>5. Agrees(View)
  BY <1>2, FreshTyped DEF Agrees, View, NewPending
<1> QED
  BY <1>3, <1>4, <1>5 DEF InStep

\* A step that neither writes to the stream nor reads it.
LEMMA QuietInStep ==
    ASSUME InStep, UNCHANGED <<down, reader, shown, encoder>>,
           link'.confirmed = link.confirmed, link'.open => link.open,
           unfit' = 0 => unfit = 0 /\ Smooth',
           unfit = 0 => \A y : Agrees(y) => Agrees(y)'
    PROVE  InStep'
<1>1. SUFFICES ASSUME unfit' = 0, link'.open
               PROVE  \E y : Leads(down', View', y) /\ Agrees(y)'
  BY DEF InStep
<1>2. PICK y : Leads(down, View, y) /\ Agrees(y)
  BY <1>1 DEF InStep
<1>3. down' = down /\ View' = View
  BY DEF View
<1>4. Agrees(y)'
  BY <1>1, <1>2
<1>5. Leads(down', View', y)
  BY <1>2, <1>3
<1> QED
  BY <1>4, <1>5

\* The stream ends: nothing is known of the next one.
LEMMA EndStreamInStep ==
    ASSUME Invariant, InStep, NEW protocol \in BOOLEAN, EndStream(protocol),
           UNCHANGED <<engine, screen, unfit>>
    PROVE  InStep'
<1>1. /\ up' = <<>> /\ hand' = Nothing /\ pending' = NewPending /\ reader' = NewReader
      /\ ~link'.open
  BY DEF EndStream, Invariant, Typed
<1>2. Len(up') = 0
  BY <1>1, EmptySeq
<1>3. unfit' = 0 => Smooth'
  BY <1>1, <1>2, FreshTyped DEF InStep, Smooth, NewPending
<1> QED
  BY <1>1, <1>3 DEF InStep

\* A new stream begins with nothing on either side.
LEMMA ResubscribeInStep ==
    ASSUME Invariant, Types, InStep, Resubscribe
    PROVE  InStep'
<1>1. /\ ~link.open /\ screen' = engine
      /\ link' = [link EXCEPT !.open = TRUE, !.confirmed = FALSE,
                              !.resubscribed = TRUE, !.shown = FALSE]
      /\ up' = IF paused THEN <<SetPaused(TRUE)>> ELSE <<>>
      /\ UNCHANGED <<engine, pending, hand, encoder, down, shown, reader, unfit>>
  BY DEF Resubscribe, boundVars
<1>2. /\ down = <<>> /\ hand = Nothing /\ pending = NewPending
      /\ encoder = NewEncoder /\ reader = NewReader /\ link'.confirmed = FALSE
  BY <1>1 DEF Invariant, Typed, Types
<1>3. \A i \in 1..Len(up') : up'[i] # Resync
  <2>1. SetPaused(TRUE) # Resync
    BY DEF SetPaused, Resync
  <2>2. CASE paused
    <3>1. up' = <<SetPaused(TRUE)>>
      BY <1>1, <2>2
    <3>2. \A i \in 1..Len(up') : up'[i] = SetPaused(TRUE)
      BY <3>1, ShortSeq
    <3> QED
      BY <2>1, <3>2
  <2>3. CASE ~paused
    BY <1>1, <2>3, EmptySeq
  <2> QED
    BY <2>2, <2>3
<1>4. unfit' = 0 => Smooth'
  BY <1>1, <1>3 DEF InStep, Smooth
<1> PICK y : y = View'
  OBVIOUS
<1>5. Leads(down', View', y)
  BY <1>1, <1>2, LeadsNowhere
<1>6. Agrees(y)'
  <2>1. /\ y.images = {} /\ y.confirmed = FALSE /\ encoder' = NewEncoder
        /\ hand' = Nothing /\ pending' = NewPending
    BY <1>1, <1>2, FreshTyped DEF View
  <2> QED
    BY <2>1, FreshTyped DEF Agrees, NewPending
<1> QED
  BY <1>4, <1>5, <1>6 DEF InStep

\* The host answers a view that asked to be paused or resumed.
LEMMA SendPausedInStep ==
    ASSUME Invariant, Types, InStep, SendPaused
    PROVE  InStep'
<1> DEFINE b == pending.acknowledge
           u == PausedUpdate(b)
<1>1. /\ link.open /\ hand = Nothing /\ b # Nothing
      /\ down' = Append(down, u)
      /\ encoder' = IF b THEN encoder ELSE [encoder EXCEPT !.cache = <<>>]
      /\ pending' = [pending EXCEPT !.acknowledge = Nothing]
      /\ UNCHANGED <<engine, screen, hand, up, shown, reader, link, unfit>>
  BY DEF SendPaused, clientVars, boundVars
<1>2. b \in BOOLEAN
  BY <1>1 DEF Invariant, Typed
<1>3. /\ pending'.acknowledge = Nothing /\ pending'.paused = pending.paused
      /\ pending'.resync = pending.resync
  BY <1>1 DEF Invariant, Typed
<1>4. unfit' = 0 => Smooth'
  BY <1>1, <1>3 DEF InStep, Smooth
<1>5. SUFFICES ASSUME unfit = 0
               PROVE  \E z : Leads(down', View', z) /\ Agrees(z)'
  BY <1>1, <1>4 DEF InStep
<1>6. PICK y : Leads(down, View, y) /\ Agrees(y)
  BY <1>1, <1>5 DEF InStep
<1> PICK z : z = [images |-> IF b THEN y.images \cap y.shown.images ELSE {},
                 shown |-> y.shown, confirmed |-> b]
  OBVIOUS
<1>7. Reads(y, u, z)
  BY DEF Reads, PausedUpdate
<1>8. Leads(down', View', z)
  <2>1. u \in Updates /\ down \in Seq(Updates)
    BY <1>2 DEF PausedUpdate, Updates, Types
  <2>2. View' = View
    BY <1>1 DEF View
  <2> HIDE DEF u
  <2>3. Leads(Append(down, u), View, z)
    BY <1>6, <1>7, <2>1, LeadsFurther
  <2> QED
    BY <1>1, <2>2, <2>3
<1>9. Agrees(z)'
  <2>1. b = pending.paused
    BY <1>1, <1>6 DEF Agrees
  <2>2. encoder'.last = encoder.last
    BY <1>1 DEF Types, EncoderType
  <2>3. CASE b
    <3>1. y.images \subseteq ToSet(encoder.cache)
      BY <1>6 DEF Agrees
    <3>2. encoder' = encoder /\ z.images \subseteq y.images
      BY <1>1, <2>3
    <3> QED
      BY <1>1, <1>2, <1>3, <1>6, <2>1, <2>2, <2>3, <3>1, <3>2 DEF Agrees
  <2>4. CASE ~b
    <3>1. ToSet(encoder'.cache) = {}
      <4>1. encoder'.cache = NewEncoder.cache
        BY <1>1, <2>4 DEF Types, EncoderType, NewEncoder
      <4> QED
        BY <4>1, FreshTyped
    <3>2. z.images = {} /\ z.confirmed = FALSE
      BY <1>2, <2>4
    <3> QED
      BY <1>1, <1>2, <1>3, <1>6, <2>1, <2>2, <2>4, <3>1, <3>2 DEF Agrees
  <2> QED
    BY <2>3, <2>4
<1> QED
  BY <1>8, <1>9

\* The frame that is sent starts from what the client will show, and its images
\* are those that the client will have.
LEMMA SendFrameInStep ==
    ASSUME Invariant, Types, InStep, SendFrame
    PROVE  InStep'
<1> DEFINE from == IF pending.resync THEN NewEncoder ELSE encoder
           g == Encoded(from.cache, hand.images)
           u == ImagesUpdate(g.uploads)
           f == FrameUpdate(hand, Base(from.last, hand), g.evicted)
<1>1. /\ link.open /\ hand # Nothing /\ hand' = Nothing
      /\ pending' = [pending EXCEPT !.resync = FALSE]
      /\ UNCHANGED <<engine, screen, up, shown, reader, link, unfit>>
  BY DEF SendFrame, clientVars, boundVars
<1>2. /\ u \in Updates /\ f \in Updates
      /\ down' = IF g.uploads = {} THEN Append(down, f) ELSE Append(Append(down, u), f)
      /\ encoder' = [last |-> hand, cache |-> g.cache]
      /\ Lists(g.cache, (ToSet(from.cache) \cup hand.images) \ g.evicted)
      /\ g.uploads = hand.images \ ToSet(from.cache)
      /\ g.evicted \subseteq ToSet(from.cache) \ hand.images
  BY SendFrameTypes
<1>3. /\ pending'.acknowledge = pending.acknowledge /\ pending'.paused = pending.paused
      /\ ~pending'.resync
  BY <1>1 DEF Invariant, Typed
<1>4. unfit' = 0 => Smooth'
  BY <1>1, <1>3 DEF InStep, Smooth
<1>5. SUFFICES ASSUME unfit = 0
               PROVE  \E z : Leads(down', View', z) /\ Agrees(z)'
  BY <1>1, <1>4 DEF InStep
<1>6. from = encoder /\ hand.fits
  BY <1>1, <1>5 DEF InStep, Smooth
<1>7. PICK y : Leads(down, View, y) /\ Agrees(y)
  BY <1>1, <1>5 DEF InStep
<1>9. y.images = ToSet(encoder.cache) /\ ~y.confirmed
  BY <1>1, <1>7 DEF Agrees
<1>10. PICK m : m = [images |-> y.images \cup g.uploads, shown |-> y.shown,
                     confirmed |-> y.confirmed]
  OBVIOUS
<1>11. Reads(y, u, m)
  BY <1>10 DEF Reads, ImagesUpdate
<1>12. PICK z : z = [images |-> m.images \ g.evicted, shown |-> hand, confirmed |-> y.confirmed]
  OBVIOUS
<1>13. m.images = ToSet(encoder.cache) \cup hand.images
  BY <1>2, <1>6, <1>9, <1>10
<1>14. ASSUME NEW x, x.images = m.images, x.shown = y.shown, x.confirmed = y.confirmed
       PROVE  Reads(x, f, z)
  <2>1. f.kind = "frame" /\ f.state = hand /\ f.evicted = g.evicted
        /\ f.base = Base(encoder.last, hand)
    BY <1>6 DEF FrameUpdate
  <2> HIDE DEF f, g
  <2>2. IsFull(f) \/ (f.base = x.shown.generation /\ f.state.size = x.shown.size)
    BY <1>7, <1>14, <2>1 DEF Base, IsFull, Agrees
  <2>3. hand.images \subseteq x.images \ g.evicted
    BY <1>2, <1>13, <1>14
  <2> QED
    BY <1>6, <1>12, <1>14, <2>1, <2>2, <2>3 DEF Reads
<1> HIDE DEF u, f, g, from
<1>15. Leads(down', View', z)
  <2>1. View' = View /\ down \in Seq(Updates)
    BY <1>1 DEF View, Types
  <2>2. CASE g.uploads = {}
    <3>1. y.images = m.images
      BY <1>10, <2>2
    <3>2. Reads(y, f, z)
      BY <1>14, <3>1
    <3>3. Leads(Append(down, f), View, z)
      BY <1>2, <1>7, <2>1, <3>2, LeadsFurther
    <3> QED
      BY <1>2, <2>1, <2>2, <3>3
  <2>3. CASE g.uploads # {}
    <3>1. Reads(m, f, z)
      BY <1>10, <1>14
    <3>2. Append(down, u) \in Seq(Updates) /\ Leads(Append(down, u), View, m)
      BY <1>2, <1>7, <1>11, <2>1, LeadsFurther, AppendProperties
    <3>3. Leads(Append(Append(down, u), f), View, z)
      BY <1>2, <3>1, <3>2, LeadsFurther
    <3> QED
      BY <1>2, <2>1, <2>3, <3>3
  <2> QED
    BY <2>2, <2>3
<1>16. Agrees(z)'
  <2>1. z.shown = hand /\ z.confirmed = y.confirmed /\ z.images = m.images \ g.evicted
    BY <1>12
  <2>2. ToSet(encoder'.cache) = z.images
    BY <1>2, <1>6, <1>13, <2>1 DEF Lists
  <2> QED
    BY <1>1, <1>2, <1>3, <1>7, <1>9, <2>1, <2>2 DEF Agrees
<1> QED
  BY <1>15, <1>16

\* Every step of the host keeps the ends in step.
LEMMA HostInStep ==
    ASSUME Invariant, Types, InStep, Host
    PROVE  InStep'
<1>1. CASE Publish
  <2>1. /\ screen' = engine /\ pending' = [pending EXCEPT !.state = @ \/ ~pending.paused]
        /\ UNCHANGED <<engine, hand, encoder, down, up, shown, reader, link, unfit>>
    BY <1>1 DEF Publish, clientVars, boundVars
  <2>2. /\ pending'.acknowledge = pending.acknowledge /\ pending'.paused = pending.paused
        /\ pending'.resync = pending.resync
    BY <2>1 DEF Invariant, Typed
  <2>3. unfit = 0 => Smooth'
    BY <2>1, <2>2 DEF InStep, Smooth
  <2>4. \A y : Agrees(y) => Agrees(y)'
    BY <2>1, <2>2 DEF Agrees
  <2> QED
    BY <2>1, <2>3, <2>4, QuietInStep
<1>2. CASE CaptureForResume
  <2>1. /\ screen' = engine
        /\ pending' = [pending EXCEPT !.resume = FALSE, !.state = @ \/ ~pending.paused]
        /\ UNCHANGED <<engine, hand, encoder, down, up, shown, reader, link, unfit>>
    BY <1>2 DEF CaptureForResume, clientVars, boundVars
  <2>2. /\ pending'.acknowledge = pending.acknowledge /\ pending'.paused = pending.paused
        /\ pending'.resync = pending.resync
    BY <2>1 DEF Invariant, Typed
  <2>3. unfit = 0 => Smooth'
    BY <2>1, <2>2 DEF InStep, Smooth
  <2>4. \A y : Agrees(y) => Agrees(y)'
    BY <2>1, <2>2 DEF Agrees
  <2> QED
    BY <2>1, <2>3, <2>4, QuietInStep
<1>3. ASSUME NEW sent \in BOOLEAN, ReadSetPaused(sent)
      PROVE  InStep'
  <2> DEFINE b == Head(up).paused
  <2>1. /\ up # <<>> /\ up' = Tail(up) /\ Head(up).kind = "setPaused"
        /\ UNCHANGED <<engine, screen, hand, encoder, down, shown, reader, link, unfit>>
    BY <1>3 DEF ReadSetPaused, clientVars, boundVars
  <2>2. unfit = 0 => \A i \in 1..Len(up') : up'[i] # Resync
    <3>1. /\ Len(up) \in Nat /\ Len(up') = Len(up) - 1
          /\ \A i \in 1..Len(up') : up'[i] = up[i + 1]
      BY <2>1, HeadTailProperties, LenProperties DEF Invariant, Typed
    <3> QED
      BY <3>1 DEF InStep, Smooth
  <2>3. b \in BOOLEAN
    <3>1. Head(up) \in Requests
      BY <2>1, HeadTailProperties DEF Invariant, Typed
    <3> QED
      BY <2>1, <3>1 DEF Requests, Resync
  <2>4. CASE pending.paused = b
    <3>1. pending' = pending
      BY <1>3, <2>4 DEF ReadSetPaused
    <3>2. unfit = 0 => Smooth'
      BY <2>1, <2>2, <3>1 DEF InStep, Smooth
    <3>3. \A y : Agrees(y) => Agrees(y)'
      BY <2>1, <3>1 DEF Agrees
    <3> QED
      BY <2>1, <3>2, <3>3, QuietInStep
  <2>5. CASE pending.paused # b
    <3>1. pending' = [pending EXCEPT !.paused = b, !.acknowledge = b,
                                     !.resume = @ \/ (~b /\ sent), !.state = ~b /\ ~sent]
      BY <1>3, <2>5 DEF ReadSetPaused
    <3>2. pending'.paused = b /\ pending'.acknowledge = b /\ pending'.resync = pending.resync
      BY <3>1, ZenonT(60) DEF Invariant, Typed
    <3>3. b # Nothing
      BY <2>3, FrameAssumption
    <3>4. unfit = 0 => Smooth'
      BY <2>1, <2>2, <3>2 DEF InStep, Smooth
    <3> HIDE DEF b
    <3>5. \A y : Agrees(y) => Agrees(y)'
      BY <2>1, <3>2, <3>3 DEF Agrees
    <3> QED
      BY <2>1, <3>4, <3>5, QuietInStep
  <2> QED
    BY <2>4, <2>5
<1>4. CASE ReadResync
  <2>1. up # <<>> /\ Head(up).kind = "resync" /\ unfit' = unfit
    BY <1>4 DEF ReadResync, boundVars
  <2>2. Head(up) = up[1] /\ 1 \in 1..Len(up) /\ up[1] \in Requests
    BY <2>1, HeadTailProperties, EmptySeq, ElementOfSeq DEF Invariant, Typed
  <2>3. up[1] = Resync
    BY <2>1, <2>2 DEF Requests
  <2> QED
    BY <2>1, <2>2, <2>3 DEF InStep, Smooth
<1>5. CASE SendPaused
  BY <1>5, SendPausedInStep
<1>6. CASE TakeState
  <2>1. /\ hand' = screen /\ pending.acknowledge = Nothing /\ ~pending.paused
        /\ pending' = [pending EXCEPT !.state = FALSE]
        /\ UNCHANGED <<engine, screen, encoder, down, up, shown, reader, link, unfit>>
    BY <1>6 DEF TakeState, clientVars, boundVars
  <2>2. /\ pending'.acknowledge = pending.acknowledge /\ pending'.paused = pending.paused
        /\ pending'.resync = pending.resync
    BY <2>1 DEF Invariant, Typed
  <2>3. unfit = 0 => Smooth'
    BY <2>1, <2>2 DEF InStep, Smooth
  <2>4. \A y : Agrees(y) => Agrees(y)'
    BY <2>1, <2>2 DEF Agrees
  <2> QED
    BY <2>1, <2>3, <2>4, QuietInStep
<1>7. CASE SendFrame
  BY <1>7, SendFrameInStep
<1> QED
  BY <1>1, <1>2, <1>3, <1>4, <1>5, <1>6, <1>7 DEF Host

\* The client reads an update, which does to it what was foreseen.
LEMMA ReadInStep ==
    ASSUME Types, InStep, link.open, down # <<>>, down' = Tail(down),
           UNCHANGED <<engine, screen, hand, pending, encoder, up, unfit>>,
           unfit = 0 => ~reader'.resyncing,
           unfit = 0 => \A z : Reads(View, Head(down), z) => z = View'
    PROVE  InStep'
<1>1. SUFFICES ASSUME unfit = 0
               PROVE  Smooth' /\ \E y : Leads(down', View', y) /\ Agrees(y)'
  BY DEF InStep
<1>2. Smooth'
  BY <1>1 DEF InStep, Smooth
<1>3. PICK y : Leads(down, View, y) /\ Agrees(y)
  BY <1>1 DEF InStep
<1>4. PICK z : Reads(View, Head(down), z) /\ Leads(Tail(down), z, y)
  BY <1>3, LeadsOn DEF Types
<1>5. Leads(down', View', y)
  BY <1>1, <1>4
<1>6. Agrees(y)'
  BY <1>3 DEF Agrees
<1> QED
  BY <1>2, <1>5, <1>6

\* While every state fits, the frame at the head of the stream can be shown.
LEMMA FrameApplies ==
    ASSUME Types, InStep, unfit = 0, Incoming("frame")
    PROVE  ~reader.resyncing /\ Applies(Head(down))
<1>1. PICK y : Leads(down, View, y)
  BY DEF InStep, Incoming
<1>2. PICK z : Reads(View, Head(down), z)
  BY <1>1, LeadsOn DEF Types, Incoming
<1>3. Head(down).kind = "frame"
  BY DEF Incoming
<1> QED
  BY <1>2, <1>3 DEF Reads, View, Applies, InStep, Smooth

\* Every step of the client's reader keeps the ends in step.
LEMMA ClientInStep ==
    ASSUME Invariant, Types, InStep, Client
    PROVE  InStep'
<1>1. reader.images \in SUBSET Images /\ reader.resyncing \in BOOLEAN
  BY DEF Types, ReaderType
<1>2. CASE ReadImages
  <2>1. /\ link.open /\ down # <<>> /\ Head(down).kind = "images" /\ down' = Tail(down)
        /\ reader' = [reader EXCEPT !.images = @ \cup Head(down).images]
        /\ UNCHANGED <<engine, screen, hand, pending, encoder, up, shown, link, unfit>>
    BY <1>2 DEF ReadImages, Incoming, hostVars, boundVars
  <2>2. /\ reader'.images = reader.images \cup Head(down).images
        /\ reader'.resyncing = reader.resyncing
    BY <2>1 DEF Types, ReaderType
  <2>3. \A z : Reads(View, Head(down), z) => z = View'
    BY <2>1, <2>2 DEF Reads, View
  <2>4. unfit = 0 => ~reader'.resyncing
    BY <2>2 DEF InStep, Smooth
  <2> QED
    BY <2>1, <2>3, <2>4, ReadInStep
<1>3. CASE ReadPaused
  <2> DEFINE b == Head(down).paused
             kept == IF b THEN reader.images \cap shown.images ELSE {}
  <2>1. /\ link.open /\ down # <<>> /\ Head(down).kind = "paused" /\ down' = Tail(down)
        /\ link' = [link EXCEPT !.confirmed = b]
        /\ reader' = [reader EXCEPT !.images = kept]
        /\ UNCHANGED <<engine, screen, hand, pending, encoder, up, shown, unfit>>
    BY <1>3 DEF ReadPaused, Incoming, hostVars, boundVars
  <2>2. /\ reader'.images = kept /\ reader'.resyncing = reader.resyncing
        /\ link'.confirmed = b
    BY <2>1 DEF Types, ReaderType, Invariant, Typed
  <2>3. \A z : Reads(View, Head(down), z) => z = View'
    BY <2>1, <2>2 DEF Reads, View
  <2>4. unfit = 0 => ~reader'.resyncing
    BY <2>2 DEF InStep, Smooth
  <2> QED
    BY <2>1, <2>3, <2>4, ReadInStep
<1>4. CASE IgnoreDelta
  <2>1. Incoming("frame") /\ reader.resyncing /\ unfit' = unfit
    BY <1>4 DEF IgnoreDelta, boundVars
  <2> QED
    BY <2>1, FrameApplies DEF InStep
<1>5. CASE ShowFrame
  <2> DEFINE f == Head(down)
             kept == reader.images \ f.evicted
             left == IF reader.resyncing THEN kept \cap f.state.images ELSE kept
  <2>1. /\ link.open /\ down # <<>> /\ f.kind = "frame" /\ down' = Tail(down)
        /\ shown' = f.state
        /\ reader' = [resyncing |-> FALSE, images |-> left]
        /\ link' = [link EXCEPT !.shown = TRUE, !.resubscribed = FALSE,
                                !.disconnected = @ /\ ~link.resubscribed]
        /\ UNCHANGED <<engine, screen, hand, pending, encoder, up, unfit>>
    BY <1>5 DEF ShowFrame, Incoming, hostVars, boundVars
  <2>2. link'.confirmed = link.confirmed
    BY <2>1 DEF Invariant, Typed
  <2>3. unfit = 0 => left = kept
    BY DEF InStep, Smooth
  <2>4. ASSUME unfit = 0, NEW z, Reads(View, Head(down), z) PROVE z = View'
    BY <2>1, <2>2, <2>3, <2>4 DEF Reads, View
  <2>5. ~reader'.resyncing
    BY <2>1
  <2> QED
    BY <2>1, <2>4, <2>5, ReadInStep
<1>6. CASE SkipFrame
  <2>1. Incoming("frame") /\ ~Applies(Head(down)) /\ unfit' = unfit
    BY <1>6 DEF SkipFrame, boundVars
  <2> QED
    BY <2>1, FrameApplies DEF InStep
<1>7. CASE RejectFrame
  <2>1. EndStream(TRUE) /\ UNCHANGED <<engine, screen, unfit>>
    BY <1>7 DEF RejectFrame, boundVars
  <2> QED
    BY <2>1, EndStreamInStep
<1>8. CASE LoseStream
  BY <1>8, EndStreamInStep DEF LoseStream
<1>9. CASE Resubscribe
  BY <1>9, ResubscribeInStep
<1>10. CASE RefuseSubscription
  <2>1. /\ ~link.open /\ link' = [link EXCEPT !.disconnected = TRUE]
        /\ UNCHANGED <<engine, screen, hand, pending, encoder, down, up, shown, reader, unfit>>
    BY <1>10 DEF RefuseSubscription, hostVars
  <2>2. ~link'.open
    BY <2>1 DEF Invariant, Typed
  <2> QED
    BY <2>1, <2>2 DEF InStep, Smooth
<1> QED
  BY <1>2, <1>3, <1>4, <1>5, <1>6, <1>7, <1>8, <1>9, <1>10 DEF Client

LEMMA StepInStep == Invariant /\ Types /\ InStep /\ [Next]_vars => InStep'
<1> SUFFICES ASSUME Invariant, Types, InStep, [Next]_vars PROVE InStep'
  OBVIOUS
<1>1. ASSUME NEW s \in Screens, Output(s)
      PROVE  InStep'
  <2>1. /\ engine.generation < MaxGeneration /\ engine' = State(s, engine.generation + 1)
        /\ unfit' = IF s.fits THEN unfit ELSE unfit + 1
        /\ UNCHANGED <<screen, pending, hand, encoder, down, up, shown, reader, link>>
    BY <1>1 DEF Output, clientVars
  <2>2. unfit' = 0 => unfit = 0 /\ engine'.fits
    BY <2>1 DEF State, Types
  <2>3. unfit' = 0 => unfit = 0 /\ Smooth'
    BY <2>1, <2>2 DEF InStep, Smooth
  <2>4. \A y : Agrees(y) => Agrees(y)'
    BY <2>1 DEF Agrees
  <2> QED
    BY <2>1, <2>3, <2>4, QuietInStep
<1>2. CASE SetWakeupEnabled
  <2>1. /\ up' = IF link.open /\ ~link.disconnected THEN Append(up, SetPaused(~paused)) ELSE up
        /\ UNCHANGED <<engine, screen, pending, hand, encoder, down, shown, reader, link, unfit>>
    BY <1>2 DEF SetWakeupEnabled, hostVars
  <2>2. (\A i \in 1..Len(up) : up[i] # Resync) => \A i \in 1..Len(up') : up'[i] # Resync
    <3>1. up \in Seq(Requests) /\ SetPaused(~paused) \in Requests /\ SetPaused(~paused) # Resync
      BY DEF Invariant, Typed, SetPaused, Requests, Resync
    <3>2. CASE up' = Append(up, SetPaused(~paused))
      <4>1. /\ Len(up) \in Nat /\ Len(up') = Len(up) + 1 /\ up'[Len(up) + 1] = SetPaused(~paused)
            /\ \A i \in 1..Len(up) : up'[i] = up[i]
        BY <3>1, <3>2, AppendProperties, LenProperties
      <4>2. \A i \in 1..Len(up') : i \in 1..Len(up) \/ i = Len(up) + 1
        BY <4>1
      <4> QED
        BY <3>1, <4>1, <4>2
    <3> QED
      BY <2>1, <3>2
  <2>3. unfit = 0 => Smooth'
    BY <2>1, <2>2 DEF InStep, Smooth
  <2>4. \A y : Agrees(y) => Agrees(y)'
    BY <2>1 DEF Agrees
  <2> QED
    BY <2>1, <2>3, <2>4, QuietInStep
<1>3. CASE UNCHANGED vars
  <2>1. UNCHANGED <<engine, screen, pending, hand, encoder, down, up, shown, reader, link, unfit>>
    BY <1>3 DEF vars, hostVars, clientVars, boundVars
  <2>2. unfit = 0 => Smooth'
    BY <2>1 DEF InStep, Smooth
  <2>3. \A y : Agrees(y) => Agrees(y)'
    BY <2>1 DEF Agrees
  <2> QED
    BY <2>1, <2>2, <2>3, QuietInStep
<1> QED
  BY <1>1, <1>2, <1>3, HostInStep, ClientInStep DEF Next

LEMMA InStepEver == Spec => [](Types /\ InStep)
<1>1. Init => Invariant /\ Types /\ InStep
  BY InitInvariant, InitTypes, InitInStep
<1>2. Invariant /\ Types /\ InStep /\ [Next]_vars => (Invariant /\ Types /\ InStep)'
  BY StepInvariant, StepTypes, StepInStep
<1> QED
  BY <1>1, <1>2, PTL DEF Spec

\* While every state of the terminal passes validate_state, each frame that
\* arrives applies to the frame shown and names only images the client has
\* (FrameUpdate::apply, GraphicsDecoder::decode), so no full frame is ever asked
\* for, whatever is paused, resumed, evicted, lost and subscribed anew.
THEOREM FramesAlwaysFit == Spec => []FramesFit
<1>1. Types /\ InStep => FramesFit
  BY FrameApplies DEF FramesFit
<1> QED
  BY <1>1, InStepEver, PTL

\* Whenever everything sent was read, the client has the images that the host
\* counts on (GraphicsEncoder, GraphicsDecoder), and no others unless the view
\* is hidden and drops those it does not show (FrameReader::paused).
THEOREM CachesAlwaysAgree == Spec => []CachesAgree
<1>1. Types /\ InStep => CachesAgree
  <2> SUFFICES ASSUME InStep, unfit = 0, link.open, down = <<>>
               PROVE  IF link.confirmed THEN reader.images \subseteq ToSet(encoder.cache)
                                        ELSE reader.images = ToSet(encoder.cache)
    BY DEF CachesAgree
  <2>1. PICK y : Leads(down, View, y) /\ Agrees(y)
    BY DEF InStep
  <2>2. y = View
    BY <2>1, LeadsNowhere
  <2> QED
    BY <2>1, <2>2 DEF Agrees, View
<1> QED
  BY <1>1, InStepEver, PTL
=============================================================================
