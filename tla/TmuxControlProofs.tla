------------------------- MODULE TmuxControlProofs -------------------------
(***************************************************************************)
(* tmux control mode, for any number of requests, any bounds of the queue  *)
(* and of the channel, and any number of blocks, notifications and lost    *)
(* tokens: an answer is what tmux said to that request and to no other,    *)
(* and a UI whose channel overflowed has a refresh, or the exit, before    *)
(* it.                                                                     *)
(***************************************************************************)
EXTENDS TmuxControl, TLAPS

-----------------------------------------------------------------------------
(* The inductive invariant.                                                *)

\* The requests the reader has been told of and not done with, oldest first.
Announced == IF slot = NoRequest THEN outstanding ELSE Append(outstanding, slot)

Elements(s)    == {s[i] : i \in DOMAIN s}
Distinct(s)    == \A i, j \in DOMAIN s : i < j => s[i] # s[j]
Ahead(s, r, q) == \E i, j \in DOMAIN s : i < j /\ s[i] = r /\ s[j] = q

Writes(r) == WriterAt("write") /\ writer.req = r

\* A request that was not announced yet has left no trace.
Early(r) ==
  \/ call[r] = "new"
  \/ r \in Elements(requests)
  \/ WriterAt("slot") /\ writer.req = r

Traceless ==
  \A r \in Requests : Early(r) =>
    /\ r \notin written /\ r \notin lost /\ r \notin Elements(Announced)
    /\ ~Writes(r)
    /\ answer[r] = "none" /\ heard[r] = <<>> /\ ran[r] = <<>>

\* A request is queued once, by its call, and is at one place.
InPlace ==
  /\ Distinct(requests)
  /\ \A r \in Elements(requests) :
       /\ call[r] # "new"
       /\ WriterAt("slot") => writer.req # r
  /\ writer.at \in {"slot", "write", "wait"} =>
       writer.req \in Requests /\ call[writer.req] # "new"
  /\ lost \subseteq written
  /\ WriterAt("wait") => writer.req \in written
  /\ WriterAt("write") =>
       /\ writer.req \notin written
       /\ answer[writer.req] \notin {"unsent", "refused", "ok", "error"}
  /\ Elements(input) \subseteq written
  /\ \A i \in DOMAIN stream : stream[i].of \in written \cup {NoRequest}

\* What tmux writes: the item of a request comes after the begin of its block,
\* which the reader has read when the item is next.
Blocks ==
  /\ \A i \in DOMAIN stream :
       /\ stream[i].kind \in {"begin", "output", "refresh", "flood", "eof"} => stream[i].of = NoRequest
       /\ stream[i].kind = "token" => stream[i].of \in Requests
       /\ stream[i].of # NoRequest /\ i > 1 => stream[i - 1].kind = "begin"
  /\ ~dying /\ stream # <<>> /\ stream[1].of # NoRequest =>
       open = "front" /\ stream[1].of \in Elements(outstanding)

\* What tmux wrote (str), has yet to read (inp), if it lives (al), and has yet to
\* be sent (by the writer, w) is in the order of the announcements (a); and a
\* token is the last of its request.
Ordered(a, inp, str, al, w) ==
  /\ Distinct(a)
  /\ w.at = "write" => a # <<>> /\ a[Len(a)] = w.req
  /\ al =>
       /\ Elements(inp) \subseteq Elements(a)
       /\ \A i, j \in DOMAIN inp : i < j => Ahead(a, inp[i], inp[j])
       /\ \A i \in DOMAIN str, q \in Elements(inp) :
            str[i].of # NoRequest => Ahead(a, str[i].of, q)
  /\ \A i \in DOMAIN str : str[i].of # NoRequest => str[i].of \in Elements(a)
  /\ \A i, j \in DOMAIN str :
       i < j /\ str[i].of # NoRequest /\ str[j].of # NoRequest =>
         str[i].of = str[j].of \/ Ahead(a, str[i].of, str[j].of)
  /\ \A i, j \in DOMAIN str :
       i < j /\ str[i].kind = "token" => str[j].of # str[i].of

\* The token of a request, unless it was lost (in l), is in the stream, ahead of
\* the blocks of those behind it, or yet to be written.
Come(a, inp, str, al, w, l) ==
  /\ \A r \in Elements(a) \ l, j \in DOMAIN str :
       str[j].of # NoRequest /\ Ahead(a, r, str[j].of) =>
         \E i \in DOMAIN str : i < j /\ str[i] = Item("token", r)
  /\ al => \A r \in Elements(a) \ l :
       \/ \E i \in DOMAIN str : str[i] = Item("token", r)
       \/ r \in Elements(inp)
       \/ w.at = "write" /\ w.req = r
  /\ \A i \in DOMAIN str : str[i].kind = "token" => str[i].of \notin l

\* Of what was run (rn), what was heard (hd) comes first, and the rest is in the
\* stream, counted back from the token at t.
Counted(str, t, hd, rn) ==
  LET left == Len(rn) - Len(hd)
  IN  /\ left \in Nat /\ t - 2 * left >= 1
      /\ \A m \in DOMAIN hd : hd[m] = rn[m]
      /\ \A k \in 1..left : str[t - 2 * k] = rn[Len(rn) + 1 - k]
      /\ \A i \in DOMAIN str : str[i].of = str[t].of => \E k \in 0..left : i = t - 2 * k

\* While the reader has not shut down.
InOrder    == Ordered(Announced, input, stream, alive, writer)
TokensCome == Come(Announced, input, stream, alive, writer, lost)

\* What a request hears is its own, unless it has lost its token.
OwnHeard == \A r \in Elements(Announced) \ lost : \A i \in DOMAIN heard[r] : heard[r][i].of = r
OwnRan   == \A r \in Requests : \A i \in DOMAIN ran[r] : ran[r][i].of = r

\* It has heard nothing before it ran.
NotYetRun ==
  alive => \A r \in Requests : r \in Elements(input) \/ Writes(r) =>
    heard[r] = <<>> /\ ran[r] = <<>> /\ r \notin lost

\* While no token is lost, nothing is missed.
NothingMissed ==
  lost = {} => \A t \in DOMAIN stream : stream[t].kind = "token" =>
    Counted(stream, t, heard[stream[t].of], ran[stream[t].of])

HeardOwn == OwnHeard /\ OwnRan /\ NotYetRun /\ NothingMissed

\* An answered request is done with.
Answered ==
  \A r \in Requests :
    /\ answer[r] \in {"ok", "error"} =>
         /\ r \notin Elements(Announced) /\ ~(alive /\ r \in Elements(input))
         /\ \A i \in DOMAIN heard[r] : heard[r][i].of = r
         /\ lost = {} => heard[r] = ran[r]
         /\ answer[r] = "error" <=> Failed(r)
    /\ answer[r] \in {"unsent", "refused"} => r \notin written

Pipeline ==
  /\ dying => reader # "reading"
  /\ Traceless /\ InPlace /\ Blocks
  /\ ~dying => InOrder /\ TokensCome /\ HeardOwn
  /\ Answered

\* The types, and what the reader sends and the writer writes is there.
Typed ==
  /\ TypeOK
  /\ reader \in {"flushing", "blocked"} => coalesced # <<>>
  /\ writer.at \in {"slot", "write", "wait"} => writer.req \in Requests

\* The conjuncts of Typed, in four parts.
CallsTyped ==
  /\ call \in [Requests -> {"new", "waiting", "done"}] /\ answer \in [Requests -> Answers]
  /\ slot \in Requests \cup {NoRequest}
  /\ completed \subseteq Requests /\ written \subseteq Requests /\ lost \subseteq Requests
WriterTyped ==
  /\ requests \in Seq(Requests) /\ Len(requests) =< QueueBound
  /\ writer \in [at : {"idle", "slot", "write", "wait", "ended"},
                 req : Requests \cup {NoRequest}]
  /\ writer.at \in {"slot", "write", "wait"} => writer.req \in Requests
StreamTyped ==
  /\ input \in Seq(Requests) /\ alive \in BOOLEAN /\ stream \in Seq(Items)
  /\ heard \in [Requests -> Seq(Items)] /\ ran \in [Requests -> Seq(Items)]
  /\ outstanding \in Seq(Requests) /\ open \in {"none", "front", "nobody"}
NotesTyped ==
  /\ reader \in {"reading", "flushing", "blocked", "ended"} /\ dying \in BOOLEAN
  /\ reader \in {"flushing", "blocked"} => coalesced # <<>>
  /\ coalesced \in Seq(Notes)
  /\ channel \in Seq(Notes) /\ Len(channel) =< NotesBound
  /\ ui \in {"up", "told", "gone"} /\ notes \in 0..MaxNotes /\ stale \in BOOLEAN

-----------------------------------------------------------------------------
(* What the operators yield.                                               *)

\* Of two sequences put one behind the other.
LEMMA Concatenation ==
  ASSUME NEW S, NEW s \in Seq(S), NEW t \in Seq(S)
  PROVE  /\ s \o t \in Seq(S) /\ Len(s \o t) = Len(s) + Len(t)
         /\ \A i \in DOMAIN s : i \in DOMAIN (s \o t) /\ (s \o t)[i] = s[i]
         /\ \A i \in DOMAIN t : Len(s) + i \in DOMAIN (s \o t) /\ (s \o t)[Len(s) + i] = t[i]
         /\ \A i \in DOMAIN (s \o t) :
              i \in DOMAIN s \/ (i > Len(s) /\ i - Len(s) \in DOMAIN t)
OBVIOUS

\* Replied answers only those it is given, and only once.
LEMMA RepliedTyped ==
  ASSUME TypeOK, NEW rs, NEW a \in Answers
  PROVE  /\ Replied(rs, a) \in [Requests -> Answers]
         /\ \A r \in Requests : Replied(rs, a)[r] # answer[r] =>
              r \in rs /\ answer[r] = "none" /\ Replied(rs, a)[r] = a
BY DEF TypeOK, Replied

\* The blocks of a request's command are its own.
LEMMA ResultsTyped ==
  ASSUME TmuxAssumption, NEW r \in Requests, NEW own \in Results(r)
  PROVE  /\ own \in Seq(Items)
         /\ \A i \in DOMAIN own : own[i] \in {Item("ok", r), Item("error", r)}
<1>1. PICK n \in 0..MaxBlocks : own \in [1..n -> {Item("ok", r), Item("error", r)}]
  BY DEF Results
<1>2. {Item("ok", r), Item("error", r)} \subseteq Items
  BY DEF Items, Item
<1>3. n \in Nat
  BY DEF TmuxAssumption
<1> QED BY <1>1, <1>2, <1>3

\* The begin of a block comes before each item.
LEMMA WrittenTyped ==
  ASSUME NEW items \in Seq(Items)
  PROVE  /\ Written(items) \in Seq(Items)
         /\ Len(Written(items)) = 2 * Len(items)
         /\ \A i \in DOMAIN Written(items) :
              \/ Written(items)[i] = Bare("begin")
              \/ \E k \in DOMAIN items :
                   i = 2 * k /\ Written(items)[i] = items[k] /\ Written(items)[i - 1] = Bare("begin")
         /\ \A k \in DOMAIN items : Written(items)[2 * k] = items[k]
<1> DEFINE n == Len(items)
<1>1. n \in Nat /\ DOMAIN items = 1..n
  OBVIOUS
<1>2. Bare("begin") \in Items
  BY DEF Items, Bare, Item
<1>3. \A i \in 1..2 * n : i % 2 # 1 => i \div 2 \in 1..n /\ i = 2 * (i \div 2)
  BY <1>1
<1>4. \A i \in 1..2 * n : Written(items)[i] = IF i % 2 = 1 THEN Bare("begin") ELSE items[i \div 2]
  BY DEF Written
<1>5. \A i \in 1..2 * n : Written(items)[i] \in Items
  BY <1>1, <1>2, <1>3, <1>4
<1>6. Written(items) \in [1..2 * n -> Items]
  <2>1. DOMAIN Written(items) = 1..2 * n /\ Written(items) = [i \in 1..2 * n |-> Written(items)[i]]
    BY DEF Written
  <2> QED BY <2>1, <1>5
<1>7. Written(items) \in Seq(Items) /\ Len(Written(items)) = 2 * n
  BY <1>1, <1>6
<1>8. \A k \in 1..n : /\ 2 * k \in 1..2 * n /\ (2 * k) % 2 = 0 /\ (2 * k) \div 2 = k
                     /\ 2 * k - 1 \in 1..2 * n /\ (2 * k - 1) % 2 = 1
  BY <1>1
<1>9. \A k \in 1..n : Written(items)[2 * k] = items[k] /\ Written(items)[2 * k - 1] = Bare("begin")
  BY <1>4, <1>8
<1>10. ASSUME NEW i \in 1..2 * n, Written(items)[i] # Bare("begin")
       PROVE  \E k \in 1..n : i = 2 * k /\ Written(items)[i] = items[k] /\ Written(items)[i - 1] = Bare("begin")
  <2>1. i % 2 # 1
    BY <1>4, <1>10
  <2>2. i \div 2 \in 1..n /\ i = 2 * (i \div 2)
    BY <1>3, <2>1
  <2> QED BY <1>9, <2>2
<1> QED BY <1>1, <1>6, <1>7, <1>9, <1>10

\* What the reader is about to send is something, and keeps a refresh.
LEMMA PushedTyped ==
  ASSUME TypeOK, NEW n \in {"output", "refresh", "flood", "exit"}
  PROVE  /\ Pushed(n) \in Seq(Notes) /\ Pushed(n) # <<>>
         /\ n \in {"flood", "exit"} \/ (\E i \in DOMAIN coalesced : coalesced[i] \in {"refresh", "exit"}) =>
              \E i \in DOMAIN Pushed(n) : Pushed(n)[i] \in {"refresh", "exit"}
<1> USE DEF Notes
<1>0. coalesced \in Seq(Notes) /\ DOMAIN coalesced = 1..Len(coalesced) /\ Len(coalesced) \in Nat
  BY DEF TypeOK
<1>1. CASE n = "exit"
  <2>1. Pushed(n) = <<"exit">>
    BY <1>1 DEF Pushed
  <2> QED BY <2>1
<1>2. CASE n = "flood"
  <2> DEFINE u == <<"refresh", "warning">>
  <2>1. Pushed(n) = coalesced \o u
    BY <1>2 DEF Pushed
  <2>2. u \in Seq(Notes) /\ Len(u) = 2 /\ u[1] = "refresh"
    OBVIOUS
  <2> HIDE DEF u
  <2> HIDE DEF Notes
  <2>3. /\ coalesced \o u \in Seq(Notes) /\ Len(coalesced \o u) = Len(coalesced) + 2
        /\ (coalesced \o u)[Len(coalesced) + 1] = u[1]
        /\ Len(coalesced) + 1 \in DOMAIN (coalesced \o u)
    BY <1>0, <2>2, Concatenation
  <2>4. (coalesced \o u)[Len(coalesced) + 1] \in {"refresh", "exit"}
    BY <2>2, <2>3
  <2>5. coalesced \o u # <<>>
    BY <2>3, <1>0
  <2> QED BY <2>1, <2>3, <2>4, <2>5
<1>3. CASE n \in {"output", "refresh"}
  <2>1. Pushed(n) = Append(coalesced, n) \/ (Pushed(n) = coalesced /\ \E i \in DOMAIN coalesced : coalesced[i] = "refresh")
    BY <1>3 DEF Pushed
  <2>2. n \in Notes
    BY <1>3
  <2> QED BY <1>0, <1>3, <2>1, <2>2
<1> QED BY <1>1, <1>2, <1>3

-----------------------------------------------------------------------------
(* Type correctness.                                                       *)

\* What fails when the reader shuts down stays typed.
LEMMA FailAllTyped ==
  ASSUME TypeOK, TmuxAssumption, FailAll(Pending)
  PROVE  /\ answer' \in [Requests -> Answers] /\ completed' \subseteq Requests
         /\ outstanding' = <<>> /\ open' = "none" /\ slot' = NoRequest
<1>1. {outstanding[i] : i \in DOMAIN outstanding} \subseteq Requests /\ Pending \subseteq Requests
  BY DEF TypeOK, Pending
<1>2. "closed" \in Answers
  BY DEF Answers
<1> DEFINE known == {outstanding[i] : i \in DOMAIN outstanding} \cup Pending
<1>3. answer' = Replied(known, "closed") /\ completed' = completed \cup known
      /\ outstanding' = <<>> /\ open' = "none" /\ slot' = NoRequest
  BY DEF FailAll
<1>4. Replied(known, "closed") \in [Requests -> Answers]
  BY <1>2, RepliedTyped
<1>5. completed \subseteq Requests
  BY DEF TypeOK
<1> QED BY <1>1, <1>3, <1>4, <1>5

\* Every step keeps the types, and a reader that sends has something to send.
LEMMA TypedStep ==
  ASSUME TmuxAssumption, Typed, [Next]_vars
  PROVE  Typed'
<1> USE TmuxAssumption DEF TmuxAssumption
<1>p. Typed <=> CallsTyped /\ WriterTyped /\ StreamTyped /\ NotesTyped
  BY DEF Typed, TypeOK, CallsTyped, WriterTyped, StreamTyped, NotesTyped
<1>q. Typed' <=> CallsTyped' /\ WriterTyped' /\ StreamTyped' /\ NotesTyped'
  BY DEF Typed, TypeOK, CallsTyped, WriterTyped, StreamTyped, NotesTyped
<1>t. /\ TypeOK
      /\ requests # <<>> => Head(requests) \in Requests /\ Tail(requests) \in Seq(Requests)
                            /\ Len(Tail(requests)) =< QueueBound
      /\ coalesced # <<>> => Head(coalesced) \in Notes /\ Tail(coalesced) \in Seq(Notes)
      /\ stream # <<>> => Head(stream) \in Items /\ Tail(stream) \in Seq(Items)
      /\ Bare("eof") \in Items
      /\ <<>> \in Seq(Requests) /\ <<>> \in Seq(Notes) /\ Len(<<>>) = 0
  <2>1. Bare("eof") \in Items
    BY DEF Bare, Item, Items
  <2>2. TypeOK
    BY DEF Typed
  <2> QED BY <2>1, <2>2 DEF TypeOK
<1>n. "refresh" \in Notes /\ "exit" \in Notes /\ <<"refresh">> \in Seq(Notes) /\ <<"refresh">> # <<>>
  BY DEF Notes
<1>a. \A a \in {"refused", "unsent", "dropped", "closed", "timeout", "lost", "ok", "error"} :
        a \in Answers /\ \A rs : Replied(rs, a) \in [Requests -> Answers]
  BY <1>t, RepliedTyped DEF Answers
<1>1. CASE Poll
  <2>p0. CallsTyped'
    BY <1>1, <1>p, <1>t DEF Poll, callers, writing, tmux, tracker, CallsTyped
  <2>p1. WriterTyped'
    BY <1>1, <1>p, <1>t DEF Poll, callers, writing, tmux, tracker, WriterTyped
  <2>p2. StreamTyped'
    BY <1>1, <1>p, <1>t DEF Poll, callers, writing, tmux, tracker, StreamTyped
  <2>p3. NotesTyped'
    BY <1>1, <1>p, <1>t DEF Poll, callers, writing, tmux, tracker, NotesTyped
  <2> QED BY <1>q, <2>p0, <2>p1, <2>p2, <2>p3
<1>2. CASE Drop
  <2>1. stream' \in Seq(Items)
    BY <1>2, <1>t DEF Drop, TypeOK
  <2>p0. CallsTyped'
    BY <1>2, <2>1, <1>p, <1>t DEF Drop, callers, writing, tracker, CallsTyped
  <2>p1. WriterTyped'
    BY <1>2, <2>1, <1>p, <1>t DEF Drop, callers, writing, tracker, WriterTyped
  <2>p2. StreamTyped'
    BY <1>2, <2>1, <1>p, <1>t DEF Drop, callers, writing, tracker, StreamTyped
  <2>p3. NotesTyped'
    BY <1>2, <2>1, <1>p, <1>t DEF Drop, callers, writing, tracker, NotesTyped
  <2> QED BY <1>q, <2>p0, <2>p1, <2>p2, <2>p3
<1>3. ASSUME NEW r \in Requests, Send(r)
      PROVE  Typed'
  <2>0. Append(requests, r) \in Seq(Requests) /\ Len(Append(requests, r)) = Len(requests) + 1
        /\ Len(requests) \in Nat /\ Len(requests) =< QueueBound
    BY <1>t DEF TypeOK
  <2>1. requests' \in Seq(Requests) /\ Len(requests') =< QueueBound
    <3>1. CASE requests' = requests
      BY <3>1, <2>0, <1>t DEF TypeOK
    <3>2. CASE requests' = Append(requests, r) /\ Len(requests) # QueueBound
      BY <3>2, <2>0
    <3> QED BY <1>3, <3>1, <3>2 DEF Send
  <2>2. call' \in [Requests -> {"new", "waiting", "done"}]
    BY <1>3, <1>t DEF Send, TypeOK
  <2>p0. CallsTyped'
    BY <1>3, <2>1, <2>2, <1>p, <1>t DEF Send, tmux, tracker, telling, CallsTyped
  <2>p1. WriterTyped'
    BY <1>3, <2>1, <2>2, <1>p, <1>t DEF Send, tmux, tracker, telling, WriterTyped
  <2>p2. StreamTyped'
    BY <1>3, <2>1, <2>2, <1>p, <1>t DEF Send, tmux, tracker, telling, StreamTyped
  <2>p3. NotesTyped'
    BY <1>3, <2>1, <2>2, <1>p, <1>t DEF Send, tmux, tracker, telling, NotesTyped
  <2> QED BY <1>q, <2>p0, <2>p1, <2>p2, <2>p3
<1>4. ASSUME NEW r \in Requests, Return(r)
      PROVE  Typed'
  <2>p0. CallsTyped'
    BY <1>4, <1>p, <1>t DEF Return, writing, tmux, tracker, telling, CallsTyped
  <2>p1. WriterTyped'
    BY <1>4, <1>p, <1>t DEF Return, writing, tmux, tracker, telling, WriterTyped
  <2>p2. StreamTyped'
    BY <1>4, <1>p, <1>t DEF Return, writing, tmux, tracker, telling, StreamTyped
  <2>p3. NotesTyped'
    BY <1>4, <1>p, <1>t DEF Return, writing, tmux, tracker, telling, NotesTyped
  <2> QED BY <1>q, <2>p0, <2>p1, <2>p2, <2>p3
<1>5. CASE Receive
  <2>1. answer' \in [Requests -> Answers]
    BY <1>5, <1>p, <1>a DEF Receive, CallsTyped
  <2>2. writer' \in [at : {"idle", "slot", "write", "wait", "ended"}, req : Requests \cup {NoRequest}]
    BY <1>5, <1>p, <1>t DEF Receive, WriterTyped, WriterGoes
  <2>3. requests' \in Seq(Requests) /\ Len(requests') =< QueueBound
    BY <1>5, <1>t DEF Receive
  <2>p0. CallsTyped'
    BY <1>5, <2>1, <2>2, <2>3, <1>p, <1>t DEF Receive, WriterAt, WriterGoes, tmux, tracker, telling, CallsTyped
  <2>p1. WriterTyped'
    BY <1>5, <2>1, <2>2, <2>3, <1>p, <1>t DEF Receive, WriterAt, WriterGoes, tmux, tracker, telling, WriterTyped
  <2>p2. StreamTyped'
    BY <1>5, <2>1, <2>2, <2>3, <1>p, <1>t DEF Receive, WriterAt, WriterGoes, tmux, tracker, telling, StreamTyped
  <2>p3. NotesTyped'
    BY <1>5, <2>1, <2>2, <2>3, <1>p, <1>t DEF Receive, WriterAt, WriterGoes, tmux, tracker, telling, NotesTyped
  <2> QED BY <1>q, <2>p0, <2>p1, <2>p2, <2>p3
<1>6. CASE NoMoreRequests
  <2>p0. CallsTyped'
    BY <1>6, <1>p, <1>t DEF NoMoreRequests, WriterEnds, WriterGoes, callers, tmux, tracker, telling, CallsTyped
  <2>p1. WriterTyped'
    BY <1>6, <1>p, <1>t DEF NoMoreRequests, WriterEnds, WriterGoes, callers, tmux, tracker, telling, WriterTyped
  <2>p2. StreamTyped'
    BY <1>6, <1>p, <1>t DEF NoMoreRequests, WriterEnds, WriterGoes, callers, tmux, tracker, telling, StreamTyped
  <2>p3. NotesTyped'
    BY <1>6, <1>p, <1>t DEF NoMoreRequests, WriterEnds, WriterGoes, callers, tmux, tracker, telling, NotesTyped
  <2> QED BY <1>q, <2>p0, <2>p1, <2>p2, <2>p3
<1>7. CASE Announce
  <2>1. writer.req \in Requests
    BY <1>7, <1>p DEF Announce, WriterAt, WriterTyped
  <2>2. slot' = writer.req /\ UNCHANGED <<call, answer, completed, written, lost>>
    BY <1>7 DEF Announce, callers, tmux
  <2>p0. CallsTyped'
    BY <2>1, <2>2, <1>p DEF CallsTyped
  <2>p1. WriterTyped'
    BY <1>7, <1>p, <1>t DEF Announce, WriterAt, WriterGoes, callers, tmux, tracker, telling, WriterTyped
  <2>p2. StreamTyped'
    BY <1>7, <1>p, <1>t DEF Announce, WriterAt, WriterGoes, callers, tmux, tracker, telling, StreamTyped
  <2>p3. NotesTyped'
    BY <1>7, <1>p, <1>t DEF Announce, WriterAt, WriterGoes, callers, tmux, tracker, telling, NotesTyped
  <2> QED BY <1>q, <2>p0, <2>p1, <2>p2, <2>p3
<1>8. CASE NotAnnounced
  <2>p0. CallsTyped'
    BY <1>8, <1>a, <1>p, <1>t DEF NotAnnounced, WriterGoes, tmux, tracker, telling, CallsTyped
  <2>p1. WriterTyped'
    BY <1>8, <1>a, <1>p, <1>t DEF NotAnnounced, WriterGoes, tmux, tracker, telling, WriterTyped
  <2>p2. StreamTyped'
    BY <1>8, <1>a, <1>p, <1>t DEF NotAnnounced, WriterGoes, tmux, tracker, telling, StreamTyped
  <2>p3. NotesTyped'
    BY <1>8, <1>a, <1>p, <1>t DEF NotAnnounced, WriterGoes, tmux, tracker, telling, NotesTyped
  <2> QED BY <1>q, <2>p0, <2>p1, <2>p2, <2>p3
<1>9. CASE NobodyReads
  <2>1. answer' \in [Requests -> Answers]
    BY <1>9, <1>t, <1>a DEF NobodyReads
  <2>p0. CallsTyped'
    BY <1>9, <2>1, <1>p, <1>t DEF NobodyReads, WriterEnds, WriterGoes, tmux, tracker, telling, CallsTyped
  <2>p1. WriterTyped'
    BY <1>9, <2>1, <1>p, <1>t DEF NobodyReads, WriterEnds, WriterGoes, tmux, tracker, telling, WriterTyped
  <2>p2. StreamTyped'
    BY <1>9, <2>1, <1>p, <1>t DEF NobodyReads, WriterEnds, WriterGoes, tmux, tracker, telling, StreamTyped
  <2>p3. NotesTyped'
    BY <1>9, <2>1, <1>p, <1>t DEF NobodyReads, WriterEnds, WriterGoes, tmux, tracker, telling, NotesTyped
  <2> QED BY <1>q, <2>p0, <2>p1, <2>p2, <2>p3
<1>10. CASE Write
  <2>1. writer.req \in Requests
    BY <1>10, <1>p DEF Write, WriterAt, WriterTyped
  <2>p0. CallsTyped'
    BY <1>10, <2>1, <1>p, <1>t DEF Write, WriterGoes, callers, tracker, telling, CallsTyped
  <2>p1. WriterTyped'
    BY <1>10, <2>1, <1>p, <1>t DEF Write, WriterGoes, callers, tracker, telling, WriterTyped
  <2>p2. StreamTyped'
    BY <1>10, <2>1, <1>p, <1>t DEF Write, WriterGoes, callers, tracker, telling, StreamTyped
  <2>p3. NotesTyped'
    BY <1>10, <2>1, <1>p, <1>t DEF Write, WriterGoes, callers, tracker, telling, NotesTyped
  <2> QED BY <1>q, <2>p0, <2>p1, <2>p2, <2>p3
<1>11. CASE WriteFails
  <2>1. answer' \in [Requests -> Answers]
    BY <1>11, <1>t, <1>a DEF WriteFails
  <2>p0. CallsTyped'
    BY <1>11, <2>1, <1>p, <1>t DEF WriteFails, WriterEnds, WriterGoes, tmux, tracker, telling, CallsTyped
  <2>p1. WriterTyped'
    BY <1>11, <2>1, <1>p, <1>t DEF WriteFails, WriterEnds, WriterGoes, tmux, tracker, telling, WriterTyped
  <2>p2. StreamTyped'
    BY <1>11, <2>1, <1>p, <1>t DEF WriteFails, WriterEnds, WriterGoes, tmux, tracker, telling, StreamTyped
  <2>p3. NotesTyped'
    BY <1>11, <2>1, <1>p, <1>t DEF WriteFails, WriterEnds, WriterGoes, tmux, tracker, telling, NotesTyped
  <2> QED BY <1>q, <2>p0, <2>p1, <2>p2, <2>p3
<1>12. CASE Completed
  <2>p0. CallsTyped'
    BY <1>12, <1>p, <1>t DEF Completed, WriterGoes, callers, tmux, tracker, telling, CallsTyped
  <2>p1. WriterTyped'
    BY <1>12, <1>p, <1>t DEF Completed, WriterGoes, callers, tmux, tracker, telling, WriterTyped
  <2>p2. StreamTyped'
    BY <1>12, <1>p, <1>t DEF Completed, WriterGoes, callers, tmux, tracker, telling, StreamTyped
  <2>p3. NotesTyped'
    BY <1>12, <1>p, <1>t DEF Completed, WriterGoes, callers, tmux, tracker, telling, NotesTyped
  <2> QED BY <1>q, <2>p0, <2>p1, <2>p2, <2>p3
<1>13. CASE TimesOut
  <2>p0. CallsTyped'
    BY <1>13, <1>a, <1>p, <1>t DEF TimesOut, WriterGoes, tmux, tracker, telling, CallsTyped
  <2>p1. WriterTyped'
    BY <1>13, <1>a, <1>p, <1>t DEF TimesOut, WriterGoes, tmux, tracker, telling, WriterTyped
  <2>p2. StreamTyped'
    BY <1>13, <1>a, <1>p, <1>t DEF TimesOut, WriterGoes, tmux, tracker, telling, StreamTyped
  <2>p3. NotesTyped'
    BY <1>13, <1>a, <1>p, <1>t DEF TimesOut, WriterGoes, tmux, tracker, telling, NotesTyped
  <2> QED BY <1>q, <2>p0, <2>p1, <2>p2, <2>p3
<1>14. CASE NotifyUI
  <2>1. \A n \in {"output", "refresh", "flood"} : Bare(n) \in Items
    BY DEF Bare, Item, Items
  <2>2. stream' \in Seq(Items)
    BY <1>14, <2>1, <1>t DEF NotifyUI, TypeOK
  <2>p0. CallsTyped'
    BY <1>14, <2>2, <1>p, <1>t DEF NotifyUI, TmuxOnly, callers, writing, tracker, telling, CallsTyped
  <2>p1. WriterTyped'
    BY <1>14, <2>2, <1>p, <1>t DEF NotifyUI, TmuxOnly, callers, writing, tracker, telling, WriterTyped
  <2>p2. StreamTyped'
    BY <1>14, <2>2, <1>p, <1>t DEF NotifyUI, TmuxOnly, callers, writing, tracker, telling, StreamTyped
  <2>p3. NotesTyped'
    BY <1>14, <2>2, <1>p, <1>t DEF NotifyUI, TmuxOnly, callers, writing, tracker, telling, NotesTyped
  <2> QED BY <1>q, <2>p0, <2>p1, <2>p2, <2>p3
<1>15. ASSUME NEW own \in Seq(Items), own # <<>> => input # <<>>, TmuxEnds(own)
       PROVE  Typed'
  <2>1. ran' \in [Requests -> Seq(Items)]
    BY <1>15, <1>p DEF TmuxEnds, StreamTyped
  <2>2. stream' = stream \o Written(own) \o <<Bare("eof")>>
    BY <1>15 DEF TmuxEnds
  <2>3. stream' \in Seq(Items)
    <3>1. stream \in Seq(Items) /\ <<Bare("eof")>> \in Seq(Items) /\ Written(own) \in Seq(Items)
      BY <1>t, WrittenTyped DEF TypeOK
    <3>2. stream \o Written(own) \in Seq(Items)
      BY <3>1, Concatenation
    <3> QED BY <2>2, <3>1, <3>2, Concatenation
  <2>p0. CallsTyped'
    BY <1>15, <2>1, <2>3, <1>p, <1>t DEF TmuxEnds, TmuxOnly, callers, writing, tracker, telling, CallsTyped
  <2>p1. WriterTyped'
    BY <1>15, <2>1, <2>3, <1>p, <1>t DEF TmuxEnds, TmuxOnly, callers, writing, tracker, telling, WriterTyped
  <2>p2. StreamTyped'
    BY <1>15, <2>1, <2>3, <1>p, <1>t DEF TmuxEnds, TmuxOnly, callers, writing, tracker, telling, StreamTyped
  <2>p3. NotesTyped'
    BY <1>15, <2>1, <2>3, <1>p, <1>t DEF TmuxEnds, TmuxOnly, callers, writing, tracker, telling, NotesTyped
  <2> QED BY <1>q, <2>p0, <2>p1, <2>p2, <2>p3
<1>16. ASSUME input # <<>>, NEW own \in Seq(Items), Run(own)
       PROVE  Typed'
  <2>1. Head(input) \in Requests /\ Tail(input) \in Seq(Requests)
    BY <1>16, <1>t DEF TypeOK
  <2>2. ran' \in [Requests -> Seq(Items)] /\ input' \in Seq(Requests)
    BY <1>16, <2>1, <1>t DEF Run, TypeOK
  <2>3. Item("token", Head(input)) \in Items
    BY <2>1 DEF Item, Items
  <2>4. Append(own, Item("token", Head(input))) \in Seq(Items)
    BY <2>3
  <2>5. Written(Append(own, Item("token", Head(input)))) \in Seq(Items) /\ Written(own) \in Seq(Items)
    BY <2>4, WrittenTyped
  <2>6. stream' \in Seq(Items)
    <3>1. stream \in Seq(Items)
      BY <1>t DEF TypeOK
    <3>2. /\ stream \o Written(Append(own, Item("token", Head(input)))) \in Seq(Items)
          /\ stream \o Written(own) \in Seq(Items)
      BY <2>5, <3>1, Concatenation
    <3> QED BY <1>16, <3>2 DEF Run
  <2>7. lost' \subseteq Requests
    BY <1>16, <2>1, <1>t DEF Run, TypeOK
  <2>p0. CallsTyped'
    BY <1>16, <2>2, <2>6, <2>7, <1>p, <1>t DEF Run, TmuxOnly, callers, writing, tracker, telling, CallsTyped
  <2>p1. WriterTyped'
    BY <1>16, <2>2, <2>6, <2>7, <1>p, <1>t DEF Run, TmuxOnly, callers, writing, tracker, telling, WriterTyped
  <2>p2. StreamTyped'
    BY <1>16, <2>2, <2>6, <2>7, <1>p, <1>t DEF Run, TmuxOnly, callers, writing, tracker, telling, StreamTyped
  <2>p3. NotesTyped'
    BY <1>16, <2>2, <2>6, <2>7, <1>p, <1>t DEF Run, TmuxOnly, callers, writing, tracker, telling, NotesTyped
  <2> QED BY <1>q, <2>p0, <2>p1, <2>p2, <2>p3
<1>17. CASE Eof
  <2>1. Pushed("exit") \in Seq(Notes) /\ Pushed("exit") # <<>>
    BY <1>t, PushedTyped
  <2>2. FailAll(Pending) /\ dying' = TRUE /\ coalesced' = Pushed("exit") /\ reader' = "flushing"
    BY <1>17 DEF Eof, ShutDown
  <2>3. answer' \in [Requests -> Answers] /\ completed' \subseteq Requests
        /\ outstanding' = <<>> /\ open' = "none" /\ slot' = NoRequest
    BY <1>t, <2>2, FailAllTyped
  <2>p0. CallsTyped'
    BY <1>17, <2>1, <2>2, <2>3, <1>p, <1>t DEF Eof, Reads, writing, tmux, CallsTyped
  <2>p1. WriterTyped'
    BY <1>17, <2>1, <2>2, <2>3, <1>p, <1>t DEF Eof, Reads, writing, tmux, WriterTyped
  <2>p2. StreamTyped'
    BY <1>17, <2>1, <2>2, <2>3, <1>p, <1>t DEF Eof, Reads, writing, tmux, StreamTyped
  <2>p3. NotesTyped'
    BY <1>17, <2>1, <2>2, <2>3, <1>p, <1>t DEF Eof, Reads, writing, tmux, NotesTyped
  <2> QED BY <1>q, <2>p0, <2>p1, <2>p2, <2>p3
<1>18. CASE BeginBlock
  <2>1. CASE writer.at = "ended"
    <3>1. Pushed("exit") \in Seq(Notes) /\ Pushed("exit") # <<>>
      BY <1>t, PushedTyped
    <3>2. FailAll(Pending) /\ dying' = TRUE /\ coalesced' = Pushed("exit") /\ reader' = "flushing"
      BY <1>18, <2>1 DEF BeginBlock, ShutDown
    <3>3. answer' \in [Requests -> Answers] /\ completed' \subseteq Requests
          /\ outstanding' = <<>> /\ open' = "none" /\ slot' = NoRequest
      BY <1>t, <3>2, FailAllTyped
    <3>p0. CallsTyped'
      BY <1>18, <3>1, <3>2, <3>3, <1>p, <1>t DEF BeginBlock, Reads, writing, tmux, CallsTyped
    <3>p1. WriterTyped'
      BY <1>18, <3>1, <3>2, <3>3, <1>p, <1>t DEF BeginBlock, Reads, writing, tmux, WriterTyped
    <3>p2. StreamTyped'
      BY <1>18, <3>1, <3>2, <3>3, <1>p, <1>t DEF BeginBlock, Reads, writing, tmux, StreamTyped
    <3>p3. NotesTyped'
      BY <1>18, <3>1, <3>2, <3>3, <1>p, <1>t DEF BeginBlock, Reads, writing, tmux, NotesTyped
    <3> QED BY <1>q, <3>p0, <3>p1, <3>p2, <3>p3
  <2>2. CASE writer.at # "ended"
    <3>0. slot # NoRequest => Append(outstanding, slot) \in Seq(Requests)
      BY <1>t DEF TypeOK
    <3>1. outstanding' \in Seq(Requests)
      BY <1>18, <2>2, <3>0, <1>t DEF BeginBlock, TypeOK
    <3>2. open' \in {"none", "front", "nobody"}
      BY <1>18, <2>2 DEF BeginBlock
    <3>p0. CallsTyped'
      BY <1>18, <2>2, <3>1, <3>2, <1>p, <1>t DEF BeginBlock, Reads, writing, tmux, CallsTyped
    <3>p1. WriterTyped'
      BY <1>18, <2>2, <3>1, <3>2, <1>p, <1>t DEF BeginBlock, Reads, writing, tmux, WriterTyped
    <3>p2. StreamTyped'
      BY <1>18, <2>2, <3>1, <3>2, <1>p, <1>t DEF BeginBlock, Reads, writing, tmux, StreamTyped
    <3>p3. NotesTyped'
      BY <1>18, <2>2, <3>1, <3>2, <1>p, <1>t DEF BeginBlock, Reads, writing, tmux, NotesTyped
    <3> QED BY <1>q, <3>p0, <3>p1, <3>p2, <3>p3
  <2> QED BY <2>1, <2>2
<1>19. CASE EndBlock
  <2>1. heard' \in [Requests -> Seq(Items)]
    <3>1. CASE heard' = heard
      BY <3>1, <1>t DEF TypeOK
    <3>2. CASE heard' = [heard EXCEPT ![outstanding[1]] = Append(@, Head(stream))]
      <4>1. \A r \in Requests : Append(heard[r], Head(stream)) \in Seq(Items)
        BY <1>19, <1>t DEF EndBlock, Reads, TypeOK
      <4> QED BY <3>2, <4>1, <1>t DEF TypeOK
    <3> QED BY <1>19, <3>1, <3>2 DEF EndBlock
  <2>p0. CallsTyped'
    BY <1>19, <2>1, <1>p, <1>t DEF EndBlock, Reads, callers, writing, tmux, telling, CallsTyped
  <2>p1. WriterTyped'
    BY <1>19, <2>1, <1>p, <1>t DEF EndBlock, Reads, callers, writing, tmux, telling, WriterTyped
  <2>p2. StreamTyped'
    BY <1>19, <2>1, <1>p, <1>t DEF EndBlock, Reads, callers, writing, tmux, telling, StreamTyped
  <2>p3. NotesTyped'
    BY <1>19, <2>1, <1>p, <1>t DEF EndBlock, Reads, callers, writing, tmux, telling, NotesTyped
  <2> QED BY <1>q, <2>p0, <2>p1, <2>p2, <2>p3
<1>20. CASE EndToken
  <2> DEFINE r == Head(stream).of
             n == TokenAt(r)
  <2>1. CASE open # "front" \/ n = 0
    <3>p0. CallsTyped'
      BY <1>20, <2>1, <1>p, <1>t DEF EndToken, Reads, writing, tmux, telling, CallsTyped
    <3>p1. WriterTyped'
      BY <1>20, <2>1, <1>p, <1>t DEF EndToken, Reads, writing, tmux, telling, WriterTyped
    <3>p2. StreamTyped'
      BY <1>20, <2>1, <1>p, <1>t DEF EndToken, Reads, writing, tmux, telling, StreamTyped
    <3>p3. NotesTyped'
      BY <1>20, <2>1, <1>p, <1>t DEF EndToken, Reads, writing, tmux, telling, NotesTyped
    <3> QED BY <1>q, <3>p0, <3>p1, <3>p2, <3>p3
  <2>2. CASE ~(open # "front" \/ n = 0)
    <3>1. n \in DOMAIN outstanding
      BY <2>2 DEF TokenAt
    <3> HIDE DEF n
    <3>o. outstanding \in Seq(Requests)
      BY <1>t DEF TypeOK
    <3>0. n \in 1..Len(outstanding)
      BY <3>1, <3>o
    <3>2. {outstanding[i] : i \in 1..n} \subseteq Requests
      BY <3>0, <3>o
    <3>3. SubSeq(outstanding, n + 1, Len(outstanding)) \in Seq(Requests)
      BY <3>0, <3>o
    <3>4. /\ answer' = [q \in Requests |->
                 IF q = r THEN Replied({r}, IF Failed(r) THEN "error" ELSE "ok")[q]
                 ELSE Replied({outstanding[i] : i \in 1..n - 1}, "lost")[q]]
          /\ completed' = completed \cup {outstanding[i] : i \in 1..n}
          /\ outstanding' = SubSeq(outstanding, n + 1, Len(outstanding))
          /\ open' = "none"
      BY <1>20, <2>2 DEF EndToken, n
    <3>5. answer' \in [Requests -> Answers]
      BY <3>4, <1>a
    <3>6. completed' \subseteq Requests /\ outstanding' \in Seq(Requests)
      BY <3>2, <3>3, <3>4, <1>t DEF TypeOK
    <3>p0. CallsTyped'
      BY <1>20, <3>4, <3>5, <3>6, <1>p, <1>t DEF EndToken, Reads, writing, tmux, telling, CallsTyped
    <3>p1. WriterTyped'
      BY <1>20, <3>4, <3>5, <3>6, <1>p, <1>t DEF EndToken, Reads, writing, tmux, telling, WriterTyped
    <3>p2. StreamTyped'
      BY <1>20, <3>4, <3>5, <3>6, <1>p, <1>t DEF EndToken, Reads, writing, tmux, telling, StreamTyped
    <3>p3. NotesTyped'
      BY <1>20, <3>4, <3>5, <3>6, <1>p, <1>t DEF EndToken, Reads, writing, tmux, telling, NotesTyped
    <3> QED BY <1>q, <3>p0, <3>p1, <3>p2, <3>p3
  <2> QED BY <2>1, <2>2
<1>21. CASE ReadNote
  <2>1. Pushed(Head(stream).kind) \in Seq(Notes) /\ Pushed(Head(stream).kind) # <<>>
    BY <1>21, <1>t, PushedTyped DEF ReadNote, Reads
  <2>p0. CallsTyped'
    BY <1>21, <2>1, <1>p, <1>t DEF ReadNote, Reads, callers, writing, tmux, tracker, CallsTyped
  <2>p1. WriterTyped'
    BY <1>21, <2>1, <1>p, <1>t DEF ReadNote, Reads, callers, writing, tmux, tracker, WriterTyped
  <2>p2. StreamTyped'
    BY <1>21, <2>1, <1>p, <1>t DEF ReadNote, Reads, callers, writing, tmux, tracker, StreamTyped
  <2>p3. NotesTyped'
    BY <1>21, <2>1, <1>p, <1>t DEF ReadNote, Reads, callers, writing, tmux, tracker, NotesTyped
  <2> QED BY <1>q, <2>p0, <2>p1, <2>p2, <2>p3
<1>22. CASE Flush
  <2>1. channel' \in Seq(Notes) /\ Len(channel') =< NotesBound /\ coalesced' \in Seq(Notes)
    BY <1>22, <1>p, <1>t DEF Flush, NotesTyped
  <2>2. reader' \in {"reading", "flushing", "blocked", "ended"}
        /\ (reader' \in {"flushing", "blocked"} => coalesced' # <<>>)
    BY <1>22 DEF Flush, Flushed
  <2>p0. CallsTyped'
    BY <1>22, <2>1, <2>2, <1>p, <1>t DEF Flush, callers, writing, tmux, tracker, CallsTyped
  <2>p1. WriterTyped'
    BY <1>22, <2>1, <2>2, <1>p, <1>t DEF Flush, callers, writing, tmux, tracker, WriterTyped
  <2>p2. StreamTyped'
    BY <1>22, <2>1, <2>2, <1>p, <1>t DEF Flush, callers, writing, tmux, tracker, StreamTyped
  <2>p3. NotesTyped'
    BY <1>22, <2>1, <2>2, <1>p, <1>t DEF Flush, callers, writing, tmux, tracker, NotesTyped
  <2> QED BY <1>q, <2>p0, <2>p1, <2>p2, <2>p3
<1>23. CASE FlushFull
  <2>0. coalesced # <<>> /\ coalesced \in Seq(Notes) /\ stale \in BOOLEAN
    BY <1>23, <1>p DEF FlushFull, NotesTyped
  <2>1. coalesced' \in Seq(Notes) /\ coalesced' # <<>> /\ stale' \in BOOLEAN
    BY <1>23, <2>0, <1>n DEF FlushFull
  <2>p0. CallsTyped'
    BY <1>23, <2>1, <1>p, <1>t DEF FlushFull, callers, writing, tmux, tracker, CallsTyped
  <2>p1. WriterTyped'
    BY <1>23, <2>1, <1>p, <1>t DEF FlushFull, callers, writing, tmux, tracker, WriterTyped
  <2>p2. StreamTyped'
    BY <1>23, <2>1, <1>p, <1>t DEF FlushFull, callers, writing, tmux, tracker, StreamTyped
  <2>p3. NotesTyped'
    BY <1>23, <2>1, <1>p, <1>t DEF FlushFull, callers, writing, tmux, tracker, NotesTyped
  <2> QED BY <1>q, <2>p0, <2>p1, <2>p2, <2>p3
<1>24. CASE Unblock
  <2>1. channel' \in Seq(Notes) /\ Len(channel') =< NotesBound /\ coalesced' \in Seq(Notes)
    BY <1>24, <1>p, <1>t DEF Unblock, NotesTyped
  <2>2. reader' \in {"reading", "ended"}
    BY <1>24 DEF Unblock, Flushed
  <2>p0. CallsTyped'
    BY <1>24, <2>1, <2>2, <1>p, <1>t DEF Unblock, callers, writing, tmux, tracker, CallsTyped
  <2>p1. WriterTyped'
    BY <1>24, <2>1, <2>2, <1>p, <1>t DEF Unblock, callers, writing, tmux, tracker, WriterTyped
  <2>p2. StreamTyped'
    BY <1>24, <2>1, <2>2, <1>p, <1>t DEF Unblock, callers, writing, tmux, tracker, StreamTyped
  <2>p3. NotesTyped'
    BY <1>24, <2>1, <2>2, <1>p, <1>t DEF Unblock, callers, writing, tmux, tracker, NotesTyped
  <2> QED BY <1>q, <2>p0, <2>p1, <2>p2, <2>p3
<1>25. CASE NobodyListens
  <2>1. /\ answer' \in [Requests -> Answers] /\ completed' \subseteq Requests
        /\ outstanding' \in Seq(Requests) /\ open' \in {"none", "front", "nobody"}
        /\ slot' \in Requests \cup {NoRequest}
    BY <1>25, <1>t, FailAllTyped DEF NobodyListens, TypeOK
  <2>p0. CallsTyped'
    BY <1>25, <2>1, <1>p, <1>t DEF NobodyListens, writing, tmux, CallsTyped
  <2>p1. WriterTyped'
    BY <1>25, <2>1, <1>p, <1>t DEF NobodyListens, writing, tmux, WriterTyped
  <2>p2. StreamTyped'
    BY <1>25, <2>1, <1>p, <1>t DEF NobodyListens, writing, tmux, StreamTyped
  <2>p3. NotesTyped'
    BY <1>25, <2>1, <1>p, <1>t DEF NobodyListens, writing, tmux, NotesTyped
  <2> QED BY <1>q, <2>p0, <2>p1, <2>p2, <2>p3
<1>26. CASE UNCHANGED vars
  <2>p0. CallsTyped'
    BY <1>26, <1>p, <1>t DEF vars, callers, writing, tmux, tracker, telling, CallsTyped
  <2>p1. WriterTyped'
    BY <1>26, <1>p, <1>t DEF vars, callers, writing, tmux, tracker, telling, WriterTyped
  <2>p2. StreamTyped'
    BY <1>26, <1>p, <1>t DEF vars, callers, writing, tmux, tracker, telling, StreamTyped
  <2>p3. NotesTyped'
    BY <1>26, <1>p, <1>t DEF vars, callers, writing, tmux, tracker, telling, NotesTyped
  <2> QED BY <1>q, <2>p0, <2>p1, <2>p2, <2>p3
<1>27. ASSUME input # <<>>, NEW own \in Results(Head(input))
       PROVE  own \in Seq(Items)
  <2>1. Head(input) \in Requests
    BY <1>27, <1>t DEF TypeOK
  <2> QED BY <2>1, <1>27, ResultsTyped
<1>28. CASE TmuxStep
  <2>1. <<>> \in Seq(Items)
    OBVIOUS
  <2> QED BY <1>14, <1>15, <1>16, <1>27, <1>28, <2>1 DEF TmuxStep
<1> QED
  BY <1>1, <1>2, <1>3, <1>4, <1>5, <1>6, <1>7, <1>8, <1>9, <1>10, <1>11, <1>12, <1>13, <1>17, <1>18,
     <1>19, <1>20, <1>21, <1>22, <1>23, <1>24, <1>25, <1>26, <1>28 DEF Next, WriterStep, ReaderStep

\* Init is typed.
LEMMA TypedInit ==
  ASSUME TmuxAssumption, Init
  PROVE  Typed
<1>1. Bare("begin") \in Items /\ Bare("ok") \in Items
  BY DEF Bare, Item, Items
<1>2. <<Bare("begin"), Bare("ok")>> \in Seq(Items) /\ <<>> \in Seq(Items)
  BY <1>1
<1>3. stream \in Seq(Items)
  BY <1>2 DEF Init
<1>4. <<>> \in Seq(Requests) /\ <<>> \in Seq(Notes) /\ Len(<<>>) = 0 /\ "none" \in Answers
  BY DEF Answers
<1>5. CallsTyped
  BY <1>4 DEF Init, CallsTyped
<1>6. WriterTyped
  BY <1>4 DEF Init, WriterTyped, TmuxAssumption
<1>7. StreamTyped
  BY <1>2, <1>3, <1>4 DEF Init, StreamTyped
<1>8. NotesTyped
  <2>1. 0 \in 0..MaxNotes /\ Len(channel) =< NotesBound
    BY <1>4 DEF Init, TmuxAssumption
  <2>2. channel \in Seq(Notes) /\ coalesced \in Seq(Notes)
    BY <1>4 DEF Init
  <2> QED BY <2>1, <2>2 DEF Init, NotesTyped
<1> QED BY <1>5, <1>6, <1>7, <1>8
        DEF Typed, TypeOK, CallsTyped, WriterTyped, StreamTyped, NotesTyped

\* The variables keep their types, whatever the threads, tmux and the UI do.
THEOREM TypeCorrect == Spec => []TypeOK
<1>1. Init => Typed
  BY TypedInit, TmuxAssumption
<1>2. Typed /\ [Next]_vars => Typed'
  BY TypedStep, TmuxAssumption
<1>3. Typed => TypeOK
  BY DEF Typed
<1> QED BY <1>1, <1>2, <1>3, PTL DEF Spec

-----------------------------------------------------------------------------
(* A loss is refreshed.                                                    *)

Notified(s) == \E i \in DOMAIN s : s[i] \in {"refresh", "exit"}

\* It is found at the head, or behind it, and stays when something is added.
LEMMA NotifiedSeq ==
  ASSUME NEW s \in Seq(Notes)
  PROVE  /\ s # <<>> /\ Notified(s) => Head(s) \in {"refresh", "exit"} \/ Notified(Tail(s))
         /\ \A n \in Notes : Notified(s) \/ n \in {"refresh", "exit"} => Notified(Append(s, n))
         /\ ~Notified(<<>>)
<1>1. ASSUME s # <<>>, Notified(s)
      PROVE  Head(s) \in {"refresh", "exit"} \/ Notified(Tail(s))
  <2>1. PICK i \in DOMAIN s : s[i] \in {"refresh", "exit"}
    BY <1>1 DEF Notified
  <2>2. i = 1 \/ (i - 1 \in DOMAIN Tail(s) /\ Tail(s)[i - 1] = s[i])
    BY <1>1
  <2> QED BY <1>1, <2>1, <2>2 DEF Notified
<1>2. ASSUME NEW n \in Notes, Notified(s) \/ n \in {"refresh", "exit"}
      PROVE  Notified(Append(s, n))
  <2>1. \A i \in DOMAIN s : i \in DOMAIN Append(s, n) /\ Append(s, n)[i] = s[i]
    OBVIOUS
  <2>2. Len(s) + 1 \in DOMAIN Append(s, n) /\ Append(s, n)[Len(s) + 1] = n
    OBVIOUS
  <2> QED BY <1>2, <2>1, <2>2 DEF Notified
<1> QED BY <1>1, <1>2 DEF Notified

\* A step of the reader or of the UI loses no refresh or exit: it moves from what
\* the reader will send to the channel, and from there to the UI.
LEMMA RefreshStep ==
  ASSUME TmuxAssumption, Typed, LossIsRefreshed, [Next]_vars
  PROVE  LossIsRefreshed'
<1> USE TmuxAssumption
<1>t. /\ coalesced \in Seq(Notes) /\ channel \in Seq(Notes)
      /\ reader \in {"flushing", "blocked"} => coalesced # <<>>
      /\ coalesced # <<>> => Head(coalesced) \in Notes /\ Tail(coalesced) \in Seq(Notes)
      /\ TypeOK /\ stale \in BOOLEAN
  BY DEF Typed, TypeOK
<1>l. LossIsRefreshed <=> (stale /\ ui = "up" => Notified(coalesced) \/ Notified(channel))
  BY DEF LossIsRefreshed, Notified
<1>m. LossIsRefreshed' <=> (stale' /\ ui' = "up" => Notified(coalesced') \/ Notified(channel'))
  BY DEF LossIsRefreshed, Notified
<1>k. ASSUME stale' => stale, ui' = "up" => ui = "up", Notified(coalesced) => Notified(coalesced'), channel' = channel
      PROVE  LossIsRefreshed'
  BY <1>k, <1>l, <1>m
<1>e. Notified(Pushed("exit"))
  BY <1>t, PushedTyped DEF Notified
<1>1. CASE Poll
  <2>1. stale' => ~Notified(channel)
    BY <1>1 DEF Poll, Notified
  <2> QED BY <1>1, <2>1, <1>l, <1>m DEF Poll
<1>2. CASE Drop
  BY <1>2, <1>m DEF Drop
<1>3. ASSUME NEW r \in Requests, Send(r) \/ Return(r)
      PROVE  LossIsRefreshed'
  BY <1>3, <1>k DEF Send, Return, telling
<1>4. CASE WriterStep
  BY <1>4, <1>k DEF WriterStep, Receive, NoMoreRequests, Announce, NotAnnounced, NobodyReads, Write,
     WriteFails, Completed, TimesOut, telling
<1>5. CASE TmuxStep
  BY <1>5, <1>k DEF TmuxStep, NotifyUI, TmuxEnds, Run, TmuxOnly, telling
<1>6. CASE Eof
  BY <1>6, <1>e, <1>k DEF Eof, ShutDown
<1>7. CASE BeginBlock
  BY <1>7, <1>e, <1>k DEF BeginBlock, ShutDown
<1>8. CASE EndBlock \/ EndToken
  BY <1>8, <1>k DEF EndBlock, EndToken, telling
<1>9. CASE ReadNote
  <2>1. /\ Notified(coalesced) => Notified(coalesced')
        /\ Head(stream).kind = "flood" => Notified(coalesced')
    BY <1>9, <1>t, PushedTyped DEF ReadNote, Reads, Notified
  <2> QED BY <1>9, <2>1, <1>l, <1>m DEF ReadNote
<1>10. CASE Flush \/ Unblock
  <2>1. channel' = Append(channel, Head(coalesced)) /\ coalesced' = Tail(coalesced) /\ coalesced # <<>>
        /\ stale' = stale /\ ui' = ui
    BY <1>10, <1>t DEF Flush, Unblock
  <2> QED BY <2>1, <1>t, <1>l, <1>m, NotifiedSeq
<1>11. CASE FlushFull
  <2>1. CASE Head(coalesced) = "exit"
    BY <1>11, <2>1, <1>k DEF FlushFull
  <2>2. CASE Head(coalesced) # "exit"
    <3>1. coalesced' = <<"refresh">>
      BY <1>11, <2>2 DEF FlushFull
    <3>2. Notified(<<"refresh">>)
      BY DEF Notified
    <3> QED BY <1>m, <3>1, <3>2
  <2> QED BY <2>1, <2>2
<1>12. CASE NobodyListens
  BY <1>12, <1>m DEF NobodyListens
<1>13. CASE UNCHANGED vars
  BY <1>13, <1>k DEF vars, telling
<1> QED
  BY <1>1, <1>2, <1>3, <1>4, <1>5, <1>6, <1>7, <1>8, <1>9, <1>10, <1>11, <1>12, <1>13
     DEF Next, ReaderStep

\* When the channel was full or a burst was dropped, a refresh or the exit is on
\* its way to a UI that is still there, or has reached it: NotificationCoalescer.
THEOREM LossRefreshed == Spec => []LossIsRefreshed
<1>1. Init => Typed /\ LossIsRefreshed
  BY TypedInit, TmuxAssumption DEF Init, LossIsRefreshed
<1>2. Typed /\ LossIsRefreshed /\ [Next]_vars => (Typed /\ LossIsRefreshed)'
  BY TypedStep, RefreshStep, TmuxAssumption
<1> QED BY <1>1, <1>2, PTL DEF Spec

-----------------------------------------------------------------------------
(* The order of a sequence without repetitions.                            *)

\* Who is ahead is another, nobody is ahead of the first, and the last is ahead
\* of nobody.
LEMMA AheadEnds ==
  ASSUME NEW S, NEW s \in Seq(S), Distinct(s)
  PROVE  /\ \A r, q : Ahead(s, r, q) => r \in Elements(s) /\ q \in Elements(s) /\ r # q
         /\ \A r, q : Ahead(s, r, q) => ~Ahead(s, q, r)
         /\ \A r, q, p : Ahead(s, r, q) /\ Ahead(s, q, p) => Ahead(s, r, p)
         /\ \A r, q \in Elements(s) : r = q \/ Ahead(s, r, q) \/ Ahead(s, q, r)
         /\ s # <<>> => s[1] \in Elements(s) /\ s[Len(s)] \in Elements(s)
         /\ \A r : ~Ahead(s, r, s[1])
         /\ \A q \in Elements(s) : q = s[1] \/ Ahead(s, s[1], q)
         /\ \A q \in Elements(s) : q = s[Len(s)] \/ Ahead(s, q, s[Len(s)])
<1>0. DOMAIN s = 1..Len(s) /\ Len(s) \in Nat
  OBVIOUS
<1>1. \A i, j \in DOMAIN s : s[i] = s[j] => i = j
  BY <1>0 DEF Distinct
<1>2. \A r, q : Ahead(s, r, q) => r \in Elements(s) /\ q \in Elements(s) /\ r # q
  BY <1>0, <1>1 DEF Ahead, Elements
<1>3. \A r, q : Ahead(s, r, q) => ~Ahead(s, q, r)
  BY <1>0, <1>1 DEF Ahead
<1>4. \A r, q, p : Ahead(s, r, q) /\ Ahead(s, q, p) => Ahead(s, r, p)
  BY <1>0, <1>1 DEF Ahead
<1>5. \A r, q \in Elements(s) : r = q \/ Ahead(s, r, q) \/ Ahead(s, q, r)
  BY <1>0 DEF Ahead, Elements
<1>6. s # <<>> => 1 \in DOMAIN s /\ Len(s) \in DOMAIN s
  OBVIOUS
<1>7. s # <<>> => s[1] \in Elements(s) /\ s[Len(s)] \in Elements(s)
  BY <1>6 DEF Elements
<1>8. \A r : ~Ahead(s, r, s[1])
  <2> SUFFICES ASSUME NEW r, Ahead(s, r, s[1])
               PROVE  FALSE
    OBVIOUS
  <2>1. PICK i, j \in DOMAIN s : i < j /\ s[i] = r /\ s[j] = s[1]
    BY DEF Ahead
  <2>2. 1 \in DOMAIN s
    BY <1>6, <2>1, <1>0
  <2> QED BY <2>1, <2>2, <1>0, <1>1
<1>9. \A q \in Elements(s) : q = s[1] \/ Ahead(s, s[1], q)
  <2> SUFFICES ASSUME NEW i \in DOMAIN s
               PROVE  s[i] = s[1] \/ Ahead(s, s[1], s[i])
    BY DEF Elements
  <2>1. 1 \in DOMAIN s /\ (i = 1 \/ 1 < i)
    BY <1>0
  <2> QED BY <2>1 DEF Ahead
<1>10. \A q \in Elements(s) : q = s[Len(s)] \/ Ahead(s, q, s[Len(s)])
  <2> SUFFICES ASSUME NEW i \in DOMAIN s
               PROVE  s[i] = s[Len(s)] \/ Ahead(s, s[i], s[Len(s)])
    BY DEF Elements
  <2>1. Len(s) \in DOMAIN s /\ (i = Len(s) \/ i < Len(s))
    BY <1>0
  <2> QED BY <2>1 DEF Ahead
<1> QED BY <1>2, <1>3, <1>4, <1>5, <1>7, <1>8, <1>9, <1>10

\* What is appended is behind everything.
LEMMA AheadAppend ==
  ASSUME NEW S, NEW s \in Seq(S), NEW x \in S
  PROVE  /\ Append(s, x) \in Seq(S) /\ Elements(Append(s, x)) = Elements(s) \cup {x}
         /\ \A r, q : Ahead(s, r, q) => Ahead(Append(s, x), r, q)
         /\ \A r \in Elements(s) : Ahead(Append(s, x), r, x)
         /\ \A r, q : Ahead(Append(s, x), r, q) => Ahead(s, r, q) \/ (r \in Elements(s) /\ q = x)
         /\ Distinct(s) /\ x \notin Elements(s) => Distinct(Append(s, x))
<1> DEFINE u == Append(s, x)
<1>0. DOMAIN s = 1..Len(s) /\ Len(s) \in Nat
  OBVIOUS
<1>1. /\ u \in Seq(S) /\ DOMAIN u = 1..(Len(s) + 1) /\ u[Len(s) + 1] = x
      /\ \A i \in DOMAIN s : u[i] = s[i]
  OBVIOUS
<1> HIDE DEF u
<1>d. /\ \A i \in DOMAIN s : i \in DOMAIN u /\ u[i] = s[i] /\ i < Len(s) + 1
      /\ Len(s) + 1 \in DOMAIN u
      /\ \A i \in DOMAIN u : i \in DOMAIN s \/ i = Len(s) + 1
      /\ \A i, j \in DOMAIN u : i < j => i \in DOMAIN s
  BY <1>0, <1>1
<1>2. Elements(u) = Elements(s) \cup {x}
  <2>1. Elements(u) \subseteq Elements(s) \cup {x}
    BY <1>1, <1>d DEF Elements
  <2>2. Elements(s) \cup {x} \subseteq Elements(u)
    BY <1>1, <1>d DEF Elements
  <2> QED BY <2>1, <2>2
<1>3. \A r, q : Ahead(s, r, q) => Ahead(u, r, q)
  BY <1>d DEF Ahead
<1>4. \A r \in Elements(s) : Ahead(u, r, x)
  BY <1>d, <1>1 DEF Ahead, Elements
<1>5. \A r, q : Ahead(u, r, q) => Ahead(s, r, q) \/ (r \in Elements(s) /\ q = x)
  BY <1>d, <1>1 DEF Ahead, Elements
<1>6. ASSUME Distinct(s), x \notin Elements(s)
      PROVE  Distinct(u)
  BY <1>d, <1>1, <1>6 DEF Distinct, Elements
<1> QED BY <1>1, <1>2, <1>3, <1>4, <1>5, <1>6 DEF u

\* What is behind the first n of a sequence.
Behind(s, n) == SubSeq(s, n + 1, Len(s))

\* It is what is left when the first n are taken.
LEMMA Suffix ==
  ASSUME NEW S, NEW s \in Seq(S), NEW n \in DOMAIN s, NEW u, u = Behind(s, n)
  PROVE  /\ u \in Seq(S) /\ Len(u) = Len(s) - n /\ Len(u) \in Nat
         /\ DOMAIN u = 1..Len(u) /\ n \in Nat /\ Len(s) \in Nat /\ DOMAIN s = 1..Len(s)
         /\ \A i \in DOMAIN u : n + i \in DOMAIN s /\ u[i] = s[n + i]
<1>1. n \in Nat /\ Len(s) \in Nat /\ DOMAIN s = 1..Len(s) /\ n =< Len(s) /\ n >= 1
  OBVIOUS
<1>2. u \in Seq(S) /\ Len(u) = Len(s) - n
  BY <1>1 DEF Behind
<1>3. \A i \in 1..(Len(s) - n) : n + i \in DOMAIN s /\ u[i] = s[n + i]
  BY <1>1 DEF Behind
<1>4. Len(u) \in Nat /\ DOMAIN u = 1..Len(u)
  BY <1>2
<1> QED BY <1>1, <1>2, <1>3, <1>4

\* It keeps the order, and has nothing of what was ahead.
LEMMA AheadSuffix ==
  ASSUME NEW S, NEW s \in Seq(S), NEW n \in DOMAIN s, NEW u, u = Behind(s, n), Distinct(s)
  PROVE  /\ u \in Seq(S) /\ Distinct(u) /\ Elements(u) \subseteq Elements(s)
         /\ \A r, q : Ahead(u, r, q) => Ahead(s, r, q)
         /\ \A q : Ahead(s, s[n], q) => q \in Elements(u)
         /\ \A i \in DOMAIN s : s[i] \notin Elements(u) \/ n < i
         /\ \A r, q \in Elements(u) : Ahead(s, r, q) => Ahead(u, r, q)
         /\ u # <<>> => u[Len(u)] = s[Len(s)]
<1>1. /\ u \in Seq(S) /\ Len(u) = Len(s) - n /\ Len(u) \in Nat
      /\ DOMAIN u = 1..Len(u) /\ n \in Nat /\ Len(s) \in Nat /\ DOMAIN s = 1..Len(s)
      /\ \A i \in DOMAIN u : n + i \in DOMAIN s /\ u[i] = s[n + i]
  BY Suffix
<1>2. \A i, j \in DOMAIN s : s[i] = s[j] => i = j
  BY <1>1 DEF Distinct
<1>3. Distinct(u)
  BY <1>1, <1>2 DEF Distinct
<1>4. Elements(u) \subseteq Elements(s)
  BY <1>1 DEF Elements
<1>5. \A r, q : Ahead(u, r, q) => Ahead(s, r, q)
  <2> SUFFICES ASSUME NEW i \in DOMAIN u, NEW j \in DOMAIN u, i < j
               PROVE  Ahead(s, u[i], u[j])
    BY DEF Ahead
  <2>1. n + i \in DOMAIN s /\ n + j \in DOMAIN s /\ n + i < n + j
    BY <1>1
  <2> QED BY <1>1, <2>1 DEF Ahead
<1>6. \A i \in DOMAIN s : i > n => s[i] \in Elements(u)
  <2> SUFFICES ASSUME NEW i \in DOMAIN s, i > n
               PROVE  s[i] \in Elements(u)
    OBVIOUS
  <2>1. i - n \in DOMAIN u /\ n + (i - n) = i
    BY <1>1
  <2> QED BY <2>1, <1>1 DEF Elements
<1>7. \A q : Ahead(s, s[n], q) => q \in Elements(u)
  BY <1>2, <1>6 DEF Ahead
<1>8. \A i \in DOMAIN s : s[i] \notin Elements(u) \/ n < i
  <2> SUFFICES ASSUME NEW i \in DOMAIN s, NEW k \in DOMAIN u, s[i] = u[k]
               PROVE  n < i
    BY DEF Elements
  <2>1. i = n + k
    BY <1>1, <1>2
  <2> QED BY <2>1, <1>1
<1>9. \A r, q \in Elements(u) : Ahead(s, r, q) => Ahead(u, r, q)
  <2> SUFFICES ASSUME NEW i \in DOMAIN u, NEW j \in DOMAIN u, Ahead(s, u[i], u[j])
               PROVE  Ahead(u, u[i], u[j])
    BY DEF Elements
  <2>1. PICK k, l \in DOMAIN s : k < l /\ s[k] = u[i] /\ s[l] = u[j]
    BY DEF Ahead
  <2>2. k = n + i /\ l = n + j
    BY <1>1, <1>2, <2>1
  <2>3. i < j
    BY <1>1, <2>1, <2>2
  <2> QED BY <2>3 DEF Ahead
<1>10. ASSUME u # <<>>
       PROVE  u[Len(u)] = s[Len(s)]
  <2>0. Len(u) # 0
    BY <1>1, <1>10
  <2>1. Len(u) \in DOMAIN u /\ n + Len(u) = Len(s)
    BY <1>1, <2>0
  <2> QED BY <1>1, <2>1
<1> QED BY <1>1, <1>3, <1>4, <1>5, <1>7, <1>8, <1>9, <1>10

-----------------------------------------------------------------------------
(* Who is announced.                                                       *)

\* The outstanding requests, and behind them the pending one.
LEMMA AnnouncedIs ==
  ASSUME Typed
  PROVE  /\ Announced \in Seq(Requests) /\ outstanding \in Seq(Requests)
         /\ Elements(outstanding) \subseteq Requests /\ Elements(Announced) \subseteq Requests
         /\ Elements(Announced) = Elements(outstanding) \cup Pending
         /\ outstanding # <<>> => Announced # <<>> /\ Announced[1] = outstanding[1]
                                  /\ outstanding[1] \in Requests
         /\ \A i \in DOMAIN outstanding : i \in DOMAIN Announced /\ Announced[i] = outstanding[i]
         /\ slot = NoRequest => Announced = outstanding
         /\ slot # NoRequest => Announced = Append(outstanding, slot) /\ slot \in Requests
<1>1. outstanding \in Seq(Requests) /\ slot \in Requests \cup {NoRequest}
  BY DEF Typed, TypeOK
<1>2. Elements(outstanding) \subseteq Requests
  BY <1>1 DEF Elements
<1>3. CASE slot = NoRequest
  <2>1. Announced = outstanding /\ Pending = {}
    BY <1>3 DEF Announced, Pending
  <2> QED BY <1>1, <1>2, <1>3, <2>1
<1>4. CASE slot # NoRequest
  <2>1. Announced = Append(outstanding, slot) /\ Pending = {slot} /\ slot \in Requests
    BY <1>1, <1>4 DEF Announced, Pending
  <2>2. Announced \in Seq(Requests) /\ Elements(Announced) = Elements(outstanding) \cup {slot}
    BY <1>1, <2>1, AheadAppend
  <2>3. /\ outstanding # <<>> => Announced # <<>> /\ Announced[1] = outstanding[1] /\ outstanding[1] \in Requests
        /\ \A i \in DOMAIN outstanding : i \in DOMAIN Announced /\ Announced[i] = outstanding[i]
    BY <1>1, <2>1
  <2> QED BY <1>1, <1>2, <1>4, <2>1, <2>2, <2>3
<1> QED BY <1>3, <1>4

\* Only an announcement adds to them, at the end.
LEMMA AnnouncedSteps ==
  ASSUME Typed, Typed', [Next]_vars
  PROVE  /\ Announce => Announced' = Append(Announced, writer.req) /\ writer.req \in Requests
         /\ ~Announce => Elements(Announced') \subseteq Elements(Announced)
         /\ ~Announce /\ outstanding' = outstanding /\ slot' = slot => Announced' = Announced
<1>1. ASSUME Announce
      PROVE  Announced' = Append(Announced, writer.req) /\ writer.req \in Requests
  <2>1. writer.req \in Requests /\ writer.req # NoRequest
    BY <1>1, TmuxAssumption DEF Announce, WriterAt, Typed, TmuxAssumption
  <2>2. slot = NoRequest /\ slot' = writer.req /\ outstanding' = outstanding
    BY <1>1 DEF Announce, tracker
  <2> QED BY <2>1, <2>2 DEF Announced
<1>2. ASSUME outstanding' = outstanding, slot' = slot
      PROVE  Announced' = Announced
  BY <1>2 DEF Announced
<1>e. Elements(<<>>) = {}
  BY DEF Elements
<1>f. ASSUME FailAll(Pending)
      PROVE  Elements(Announced') \subseteq Elements(Announced)
  <2>1. Announced' = <<>>
    BY <1>f DEF FailAll, Announced
  <2> QED BY <2>1, <1>e
<1>3. ASSUME ~Announce
      PROVE  Elements(Announced') \subseteq Elements(Announced)
  <2>1. CASE outstanding' = outstanding /\ slot' = slot
    BY <1>2, <2>1
  <2>2. CASE Eof \/ NobodyListens
    <3>1. FailAll(Pending) \/ (outstanding' = outstanding /\ slot' = slot)
      BY <2>2 DEF Eof, ShutDown, NobodyListens
    <3> QED BY <3>1, <2>1, <1>f
  <2>3. CASE BeginBlock
    <3>1. FailAll(Pending)
          \/ (slot = NoRequest /\ outstanding' = outstanding /\ slot' = NoRequest)
          \/ (slot # NoRequest /\ outstanding' = Append(outstanding, slot) /\ slot' = NoRequest)
      BY <2>3 DEF BeginBlock, ShutDown
    <3>2. FailAll(Pending) \/ Announced' = Announced
      BY <3>1 DEF Announced
    <3> QED BY <3>2, <1>f
  <2>4. CASE EndToken
    <3>1. slot' = slot /\ (outstanding' = outstanding \/ \E n \in DOMAIN outstanding :
             outstanding' = Behind(outstanding, n))
      BY <2>4 DEF EndToken, TokenAt, Behind
    <3>2. CASE outstanding' # outstanding
      <4>1. PICK n \in DOMAIN outstanding : outstanding' = Behind(outstanding, n)
        BY <3>1, <3>2
      <4>2. outstanding \in Seq(Requests) /\ outstanding' \in Seq(Requests)
        BY DEF Typed, TypeOK
      <4>3. Elements(outstanding') \subseteq Elements(outstanding)
        <5>1. ASSUME NEW u, u = Behind(outstanding, n)
              PROVE  \A i \in DOMAIN u : n + i \in DOMAIN outstanding /\ u[i] = outstanding[n + i]
          BY <4>2, <5>1, Suffix
        <5>2. \A i \in DOMAIN outstanding' : n + i \in DOMAIN outstanding /\ outstanding'[i] = outstanding[n + i]
          BY <4>1, <5>1
        <5> QED BY <5>2 DEF Elements
      <4>4. Elements(Announced) = Elements(outstanding) \cup Pending
        BY AnnouncedIs
      <4>5. (Elements(Announced) = Elements(outstanding) \cup Pending)'
        BY Typed', AnnouncedIs, PTL
      <4>6. Pending' = Pending
        BY <3>1 DEF Pending
      <4> QED BY <4>3, <4>4, <4>5, <4>6
    <3> QED BY <3>1, <3>2, <2>1
  <2>5. \/ outstanding' = outstanding /\ slot' = slot
        \/ Eof \/ NobodyListens \/ BeginBlock \/ EndToken
    <3>1. CASE WriterStep
      BY <3>1, <1>3 DEF WriterStep, Receive, NoMoreRequests, NotAnnounced, NobodyReads, Write,
         WriteFails, Completed, TimesOut, tracker
    <3>2. CASE ReaderStep
      BY <3>2 DEF ReaderStep, EndBlock, ReadNote, Flush, FlushFull, Unblock, tracker
    <3>3. CASE TmuxStep
      BY <3>3 DEF TmuxStep, NotifyUI, TmuxEnds, Run, TmuxOnly, tracker
    <3>4. CASE Poll \/ Drop \/ (\E r \in Requests : Send(r) \/ Return(r)) \/ UNCHANGED vars
      BY <3>4 DEF Poll, Drop, Send, Return, vars, tracker
    <3> QED BY <3>1, <3>2, <3>3, <3>4 DEF Next
  <2> QED BY <2>1, <2>2, <2>3, <2>4, <2>5
<1> QED BY <1>1, <1>2, <1>3

-----------------------------------------------------------------------------
(* What a step changes.                                                    *)

\* Whom a step answers, and how.
AnsweredBy(r) ==
  \/ Receive /\ r = Head(requests) /\ answer'[r] = "refused"
  \/ NotAnnounced /\ r = writer.req /\ answer'[r] = "unsent"
  \/ NobodyReads /\ r = writer.req /\ answer'[r] = "unsent"
  \/ (NobodyReads \/ WriteFails) /\ r \in Queued /\ answer'[r] = "dropped"
  \/ WriteFails /\ r = writer.req /\ answer'[r] = "closed"
  \/ TimesOut /\ r = writer.req /\ answer'[r] = "timeout"
  \/ r \in Elements(Announced) /\ answer'[r] = "closed"
  \/ EndToken /\ r \in Elements(outstanding) /\ answer'[r] = "lost"
  \/ /\ EndToken /\ open = "front" /\ r = Head(stream).of /\ r \in Elements(outstanding)
     /\ answer'[r] = IF Failed(r) THEN "error" ELSE "ok"

\* A slot is filled once, by one of these.
LEMMA WhoIsAnswered ==
  ASSUME Typed, [Next]_vars, NEW r \in Requests, answer'[r] # answer[r]
  PROVE  answer[r] = "none" /\ AnsweredBy(r)
<1>t. TypeOK
  BY DEF Typed
<1>r. \A rs, a : Replied(rs, a)[r] # answer[r] => r \in rs /\ answer[r] = "none" /\ Replied(rs, a)[r] = a
  BY DEF Replied
<1>f. ASSUME FailAll(Pending)
      PROVE  answer[r] = "none" /\ r \in Elements(Announced) /\ answer'[r] = "closed"
  <2>1. answer' = Replied(Elements(outstanding) \cup Pending, "closed")
    BY <1>f DEF FailAll, Elements
  <2> QED BY <2>1, <1>r, AnnouncedIs
<1>1. CASE Receive
  <2>1. answer' = answer \/ answer' = Replied({Head(requests)}, "refused")
    BY <1>1 DEF Receive
  <2> QED BY <1>1, <2>1, <1>r DEF AnsweredBy
<1>2. CASE NotAnnounced
  <2>1. answer' = Replied({writer.req}, "unsent")
    BY <1>2 DEF NotAnnounced
  <2> QED BY <1>2, <2>1, <1>r DEF AnsweredBy
<1>3. CASE NobodyReads
  <2>1. answer'[r] = IF r = writer.req THEN Replied({r}, "unsent")[r] ELSE Replied(Queued, "dropped")[r]
    BY <1>3 DEF NobodyReads
  <2> QED BY <1>3, <2>1, <1>r DEF AnsweredBy
<1>4. CASE WriteFails
  <2>1. answer'[r] = IF r = writer.req THEN Replied({r}, "closed")[r] ELSE Replied(Queued, "dropped")[r]
    BY <1>4 DEF WriteFails
  <2> QED BY <1>4, <2>1, <1>r DEF AnsweredBy
<1>5. CASE TimesOut
  <2>1. answer' = Replied({writer.req}, "timeout")
    BY <1>5 DEF TimesOut
  <2> QED BY <1>5, <2>1, <1>r DEF AnsweredBy
<1>6. CASE Eof \/ BeginBlock \/ NobodyListens
  <2>1. FailAll(Pending)
    BY <1>6 DEF Eof, BeginBlock, NobodyListens, ShutDown
  <2> QED BY <2>1, <1>f DEF AnsweredBy
<1>7. CASE EndToken
  <2> DEFINE p == Head(stream).of
             n == TokenAt(p)
  <2>1. /\ open = "front" /\ n # 0
        /\ answer' = [q \in Requests |->
             IF q = p THEN Replied({p}, IF Failed(p) THEN "error" ELSE "ok")[q]
             ELSE Replied({outstanding[i] : i \in 1..n - 1}, "lost")[q]]
    BY <1>7 DEF EndToken
  <2>2. n \in DOMAIN outstanding /\ outstanding[n] = p
    BY <2>1 DEF TokenAt
  <2> HIDE DEF n, p
  <2>3. {outstanding[i] : i \in 1..n - 1} \subseteq Elements(outstanding) /\ p \in Elements(outstanding)
    <3>1. outstanding \in Seq(Requests)
      BY <1>t DEF TypeOK
    <3>2. 1..n - 1 \subseteq DOMAIN outstanding
      BY <2>2, <3>1
    <3> QED BY <3>2, <2>2 DEF Elements
  <2>4. CASE r = p
    <3>1. answer'[r] = Replied({p}, IF Failed(p) THEN "error" ELSE "ok")[r]
      BY <2>1, <2>4
    <3>2. answer[r] = "none" /\ answer'[r] = IF Failed(p) THEN "error" ELSE "ok"
      BY <3>1, <1>r
    <3> QED BY <1>7, <2>1, <2>3, <2>4, <3>2 DEF AnsweredBy, p
  <2>5. CASE r # p
    <3>1. answer'[r] = Replied({outstanding[i] : i \in 1..n - 1}, "lost")[r]
      BY <2>1, <2>5
    <3> QED BY <1>7, <2>3, <3>1, <1>r DEF AnsweredBy
  <2> QED BY <2>4, <2>5
<1>8. \/ Receive \/ NotAnnounced \/ NobodyReads \/ WriteFails \/ TimesOut
      \/ Eof \/ BeginBlock \/ NobodyListens \/ EndToken
  <2>1. CASE WriterStep
    BY <2>1 DEF WriterStep, NoMoreRequests, Announce, Write, Completed, callers
  <2>2. CASE ReaderStep
    BY <2>2 DEF ReaderStep, EndBlock, ReadNote, Flush, FlushFull, Unblock, callers
  <2>3. CASE TmuxStep
    BY <2>3 DEF TmuxStep, NotifyUI, TmuxEnds, Run, TmuxOnly, callers
  <2>4. CASE Poll \/ Drop \/ (\E q \in Requests : Send(q) \/ Return(q)) \/ UNCHANGED vars
    BY <2>4 DEF Poll, Drop, Send, Return, vars, callers
  <2> QED BY <2>1, <2>2, <2>3, <2>4 DEF Next
<1> QED BY <1>1, <1>2, <1>3, <1>4, <1>5, <1>6, <1>7, <1>8

\* The writer writes its request, tmux runs and loses what it reads next, and
\* the reader gives a block to the oldest outstanding request.
LEMMA WhatIsAdded ==
  ASSUME Typed, Blocks, dying => reader # "reading", [Next]_vars
  PROVE  /\ written' = written \/ (Write /\ written' = written \cup {writer.req})
         /\ \A r \in Requests :
              /\ r \in lost' /\ r \notin lost => alive /\ input # <<>> /\ r = Head(input)
              /\ ran'[r] # ran[r] => alive /\ input # <<>> /\ r = Head(input)
              /\ heard'[r] # heard[r] =>
                   /\ EndBlock /\ ~dying /\ outstanding # <<>> /\ r = outstanding[1]
                   /\ Head(stream).of # NoRequest /\ heard'[r] = Append(heard[r], Head(stream))
         /\ lost \subseteq lost'
<1>t. /\ ran \in [Requests -> Seq(Items)] /\ heard \in [Requests -> Seq(Items)]
      /\ stream \in Seq(Items) /\ outstanding \in Seq(Requests) /\ dying \in BOOLEAN
  BY DEF Typed, TypeOK
<1>1. CASE WriterStep
  BY <1>1 DEF WriterStep, Receive, NoMoreRequests, Announce, NotAnnounced, NobodyReads, Write,
     WriteFails, Completed, TimesOut, WriterEnds, tmux, tracker
<1>2. CASE Eof \/ BeginBlock \/ EndToken \/ ReadNote \/ Flush \/ FlushFull \/ Unblock \/ NobodyListens
  BY <1>2 DEF Eof, BeginBlock, EndToken, ReadNote, Flush, FlushFull, Unblock, NobodyListens,
     writing, tmux, tracker
<1>3. CASE EndBlock
  <2>1. UNCHANGED <<written, lost, ran>>
    BY <1>3 DEF EndBlock, writing, tmux
  <2>2. ASSUME NEW r \in Requests, heard'[r] # heard[r]
        PROVE  /\ EndBlock /\ ~dying /\ outstanding # <<>> /\ r = outstanding[1]
               /\ Head(stream).of # NoRequest /\ heard'[r] = Append(heard[r], Head(stream))
    <3>1. /\ Head(stream).of # NoRequest
          /\ heard' = [heard EXCEPT ![outstanding[1]] = Append(@, Head(stream))]
          /\ stream # <<>> /\ reader = "reading"
      BY <1>3, <2>2 DEF EndBlock, Reads
    <3>2. r = outstanding[1] /\ heard'[r] = Append(heard[r], Head(stream))
      BY <2>2, <3>1, <1>t
    <3>3. stream[1] = Head(stream)
      BY <3>1, <1>t
    <3>4. ~dying /\ Head(stream).of \in Elements(outstanding)
      BY <3>1, <3>3 DEF Blocks
    <3>5. outstanding # <<>>
      BY <3>4 DEF Elements
    <3> QED BY <1>3, <3>1, <3>2, <3>4, <3>5
  <2> QED BY <2>1, <2>2
<1>4. CASE TmuxStep
  <2>1. /\ UNCHANGED <<written, heard>>
        /\ lost' = lost \/ (alive /\ input # <<>> /\ lost' = lost \cup {Head(input)})
        /\ ran' = ran \/ (alive /\ input # <<>> /\ \E own : ran' = [ran EXCEPT ![Head(input)] = own])
    <3>1. CASE NotifyUI \/ TmuxEnds(<<>>)
      BY <3>1 DEF NotifyUI, TmuxEnds, TmuxOnly, writing, tracker
    <3>2. CASE alive /\ input # <<>> /\ \E own \in Results(Head(input)) : Run(own) \/ TmuxEnds(own)
      BY <3>2 DEF Run, TmuxEnds, TmuxOnly, writing, tracker
    <3> QED BY <1>4, <3>1, <3>2 DEF TmuxStep
  <2> QED BY <2>1, <1>t
<1>5. CASE Poll \/ Drop \/ (\E q \in Requests : Send(q) \/ Return(q)) \/ UNCHANGED vars
  BY <1>5 DEF Poll, Drop, Send, Return, vars, writing, tmux, tracker
<1> QED BY <1>1, <1>2, <1>3, <1>4, <1>5 DEF Next, ReaderStep

-----------------------------------------------------------------------------
(* The requests that wait, and those that were not announced yet.          *)

\* A sequence without repetitions has its head only there.
LEMMA HeadTail ==
  ASSUME NEW S, NEW s \in Seq(S), s # <<>>, Distinct(s)
  PROVE  /\ Head(s) \in Elements(s) /\ Elements(Tail(s)) \subseteq Elements(s) \ {Head(s)}
         /\ Elements(s) \subseteq Elements(Tail(s)) \cup {Head(s)}
         /\ Distinct(Tail(s)) /\ Tail(s) \in Seq(S) /\ Head(s) = s[1]
         /\ \A i \in DOMAIN Tail(s) : i + 1 \in DOMAIN s /\ Tail(s)[i] = s[i + 1]
         /\ \A i \in DOMAIN s : i = 1 \/ (i - 1 \in DOMAIN Tail(s) /\ Tail(s)[i - 1] = s[i])
<1> DEFINE u == Tail(s)
<1>1. /\ Head(s) = s[1] /\ 1 \in DOMAIN s /\ u \in Seq(S) /\ DOMAIN u = 1..(Len(s) - 1)
      /\ DOMAIN s = 1..Len(s) /\ Len(s) \in Nat
      /\ \A i \in DOMAIN u : i + 1 \in DOMAIN s /\ u[i] = s[i + 1]
  OBVIOUS
<1> HIDE DEF u
<1>2. \A i, j \in DOMAIN s : s[i] = s[j] => i = j
  BY <1>1 DEF Distinct
<1>3. \A i \in DOMAIN s : i = 1 \/ (i - 1 \in DOMAIN u /\ u[i - 1] = s[i])
  <2>1. \A i \in DOMAIN s : i = 1 \/ (i - 1 \in DOMAIN u /\ (i - 1) + 1 = i)
    BY <1>1
  <2> QED BY <2>1, <1>1
<1>4. Distinct(u)
  BY <1>1, <1>2 DEF Distinct
<1>5. Elements(u) \subseteq Elements(s) \ {Head(s)}
  <2>1. \A i \in DOMAIN u : i + 1 # 1
    BY <1>1
  <2> QED BY <1>1, <1>2, <2>1 DEF Elements
<1>6. Elements(s) \subseteq Elements(u) \cup {Head(s)}
  BY <1>1, <1>3 DEF Elements
<1>7. Head(s) \in Elements(s)
  BY <1>1 DEF Elements
<1> QED BY <1>1, <1>3, <1>4, <1>5, <1>6, <1>7 DEF u

\* A request is queued by its call alone, and taken out by the writer.
LEMMA QueueSteps ==
  ASSUME Typed, InPlace, [Next]_vars
  PROVE  /\ Distinct(requests')
         /\ \A r \in Requests : call'[r] = "new" => call[r] = "new"
         /\ \A r \in Elements(requests') : r \in Requests /\
              \/ r \in Elements(requests)
              \/ call[r] = "new" /\ call'[r] # "new" /\ UNCHANGED writer
         /\ Receive => /\ Head(requests) \in Elements(requests) /\ Head(requests) \notin Elements(requests')
         /\ NobodyReads \/ WriteFails \/ NoMoreRequests => Elements(requests') = {}
         /\ \/ UNCHANGED writer
            \/ Receive /\ writer' = [at |-> "slot", req |-> Head(requests)]
            \/ Announce /\ writer' = [at |-> "write", req |-> writer.req]
            \/ Write /\ writer' = [at |-> "wait", req |-> writer.req]
            \/ writer' \in {[at |-> "idle", req |-> NoRequest], [at |-> "ended", req |-> NoRequest]}
<1>t. /\ requests \in Seq(Requests) /\ call \in [Requests -> {"new", "waiting", "done"}]
      /\ Elements(requests) \subseteq Requests /\ Elements(<<>>) = {} /\ Distinct(<<>>)
  BY DEF Typed, TypeOK, Elements, Distinct
<1>d. Distinct(requests) /\ \A r \in Elements(requests) : call[r] # "new"
  BY DEF InPlace
<1>1. ASSUME NEW q \in Requests, Send(q)
      PROVE  /\ Distinct(requests')
             /\ \A r \in Requests : call'[r] = "new" => call[r] = "new"
             /\ \A r \in Elements(requests') : r \in Requests /\
                  \/ r \in Elements(requests)
                  \/ call[r] = "new" /\ call'[r] # "new" /\ UNCHANGED writer
             /\ UNCHANGED writer
  <2>1. /\ call[q] = "new" /\ UNCHANGED writer
        /\ call' = [call EXCEPT ![q] = "waiting"] \/ call' = [call EXCEPT ![q] = "done"]
        /\ requests' = requests \/ requests' = Append(requests, q)
    BY <1>1 DEF Send
  <2>2. /\ \A r \in Requests : call'[r] = "new" => call[r] = "new"
        /\ call'[q] # "new"
    BY <2>1, <1>t
  <2>3. CASE requests' = Append(requests, q)
    <3>1. q \notin Elements(requests)
      BY <2>1, <1>d
    <3>2. Elements(requests') = Elements(requests) \cup {q} /\ Distinct(requests')
      BY <2>3, <3>1, <1>t, <1>d, AheadAppend
    <3> QED BY <2>1, <2>2, <3>2, <1>t
  <2> QED BY <2>1, <2>2, <2>3, <1>t, <1>d
<1>2. CASE Receive
  <2>1. /\ requests # <<>> /\ requests' = Tail(requests) /\ call' = call
        /\ UNCHANGED writer \/ writer' = [at |-> "slot", req |-> Head(requests)]
        /\ ~NobodyReads /\ ~WriteFails /\ ~NoMoreRequests
    BY <1>2 DEF Receive, WriterGoes, NobodyReads, WriteFails, NoMoreRequests, WriterAt
  <2>2. /\ Head(requests) \in Elements(requests) /\ Distinct(Tail(requests))
        /\ Elements(Tail(requests)) \subseteq Elements(requests) \ {Head(requests)}
    BY <2>1, <1>t, <1>d, HeadTail
  <2> QED BY <1>2, <2>1, <2>2, <1>t, <1>d
<1>3. CASE NobodyReads \/ WriteFails \/ NoMoreRequests
  <2>1. requests' = <<>> /\ call' = call /\ writer' = [at |-> "ended", req |-> NoRequest] /\ ~Receive
    BY <1>3 DEF NobodyReads, WriteFails, NoMoreRequests, WriterEnds, WriterGoes, Receive, callers, WriterAt
  <2> QED BY <2>1, <1>t
<1>4. CASE Announce \/ Write
  <2>1. /\ requests' = requests /\ call' = call
        /\ \/ Announce /\ writer' = [at |-> "write", req |-> writer.req]
           \/ Write /\ writer' = [at |-> "wait", req |-> writer.req]
        /\ ~Receive /\ ~NobodyReads /\ ~NoMoreRequests /\ ~WriteFails
    BY <1>4 DEF Announce, Write, WriterGoes, callers, Receive, WriterAt, NobodyReads, NoMoreRequests,
       WriteFails, WriterEnds
  <2> QED BY <2>1, <1>t, <1>d
<1>5. CASE /\ requests' = requests
           /\ \A r \in Requests : call'[r] = "new" => call[r] = "new"
           /\ UNCHANGED writer \/ writer' = [at |-> "idle", req |-> NoRequest]
  <2>1. Receive => Head(requests) \notin Elements(requests')
    <3>1. ASSUME Receive
          PROVE  FALSE
      BY <3>1, <1>5, <1>t, <1>d, HeadTail DEF Receive
    <3> QED BY <3>1
  <2>2. ~NobodyReads /\ ~WriteFails /\ ~NoMoreRequests
    BY <1>5 DEF NobodyReads, WriteFails, NoMoreRequests, WriterEnds, WriterGoes, WriterAt
  <2>3. ~Receive
    BY <2>1, <1>5, <1>t, <1>d, HeadTail DEF Receive
  <2> QED BY <1>5, <1>t, <1>d, <2>1, <2>2, <2>3
<1>6. \/ \E q \in Requests : Send(q)
      \/ Receive \/ NobodyReads \/ WriteFails \/ NoMoreRequests \/ Announce \/ Write
      \/ /\ requests' = requests
         /\ \A r \in Requests : call'[r] = "new" => call[r] = "new"
         /\ UNCHANGED writer \/ writer' = [at |-> "idle", req |-> NoRequest]
  <2>1. CASE WriterStep
    BY <2>1 DEF WriterStep, NotAnnounced, Completed, TimesOut, callers, WriterGoes
  <2>2. CASE ReaderStep
    BY <2>2 DEF ReaderStep, Eof, BeginBlock, EndBlock, EndToken, ReadNote, Flush, FlushFull, Unblock,
       NobodyListens, callers, writing
  <2>3. CASE TmuxStep
    BY <2>3 DEF TmuxStep, NotifyUI, TmuxEnds, Run, TmuxOnly, callers, writing
  <2>4. CASE \E q \in Requests : Return(q)
    BY <2>4, <1>t DEF Return, writing
  <2>5. CASE Poll \/ Drop \/ UNCHANGED vars
    BY <2>5 DEF Poll, Drop, vars, callers, writing
  <2> QED BY <2>1, <2>2, <2>3, <2>4, <2>5 DEF Next
<1> QED BY <1>1, <1>2, <1>3, <1>4, <1>5, <1>6

\* Who is not announced yet was not announced before.
LEMMA EarlyShrinks ==
  ASSUME Typed, InPlace, [Next]_vars, NEW r \in Requests, Early(r)'
  PROVE  /\ Early(r)
         /\ WriterAt("slot") /\ writer.req = r => UNCHANGED writer
         /\ Receive /\ r = Head(requests) => writer' = [at |-> "slot", req |-> r]
         /\ ~(NobodyReads \/ WriteFails) \/ r \notin Queued
<1>e. Early(r)' <=> \/ call'[r] = "new" \/ r \in Elements(requests')
                    \/ writer'.at = "slot" /\ writer'.req = r
  BY DEF Early, Elements, WriterAt
<1>q. /\ \A q \in Requests : call'[q] = "new" => call[q] = "new"
      /\ \A q \in Elements(requests') : q \in Requests /\
           \/ q \in Elements(requests)
           \/ call[q] = "new" /\ call'[q] # "new" /\ UNCHANGED writer
      /\ Receive => /\ Head(requests) \in Elements(requests) /\ Head(requests) \notin Elements(requests')
      /\ NobodyReads \/ WriteFails \/ NoMoreRequests => Elements(requests') = {}
      /\ \/ UNCHANGED writer
         \/ Receive /\ writer' = [at |-> "slot", req |-> Head(requests)]
         \/ Announce /\ writer' = [at |-> "write", req |-> writer.req]
         \/ Write /\ writer' = [at |-> "wait", req |-> writer.req]
         \/ writer' \in {[at |-> "idle", req |-> NoRequest], [at |-> "ended", req |-> NoRequest]}
  BY QueueSteps
<1>i. /\ \A q \in Elements(requests) : call[q] # "new" /\ (WriterAt("slot") => writer.req # q)
      /\ WriterAt("slot") => call[writer.req] # "new"
  BY DEF InPlace, WriterAt
<1>1. Early(r)
  BY <1>e, <1>q DEF Early, WriterAt
<1>2. ASSUME WriterAt("slot"), writer.req = r, ~UNCHANGED writer
      PROVE  FALSE
  BY <1>2, <1>e, <1>q, <1>i DEF WriterAt, Receive
<1>3. ASSUME Receive, r = Head(requests)
      PROVE  writer' = [at |-> "slot", req |-> r]
  BY <1>3, <1>e, <1>q, <1>i DEF WriterAt, Receive
<1>4. ASSUME NobodyReads \/ WriteFails
      PROVE  r \notin Queued
  <2>1. Queued = Elements(requests)
    BY DEF Queued, Elements
  <2>2. writer'.at = "ended"
    BY <1>4 DEF NobodyReads, WriteFails, WriterEnds, WriterGoes
  <2>3. Elements(requests') = {}
    BY <1>4, <1>q
  <2>4. call[r] = "new"
    BY <2>2, <2>3, <1>e, <1>q
  <2> QED BY <2>1, <2>4, <1>i
<1> QED BY <1>1, <1>2, <1>3, <1>4

\* ... and has left no trace.
LEMMA TracelessStep ==
  ASSUME Typed, Typed', Traceless, InPlace, Blocks, dying => reader # "reading", [Next]_vars
  PROVE  Traceless'
<1> SUFFICES ASSUME NEW r \in Requests, Early(r)'
             PROVE  (/\ r \notin written /\ r \notin lost /\ r \notin Elements(Announced)
                     /\ ~Writes(r)
                     /\ answer[r] = "none" /\ heard[r] = <<>> /\ ran[r] = <<>>)'
  BY DEF Traceless
<1>e. /\ Early(r)
      /\ WriterAt("slot") /\ writer.req = r => UNCHANGED writer
      /\ Receive /\ r = Head(requests) => writer' = [at |-> "slot", req |-> r]
      /\ ~(NobodyReads \/ WriteFails) \/ r \notin Queued
  BY EarlyShrinks
<1>t. /\ r \notin written /\ r \notin lost /\ r \notin Elements(Announced) /\ ~Writes(r)
      /\ answer[r] = "none" /\ heard[r] = <<>> /\ ran[r] = <<>>
  BY <1>e DEF Traceless
<1>a. /\ written' = written \/ (Write /\ written' = written \cup {writer.req})
      /\ r \in lost' => alive /\ input # <<>> /\ r = Head(input)
      /\ ran'[r] # ran[r] => alive /\ input # <<>> /\ r = Head(input)
      /\ heard'[r] # heard[r] => outstanding # <<>> /\ r = outstanding[1]
  BY <1>t, WhatIsAdded
<1>1. r \notin written'
  BY <1>a, <1>t DEF Write, Writes
<1>2. input # <<>> => r # Head(input)
  <2>1. input \in Seq(Requests)
    BY DEF Typed, TypeOK
  <2>2. input # <<>> => Head(input) \in Elements(input)
    BY <2>1 DEF Elements
  <2> QED BY <2>2, <1>t DEF InPlace
<1>3. r \notin lost' /\ ran'[r] = <<>>
  BY <1>2, <1>a, <1>t
<1>4. heard'[r] = <<>>
  <2>1. outstanding # <<>> => outstanding[1] \in Elements(Announced)
    BY AnnouncedIs DEF Elements
  <2> QED BY <2>1, <1>a, <1>t
<1>5. ~(Announce /\ writer.req = r)
  BY <1>e DEF Announce, WriterAt, WriterGoes
<1>6. r \notin Elements(Announced')
  <2>1. CASE Announce
    <3>1. Announced' = Append(Announced, writer.req) /\ writer.req \in Requests /\ Announced \in Seq(Requests)
      BY <2>1, AnnouncedSteps, AnnouncedIs
    <3>2. Elements(Announced') = Elements(Announced) \cup {writer.req}
      BY <3>1, AheadAppend
    <3> QED BY <3>2, <2>1, <1>5, <1>t
  <2>2. CASE ~Announce
    BY <2>2, <1>t, AnnouncedSteps
  <2> QED BY <2>1, <2>2
<1>7. ~Writes(r)'
  <2>1. Writes(r)' <=> writer'.at = "write" /\ writer'.req = r
    BY DEF Writes, WriterAt
  <2>2. \/ UNCHANGED writer
        \/ Receive /\ writer' = [at |-> "slot", req |-> Head(requests)]
        \/ Announce /\ writer' = [at |-> "write", req |-> writer.req]
        \/ Write /\ writer' = [at |-> "wait", req |-> writer.req]
        \/ writer' \in {[at |-> "idle", req |-> NoRequest], [at |-> "ended", req |-> NoRequest]}
    BY QueueSteps
  <2> QED BY <2>1, <2>2, <1>5, <1>t DEF Writes, WriterAt
<1>8. answer'[r] = "none"
  <2> SUFFICES ASSUME answer'[r] # answer[r]
               PROVE  FALSE
    BY <1>t
  <2>1. AnsweredBy(r)
    BY WhoIsAnswered
  <2>2. Elements(outstanding) \subseteq Elements(Announced)
    BY AnnouncedIs
  <2>3. ~(NotAnnounced /\ writer.req = r) /\ ~(NobodyReads /\ writer.req = r)
    BY <1>e DEF NotAnnounced, NobodyReads, WriterEnds, WriterGoes, WriterAt
  <2>4. ~(WriteFails /\ writer.req = r)
    BY <1>t DEF WriteFails, Writes
  <2>5. ~(TimesOut /\ writer.req = r)
    BY <1>t DEF TimesOut, InPlace
  <2>6. ~(Receive /\ r = Head(requests) /\ answer'[r] = "refused")
    <3> SUFFICES ASSUME Receive, r = Head(requests), answer'[r] = "refused"
                 PROVE  FALSE
      OBVIOUS
    <3>1. /\ writer' = [at |-> "slot", req |-> r] /\ writer.at = "idle"
          /\ UNCHANGED writer \/ UNCHANGED answer
      BY <1>e DEF Receive, WriterAt
    <3> QED BY <3>1, <1>t
  <2> QED BY <2>1, <2>2, <2>3, <2>4, <2>5, <2>6, <1>e, <1>t DEF AnsweredBy
<1>9. (r \notin Elements(Announced))' <=> r \notin Elements(Announced')
  BY DEF Elements
<1> QED BY <1>1, <1>3, <1>4, <1>6, <1>7, <1>8, <1>9

-----------------------------------------------------------------------------
(* What tmux adds to the stream.                                           *)

\* Whole blocks, of these requests only.
Adds(t, rs) ==
  /\ t \in Seq(Items)
  /\ \A i \in DOMAIN t :
       /\ t[i].kind \in {"begin", "output", "refresh", "flood", "eof"} => t[i].of = NoRequest
       /\ t[i].kind = "token" => t[i].of \in Requests
       /\ t[i].of # NoRequest => t[i].of \in rs /\ i > 1 /\ t[i - 1].kind = "begin"

NoTokens(t) == \A i \in DOMAIN t : t[i].kind # "token"

\* It has run the request it read next, whose token may be lost.
Ran(own, t) ==
  LET r == Head(input) IN
  /\ own \in Results(r)
  /\ alive' = alive /\ input' = Tail(input) /\ ran' = [ran EXCEPT ![r] = own]
  /\ \/ t = Written(Append(own, Item("token", r))) /\ lost' = lost
     \/ t = Written(own) /\ lost' = lost \cup {r}

\* It adds t, of nobody or of the request it read next: it runs, it ends, or it
\* just tells something.
Grown(t, rs) ==
  /\ stream' = stream \o t /\ Adds(t, rs)
  /\ rs = {} \/ (alive /\ input # <<>> /\ rs = {Head(input)})
  /\ UNCHANGED <<outstanding, slot, open, heard, dying, writer, written>>
  /\ \/ NoTokens(t) /\ rs = {} /\ UNCHANGED <<input, alive, ran, lost>>
     \/ NoTokens(t) /\ ~alive' /\ UNCHANGED <<input, lost>> /\ \A r \in Requests \ rs : ran'[r] = ran[r]
     \/ rs # {} /\ \E own \in Results(Head(input)) : Ran(own, t)

\* A notification, or the end, is no request's.
LEMMA AddsBare ==
  ASSUME NEW kind \in {"output", "refresh", "flood", "eof"}
  PROVE  /\ Adds(<<Bare(kind)>>, {}) /\ NoTokens(<<Bare(kind)>>)
         /\ \A s \in Seq(Items) : Append(s, Bare(kind)) = s \o <<Bare(kind)>>
<1> DEFINE x == Bare(kind)
<1>1. x \in Items /\ x.kind = kind /\ x.of = NoRequest
  BY DEF Bare, Item, Items
<1> HIDE DEF x
<1> DEFINE u == <<x>>
<1>2. u \in Seq(Items) /\ Len(u) = 1 /\ DOMAIN u = {1} /\ u[1] = x
  BY <1>1
<1> HIDE DEF u
<1>3. Adds(u, {}) /\ NoTokens(u)
  BY <1>1, <1>2 DEF Adds, NoTokens
<1>4. ASSUME NEW s \in Seq(Items)
      PROVE  Append(s, x) = s \o u
  <2>1. /\ Append(s, x) \in Seq(Items) /\ Len(Append(s, x)) = Len(s) + 1
        /\ Append(s, x)[Len(s) + 1] = x /\ \A i \in 1..Len(s) : Append(s, x)[i] = s[i]
    BY <1>1
  <2>2. s \o u \in Seq(Items) /\ Len(s \o u) = Len(s) + Len(u)
        /\ (\A i \in DOMAIN s : (s \o u)[i] = s[i])
        /\ (\A i \in DOMAIN u : (s \o u)[Len(s) + i] = u[i])
    BY <1>2, Concatenation
  <2>3. Len(s \o u) = Len(s) + 1 /\ (s \o u)[Len(s) + 1] = x /\ \A i \in 1..Len(s) : (s \o u)[i] = s[i]
    BY <1>2, <2>2
  <2> DEFINE a == Append(s, x)
             b == s \o u
  <2> HIDE DEF a, b
  <2>4. a \in Seq(Items) /\ b \in Seq(Items) /\ Len(a) = Len(b) /\ \A i \in 1..Len(a) : a[i] = b[i]
    BY <2>1, <2>2, <2>3 DEF a, b
  <2>5. a = b
    BY <2>4
  <2> QED BY <2>5 DEF a, b
<1> QED BY <1>3, <1>4 DEF u, x

\* The blocks of a command, each with its begin, and what follows them.
LEMMA WrittenAdds ==
  ASSUME NEW r \in Requests, NEW items \in Seq(Items), \A i \in DOMAIN items : items[i].of = r,
         TmuxAssumption, \A i \in DOMAIN items : items[i].kind \in {"ok", "error", "token"}
  PROVE  /\ Adds(Written(items), {r})
         /\ NoTokens(items) => NoTokens(Written(items))
<1> DEFINE t == Written(items)
<1>1. /\ t \in Seq(Items) /\ Len(t) = 2 * Len(items) /\ Len(items) \in Nat
      /\ \A i \in DOMAIN t :
           \/ t[i] = Bare("begin")
           \/ \E k \in DOMAIN items : i = 2 * k /\ t[i] = items[k] /\ t[i - 1] = Bare("begin")
  <2>1. t \in Seq(Items) /\ Len(t) = 2 * Len(items)
    BY WrittenTyped
  <2>2. \A i \in DOMAIN t :
          \/ t[i] = Bare("begin")
          \/ \E k \in DOMAIN items : i = 2 * k /\ t[i] = items[k] /\ t[i - 1] = Bare("begin")
    BY WrittenTyped
  <2> HIDE DEF t
  <2>3. Len(items) \in Nat
    OBVIOUS
  <2> QED BY <2>1, <2>2, <2>3
<1>2. Bare("begin").kind = "begin" /\ Bare("begin").of = NoRequest
  BY DEF Bare, Item
<1>3. r # NoRequest
  BY DEF TmuxAssumption
<1> HIDE DEF t
<1>4. ASSUME NEW i \in DOMAIN t
      PROVE  /\ t[i].kind \in {"begin", "output", "refresh", "flood", "eof"} => t[i].of = NoRequest
             /\ t[i].kind = "token" => t[i].of \in Requests
             /\ t[i].of # NoRequest => t[i].of \in {r} /\ i > 1 /\ t[i - 1].kind = "begin"
             /\ NoTokens(items) => t[i].kind # "token"
  <2>1. CASE t[i] = Bare("begin")
    BY <1>2, <2>1
  <2>2. CASE t[i] # Bare("begin")
    <3>1. PICK k \in DOMAIN items : i = 2 * k /\ t[i] = items[k] /\ t[i - 1] = Bare("begin")
      BY <1>1, <2>2
    <3>2. i > 1
      BY <3>1
    <3> QED BY <3>1, <3>2, <1>2 DEF NoTokens
  <2> QED BY <2>1, <2>2
<1> QED BY <1>1, <1>4 DEF Adds, NoTokens, t

\* ... and the end of the stream behind them.
LEMMA AddsEnd ==
  ASSUME NEW rs, NEW t, Adds(t, rs), NoTokens(t)
  PROVE  Adds(t \o <<Bare("eof")>>, rs) /\ NoTokens(t \o <<Bare("eof")>>)
<1> DEFINE x == Bare("eof")
<1>1. x \in Items /\ x.kind = "eof" /\ x.of = NoRequest
  BY DEF Bare, Item, Items
<1> HIDE DEF x
<1> DEFINE u == t \o <<x>>
<1>2. t \in Seq(Items)
  BY DEF Adds
<1>3. /\ u \in Seq(Items) /\ Len(u) = Len(t) + 1 /\ Len(t) \in Nat /\ u[Len(t) + 1] = x
      /\ \A i \in DOMAIN t : u[i] = t[i]
  BY <1>1, <1>2
<1> HIDE DEF u
<1>4. \A i \in DOMAIN u : \/ i = Len(t) + 1
                          \/ i \in DOMAIN t /\ (i > 1 => i - 1 \in DOMAIN t)
  BY <1>2, <1>3
<1>5. Adds(u, rs)
  BY <1>1, <1>3, <1>4 DEF Adds
<1>6. NoTokens(u)
  BY <1>1, <1>3, <1>4 DEF NoTokens
<1> QED BY <1>5, <1>6 DEF u, x

\* These are the ways in which tmux, or its end, adds to the stream.
LEMMA TmuxWrites ==
  ASSUME Typed, TmuxAssumption, Drop \/ TmuxStep
  PROVE  \/ /\ UNCHANGED <<stream, outstanding, slot, open, heard, dying, writer, written,
                           input, ran, lost>>
            /\ ~alive /\ ~alive'
         \/ \E t, rs : Grown(t, rs)
<1>t. /\ stream \in Seq(Items) /\ input \in Seq(Requests) /\ alive \in BOOLEAN
      /\ input # <<>> => Head(input) \in Requests
      /\ ran \in [Requests -> Seq(Items)]
  BY DEF Typed, TypeOK
<1>1. CASE Drop
  <2>1. CASE alive
    <3>1. stream' = stream \o <<Bare("eof")>>
      BY <1>1, <1>t, <2>1, AddsBare DEF Drop
    <3>2. Grown(<<Bare("eof")>>, {})
      BY <1>1, <3>1, AddsBare DEF Drop, Grown, tracker, writing
    <3> QED BY <3>2
  <2>2. CASE ~alive
    BY <1>1, <2>2 DEF Drop, writing, tracker
  <2> QED BY <2>1, <2>2
<1>2. CASE NotifyUI
  <2>1. PICK n \in {"output", "refresh", "flood"} : stream' = Append(stream, Bare(n))
    BY <1>2 DEF NotifyUI
  <2>2. stream' = stream \o <<Bare(n)>> /\ Adds(<<Bare(n)>>, {}) /\ NoTokens(<<Bare(n)>>)
    BY <2>1, <1>t, AddsBare
  <2>3. Grown(<<Bare(n)>>, {})
    BY <1>2, <2>2 DEF NotifyUI, TmuxOnly, Grown, tracker, writing
  <2> QED BY <2>3
<1>3. CASE TmuxEnds(<<>>)
  <2>1. Written(<<>>) = <<>>
    <3>1. Written(<<>>) \in Seq(Items) /\ Len(Written(<<>>)) = 2 * Len(<<>>) /\ Len(<<>>) = 0
      <4>1. <<>> \in Seq(Items)
        OBVIOUS
      <4> QED BY <4>1, WrittenTyped
    <3> QED BY <3>1
  <2>2. stream' = stream \o <<Bare("eof")>>
    <3> DEFINE u == <<Bare("eof")>>
    <3>1. stream' = stream \o <<>> \o u
      BY <1>3, <2>1 DEF TmuxEnds
    <3> HIDE DEF u
    <3>2. stream \o <<>> = stream
      BY <1>t
    <3> QED BY <3>1, <3>2 DEF u
  <2>3. Grown(<<Bare("eof")>>, {})
    BY <1>3, <2>2, AddsBare DEF TmuxEnds, TmuxOnly, Grown, tracker, writing
  <2> QED BY <2>3
<1>4. ASSUME alive, input # <<>>, NEW own \in Results(Head(input)), Run(own) \/ TmuxEnds(own)
      PROVE  \E t, rs : Grown(t, rs)
  <2> DEFINE r == Head(input)
  <2>0. r \in Requests /\ r # NoRequest
    BY <1>4, <1>t DEF TmuxAssumption
  <2>1. own \in Seq(Items) /\ \A i \in DOMAIN own : own[i] \in {Item("ok", r), Item("error", r)}
    BY <2>0, <1>4, ResultsTyped
  <2>2. /\ \A i \in DOMAIN own : own[i].of = r /\ own[i].kind \in {"ok", "error"}
        /\ NoTokens(own)
    BY <2>1 DEF Item, NoTokens
  <2>3. Adds(Written(own), {r}) /\ NoTokens(Written(own))
    BY <2>0, <2>1, <2>2, WrittenAdds
  <2>4. Adds(Written(Append(own, Item("token", r))), {r})
    <3> DEFINE x == Item("token", r)
    <3>1. x \in Items /\ x.of = r /\ x.kind = "token"
      BY <2>0 DEF Item, Items
    <3> HIDE DEF x
    <3>2. Append(own, x) \in Seq(Items)
      BY <2>1, <3>1
    <3>3. \A i \in DOMAIN Append(own, x) : Append(own, x)[i] = x \/ (i \in DOMAIN own /\ Append(own, x)[i] = own[i])
      BY <2>1, <3>1
    <3>4. /\ \A i \in DOMAIN Append(own, x) : Append(own, x)[i].of = r
          /\ \A i \in DOMAIN Append(own, x) : Append(own, x)[i].kind \in {"ok", "error", "token"}
      BY <2>2, <3>1, <3>3
    <3>5. Adds(Written(Append(own, x)), {r})
      BY <2>0, <3>2, <3>4, WrittenAdds
    <3> QED BY <3>5 DEF x
  <2>5. CASE Run(own)
    <3>1. PICK t : stream' = stream \o t /\ Ran(own, t)
      BY <1>4, <2>5 DEF Run, Ran
    <3>2. Adds(t, {r})
      BY <3>1, <2>3, <2>4 DEF Ran
    <3>3. Grown(t, {r})
      BY <1>4, <2>5, <3>1, <3>2 DEF Run, TmuxOnly, Grown, tracker, writing
    <3> QED BY <3>3
  <2>6. CASE TmuxEnds(own)
    <3> DEFINE t == Written(own) \o <<Bare("eof")>>
    <3>1. Adds(t, {r}) /\ NoTokens(t)
      BY <2>3, AddsEnd
    <3>2. stream' = stream \o t
      <4> DEFINE u == <<Bare("eof")>>
                 w == Written(own)
      <4>1. stream' = stream \o w \o u
        BY <2>6 DEF TmuxEnds
      <4>2. w \in Seq(Items)
        BY <2>3 DEF Adds
      <4>3. u \in Seq(Items)
        BY AddsBare DEF Adds
      <4> HIDE DEF u, w
      <4>4. (stream \o w) \o u = stream \o (w \o u)
        BY <4>2, <4>3, <1>t
      <4> QED BY <4>1, <4>4 DEF u, w
    <3>3. \A q \in Requests \ {r} : ran'[q] = ran[q]
      BY <2>6, <1>t DEF TmuxEnds
    <3> HIDE DEF t
    <3>4. Grown(t, {r})
      BY <1>4, <2>6, <3>1, <3>2, <3>3 DEF TmuxEnds, TmuxOnly, Grown, tracker, writing
    <3> QED BY <3>4
  <2> QED BY <1>4, <2>5, <2>6
<1> QED BY <1>1, <1>2, <1>3, <1>4 DEF TmuxStep

-----------------------------------------------------------------------------
(* The stream, and what tmux has not read yet.                             *)

\* The places of what is left when the head is taken.
LEMMA TailPositions ==
  ASSUME NEW S, NEW s \in Seq(S), s # <<>>
  PROVE  /\ Tail(s) \in Seq(S) /\ Head(s) = s[1] /\ 1 \in DOMAIN s /\ Len(Tail(s)) = Len(s) - 1
         /\ \A i \in DOMAIN Tail(s) : i + 1 \in DOMAIN s /\ Tail(s)[i] = s[i + 1]
         /\ \A i \in DOMAIN s : i = 1 \/ (i - 1 \in DOMAIN Tail(s) /\ Tail(s)[i - 1] = s[i])
         /\ \A i \in DOMAIN s : i \in Nat /\ i >= 1
         /\ \A i \in DOMAIN Tail(s) : i \in Nat /\ i >= 1
         /\ Elements(Tail(s)) \subseteq Elements(s)
<1>1. /\ Tail(s) \in Seq(S) /\ Head(s) = s[1] /\ 1 \in DOMAIN s /\ Len(Tail(s)) = Len(s) - 1
      /\ DOMAIN s = 1..Len(s) /\ Len(s) \in Nat
  OBVIOUS
<1>2. \A i \in DOMAIN Tail(s) : i + 1 \in DOMAIN s /\ Tail(s)[i] = s[i + 1]
  OBVIOUS
<1>3. \A i \in DOMAIN s : i = 1 \/ (i - 1 \in DOMAIN Tail(s) /\ (i - 1) + 1 = i)
  BY <1>1
<1>4. \A i \in DOMAIN s : i = 1 \/ (i - 1 \in DOMAIN Tail(s) /\ Tail(s)[i - 1] = s[i])
  BY <1>2, <1>3
<1>5. /\ \A i \in DOMAIN s : i \in Nat /\ i >= 1
      /\ \A i \in DOMAIN Tail(s) : i \in Nat /\ i >= 1
  BY <1>1
<1>6. Elements(Tail(s)) \subseteq Elements(s)
  BY <1>2 DEF Elements
<1> QED BY <1>1, <1>2, <1>4, <1>5, <1>6

ReaderTakes ==
  /\ Eof \/ BeginBlock \/ EndBlock \/ EndToken \/ ReadNote
  /\ stream # <<>> /\ stream' = Tail(stream) /\ reader = "reading"
  /\ UNCHANGED <<input, alive, ran, lost, writer, written>>

\* The reader takes an item at a time, and tmux adds some.
LEMMA StreamSteps ==
  ASSUME Typed, TmuxAssumption, [Next]_vars
  PROVE  \/ stream' = stream
         \/ ReaderTakes
         \/ \E t, rs : Grown(t, rs)
<1>1. CASE Eof \/ BeginBlock \/ EndBlock \/ EndToken \/ ReadNote
  BY <1>1 DEF Eof, BeginBlock, EndBlock, EndToken, ReadNote, Reads, ReaderTakes, tmux, writing
<1>2. CASE WriterStep
  BY <1>2 DEF WriterStep, Receive, NoMoreRequests, Announce, NotAnnounced, NobodyReads, Write,
     WriteFails, Completed, TimesOut
<1>3. CASE Flush \/ FlushFull \/ Unblock \/ NobodyListens
  BY <1>3 DEF Flush, FlushFull, Unblock, NobodyListens
<1>4. CASE TmuxStep \/ Drop
  BY <1>4, TmuxWrites
<1>5. CASE Poll \/ (\E q \in Requests : Send(q) \/ Return(q)) \/ UNCHANGED vars
  BY <1>5 DEF Poll, Send, Return, vars
<1> QED BY <1>1, <1>2, <1>3, <1>4, <1>5 DEF Next, ReaderStep

\* The writer adds to what tmux reads, and tmux, while it lives, takes from it.
LEMMA InputSteps ==
  ASSUME Typed, TmuxAssumption, [Next]_vars
  PROVE  /\ \/ input' = input
            \/ Write /\ alive /\ input' = Append(input, writer.req)
            \/ input # <<>> /\ input' = Tail(input)
         /\ alive' => alive
<1>1. CASE WriterStep
  BY <1>1 DEF WriterStep, Receive, NoMoreRequests, Announce, NotAnnounced, NobodyReads, Write,
     WriteFails, Completed, TimesOut, tmux
<1>2. CASE ReaderStep
  BY <1>2 DEF ReaderStep, Eof, BeginBlock, EndBlock, EndToken, ReadNote, Flush, FlushFull, Unblock,
     NobodyListens, tmux
<1>3. CASE TmuxStep
  BY <1>3 DEF TmuxStep, NotifyUI, TmuxEnds, Run
<1>4. CASE Poll \/ Drop \/ (\E q \in Requests : Send(q) \/ Return(q)) \/ UNCHANGED vars
  BY <1>4 DEF Poll, Drop, Send, Return, vars, tmux
<1> QED BY <1>1, <1>2, <1>3, <1>4 DEF Next

\* An item is one that was there, or one of those that tmux adds.
LEMMA Added ==
  ASSUME Typed, NEW t, NEW rs, Grown(t, rs)
  PROVE  /\ t \in Seq(Items) /\ stream \in Seq(Items) /\ stream' = stream \o t
         /\ Len(stream) \in Nat /\ DOMAIN stream = 1..Len(stream) /\ DOMAIN t = 1..Len(t) /\ Len(t) \in Nat
         /\ Len(stream') = Len(stream) + Len(t) /\ DOMAIN stream' = 1..Len(stream')
         /\ \A i \in DOMAIN stream : i \in DOMAIN stream' /\ stream'[i] = stream[i]
         /\ \A i \in DOMAIN t : Len(stream) + i \in DOMAIN stream' /\ stream'[Len(stream) + i] = t[i]
         /\ \A i \in DOMAIN stream' :
              \/ i \in DOMAIN stream /\ stream'[i] = stream[i]
              \/ i > Len(stream) /\ i - Len(stream) \in DOMAIN t /\ stream'[i] = t[i - Len(stream)]
<1> DEFINE u == stream \o t
<1>1. t \in Seq(Items) /\ stream \in Seq(Items)
  BY DEF Grown, Adds, Typed, TypeOK
<1>2. /\ u \in Seq(Items) /\ Len(u) = Len(stream) + Len(t)
      /\ \A i \in DOMAIN stream : i \in DOMAIN u /\ u[i] = stream[i]
      /\ \A i \in DOMAIN t : Len(stream) + i \in DOMAIN u /\ u[Len(stream) + i] = t[i]
      /\ \A i \in DOMAIN u : i \in DOMAIN stream \/ (i > Len(stream) /\ i - Len(stream) \in DOMAIN t)
  BY <1>1, Concatenation
<1>3. u = stream'
  BY DEF Grown
<1> HIDE DEF u
<1>4. Len(stream) \in Nat /\ DOMAIN stream = 1..Len(stream) /\ DOMAIN t = 1..Len(t) /\ Len(t) \in Nat
      /\ DOMAIN u = 1..Len(u)
  BY <1>1, <1>2
<1>5. \A i \in DOMAIN u : i > Len(stream) => Len(stream) + (i - Len(stream)) = i
  BY <1>4
<1>6. \A i \in DOMAIN u :
              \/ i \in DOMAIN stream /\ u[i] = stream[i]
              \/ i > Len(stream) /\ i - Len(stream) \in DOMAIN t /\ u[i] = t[i - Len(stream)]
  BY <1>2, <1>5
<1>7. stream' = stream \o t
  BY DEF Grown
<1> QED BY <1>1, <1>2, <1>3, <1>4, <1>6, <1>7

\* A reader that has not shut down keeps what it tracks, unless it reads.
LEMMA TrackerSteps ==
  ASSUME Typed, [Next]_vars, ~dying'
  PROVE  /\ ~dying
         /\ UNCHANGED <<outstanding, open>> \/ BeginBlock \/ EndBlock \/ EndToken \/ ReadNote
<1>0. dying \in BOOLEAN
  BY DEF Typed, TypeOK
<1>1. CASE WriterStep
  BY <1>1, <1>0 DEF WriterStep, Receive, NoMoreRequests, Announce, NotAnnounced, NobodyReads, Write,
     WriteFails, Completed, TimesOut, tracker
<1>2. CASE ReaderStep
  <2>1. CASE Eof \/ NobodyListens
    BY <2>1 DEF Eof, ShutDown, NobodyListens
  <2>2. CASE BeginBlock
    BY <2>2, <1>0 DEF BeginBlock, ShutDown
  <2>3. CASE EndBlock \/ EndToken \/ ReadNote
    <3>1. dying' = dying
      BY <2>3 DEF EndBlock, EndToken, ReadNote
    <3> QED BY <2>3, <3>1
  <2>4. CASE Flush \/ FlushFull \/ Unblock
    BY <2>4, <1>0 DEF Flush, FlushFull, Unblock, tracker
  <2> QED BY <1>2, <2>1, <2>2, <2>3, <2>4 DEF ReaderStep
<1>3. CASE TmuxStep
  BY <1>3, <1>0 DEF TmuxStep, NotifyUI, TmuxEnds, Run, TmuxOnly, tracker
<1>4. CASE Poll \/ Drop \/ (\E q \in Requests : Send(q) \/ Return(q)) \/ UNCHANGED vars
  BY <1>4, <1>0 DEF Poll, Drop, Send, Return, vars, tracker
<1> QED BY <1>1, <1>2, <1>3, <1>4 DEF Next

\* The begin of a block makes the pending request outstanding; the other blocks
\* and the notifications leave both, and the order of the announcements.
LEMMA BeginSteps ==
  ASSUME Typed, ~dying'
  PROVE  /\ BeginBlock => /\ Announced' = Announced /\ outstanding' = Announced
                          /\ Announced # <<>> => open' = "front"
                          /\ Head(stream).kind = "begin" /\ heard' = heard
         /\ EndBlock => /\ Announced' = Announced /\ outstanding' = outstanding
                        /\ Head(stream).kind \in {"ok", "error"}
         /\ EndToken => Head(stream).kind = "token" /\ heard' = heard
         /\ ReadNote => /\ Announced' = Announced /\ outstanding' = outstanding /\ heard' = heard
                        /\ Head(stream).kind \in {"output", "refresh", "flood"}
<1>1. ASSUME BeginBlock
      PROVE  /\ Announced' = Announced /\ outstanding' = Announced
             /\ Announced # <<>> => open' = "front"
             /\ Head(stream).kind = "begin" /\ heard' = heard
  <2>1. /\ outstanding' = Announced /\ slot' = NoRequest
        /\ open' = IF Announced = <<>> THEN "nobody" ELSE "front"
        /\ Head(stream).kind = "begin" /\ heard' = heard
    BY <1>1 DEF BeginBlock, ShutDown, Announced, Reads
  <2> QED BY <2>1 DEF Announced
<1>2. ASSUME EndBlock \/ ReadNote
      PROVE  Announced' = Announced /\ outstanding' = outstanding
  BY <1>2 DEF EndBlock, ReadNote, Announced, tracker
<1> QED BY <1>1, <1>2 DEF EndBlock, EndToken, ReadNote, Reads, tracker

\* The shape of the stream is kept, and a block that was begun is of a request
\* that is outstanding.
LEMMA BlocksStep ==
  ASSUME Typed, Typed', TmuxAssumption, Blocks, ~dying => InOrder, [Next]_vars
  PROVE  Blocks'
<1> DEFINE Shaped(s) ==
      \A i \in DOMAIN s :
        /\ s[i].kind \in {"begin", "output", "refresh", "flood", "eof"} => s[i].of = NoRequest
        /\ s[i].kind = "token" => s[i].of \in Requests
        /\ s[i].of # NoRequest /\ i > 1 => s[i - 1].kind = "begin"
      Begun == ~dying /\ stream # <<>> /\ stream[1].of # NoRequest =>
                 open = "front" /\ stream[1].of \in Elements(outstanding)
<1>0. Shaped(stream) /\ Begun /\ stream \in Seq(Items)
  BY DEF Blocks, Typed, TypeOK
<1>1. CASE stream' = stream
  <2>1. Begun'
    <3>1. ASSUME ~dying'
          PROVE  ~dying /\ outstanding' = outstanding /\ open' = open
      <4>1. ~BeginBlock /\ ~EndBlock /\ ~EndToken /\ ~ReadNote
        <5>1. stream # <<>> => Tail(stream) # stream
          <6>1. stream # <<>> => Len(Tail(stream)) = Len(stream) - 1 /\ Len(stream) \in Nat
            BY <1>0
          <6> QED BY <6>1
        <5> QED BY <5>1, <1>1 DEF BeginBlock, EndBlock, EndToken, ReadNote, Reads
      <4> QED BY <4>1, <3>1, TrackerSteps
    <3> QED BY <3>1, <1>0, <1>1 DEF Elements
  <2> QED BY <2>1, <1>0, <1>1 DEF Blocks
<1>2. CASE ReaderTakes
  <2>1. /\ Tail(stream) \in Seq(Items) /\ Head(stream) = stream[1] /\ 1 \in DOMAIN stream
        /\ \A i \in DOMAIN Tail(stream) : i + 1 \in DOMAIN stream /\ Tail(stream)[i] = stream[i + 1]
        /\ \A i \in DOMAIN Tail(stream) : i \in Nat /\ i >= 1
    BY <1>0, <1>2, TailPositions DEF ReaderTakes
  <2>2. stream' = Tail(stream)
    BY <1>2 DEF ReaderTakes
  <2>3. Shaped(stream')
    <3> SUFFICES ASSUME NEW i \in DOMAIN Tail(stream)
                 PROVE  LET s == Tail(stream) IN
                        /\ s[i].kind \in {"begin", "output", "refresh", "flood", "eof"} => s[i].of = NoRequest
                        /\ s[i].kind = "token" => s[i].of \in Requests
                        /\ s[i].of # NoRequest /\ i > 1 => s[i - 1].kind = "begin"
      BY <2>2
    <3>1. i + 1 \in DOMAIN stream /\ Tail(stream)[i] = stream[i + 1] /\ i \in Nat /\ i >= 1
      BY <2>1
    <3>2. i > 1 => i - 1 \in DOMAIN Tail(stream) /\ (i - 1) + 1 = i /\ (i + 1) - 1 = i
      BY <3>1, <2>1
    <3>3. i > 1 => Tail(stream)[i - 1] = stream[i]
      BY <2>1, <3>2
    <3> QED BY <1>0, <3>1, <3>2, <3>3
  <2>4. Begun'
    <3> SUFFICES ASSUME ~dying', stream' # <<>>, stream'[1].of # NoRequest
                 PROVE  open' = "front" /\ stream'[1].of \in Elements(outstanding')
      BY DEF Elements
    <3>1. 1 \in DOMAIN Tail(stream) /\ stream'[1] = stream[2] /\ 2 \in DOMAIN stream
      <4>1. 1 \in DOMAIN Tail(stream) /\ 1 + 1 = 2
        BY <2>1, <2>2
      <4> QED BY <4>1, <2>1, <2>2
    <3>2. Head(stream).kind = "begin"
      <4>1. stream[2 - 1].kind = "begin"
        BY <1>0, <3>1
      <4> QED BY <4>1, <2>1
    <3>3. ~dying
      BY TrackerSteps
    <3>4. BeginBlock
      BY <1>2, <3>2 DEF ReaderTakes, Eof, EndBlock, EndToken, ReadNote, Reads
    <3>5. /\ outstanding' = Announced
          /\ Announced # <<>> => open' = "front"
      BY <3>4, BeginSteps
    <3>6. stream[2].of \in Elements(Announced)
      BY <3>1, <3>3 DEF InOrder, Ordered
    <3>7. Announced # <<>>
      BY <3>6 DEF Elements
    <3> QED BY <3>1, <3>5, <3>6, <3>7
  <2> QED BY <2>3, <2>4 DEF Blocks
<1>3. ASSUME NEW t, NEW rs, Grown(t, rs)
      PROVE  Blocks'
  <2>1. /\ t \in Seq(Items) /\ Len(stream) \in Nat /\ DOMAIN stream = 1..Len(stream)
        /\ DOMAIN t = 1..Len(t) /\ Len(t) \in Nat /\ DOMAIN stream' = 1..Len(stream')
        /\ \A i \in DOMAIN stream : i \in DOMAIN stream' /\ stream'[i] = stream[i]
        /\ \A i \in DOMAIN t : Len(stream) + i \in DOMAIN stream' /\ stream'[Len(stream) + i] = t[i]
        /\ \A i \in DOMAIN stream' :
              \/ i \in DOMAIN stream /\ stream'[i] = stream[i]
              \/ i > Len(stream) /\ i - Len(stream) \in DOMAIN t /\ stream'[i] = t[i - Len(stream)]
    BY <1>3, Added
  <2>2. Shaped(t) /\ \A i \in DOMAIN t : t[i].of # NoRequest => i > 1
    BY <1>3 DEF Grown, Adds
  <2>3. Shaped(stream')
    <3> SUFFICES ASSUME NEW i \in DOMAIN stream'
                 PROVE  /\ stream'[i].kind \in {"begin", "output", "refresh", "flood", "eof"} => stream'[i].of = NoRequest
                        /\ stream'[i].kind = "token" => stream'[i].of \in Requests
                        /\ stream'[i].of # NoRequest /\ i > 1 => stream'[i - 1].kind = "begin"
      OBVIOUS
    <3>1. CASE i \in DOMAIN stream /\ stream'[i] = stream[i]
      <4>1. i > 1 => i - 1 \in DOMAIN stream
        BY <2>1, <3>1
      <4>2. i > 1 => stream'[i - 1] = stream[i - 1]
        BY <2>1, <4>1
      <4> QED BY <3>1, <4>2, <1>0
    <3>2. CASE i > Len(stream) /\ i - Len(stream) \in DOMAIN t /\ stream'[i] = t[i - Len(stream)]
      <4> DEFINE k == i - Len(stream)
      <4>0. i \in Nat
        BY <2>1
      <4>1. k \in DOMAIN t /\ stream'[i] = t[k] /\ i = Len(stream) + k
        BY <2>1, <3>2, <4>0
      <4>2. k > 1 => k - 1 \in DOMAIN t /\ i - 1 = Len(stream) + (k - 1)
        BY <2>1, <4>1
      <4> HIDE DEF k
      <4>3. k > 1 => stream'[i - 1] = t[k - 1]
        BY <2>1, <4>2
      <4> QED BY <2>2, <4>1, <4>3
    <3> QED BY <2>1, <3>1, <3>2
  <2>4. Begun'
    <3> SUFFICES ASSUME ~dying', stream' # <<>>, stream'[1].of # NoRequest
                 PROVE  open' = "front" /\ stream'[1].of \in Elements(outstanding')
      BY DEF Elements
    <3>1. ~dying /\ open' = open /\ outstanding' = outstanding
      BY <1>3 DEF Grown
    <3>2. 1 \in DOMAIN stream'
      BY Typed' DEF Typed, TypeOK
    <3>3. CASE 1 \in DOMAIN stream /\ stream'[1] = stream[1]
      BY <3>1, <3>3, <1>0
    <3>4. CASE 1 > Len(stream) /\ 1 - Len(stream) \in DOMAIN t /\ stream'[1] = t[1 - Len(stream)]
      <4>1. 1 - Len(stream) = 1
        BY <3>4, <2>1
      <4> QED BY <4>1, <3>4, <2>2
    <3> QED BY <3>2, <3>3, <3>4, <2>1
  <2> QED BY <2>3, <2>4 DEF Blocks
<1> QED BY <1>1, <1>2, <1>3, StreamSteps

-----------------------------------------------------------------------------
(* A request is at one place.                                              *)

\* Every step keeps a request at its one place.
LEMMA InPlaceStep ==
  ASSUME Typed, Typed', TmuxAssumption, Traceless, InPlace, Blocks, dying => reader # "reading",
         [Next]_vars
  PROVE  InPlace'
<1>t. /\ input \in Seq(Requests) /\ stream \in Seq(Items) /\ written \subseteq Requests /\ lost \subseteq Requests
      /\ lost' \subseteq Requests /\ written' \subseteq Requests /\ Elements(input) \subseteq Requests
      /\ writer \in [at : {"idle", "slot", "write", "wait", "ended"}, req : Requests \cup {NoRequest}]
      /\ requests \in Seq(Requests) /\ Elements(requests) \subseteq Requests
  <2>1. /\ input \in Seq(Requests) /\ stream \in Seq(Items) /\ written \subseteq Requests /\ lost \subseteq Requests
        /\ lost' \subseteq Requests /\ written' \subseteq Requests /\ requests \in Seq(Requests)
        /\ writer \in [at : {"idle", "slot", "write", "wait", "ended"}, req : Requests \cup {NoRequest}]
    BY DEF Typed, TypeOK
  <2>2. Elements(input) \subseteq Requests /\ Elements(requests) \subseteq Requests
    BY <2>1 DEF Elements
  <2> QED BY <2>1, <2>2
<1>q. /\ Distinct(requests')
      /\ \A r \in Requests : call'[r] = "new" => call[r] = "new"
      /\ \A r \in Elements(requests') : r \in Requests /\
           \/ r \in Elements(requests)
           \/ call[r] = "new" /\ call'[r] # "new" /\ UNCHANGED writer
      /\ Receive => /\ Head(requests) \in Elements(requests) /\ Head(requests) \notin Elements(requests')
      /\ \/ UNCHANGED writer
         \/ Receive /\ writer' = [at |-> "slot", req |-> Head(requests)]
         \/ Announce /\ writer' = [at |-> "write", req |-> writer.req]
         \/ Write /\ writer' = [at |-> "wait", req |-> writer.req]
         \/ writer' \in {[at |-> "idle", req |-> NoRequest], [at |-> "ended", req |-> NoRequest]}
  BY QueueSteps
<1>a. /\ written' = written \/ (Write /\ written' = written \cup {writer.req})
      /\ \A r \in Requests : r \in lost' /\ r \notin lost => alive /\ input # <<>> /\ r = Head(input)
      /\ written \subseteq written'
  BY WhatIsAdded
<1>i. /\ Distinct(requests)
      /\ \A r \in Elements(requests) :
           /\ r \in Requests /\ call[r] # "new"
           /\ writer.at = "slot" => writer.req # r
      /\ writer.at \in {"slot", "write", "wait"} =>
           writer.req \in Requests /\ call[writer.req] # "new"
      /\ lost \subseteq written
      /\ writer.at = "wait" => writer.req \in written
      /\ writer.at = "write" =>
           /\ writer.req \notin written
           /\ answer[writer.req] \notin {"unsent", "refused", "ok", "error"}
      /\ Elements(input) \subseteq written
      /\ \A i \in DOMAIN stream : stream[i].of \in written \cup {NoRequest}
  BY <1>t DEF InPlace, WriterAt
<1>h. input # <<>> => Head(input) \in Elements(input) /\ Elements(Tail(input)) \subseteq Elements(input)
  <2>1. input # <<>> => 1 \in DOMAIN input /\ Head(input) = input[1] /\ Elements(Tail(input)) \subseteq Elements(input)
    BY <1>t, TailPositions
  <2> QED BY <2>1 DEF Elements
<1>1. \A r \in Elements(requests') : /\ call'[r] # "new"
                                     /\ writer'.at = "slot" => writer'.req # r
  <2> SUFFICES ASSUME NEW r \in Elements(requests')
               PROVE  call'[r] # "new" /\ (writer'.at = "slot" => writer'.req # r)
    OBVIOUS
  <2>1. CASE r \in Elements(requests)
    BY <2>1, <1>q, <1>i DEF Receive, Announce, Write, WriterAt
  <2>2. CASE call[r] = "new" /\ call'[r] # "new" /\ UNCHANGED writer
    BY <2>2, <1>i
  <2> QED BY <2>1, <2>2, <1>q
<1>2. writer'.at \in {"slot", "write", "wait"} => writer'.req \in Requests /\ call'[writer'.req] # "new"
  BY <1>q, <1>i DEF Announce, Write, WriterAt
<1>3. lost' \subseteq written'
  BY <1>a, <1>i, <1>h, <1>t
<1>4. writer'.at = "wait" => writer'.req \in written'
  <2>1. Write => written' = written \cup {writer.req}
    BY DEF Write
  <2> QED BY <2>1, <1>q, <1>i, <1>a
<1>5. writer'.at = "write" => /\ writer'.req \notin written'
                              /\ answer'[writer'.req] \notin {"unsent", "refused", "ok", "error"}
  <2>1. CASE Announce /\ writer' = [at |-> "write", req |-> writer.req]
    <3>1. writer.req \in Requests /\ Early(writer.req) /\ answer' = answer /\ written' = written
      BY <2>1, <1>i DEF Announce, Early, WriterAt, callers
    <3>2. writer.req \notin written /\ answer[writer.req] = "none"
      BY <3>1 DEF Traceless
    <3> QED BY <2>1, <3>1, <3>2
  <2>2. CASE UNCHANGED writer /\ writer.at = "write"
    <3>1. written' = written
      BY <2>2, <1>a DEF Write, WriterGoes
    <3>2. ASSUME answer'[writer.req] # answer[writer.req]
          PROVE  answer'[writer.req] \notin {"unsent", "refused", "ok", "error"}
      <4>1. writer.req \in Requests
        BY <2>2, <1>i
      <4>2. AnsweredBy(writer.req)
        BY <4>1, <3>2, WhoIsAnswered
      <4>3. ~Receive /\ ~NotAnnounced /\ ~NobodyReads
        BY <2>2 DEF Receive, NotAnnounced, NobodyReads, WriterAt
      <4>4. ~(EndToken /\ Head(stream).of = writer.req)
        <5>1. EndToken => stream # <<>> /\ Head(stream).kind = "token"
          BY DEF EndToken, Reads
        <5>2. stream # <<>> => 1 \in DOMAIN stream /\ Head(stream) = stream[1]
          BY <1>t
        <5> QED BY <5>1, <5>2, <2>2, <1>i, <4>1, TmuxAssumption DEF TmuxAssumption
      <4> QED BY <4>2, <4>3, <4>4 DEF AnsweredBy
    <3> QED BY <2>2, <3>1, <3>2, <1>i
  <2> QED BY <2>1, <2>2, <1>q
<1>6. Elements(input') \subseteq written'
  <2>1. CASE Write /\ input' = Append(input, writer.req)
    <3>1. writer.req \in Requests /\ written' = written \cup {writer.req}
      BY <2>1, <1>i DEF Write, WriterAt
    <3>2. Elements(input') = Elements(input) \cup {writer.req}
      BY <2>1, <3>1, <1>t, AheadAppend
    <3> QED BY <3>1, <3>2, <1>i
  <2> QED BY <2>1, <1>h, <1>i, <1>a, InputSteps
<1>7. \A i \in DOMAIN stream' : stream'[i].of \in written' \cup {NoRequest}
  <2>1. CASE stream' = stream
    BY <2>1, <1>i, <1>a
  <2>2. CASE ReaderTakes
    <3>1. \A i \in DOMAIN Tail(stream) : i + 1 \in DOMAIN stream /\ Tail(stream)[i] = stream[i + 1]
      BY <2>2, <1>t, TailPositions DEF ReaderTakes
    <3>2. stream' = Tail(stream)
      BY <2>2 DEF ReaderTakes
    <3> QED BY <3>1, <3>2, <1>i, <1>a
  <2>3. ASSUME NEW t, NEW rs, Grown(t, rs)
        PROVE  \A i \in DOMAIN stream' : stream'[i].of \in written' \cup {NoRequest}
    <3>1. \A i \in DOMAIN stream' :
              \/ i \in DOMAIN stream /\ stream'[i] = stream[i]
              \/ i > Len(stream) /\ i - Len(stream) \in DOMAIN t /\ stream'[i] = t[i - Len(stream)]
      BY <2>3, Added
    <3>2. \A k \in DOMAIN t : t[k].of # NoRequest => t[k].of \in rs
      BY <2>3 DEF Grown, Adds
    <3>3. rs \subseteq written
      BY <2>3, <1>h, <1>i DEF Grown
    <3> QED BY <3>1, <3>2, <3>3, <1>i, <1>a
  <2> QED BY <2>1, <2>2, <2>3, StreamSteps
<1> QED BY <1>q, <1>1, <1>2, <1>3, <1>4, <1>5, <1>6, <1>7 DEF InPlace, WriterAt, Distinct, Elements

-----------------------------------------------------------------------------
(* The order of the announcements is kept.                                 *)

\* Nothing changes for tmux and the reader.
Quiet ==
  /\ UNCHANGED <<outstanding, slot, input, alive, stream, heard, ran, lost>>
  /\ writer'.at = "write" => UNCHANGED writer
  /\ alive /\ writer.at = "write" => UNCHANGED writer

\* What a step does while the reader has not shut down.
LEMMA OrderSteps ==
  ASSUME Typed, TmuxAssumption, [Next]_vars, ~dying'
  PROVE  /\ ~dying
         /\ \/ Quiet \/ Announce \/ Write
            \/ BeginBlock \/ EndBlock \/ ReadNote \/ EndToken
            \/ \E t, rs : Grown(t, rs)
<1>1. ~dying
  BY TrackerSteps
<1>2. CASE WriterStep
  <2>1. CASE Receive \/ NotAnnounced \/ Completed \/ TimesOut
    <3>1. UNCHANGED <<slot, stream, outstanding, heard, input, alive, ran, lost>>
      BY <2>1 DEF Receive, NotAnnounced, Completed, TimesOut, tmux, tracker
    <3>2. writer.at # "write" /\ (writer'.at = "write" => UNCHANGED writer)
      BY <2>1 DEF Receive, NotAnnounced, Completed, TimesOut, WriterGoes, WriterAt
    <3> QED BY <3>1, <3>2, <1>1 DEF Quiet
  <2>2. CASE NoMoreRequests \/ NobodyReads \/ WriteFails
    <3>1. UNCHANGED <<slot, stream, outstanding, heard, input, alive, ran, lost>>
      BY <2>2 DEF NoMoreRequests, NobodyReads, WriteFails, tmux, tracker
    <3>2. ~(alive /\ writer.at = "write") /\ writer'.at # "write"
      BY <2>2 DEF NoMoreRequests, NobodyReads, WriteFails, WriterEnds, WriterGoes, WriterAt
    <3> QED BY <3>1, <3>2, <1>1 DEF Quiet
  <2> QED BY <1>1, <1>2, <2>1, <2>2 DEF WriterStep
<1>3. CASE Eof \/ NobodyListens
  <2>1. dying' = TRUE
    BY <1>3 DEF Eof, ShutDown, NobodyListens
  <2> QED BY <2>1
<1>4. CASE Flush \/ FlushFull \/ Unblock
  <2>1. UNCHANGED <<slot, stream, outstanding, heard, input, alive, ran, lost, writer>>
    BY <1>4 DEF Flush, FlushFull, Unblock, tmux, tracker, writing
  <2> QED BY <2>1, <1>1 DEF Quiet
<1>5. CASE TmuxStep \/ Drop
  <2>1. CASE /\ UNCHANGED <<stream, outstanding, slot, open, heard, dying, writer, written, input, ran, lost>>
             /\ ~alive /\ ~alive'
    <3>1. alive' = alive
      <4>1. alive \in BOOLEAN
        BY DEF Typed, TypeOK
      <4>2. alive' \in BOOLEAN
        BY <4>1, <1>5 DEF TmuxStep, Drop, NotifyUI, Run, TmuxEnds
      <4> QED BY <2>1, <4>1, <4>2
    <3> QED BY <2>1, <3>1, <1>1 DEF Quiet
  <2> QED BY <1>5, <2>1, <1>1, TmuxWrites
<1>6. CASE Poll \/ (\E q \in Requests : Send(q) \/ Return(q)) \/ UNCHANGED vars
  <2>1. UNCHANGED <<slot, stream, outstanding, heard, input, alive, ran, lost, writer>>
    BY <1>6 DEF Poll, Send, Return, vars, tmux, tracker, writing
  <2> QED BY <2>1, <1>1 DEF Quiet
<1> QED BY <1>1, <1>2, <1>3, <1>4, <1>5, <1>6 DEF Next, ReaderStep

\* A token is the last of what is added.
LEMMA TokenLast ==
  ASSUME Typed, TmuxAssumption, NEW t, NEW rs, Grown(t, rs), NEW i \in DOMAIN t, t[i].kind = "token"
  PROVE  i = Len(t) /\ t[i] = Item("token", Head(input)) /\ lost' = lost /\ rs # {}
         /\ \E own \in Results(Head(input)) : Ran(own, t) /\ t = Written(Append(own, Item("token", Head(input))))
<1> DEFINE r == Head(input)
           x == Item("token", r)
<1>1. /\ rs # {}
      /\ \E own \in Results(r) : Ran(own, t)
  BY DEF Grown, NoTokens
<1>2. PICK own \in Results(r) : Ran(own, t)
  BY <1>1
<1>3. r \in Requests
  <2>1. input # <<>> /\ input \in Seq(Requests)
    BY <1>1 DEF Grown, Typed, TypeOK
  <2> QED BY <2>1
<1>4. own \in Seq(Items) /\ \A k \in DOMAIN own : own[k] \in {Item("ok", r), Item("error", r)}
  BY <1>3, ResultsTyped
<1>5. \A k \in DOMAIN own : own[k].kind # "token"
  BY <1>4 DEF Item
<1>6. x \in Items /\ Bare("begin").kind = "begin"
  BY <1>3 DEF Item, Items, Bare
<1> HIDE DEF x
<1>7. t # Written(own)
  <2>1. \A k \in DOMAIN Written(own) :
              \/ Written(own)[k] = Bare("begin")
              \/ \E m \in DOMAIN own :
                   k = 2 * m /\ Written(own)[k] = own[m] /\ Written(own)[k - 1] = Bare("begin")
    BY <1>4, WrittenTyped
  <2> QED BY <2>1, <1>5, <1>6
<1>8. t = Written(Append(own, x)) /\ lost' = lost
  BY <1>2, <1>7 DEF Ran, x
<1>9. Append(own, x) \in Seq(Items)
  BY <1>4, <1>6
<1> DEFINE o == Append(own, x)
<1>10. /\ Len(Written(o)) = 2 * Len(o)
       /\ \A k \in DOMAIN Written(o) :
              \/ Written(o)[k] = Bare("begin")
              \/ \E m \in DOMAIN o :
                   k = 2 * m /\ Written(o)[k] = o[m] /\ Written(o)[k - 1] = Bare("begin")
  BY <1>9, WrittenTyped
<1>11. \A m \in DOMAIN o : o[m].kind = "token" => m = Len(o) /\ o[m] = x
  BY <1>4, <1>5, <1>6
<1> HIDE DEF o
<1>12. PICK m \in DOMAIN o : i = 2 * m /\ t[i] = o[m]
  BY <1>8, <1>10, <1>6 DEF o
<1> QED BY <1>1, <1>2, <1>8, <1>10, <1>11, <1>12 DEF o, x

\* The order of announcements a, with the stream s of items.
LEMMA OrderedPop ==
  ASSUME NEW a, NEW inp, NEW s \in Seq(Items), s # <<>>, NEW al, NEW w, Ordered(a, inp, s, al, w)
  PROVE  Ordered(a, inp, Tail(s), al, w)
<1> DEFINE u == Tail(s)
<1>1. \A i \in DOMAIN u : i + 1 \in DOMAIN s /\ u[i] = s[i + 1] /\ i \in Nat
  BY TailPositions
<1>2. \A i, j \in DOMAIN u : i < j => i + 1 < j + 1
  BY <1>1
<1> HIDE DEF u
<1>3. al => \A i \in DOMAIN u, q \in Elements(inp) : u[i].of # NoRequest => Ahead(a, u[i].of, q)
  BY <1>1 DEF Ordered
<1>4. /\ \A i \in DOMAIN u : u[i].of # NoRequest => u[i].of \in Elements(a)
      /\ \A i, j \in DOMAIN u : i < j /\ u[i].of # NoRequest /\ u[j].of # NoRequest =>
           u[i].of = u[j].of \/ Ahead(a, u[i].of, u[j].of)
  BY <1>1, <1>2 DEF Ordered
<1>5. \A i, j \in DOMAIN u : i < j /\ u[i].kind = "token" => u[j].of # u[i].of
  BY <1>1, <1>2 DEF Ordered
<1>6. Ordered(a, inp, u, al, w)
  BY <1>3, <1>4, <1>5 DEF Ordered
<1> QED BY <1>6 DEF u

\* ... with one more announcement, which is to be sent;
LEMMA OrderedAnnounce ==
  ASSUME NEW a \in Seq(Requests), NEW inp, NEW s, NEW al, NEW w, Ordered(a, inp, s, al, w),
         NEW x \in Requests, x \notin Elements(a)
  PROVE  Ordered(Append(a, x), inp, s, al, [at |-> "write", req |-> x])
<1> DEFINE b == Append(a, x)
<1>1. /\ Elements(b) = Elements(a) \cup {x} /\ \A r, q : Ahead(a, r, q) => Ahead(b, r, q)
      /\ Distinct(b)
  BY AheadAppend DEF Ordered
<1>2. b # <<>> /\ b[Len(b)] = x
  OBVIOUS
<1> HIDE DEF b
<1>3. Ordered(b, inp, s, al, [at |-> "write", req |-> x])
  BY <1>1, <1>2 DEF Ordered
<1> QED BY <1>3 DEF b

\* ... when that is sent;
LEMMA OrderedWrite ==
  ASSUME NEW a \in Seq(Requests), NEW inp \in Seq(Requests), NEW s, NEW w, Ordered(a, inp, s, TRUE, w),
         w.at = "write", w.req \in Requests, w.req \notin Elements(inp),
         \A i \in DOMAIN s : s[i].of # w.req,
         NEW v, v.at # "write"
  PROVE  Ordered(a, Append(inp, w.req), s, TRUE, v)
<1> DEFINE x == w.req
           b == Append(inp, x)
<1>1. /\ Elements(b) = Elements(inp) \cup {x} /\ DOMAIN b = 1..(Len(inp) + 1) /\ b[Len(inp) + 1] = x
      /\ \A i \in DOMAIN inp : b[i] = inp[i]
      /\ DOMAIN inp = 1..Len(inp) /\ Len(inp) \in Nat
  BY AheadAppend
<1>2. a # <<>> /\ a[Len(a)] = x /\ x \in Elements(a)
  BY AheadEnds DEF Ordered
<1>3. \A q \in Elements(a) : q = x \/ Ahead(a, q, x)
  BY <1>2, AheadEnds DEF Ordered
<1> HIDE DEF b
<1>4. Elements(b) \subseteq Elements(a)
  BY <1>1, <1>2 DEF Ordered
<1>5. ASSUME NEW i \in DOMAIN b, NEW j \in DOMAIN b, i < j
      PROVE  Ahead(a, b[i], b[j])
  <2>1. i \in DOMAIN inp
    BY <1>1, <1>5
  <2>2. CASE j \in DOMAIN inp
    BY <1>1, <1>5, <2>1, <2>2 DEF Ordered
  <2>3. CASE j = Len(inp) + 1
    <3>1. b[i] \in Elements(inp) /\ b[i] = inp[i]
      BY <1>1, <2>1 DEF Elements
    <3> QED BY <1>1, <1>3, <2>3, <3>1 DEF Ordered
  <2> QED BY <2>2, <2>3, <1>1
<1>6. \A i \in DOMAIN s, q \in Elements(b) : s[i].of # NoRequest => Ahead(a, s[i].of, q)
  BY <1>1, <1>3 DEF Ordered
<1>7. Ordered(a, b, s, TRUE, v)
  BY <1>4, <1>5, <1>6 DEF Ordered
<1> QED BY <1>7 DEF b

\* ... when the writer does something else, or tmux is no more;
LEMMA OrderedOther ==
  ASSUME NEW a, NEW inp, NEW s, NEW al, NEW w, Ordered(a, inp, s, al, w),
         NEW v, v.at = "write" => v = w
  PROVE  Ordered(a, inp, s, al, v) /\ \A c : Ordered(a, c, s, FALSE, v)
BY DEF Ordered

\* ... when a token comes: it ends the n-th and those ahead of it;
LEMMA OrderedToken ==
  ASSUME NEW a \in Seq(Requests), NEW inp, NEW s \in Seq(Items), s # <<>>, NEW al, NEW w,
         Ordered(a, inp, s, al, w), NEW n \in DOMAIN a, s[1].kind = "token", s[1].of = a[n],
         a[n] # NoRequest, w.at = "write" => w.req # a[n],
         NEW u, u = Behind(a, n)
  PROVE  Ordered(u, inp, Tail(s), al, w)
<1> DEFINE z == Tail(s)
<1>1. /\ \A i \in DOMAIN z : i + 1 \in DOMAIN s /\ z[i] = s[i + 1] /\ i \in Nat /\ i >= 1
      /\ 1 \in DOMAIN s
  BY TailPositions
<1> HIDE DEF z
<1>2. Ordered(a, inp, z, al, w)
  BY OrderedPop DEF z
<1>d. Distinct(a)
  BY DEF Ordered
<1>3. /\ u \in Seq(Requests) /\ Distinct(u) /\ Elements(u) \subseteq Elements(a)
      /\ \A q : Ahead(a, a[n], q) => q \in Elements(u)
      /\ \A r, q \in Elements(u) : Ahead(a, r, q) => Ahead(u, r, q)
      /\ u # <<>> => u[Len(u)] = a[Len(a)]
  <2>1. u \in Seq(Requests) /\ Distinct(u) /\ Elements(u) \subseteq Elements(a)
    BY <1>d, AheadSuffix
  <2>2. \A q : Ahead(a, a[n], q) => q \in Elements(u)
    BY <1>d, AheadSuffix
  <2>3. \A r, q \in Elements(u) : Ahead(a, r, q) => Ahead(u, r, q)
    BY <1>d, AheadSuffix
  <2>4. u # <<>> => u[Len(u)] = a[Len(a)]
    BY <1>d, AheadSuffix
  <2> QED BY <2>1, <2>2, <2>3, <2>4
<1>4. w.at = "write" => u # <<>> /\ u[Len(u)] = w.req
  <2>1. ASSUME w.at = "write"
        PROVE  u # <<>>
    <3>1. a[Len(a)] = w.req /\ a # <<>>
      BY <2>1 DEF Ordered
    <3>2. n # Len(a)
      BY <3>1, <2>1
    <3>3. Len(u) = Len(a) - n /\ Len(a) \in Nat /\ DOMAIN a = 1..Len(a)
      BY Suffix
    <3>4. Len(u) # 0
      BY <3>2, <3>3
    <3> QED BY <3>4, <1>3
  <2> QED BY <2>1, <1>3 DEF Ordered
<1>5. al => Elements(inp) \subseteq Elements(u)
  BY <1>1, <1>3 DEF Ordered
<1>6. al => \A i, j \in DOMAIN inp : i < j => Ahead(u, inp[i], inp[j])
  <2> SUFFICES ASSUME al, NEW i \in DOMAIN inp, NEW j \in DOMAIN inp, i < j
               PROVE  Ahead(u, inp[i], inp[j])
    OBVIOUS
  <2>1. inp[i] \in Elements(u) /\ inp[j] \in Elements(u)
    BY <1>5 DEF Elements
  <2> QED BY <2>1, <1>3 DEF Ordered
<1>7. \A i \in DOMAIN z : z[i].of # NoRequest => z[i].of \in Elements(u)
  <2> SUFFICES ASSUME NEW i \in DOMAIN z, z[i].of # NoRequest
               PROVE  z[i].of \in Elements(u)
    OBVIOUS
  <2>1. i + 1 \in DOMAIN s /\ z[i] = s[i + 1] /\ 1 < i + 1
    BY <1>1
  <2>2. s[i + 1].of # s[1].of
    BY <1>1, <2>1 DEF Ordered
  <2>3. Ahead(a, s[1].of, s[i + 1].of)
    BY <1>1, <2>1, <2>2 DEF Ordered
  <2> QED BY <2>1, <2>3, <1>3
<1>8. \A i, j \in DOMAIN z : i < j /\ z[i].of # NoRequest /\ z[j].of # NoRequest =>
           z[i].of = z[j].of \/ Ahead(u, z[i].of, z[j].of)
  BY <1>2, <1>3, <1>7 DEF Ordered
<1>9. al => \A i \in DOMAIN z, q \in Elements(inp) : z[i].of # NoRequest => Ahead(u, z[i].of, q)
  BY <1>2, <1>3, <1>5, <1>7 DEF Ordered
<1>10. \A i, j \in DOMAIN z : i < j /\ z[i].kind = "token" => z[j].of # z[i].of
  BY <1>2 DEF Ordered
<1>11. Ordered(u, inp, z, al, w)
  BY <1>3, <1>4, <1>5, <1>6, <1>7, <1>8, <1>9, <1>10 DEF Ordered
<1> QED BY <1>11 DEF z

\* t is added to s, which makes u, and ends with the only token it may have.
Extends(s, t, u) ==
  /\ u \in Seq(Items) /\ Len(u) = Len(s) + Len(t)
  /\ \A i \in DOMAIN s : i \in DOMAIN u /\ u[i] = s[i]
  /\ \A i \in DOMAIN t : Len(s) + i \in DOMAIN u /\ u[Len(s) + i] = t[i]
  /\ \A i \in DOMAIN u : \/ i \in DOMAIN s /\ u[i] = s[i]
                         \/ i > Len(s) /\ i - Len(s) \in DOMAIN t /\ u[i] = t[i - Len(s)]
  /\ \A i \in DOMAIN t : t[i].kind = "token" => i = Len(t)
  /\ \A i \in DOMAIN s : s[i].kind = "token" => s[i].of # NoRequest

\* The requests rs are those that tmux takes from what it has yet to read, if it
\* goes on.
Takes(inp, al, rs, c, bl) ==
  /\ rs = {} \/ (al /\ inp # <<>> /\ rs = {Head(inp)})
  /\ bl => al /\ ((rs = {} /\ c = inp) \/ (rs # {} /\ c = Tail(inp)))

\* What tmux does is such an extension.
LEMMA GrownExtends ==
  ASSUME Typed, Typed', TmuxAssumption, Blocks, NEW t, NEW rs, Grown(t, rs)
  PROVE  Extends(stream, t, stream') /\ Takes(input, alive, rs, input', alive') /\ Adds(t, rs)
<1>1. /\ Len(stream') = Len(stream) + Len(t)
      /\ \A i \in DOMAIN stream : i \in DOMAIN stream' /\ stream'[i] = stream[i]
      /\ \A i \in DOMAIN t : Len(stream) + i \in DOMAIN stream' /\ stream'[Len(stream) + i] = t[i]
      /\ \A i \in DOMAIN stream' :
            \/ i \in DOMAIN stream /\ stream'[i] = stream[i]
            \/ i > Len(stream) /\ i - Len(stream) \in DOMAIN t /\ stream'[i] = t[i - Len(stream)]
  BY Added
<1>2. /\ Adds(t, rs)
      /\ rs = {} \/ (alive /\ input # <<>> /\ rs = {Head(input)})
  BY DEF Grown
<1>3. \A i \in DOMAIN t : t[i].kind = "token" => i = Len(t)
  BY TokenLast
<1>4. \A i \in DOMAIN stream : stream[i].kind = "token" => stream[i].of # NoRequest
  BY TmuxAssumption DEF Blocks, TmuxAssumption
<1>5. alive' => alive /\ ((rs = {} /\ input' = input) \/ (rs # {} /\ input' = Tail(input)))
  BY DEF Grown, Ran
<1>6. stream' \in Seq(Items)
  BY DEF Typed, TypeOK
<1>7. Extends(stream, t, stream')
  BY <1>1, <1>3, <1>4, <1>6 DEF Extends
<1>8. Takes(input, alive, rs, input', alive')
  BY <1>2, <1>5 DEF Takes
<1> QED BY <1>2, <1>7, <1>8

\* ... when tmux adds to the stream.
LEMMA OrderedGrown ==
  ASSUME NEW a \in Seq(Requests), NEW inp \in Seq(Requests), NEW s \in Seq(Items), NEW al, NEW w,
         Ordered(a, inp, s, al, w), NEW t, NEW rs, Adds(t, rs), NEW u, Extends(s, t, u),
         NEW c, NEW bl, Takes(inp, al, rs, c, bl)
  PROVE  Ordered(a, c, u, bl, w)
<1> USE DEF Extends, Takes
<1>1. t \in Seq(Items) /\ Len(t) \in Nat /\ Len(s) \in Nat /\ DOMAIN s = 1..Len(s)
      /\ DOMAIN t = 1..Len(t) /\ DOMAIN u = 1..(Len(s) + Len(t)) /\ DOMAIN u \subseteq Nat
  BY DEF Adds
<1>2. \A i \in DOMAIN t : t[i].of # NoRequest => t[i].of \in rs
  BY DEF Adds
<1>h. rs # {} => /\ al /\ rs = {inp[1]} /\ 1 \in DOMAIN inp /\ inp[1] \in Elements(inp)
                 /\ \A i \in DOMAIN Tail(inp) : i + 1 \in DOMAIN inp /\ Tail(inp)[i] = inp[i + 1] /\ 1 < i + 1
  <2> SUFFICES ASSUME rs # {}
               PROVE  /\ al /\ rs = {inp[1]} /\ 1 \in DOMAIN inp /\ inp[1] \in Elements(inp)
                      /\ \A i \in DOMAIN Tail(inp) : i + 1 \in DOMAIN inp /\ Tail(inp)[i] = inp[i + 1] /\ 1 < i + 1
    OBVIOUS
  <2>0. al /\ inp # <<>> /\ rs = {Head(inp)}
    OBVIOUS
  <2>1. /\ Head(inp) = inp[1] /\ 1 \in DOMAIN inp
        /\ \A i \in DOMAIN Tail(inp) : i + 1 \in DOMAIN inp /\ Tail(inp)[i] = inp[i + 1] /\ i \in Nat /\ i >= 1
    BY <2>0, TailPositions
  <2>2. inp[1] \in Elements(inp)
    BY <2>1 DEF Elements
  <2>3. \A i \in DOMAIN Tail(inp) : 1 < i + 1
    BY <2>1
  <2> QED BY <2>0, <2>1, <2>2, <2>3
<1>3. rs \subseteq Elements(a)
  BY <1>h DEF Ordered
<1>e. bl => Elements(c) \subseteq Elements(inp)
  <2>1. rs # {} => Elements(Tail(inp)) \subseteq Elements(inp)
    BY <1>h DEF Elements
  <2> QED BY <2>1
<1>4. bl => Elements(c) \subseteq Elements(a)
  BY <1>e DEF Ordered
<1>5. bl => \A i, j \in DOMAIN c : i < j => Ahead(a, c[i], c[j])
  <2> SUFFICES ASSUME bl, NEW i \in DOMAIN c, NEW j \in DOMAIN c, i < j
               PROVE  Ahead(a, c[i], c[j])
    OBVIOUS
  <2>1. CASE c = inp
    BY <2>1 DEF Ordered
  <2>2. CASE rs # {} /\ c = Tail(inp)
    <3>1. i + 1 \in DOMAIN inp /\ j + 1 \in DOMAIN inp /\ c[i] = inp[i + 1] /\ c[j] = inp[j + 1]
      BY <2>2, <1>h
    <3>2. i + 1 < j + 1
      <4>1. inp # <<>>
        OBVIOUS
      <4>2. i \in Nat /\ j \in Nat
        BY <2>2, <4>1, TailPositions
      <4> QED BY <4>2
    <3> QED BY <3>1, <3>2 DEF Ordered
  <2> QED BY <2>1, <2>2
<1>6. bl => \A i \in DOMAIN u, q \in Elements(c) : u[i].of # NoRequest => Ahead(a, u[i].of, q)
  <2> SUFFICES ASSUME bl, NEW i \in DOMAIN u, NEW q \in Elements(c), u[i].of # NoRequest
               PROVE  Ahead(a, u[i].of, q)
    OBVIOUS
  <2>1. CASE i \in DOMAIN s /\ u[i] = s[i]
    BY <2>1, <1>e DEF Ordered
  <2>2. CASE i > Len(s) /\ i - Len(s) \in DOMAIN t /\ u[i] = t[i - Len(s)]
    <3>1. u[i].of \in rs
      BY <2>2, <1>2
    <3>2. u[i].of = inp[1] /\ c = Tail(inp) /\ al
      BY <3>1, <1>h
    <3>3. PICK k \in DOMAIN Tail(inp) : q = Tail(inp)[k]
      BY <3>2 DEF Elements
    <3>4. k + 1 \in DOMAIN inp /\ q = inp[k + 1] /\ 1 < k + 1 /\ 1 \in DOMAIN inp
      BY <3>1, <3>3, <1>h
    <3> QED BY <3>2, <3>4 DEF Ordered
  <2> QED BY <2>1, <2>2
<1>7. \A i \in DOMAIN u : u[i].of # NoRequest => u[i].of \in Elements(a)
  <2> SUFFICES ASSUME NEW i \in DOMAIN u, u[i].of # NoRequest
               PROVE  u[i].of \in Elements(a)
    OBVIOUS
  <2>1. CASE i \in DOMAIN s /\ u[i] = s[i]
    BY <2>1 DEF Ordered
  <2>2. CASE i > Len(s) /\ i - Len(s) \in DOMAIN t /\ u[i] = t[i - Len(s)]
    BY <2>2, <1>2, <1>3
  <2> QED BY <2>1, <2>2
<1>8. \A i, j \in DOMAIN u :
       i < j /\ u[i].of # NoRequest /\ u[j].of # NoRequest =>
         u[i].of = u[j].of \/ Ahead(a, u[i].of, u[j].of)
  <2> SUFFICES ASSUME NEW i \in DOMAIN u, NEW j \in DOMAIN u, i < j, u[i].of # NoRequest, u[j].of # NoRequest
               PROVE  u[i].of = u[j].of \/ Ahead(a, u[i].of, u[j].of)
    OBVIOUS
  <2>1. CASE j \in DOMAIN s /\ u[j] = s[j]
    <3>1. i \in DOMAIN s
      BY <2>1, <1>1
    <3> QED BY <2>1, <3>1 DEF Ordered
  <2>2. CASE j > Len(s) /\ j - Len(s) \in DOMAIN t /\ u[j] = t[j - Len(s)]
    <3>1. u[j].of \in rs
      BY <2>2, <1>2
    <3>2. u[j].of = inp[1] /\ al /\ inp[1] \in Elements(inp)
      BY <3>1, <1>h
    <3>3. CASE i \in DOMAIN s /\ u[i] = s[i]
      BY <3>2, <3>3 DEF Ordered
    <3>4. CASE i - Len(s) \in DOMAIN t /\ u[i] = t[i - Len(s)]
      BY <3>1, <3>4, <1>2, <1>h
    <3> QED BY <3>3, <3>4
  <2> QED BY <2>1, <2>2
<1>9. \A i, j \in DOMAIN u : i < j /\ u[i].kind = "token" => u[j].of # u[i].of
  <2> SUFFICES ASSUME NEW i \in DOMAIN u, NEW j \in DOMAIN u, i < j, u[i].kind = "token"
               PROVE  u[j].of # u[i].of
    OBVIOUS
  <2>1. CASE j \in DOMAIN s /\ u[j] = s[j]
    <3>1. i \in DOMAIN s
      BY <2>1, <1>1
    <3> QED BY <2>1, <3>1 DEF Ordered
  <2>2. CASE i > Len(s) /\ i - Len(s) \in DOMAIN t /\ u[i] = t[i - Len(s)]
    <3>1. i - Len(s) = Len(t)
      BY <2>2
    <3> QED BY <3>1, <1>1
  <2>3. CASE j > Len(s) /\ j - Len(s) \in DOMAIN t /\ u[j] = t[j - Len(s)] /\ i \in DOMAIN s /\ u[i] = s[i]
    <3> SUFFICES ASSUME u[j].of = u[i].of
                 PROVE  FALSE
      OBVIOUS
    <3>0. u[i].of # NoRequest
      BY <2>3
    <3>1. u[j].of \in rs
      BY <2>3, <1>2, <3>0
    <3>2. u[j].of = inp[1] /\ al /\ inp[1] \in Elements(inp)
      BY <3>1, <1>h
    <3>3. Ahead(a, s[i].of, inp[1])
      BY <2>3, <3>0, <3>2 DEF Ordered
    <3>4. Distinct(a)
      BY DEF Ordered
    <3>5. s[i].of # inp[1]
      BY <3>3, <3>4, AheadEnds
    <3> QED BY <3>2, <3>5, <2>3
  <2> QED BY <2>1, <2>2, <2>3
<1> QED BY <1>4, <1>5, <1>6, <1>7, <1>8, <1>9 DEF Ordered
\* The request whose token comes is outstanding; it and those ahead of it are
\* done with.
LEMMA TokenTaken ==
  ASSUME Typed, TmuxAssumption, Blocks, InOrder, ~dying, EndToken
  PROVE  LET r == Head(stream).of
             n == TokenAt(r)
         IN  /\ r \in Requests /\ Head(stream) = stream[1] /\ stream # <<>> /\ 1 \in DOMAIN stream
             /\ Head(stream).kind = "token" /\ stream' = Tail(stream)
             /\ open = "front" /\ n \in DOMAIN outstanding /\ outstanding[n] = r
             /\ n \in DOMAIN Announced /\ Announced[n] = r
             /\ Announced' = Behind(Announced, n)
             /\ UNCHANGED <<input, alive, writer, written, ran, lost, heard, slot>>
<1> DEFINE r == Head(stream).of
           n == TokenAt(r)
<1>1. stream # <<>> /\ Head(stream).kind = "token" /\ stream' = Tail(stream)
  BY DEF EndToken, Reads
<1>2. Head(stream) = stream[1] /\ 1 \in DOMAIN stream
  BY <1>1 DEF Typed, TypeOK
<1>3. r \in Requests /\ r # NoRequest
  BY <1>1, <1>2 DEF Blocks, TmuxAssumption
<1>4. open = "front" /\ r \in Elements(outstanding)
  BY <1>1, <1>2, <1>3 DEF Blocks
<1>5. n \in DOMAIN outstanding /\ outstanding[n] = r
  BY <1>4 DEF TokenAt, Elements
<1>6. outstanding \in Seq(Requests) /\ n \in 1..Len(outstanding) /\ Len(outstanding) \in Nat
  <2>1. outstanding \in Seq(Requests)
    BY DEF Typed, TypeOK
  <2> QED BY <1>5, <2>1
<1>7. outstanding' = Behind(outstanding, n) /\ UNCHANGED <<input, alive, writer, written, ran, lost, heard, slot>>
  <2>1. n # 0
    BY <1>6
  <2> QED BY <1>4, <2>1 DEF EndToken, tmux, writing, Behind
<1>8. n \in DOMAIN Announced /\ Announced[n] = r
  BY <1>5, AnnouncedIs
<1> HIDE DEF n, r
<1>9. Announced' = Behind(Announced, n)
  <2>1. CASE slot = NoRequest
    BY <2>1, <1>7 DEF Announced
  <2>2. CASE slot # NoRequest
    <3>1. Announced = Append(outstanding, slot) /\ slot \in Requests
      BY <2>2, AnnouncedIs
    <3>2. Announced' = Append(Behind(outstanding, n), slot)
      BY <2>2, <1>7 DEF Announced
    <3>3. Append(Behind(outstanding, n), slot) = Behind(Append(outstanding, slot), n)
      <4> DEFINE u == Behind(outstanding, n)
                 b == Append(outstanding, slot)
                 v == Behind(b, n)
                 x == Append(u, slot)
      <4>1. b \in Seq(Requests) /\ Len(b) = Len(outstanding) + 1 /\ b[Len(outstanding) + 1] = slot
            /\ \A i \in 1..Len(outstanding) : b[i] = outstanding[i]
        BY <3>1, <1>6
      <4>2. n \in DOMAIN b
        BY <4>1, <1>6
      <4>3. /\ u \in Seq(Requests) /\ Len(u) = Len(outstanding) - n /\ Len(u) \in Nat
            /\ \A i \in DOMAIN u : n + i \in DOMAIN outstanding /\ u[i] = outstanding[n + i]
        BY <1>5, <1>6, Suffix
      <4>v. v = Behind(b, n)
        OBVIOUS
      <4> HIDE DEF b, u, v
      <4>4. /\ v \in Seq(Requests) /\ Len(v) = Len(b) - n /\ Len(v) \in Nat
            /\ \A i \in DOMAIN v : n + i \in DOMAIN b /\ v[i] = b[n + i]
        <5>1. b \in Seq(Requests)
          BY <4>1
        <5> QED BY <5>1, <4>2, <4>v, Suffix
      <4>5. x \in Seq(Requests) /\ Len(x) = Len(u) + 1 /\ x[Len(u) + 1] = slot
            /\ \A i \in 1..Len(u) : x[i] = u[i]
        BY <4>3, <3>1
      <4> HIDE DEF x
      <4>6. Len(x) = Len(v)
        BY <4>1, <4>3, <4>4, <4>5, <1>6
      <4>7. ASSUME NEW i \in 1..Len(x)
            PROVE  x[i] = v[i]
        <5>1. i \in DOMAIN v /\ v[i] = b[n + i]
          BY <4>4, <4>6
        <5>2. CASE i \in 1..Len(u)
          <6>1. x[i] = outstanding[n + i] /\ n + i \in 1..Len(outstanding)
            BY <4>3, <4>5, <5>2, <1>6
          <6> QED BY <6>1, <5>1, <4>1
        <5>3. CASE i = Len(u) + 1
          <6>1. n + i = Len(outstanding) + 1
            BY <4>3, <5>3, <1>6
          <6> QED BY <6>1, <5>1, <5>3, <4>1, <4>5
        <5> QED BY <5>2, <5>3, <4>3, <4>5
      <4>8. x = v
        BY <4>4, <4>5, <4>6, <4>7
      <4> QED BY <4>8 DEF x, v, u, b
    <3> QED BY <3>1, <3>2, <3>3
  <2> QED BY <2>1, <2>2
<1> QED BY <1>1, <1>2, <1>3, <1>4, <1>5, <1>7, <1>8, <1>9 DEF n, r

\* A step keeps the order, while the reader has not shut down.
LEMMA InOrderStep ==
  ASSUME Typed, Typed', TmuxAssumption, Traceless, InPlace, Blocks, ~dying => InOrder, [Next]_vars, ~dying'
  PROVE  InOrder'
<1>0. InOrder' <=> Ordered(Announced', input', stream', alive', writer')
  BY DEF InOrder, Ordered, Ahead, Elements, Distinct
<1>1. ~dying /\ InOrder
  BY OrderSteps
<1>o. Ordered(Announced, input, stream, alive, writer)
  BY <1>1 DEF InOrder
<1>t. /\ stream \in Seq(Items) /\ input \in Seq(Requests) /\ alive \in BOOLEAN /\ alive' \in BOOLEAN
      /\ stream' \in Seq(Items) /\ Announced \in Seq(Requests)
      /\ writer \in [at : {"idle", "slot", "write", "wait", "ended"}, req : Requests \cup {NoRequest}]
  BY AnnouncedIs DEF Typed, TypeOK
<1>2. CASE Quiet
  <2>1. Announced' = Announced
    BY <1>2 DEF Quiet, Announced
  <2>2. UNCHANGED <<input, stream, alive>> /\ (writer'.at = "write" => writer' = writer)
    BY <1>2 DEF Quiet
  <2>3. Ordered(Announced, input, stream, alive, writer')
    BY <1>o, <2>2, OrderedOther
  <2> QED BY <1>0, <2>1, <2>2, <2>3
<1>3. CASE Announce
  <2>1. Announced' = Append(Announced, writer.req) /\ writer.req \in Requests
    BY <1>3, AnnouncedSteps
  <2>2. UNCHANGED <<input, stream, alive>> /\ writer' = [at |-> "write", req |-> writer.req]
    BY <1>3 DEF Announce, WriterGoes, tmux
  <2>3. writer.req \notin Elements(Announced)
    BY <1>3, <2>1 DEF Announce, Traceless, Early
  <2>4. Ordered(Append(Announced, writer.req), input, stream, alive, [at |-> "write", req |-> writer.req])
    BY <1>o, <1>t, <2>1, <2>3, OrderedAnnounce
  <2> QED BY <1>0, <2>1, <2>2, <2>4
<1>4. CASE Write
  <2>1. /\ UNCHANGED <<stream, alive>> /\ writer' = [at |-> "wait", req |-> writer.req]
        /\ input' = IF alive THEN Append(input, writer.req) ELSE input
        /\ writer.at = "write" /\ Announced' = Announced
    BY <1>4 DEF Write, WriterGoes, tracker, Announced, WriterAt
  <2>2. writer.req \in Requests /\ writer.req \notin written /\ writer.req # NoRequest
    BY <2>1, TmuxAssumption DEF InPlace, WriterAt, TmuxAssumption
  <2>3. CASE alive
    <3>1. alive = TRUE
      BY <2>3, <1>t
    <3>2. Ordered(Announced, input, stream, TRUE, writer)
      BY <1>o, <3>1
    <3>3. writer.req \notin Elements(input) /\ \A i \in DOMAIN stream : stream[i].of # writer.req
      BY <2>2 DEF InPlace
    <3>4. writer'.at # "write"
      BY <2>1
    <3>5. Ordered(Announced, Append(input, writer.req), stream, TRUE, writer')
      BY <1>t, <2>1, <2>2, <3>2, <3>3, <3>4, OrderedWrite
    <3> QED BY <1>0, <2>1, <3>1, <3>5
  <2>4. CASE ~alive
    <3>1. Ordered(Announced, input, stream, alive, writer')
      BY <1>o, <2>1, OrderedOther
    <3> QED BY <1>0, <2>1, <2>4, <3>1
  <2> QED BY <2>3, <2>4
<1>5. CASE BeginBlock \/ EndBlock \/ ReadNote
  <2>1. /\ stream # <<>> /\ stream' = Tail(stream) /\ UNCHANGED <<input, alive, writer>>
    BY <1>5 DEF BeginBlock, EndBlock, ReadNote, Reads, tmux, writing
  <2>2. Announced' = Announced
    BY <1>5, BeginSteps
  <2>3. Ordered(Announced, input, Tail(stream), alive, writer)
    BY <1>o, <1>t, <2>1, OrderedPop
  <2> QED BY <1>0, <2>1, <2>2, <2>3
<1>6. CASE EndToken
  <2> DEFINE r == Head(stream).of
             n == TokenAt(r)
  <2>1. /\ r \in Requests /\ Head(stream) = stream[1] /\ stream # <<>> /\ 1 \in DOMAIN stream
        /\ Head(stream).kind = "token" /\ stream' = Tail(stream)
        /\ n \in DOMAIN Announced /\ Announced[n] = r
        /\ Announced' = Behind(Announced, n)
        /\ UNCHANGED <<input, alive, writer>>
    BY <1>1, <1>6, TokenTaken
  <2> HIDE DEF n
  <2>2. Announced[n] # NoRequest /\ stream[1].kind = "token" /\ stream[1].of = Announced[n]
    BY <2>1, TmuxAssumption DEF TmuxAssumption
  <2>3. writer.at = "write" => writer.req # Announced[n]
    <3>1. r \in written
      BY <2>1, <2>2 DEF InPlace
    <3> QED BY <3>1, <2>1 DEF InPlace, WriterAt
  <2>4. Ordered(Announced', input, Tail(stream), alive, writer)
    BY <1>o, <1>t, <2>1, <2>2, <2>3, OrderedToken
  <2> QED BY <1>0, <2>1, <2>4
<1>7. ASSUME NEW t, NEW rs, Grown(t, rs)
      PROVE  InOrder'
  <2>1. Extends(stream, t, stream') /\ Takes(input, alive, rs, input', alive') /\ Adds(t, rs)
    BY <1>7, GrownExtends
  <2>2. Announced' = Announced /\ writer' = writer
    BY <1>7 DEF Grown, Announced
  <2>3. Ordered(Announced, input', stream', alive', writer)
    BY <1>o, <1>t, <2>1, OrderedGrown
  <2> QED BY <1>0, <2>2, <2>3
<1> QED BY <1>2, <1>3, <1>4, <1>5, <1>6, <1>7, OrderSteps

-----------------------------------------------------------------------------
(* The tokens come.                                                        *)

\* They still do when the reader takes what is no token, ...
LEMMA ComePop ==
  ASSUME NEW a, NEW inp, NEW s \in Seq(Items), s # <<>>, s[1].kind # "token", NEW al, NEW w, NEW l,
         Come(a, inp, s, al, w, l)
  PROVE  Come(a, inp, Tail(s), al, w, l)
<1> DEFINE u == Tail(s)
<1>1. /\ \A i \in DOMAIN u : i + 1 \in DOMAIN s /\ u[i] = s[i + 1]
      /\ \A i \in DOMAIN s : i = 1 \/ (i - 1 \in DOMAIN u /\ u[i - 1] = s[i])
      /\ \A i \in DOMAIN s : i \in Nat /\ i >= 1
      /\ \A i \in DOMAIN u : i \in Nat /\ i >= 1
  BY TailPositions
<1>2. \A q : Item("token", q).kind = "token"
  BY DEF Item
<1> HIDE DEF u
<1>3. \A q : \A i \in DOMAIN s : s[i] = Item("token", q) => i - 1 \in DOMAIN u /\ u[i - 1] = Item("token", q)
  <2> SUFFICES ASSUME NEW q, NEW i \in DOMAIN s, s[i] = Item("token", q)
               PROVE  i - 1 \in DOMAIN u /\ u[i - 1] = Item("token", q)
    OBVIOUS
  <2>1. i # 1
    BY <1>2
  <2> QED BY <2>1, <1>1
<1>4. ASSUME NEW r \in Elements(a) \ l, NEW j \in DOMAIN u, u[j].of # NoRequest, Ahead(a, r, u[j].of)
      PROVE  \E i \in DOMAIN u : i < j /\ u[i] = Item("token", r)
  <2>1. j + 1 \in DOMAIN s /\ u[j] = s[j + 1] /\ j \in Nat
    BY <1>1
  <2>2. PICK i \in DOMAIN s : i < j + 1 /\ s[i] = Item("token", r)
    BY <2>1, <1>4 DEF Come
  <2>3. i - 1 \in DOMAIN u /\ u[i - 1] = Item("token", r) /\ i \in Nat
    BY <2>2, <1>3, <1>1
  <2>4. i - 1 < j
    BY <2>1, <2>2, <2>3
  <2> QED BY <2>3, <2>4
<1>5. ASSUME al, NEW r \in Elements(a) \ l
      PROVE  \/ \E i \in DOMAIN u : u[i] = Item("token", r)
             \/ r \in Elements(inp)
             \/ w.at = "write" /\ w.req = r
  BY <1>3, <1>5 DEF Come
<1>6. \A i \in DOMAIN u : u[i].kind = "token" => u[i].of \notin l
  BY <1>1 DEF Come
<1>7. Come(a, inp, u, al, w, l)
  BY <1>4, <1>5, <1>6 DEF Come
<1> QED BY <1>7 DEF u

\* ... when a request is announced, which is to be written next, ...
LEMMA ComeAnnounce ==
  ASSUME NEW a \in Seq(Requests), NEW inp, NEW s, NEW al, NEW w, NEW l,
         Come(a, inp, s, al, w, l), Ordered(a, inp, s, al, w), w.at # "write",
         NEW x \in Requests, x \notin Elements(a)
  PROVE  Come(Append(a, x), inp, s, al, [at |-> "write", req |-> x], l)
<1> DEFINE b == Append(a, x)
<1>1. /\ Elements(b) = Elements(a) \cup {x}
      /\ \A r, q : Ahead(b, r, q) => Ahead(a, r, q) \/ (r \in Elements(a) /\ q = x)
  BY AheadAppend
<1> HIDE DEF b
<1>2. \A j \in DOMAIN s : s[j].of # NoRequest => s[j].of # x
  BY DEF Ordered
<1>d. \A r, q : Ahead(a, r, q) => r \in Elements(a)
  BY DEF Ahead, Elements
<1>3. ASSUME NEW r \in Elements(b) \ l, NEW j \in DOMAIN s, s[j].of # NoRequest, Ahead(b, r, s[j].of)
      PROVE  \E i \in DOMAIN s : i < j /\ s[i] = Item("token", r)
  <2>1. Ahead(a, r, s[j].of) /\ r \in Elements(a) \ l
    BY <1>1, <1>2, <1>3, <1>d
  <2> QED BY <2>1, <1>3 DEF Come
<1>4. Come(b, inp, s, al, [at |-> "write", req |-> x], l)
  BY <1>1, <1>3 DEF Come
<1> QED BY <1>4 DEF b

\* ... when it is written, or tmux is no more, ...
LEMMA ComeWrite ==
  ASSUME NEW a, NEW inp \in Seq(Requests), NEW s, NEW al, NEW w, NEW l,
         Come(a, inp, s, al, w, l), w.req \in Requests, NEW v
  PROVE  /\ Come(a, Append(inp, w.req), s, al, v, l)
         /\ \A c : Come(a, c, s, FALSE, v, l)
         /\ (al /\ w.at = "write" => v = w) => Come(a, inp, s, al, v, l)
<1>1. Elements(Append(inp, w.req)) = Elements(inp) \cup {w.req}
  BY AheadAppend
<1>2. Come(a, Append(inp, w.req), s, al, v, l)
  BY <1>1 DEF Come
<1>3. \A c : Come(a, c, s, FALSE, v, l)
  BY DEF Come
<1>4. ASSUME al /\ w.at = "write" => v = w
      PROVE  Come(a, inp, s, al, v, l)
  BY <1>4 DEF Come
<1> QED BY <1>2, <1>3, <1>4

\* ... when a token ends its request and those ahead of it, ...
LEMMA ComeToken ==
  ASSUME NEW a \in Seq(Requests), NEW inp, NEW s \in Seq(Items), s # <<>>, NEW al, NEW w, NEW l,
         Come(a, inp, s, al, w, l), Distinct(a), NEW n \in DOMAIN a, s[1].of = a[n],
         NEW u, u = Behind(a, n)
  PROVE  Come(u, inp, Tail(s), al, w, l)
<1> DEFINE z == Tail(s)
<1>1. /\ \A i \in DOMAIN z : i + 1 \in DOMAIN s /\ z[i] = s[i + 1]
      /\ \A i \in DOMAIN s : i = 1 \/ (i - 1 \in DOMAIN z /\ z[i - 1] = s[i])
      /\ \A i \in DOMAIN s : i \in Nat /\ i >= 1
      /\ \A i \in DOMAIN z : i \in Nat /\ i >= 1
  BY TailPositions
<1>2. \A q : Item("token", q).of = q
  BY DEF Item
<1>a. /\ Elements(u) \subseteq Elements(a)
      /\ \A r, q : Ahead(u, r, q) => Ahead(a, r, q)
      /\ \A i \in DOMAIN a : a[i] \notin Elements(u) \/ n < i
  BY AheadSuffix
<1>b. a[n] \notin Elements(u)
  <2>1. n \in Nat
    OBVIOUS
  <2> QED BY <1>a, <2>1
<1> HIDE DEF z
<1>3. \A q \in Elements(u) : \A i \in DOMAIN s : s[i] = Item("token", q) => i - 1 \in DOMAIN z /\ z[i - 1] = Item("token", q)
  <2> SUFFICES ASSUME NEW q \in Elements(u), NEW i \in DOMAIN s, s[i] = Item("token", q)
               PROVE  i - 1 \in DOMAIN z /\ z[i - 1] = Item("token", q)
    OBVIOUS
  <2>1. i # 1
    BY <1>2, <1>b
  <2> QED BY <2>1, <1>1
<1>4. ASSUME NEW r \in Elements(u) \ l, NEW j \in DOMAIN z, z[j].of # NoRequest, Ahead(u, r, z[j].of)
      PROVE  \E i \in DOMAIN z : i < j /\ z[i] = Item("token", r)
  <2>1. j + 1 \in DOMAIN s /\ z[j] = s[j + 1] /\ j \in Nat /\ r \in Elements(a) \ l /\ Ahead(a, r, z[j].of)
    BY <1>1, <1>4, <1>a
  <2>2. PICK i \in DOMAIN s : i < j + 1 /\ s[i] = Item("token", r)
    BY <2>1, <1>4 DEF Come
  <2>3. i - 1 \in DOMAIN z /\ z[i - 1] = Item("token", r) /\ i \in Nat
    BY <2>2, <1>3, <1>1
  <2>4. i - 1 < j
    BY <2>1, <2>2, <2>3
  <2> QED BY <2>3, <2>4
<1>5. ASSUME al, NEW r \in Elements(u) \ l
      PROVE  \/ \E i \in DOMAIN z : z[i] = Item("token", r)
             \/ r \in Elements(inp)
             \/ w.at = "write" /\ w.req = r
  BY <1>3, <1>5, <1>a DEF Come
<1>6. \A i \in DOMAIN z : z[i].kind = "token" => z[i].of \notin l
  BY <1>1 DEF Come
<1>7. Come(u, inp, z, al, w, l)
  BY <1>4, <1>5, <1>6 DEF Come
<1> QED BY <1>7 DEF z

\* What is lost with t: m is lost then, and l was.
Loses(t, rs, l, m, bl) ==
  /\ l \subseteq m /\ m \subseteq l \cup rs
  /\ \A i \in DOMAIN t : t[i].kind = "token" => t[i].of \notin m
  /\ bl => \A r \in rs : r \in m \/ \E i \in DOMAIN t : t[i] = Item("token", r)

\* ... and when tmux writes for the oldest in its pipe.
LEMMA ComeGrown ==
  ASSUME NEW a \in Seq(Requests), NEW inp \in Seq(Requests), NEW s \in Seq(Items), NEW al, NEW w, NEW l,
         Ordered(a, inp, s, al, w), Come(a, inp, s, al, w, l),
         NEW t, NEW rs, Adds(t, rs), NEW u, Extends(s, t, u),
         NEW c, NEW bl, Takes(inp, al, rs, c, bl), NEW m, Loses(t, rs, l, m, bl)
  PROVE  Come(a, c, u, bl, w, m)
<1>1. t \in Seq(Items) /\ Len(t) \in Nat /\ Len(s) \in Nat /\ DOMAIN s = 1..Len(s)
      /\ DOMAIN t = 1..Len(t) /\ DOMAIN s \subseteq Nat
  BY DEF Adds
<1>2. \A i \in DOMAIN t : t[i].of # NoRequest => t[i].of \in rs
  BY DEF Adds
<1>x. /\ \A i \in DOMAIN s : i \in DOMAIN u /\ u[i] = s[i]
      /\ \A i \in DOMAIN t : Len(s) + i \in DOMAIN u /\ u[Len(s) + i] = t[i]
      /\ \A i \in DOMAIN u : \/ i \in DOMAIN s /\ u[i] = s[i]
                             \/ i > Len(s) /\ i - Len(s) \in DOMAIN t /\ u[i] = t[i - Len(s)]
  BY DEF Extends
<1>d. Distinct(a) /\ l \subseteq m /\ m \subseteq l \cup rs
  BY DEF Ordered, Loses
<1>e. /\ \A r, q : Ahead(a, r, q) => r \in Elements(a) /\ q \in Elements(a) /\ r # q
      /\ \A r, q : Ahead(a, r, q) => ~Ahead(a, q, r)
      /\ \A q \in Elements(a) : q = a[Len(a)] \/ Ahead(a, q, a[Len(a)])
  BY <1>d, AheadEnds
<1>h. rs # {} => /\ al /\ rs = {inp[1]} /\ 1 \in DOMAIN inp /\ inp[1] \in Elements(inp)
  <2>1. rs # {} => al /\ inp # <<>> /\ rs = {Head(inp)}
    BY DEF Takes
  <2>2. inp # <<>> => Head(inp) = inp[1] /\ 1 \in DOMAIN inp
    OBVIOUS
  <2> QED BY <2>1, <2>2 DEF Elements
<1>3. ASSUME NEW q \in rs, NEW r \in Elements(a) \ l, Ahead(a, r, q)
      PROVE  \E i \in DOMAIN s : s[i] = Item("token", r)
  <2>1. al /\ q = inp[1] /\ 1 \in DOMAIN inp
    BY <1>3, <1>h
  <2>2. r \notin Elements(inp)
    <3> SUFFICES ASSUME NEW k \in DOMAIN inp, r = inp[k]
                 PROVE  FALSE
      BY DEF Elements
    <3>1. k = 1 \/ 1 < k
      OBVIOUS
    <3>2. 1 < k => Ahead(a, q, r)
      BY <2>1 DEF Ordered
    <3> QED BY <1>3, <2>1, <3>1, <3>2, <1>e
  <2>3. ~(w.at = "write" /\ w.req = r)
    <3>1. w.at = "write" => a[Len(a)] = w.req
      BY DEF Ordered
    <3> QED BY <3>1, <1>3, <1>e
  <2> QED BY <2>1, <2>2, <2>3 DEF Come
<1>4. ASSUME NEW r \in Elements(a) \ m, NEW j \in DOMAIN u, u[j].of # NoRequest, Ahead(a, r, u[j].of)
      PROVE  \E i \in DOMAIN u : i < j /\ u[i] = Item("token", r)
  <2>0. r \in Elements(a) \ l
    BY <1>d
  <2>1. CASE j \in DOMAIN s /\ u[j] = s[j]
    <3>1. PICK i \in DOMAIN s : i < j /\ s[i] = Item("token", r)
      BY <2>0, <2>1, <1>4 DEF Come
    <3> QED BY <3>1, <1>x
  <2>2. CASE j > Len(s) /\ j - Len(s) \in DOMAIN t /\ u[j] = t[j - Len(s)]
    <3>1. u[j].of \in rs
      BY <2>2, <1>2, <1>4
    <3>2. PICK i \in DOMAIN s : s[i] = Item("token", r)
      BY <3>1, <2>0, <1>4, <1>3
    <3>3. i < j
      <4>1. j \in Nat
        BY DEF Extends
      <4> QED BY <4>1, <1>1, <2>2
    <3> QED BY <3>2, <3>3, <1>x
  <2> QED BY <2>1, <2>2, <1>x
<1>5. ASSUME bl, NEW r \in Elements(a) \ m
      PROVE  \/ \E i \in DOMAIN u : u[i] = Item("token", r)
             \/ r \in Elements(c)
             \/ w.at = "write" /\ w.req = r
  <2>0. r \in Elements(a) \ l /\ al /\ ((rs = {} /\ c = inp) \/ (rs # {} /\ c = Tail(inp)))
    BY <1>d, <1>5 DEF Takes
  <2>1. CASE \E i \in DOMAIN s : s[i] = Item("token", r)
    BY <2>1, <1>x
  <2>2. CASE r \in Elements(inp)
    <3>1. CASE rs = {}
      BY <3>1, <2>0, <2>2
    <3>2. CASE rs # {} /\ r = inp[1]
      <4>1. \E i \in DOMAIN t : t[i] = Item("token", r)
        BY <3>2, <1>5, <1>h DEF Loses
      <4> QED BY <4>1, <1>x
    <3>3. CASE rs # {} /\ r # inp[1]
      <4>1. PICK k \in DOMAIN inp : inp[k] = r
        BY <2>2 DEF Elements
      <4>2. k # 1
        BY <4>1, <3>3
      <4>3. inp # <<>>
        BY <1>h, <3>3
      <4>4. k - 1 \in DOMAIN Tail(inp) /\ Tail(inp)[k - 1] = r
        BY <4>1, <4>2, <4>3, TailPositions
      <4>5. c = Tail(inp)
        BY <3>3, <2>0
      <4> QED BY <4>4, <4>5 DEF Elements
    <3> QED BY <3>1, <3>2, <3>3
  <2> QED BY <2>0, <2>1, <2>2 DEF Come
<1>6. \A i \in DOMAIN u : u[i].kind = "token" => u[i].of \notin m
  <2> SUFFICES ASSUME NEW i \in DOMAIN u, u[i].kind = "token"
               PROVE  u[i].of \notin m
    OBVIOUS
  <2>1. CASE i \in DOMAIN s /\ u[i] = s[i]
    <3>1. s[i].of \notin l /\ s[i].of # NoRequest
      BY <2>1 DEF Come, Extends
    <3>2. rs # {} => Ahead(a, s[i].of, inp[1])
      BY <2>1, <3>1, <1>h DEF Ordered
    <3>3. s[i].of \notin rs
      BY <3>2, <1>h, <1>e
    <3> QED BY <2>1, <3>1, <3>3, <1>d
  <2>2. CASE i > Len(s) /\ i - Len(s) \in DOMAIN t /\ u[i] = t[i - Len(s)]
    BY <2>2 DEF Loses
  <2> QED BY <2>1, <2>2, <1>x
<1> QED BY <1>4, <1>5, <1>6 DEF Come

\* What tmux writes for a request has its token, or the token is lost.
LEMMA GrownLoses ==
  ASSUME Typed, TmuxAssumption, NEW t, NEW rs, Grown(t, rs),
         rs # {} => Head(input) \notin lost
  PROVE  Loses(t, rs, lost, lost', alive')
<1> DEFINE r == Head(input)
           x == Item("token", r)
<1>1. \A i \in DOMAIN t : t[i].kind = "token" => t[i] = x /\ lost' = lost /\ rs # {}
  BY TokenLast
<1>2. lost \subseteq lost' /\ lost' \subseteq lost \cup rs
  BY DEF Grown, Ran
<1>3. \A i \in DOMAIN t : t[i].kind = "token" => t[i].of \notin lost'
  <2>1. x.of = r
    BY DEF Item
  <2> QED BY <1>1, <2>1
<1>4. ASSUME alive', NEW q \in rs
      PROVE  q \in lost' \/ \E i \in DOMAIN t : t[i] = Item("token", q)
  <2>1. q = r /\ input # <<>> /\ \E own \in Results(r) : Ran(own, t)
    BY <1>4 DEF Grown
  <2>2. PICK own \in Results(r) : Ran(own, t)
    BY <2>1
  <2>3. CASE t = Written(own) /\ lost' = lost \cup {r}
    BY <2>1, <2>3
  <2>4. CASE t = Written(Append(own, x))
    <3>1. r \in Requests
      BY <2>1 DEF Typed, TypeOK
    <3>2. own \in Seq(Items)
      BY <3>1, ResultsTyped
    <3>3. x \in Items
      BY <3>1 DEF Item, Items
    <3> HIDE DEF x
    <3> DEFINE o == Append(own, x)
    <3>4. o \in Seq(Items) /\ Len(o) \in DOMAIN o /\ o[Len(o)] = x
      BY <3>2, <3>3
    <3> HIDE DEF o
    <3>5. /\ Written(o) \in Seq(Items) /\ Len(Written(o)) = 2 * Len(o) /\ Written(o)[2 * Len(o)] = x
      BY <3>4, WrittenTyped
    <3>6. 2 * Len(o) \in DOMAIN Written(o)
      BY <3>4, <3>5
    <3> QED BY <2>1, <2>4, <3>5, <3>6 DEF o, x
  <2> QED BY <2>2, <2>3, <2>4 DEF Ran
<1> QED BY <1>2, <1>3, <1>4 DEF Loses

\* A step keeps the tokens coming, while the reader has not shut down.
LEMMA TokensComeStep ==
  ASSUME Typed, Typed', TmuxAssumption, Traceless, InPlace, Blocks,
         ~dying => InOrder /\ TokensCome /\ HeardOwn, [Next]_vars, ~dying'
  PROVE  TokensCome'
<1>0. TokensCome' <=> Come(Announced', input', stream', alive', writer', lost')
  BY DEF TokensCome, Come, Ahead, Elements
<1>1. ~dying /\ InOrder /\ TokensCome /\ HeardOwn
  BY OrderSteps
<1>o. /\ Ordered(Announced, input, stream, alive, writer) /\ Distinct(Announced)
      /\ Come(Announced, input, stream, alive, writer, lost)
  BY <1>1 DEF InOrder, TokensCome, Ordered
<1>t. /\ stream \in Seq(Items) /\ input \in Seq(Requests) /\ alive \in BOOLEAN /\ alive' \in BOOLEAN
      /\ stream' \in Seq(Items) /\ Announced \in Seq(Requests)
      /\ writer \in [at : {"idle", "slot", "write", "wait", "ended"}, req : Requests \cup {NoRequest}]
  BY AnnouncedIs DEF Typed, TypeOK
<1>2. CASE Quiet
  <2>1. Announced' = Announced /\ UNCHANGED <<input, stream, alive, lost>>
        /\ (alive /\ writer.at = "write" => writer' = writer)
    BY <1>2 DEF Quiet, Announced
  <2>2. Come(Announced, input, stream, alive, writer', lost)
    BY <1>o, <2>1 DEF Come
  <2> QED BY <1>0, <2>1, <2>2
<1>3. CASE Announce
  <2>1. Announced' = Append(Announced, writer.req) /\ writer.req \in Requests
    BY <1>3, AnnouncedSteps
  <2>2. UNCHANGED <<input, stream, alive, lost>> /\ writer' = [at |-> "write", req |-> writer.req]
        /\ writer.at # "write"
    BY <1>3 DEF Announce, WriterGoes, tmux, WriterAt
  <2>3. writer.req \notin Elements(Announced)
    BY <1>3, <2>1 DEF Announce, Traceless, Early
  <2>4. Come(Append(Announced, writer.req), input, stream, alive, [at |-> "write", req |-> writer.req], lost)
    BY <1>o, <1>t, <2>1, <2>2, <2>3, ComeAnnounce
  <2> QED BY <1>0, <2>1, <2>2, <2>4
<1>4. CASE Write
  <2>1. /\ UNCHANGED <<stream, alive, lost>>
        /\ input' = IF alive THEN Append(input, writer.req) ELSE input
        /\ Announced' = Announced /\ writer.req \in Requests
    BY <1>4 DEF Write, tracker, Announced, InPlace, WriterAt
  <2>2. CASE alive
    <3>1. Come(Announced, Append(input, writer.req), stream, alive, writer', lost)
      BY <1>o, <1>t, <2>1, ComeWrite
    <3> QED BY <1>0, <2>1, <2>2, <3>1
  <2>3. CASE ~alive
    <3>1. Come(Announced, input, stream, alive, writer', lost)
      BY <1>o, <2>3 DEF Come
    <3> QED BY <1>0, <2>1, <2>3, <3>1
  <2> QED BY <2>2, <2>3
<1>5. CASE BeginBlock \/ EndBlock \/ ReadNote
  <2>1. /\ stream # <<>> /\ stream' = Tail(stream) /\ UNCHANGED <<input, alive, writer, lost>>
    BY <1>5 DEF BeginBlock, EndBlock, ReadNote, Reads, tmux, writing
  <2>2. Announced' = Announced /\ Head(stream).kind # "token"
    BY <1>5, BeginSteps
  <2>3. stream[1].kind # "token"
    BY <2>1, <2>2, <1>t
  <2>4. Come(Announced, input, Tail(stream), alive, writer, lost)
    BY <1>o, <1>t, <2>1, <2>3, ComePop
  <2> QED BY <1>0, <2>1, <2>2, <2>4
<1>6. CASE EndToken
  <2> DEFINE r == Head(stream).of
             n == TokenAt(r)
  <2>1. /\ Head(stream) = stream[1] /\ stream # <<>> /\ stream' = Tail(stream)
        /\ n \in DOMAIN Announced /\ Announced[n] = r
        /\ Announced' = Behind(Announced, n)
        /\ UNCHANGED <<input, alive, writer, lost>>
    BY <1>1, <1>6, TokenTaken
  <2> HIDE DEF n
  <2>2. stream[1].of = Announced[n]
    BY <2>1
  <2>4. Come(Announced', input, Tail(stream), alive, writer, lost)
    BY <1>o, <1>t, <2>1, <2>2, ComeToken
  <2> QED BY <1>0, <2>1, <2>4
<1>7. ASSUME NEW t, NEW rs, Grown(t, rs)
      PROVE  TokensCome'
  <2>1. Extends(stream, t, stream') /\ Takes(input, alive, rs, input', alive') /\ Adds(t, rs)
    BY <1>7, GrownExtends
  <2>2. Announced' = Announced /\ writer' = writer
    BY <1>7 DEF Grown, Announced
  <2>3. rs # {} => Head(input) \notin lost
    <3>1. rs # {} => alive /\ input # <<>>
      BY <1>7 DEF Grown
    <3>2. input # <<>> => Head(input) \in Elements(input) /\ Head(input) \in Requests
      BY <1>t DEF Elements
    <3> QED BY <3>1, <3>2, <1>1 DEF HeardOwn, NotYetRun
  <2>4. Loses(t, rs, lost, lost', alive')
    BY <1>7, <2>3, GrownLoses
  <2>5. Come(Announced, input', stream', alive', writer, lost')
    BY <1>o, <1>t, <2>1, <2>4, ComeGrown
  <2> QED BY <1>0, <2>2, <2>5
<1> QED BY <1>2, <1>3, <1>4, <1>5, <1>6, <1>7, OrderSteps


-----------------------------------------------------------------------------
(* What is heard.                                                          *)

\* tmux runs, and loses the token of, what it reads next, and has read then.
LEMMA WhatIsRan ==
  ASSUME Typed, TmuxAssumption, [Next]_vars
  PROVE  \/ ran' = ran /\ lost' = lost
         \/ /\ alive /\ input # <<>> /\ heard' = heard /\ (alive' => input' = Tail(input))
            /\ UNCHANGED <<writer, outstanding, slot>>
            /\ \E own \in Results(Head(input)) : ran' = [ran EXCEPT ![Head(input)] = own]
<1>1. CASE WriterStep
  BY <1>1 DEF WriterStep, Receive, NoMoreRequests, Announce, NotAnnounced, NobodyReads, Write,
     WriteFails, Completed, TimesOut, tmux
<1>2. CASE ReaderStep
  BY <1>2 DEF ReaderStep, Eof, BeginBlock, EndBlock, EndToken, ReadNote, Flush, FlushFull, Unblock,
     NobodyListens, tmux
<1>3. CASE TmuxStep
  <2>1. CASE NotifyUI \/ TmuxEnds(<<>>)
    BY <2>1 DEF NotifyUI, TmuxEnds
  <2>2. ASSUME alive, input # <<>>, NEW own \in Results(Head(input)), Run(own) \/ TmuxEnds(own)
        PROVE  \/ ran' = ran /\ lost' = lost
               \/ /\ alive /\ input # <<>> /\ heard' = heard /\ (alive' => input' = Tail(input))
                  /\ UNCHANGED <<writer, outstanding, slot>>
                  /\ \E x \in Results(Head(input)) : ran' = [ran EXCEPT ![Head(input)] = x]
    <3>1. heard' = heard /\ UNCHANGED <<writer, outstanding, slot>>
      BY <2>2 DEF Run, TmuxEnds, TmuxOnly, tracker, writing
    <3>2. CASE Run(own)
      BY <2>2, <3>1, <3>2 DEF Run
    <3>3. CASE TmuxEnds(own)
      BY <2>2, <3>1, <3>3 DEF TmuxEnds
    <3> QED BY <2>2, <3>2, <3>3
  <2> QED BY <1>3, <2>1, <2>2 DEF TmuxStep
<1>4. CASE Poll \/ Drop \/ (\E q \in Requests : Send(q) \/ Return(q)) \/ UNCHANGED vars
  BY <1>4 DEF Poll, Drop, Send, Return, vars, tmux
<1> QED BY <1>1, <1>2, <1>3, <1>4 DEF Next

\* What tmux ran for a request is its own, after a step.
LEMMA OwnRanStep ==
  ASSUME Typed, Typed', TmuxAssumption, OwnRan, [Next]_vars
  PROVE  OwnRan'
<1>1. CASE ran' = ran
  BY <1>1 DEF OwnRan
<1>2. CASE /\ input # <<>>
           /\ \E own \in Results(Head(input)) : ran' = [ran EXCEPT ![Head(input)] = own]
  <2>1. Head(input) \in Requests /\ ran \in [Requests -> Seq(Items)]
    BY <1>2 DEF Typed, TypeOK
  <2>2. PICK own \in Results(Head(input)) : ran' = [ran EXCEPT ![Head(input)] = own]
    BY <1>2
  <2>3. \A i \in DOMAIN own : own[i].of = Head(input)
    BY <2>1, TmuxAssumption, ResultsTyped DEF Item
  <2>4. \A r \in Requests : ran'[r] = ran[r] \/ (r = Head(input) /\ ran'[r] = own)
    BY <2>1, <2>2
  <2> QED BY <2>3, <2>4 DEF OwnRan
<1> QED BY <1>1, <1>2, WhatIsRan

\* A block is given to the oldest request, whose own it is unless that request
\* has lost its token; and no request that is still in the pipe is the oldest.
LEMMA WhoHears ==
  ASSUME Typed, TmuxAssumption, Blocks, ~dying, InOrder, TokensCome, EndBlock
  PROVE  /\ stream # <<>> /\ stream' = Tail(stream) /\ stream[1].kind # "token"
         /\ Announced' = Announced /\ UNCHANGED <<input, alive, ran, lost, writer>>
         /\ stream[1].of = NoRequest => heard' = heard
         /\ stream[1].of # NoRequest =>
              \E f \in Elements(Announced) :
                /\ f \in Requests /\ heard' = [heard EXCEPT ![f] = Append(heard[f], stream[1])]
                /\ f \notin lost => stream[1].of = f
                /\ ~(alive /\ f \in Elements(input))
<1> DEFINE f == outstanding[1]
           q == stream[1].of
<1>1. /\ stream # <<>> /\ stream' = Tail(stream) /\ Head(stream).kind \in {"ok", "error"}
      /\ UNCHANGED <<input, alive, ran, lost, writer, outstanding, slot>>
      /\ heard' = IF open = "front" /\ Head(stream).of # NoRequest
                  THEN [heard EXCEPT ![outstanding[1]] = Append(@, Head(stream))]
                  ELSE heard
  BY DEF EndBlock, Reads, tmux, writing
<1>2. Head(stream) = stream[1] /\ 1 \in DOMAIN stream /\ heard \in [Requests -> Seq(Items)]
  BY <1>1 DEF Typed, TypeOK
<1>3. Announced' = Announced
  BY <1>1 DEF Announced
<1>4. ASSUME q # NoRequest
      PROVE  /\ f \in Elements(Announced) /\ f \in Requests
             /\ heard' = [heard EXCEPT ![f] = Append(heard[f], stream[1])]
             /\ f \notin lost => q = f
             /\ ~(alive /\ f \in Elements(input))
  <2>1. open = "front" /\ q \in Elements(outstanding)
    BY <1>1, <1>4 DEF Blocks
  <2>2. outstanding # <<>>
    BY <2>1 DEF Elements
  <2>3. /\ Announced \in Seq(Requests) /\ Announced # <<>> /\ Announced[1] = f /\ f \in Requests
        /\ q \in Elements(Announced)
    BY <2>1, <2>2, AnnouncedIs
  <2>4. Distinct(Announced)
    BY DEF InOrder, Ordered
  <2>5. /\ Announced[1] \in Elements(Announced) /\ \A r : ~Ahead(Announced, r, Announced[1])
        /\ \A p \in Elements(Announced) : p = Announced[1] \/ Ahead(Announced, Announced[1], p)
    BY <2>3, <2>4, AheadEnds
  <2>6. ASSUME f \notin lost, q # f
        PROVE  FALSE
    <3>1. Ahead(Announced, f, q)
      BY <2>3, <2>5, <2>6
    <3>2. PICK i \in DOMAIN stream : i < 1
      BY <1>2, <1>4, <2>3, <2>5, <2>6, <3>1 DEF TokensCome, Come
    <3>3. i \in Nat /\ i >= 1
      <4>1. stream \in Seq(Items)
        BY DEF Typed, TypeOK
      <4> QED BY <4>1
    <3> QED BY <3>2, <3>3
  <2>7. ASSUME alive, f \in Elements(input)
        PROVE  FALSE
    <3>1. Ahead(Announced, q, f)
      BY <1>2, <1>4, <2>7 DEF InOrder, Ordered
    <3> QED BY <3>1, <2>3, <2>5
  <2>8. heard' = [heard EXCEPT ![f] = Append(heard[f], stream[1])]
    <3>1. heard' = [heard EXCEPT ![f] = Append(@, Head(stream))]
      BY <1>1, <1>2, <1>4, <2>1
    <3> QED BY <3>1, <1>2, <2>3
  <2>9. f \in Elements(Announced)
    BY <2>3, <2>5
  <2> QED BY <2>3, <2>6, <2>7, <2>8, <2>9
<1>5. stream[1].of = NoRequest => heard' = heard
  BY <1>1, <1>2
<1> HIDE DEF f
<1> QED BY <1>1, <1>2, <1>3, <1>4, <1>5

\* Only a block changes what is heard.
LEMMA HeardOnly ==
  ASSUME Typed, [Next]_vars, ~EndBlock
  PROVE  heard' = heard
BY DEF Next, vars, WriterStep, Receive, NoMoreRequests, Announce, NotAnnounced, NobodyReads, Write,
     WriteFails, Completed, TimesOut, ReaderStep, Eof, BeginBlock, EndToken, ReadNote, Flush,
     FlushFull, Unblock, NobodyListens, TmuxStep, NotifyUI, TmuxEnds, Run, TmuxOnly, Poll, Drop,
     Send, Return, tracker

\* What a request heard is its own, after a step.
LEMMA OwnHeardStep ==
  ASSUME Typed, Typed', TmuxAssumption, Traceless, Blocks, ~dying, InOrder, TokensCome,
         OwnHeard, [Next]_vars, dying => reader # "reading"
  PROVE  OwnHeard'
<1>0. lost \subseteq lost'
  BY WhatIsAdded
<1>1. \A r \in Elements(Announced') :
        r \in Elements(Announced) \/ (Announce /\ r = writer.req)
  <2>1. CASE Announce
    <3>1. Announced' = Append(Announced, writer.req) /\ writer.req \in Requests
      BY <2>1, AnnouncedSteps
    <3>2. Announced \in Seq(Requests)
      BY AnnouncedIs
    <3> QED BY <2>1, <3>1, <3>2, AheadAppend
  <2>2. CASE ~Announce
    BY <2>2, AnnouncedSteps
  <2> QED BY <2>1, <2>2
<1>2. SUFFICES ASSUME NEW r \in Elements(Announced'), r \notin lost'
               PROVE  \A i \in DOMAIN heard'[r] : heard'[r][i].of = r
  BY DEF OwnHeard, Elements
<1>3. r \notin lost
  BY <1>0, <1>2
<1>4. CASE Announce /\ r = writer.req
  <2>1. r \in Requests /\ Early(r) /\ heard' = heard
    BY <1>4, AnnouncedSteps DEF Early, Announce, tracker
  <2>2. heard[r] = <<>>
    BY <2>1 DEF Traceless
  <2> QED BY <2>1, <2>2
<1>5. CASE r \in Elements(Announced) /\ ~EndBlock
  BY <1>3, <1>5, HeardOnly DEF OwnHeard
<1>6. CASE r \in Elements(Announced) /\ EndBlock
  <2>1. CASE stream[1].of = NoRequest
    BY <1>3, <1>6, <2>1, WhoHears DEF OwnHeard
  <2>2. CASE stream[1].of # NoRequest
    <3>1. PICK f \in Elements(Announced) :
             /\ f \in Requests /\ heard' = [heard EXCEPT ![f] = Append(heard[f], stream[1])]
             /\ f \notin lost => stream[1].of = f
      BY <1>6, <2>2, WhoHears
    <3>2. r \in Requests /\ heard \in [Requests -> Seq(Items)] /\ stream[1] \in Items
      <4>1. stream # <<>> /\ stream \in Seq(Items) /\ heard \in [Requests -> Seq(Items)]
        BY <1>6 DEF EndBlock, Reads, Typed, TypeOK
      <4> QED BY <1>6, <4>1, AnnouncedIs
    <3>3. heard[r] \in Seq(Items) /\ \A i \in DOMAIN heard[r] : heard[r][i].of = r
      BY <3>2, <1>3, <1>6 DEF OwnHeard
    <3>4. CASE r # f
      BY <3>1, <3>2, <3>3, <3>4
    <3>5. CASE r = f
      <4>1. stream[1].of = r /\ heard'[r] = Append(heard[r], stream[1])
        BY <1>3, <3>1, <3>2, <3>5
      <4> QED BY <3>2, <3>3, <4>1
    <3> QED BY <3>4, <3>5
  <2> QED BY <2>1, <2>2
<1> QED BY <1>1, <1>4, <1>5, <1>6


\* What has not run has not been heard, after a step.
LEMMA NotYetRunStep ==
  ASSUME Typed, Typed', TmuxAssumption, Traceless, InPlace, Blocks, ~dying, InOrder, TokensCome,
         NotYetRun, [Next]_vars, dying => reader # "reading"
  PROVE  NotYetRun'
<1>t. /\ input \in Seq(Requests) /\ heard \in [Requests -> Seq(Items)] /\ ran \in [Requests -> Seq(Items)]
      /\ Announced \in Seq(Requests) /\ input' \in Seq(Requests)
  BY AnnouncedIs DEF Typed, TypeOK
<1>1. SUFFICES ASSUME alive', NEW r \in Requests, r \in Elements(input') \/ Writes(r)'
               PROVE  heard'[r] = <<>> /\ ran'[r] = <<>> /\ r \notin lost'
  BY DEF NotYetRun, Elements
<1>2. alive
  BY <1>1, InputSteps
<1>d. Distinct(input) /\ Distinct(Announced)
  <2>1. Distinct(Announced) /\ \A i, j \in DOMAIN input : i < j => Ahead(Announced, input[i], input[j])
    BY <1>2 DEF InOrder, Ordered
  <2>2. \A x, y : Ahead(Announced, x, y) => x # y
    BY <1>t, <2>1, AheadEnds
  <2> QED BY <2>1, <2>2 DEF Distinct
<1>3. CASE Announce /\ r = writer.req
  <2>1. Early(r) /\ heard' = heard /\ ran' = ran /\ lost' = lost
    BY <1>3 DEF Early, Announce, tracker, tmux
  <2> QED BY <2>1 DEF Traceless
<1>4. CASE ~(Announce /\ r = writer.req)
  <2>1. Writes(r)' => Writes(r) /\ UNCHANGED writer
    <3>1. ASSUME writer'.at = "write", writer'.req = r
          PROVE  UNCHANGED writer
      <4>1. \/ UNCHANGED writer
            \/ Receive /\ writer' = [at |-> "slot", req |-> Head(requests)]
            \/ Announce /\ writer' = [at |-> "write", req |-> writer.req]
            \/ Write /\ writer' = [at |-> "wait", req |-> writer.req]
            \/ writer' \in {[at |-> "idle", req |-> NoRequest], [at |-> "ended", req |-> NoRequest]}
        BY QueueSteps
      <4> QED BY <4>1, <3>1, <1>4
    <3> QED BY <3>1 DEF Writes, WriterAt
  <2>2. r \in Elements(input') => r \in Elements(input) \/ Writes(r)
    <3>1. CASE input' = input
      BY <3>1
    <3>2. CASE Write /\ input' = Append(input, writer.req)
      <4>1. writer.req \in Requests /\ WriterAt("write")
        BY <3>2 DEF Write, InPlace, WriterAt
      <4>2. Elements(input') = Elements(input) \cup {writer.req}
        BY <3>2, <4>1, <1>t, AheadAppend
      <4> QED BY <4>1, <4>2 DEF Writes
    <3>3. CASE input # <<>> /\ input' = Tail(input)
      <4>1. Elements(Tail(input)) \subseteq Elements(input)
        BY <3>3, <1>t, TailPositions
      <4> QED BY <4>1, <3>3
    <3> QED BY <3>1, <3>2, <3>3, InputSteps
  <2>3. heard[r] = <<>> /\ ran[r] = <<>> /\ r \notin lost
    BY <1>1, <1>2, <2>1, <2>2 DEF NotYetRun
  <2>4. heard'[r] = heard[r]
    <3>1. CASE ~EndBlock
      BY <3>1, HeardOnly
    <3>2. CASE EndBlock /\ stream[1].of = NoRequest
      BY <3>2, WhoHears
    <3>3. CASE EndBlock /\ stream[1].of # NoRequest
      <4>1. PICK f \in Elements(Announced) :
                /\ f \in Requests /\ heard' = [heard EXCEPT ![f] = Append(heard[f], stream[1])]
                /\ f \notin lost => stream[1].of = f
                /\ ~(alive /\ f \in Elements(input))
        BY <3>3, WhoHears
      <4>2. r # f
        <5>1. SUFFICES ASSUME r = f
                       PROVE  FALSE
          OBVIOUS
        <5>2. stream[1].of = r /\ Writes(r) /\ 1 \in DOMAIN stream
          <6>1. stream # <<>> /\ stream \in Seq(Items)
            BY <3>3 DEF EndBlock, Reads, Typed, TypeOK
          <6>2. UNCHANGED <<input, writer>>
            BY <3>3, WhoHears
          <6> QED BY <6>1, <6>2, <4>1, <5>1, <2>3, <1>1, <1>2, <2>1, <2>2
        <5>3. r \in written \cup {NoRequest} /\ r # NoRequest
          BY <5>2, TmuxAssumption DEF InPlace, TmuxAssumption
        <5> QED BY <5>2, <5>3 DEF InPlace, Writes
      <4> QED BY <4>1, <4>2, <1>t
    <3> QED BY <3>1, <3>2, <3>3
  <2>5. ran'[r] = ran[r] /\ (r \in lost' => r \in lost)
    <3>1. CASE ran' = ran /\ lost' = lost
      BY <3>1
    <3>2. CASE /\ input # <<>> /\ input' = Tail(input) /\ writer' = writer
               /\ \E own \in Results(Head(input)) : ran' = [ran EXCEPT ![Head(input)] = own]
      <4>1. r # Head(input)
        <5>1. /\ Head(input) \in Elements(input)
              /\ Elements(Tail(input)) \subseteq Elements(input) \ {Head(input)}
          BY <3>2, <1>t, <1>d, HeadTail
        <5>2. Writes(r) => r \notin Elements(input)
          BY DEF InPlace, Writes
        <5>3. r \in Elements(Tail(input)) \/ Writes(r)
          BY <1>1, <2>1, <3>2
        <5> QED BY <5>1, <5>2, <5>3
      <4>2. r \in lost' => r \in lost
        BY <4>1, WhatIsAdded
      <4> QED BY <3>2, <4>1, <4>2, <1>t
    <3> QED BY <1>1, <3>1, <3>2, WhatIsRan
  <2> QED BY <2>3, <2>4, <2>5
<1> QED BY <1>3, <1>4


\* When the head of the stream is not of the token's request.
LEMMA CountedPop ==
  ASSUME NEW s \in Seq(Items), s # <<>>, NEW t \in Nat, t >= 1, t + 1 \in DOMAIN s,
         NEW hd \in Seq(Items), NEW rn \in Seq(Items), Counted(s, t + 1, hd, rn),
         s[1].of # s[t + 1].of, \A i \in DOMAIN rn : rn[i].of = s[t + 1].of
  PROVE  Counted(Tail(s), t, hd, rn)
<1> DEFINE u    == Tail(s)
           left == Len(rn) - Len(hd)
           v    == t + 1
<1>1. /\ \A i \in DOMAIN u : i \in Nat /\ i >= 1 /\ i + 1 \in DOMAIN s /\ u[i] = s[i + 1]
      /\ \A i \in DOMAIN s : i \in Nat /\ (i = 1 \/ (i - 1 \in DOMAIN u /\ u[i - 1] = s[i]))
  BY TailPositions
<1>2. /\ left \in Nat /\ v - 2 * left >= 1
      /\ \A m \in DOMAIN hd : hd[m] = rn[m]
      /\ \A k \in 1..left : s[v - 2 * k] = rn[Len(rn) + 1 - k]
      /\ \A i \in DOMAIN s : s[i].of = s[v].of => \E k \in 0..left : i = v - 2 * k
  BY DEF Counted
<1>3. /\ Len(rn) \in Nat /\ Len(hd) \in Nat /\ DOMAIN rn = 1..Len(rn) /\ DOMAIN s = 1..Len(s) /\ Len(s) \in Nat
      /\ v \in Nat /\ v >= 2 /\ v - 1 = t /\ v = t + 1 /\ Len(rn) = left + Len(hd)
      /\ DOMAIN hd = 1..Len(hd)
  <2>1. /\ Len(rn) \in Nat /\ DOMAIN rn = 1..Len(rn)
        /\ Len(hd) \in Nat /\ DOMAIN hd = 1..Len(hd)
    OBVIOUS
  <2>2. DOMAIN s = 1..Len(s) /\ Len(s) \in Nat
    OBVIOUS
  <2>3. v \in Nat /\ v >= 2 /\ v - 1 = t /\ v = t + 1
    OBVIOUS
  <2>4. Len(rn) = left + Len(hd)
    BY <2>1
  <2> QED BY <2>1, <2>2, <2>3, <2>4
<1> HIDE DEF u, left, v
<1>4. \A k \in 1..left : /\ Len(rn) + 1 - k \in DOMAIN rn /\ v - 2 * k \in DOMAIN s
                         /\ v - 2 * k # 1
  <2>1. ASSUME NEW k \in 1..left
        PROVE  /\ Len(rn) + 1 - k \in DOMAIN rn /\ v - 2 * k \in DOMAIN s /\ v - 2 * k # 1
    <3>1. k \in Nat /\ k >= 1 /\ k =< left /\ Len(rn) + 1 - k \in 1..Len(rn) /\ v - 2 * k \in 1..Len(s)
      BY <1>2, <1>3
    <3>0. rn[Len(rn) + 1 - k] = s[v - 2 * k]
      BY <1>2
    <3>2. s[v - 2 * k].of = s[v].of
      BY <3>0, <3>1, <1>3
    <3> QED BY <3>1, <3>2, <1>3
  <2> QED BY <2>1
<1>5. t - 2 * left >= 1
  <2>1. CASE left = 0
    BY <2>1
  <2>2. CASE left >= 1
    <3>1. left \in 1..left /\ left \in Nat
      BY <2>2, <1>2
    <3>2. v - 2 * left # 1 /\ v - 2 * left >= 1
      BY <3>1, <1>2, <1>4
    <3> QED BY <3>1, <3>2, <1>3
  <2> QED BY <2>1, <2>2, <1>2
<1>6. \A k \in 0..left : v - 2 * k \in DOMAIN s /\ v - 2 * k # 1 /\ t - 2 * k = v - 2 * k - 1
  <2>1. ASSUME NEW k \in 0..left
        PROVE  v - 2 * k \in DOMAIN s /\ v - 2 * k # 1 /\ t - 2 * k = v - 2 * k - 1
    <3>1. CASE k = 0
      BY <3>1, <1>3
    <3>2. CASE k \in 1..left
      BY <3>2, <1>3, <1>4
    <3> QED BY <3>1, <3>2, <1>2
  <2> QED BY <2>1
<1>7. \A k \in 0..left : u[t - 2 * k] = s[v - 2 * k]
  BY <1>1, <1>6
<1>8. \A k \in 1..left : u[t - 2 * k] = rn[Len(rn) + 1 - k]
  BY <1>2, <1>7
<1>9. ASSUME NEW i \in DOMAIN u, u[i].of = u[t].of
      PROVE  \E k \in 0..left : i = t - 2 * k
  <2>1. u[t] = s[v]
    BY <1>1, <1>3
  <2>2. i + 1 \in DOMAIN s /\ s[i + 1].of = s[v].of /\ i \in Nat
    BY <2>1, <1>1, <1>9
  <2>3. PICK k \in 0..left : i + 1 = v - 2 * k
    BY <2>2, <1>2
  <2>4. k \in Nat /\ 2 * k \in Nat
    BY <1>2
  <2>5. i + 1 = t + 1 - 2 * k
    BY <2>3, <1>3
  <2>6. i = t - 2 * k
    BY <2>2, <2>4, <2>5
  <2> QED BY <2>6
<1> QED BY <1>2, <1>5, <1>8, <1>9 DEF Counted, u, left, v

\* Of a position counted back.
LEMMA OneLess ==
  ASSUME NEW i \in Nat, NEW t \in Nat, NEW k \in Nat, i + 1 = t + 1 - 2 * k
  PROVE  i = t - 2 * k
OBVIOUS

\* When it is one of that request's blocks, which it hears.
LEMMA CountedHear ==
  ASSUME NEW s \in Seq(Items), s # <<>>, NEW t \in Nat, t >= 1, t + 1 \in DOMAIN s,
         NEW hd \in Seq(Items), NEW rn \in Seq(Items), Counted(s, t + 1, hd, rn),
         s[1].of = s[t + 1].of, NEW h, h = Append(hd, s[1])
  PROVE  Counted(Tail(s), t, h, rn)
<1> DEFINE u    == Tail(s)
           left == Len(rn) - Len(hd)
           v    == t + 1
<1>1. /\ \A i \in DOMAIN u : i \in Nat /\ i >= 1 /\ i + 1 \in DOMAIN s /\ u[i] = s[i + 1]
      /\ \A i \in DOMAIN s : i \in Nat /\ (i = 1 \/ (i - 1 \in DOMAIN u /\ u[i - 1] = s[i]))
      /\ 1 \in DOMAIN s
  BY TailPositions
<1>2. /\ left \in Nat /\ v - 2 * left >= 1
      /\ \A m \in DOMAIN hd : hd[m] = rn[m]
      /\ \A k \in 1..left : s[v - 2 * k] = rn[Len(rn) + 1 - k]
      /\ \A i \in DOMAIN s : s[i].of = s[v].of => \E k \in 0..left : i = v - 2 * k
  BY DEF Counted
<1>3. /\ Len(rn) \in Nat /\ Len(hd) \in Nat /\ DOMAIN rn = 1..Len(rn) /\ DOMAIN s = 1..Len(s) /\ Len(s) \in Nat
      /\ v \in Nat /\ v >= 2 /\ v - 1 = t /\ v = t + 1 /\ Len(rn) = left + Len(hd)
      /\ DOMAIN hd = 1..Len(hd)
  <2>1. /\ Len(rn) \in Nat /\ DOMAIN rn = 1..Len(rn)
        /\ Len(hd) \in Nat /\ DOMAIN hd = 1..Len(hd)
    OBVIOUS
  <2>2. DOMAIN s = 1..Len(s) /\ Len(s) \in Nat
    OBVIOUS
  <2>3. v \in Nat /\ v >= 2 /\ v - 1 = t /\ v = t + 1
    OBVIOUS
  <2>4. Len(rn) = left + Len(hd)
    BY <2>1
  <2> QED BY <2>1, <2>2, <2>3, <2>4
<1>4. /\ Len(h) = Len(hd) + 1 /\ DOMAIN h = 1..Len(h) /\ h[Len(hd) + 1] = s[1]
      /\ \A m \in 1..Len(hd) : h[m] = hd[m]
  <2>1. s[1] \in Items
    BY <1>1
  <2> QED BY <2>1
<1> HIDE DEF u, left, v
<1>5. left >= 1 /\ v - 2 * left = 1 /\ s[1] = rn[Len(hd) + 1]
  <2>1. PICK k \in 0..left : 1 = v - 2 * k
    BY <1>1, <1>2, <1>3
  <2>2. k = left /\ left >= 1
    BY <2>1, <1>2, <1>3
  <2>3. s[v - 2 * left] = rn[Len(rn) + 1 - left]
    BY <2>2, <1>2
  <2>4. Len(rn) + 1 - left = Len(hd) + 1
    BY <1>2, <1>3
  <2> QED BY <2>1, <2>2, <2>3, <2>4
<1> DEFINE less == Len(rn) - Len(h)
<1>6. less = left - 1 /\ less \in Nat /\ t - 2 * less = 2
  BY <1>2, <1>3, <1>4, <1>5
<1> HIDE DEF less
<1>7. \A m \in DOMAIN h : h[m] = rn[m]
  <2>1. ASSUME NEW m \in 1..Len(hd) + 1
        PROVE  h[m] = rn[m]
    <3>1. CASE m \in 1..Len(hd)
      BY <3>1, <1>2, <1>3, <1>4
    <3>2. CASE m = Len(hd) + 1
      BY <3>2, <1>4, <1>5
    <3> QED BY <3>1, <3>2, <1>3
  <2> QED BY <2>1, <1>4
<1>8. \A k \in 0..less : v - 2 * k \in DOMAIN s /\ v - 2 * k # 1 /\ t - 2 * k = v - 2 * k - 1
                         /\ k \in 0..left
  BY <1>2, <1>3, <1>5, <1>6
<1>9. \A k \in 1..less : u[t - 2 * k] = rn[Len(rn) + 1 - k]
  BY <1>1, <1>2, <1>6, <1>8
<1>10. ASSUME NEW i \in DOMAIN u, u[i].of = u[t].of
       PROVE  \E k \in 0..less : i = t - 2 * k
  <2>1. u[t] = s[v]
    BY <1>1, <1>3
  <2>2. i + 1 \in DOMAIN s /\ s[i + 1].of = s[v].of /\ i \in Nat /\ i >= 1
    BY <2>1, <1>1, <1>10
  <2>3. PICK k \in 0..left : i + 1 = v - 2 * k
    BY <2>2, <1>2
  <2>4. k # left
    BY <2>2, <2>3, <1>5
  <2>5. k \in 0..less
    BY <2>4, <1>2, <1>6
  <2>6. k \in Nat /\ 2 * k \in Nat
    BY <1>2
  <2>7. i + 1 = t + 1 - 2 * k
    BY <2>3, <1>3
  <2>8. i = t - 2 * k
    BY <2>2, <2>6, <2>7, OneLess
  <2> QED BY <2>5, <2>8
<1>11. t - 2 * less >= 1
  BY <1>6
<1> QED BY <1>6, <1>7, <1>9, <1>10, <1>11 DEF Counted, u, less

\* When tmux writes for other requests.
LEMMA CountedGrown ==
  ASSUME NEW s \in Seq(Items), NEW t \in DOMAIN s, s[t].kind = "token",
         NEW hd \in Seq(Items), NEW rn \in Seq(Items), Counted(s, t, hd, rn),
         NEW x, NEW rs, Adds(x, rs), NEW u, Extends(s, x, u), s[t].of \notin rs
  PROVE  Counted(u, t, hd, rn)
<1> DEFINE left == Len(rn) - Len(hd)
<1>1. /\ left \in Nat /\ t - 2 * left >= 1
      /\ \A m \in DOMAIN hd : hd[m] = rn[m]
      /\ \A k \in 1..left : s[t - 2 * k] = rn[Len(rn) + 1 - k]
      /\ \A i \in DOMAIN s : s[i].of = s[t].of => \E k \in 0..left : i = t - 2 * k
  BY DEF Counted
<1>2. /\ Len(s) \in Nat /\ DOMAIN s = 1..Len(s) /\ t \in 1..Len(s)
  OBVIOUS
<1>3. \A i \in DOMAIN s : u[i] = s[i]
  BY DEF Extends
<1> HIDE DEF left
<1>4. ASSUME NEW k \in 1..left
      PROVE  t - 2 * k \in DOMAIN s
  <2>1. k \in Nat /\ k >= 1 /\ k =< left
    BY <1>1
  <2>2. left \in Nat /\ t - 2 * left >= 1
    BY <1>1
  <2>3. t - 2 * k >= 1 /\ t - 2 * k =< t /\ t - 2 * k \in Nat
    BY <2>1, <2>2, <1>2
  <2> QED BY <2>3, <1>2
<1>5. ASSUME NEW k \in 1..left
      PROVE  u[t - 2 * k] = rn[Len(rn) + 1 - k]
  <2> DEFINE j == t - 2 * k
  <2>1. j \in DOMAIN s /\ s[j] = rn[Len(rn) + 1 - k]
    BY <1>1, <1>4
  <2> HIDE DEF j
  <2>2. u[j] = s[j]
    BY <1>3, <2>1
  <2> QED BY <2>1, <2>2 DEF j
<1>6. ASSUME NEW i \in DOMAIN u, u[i].of = u[t].of
      PROVE  \E k \in 0..left : i = t - 2 * k
  <2>1. u[t] = s[t] /\ s[t].of # NoRequest
    BY <1>3 DEF Extends
  <2>2. CASE i \in DOMAIN s
    BY <1>1, <1>3, <1>6, <2>1, <2>2
  <2>3. CASE i - Len(s) \in DOMAIN x /\ u[i] = x[i - Len(s)]
    BY <2>1, <2>3, <1>6 DEF Adds
  <2> QED BY <2>2, <2>3 DEF Extends
<1> QED BY <1>1, <1>5, <1>6 DEF Counted, left

\* A request that is run has its blocks, and its token, at the end.
LEMMA CountedToken ==
  ASSUME NEW s \in Seq(Items), NEW r \in Requests, TmuxAssumption, \A i \in DOMAIN s : s[i].of # r,
         NEW own \in Results(r), NEW x, x = Written(Append(own, Item("token", r))),
         NEW u, Extends(s, x, u)
  PROVE  Counted(u, Len(s) + Len(x), <<>>, own)
<1> DEFINE o == Append(own, Item("token", r))
           L == Len(own)
           p == Len(s) + Len(x)
           hd == <<>>
           left == Len(own) - Len(hd)
<1>1. own \in Seq(Items) /\ L \in Nat
  BY ResultsTyped
<1>2. Item("token", r) \in Items
  BY DEF Items, Item
<1>3. /\ o \in Seq(Items) /\ Len(o) = L + 1 /\ DOMAIN o = 1..L + 1
      /\ \A k \in 1..L : o[k] = own[k]
      /\ o[L + 1] = Item("token", r)
  BY <1>1, <1>2
<1>o. x = Written(o)
  OBVIOUS
<1>h. Len(hd) = 0 /\ DOMAIN hd = {}
  OBVIOUS
<1> HIDE DEF o, hd
<1>4. /\ Written(o) \in Seq(Items)
      /\ Len(Written(o)) = 2 * Len(o)
      /\ \A i \in DOMAIN Written(o) :
           \/ Written(o)[i] = Bare("begin")
           \/ \E k \in DOMAIN o :
                i = 2 * k /\ Written(o)[i] = o[k] /\ Written(o)[i - 1] = Bare("begin")
      /\ \A k \in DOMAIN o : Written(o)[2 * k] = o[k]
  BY <1>3, WrittenTyped
<1>5. /\ Len(x) = 2 * (L + 1) /\ DOMAIN x = 1..2 * (L + 1)
      /\ \A i \in DOMAIN x : x[i] = Bare("begin") \/ \E k \in 1..L + 1 : i = 2 * k
      /\ \A k \in 1..L + 1 : x[2 * k] = o[k]
  <2>1. x \in Seq(Items) /\ Len(x) = 2 * (L + 1)
    BY <1>3, <1>4, <1>o
  <2>2. DOMAIN x = 1..Len(x)
    BY <2>1
  <2>3. \A i \in DOMAIN x : x[i] = Bare("begin") \/ \E k \in DOMAIN o : i = 2 * k
    BY <1>4, <1>o
  <2>4. \A k \in DOMAIN o : x[2 * k] = o[k]
    BY <1>4, <1>o
  <2> QED BY <2>1, <2>2, <2>3, <2>4, <1>3
<1>6. Len(s) \in Nat /\ DOMAIN s = 1..Len(s)
  OBVIOUS
<1>7. left = L /\ p - 2 * left >= 1
  BY <1>1, <1>5, <1>6, <1>h
<1>8. \A k \in 1..L + 1 : 2 * k \in DOMAIN x /\ u[Len(s) + 2 * k] = o[k]
  <2>1. \A k \in 1..L + 1 : 2 * k \in DOMAIN x
    BY <1>1, <1>5
  <2> QED BY <2>1, <1>5 DEF Extends
<1>9. \A k \in 1..L : u[p - 2 * k] = own[Len(own) + 1 - k]
  <2>1. ASSUME NEW k \in 1..L
        PROVE  u[p - 2 * k] = own[L + 1 - k]
    <3>1. L + 1 - k \in 1..L /\ L + 1 - k \in 1..L + 1 /\ p - 2 * k = Len(s) + 2 * (L + 1 - k)
      BY <1>1, <1>5, <1>6
    <3> QED BY <3>1, <1>3, <1>8
  <2> QED BY <2>1
<1>10. ASSUME NEW i \in DOMAIN u, u[i].of = u[p].of
       PROVE  \E k \in 0..left : i = p - 2 * k
  <2>1. u[p].of = r /\ r # NoRequest
    <3>1. L + 1 \in 1..L + 1 /\ p = Len(s) + 2 * (L + 1)
      BY <1>1, <1>5
    <3>2. Item("token", r).of = r
      BY DEF Item
    <3> QED BY <3>1, <3>2, <1>3, <1>8, TmuxAssumption DEF TmuxAssumption
  <2>2. CASE i \in DOMAIN s /\ u[i] = s[i]
    BY <2>1, <2>2, <1>10
  <2>3. CASE i > Len(s) /\ i - Len(s) \in DOMAIN x /\ u[i] = x[i - Len(s)]
    <3>1. Bare("begin").of = NoRequest
      BY DEF Bare, Item
    <3>2. PICK k \in 1..L + 1 : i - Len(s) = 2 * k
      BY <2>1, <2>3, <3>1, <1>5, <1>10
    <3>3. i \in Nat
      <4>1. u \in Seq(Items)
        BY DEF Extends
      <4> QED BY <4>1
    <3>4. i = Len(s) + 2 * k
      BY <3>2, <3>3, <1>6
    <3>5. p = Len(s) + 2 * (L + 1)
      BY <1>5
    <3>6. L + 1 - k \in 0..left
      BY <1>1, <1>7
    <3>7. Len(s) + 2 * k = (Len(s) + 2 * (L + 1)) - 2 * (L + 1 - k)
      BY <1>1, <1>6
    <3> QED BY <3>4, <3>5, <3>6, <3>7
  <2> QED BY <2>2, <2>3 DEF Extends
<1>11. /\ left \in Nat /\ p - 2 * left >= 1 /\ \A m \in DOMAIN hd : hd[m] = own[m]
       /\ \A k \in 1..left : u[p - 2 * k] = own[Len(own) + 1 - k]
       /\ \A i \in DOMAIN u : u[i].of = u[p].of => \E k \in 0..left : i = p - 2 * k
  BY <1>1, <1>7, <1>9, <1>10, <1>h
<1>12. Counted(u, p, hd, own)
  BY <1>11 DEF Counted
<1> QED BY <1>12 DEF hd


\* The token of the head is not in what is left of the stream, and nor is that
\* of a request of which the head is not.
LEMMA MissedPop ==
  ASSUME Typed, OwnRan, lost = {}, NothingMissed, stream # <<>>,
         NEW t \in DOMAIN Tail(stream), Tail(stream)[t].kind = "token",
         stream[1].of # Tail(stream)[t].of, Blocks
  PROVE  LET r == Tail(stream)[t].of
         IN  Counted(Tail(stream), t, heard[r], ran[r])
<1> DEFINE r == Tail(stream)[t].of
<1>1. stream \in Seq(Items) /\ heard \in [Requests -> Seq(Items)] /\ ran \in [Requests -> Seq(Items)]
  BY DEF Typed, TypeOK
<1>2. t \in Nat /\ t >= 1 /\ t + 1 \in DOMAIN stream /\ Tail(stream)[t] = stream[t + 1]
  BY <1>1, TailPositions
<1>3. stream[t + 1].kind = "token" /\ stream[t + 1].of = r /\ r \in Requests
  BY <1>2 DEF Blocks
<1>4. Counted(stream, t + 1, heard[r], ran[r])
  BY <1>2, <1>3 DEF NothingMissed
<1>5. heard[r] \in Seq(Items) /\ ran[r] \in Seq(Items) /\ \A i \in DOMAIN ran[r] : ran[r][i].of = stream[t + 1].of
  BY <1>1, <1>3 DEF OwnRan
<1>6. stream[1].of # stream[t + 1].of
  BY <1>2
<1> HIDE DEF r
<1>7. Counted(Tail(stream), t, heard[r], ran[r])
  BY <1>1, <1>2, <1>4, <1>5, <1>6, CountedPop
<1> QED BY <1>7 DEF r

\* While no token is lost nothing is missed, after a step.
LEMMA NothingMissedStep ==
  ASSUME Typed, Typed', TmuxAssumption, InPlace, Blocks, ~dying, InOrder, TokensCome, HeardOwn,
         [Next]_vars, ~dying', dying => reader # "reading"
  PROVE  NothingMissed'
<1>t. /\ stream \in Seq(Items) /\ heard \in [Requests -> Seq(Items)] /\ ran \in [Requests -> Seq(Items)]
      /\ stream' \in Seq(Items) /\ input \in Seq(Requests) /\ Announced \in Seq(Requests)
  BY AnnouncedIs DEF Typed, TypeOK
<1>h. OwnRan /\ NotYetRun /\ NothingMissed
  BY DEF HeardOwn
<1>1. SUFFICES ASSUME lost' = {}, NEW t \in DOMAIN stream', stream'[t].kind = "token"
               PROVE  Counted(stream', t, heard'[stream'[t].of], ran'[stream'[t].of])
  BY DEF NothingMissed, Counted
<1>2. lost = {}
  BY <1>1, WhatIsAdded
<1>3. CASE UNCHANGED <<stream, heard, ran>>
  BY <1>1, <1>2, <1>3, <1>h DEF NothingMissed
<1>4. CASE Announce \/ Write \/ Quiet
  <2>1. UNCHANGED <<stream, heard, ran>>
    BY <1>4 DEF Announce, Write, Quiet, tmux, tracker
  <2> QED BY <1>3, <2>1
<1>5. CASE BeginBlock \/ ReadNote
  <2>1. stream # <<>> /\ stream' = Tail(stream) /\ UNCHANGED <<heard, ran>>
        /\ Head(stream).kind \in {"begin", "output", "refresh", "flood"}
    BY <1>5 DEF BeginBlock, ReadNote, Reads, tmux, tracker
  <2>2. stream[1].of = NoRequest
    BY <2>1, <1>t DEF Blocks
  <2>3. stream'[t].of \in Requests
    <3>1. t + 1 \in DOMAIN stream /\ Tail(stream)[t] = stream[t + 1]
      BY <1>1, <1>t, <2>1, TailPositions
    <3> QED BY <3>1, <2>1, <1>1 DEF Blocks
  <2>4. stream[1].of # Tail(stream)[t].of
    BY <2>1, <2>2, <2>3, TmuxAssumption DEF TmuxAssumption
  <2> QED BY <2>1, <2>4, <1>1, <1>2, <1>h, MissedPop
<1>6. CASE EndToken
  <2>1. stream # <<>> /\ stream' = Tail(stream) /\ UNCHANGED <<heard, ran>>
        /\ stream[1].kind = "token" /\ 1 \in DOMAIN stream
    BY <1>6, <1>t DEF EndToken, Reads, tmux
  <2>2. t + 1 \in DOMAIN stream /\ Tail(stream)[t] = stream[t + 1] /\ t \in Nat /\ t >= 1
    BY <1>1, <1>t, <2>1, TailPositions
  <2>3. stream[t + 1].of # stream[1].of
    <3>1. 1 < t + 1
      BY <2>2
    <3> QED BY <3>1, <2>1, <2>2 DEF InOrder, Ordered
  <2>4. stream[1].of # Tail(stream)[t].of
    BY <2>2, <2>3
  <2> QED BY <2>1, <2>4, <1>1, <1>2, <1>h, MissedPop
<1>7. CASE EndBlock
  <2>1. stream # <<>> /\ stream' = Tail(stream) /\ ran' = ran
    BY <1>7, WhoHears
  <2>2. /\ t + 1 \in DOMAIN stream /\ Tail(stream)[t] = stream[t + 1] /\ t \in Nat /\ t >= 1
        /\ stream[t + 1].of \in Requests
    <3>1. t + 1 \in DOMAIN stream /\ Tail(stream)[t] = stream[t + 1] /\ t \in Nat /\ t >= 1
      BY <1>1, <1>t, <2>1, TailPositions
    <3> QED BY <3>1, <2>1, <1>1 DEF Blocks
  <2> DEFINE r == stream[t + 1].of
  <2>3. CASE stream[1].of = NoRequest
    <3>1. stream[1].of # Tail(stream)[t].of
      BY <2>2, <2>3, TmuxAssumption DEF TmuxAssumption
    <3>2. heard' = heard
      BY <1>7, <2>3, WhoHears
    <3> QED BY <2>1, <3>1, <3>2, <1>1, <1>2, <1>h, MissedPop
  <2>4. CASE stream[1].of # NoRequest
    <3>1. PICK f \in Elements(Announced) :
            /\ f \in Requests /\ heard' = [heard EXCEPT ![f] = Append(heard[f], stream[1])]
            /\ f \notin lost => stream[1].of = f
      BY <1>7, <2>4, WhoHears
    <3>2. stream[1].of = f
      BY <3>1, <1>2
    <3>3. CASE f # r
      <4>1. heard'[r] = heard[r] /\ stream[1].of # Tail(stream)[t].of
        BY <3>1, <3>2, <3>3, <2>2, <1>t
      <4>2. Counted(Tail(stream), t, heard[Tail(stream)[t].of], ran[Tail(stream)[t].of])
        BY <2>1, <4>1, <1>1, <1>2, <1>h, MissedPop
      <4> QED BY <2>1, <2>2, <4>1, <4>2
    <3>4. CASE f = r
      <4>1. heard'[r] = Append(heard[r], stream[1])
        BY <3>1, <3>4, <1>t
      <4>2. Counted(stream, t + 1, heard[r], ran[r])
        BY <1>1, <1>2, <1>h, <2>1, <2>2 DEF NothingMissed
      <4>3. stream[1].of = stream[t + 1].of /\ heard[r] \in Seq(Items) /\ ran[r] \in Seq(Items)
        BY <3>2, <3>4, <2>2, <1>t
      <4>4. Counted(Tail(stream), t, heard'[r], ran[r])
        BY <1>t, <2>1, <2>2, <4>1, <4>2, <4>3, CountedHear
      <4> QED BY <2>1, <2>2, <4>4
    <3> QED BY <3>3, <3>4
  <2> QED BY <2>3, <2>4
<1>8. ASSUME NEW x, NEW rs, Grown(x, rs)
      PROVE  Counted(stream', t, heard'[stream'[t].of], ran'[stream'[t].of])
  <2>1. Extends(stream, x, stream') /\ Takes(input, alive, rs, input', alive') /\ Adds(x, rs) /\ heard' = heard
    BY <1>8, GrownExtends DEF Grown
  <2>2. CASE t \in DOMAIN stream
    <3> DEFINE r == stream[t].of
    <3>1. stream'[t] = stream[t] /\ stream[t].kind = "token" /\ r \in Requests /\ r # NoRequest
      BY <1>1, <2>1, <2>2, TmuxAssumption DEF Extends, Blocks, TmuxAssumption
    <3>2. r \notin rs
      <4>1. SUFFICES ASSUME alive, input # <<>>, r = Head(input)
                     PROVE  FALSE
        BY <1>8 DEF Grown
      <4>2. Head(input) \in Elements(input)
        BY <4>1, <1>t DEF Elements
      <4>3. Ahead(Announced, r, r)
        BY <2>2, <3>1, <4>1, <4>2 DEF InOrder, Ordered
      <4>4. Distinct(Announced)
        BY DEF InOrder, Ordered
      <4> QED BY <4>3, <4>4, <1>t, AheadEnds
    <3>3. ran'[r] = ran[r]
      <4>1. CASE UNCHANGED ran
        BY <4>1
      <4>2. CASE \A q \in Requests \ rs : ran'[q] = ran[q]
        BY <3>1, <3>2, <4>2
      <4>3. ASSUME rs # {}, NEW own, Ran(own, x)
            PROVE  ran'[r] = ran[r]
        <5>1. rs = {Head(input)} /\ ran' = [ran EXCEPT ![Head(input)] = own]
          BY <4>3, <1>8 DEF Grown, Ran
        <5> QED BY <5>1, <3>1, <3>2, <1>t
      <4> QED BY <4>1, <4>2, <4>3, <1>8 DEF Grown
    <3>4. Counted(stream, t, heard[r], ran[r])
      BY <3>1, <2>2, <1>2, <1>h DEF NothingMissed
    <3>5. heard[r] \in Seq(Items) /\ ran[r] \in Seq(Items)
      BY <3>1, <1>t
    <3>6. Counted(stream', t, heard[r], ran[r])
      BY <1>t, <2>1, <2>2, <3>1, <3>2, <3>4, <3>5, CountedGrown
    <3> QED BY <3>1, <3>3, <3>6, <2>1
  <2>3. CASE t > Len(stream) /\ t - Len(stream) \in DOMAIN x /\ stream'[t] = x[t - Len(stream)]
    <3> DEFINE r == Head(input)
               i == t - Len(stream)
    <3>1. /\ i = Len(x) /\ x[i] = Item("token", r) /\ rs # {}
          /\ \E own \in Results(r) : Ran(own, x) /\ x = Written(Append(own, Item("token", r)))
      BY <1>1, <1>8, <2>3, TokenLast
    <3>2. PICK own \in Results(r) : Ran(own, x) /\ x = Written(Append(own, Item("token", r)))
      BY <3>1
    <3>3. alive /\ input # <<>> /\ r \in Elements(input) /\ r \in Requests /\ r # NoRequest
      <4>1. alive /\ input # <<>>
        BY <3>1, <1>8 DEF Grown
      <4>2. Head(input) \in Elements(input) /\ Head(input) \in Requests
        BY <4>1, <1>t DEF Elements
      <4> QED BY <4>1, <4>2, TmuxAssumption DEF TmuxAssumption
    <3>4. stream'[t].of = r
      BY <2>3, <3>1 DEF Item
    <3>5. heard[r] = <<>>
      BY <3>3, <1>h DEF NotYetRun
    <3>6. ran'[r] = own
      BY <3>2, <3>3, <1>t DEF Ran
    <3>7. t = Len(stream) + Len(x)
      <4>1. t \in Nat /\ Len(stream) \in Nat
        BY <1>1, <1>t
      <4> QED BY <3>1, <4>1
    <3>8. \A j \in DOMAIN stream : stream[j].of # r
      <4>1. SUFFICES ASSUME NEW j \in DOMAIN stream, stream[j].of = r
                     PROVE  FALSE
        OBVIOUS
      <4>3. Ahead(Announced, r, r)
        BY <3>3, <4>1 DEF InOrder, Ordered
      <4>4. Distinct(Announced)
        BY DEF InOrder, Ordered
      <4> QED BY <4>3, <4>4, <1>t, AheadEnds
    <3> HIDE DEF r
    <3>9. Counted(stream', Len(stream) + Len(x), <<>>, own)
      BY <1>t, <2>1, <3>2, <3>3, <3>8, TmuxAssumption, CountedToken
    <3> QED BY <2>1, <3>4, <3>5, <3>6, <3>7, <3>9
  <2> QED BY <1>1, <2>1, <2>2, <2>3 DEF Extends
<1> QED BY <1>4, <1>5, <1>6, <1>7, <1>8, OrderSteps


-----------------------------------------------------------------------------
(* Answers.                                                                *)

\* What the token's request has heard when it comes.
LEMMA TokenAnswers ==
  ASSUME Typed, Typed', TmuxAssumption, InPlace, Blocks, ~dying, InOrder, TokensCome, HeardOwn,
         [Next]_vars, EndToken
  PROVE  LET r == Head(stream).of
         IN  /\ r \notin Elements(Announced') /\ ~(alive' /\ r \in Elements(input'))
             /\ \A i \in DOMAIN heard'[r] : heard'[r][i].of = r
             /\ lost' = {} => heard'[r] = ran'[r]
             /\ r \in Requests /\ heard' = heard
<1> DEFINE r == Head(stream).of
           n == TokenAt(r)
<1>1. /\ r \in Requests /\ Head(stream) = stream[1] /\ stream # <<>> /\ 1 \in DOMAIN stream
      /\ Head(stream).kind = "token" /\ stream' = Tail(stream)
      /\ n \in DOMAIN Announced /\ Announced[n] = r
      /\ Announced' = Behind(Announced, n)
      /\ UNCHANGED <<input, alive, ran, lost, heard>>
  BY TokenTaken
<1> HIDE DEF n
<1>t. /\ Announced \in Seq(Requests) /\ Distinct(Announced)
      /\ heard \in [Requests -> Seq(Items)] /\ ran \in [Requests -> Seq(Items)]
  BY AnnouncedIs DEF Typed, TypeOK, InOrder, Ordered
<1>2. r \notin Elements(Announced')
  <2>1. Announced[n] \notin Elements(Announced') \/ n < n
    BY <1>1, <1>t, AheadSuffix
  <2>2. n \in Nat
    BY <1>1, <1>t
  <2> QED BY <2>1, <2>2, <1>1
<1>3. ~(alive /\ r \in Elements(input))
  <2>1. SUFFICES ASSUME alive, r \in Elements(input)
                 PROVE  FALSE
    OBVIOUS
  <2>2. r # NoRequest
    BY <1>1, TmuxAssumption DEF TmuxAssumption
  <2>3. Ahead(Announced, r, r)
    BY <2>1, <2>2, <1>1 DEF InOrder, Ordered
  <2> QED BY <2>3, <1>t, AheadEnds
<1>4. \A i \in DOMAIN heard[r] : heard[r][i].of = r
  <2>1. r \notin lost
    BY <1>1 DEF TokensCome, Come
  <2>2. r \in Elements(Announced)
    BY <1>1 DEF Elements
  <2> QED BY <2>1, <2>2 DEF HeardOwn, OwnHeard
<1>5. ASSUME lost = {}
      PROVE  heard[r] = ran[r]
  <2> DEFINE hd == heard[r]
             rn == ran[r]
             left == Len(rn) - Len(hd)
  <2>0. hd \in Seq(Items) /\ rn \in Seq(Items)
    BY <1>1, <1>t
  <2>1. Counted(stream, 1, hd, rn)
    BY <1>1, <1>5 DEF HeardOwn, NothingMissed
  <2> HIDE DEF hd, rn
  <2>2. left \in Nat /\ 1 - 2 * left >= 1 /\ \A m \in DOMAIN hd : hd[m] = rn[m]
    BY <2>1 DEF Counted
  <2>3. left = 0
    BY <2>2
  <2>4. Len(rn) = Len(hd)
    BY <2>0, <2>3
  <2>5. hd = rn
    BY <2>0, <2>2, <2>4
  <2> QED BY <2>5 DEF hd, rn
<1>6. r \in Requests /\ heard' = heard
  BY <1>1
<1> HIDE DEF r
<1>7. /\ r \notin Elements(Announced') /\ ~(alive' /\ r \in Elements(input'))
      /\ \A i \in DOMAIN heard'[r] : heard'[r][i].of = r
      /\ lost' = {} => heard'[r] = ran'[r]
  BY <1>1, <1>2, <1>3, <1>4, <1>5
<1> QED BY <1>6, <1>7 DEF r


\* The requests that are announced, and those in the pipe, are those before, the
\* one that is announced, which was early, and the one that is written.
LEMMA WhoIsKnown ==
  ASSUME Typed, Typed', TmuxAssumption, [Next]_vars, NEW r \in Requests
  PROVE  /\ r \in Elements(Announced') => r \in Elements(Announced) \/ (Announce /\ Early(r))
         /\ alive' /\ r \in Elements(input') => alive /\ (r \in Elements(input) \/ (Write /\ Writes(r)))
<1>t. Announced \in Seq(Requests) /\ input \in Seq(Requests)
  BY AnnouncedIs DEF Typed, TypeOK
<1>1. r \in Elements(Announced') => r \in Elements(Announced) \/ (Announce /\ Early(r))
  <2>1. CASE Announce
    <3>1. Announced' = Append(Announced, writer.req) /\ writer.req \in Requests /\ WriterAt("slot")
      BY <2>1, AnnouncedSteps DEF Announce
    <3>2. Elements(Announced') = Elements(Announced) \cup {writer.req}
      BY <3>1, <1>t, AheadAppend
    <3> QED BY <2>1, <3>1, <3>2 DEF Early
  <2>2. CASE ~Announce
    BY <2>2, AnnouncedSteps
  <2> QED BY <2>1, <2>2
<1>2. ASSUME alive', r \in Elements(input')
      PROVE  alive /\ (r \in Elements(input) \/ (Write /\ Writes(r)))
  <2>1. CASE input' = input
    BY <1>2, <2>1, InputSteps
  <2>2. CASE Write /\ input' = Append(input, writer.req)
    <3>1. writer.req \in Requests /\ WriterAt("write")
      BY <2>2 DEF Write, Typed, WriterAt
    <3>2. Elements(input') = Elements(input) \cup {writer.req}
      BY <2>2, <3>1, <1>t, AheadAppend
    <3> QED BY <1>2, <2>2, <3>1, <3>2, InputSteps DEF Writes
  <2>3. CASE input # <<>> /\ input' = Tail(input)
    <3>1. Elements(Tail(input)) \subseteq Elements(input)
      BY <2>3, <1>t, TailPositions
    <3> QED BY <1>2, <2>3, <3>1, InputSteps
  <2> QED BY <2>1, <2>2, <2>3, InputSteps
<1> QED BY <1>1, <1>2

\* A request that is said to have been answered stays done with.
LEMMA AnsweredStays ==
  ASSUME Typed, Typed', TmuxAssumption, Traceless, InPlace, Blocks, dying => reader # "reading",
         Answered, [Next]_vars, NEW r \in Requests, answer'[r] = answer[r], answer[r] \in {"ok", "error"}
  PROVE  /\ r \notin Elements(Announced') /\ ~(alive' /\ r \in Elements(input'))
         /\ \A i \in DOMAIN heard'[r] : heard'[r][i].of = r
         /\ lost' = {} => heard'[r] = ran'[r]
         /\ answer'[r] = "error" <=> Failed(r)'
<1>1. /\ r \notin Elements(Announced) /\ ~(alive /\ r \in Elements(input))
      /\ \A i \in DOMAIN heard[r] : heard[r][i].of = r
      /\ lost = {} => heard[r] = ran[r]
      /\ answer[r] = "error" <=> Failed(r)
  BY DEF Answered
<1>2. r \notin Elements(Announced')
  <2>1. ~Early(r)
    BY DEF Traceless
  <2> QED BY <1>1, <2>1, WhoIsKnown
<1>3. ~(alive' /\ r \in Elements(input'))
  <2>1. ~Writes(r)
    BY DEF InPlace, Writes
  <2> QED BY <1>1, <2>1, WhoIsKnown
<1>4. heard'[r] = heard[r]
  <2>1. outstanding # <<>> => outstanding[1] \in Elements(Announced)
    <3>1. ASSUME outstanding # <<>>
          PROVE  outstanding[1] \in Elements(outstanding)
      <4>1. outstanding \in Seq(Requests)
        BY DEF Typed, TypeOK
      <4> QED BY <3>1, <4>1 DEF Elements
    <3> QED BY <3>1, AnnouncedIs
  <2> QED BY <1>1, <2>1, WhatIsAdded
<1>5. ran'[r] = ran[r]
  <2>1. input # <<>> => Head(input) \in Elements(input)
    <3>1. input \in Seq(Requests)
      BY DEF Typed, TypeOK
    <3> QED BY <3>1 DEF Elements
  <2> QED BY <1>1, <2>1, WhatIsAdded
<1>6. lost' = {} => lost = {}
  BY WhatIsAdded
<1>7. Failed(r)' <=> Failed(r)
  BY <1>4 DEF Failed
<1> QED BY <1>1, <1>2, <1>3, <1>4, <1>5, <1>6, <1>7

\* A request that is said not to have been sent is not written.
LEMMA UnsentStays ==
  ASSUME Typed, Typed', TmuxAssumption, Traceless, InPlace, Blocks, dying => reader # "reading",
         Answered, [Next]_vars, NEW r \in Requests, answer'[r] \in {"unsent", "refused"}
  PROVE  r \notin written'
<1>1. CASE answer'[r] = answer[r]
  <2>1. r \notin written
    BY <1>1 DEF Answered
  <2>2. Write => writer.req # r
    BY <1>1 DEF InPlace, Write
  <2> QED BY <2>1, <2>2, WhatIsAdded
<1>2. CASE answer'[r] # answer[r]
  <2>1. answer[r] = "none" /\ AnsweredBy(r)
    BY <1>2, WhoIsAnswered
  <2>2. (Receive \/ NotAnnounced \/ NobodyReads) /\ Early(r)
    <3>1. CASE Receive /\ r = Head(requests)
      <4>1. r \in Elements(requests)
        BY <3>1, QueueSteps
      <4> QED BY <3>1, <4>1 DEF Early
    <3>2. CASE (NotAnnounced \/ NobodyReads) /\ r = writer.req
      BY <3>2 DEF NotAnnounced, NobodyReads, Early
    <3> QED BY <2>1, <3>1, <3>2 DEF AnsweredBy
  <2>3. written' = written
    BY <2>2 DEF Receive, NotAnnounced, NobodyReads, WriterEnds
  <2> QED BY <2>2, <2>3 DEF Traceless
<1> QED BY <1>1, <1>2

\* Answered requests are done with, after a step.
LEMMA AnsweredStep ==
  ASSUME Typed, Typed', TmuxAssumption, Pipeline, [Next]_vars
  PROVE  Answered'
<1>p. /\ Traceless /\ InPlace /\ Blocks /\ Answered /\ (dying => reader # "reading")
      /\ ~dying => InOrder /\ TokensCome /\ HeardOwn
  BY DEF Pipeline
<1>1. ASSUME NEW r \in Requests, answer'[r] \in {"unsent", "refused"}
      PROVE  r \notin written'
  BY <1>1, <1>p, UnsentStays
<1>2. ASSUME NEW r \in Requests, answer'[r] \in {"ok", "error"}
      PROVE  /\ r \notin Elements(Announced') /\ ~(alive' /\ r \in Elements(input'))
             /\ \A i \in DOMAIN heard'[r] : heard'[r][i].of = r
             /\ lost' = {} => heard'[r] = ran'[r]
             /\ answer'[r] = "error" <=> Failed(r)'
  <2>1. CASE answer'[r] = answer[r]
    BY <1>2, <1>p, <2>1, AnsweredStays
  <2>2. CASE answer'[r] # answer[r]
    <3>1. /\ EndToken /\ r = Head(stream).of
          /\ answer'[r] = IF Failed(r) THEN "error" ELSE "ok"
      BY <1>2, <2>2, WhoIsAnswered DEF AnsweredBy
    <3>2. ~dying
      BY <3>1, <1>p DEF EndToken, Reads
    <3>3. /\ r \notin Elements(Announced') /\ ~(alive' /\ r \in Elements(input'))
          /\ \A i \in DOMAIN heard'[r] : heard'[r][i].of = r
          /\ lost' = {} => heard'[r] = ran'[r]
          /\ heard' = heard
      BY <1>p, <3>1, <3>2, TokenAnswers
    <3>4. Failed(r)' <=> Failed(r)
      BY <3>3 DEF Failed
    <3> QED BY <3>1, <3>3, <3>4
  <2> QED BY <2>1, <2>2
<1> QED BY <1>1, <1>2 DEF Answered, Elements

\* A reader that has shut down does not read.
LEMMA DyingStep ==
  ASSUME Typed, dying => reader # "reading", [Next]_vars
  PROVE  dying' => reader' # "reading"
<1>1. CASE WriterStep
  BY <1>1 DEF WriterStep, Receive, NoMoreRequests, Announce, NotAnnounced, NobodyReads, Write,
     WriteFails, Completed, TimesOut
<1>2. CASE Eof \/ BeginBlock
  BY <1>2 DEF Eof, BeginBlock, ShutDown, Reads
<1>3. CASE EndBlock \/ EndToken \/ ReadNote
  BY <1>3 DEF EndBlock, EndToken, ReadNote, Reads
<1>4. CASE Flush \/ FlushFull \/ Unblock \/ NobodyListens
  BY <1>4 DEF Flush, FlushFull, Unblock, NobodyListens, Flushed
<1>5. CASE TmuxStep
  <2>1. UNCHANGED <<dying, reader>>
    BY <1>5 DEF TmuxStep, NotifyUI, TmuxEnds, Run, TmuxOnly
  <2> QED BY <2>1
<1>6. CASE Poll \/ Drop \/ (\E q \in Requests : Send(q) \/ Return(q)) \/ UNCHANGED vars
  BY <1>6 DEF Poll, Drop, Send, Return, vars
<1> QED BY <1>1, <1>2, <1>3, <1>4, <1>5, <1>6 DEF Next, ReaderStep

\* The invariant holds at first.
LEMMA PipelineInit ==
  ASSUME TmuxAssumption, Init
  PROVE  Pipeline
<1>1. /\ call = [r \in Requests |-> "new"] /\ answer = [r \in Requests |-> "none"]
      /\ requests = <<>> /\ writer.at = "idle" /\ slot = NoRequest /\ input = <<>>
      /\ outstanding = <<>> /\ heard = [r \in Requests |-> <<>>] /\ reader = "reading" /\ dying = FALSE
      /\ written = {} /\ ran = [r \in Requests |-> <<>>] /\ lost = {}
  BY DEF Init
<1>2. \A i \in DOMAIN stream : stream[i].of = NoRequest /\ stream[i].kind \in {"begin", "ok"}
  <2>1. CASE stream = <<>>
    BY <2>1
  <2>2. CASE stream = <<Bare("begin"), Bare("ok")>>
    <3>1. \A i \in DOMAIN stream : stream[i] \in {Bare("begin"), Bare("ok")}
      BY <2>2
    <3> QED BY <3>1 DEF Bare, Item
  <2> QED BY <2>1, <2>2 DEF Init
<1>3. Announced = <<>> /\ Elements(<<>>) = {} /\ Distinct(<<>>)
  BY <1>1 DEF Announced, Elements, Distinct
<1>4. Traceless
  BY <1>1, <1>3 DEF Traceless, Early, Writes, WriterAt
<1>5. InPlace
  BY <1>1, <1>2, <1>3 DEF InPlace, WriterAt
<1>6. Blocks
  <2>1. stream # <<>> => 1 \in DOMAIN stream
    BY DEF Init
  <2> QED BY <1>2, <2>1 DEF Blocks
<1>7. InOrder
  BY <1>1, <1>2, <1>3 DEF InOrder, Ordered
<1>8. TokensCome
  BY <1>1, <1>2, <1>3 DEF TokensCome, Come
<1>9. HeardOwn
  BY <1>1, <1>2, <1>3 DEF HeardOwn, OwnHeard, OwnRan, NotYetRun, NothingMissed, Writes, WriterAt
<1>10. Answered
  BY <1>1 DEF Answered
<1> QED BY <1>1, <1>4, <1>5, <1>6, <1>7, <1>8, <1>9, <1>10 DEF Pipeline

\* Every step keeps it.
LEMMA PipelineStep ==
  ASSUME Typed, Typed', TmuxAssumption, Pipeline, [Next]_vars
  PROVE  Pipeline'
<1>p. /\ Traceless /\ InPlace /\ Blocks /\ Answered /\ (dying => reader # "reading")
      /\ ~dying => InOrder /\ TokensCome /\ HeardOwn
  BY DEF Pipeline
<1>1. dying' => reader' # "reading"
  BY <1>p, DyingStep
<1>2. Traceless' /\ InPlace' /\ Blocks'
  BY <1>p, TracelessStep, InPlaceStep, BlocksStep
<1>3. ASSUME ~dying'
      PROVE  InOrder' /\ TokensCome' /\ HeardOwn'
  <2>1. ~dying /\ InOrder /\ TokensCome /\ HeardOwn
    BY <1>3, <1>p, OrderSteps
  <2>2. InOrder'
    BY <1>3, <1>p, InOrderStep
  <2>3. TokensCome'
    BY <1>3, <1>p, TokensComeStep
  <2>4. OwnHeard /\ OwnRan /\ NotYetRun
    BY <2>1 DEF HeardOwn
  <2>5. OwnHeard'
    BY <1>p, <2>1, <2>4, OwnHeardStep
  <2>6. OwnRan'
    BY <2>4, OwnRanStep
  <2>7. NotYetRun'
    BY <1>p, <2>1, <2>4, NotYetRunStep
  <2>8. NothingMissed'
    BY <1>3, <1>p, <2>1, NothingMissedStep
  <2> QED BY <2>2, <2>3, <2>5, <2>6, <2>7, <2>8 DEF HeardOwn
<1>4. Answered'
  BY AnsweredStep
<1> QED BY <1>1, <1>2, <1>3, <1>4 DEF Pipeline

\* An answer is what tmux said to this request and to no other, an error when
\* tmux said so, and a request that is said not to have been sent is not run
\* (AnswersTrue): of ControlCommandTracker in
\* crates/core/src/tmux_control_core/control_mode, and of its writer thread.
THEOREM AnswersHold == Spec => []AnswersTrue
<1>1. Init => Typed /\ Pipeline
  BY TmuxAssumption, TypedInit, PipelineInit
<1>2. Typed /\ Pipeline /\ [Next]_vars => (Typed /\ Pipeline)'
  <2>1. SUFFICES ASSUME Typed, Pipeline, [Next]_vars
                 PROVE  Typed' /\ Pipeline'
    OBVIOUS
  <2>2. Typed'
    BY <2>1, TmuxAssumption, TypedStep
  <2>3. Pipeline'
    BY <2>1, <2>2, TmuxAssumption, PipelineStep
  <2> QED BY <2>2, <2>3
<1>3. Typed /\ Pipeline => AnswersTrue
  BY TmuxAssumption DEF Pipeline, Answered, AnswersTrue, TmuxAssumption
<1> QED BY <1>1, <1>2, <1>3, PTL DEF Spec
=============================================================================
