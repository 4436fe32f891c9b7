------------------------------ MODULE Replies ------------------------------
(***************************************************************************)
(* What a pane's program reads: the replies to its queries and clipboard   *)
(* requests (crates/core/src/runtime/custom_backend and its deferred.rs,   *)
(* and the clipboard bridge of crates/core/src/multiplexer/pane.rs).  The  *)
(* feeder parses the program's output under the engine lock and answers    *)
(* queries itself; clipboard requests go through the event queue to the    *)
(* pane's worker, which asks a view, for a time, and goes on.  A reply to  *)
(* later output waits behind the requests whose answer is still owed.      *)
(***************************************************************************)
EXTENDS Naturals, Sequences, FiniteSets

CONSTANTS
  Kinds,        \* what the program's output may hold
  MaxItems,     \* how many requests and queries the program makes
  MaxEvents,    \* MAX_EVENTS
  EventBatch,   \* EVENT_BATCH
  MaxWaiting,   \* MAX_WAITING
  MaxQueued,    \* MAX_QUEUED
  QueueBound,   \* the capacity of the worker's queue
  MaxViews      \* the views that subscribe, one after the other

ASSUME RepliesAssumption ==
  /\ Kinds \subseteq {"query", "load", "kitty", "reset", "upload"}
  /\ MaxItems \in Nat /\ MaxViews \in Nat
  /\ EventBatch \in Nat \ {0} /\ QueueBound \in Nat \ {0}
  /\ MaxEvents \in Nat \ {0, 1}
  /\ MaxWaiting \in Nat \ {0} /\ MaxQueued \in Nat \ {0}

VARIABLES
  parsed,       \* how many requests and queries the feeder has parsed
  feeder,       \* it holds the engine lock while it is "parsing"
  held,         \* the replies of the slice it is parsing
  events,       \* State::events
  woken,        \* wakeup_queued
  queue,        \* the work of the pane's worker
  phase,        \* where the worker is in its loop
  jobs,         \* what it has taken and not done yet
  more,         \* pending_events
  inFlight,     \* ordered_in_flight
  written,      \* how many ordered events it has still to take off inFlight
  slots,        \* DeferredClipboard: writes in the order of the output
  waiting,      \* DeferredClipboard: how many of them wait for an answer
  parked,       \* HostBridge: the requests a view was asked, and whether too long ago
  subscribed,   \* the views that have subscribed so far
  open,         \* those whose subscription is open
  asked,        \* what each view has been asked and not answered
  sent,         \* what the program reads
  delayed,      \* history: the replies held while an image was decoded
  lost,         \* history: what gets no reply, at a limit or by a reset
  resetAt       \* history: the last reset carried out

feeding == <<parsed, feeder, held, delayed>>
bridge  == <<parked, asked>>
views   == <<subscribed, open>>
vars == <<feeding, events, woken, queue, phase, jobs, more, inFlight, written, slots, waiting,
          bridge, views, sent, lost, resetAt>>

\* Requests and queries are numbered in the order of the output.
Entry(kind, n) == [kind |-> kind, n |-> n]

\* PendingEvent::is_ordered, must_deliver
Ordered(e)     == e.kind \in {"load", "kitty", "reply"}
MustDeliver(e) == e.kind \in {"reset", "overflow"}

Count(es)   == Cardinality({i \in DOMAIN es : Ordered(es[i])})
Numbers(es) == {es[i].n : i \in {i \in DOMAIN es : Ordered(es[i])}}

Slot(n, what) == [n |-> n, what |-> what]
Outcomes == {"clipboard", "reply", "nothing"}

TypeOK ==
  /\ parsed \in 0..MaxItems
  /\ feeder \in {"idle", "parsing", "decoding", "between"}
  /\ held \in Seq(Nat) /\ delayed \subseteq Nat
  /\ events \in Seq([kind : {"load", "kitty", "reply", "reset", "overflow"}, n : Nat])
  /\ Len(events) =< MaxEvents
  /\ woken \in BOOLEAN
  /\ queue \in Seq([kind : {"wake", "answer"}, n : Nat]) /\ Len(queue) =< QueueBound
  /\ phase \in {"waiting", "expiring", "taking"}
  /\ jobs \in Seq([kind : {"load", "kitty", "reply", "reset", "overflow", "answer"}, n : Nat])
  /\ more \in BOOLEAN
  /\ inFlight \in Nat /\ written \in Nat
  /\ slots \in Seq([n : Nat, what : Outcomes \cup {"waiting"}])
  /\ waiting \in 0..MaxWaiting
  /\ parked \subseteq [n : Nat, view : 1..MaxViews, late : BOOLEAN]
  /\ subscribed \in 0..MaxViews /\ open \subseteq 1..subscribed
  /\ asked \in [1..MaxViews -> Seq(Nat)]
  /\ sent \in Seq([n : Nat, what : Outcomes])
  /\ lost \subseteq Nat /\ resetAt \in Nat

Init ==
  /\ parsed = 0 /\ feeder = "idle" /\ held = <<>> /\ delayed = {}
  /\ events = <<>> /\ woken = FALSE /\ queue = <<>>
  /\ phase = "waiting" /\ jobs = <<>> /\ more = FALSE
  /\ inFlight = 0 /\ written = 0 /\ slots = <<>> /\ waiting = 0
  /\ parked = {} /\ asked = [v \in 1..MaxViews |-> <<>>] /\ subscribed = 0 /\ open = {}
  /\ sent = <<>> /\ lost = {} /\ resetAt = 0
-----------------------------------------------------------------------------
(* The feeder. *)

\* compact_saturated_events: all clipboard packets go together, and a reset is
\* queued anew, behind all that was parsed.
Compacted ==
  IF \E i \in DOMAIN events : events[i].kind = "reset"
  THEN <<Entry("reset", parsed)>>
  ELSE IF \E i \in DOMAIN events : events[i].kind \in {"kitty", "overflow"}
  THEN <<Entry("overflow", 0)>>
  ELSE <<>>

\* Mutant: nothing makes room.
WithoutRoom(e) == IF MustDeliver(e) \/ Len(events) < MaxEvents THEN Append(events, e) ELSE events

\* State::queue, discard_event
With(e) ==
  IF Len(events) < MaxEvents THEN Append(events, e)
  ELSE IF MustDeliver(e) THEN Append(Compacted, e)
  ELSE IF e.kind = "kitty" THEN Append(Compacted, Entry("overflow", e.n))
  ELSE events

Put(e, n) ==
  /\ events' = With(e)
  /\ lost' = lost \cup ((Numbers(events) \cup {n}) \ Numbers(events'))

\* Mutant: only what is queued still, and not what is being written, is owed.
OwedInQueue == Count(events) > 0

Owed == Count(events) > 0 \/ inFlight > 0

\* route_replies.  The replay of a synchronized update is left out: there replies
\* are routed before the events of the same replay are queued.
Queries(n) ==
  IF Owed THEN Put(Entry("reply", n), n) /\ UNCHANGED held
  ELSE held' = Append(held, n) /\ UNCHANGED <<events, lost>>

FeederOnly ==
  UNCHANGED <<woken, queue, phase, jobs, more, inFlight, written, slots, waiting,
              bridge, views, resetAt>>

\* The next piece of output, in this slice, or at the start of one.
Parses(kind) ==
  /\ kind \in Kinds /\ parsed < MaxItems /\ feeder # "decoding"
  /\ parsed' = parsed + 1
  /\ UNCHANGED sent /\ FeederOnly

\* A query the engine answers by itself, CSI c for one.
ParseQuery ==
  /\ Parses("query")
  /\ feeder' = "parsing"
  /\ Queries(parsed')
  /\ UNCHANGED delayed

\* OSC 52 ?
ParseLoad ==
  /\ Parses("load")
  /\ feeder' = "parsing"
  /\ Put(Entry("load", parsed'), parsed')
  /\ UNCHANGED <<held, delayed>>

\* OSC 5522, whose packets may be too large for the queue.
ParseKitty ==
  /\ Parses("kitty")
  /\ feeder' = "parsing"
  /\ \E kind \in {"kitty", "overflow"} : Put(Entry(kind, parsed'), parsed')
  /\ UNCHANGED <<held, delayed>>

\* RIS
ParseReset ==
  /\ Parses("reset")
  /\ feeder' = "parsing"
  /\ Put(Entry("reset", parsed'), parsed')
  /\ UNCHANGED <<held, delayed>>

\* An image: it is decoded without the lock.
ParseUpload ==
  /\ Parses("upload")
  /\ feeder' = "decoding"
  /\ delayed' = delayed \cup {held[i] : i \in DOMAIN held}
  /\ UNCHANGED <<held, events, lost>>

Direct(ns) == [i \in DOMAIN ns |-> Slot(ns[i], "reply")]

\* The image is committed, and answered; the slice ends with it.
Commit ==
  /\ feeder = "decoding"
  /\ feeder' = "between"
  /\ IF Owed THEN Put(Entry("reply", parsed), parsed) /\ sent' = sent \o Direct(held)
     ELSE sent' = sent \o Direct(Append(held, parsed)) /\ UNCHANGED <<events, lost>>
  /\ held' = <<>>
  /\ UNCHANGED <<parsed, delayed>> /\ FeederOnly

\* The replies of a slice are written before its lock is released.
EndSlice ==
  /\ feeder = "parsing"
  /\ feeder' = "between"
  /\ sent' = sent \o Direct(held)
  /\ held' = <<>>
  /\ UNCHANGED <<parsed, delayed, events, lost>> /\ FeederOnly

\* Mutant: only a worker that has been woken is woken.
NotifyAgain ==
  /\ feeder = "between"
  /\ feeder' = "idle"
  /\ woken' = TRUE
  /\ queue' = IF woken /\ Len(queue) < QueueBound THEN Append(queue, Entry("wake", 0)) ELSE queue
  /\ UNCHANGED <<parsed, held, delayed, events, phase, jobs, more, inFlight, written,
                 slots, waiting, bridge, views, sent, lost, resetAt>>

\* What was read is parsed: the worker is woken, unless it has been already, or
\* has plenty to do.
Notify ==
  /\ feeder = "between"
  /\ feeder' = "idle"
  /\ woken' = TRUE
  /\ queue' = IF ~woken /\ Len(queue) < QueueBound THEN Append(queue, Entry("wake", 0)) ELSE queue
  /\ UNCHANGED <<parsed, held, delayed, events, phase, jobs, more, inFlight, written,
                 slots, waiting, bridge, views, sent, lost, resetAt>>
-----------------------------------------------------------------------------
(* The writes of the worker. *)

\* take_due, write_slots: everything before the first that waits.
WriteDue(ss) ==
  \E due \in 0..Len(ss) :
    /\ \A i \in 1..due : ss[i].what # "waiting"
    /\ due < Len(ss) => ss[due + 1].what = "waiting"
    /\ sent' = sent \o SubSeq(ss, 1, due)
    /\ slots' = SubSeq(ss, due + 1, Len(ss))
    /\ written' = due

Waiting(ns) == {i \in DOMAIN slots : slots[i].what = "waiting" /\ slots[i].n \in ns}

\* complete_clipboard_request, for one or more; what was cancelled does not wait.
Complete(ns) ==
  /\ WriteDue([i \in DOMAIN slots |->
                 IF i \in Waiting(ns) THEN Slot(slots[i].n, "clipboard") ELSE slots[i]])
  /\ waiting' = waiting - Cardinality(Waiting(ns))

\* Mutant: one that is dropped is not taken off.
WriteOrderedForgets(s) ==
  IF slots = <<>>
  THEN sent' = Append(sent, s) /\ written' = 1 /\ UNCHANGED <<slots, lost>>
  ELSE IF Len(slots) >= MaxQueued
  THEN lost' = lost \cup {s.n} /\ written' = 0 /\ UNCHANGED <<slots, sent>>
  ELSE slots' = Append(slots, s) /\ written' = 0 /\ UNCHANGED <<sent, lost>>

WriteOrdered(s) ==
  IF slots = <<>>
  THEN sent' = Append(sent, s) /\ written' = 1 /\ UNCHANGED <<slots, lost>>
  ELSE IF Len(slots) >= MaxQueued
  THEN lost' = lost \cup {s.n} /\ written' = 1 /\ UNCHANGED <<slots, sent>>
  ELSE slots' = Append(slots, s) /\ written' = 0 /\ UNCHANGED <<sent, lost>>

\* release_ordered, under the engine lock.
Release ==
  /\ written > 0 /\ feeder # "parsing"
  /\ inFlight' = IF inFlight > written THEN inFlight - written ELSE 0
  /\ written' = 0
  /\ UNCHANGED <<feeding, events, woken, queue, phase, jobs, more, slots, waiting,
                 bridge, views, sent, lost, resetAt>>
-----------------------------------------------------------------------------
(* The loop of the worker. *)

Free == jobs = <<>> /\ written = 0

\* An answer counts only for a request that has not been denied.
Receive ==
  /\ phase = "waiting" /\ Free /\ queue # <<>>
  /\ queue' = Tail(queue)
  /\ phase' = "expiring"
  /\ LET known == {p \in parked : Head(queue).kind = "answer" /\ p.n = Head(queue).n} IN
     /\ parked' = parked \ known
     /\ jobs' = IF known # {} THEN <<Head(queue)>> ELSE <<>>
  /\ UNCHANGED <<feeding, events, woken, more, inFlight, written, slots, waiting,
                 asked, views, sent, lost, resetAt>>

\* There is no work, but events are left, or requests to look after (`next_check').
Timeout ==
  /\ phase = "waiting" /\ Free /\ queue = <<>>
  /\ more \/ parked # {}
  /\ phase' = "expiring"
  /\ UNCHANGED <<feeding, events, woken, queue, jobs, more, inFlight, written, slots,
                 waiting, bridge, views, sent, lost, resetAt>>

\* A command, a request or a frame that is due.
OtherWork ==
  /\ phase = "waiting" /\ Free
  /\ phase' = "expiring"
  /\ UNCHANGED <<feeding, events, woken, queue, jobs, more, inFlight, written, slots,
                 waiting, bridge, views, sent, lost, resetAt>>

\* Mutant: what a detached view held is forgotten.
ExpireForgets ==
  /\ phase = "expiring" /\ Free
  /\ phase' = "taking"
  /\ LET Gone == {p \in parked : p.late \/ p.view \notin open} IN
     /\ parked' = parked \ Gone
     /\ Complete({p.n : p \in {q \in Gone : q.view \in open}})
  /\ woken' = FALSE
  /\ UNCHANGED <<feeding, events, queue, jobs, more, inFlight, asked, views, lost, resetAt>>

\* The requests past their deadline, or held by a view that has detached, are
\* denied, in turn.  drain_events takes the wakeup first, ...
Expire ==
  /\ phase = "expiring" /\ Free
  /\ phase' = "taking"
  /\ LET Gone == {p \in parked : p.late \/ p.view \notin open} IN
     /\ parked' = parked \ Gone
     /\ Complete({p.n : p \in Gone})
  /\ woken' = FALSE
  /\ UNCHANGED <<feeding, events, queue, jobs, more, inFlight, asked, views, lost, resetAt>>

\* ... then a batch of events, under the engine lock.
TakeEvents ==
  /\ phase = "taking" /\ Free /\ feeder # "parsing"
  /\ LET k == IF Len(events) < EventBatch THEN Len(events) ELSE EventBatch IN
     /\ jobs' = SubSeq(events, 1, k)
     /\ events' = SubSeq(events, k + 1, Len(events))
  /\ inFlight' = inFlight + Count(jobs')
  /\ more' = (events' # <<>>)
  /\ phase' = "waiting"
  /\ UNCHANGED <<feeding, woken, queue, written, slots, waiting, bridge, views,
                 sent, lost, resetAt>>

Does(kinds) ==
  /\ jobs # <<>> /\ written = 0 /\ Head(jobs).kind \in kinds
  /\ jobs' = Tail(jobs)
  /\ UNCHANGED <<feeding, events, woken, queue, phase, more, inFlight, views>>

Answered ==
  /\ Does({"answer"})
  /\ Complete({Head(jobs).n})
  /\ UNCHANGED <<bridge, lost, resetAt>>

\* The newest subscription that is open.
ClipboardHost == CHOOSE v \in open : \A w \in open : w =< v

\* ask_clipboard_host
Ask(n) ==
  IF waiting >= MaxWaiting
  THEN WriteOrdered(Slot(n, "clipboard")) /\ UNCHANGED <<waiting, bridge>>
  ELSE IF open = {}
  THEN WriteDue(Append(slots, Slot(n, "clipboard"))) /\ UNCHANGED <<waiting, bridge, lost>>
  ELSE /\ slots' = Append(slots, Slot(n, "waiting"))
       /\ waiting' = waiting + 1
       /\ parked' = parked \cup {[n |-> n, view |-> ClipboardHost, late |-> FALSE]}
       /\ asked' = [asked EXCEPT ![ClipboardHost] = Append(@, n)]
       /\ UNCHANGED <<written, sent, lost>>

Asks ==
  /\ Does({"load", "kitty"})
  /\ Ask(Head(jobs).n)
  /\ UNCHANGED resetAt

\* A packet that only needs a reply, or a part of one, which needs none; and a
\* protocol reply that had to wait.
Replies ==
  /\ Does({"kitty", "reply"})
  /\ WriteOrdered(Slot(Head(jobs).n, "reply"))
  /\ UNCHANGED <<waiting, bridge, resetAt>>

\* Mutant: what waits is still answered.
CancelsNothing ==
  /\ Does({"reset", "overflow"})
  /\ resetAt' = Head(jobs).n
  /\ UNCHANGED <<slots, waiting, written, sent, lost, bridge>>

\* A reset: the program may be another one now.  An answer that still comes
\* finds nothing; one that has come, and was held behind a request that waits no
\* longer, is written.
Cancels ==
  /\ Does({"reset", "overflow"})
  /\ resetAt' = IF Head(jobs).n > resetAt THEN Head(jobs).n ELSE resetAt
  /\ sent' = sent \o [i \in DOMAIN slots |->
                        IF slots[i].what = "waiting" THEN Slot(slots[i].n, "nothing") ELSE slots[i]]
  /\ lost' = lost \cup {slots[i].n : i \in {i \in DOMAIN slots : slots[i].what = "waiting"}}
  /\ written' = Len(slots)
  /\ slots' = <<>> /\ waiting' = 0
  /\ UNCHANGED bridge
-----------------------------------------------------------------------------
(* The views, and the time. *)

ViewsOnly ==
  UNCHANGED <<feeding, events, woken, phase, jobs, more, inFlight, written, slots,
              waiting, sent, lost, resetAt>>

Attach ==
  /\ subscribed < MaxViews
  /\ subscribed' = subscribed + 1
  /\ open' = open \cup {subscribed'}
  /\ UNCHANGED <<queue, bridge>> /\ ViewsOnly

\* What was sent to it, it may still answer.
Detach(v) ==
  /\ open' = open \ {v}
  /\ \E k \in 0..Len(asked[v]) : asked' = [asked EXCEPT ![v] = SubSeq(@, 1, k)]
  /\ UNCHANGED <<queue, parked, subscribed>> /\ ViewsOnly

\* It answers the oldest, or knows that it is too late, or its answer is lost.
Answer(v) ==
  /\ asked[v] # <<>>
  /\ asked' = [asked EXCEPT ![v] = Tail(@)]
  /\ \/ Len(queue) < QueueBound /\ queue' = Append(queue, Entry("answer", Head(asked[v])))
     \/ UNCHANGED queue
  /\ UNCHANGED <<parked, views>> /\ ViewsOnly

\* All requests are given the same time, so the oldest is overdue first.
PassDeadline ==
  /\ \E p \in parked :
       /\ ~p.late /\ \A q \in parked : ~q.late => p.n =< q.n
       /\ parked' = (parked \ {p}) \cup {[p EXCEPT !.late = TRUE]}
  /\ UNCHANGED <<queue, asked, views>> /\ ViewsOnly
-----------------------------------------------------------------------------
FeederStep == Commit \/ EndSlice \/ Notify

WorkerStep ==
  \/ Receive \/ Timeout \/ Expire \/ TakeEvents
  \/ Answered \/ Asks \/ Replies \/ Cancels \/ Release

ProgramStep == ParseQuery \/ ParseLoad \/ ParseKitty \/ ParseReset \/ ParseUpload

Next ==
  \/ FeederStep \/ WorkerStep \/ ProgramStep \/ OtherWork
  \/ Attach \/ PassDeadline
  \/ \E v \in open : Detach(v)
  \/ \E v \in 1..MaxViews : Answer(v)

Spec == Init /\ [][Next]_vars

\* The threads run and time passes; a view need never answer.
Fairness == WF_vars(FeederStep) /\ WF_vars(WorkerStep) /\ WF_vars(PassDeadline)

FairSpec == Spec /\ Fairness
-----------------------------------------------------------------------------
\* What the program reads is in the order of what it wrote, and nothing is
\* answered twice, except that replies which were held while an image was
\* decoded may have been overtaken.  (So may those of a replayed synchronized
\* update, which this module leaves out: see the head of `Queries'.)
InOrderUnlessDecoding ==
  \A i, j \in DOMAIN sent : i < j => sent[i].n < sent[j].n \/ sent[j].n \in delayed

\* What deferred.rs says: the program reads every reply in the order of its
\* requests.
InOrder == \A i, j \in DOMAIN sent : i < j => sent[i].n < sent[j].n

\* The ordered events that are counted as being on their way are those that are:
\* otherwise replies would wait behind nothing, or overtake what is owed.
InFlightCounted ==
  /\ inFlight = Len(slots) + written + Count(jobs)
  /\ waiting = Cardinality({i \in DOMAIN slots : slots[i].what = "waiting"})

\* A request that waits has a deadline, or is about to be answered or denied.
WaitingHasDeadline ==
  \A i \in DOMAIN slots : slots[i].what = "waiting" =>
    \/ \E p \in parked : p.n = slots[i].n
    \/ \E k \in DOMAIN jobs : jobs[k] = Entry("answer", slots[i].n)

\* A reset may have started another program.  From the reset on, a clipboard
\* answer that comes for a request made before it is not written, however late a
\* view answers.  Excepted is what had been answered by then and was held behind an
\* older request: the reset itself writes that (`cancel_clipboard_requests').
ResetForgets ==
  [][\A i \in DOMAIN sent' \ DOMAIN sent :
       sent'[i].what = "clipboard" =>
         \/ sent'[i].n > resetAt'
         \/ resetAt' # resetAt /\ \E j \in DOMAIN slots : slots[j] = sent'[i]]_vars

\* Every query and request gets its reply, unless it was dropped at a limit or by
\* a reset: also when no view answers, or the view that was asked detaches.
EveryRequestSettled ==
  \A n \in 1..MaxItems :
    n =< parsed ~> (n \in lost \/ \E i \in DOMAIN sent : sent[i].n = n)
=============================================================================
