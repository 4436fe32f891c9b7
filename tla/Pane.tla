------------------------------- MODULE Pane -------------------------------
(***************************************************************************)
(* One hosted pane: the worker thread that owns the terminal, its bounded   *)
(* work queue, the state it shares under a mutex, and the subscriptions of  *)
(* the views attached to it (crates/core/src/multiplexer/pane.rs), with the *)
(* engine that feeds it (runtime/custom_backend.rs) and the host threads    *)
(* that serve each view (multiplexer/server.rs, `serve_client').            *)
(*                                                                          *)
(* A step is what one thread does while it holds one lock, or one call on   *)
(* the work queue.  Data is reduced to versions: a screen is the number of  *)
(* changes made to it, a title the number of times it was set, and          *)
(* `same_frame' compares versions.                                          *)
(***************************************************************************)
EXTENDS Naturals, Sequences, FiniteSets

CONSTANTS
    Views,       \* the views that subscribe, one subscription each
    QueueSize,   \* capacity of the work queue (256 in the code)
    MaxScreen,   \* bound: changes of the screen
    MaxTitle,    \* bound: titles the program sets
    MaxAsks,     \* bound: pauses, resumes, resyncs and commands, together
    Inputs       \* what else happens to the pane in an instance

ASSUME ConstantsAssumption ==
    /\ QueueSize \in Nat \ {0}
    /\ MaxScreen \in Nat /\ MaxTitle \in Nat /\ MaxAsks \in Nat
    /\ Inputs \subseteq {"Change", "Viewport", "Hide", "Resync", "Close", "Stop",
                         "Detach", "Panic", "Hook", "Timeout"}

VARIABLES
    \* The engine and the program behind the pseudo terminal.
    screen,        \* version of the screen
    titles,        \* titles the program has set so far
    engineEvents,  \* State::events: titles and the exit, oldest first
    wakeupQueued,  \* Shared::wakeup_queued
    reader,        \* the PTY reader: "idle", or owes a wakeup ("notify")
    program,       \* "running" or "exited"
    \* The work queue and the worker (`run').
    queue,         \* Pane::tx/rx
    pc,            \* where the worker is
    nap,           \* the timeout it computed: "zero", "frame" or "idle"
    job,           \* the work whose frame it is about to publish
    dirty, more,   \* `dirty' and `pending_events'
    frameDue,      \* FRAME_INTERVAL has passed since `last_frame'
    captured,      \* the frame it captured and has not published, or 0
    batch,         \* the event it drained and has not published
    panicked,      \* thread::panicking()
    hostStopping,  \* WorkerExit::host_stopping
    \* Shared, behind the mutex.
    alive, exited, frame, sticky, subs,
    hook,          \* Pane::exit_hook: "unset", "set", or "taken" and run once
    \* The host.
    stopping,      \* Server::stopping: "no", "asked", or "sent" to the panes
    dropped,       \* nobody holds the pane any more: what is Weak finds nothing
    asks,          \* requests made so far, for the bound
    \* Each view's serving thread and its subscription.
    stage, pending,
    \* What each view was sent.
    shown, seenTitle, exits, stops, acked, detached,
    \* Remembered for the properties: why the pane ended, and, until the view's
    \* first frame, the screen when it subscribed.
    cause, born

engineVars == <<screen, titles, engineEvents, wakeupQueued, reader, program>>
workerVars == <<pc, nap, job, dirty, more, frameDue, captured, batch, panicked,
                hostStopping>>
sharedVars == <<alive, exited, frame, sticky, subs>>
hostVars   == <<stopping, dropped, asks>>
sentVars   == <<shown, seenTitle, exits, stops, acked, detached, born>>
viewVars   == <<stage, pending, sentVars>>
vars == <<engineVars, queue, workerVars, sharedVars, hook, hostVars, viewVars,
          cause>>

-----------------------------------------------------------------------------
Exit     == MaxTitle + 1    \* an event: a title, or the exit
NoEvent  == 0
NoFrame  == 0
NoView   == "no view"
NoTitle  == 0
Titles   == 1..MaxTitle
Frames   == 1..(MaxScreen + 1)
Events   == {Exit} \cup Titles

Work == [kind : {"Wake", "Change", "Viewport", "Close", "Shutdown"}, view : {NoView}]
          \cup [kind : {"Refresh", "Resume"}, view : Views]
Plain(kind) == [kind |-> kind, view |-> NoView]
For(kind, v) == [kind |-> kind, view |-> v]

Acks == {"none", "paused", "resumed"}
Replay == [title : 0..MaxTitle, exit : BOOLEAN]
Pending == [state : BOOLEAN, replay : Replay,
            title : 0..MaxTitle, exit : BOOLEAN, stopping : BOOLEAN,
            closed : BOOLEAN, paused : BOOLEAN, ack : Acks, resync : BOOLEAN]
NoReplay == [title |-> NoTitle, exit |-> FALSE]
Idle == [state |-> FALSE, replay |-> NoReplay, title |-> NoTitle, exit |-> FALSE,
         stopping |-> FALSE, closed |-> FALSE, paused |-> FALSE, ack |-> "none",
         resync |-> FALSE]

\* The stages of a view's serving thread.  In a Held stage it owns the
\* subscription, so the worker's weak reference to it can be upgraded.
Asking == {"asking", "refreshed"}
Held   == {"waking", "open", "reading"}
Over   == {"done", "cut", "gone", "failed"}
Stages == {"new"} \cup Asking \cup Held \cup Over

Init ==
    /\ screen = 1 /\ titles = NoTitle /\ engineEvents = <<>>
    /\ wakeupQueued = FALSE /\ reader = "idle" /\ program = "running"
    /\ queue = <<>> /\ pc = "wait" /\ nap = "zero" /\ job = Plain("Wake")
    /\ dirty = TRUE /\ more = FALSE /\ frameDue = TRUE
    /\ captured = NoFrame /\ batch = NoEvent
    /\ panicked = FALSE /\ hostStopping = FALSE
    /\ alive = TRUE /\ exited = FALSE /\ frame = 1 /\ sticky = NoTitle /\ subs = {}
    /\ hook = "unset"
    /\ stopping = "no" /\ dropped = FALSE /\ asks = 0
    /\ stage = [v \in Views |-> "new"] /\ pending = [v \in Views |-> Idle]
    /\ shown = [v \in Views |-> NoFrame] /\ seenTitle = [v \in Views |-> NoTitle]
    /\ exits = [v \in Views |-> 0] /\ stops = [v \in Views |-> 0]
    /\ acked = [v \in Views |-> "none"] /\ detached = [v \in Views |-> FALSE]
    /\ born = [v \in Views |-> NoFrame]
    /\ cause = "none"

-----------------------------------------------------------------------------
(* The queue, `publish' and what they change.                              *)

Room == Len(queue) < QueueSize
SendAlways(q, work) == Append(q, work)
TrySend(q, work) == IF Len(q) < QueueSize THEN Append(q, work) ELSE q

WantsFrames == \E v \in subs : stage[v] \in Held /\ ~pending[v].paused

\* What one subscriber's queue becomes when a changed frame and an event are
\* published: a newer title replaces the queued one and an exit is queued once
\* (`coalesce_event').
Offer(p, changed, e) ==
    [p EXCEPT !.state = @ \/ (changed /\ ~p.paused),
              !.title = IF e \in Titles THEN e ELSE @,
              !.exit  = @ \/ e = Exit]

\* `publish': a frame that shows what is already published is not sent again,
\* and nothing to deliver leaves the subscribers alone.  It drops the
\* subscribers that are closed or gone.
Publish(f, e) ==
    LET changed == f # NoFrame /\ f # frame
    IN  /\ frame'  = IF changed THEN f ELSE frame
        /\ exited' = (exited \/ e = Exit)
        /\ sticky' = IF e \in Titles THEN e ELSE sticky
        /\ IF ~changed /\ e = NoEvent
           THEN UNCHANGED <<subs, pending>>
           ELSE /\ pending' = [v \in Views |->
                      IF v \in subs /\ stage[v] \in Held
                      THEN Offer(pending[v], changed, e) ELSE pending[v]]
                /\ subs' = {v \in subs : stage[v] \in Held /\ ~pending[v].closed}

-----------------------------------------------------------------------------
(* The program and the thread that reads its output.                       *)

Output ==
    /\ program = "running" /\ reader = "idle" /\ screen <= MaxScreen
    /\ screen' = screen + 1 /\ reader' = "notify"
    /\ UNCHANGED <<titles, engineEvents, wakeupQueued, program, queue, workerVars,
                   sharedVars, hook, hostVars, viewVars, cause>>

SetTitle ==
    /\ program = "running" /\ reader = "idle" /\ titles < MaxTitle
    /\ titles' = titles + 1
    /\ engineEvents' = Append(engineEvents, titles + 1)
    /\ reader' = "notify"
    /\ UNCHANGED <<screen, wakeupQueued, program, queue, workerVars, sharedVars,
                   hook, hostVars, viewVars, cause>>

ProgramExits ==
    /\ program = "running" /\ reader = "idle"
    /\ program' = "exited"
    /\ engineEvents' = Append(engineEvents, Exit)
    /\ reader' = "notify"
    /\ cause' = IF cause = "none" THEN "exit" ELSE cause
    /\ UNCHANGED <<screen, titles, wakeupQueued, queue, workerVars, sharedVars,
                   hook, hostVars, viewVars>>

\* `queue_wakeup': only the first wakeup since the last drain reaches the
\* notifier, whose Wake is lost when the queue is full.
Notify ==
    /\ reader = "notify"
    /\ reader' = "idle" /\ wakeupQueued' = TRUE
    /\ queue' = IF wakeupQueued THEN queue ELSE TrySend(queue, Plain("Wake"))
    /\ UNCHANGED <<screen, titles, engineEvents, program, workerVars, sharedVars,
                   hook, hostVars, viewVars, cause>>

-----------------------------------------------------------------------------
(* The worker's loop (`run').                                              *)

\* The timeout is computed under the lock and used after it is released.  The
\* idle timeout of 60 s is not relied on: an idle worker waits for work.
ComputeTimeout ==
    /\ pc = "wait"
    /\ nap' = IF more THEN "zero" ELSE IF WantsFrames /\ dirty THEN "frame" ELSE "idle"
    /\ pc' = "recv"
    /\ UNCHANGED <<engineVars, queue, job, dirty, more, frameDue, captured, batch,
                   panicked, hostStopping, sharedVars, hook, hostVars, viewVars, cause>>

TimedOut ==
    /\ pc = "recv" /\ queue = <<>>
    /\ nap = "zero" \/ (nap = "frame" /\ frameDue)
    /\ pc' = "drain"
    /\ nap' = "idle"
    /\ UNCHANGED <<engineVars, queue, job, dirty, more, frameDue, captured, batch,
                   panicked, hostStopping, sharedVars, hook, hostVars, viewVars, cause>>

Received(kind) == pc = "recv" /\ queue # <<>> /\ Head(queue).kind = kind

ReceiveWake ==
    /\ Received("Wake")
    /\ queue' = Tail(queue) /\ dirty' = TRUE /\ pc' = "drain"
    /\ nap' = "idle"
    /\ UNCHANGED <<engineVars, job, more, frameDue, captured, batch, panicked,
                   hostStopping, sharedVars, hook, hostVars, viewVars, cause>>

\* A command that changes the screen, like a resize; the frame follows later.
\* (Input is left out: it first publishes what the program printed before it.)
ReceiveChange ==
    /\ Received("Change")
    /\ queue' = Tail(queue) /\ dirty' = TRUE /\ pc' = "drain"
    /\ screen' = IF screen <= MaxScreen THEN screen + 1 ELSE screen
    /\ nap' = "idle"
    /\ UNCHANGED <<titles, engineEvents, wakeupQueued, reader, program, job, more,
                   frameDue, captured, batch, panicked, hostStopping, sharedVars,
                   hook, hostVars, viewVars, cause>>

\* A viewport command that could not scroll: no frame is captured for it.
ReceiveUnchanged ==
    /\ Received("Viewport")
    /\ queue' = Tail(queue) /\ pc' = "drain"
    /\ nap' = "idle"
    /\ UNCHANGED <<engineVars, job, dirty, more, frameDue, captured, batch, panicked,
                   hostStopping, sharedVars, hook, hostVars, viewVars, cause>>

\* A refresh and a resumed view capture a frame, a viewport command scrolls
\* first; the frame is published under the lock in a later step.
ReceiveCapture(kind) ==
    /\ Received(kind) /\ (kind = "Viewport" => screen <= MaxScreen)
    /\ queue' = Tail(queue) /\ job' = Head(queue) /\ pc' = "answer"
    /\ screen' = IF kind = "Viewport" THEN screen + 1 ELSE screen
    /\ captured' = screen'
    /\ nap' = "idle"
    /\ UNCHANGED <<titles, engineEvents, wakeupQueued, reader, program, dirty, more,
                   frameDue, batch, panicked, hostStopping, sharedVars, hook,
                   hostVars, viewVars, cause>>

PublishCapture ==
    /\ pc = "answer"
    /\ Publish(captured, NoEvent)
    /\ captured' = NoFrame /\ frameDue' = FALSE /\ dirty' = FALSE
    /\ IF job.kind = "Resume" THEN pc' = "resume" /\ UNCHANGED job
                              ELSE pc' = "drain" /\ job' = Plain("Wake")
    /\ stage' = IF job.kind = "Refresh" /\ stage[job.view] = "asking"
                THEN [stage EXCEPT ![job.view] = "refreshed"] ELSE stage
    /\ UNCHANGED <<engineVars, queue, nap, more, batch, panicked, hostStopping,
                   alive, hook, hostVars, sentVars, cause>>

\* `resumed': the captured frame is due, unless the view was hidden again.
MarkResumed ==
    /\ pc = "resume" /\ pc' = "drain" /\ job' = Plain("Wake")
    /\ pending' = IF stage[job.view] \in Held /\ ~pending[job.view].paused
                  THEN [pending EXCEPT ![job.view].state = TRUE] ELSE pending
    /\ UNCHANGED <<engineVars, queue, nap, dirty, more, frameDue, captured, batch,
                   panicked, hostStopping, sharedVars, hook, hostVars, stage, sentVars,
                   cause>>

\* `drain_events' takes the wakeup flag and a batch of events (of one here, so
\* that `more' happens), each on its own, with the flag first.
Drain ==
    /\ pc = "drain" /\ pc' = "capture"
    /\ wakeupQueued' = FALSE
    /\ batch' = IF engineEvents = <<>> THEN NoEvent ELSE Head(engineEvents)
    /\ engineEvents' = IF engineEvents = <<>> THEN <<>> ELSE Tail(engineEvents)
    /\ more' = (Len(engineEvents) > 1)
    /\ dirty' = (dirty \/ wakeupQueued \/ engineEvents # <<>>)
    /\ UNCHANGED <<screen, titles, reader, program, queue, nap, job, frameDue, captured,
                   panicked, hostStopping, sharedVars, hook, hostVars, viewVars, cause>>

Capture ==
    /\ pc = "capture" /\ pc' = "publish"
    /\ IF WantsFrames /\ dirty /\ frameDue
       THEN captured' = screen /\ frameDue' = FALSE /\ dirty' = FALSE
       ELSE UNCHANGED <<captured, frameDue, dirty>>
    /\ UNCHANGED <<engineVars, queue, nap, job, more, batch, panicked, hostStopping,
                   sharedVars, hook, hostVars, viewVars, cause>>

PublishDrained ==
    /\ pc = "publish"
    /\ Publish(captured, batch)
    /\ captured' = NoFrame /\ batch' = NoEvent
    /\ pc' = IF batch = Exit THEN "hook" ELSE "wait"
    /\ UNCHANGED <<engineVars, queue, nap, job, dirty, more, frameDue, panicked,
                   hostStopping, alive, hook, hostVars, stage, sentVars, cause>>

\* `notify_exit': the hook is taken, so it runs once.
NotifyExit ==
    /\ pc = "hook" /\ pc' = "wait"
    /\ hook' = IF hook = "set" THEN "taken" ELSE hook
    /\ UNCHANGED <<engineVars, queue, nap, job, dirty, more, frameDue, captured, batch,
                   panicked, hostStopping, sharedVars, hostVars, viewVars, cause>>

FrameIntervalPasses ==
    /\ ~frameDue /\ frameDue' = TRUE
    /\ UNCHANGED <<engineVars, queue, pc, nap, job, dirty, more, captured, batch,
                   panicked, hostStopping, sharedVars, hook, hostVars, viewVars, cause>>

-----------------------------------------------------------------------------
(* How the worker stops: closed, at host shutdown, or by a panic.          *)

ReceiveClose ==
    /\ Received("Close")
    /\ queue' = Tail(queue) /\ pc' = "ending"
    /\ cause' = IF cause = "none" THEN "close" ELSE cause
    /\ nap' = "idle"
    /\ UNCHANGED <<engineVars, job, dirty, more, frameDue, captured, batch, panicked,
                   hostStopping, sharedVars, hook, hostVars, viewVars>>

\* `terminate_and_wait' ends the program first; nobody drains its exit.
ReceiveShutdown ==
    /\ Received("Shutdown")
    /\ queue' = Tail(queue) /\ pc' = "ending" /\ hostStopping' = TRUE
    /\ program' = "exited"
    /\ cause' = IF cause = "none" THEN "shutdown" ELSE cause
    /\ nap' = "idle"
    /\ UNCHANGED <<screen, titles, engineEvents, wakeupQueued, reader, job, dirty,
                   more, frameDue, captured, batch, panicked, sharedVars, hook,
                   hostVars, viewVars>>

Panic ==
    /\ "Panic" \in Inputs /\ pc \notin {"ending", "ended", "dead"}
    /\ panicked' = TRUE /\ pc' = "ending"
    /\ cause' = IF cause = "none" THEN "panic" ELSE cause
    /\ UNCHANGED <<engineVars, queue, nap, job, dirty, more, frameDue, captured, batch,
                   hostStopping, sharedVars, hook, hostVars, viewVars>>

\* WorkerExit::drop, its first hold of the lock.
EndPane ==
    /\ pc = "ending" /\ pc' = "ended"
    /\ alive' = FALSE
    /\ IF hostStopping
       THEN /\ exited' = TRUE
            /\ pending' = [v \in Views |->
                  IF v \in subs /\ stage[v] \in Held
                  THEN [pending[v] EXCEPT !.stopping = TRUE] ELSE pending[v]]
            /\ UNCHANGED <<frame, sticky, subs>>
       ELSE IF exited THEN UNCHANGED <<exited, frame, sticky, subs, pending>>
       ELSE Publish(NoFrame, Exit)
    /\ UNCHANGED <<engineVars, queue, nap, job, dirty, more, frameDue, captured, batch,
                   panicked, hostStopping, hook, hostVars, stage, sentVars, cause>>

\* WorkerExit::drop, the rest: a panic runs the hook as if the program had
\* exited, then every subscription is closed.
CloseSubscriptions ==
    /\ pc = "ended" /\ pc' = "dead"
    /\ hook' = IF panicked /\ hook = "set" THEN "taken" ELSE hook
    /\ pending' = [v \in Views |->
           IF v \in subs /\ stage[v] \in Held
           THEN [pending[v] EXCEPT !.closed = TRUE] ELSE pending[v]]
    /\ subs' = {}
    /\ UNCHANGED <<engineVars, queue, nap, job, dirty, more, frameDue, captured, batch,
                   panicked, hostStopping, alive, exited, frame, sticky, hostVars, stage,
                   sentVars, cause>>

-----------------------------------------------------------------------------
(* A view's serving thread: `subscribe', then `next' in a loop.            *)

\* `ensure_alive' in `subscribe', and the state a new subscription starts from.
EnsureNothing == TRUE
EnsureAlive == alive
SeedWithoutExit == [title |-> sticky, exit |-> FALSE]
SeedFromProgram == [title |-> sticky, exit |-> program = "exited"]
ReplaySeed == [title |-> sticky, exit |-> exited]

\* A mutant of the next action: the published frame is taken as it is.
BeginSubscribeUnrefreshed(v) ==
    /\ stage[v] = "new" /\ stopping = "no" /\ EnsureAlive
    /\ stage' = [stage EXCEPT ![v] = "refreshed"]
    /\ born' = [born EXCEPT ![v] = screen]
    /\ UNCHANGED <<engineVars, queue, workerVars, sharedVars, hook, hostVars, pending,
                   shown, seenTitle, exits, stops, acked, detached, cause>>

\* The thread checks that the host is not stopping and the pane is alive, and
\* queues a refresh as soon as the queue has room.
BeginSubscribe(v) ==
    /\ stage[v] = "new" /\ stopping = "no"
    /\ \/ /\ EnsureAlive /\ Room
          /\ queue' = Append(queue, For("Refresh", v))
          /\ stage' = [stage EXCEPT ![v] = "asking"]
          /\ born' = [born EXCEPT ![v] = screen]
       \/ /\ ~EnsureAlive
          /\ stage' = [stage EXCEPT ![v] = "gone"]
          /\ UNCHANGED <<queue, born>>
    /\ UNCHANGED <<engineVars, workerVars, sharedVars, hook, hostVars, pending, shown,
                   seenTitle, exits, stops, acked, detached, cause>>

\* The refresh was not answered: in time, or ever by a worker that stopped.
\* Only a pane that ended is reported as missing; the rest is worth a retry.
RefreshFails(v) ==
    /\ stage[v] = "asking" /\ ("Timeout" \in Inputs \/ pc = "dead")
    /\ stage' = [stage EXCEPT ![v] = IF EnsureAlive THEN "failed" ELSE "gone"]
    /\ UNCHANGED <<engineVars, queue, workerVars, sharedVars, hook, hostVars, pending,
                   sentVars, cause>>

\* The registration, under the lock, with the replay seed.
Register(v) ==
    /\ stage[v] = "refreshed"
    /\ IF EnsureAlive
       THEN /\ stage' = [stage EXCEPT ![v] = "waking"]
            /\ subs' = subs \cup {v}
            /\ pending' = [pending EXCEPT ![v] =
                  [Idle EXCEPT !.state = TRUE,
                               !.replay = ReplaySeed]]
       ELSE /\ stage' = [stage EXCEPT ![v] = "gone"]
            /\ UNCHANGED <<subs, pending>>
    /\ UNCHANGED <<engineVars, queue, workerVars, alive, exited, frame, sticky, hook,
                   hostVars, sentVars, cause>>

\* A mutant of the next action: the worker is left asleep.
WakeNobody(v) ==
    /\ stage[v] = "waking"
    /\ stage' = [stage EXCEPT ![v] = "open"]
    /\ UNCHANGED <<engineVars, queue, workerVars, sharedVars, hook, hostVars, pending,
                   sentVars, cause>>

\* Output may have come between the refresh and the registration.
WakeWorker(v) ==
    /\ stage[v] = "waking"
    /\ stage' = [stage EXCEPT ![v] = "open"]
    /\ queue' = TrySend(queue, Plain("Wake"))
    /\ UNCHANGED <<engineVars, workerVars, sharedVars, hook, hostVars, pending,
                   sentVars, cause>>

\* `next' sends what comes first; each part below has waited for the ones
\* before it.  A closed subscription still sends its events.
AckDue(p)    == ~p.closed /\ p.ack # "none"
ReplayDue(p) == ~AckDue(p) /\ p.replay # NoReplay
EventsDueBeforeReplay(p) == ~AckDue(p) /\ (p.title # NoTitle \/ p.exit)
EventsDueWhileOpen(p) == ~p.closed /\ ~ReplayDue(p) /\ (p.title # NoTitle \/ p.exit)
EventsDue(p) == ~AckDue(p) /\ ~ReplayDue(p) /\ (p.title # NoTitle \/ p.exit)
StopDue(p)   == ~AckDue(p) /\ ~ReplayDue(p) /\ ~EventsDue(p) /\ p.stopping
QuietBeforeAck(p) == ~ReplayDue(p) /\ ~EventsDue(p) /\ ~StopDue(p)
QuietStream(p) == ~AckDue(p) /\ ~ReplayDue(p) /\ ~EventsDue(p) /\ ~StopDue(p)

SendAck(v) ==
    /\ stage[v] = "open" /\ AckDue(pending[v])
    /\ pending' = [pending EXCEPT ![v].ack = "none"]
    /\ acked' = [acked EXCEPT ![v] = pending[v].ack]
    /\ UNCHANGED <<engineVars, queue, workerVars, sharedVars, hook, hostVars, stage,
                   shown, seenTitle, exits, stops, detached, born, cause>>

Receive(v, title, exit) ==
    /\ seenTitle' = IF title # NoTitle THEN [seenTitle EXCEPT ![v] = title] ELSE seenTitle
    /\ exits' = IF exit THEN [exits EXCEPT ![v] = @ + 1] ELSE exits

SendReplay(v) ==
    /\ stage[v] = "open" /\ ReplayDue(pending[v])
    /\ Receive(v, pending[v].replay.title, pending[v].replay.exit)
    /\ pending' = [pending EXCEPT ![v].replay = NoReplay]
    /\ UNCHANGED <<engineVars, queue, workerVars, sharedVars, hook, hostVars, stage,
                   shown, stops, acked, detached, born, cause>>

SendEvents(v) ==
    /\ stage[v] = "open" /\ EventsDue(pending[v])
    /\ Receive(v, pending[v].title, pending[v].exit)
    /\ pending' = [pending EXCEPT ![v].title = NoTitle, ![v].exit = FALSE]
    /\ UNCHANGED <<engineVars, queue, workerVars, sharedVars, hook, hostVars, stage,
                   shown, stops, acked, detached, born, cause>>

SendHostShutdown(v) ==
    /\ stage[v] = "open" /\ StopDue(pending[v])
    /\ stops' = [stops EXCEPT ![v] = @ + 1]
    /\ pending' = [pending EXCEPT ![v].stopping = FALSE]
    /\ UNCHANGED <<engineVars, queue, workerVars, sharedVars, hook, hostVars, stage,
                   shown, seenTitle, exits, acked, detached, born, cause>>

EndStream(v) ==
    /\ stage[v] = "open" /\ pending[v].closed /\ QuietStream(pending[v])
    /\ stage' = [stage EXCEPT ![v] = "done"]
    /\ UNCHANGED <<engineVars, queue, workerVars, sharedVars, hook, hostVars, pending,
                   sentVars, cause>>

\* A frame takes two locks, one after the other: the flag is cleared under the
\* subscription's, the frame read under the pane's.
TakeFrame(v) ==
    /\ stage[v] = "open" /\ ~pending[v].closed /\ QuietStream(pending[v])
    /\ pending[v].state /\ ~pending[v].paused
    /\ pending' = [pending EXCEPT ![v].state = FALSE]
    /\ stage' = [stage EXCEPT ![v] = "reading"]
    /\ UNCHANGED <<engineVars, queue, workerVars, sharedVars, hook, hostVars,
                   sentVars, cause>>

\* Between the two locks the pane may be dropped: its Weak finds nothing, `next'
\* returns None, and the stream is cut off with its queue unsent.
ReadNothing(v) ==
    /\ stage[v] = "reading" /\ dropped
    /\ stage' = [stage EXCEPT ![v] = "cut"]
    /\ UNCHANGED <<engineVars, queue, workerVars, sharedVars, hook, hostVars, pending,
                   sentVars, cause>>

\* It is encoded afresh when the view asked for that (`take_resync').
SendFrame(v) ==
    /\ stage[v] = "reading" /\ ~dropped
    /\ stage' = [stage EXCEPT ![v] = "open"]
    /\ shown' = [shown EXCEPT ![v] = frame]
    /\ pending' = [pending EXCEPT ![v].resync = FALSE]
    /\ born' = [born EXCEPT ![v] = NoFrame]
    /\ UNCHANGED <<engineVars, queue, workerVars, sharedVars, hook, hostVars,
                   seenTitle, exits, stops, acked, detached, cause>>

\* A write to the view fails: its thread closes the subscription and ends.
WriteFails(v) ==
    /\ "Detach" \in Inputs /\ stage[v] \in {"open", "reading"}
    /\ stage' = [stage EXCEPT ![v] = "done"]
    /\ pending' = [pending EXCEPT ![v].closed = TRUE]
    /\ detached' = [detached EXCEPT ![v] = TRUE]
    /\ UNCHANGED <<engineVars, queue, workerVars, sharedVars, hook, hostVars, shown,
                   seenTitle, exits, stops, acked, born, cause>>

-----------------------------------------------------------------------------
(* What a view asks while attached (the `termy-session-detach' thread).    *)

Monitored(v) == stage[v] \in {"open", "reading"} /\ ~detached[v]
MayAsk == asks < MaxAsks

Hide(v) ==
    /\ "Hide" \in Inputs /\ Monitored(v) /\ MayAsk /\ ~pending[v].paused
    /\ asks' = asks + 1
    /\ pending' = [pending EXCEPT ![v] =
           [@ EXCEPT !.paused = TRUE, !.ack = "paused", !.state = FALSE]]
    /\ UNCHANGED <<engineVars, queue, workerVars, sharedVars, hook, stopping, dropped,
                   stage, sentVars, cause>>

\* Without room for the Resume, or a worker to take it, the published frame
\* must do.
Show(v) ==
    LET resume == Room /\ pc # "dead"
    IN  /\ Monitored(v) /\ MayAsk /\ pending[v].paused
        /\ asks' = asks + 1
        /\ queue' = IF resume THEN Append(queue, For("Resume", v)) ELSE queue
        /\ pending' = [pending EXCEPT ![v] =
               [@ EXCEPT !.paused = FALSE, !.ack = "resumed", !.state = ~resume]]
        /\ UNCHANGED <<engineVars, workerVars, sharedVars, hook, stopping, dropped,
                       stage, sentVars, cause>>

AskResync(v) ==
    /\ "Resync" \in Inputs /\ Monitored(v) /\ MayAsk
    /\ asks' = asks + 1
    /\ pending' = [pending EXCEPT ![v] =
           [@ EXCEPT !.resync = TRUE, !.state = ~pending[v].paused]]
    /\ UNCHANGED <<engineVars, queue, workerVars, sharedVars, hook, stopping, dropped,
                   stage, sentVars, cause>>

Detach(v) ==
    /\ "Detach" \in Inputs /\ Monitored(v)
    /\ detached' = [detached EXCEPT ![v] = TRUE]
    /\ pending' = [pending EXCEPT ![v].closed = TRUE]
    /\ UNCHANGED <<engineVars, queue, workerVars, sharedVars, hook, hostVars, stage,
                   shown, seenTitle, exits, stops, acked, born, cause>>

-----------------------------------------------------------------------------
(* What the host's other threads ask of the pane.                          *)

\* A request that needs the worker; a full queue makes its sender wait.
Ask(kind) ==
    /\ kind \in Inputs /\ MayAsk /\ Room /\ pc # "dead"
    /\ asks' = asks + 1 /\ queue' = Append(queue, Plain(kind))
    /\ UNCHANGED <<engineVars, workerVars, sharedVars, hook, stopping, dropped, viewVars,
                   cause>>

\* `on_exit' holds the slot while it reads `exited', which the worker sets
\* before it takes the slot.
RegisterHook ==
    /\ "Hook" \in Inputs /\ hook = "unset"
    /\ hook' = IF exited THEN "taken" ELSE "set"
    /\ UNCHANGED <<engineVars, queue, workerVars, sharedVars, hostVars, viewVars, cause>>

HostStops ==
    /\ "Stop" \in Inputs /\ stopping = "no" /\ stopping' = "asked"
    /\ UNCHANGED <<engineVars, queue, workerVars, sharedVars, hook, dropped, asks,
                   viewVars, cause>>

SendShutdown ==
    /\ stopping = "asked" /\ Room
    /\ stopping' = "sent" /\ queue' = Append(queue, Plain("Shutdown"))
    /\ UNCHANGED <<engineVars, workerVars, sharedVars, hook, dropped, asks, viewVars, cause>>

\* The last who hold the pane let go of it: the worker when it has ended, and the
\* host after a Close, or when it has waited for the panes it shuts down.
DropPane ==
    /\ pc = "dead" /\ ~dropped /\ dropped' = TRUE
    /\ "Close" \in Inputs \/ stopping = "sent"
    /\ UNCHANGED <<engineVars, queue, workerVars, sharedVars, hook, stopping, asks,
                   viewVars, cause>>

-----------------------------------------------------------------------------
Program == Output \/ SetTitle \/ ProgramExits
Worker ==
    \/ ComputeTimeout \/ TimedOut \/ ReceiveWake \/ ReceiveChange \/ ReceiveUnchanged
    \/ \E kind \in {"Refresh", "Viewport", "Resume"} : ReceiveCapture(kind)
    \/ PublishCapture \/ MarkResumed \/ Drain \/ Capture \/ PublishDrained \/ NotifyExit
    \/ ReceiveClose \/ ReceiveShutdown \/ EndPane \/ CloseSubscriptions
Stream(v) ==
    \/ Register(v) \/ WakeWorker(v) \/ SendAck(v) \/ SendReplay(v) \/ SendEvents(v)
    \/ SendHostShutdown(v) \/ EndStream(v) \/ TakeFrame(v) \/ SendFrame(v)
    \/ ReadNothing(v)
Client(v) ==
    \/ BeginSubscribe(v) \/ RefreshFails(v) \/ WriteFails(v)
    \/ Hide(v) \/ Show(v) \/ AskResync(v) \/ Detach(v)
Host ==
    \/ \E kind \in {"Change", "Viewport", "Close"} : Ask(kind)
    \/ RegisterHook \/ HostStops \/ SendShutdown \/ DropPane

Next ==
    \/ Program \/ Notify \/ Worker \/ FrameIntervalPasses \/ Panic \/ Host
    \/ \E v \in Views : Stream(v) \/ Client(v)

Spec == Init /\ [][Next]_vars

\* The threads that run on their own keep running: the PTY reader, the worker,
\* each serving thread, the shutdown, and the clock.  A refresh left in the
\* queue of a dead worker fails.  Clients and the program promise nothing.
Fairness ==
    /\ WF_vars(Notify) /\ WF_vars(Worker) /\ WF_vars(FrameIntervalPasses)
    /\ WF_vars(SendShutdown)
    /\ \A v \in Views : WF_vars(Stream(v)) /\ WF_vars(RefreshFails(v) /\ pc = "dead")

FairSpec == Spec /\ Fairness

-----------------------------------------------------------------------------
(* Properties.                                                             *)

EngineType ==
    /\ screen \in Frames /\ titles \in 0..MaxTitle
    /\ engineEvents \in Seq(Events) /\ wakeupQueued \in BOOLEAN
    /\ reader \in {"idle", "notify"} /\ program \in {"running", "exited"}
QueueType == queue \in Seq(Work) /\ Len(queue) <= QueueSize
WorkerType ==
    /\ pc \in {"wait", "recv", "answer", "resume", "drain", "capture", "publish",
               "hook", "ending", "ended", "dead"}
    /\ nap \in {"zero", "frame", "idle"} /\ job \in Work
    /\ dirty \in BOOLEAN /\ more \in BOOLEAN /\ frameDue \in BOOLEAN
    /\ captured \in Frames \cup {NoFrame} /\ batch \in Events \cup {NoEvent}
    /\ panicked \in BOOLEAN /\ hostStopping \in BOOLEAN
SharedType ==
    /\ alive \in BOOLEAN /\ exited \in BOOLEAN /\ frame \in Frames
    /\ sticky \in 0..MaxTitle /\ subs \subseteq Views
HostType ==
    /\ hook \in {"unset", "set", "taken"}
    /\ stopping \in {"no", "asked", "sent"} /\ dropped \in BOOLEAN /\ asks \in 0..MaxAsks
    /\ cause \in {"none", "exit", "close", "panic", "shutdown"}
ViewType ==
    /\ stage \in [Views -> Stages] /\ pending \in [Views -> Pending]
SentType ==
    /\ shown \in [Views -> Frames \cup {NoFrame}] /\ seenTitle \in [Views -> 0..MaxTitle]
    /\ exits \in [Views -> Nat] /\ stops \in [Views -> Nat]
    /\ acked \in [Views -> Acks] /\ detached \in [Views -> BOOLEAN]
    /\ born \in [Views -> Frames \cup {NoFrame}]

\* Every variable of the pane has its type, and the queue keeps its capacity.
TypeOK ==
    EngineType /\ QueueType /\ WorkerType /\ SharedType /\ HostType /\ ViewType /\ SentType

\* A subscription that is open is one the worker knows of, and none is left
\* open by a worker that stopped: its view would wait for ever (`subscribe'
\* against `WorkerExit').
NobodyForgotten ==
    \A v \in Views : stage[v] \in Held /\ ~pending[v].closed
                        => v \in subs /\ pc # "dead"

Count(b) == IF b THEN 1 ELSE 0
ExitsOf(v) == exits[v] + Count(pending[v].replay.exit) + Count(pending[v].exit)
StopsOf(v) == stops[v] + Count(pending[v].stopping)

\* A view is told at most once that its pane ended: a registration racing the
\* exit gets it from the replay seed or live, never from both, and a later
\* close, shutdown or panic does not repeat it.
ExitToldOnce == \A v \in Views : ExitsOf(v) <= 1 /\ StopsOf(v) <= 1

\* Once the worker has stopped, every view still attached was sent the end, or
\* has it in its queue, whatever ended the pane; and a stream that ended before its
\* view left has sent it (audit B10, I10).  A stream that is cut off has not: see
\* EndReachesViews.
EndIsTold ==
    \A v \in Views : ~detached[v] =>
        /\ pc = "dead" /\ stage[v] \in Held => ExitsOf(v) + StopsOf(v) >= 1
        /\ stage[v] = "done" => exits[v] + stops[v] >= 1

\* A pane that ends with its host is not reported as exited: views keep their
\* tabs (`WorkerExit::host_stopping').
ShutdownIsNoExit ==
    \A v \in Views : ExitsOf(v) > 0 => cause \in {"exit", "close", "panic"}

\* The first frame a view is sent is no older than the screen was when it asked
\* to subscribe; this is what `subscribe' refreshes for.
FirstFrameFresh ==
    [][\A v \in Views : SendFrame(v) => frame >= born[v]]_vars

\* After the host has confirmed that a view is hidden it sends it no frame until
\* it has confirmed that it is shown again (`Update::Paused').
NoFrameWhileHidden ==
    [][\A v \in Views : SendFrame(v) => acked[v] # "paused"]_vars

\* A view never sees the title go back to an older one, whichever of the replay
\* seed and the live events brings it.
TitleNeverGoesBack ==
    [][\A v \in Views : seenTitle'[v] >= seenTitle[v]]_vars

Watching(v) == stage[v] \in {"open", "reading"} /\ ~pending[v].closed
                 /\ ~pending[v].paused /\ alive

\* A visible view of a live pane always catches up with the screen, without
\* relying on the worker's idle timeout: no wakeup is lost to a full queue, to a
\* registration, to a pause or to the frame interval.
FramesConverge ==
    \A v \in Views : []<>(Watching(v) => shown[v] = screen)

\* A view that is attached when the pane ends has its stream ended, and was told
\* why before, unless it left.  Excepted is the view whose thread was between the
\* two locks of a frame when the pane was dropped: it is cut off, and not told.
EndReachesViews ==
    \A v \in Views :
        (stage[v] \in Held /\ ~alive)
            ~> \/ stage[v] = "done" /\ (detached[v] \/ exits[v] + stops[v] >= 1)
               \/ stage[v] = "cut" /\ dropped

=============================================================================
