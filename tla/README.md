# Verification of Termy's protocols

Termy is a terminal emulator. Its sessions outlive its windows: a *session
host* process owns the terminals ("panes") and windows, command-line tools and
SDKs are its clients. These TLA+ modules model that core
(`crates/core/src/multiplexer/`, `crates/core/src/remote/`), the order in which
a program reads its replies (`crates/core/src/runtime/custom_backend`), the
connection to a tmux (`crates/core/src/tmux_control_core`) and the relay
between devices (`crates/relay`). TLC checks them on small instances, and TLAPS
proves what matters most for every instance.

Paths below are relative to `src/crates/core/src/` unless they start with
`crates/` or `docs/`. `PROJECT.json` gives, for every definition, the lines of
the source it stands for.

## 1. Inventory

### The multiplexer

| Part | State it keeps | Operations | Makes it correct |
|---|---|---|---|
| Pane worker (`multiplexer/pane.rs`) | the terminal, `dirty`, `last_frame`, a bounded work queue, the published frame and sticky events, weak references to the subscriptions, the exit hook | wake, change, viewport, refresh, resume, close, shutdown, panic | every view sees the latest screen, the events once and in order, and the end of the pane exactly once |
| Subscription (`pane.rs`, `serve_client` in `server.rs`) | `Pending`: a frame is due, live events, the replay, paused, the confirmation, resync, closed | subscribe, pause, resume, resync, take the next update, close | a hidden view gets no frames, a shown one catches up |
| Clipboard bridge (`pane.rs`, `runtime/custom_backend/deferred.rs`) | parked requests with deadlines, ordered slots, the count of events on their way | route a reply, defer, answer, expire, cancel, write | one reply per request, in the order of the requests, none after a reset |
| Host (`server.rs`) | the panes, `stopping`, connections, pending authentication | Create, Close, Attach, Shutdown, hand out layouts | no program runs on unseen, none outlives the host, the host stops |
| Layout store (`layout_store.rs`) | the layout, its revision | get, compare and set, prune a pane, wait for a change | no edit undoes another |
| Layout edits of a client (`layout.rs`, `client.rs`, desktop's `multiplexer.rs`) | the layout read, the attempts made | create a tab, split, close, reconcile | a pane and its place in the layout come and go together |
| Frame stream (`remote/frame.rs`, `remote/graphics.rs`, `client.rs`, `client/terminal.rs`) | encoder and decoder with a frame and an image cache each, `disconnected`, `paused` | encode, apply, pause, resync, lose the stream, subscribe again | every delta fits the frame it is applied to, both caches agree |
| Render damage (`remote/frame.rs`, `remote/backend.rs`) | damage since the last render, scrolls to replay | apply a delta, take the damage | what is drawn is the frame |
| Event queue (`protocol.rs`) | events nobody has read yet | coalesce, evict a shell cycle | bounded, and no finished command without its start |
| Input queue (`client.rs`) | commands to send, settings to send again | push, wait for room, pop, close | order of input, the latest setting wins |
| Discovery and watchdog (`discovery.rs`, `server.rs`) | lock file, endpoint file | start, repair, give way | one host per directory |

Clients talk to the host over TCP: a connection for requests and replies, and
one for each view's subscription, on which the host sends updates and the view
sends pauses and resync requests. Inside the host, a thread per connection
calls the pane's worker through its queue and reads what the worker shares
under a mutex; the PTY reader wakes the worker through the same queue. The
exit hook of a pane calls the layout store. The behaviours that are hard:

- *interleaving*: subscribing, pausing, closing and exiting race under four
  locks and one queue; clients and host edit the layout at once;
- *bounded resources*: wakeups and resumes are dropped when the queue is full,
  images leave the cache, scrolls are forgotten, updates of the layout give up;
- *failure*: replies come late or are lost, clients vanish, workers panic or
  ignore a Close, streams break and are opened again, a program exits at any
  moment, and the host is told to stop in the middle of all this.

### tmux and the relay

| Part | State it keeps | Operations | Makes it correct |
|---|---|---|---|
| tmux control mode (`tmux_control_core/control/`, `session.rs`) | the queue of requests, the slot of the announced one, the tracker of outstanding commands and blocks, the coalescer and the bounded channel to the UI | send, announce, write, give up, read a block or token, flush, drop the session | an answer is tmux's answer to that request, nothing waits for ever, nothing dropped goes unnoticed |
| Relay hub (`crates/relay/src/hub.rs`) | per device: the socket's serial, its queue, its peers | connect, route, add and remove a pair, revoke, disconnect | packets pass between paired devices only, presence is true |
| Relay API (`crates/relay/src/api.rs`, `db.rs`) | devices, links and pairings in the database; a gate | socket, offer, claim, approve, unpair, remove | hub and database agree about each pair |

A caller of tmux queues a request; a writer thread announces it to the reader,
writes it with a token on a line of its own and waits for the token for a time;
the reader gives the blocks that come to the oldest outstanding request. The
hard part is that the times of caller and writer run out while tmux still
answers, and that a reader blocked on the UI's full channel holds up the answer
the UI waits for. In the relay, an API call writes to the database and then
tells the hub, under a gate that a connecting socket takes for its lookup; the
hub's loops send through bounded queues and drop a peer that does not read.

### The rest of the repository

Listed in `PROJECT.json` as `not_modelled`, each with its reason: the terminal
engine (parser, grid, media), the local backend with the engine lock, the PTY
transport, the session model (layout edits, merge, rebase), the plugin runtime, search, configuration, updates, the foreign
interfaces, the desktop application, the command line, and the Swift,
TypeScript and WebAssembly front ends. Those with concurrency or a protocol of
their own are in the plan (section 8); the others are sequential functions over
text and cells, bindings, user interface or I/O.

## 2. Modules

| Module | Models | Role |
|---|---|---|
| `Pane` | one pane: engine, queue, worker, subscriptions | one action per step of a thread |
| `MCPane`, `PaneProofs` | | instances; proofs |
| `LayoutSpec` | what the layout store promises | abstract specification |
| `Host` | the host's panes and layout with its clients | implements `LayoutSpec` |
| `MCHost`, `HostProofs` | | instances; proofs |
| `FrameStream` | one subscription, from the worker's capture to the frame shown | |
| `MCFrameStream`, `FrameStreamProofs` | | instances; proofs |
| `RowDamage` | the rows of frames and the damage of renders | |
| `MCRowDamage`, `RowDamageProofs` | | instances; proofs |
| `Replies` | what a program reads: replies, clipboard answers, resets | |
| `MCReplies`, `RepliesProofs` | | instances; proofs |
| `TmuxControl` | requests, blocks and notifications of a tmux | |
| `MCTmuxControl`, `TmuxControlProofs` | | instances; proofs |
| `Relay` | the hub with pairing, unpairing and removal | |
| `MCRelay`, `RelayProofs` | | instances; proofs |

The first four models look at one system at four magnifications. `Host` reduces a
pane to the life of its worker and program; `Pane` opens it and reduces the
frames to versions; `FrameStream` opens one subscription and reduces frames to
size, images and generation, in the knowledge that a frame on the right base is
rebuilt; `RowDamage` shows that it is. `Replies` is the way back, from a pane's
worker to its program. `TmuxControl` and `Relay` are systems of their own.

Some definitions precede the one they are a variation of and are commented as
its mutants: plausible errors (a dropped guard, a swapped order, a missing
reset), used to confirm that each property can fail.

### Pane

A step is what one thread does while it holds one lock, or one call on the
queue. `pc` is the worker's place in `run`; `stage` is the place of each view's
serving thread (`subscribe`, then `serve_client`). Screens and titles are
versions, so that "older" can be said. `queue` is the bounded channel: what the
code sends with `try_send` is lost when it is full. `Inputs` selects what an
instance lets happen: a panic, a late hook, a refresh that times out. A stream
holds its pane only weakly: once the worker is gone and the host has let go of the
pane (`dropped`), a view that had just been taken a frame for is `cut` off.

### Host and LayoutSpec

A client carries out one operation. While it waits, its `step` is that of the
thread that serves it, so `Creating` runs from the request to the answer,
`Updating` alternates `get` and `compare_and_set`, `Ending` is a Close. `late`
and `left` say that the client gave up, or is gone. A pane's program and worker
are separate: a Close hangs a program up, a drained pane is waited for until a
deadline. The history `unclosed` keeps the panes that somebody could not close and
logged or answered so: their worker did not take the Close (`close_unregistered`,
`Close`), nobody could read the layout or reach the host (`forget_unregistered_pane`),
or the deadline of the shutdown passed (`wait_closed`). `Faults` selects which of
this an instance has: requests and replies late or lost, clients that leave, stuck
workers.
`LayoutSpec` has the panes listed and a version, and changes by one edit of the
layout as it is. `Host!Layout` is `INSTANCE LayoutSpec` with the store's fields;
`LayoutEdits` is the property that it implements it.

### FrameStream

The host's half is the worker (`Output`, `Publish`, `CaptureForResume`), the
thread that reads the view's requests (`ReadSetPaused`, `ReadResync`) and the
one that sends (`SendPaused`, `TakeState`, `SendFrame`): taking a state and
sending its frame are two steps, between which a pause can arrive. `down` and
`up` are the connection. The client's half is its reader thread, with
`EndStream` and `Resubscribe` for `reattach`, and the view's thread
(`SetWakeupEnabled`). Encoder and decoder are one cache of images each, the
host's in the order of use, with the budget `CacheBudget`. A screen may fail
`validate_state`, so that full frames are refused and streams end.

### RowDamage

Frames have rows of cells, an offset into the history and a length of it.
`DeltaFrame` encodes with the better of two shifts, applies the delta to what
the client shows and collects its damage; `FullFrame` replaces it; `Render`
takes the damage or falls back to comparing or drawing everything. `drawn` is
what is then on screen.

### Replies

The program's requests are numbered in the order of its output. The feeder
parses under the engine lock (`feeder`), keeps the replies of a slice in `held`
and either writes them at its end or, while something is owed, puts them into
the event queue (`events`, bounded, with its compaction). The worker loops
through `phase`: receive, expire, take a batch of events into `jobs`. `slots`
are the writes of `DeferredClipboard`, `inFlight` is `ordered_in_flight`, and
`written` what has been written and not yet taken off it, for which the worker
needs the engine lock. Views come one after the other (`open`), answer the
oldest thing they were asked, or never.

### TmuxControl

`writer` and `reader` are the two threads' places, `slot` and `completed` what
they share, `input` and `stream` the pipes. `outstanding` and `open` are the
tracker: which requests await their token, and whose block is being read. The
histories `ran`, `heard` and `lost` say what tmux did for each request, what
was taken for its answer, and which tokens were lost. The UI takes
notifications only while no caller waits (`Poll`).

### Relay

A socket's loop is at a place (`at`): looking its peers up under the gate,
serving, dropping a slow peer, ended. An API call is at a stage: its queries to
the database, each a step, then the hub. `Settling` are the pairs the call in
progress is about to settle with the hub. Any of its queries may be its last
(`Abandon`: an error, or a caller that hangs up); the history `stale` marks the
connections that were open then and were not told of what the database has, until
they end or a later call speaks of the pair.

## 3. Runs

| Run | Question | Bounds |
|---|---|---|
| `pane_ends` | does every view learn, once, how its pane ended? | 1 view, queue of 2, every kind of end |
| `pane_frames` | does a view see the newest screen and title, in order, and nothing while hidden? | 1 view, queue of 1, 1 change, 2 titles, 2 requests |
| `host_layout` | does any program run on unseen, or any edit undo another? | 3 clients, 2 panes, 2 attempts; requests and replies late or lost, clients that leave, failed refreshes, stuck workers, exits |
| `host_stop` | does a stopping host stop, with the programs it drained ended, and is a pane closed whose creator gave up? | 2 clients, 2 panes (one whose program may exit), recoveries, workers that ignore a Close or a Shutdown |
| `frame_stream` | does each frame fit, do the caches agree, does the view catch up? | 2 images, cache of 1, 2 generations, 2 toggles, 2 faults, 3 updates under way |
| `row_damage` | is each frame rebuilt, and what is drawn the frame? | sizes 3x1 and 2x2, 2 cells, moves by 2, 2 scrolls kept, 3 frames |
| `replies` | is every request settled, in order, and nothing said after a reset? | 3 requests, 2 views, 2 events queued, batches of 1, 2 waiting, 2 slots, queue of 1 |
| `tmux` | is every answer the right one, and does nothing wait or vanish? | 2 requests, a block each, 1 notification, 1 lost token, 1 place in each queue |
| `relay` | do hub and database agree, and devices know who is there? | a host with 2 sockets that may remove itself, a client, queues of 2; calls that end after any of their queries |
| `host_recover`, `frame_resume`, `replies_order` | promises of the code's own comments that it does not keep | the smallest instance that shows it |

**Why the bounds are enough.** The constants are chosen so that each limit is
reached: the queue of one or two is full while something is sent; the cache of
one image evicts with two images and overflows within a frame; two attempts at
the layout can both be lost to two other clients; two scrolls are exceeded by
three frames. Views share nothing but the worker's lists, and one already
subscribes before, during and after each of its steps; that a second view
cannot be forgotten is proved for any number. Two panes and three clients let
one client lose two races while a third works on the other pane. Frames of
three rows can move by less than, exactly and more than the screen. Of three
requests of a program one can be answered while the next waits and the last is
queued behind it, with the event queue overflowing and a view replaced by
another in between; one batch per event makes a Reset meet what waits. Two
requests to tmux let the answer of one come when the other is announced, and
the one place in each queue makes every send a full one. Two sockets of one
device are what the serial of a connection is for. All runs say
`CHECK_DEADLOCK FALSE`: panes end, hosts stop and the bounds run out.

**What the properties say**

- `NobodyForgotten`, `EndIsTold`, `ExitToldOnce`, `ShutdownIsNoExit`,
  `EndReachesViews`: a subscription that races the end is either refused or
  told, once, and of the right kind of end, also after a panic. `EndReachesViews`
  excepts the view that is cut off while it is sent a frame (section 7).
- `FirstFrameFresh`, `FramesConverge`, `TitleNeverGoesBack`,
  `NoFrameWhileHidden`: what a view sees is never older than what it asked for
  or saw, and catches up although wakeups are dropped.
- `NoOrphan`, `GivenUpCreatesEnd`, `DrainedProgramsEnd`, `ShutdownEnds`,
  `LayoutEdits`: the host's promises. A pane that runs is listed or somebody is at
  work on it; a drained program has ended when the host has; a Create that was given
  up is closed. Excepted are the panes in `unclosed`, which the code leaves running
  and says so; `NothingGivenUp` proves that there are none without the faults that
  make them.
- `FramesFit`, `CachesAgree`, `HiddenGetsNoFrames`, `CatchesUp`: the two ends
  of a stream.
- `ShownIsScreen`, `DrawnIsShown`: the data of frames.
- `InOrderUnlessDecoding`, `InFlightCounted`, `WaitingHasDeadline`,
  `ResetForgets`, `EveryRequestSettled`: the replies of a program. The first
  excepts replies held while an image is decoded, which is the finding of
  `replies_order`. `ResetForgets` covers the step of the reset itself, and excepts
  the answers that were in the slots before it, which that step writes.
- `AnswersTrue`, `RequestsAnswered`: a request gets tmux's answer to it, an
  error or a timeout, and never waits for ever; `LossIsRefreshed`, `ExitIsTold`,
  `ThreadsEnd`: what the coalescer drops is made up for by a refresh, the exit
  reaches the UI, and both threads end with the session.
- `HubAgrees`: hub and database agree about every pair no call is changing;
  `ToldTruth`: what a device was told about a peer is so. Both except the
  connections marked `stale`, and those only about the pair of the call that ended
  before it reached the hub. `NobodyElseDropped`:
  only the socket that was slow, or is replaced or removed, is dropped.

## 4. Fairness

Weak fairness on each *thread* of the code that loops or has work under way:
the worker, the PTY reader's wakeup, the serving threads, the client's reader,
the host's drain. Each of these blocks only on a lock held for a bounded time,
on its queue, or on a socket; the fairness condition of the frame stream
groups a thread's actions, so that one action of it may starve another if the
code lets it. The clock passes the frame interval. Nothing is assumed of users,
programs, networks or the idle timeout: views need not subscribe or be shown
again, programs need not exit, faults need not happen. That a captured frame is
published is only assumed while somebody wants it (`Publish /\ ~pending.paused`), as the
worker does not capture otherwise. `CatchesUp` excepts a view that is left
paused: that case is the finding of `frame_resume`. `FramesConverge` does not
use the worker's idle timeout, so a lost wakeup is not hidden by it.

`Replies` assumes that the feeder finishes a slice it has begun, that the worker
runs and that deadlines pass; nothing of the program or the views. `TmuxControl`
assumes that the writer, the reader and the polling UI run, and that a caller
stops waiting in the end; nothing of tmux, which may be silent for ever. The
properties of `Relay` are safety.

## 5. Proofs

All proofs hold for every value of the constants that meets the named
assumption of the module (`ConstantsAssumption`, `HostAssumption`,
`FrameAssumption`, `RowAssumption`, `RepliesAssumption`, `TmuxAssumption`,
`RelayAssumption`): any number of views, panes, clients, images, requests, blocks,
devices, sockets, any bounds.

| Theorem | States | Invariant |
|---|---|---|
| `PaneProofs!TypeCorrect` | `[]TypeOK`, with the queue within its capacity | itself |
| `PaneProofs!ServedForEver` | `[]NobodyForgotten` | `Served` |
| `PaneProofs!ToldOnce`, `ToldTheEnd`, `NoExitAtShutdown` | `[]ExitToldOnce`, `[]EndIsTold`, `[]ShutdownIsNoExit` | `Ends` |
| `PaneProofs!HiddenIsQuiet` | `NoFrameWhileHidden` | `HiddenKnown` |
| `PaneProofs!TitleForward` | `TitleNeverGoesBack` | `TitlesForward` |
| `PaneProofs!FirstFrame` | `FirstFrameFresh` | `Fresh` |
| `HostProofs!InvariantHolds`, `TypeCorrect` | `[]Invariant`, `[]TypeOK` | `Invariant` |
| `HostProofs!DrainedEnd` | `[]DrainedProgramsEnd` | `Invariant` |
| `HostProofs!NoOrphanEver` | `[]NoOrphan`, given no recovery (`Calm`) | `Invariant /\ Kept /\ Apart` |
| `HostProofs!NothingGivenUp` | `[](unclosed = {})`, given no lost request or reply and no stuck worker | itself |
| `HostProofs!LayoutRefined` | `LayoutEdits`: the store with its clients implements `LayoutSpec`, given no recovery | `Invariant` |
| `FrameStreamProofs!HiddenQuiet` | `[]HiddenGetsNoFrames` | `Invariant` (`Ordered`) |
| `FrameStreamProofs!TypeCorrect` | `[]TypeOK`, with no image twice in the host's cache | `Invariant /\ Types` |
| `FrameStreamProofs!FramesAlwaysFit`, `CachesAlwaysAgree` | `[]FramesFit`, `[]CachesAgree` | `Invariant /\ Types /\ InStep` |
| `RowDamageProofs!FramesRebuilt` | `[]ShownIsScreen` | `Invariant` (`Framed`) |
| `RowDamageProofs!TypeCorrect`, `DamageSuffices` | `[]TypeOK`, `[]DrawnIsShown` | `DamageInv` |
| `RepliesProofs!OrderKept` | `[]InOrderUnlessDecoding` | `IInv /\ WorkTyped` |
| `RepliesProofs!CountsRight` | `[]InFlightCounted` | `Base`, which is `IInv /\ WorkTyped /\ Waits` |
| `RepliesProofs!TypeCorrect` | `[]TypeOK`, with every queue within its bound | `Base /\ Types` |
| `RepliesProofs!DeadlineKept` | `[]WaitingHasDeadline` | `Base /\ Types /\ LookedAfter` |
| `RepliesProofs!ResetKept` | `ResetForgets` | `Base /\ Types /\ AfterReset` |
| `TmuxControlProofs!TypeCorrect` | `[]TypeOK`, and a thread that works has something to work on | `Typed` |
| `TmuxControlProofs!LossRefreshed` | `[]LossIsRefreshed` | `Typed /\ LossIsRefreshed` |
| `TmuxControlProofs!AnswersHold` | `[]AnswersTrue` | `Typed /\ Pipeline` |
| `RelayProofs!HubAgreesEver` | `[]HubAgrees` | `IInv /\ Pointed` |
| `RelayProofs!TypeCorrect` | `[]TypeOK`, with every queue within its bound | `Sound` |
| `RelayProofs!OnlyOwnDropped` | `NobodyElseDropped` | `Sound` (`Attached`) |
| `RelayProofs!ToldTruthEver` | `[]ToldTruth` | `IInv /\ Pointed /\ Sound /\ Informed` |

- **`Served`.** `NobodyForgotten` is not inductive: closing the subscriptions
  is the last thing a worker does, after it has marked the pane as over. `Served`
  adds that a registration is only possible before that mark (`EndMarked`) and
  that a dead worker has closed all it knew (`AllClosed`).
- **`Ends`.** What a view is told of the end comes from three places: the seed of
  its registration, the live event and the close of all subscriptions. `ExitOrder`
  says that the program's exit is the last of its events and is published once;
  `CauseKnown`, who ended the pane and from when on; `ViewEnds`, for each view, that
  it is told nothing before that, and has been told, or has it in its queue, from
  then on.
- **`HiddenKnown`.** A view's pause and the last answer it was sent may differ
  while an answer is in its queue; a view whose frame is being read was last told
  that it is shown.
- **`TitlesForward`.** Titles wait in the order they happened (`TitleOrder`), and for
  each view what it saw, its replay seed, its queue and the published title are in
  that order (`ViewTitles`): the seed is taken under the same lock as the
  registration.
- **`Fresh`.** Frames are published in the order they were captured, and the answer
  to a view's refresh was captured after the view asked (`ViewFresh`).
- **`Invariant` of Host.** `StepOK` ties each client's step to its operation,
  `Begun` says that a pane's identifier appears nowhere before its Create has
  started it, `Reads` that a client about to write holds the layout as it was at
  its revision (which is what makes the write a single edit), `Ends` what has
  become of the drained panes.
- **`Kept`, `Apart`.** That no program runs on unseen needs to know who looks after
  each pane at every step: `Guards` says that it is listed, has a client that
  created it or closes it, or is in `unclosed`; `Registered` that a Close finds it,
  `OneCreator` that nobody else launches it, `Apart` that nobody lists or closes it
  before that. `Calm` leaves out recoveries, as `host_layout` does: a recovery does
  leave running panes unlisted (finding 1). Every other fault is allowed.
- **`Ordered`.** The invariant is about the *last confirmation* before each
  place in the stream (`LastIs`): the next one due tells what the view asked
  last, or else the last one sent did, and each frame, taken or sent, follows one
  that says the view is shown. The lemmas `ConcatLast`, `AppendLast` and
  `TailLast` say what sending and reading do to it.
- **`Types` of FrameStream.** What the encoder does to its cache is an algorithm
  on a list. `EncodedRight` says what it comes to: the new cache lists, each once,
  the images remembered and the images shown, without those evicted, which are
  not shown; and what is uploaded is what was not remembered. It rests on lemmas
  about lists of a set (`SetListed`, `ListsJoined`, `ListCut`, `OthersListed`); a
  terminal shows finitely many images at a time (`FrameAssumption`).
- **`InStep`.** The host encodes against what the client *will* have when it has
  read all that was sent. `Leads` says that reading the stream, each update of
  which can be used, leads from what the client has now to that; `Agrees`, that
  it then shows the state the next delta starts from and has the images of the
  host's cache, or some of them if it then knows that it is hidden. Sending
  adds a step at the end (`LeadsFurther`), reading takes one off (`LeadsOn`).
  `FramesFit` is the first step, `CachesAgree` the case of no step. This needs
  that a frame is only under way to a view that is not paused (`Agrees`): a view
  told that it is hidden forgets images the host still counts on, until the
  host, on resuming, forgets them all.
- **`DeltaExact`**: applying the delta of two frames of one size to the first
  gives the second, whatever the shift; `FramesRebuilt` follows.
- **`DamageInv`.** The renderer draws from what it drew last, so the damage must
  say how the frame drawn becomes the frame shown, which may be many deltas
  later. `Explains` says so: the frame drawn, scrolled as collected, has every
  cell of the frame shown outside the columns collected. `RecordExplains` keeps it
  when a delta is added: its scroll is appended, the columns move with their
  rows, and a cell that the delta does not write was one row run away before
  (`SpansCover`). The scrolls are replayed one after the other; that a longer list
  replays the shorter one and then the new scroll (`ScrolledInTurn`) is shown by a
  least counterexample over the natural numbers (`HasLeast`).
- **`IInv` of Replies.** The order of what was sent needs the order of all that is
  owed: `Lined` says that slots, jobs and events each hold rising numbers, in that
  order behind what was sent; `Counted`, that nothing is owed exactly when the
  count of the events and `inFlight` say so, so that the feeder's check is right
  although the worker takes, writes and drops under other locks; `HeldFirst`, that
  the replies of a slice were held when nothing was owed, and that nothing owed
  since can be written before the engine lock is let go of. Where it is let go of
  early, for an image, the held replies are in `delayed`. `Waits` counts the slots
  that wait; `WorkTyped` keeps the numbers of requests on their way to a view and
  back.
- **`Types`, `LookedAfter`, `AfterReset` of Replies.** The event queue stays within
  its bound since compaction leaves one event at most. `LookedAfter` relates the
  slots that wait to the requests of the bridge and the answer that has been
  taken: they are changed in different steps, and each step that drops a request
  completes its slot. `AfterReset` follows the requests through events, jobs and
  slots: those that can still be answered are younger than the last reset, and
  behind a reset in a queue there are only younger ones, also when a full queue is
  compacted and the reset stands behind all that was parsed. Both rest on one lemma
  (`MovesStep`): whatever is written, and whatever keeps a slot, is of a request
  that had a slot or was at the head of the worker's jobs.
- **`Pipeline`.** The reader gives a block to the oldest request, whoever's it is:
  that this is right is a fact about the whole pipe, from the writer to the
  tracker. `Ordered` says that what tmux has written, what it has not read yet
  and what the writer is about to write follow the order of the announcements,
  and that a token is the last of its request; `Come`, that each token which is
  not lost is still to come, ahead of the blocks of later requests. So the block
  at the head of the stream is the oldest request's, or the oldest has lost its
  token. `Counted` counts a request's blocks back from its token: what was
  heard is the beginning of what was run, and the rest is in the stream. The
  three are operators on the parts of the pipe, with a lemma for each way a step
  changes them (a pop, an announcement, a write, a token, an output of tmux).
  `Traceless` and `InPlace` say that a request goes through the writer once;
  `Answered`, that what was answered is done with. A request that times out
  stays where it is in all of this, which is why its late blocks do no harm.
- **`IInv` of Relay.** `Gated`: the gate has one holder, so no socket looks its
  peers up while a call is between its query and the hub; `Current`: what the
  holder read is still so; `Halfway`: what a call has done to the database at
  each stage. `Pointed` is about queues only: a loop that met a full one
  remembers whose. When a call ends between its query and the hub, the pair it was
  settling leaves `Settling`, and what is wrong about it then is marked in `stale`
  in the same step (`AbandonKeeps`); `SetRightTo` is the lemma for the calls that
  speak of a pair again.
- **`Sound` of Relay** is what needs no agreement with the database. `Registry` and `Calling` are
  about the database and the call at the gate; `Mail` about the queues; `Attached`
  about the hub: a connection is its owner's, and its socket is in its loop. What
  it says of a loop that is about to drop a slow peer (`Met`) is what makes
  `NobodyElseDropped` hold: the socket it remembers was connected, and if it still
  is, it is its queue that refused the frame.
- **`Informed`.** Presence is told as differences to those the hub has as peers, so
  what a device was told is right (`Truth`) while both sides' entries are: each
  step that changes who is connected, or who is whose peer, tells all those it
  concerns (`SidesInformed`), and a socket that is not its owner's connection was
  told nothing yet (`Fresh`). A pair neither of whose connections is stale about the
  other is `Clean`: for it `HubAgrees` makes the two entries mirror each other, and
  makes the peers a socket brings from the database those it is told of. A device
  whose peer is stale about it may have been told that the peer is connected, and
  must still hear when that one goes: `Heard` says that then each has the other as
  a peer.

Only model-checked: the liveness properties, which are out of the prover's reach
(`FramesConverge`, `EndReachesViews`, `ShutdownEnds`, `GivenUpCreatesEnd`,
`CatchesUp`, `RequestsAnswered`, `ExitIsTold`, `ThreadsEnd`, `EveryRequestSettled`).
Every other property of a passing run is a theorem. `NoOrphanEver` and
`LayoutRefined` need that nobody recovers the layout, which the run meets.

## 6. Findings

Each is a run whose one property states a promise, and which TLC violates:

1. `host_recover`: a recovery that listed the panes before another client made
   one removes the new pane's tab while it runs.
2. `frame_resume`: a view shown between a subscription made anew and its first
   frame does not ask to be resumed, and stays paused.
3. `replies_order`: replies parsed before an image are written when it has been
   decoded, and the answer to a later clipboard request can pass them.

## 7. Limits of the models

- Data are versions, sizes and small sets; formatting, parsing, authentication
  and the wire format are left out.
- `Pane`: no shell tracker, or staleness of progress; the clipboard requests are
  in `Replies`. A view that subscribes while the host stops may be refused with
  "not found", as the code does (`pane.rs:438`); no property forbids it.
  Taking the next frame and reading it are two steps, as in the code. Input is left
  out, which publishes what the program printed before it (`pane.rs:930`): events
  that `Drain` takes here.
- `Host`: draining is one step (the code takes the map under its lock). A client
  that dies after the host answered its Create is not modelled; its pane is left to
  the next reconcile. Deadlines are choices: a Close is not taken, or the host's
  deadline passes, at any moment, in an instance with stuck workers.
  `LayoutStore::set`, which only tests call, and watching are left out. A Create
  that passed the check of `stopping` (`server.rs:691`) registers its pane after
  the drain, and nobody waits for it: `DrainedProgramsEnd` is about the panes
  that were drained, and leaves out that one, and one hung up by a Close.
- `FrameStream`: the images of a frame go out in one update and are of one
  size; the delays between attempts to subscribe again, and a pane or host that
  is gone by then, are left out.
- `RowDamage`: the renderer reads a frame and its damage in one step, as it
  holds the state's lock; the desktop's own reasons to draw everything are left
  out, as drawing everything is always right.
- `Replies`: the replies of a synchronized update, which are replayed when it
  ends or times out, are left out (they are routed before the events of the replay
  are queued, so `InOrderUnlessDecoding` would have to except them too), and so are paste notifications, the bounds of
  the transport to the program, and which selection or type a request names. The
  requests that a pass finds overdue are denied in one step. An answer names its
  request by the number of the output, as the code's ids grow in that order.
- `TmuxControl`: tmux may start with one empty block that belongs to nobody;
  what it then sends is a choice over blocks, tokens and notifications. Times
  are choices: a caller or the writer may give up at any moment of its wait.
  The requests queued behind a writer that ends are answered at once; in the code
  a caller finds out when its own wait times out (`session.rs:108`), which is the
  same answer. One announced request is taken at each block; one that is announced
  in the same moment (`channel.rs:90`) is taken at the next.
  The lines of tmux, the contents of snapshots, and the separate signal of a
  fatal exit are left out.
- `Relay`: a query is a step that succeeds or the last one of its call. In the run
  only the host removes itself, which bounds the state space; the proofs have no
  such bound. Registration, names, lists and the contents of packets are left out.

**Where the code does not keep a promise, and the property says so.** These are
not runs of their own: the model has the steps, and the property names what it
excepts.

- *A view may not be told the end* (`EndReachesViews`). `Subscription::next` lets
  go of its queue and then looks for the pane (`pane.rs:192-197`). If the host drops
  the pane in between (`server.rs:603`, or `close_panes`), `next` returns nothing, and
  the stream ends (`server.rs:736`) with a queued exit or shutdown unsent.
- *A pane may run on unlisted* (`NoOrphan`, `GivenUpCreatesEnd`).
  `forget_unregistered_pane` leaves the pane alone when it cannot read the layout
  (`layout.rs:384-388`: "its saved state could not be verified"), or when its Close
  fails; `close_unregistered` only logs a Close that was not taken
  (`server.rs:797-804`), after a failed refresh (`server.rs:531`) or a Create whose
  answer could not be delivered (`server.rs:555`).
- *The host may go down before a program it drained has ended*
  (`DrainedProgramsEnd`): a Shutdown that is not taken is ignored (`pane.rs:399-401`),
  and a worker that is not finished by the deadline is logged (`server.rs:253-257`).
- *A removed pair may be routed for* (`HubAgrees`, `ToldTruth`). The relay's
  `README.md:44` says that removing access "deletes the link and blocks routing
  immediately"; a query that fails after the link was deleted (`api.rs:230`,
  likewise 240-244, and 372-373 for an approval), or a handler dropped there, leaves
  the hub as it was until one of the two connects again or a call speaks of the
  pair.
- *A reset writes older clipboard answers* (`ResetForgets`).
  `custom_backend.rs:993-994` means a late answer not to reach what may be another
  program; the answers already held behind a waiting request are written by the
  reset (`deferred.rs:180-185`).

## 8. Plan

In this order, each with an MC module, properties for its hazards in
`PROJECT.json`, and proofs where they pay:

1. `EventQueue`: coalescing and eviction as a function, against a reference.
2. `InputQueue`: the client's commands and the settings sent again; composed
   with `FrameStream`'s resubscription.
3. `SessionMerge`: merge and rebase of small sessions: no pane is lost or
   doubled.
4. `EngineLock`, `Watchdog`, layout watching.

In the present modules every invariant and action property of a passing run is
proved; what is left there is liveness.
