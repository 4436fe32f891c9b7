----------------------------- MODULE FrameStream -----------------------------
(***************************************************************************)
(* One view's subscription to a pane: how the host encodes frames as deltas *)
(* and images as references into a cache, and how the client decodes them,  *)
(* while the view is hidden and shown again, frames do not fit, and the      *)
(* stream is lost (crates/core/src/remote/frame.rs and graphics.rs; the      *)
(* Subscription of multiplexer/pane.rs; `serve_client' of server.rs; the     *)
(* reader of client.rs and client/terminal.rs).                             *)
(*                                                                          *)
(* A state of the terminal is reduced to its generation, its size (which    *)
(* stands for all that `same_screen' compares), the images it places and    *)
(* whether it passes `validate_state'.  The rows of a delta are left to      *)
(* RowDamage: here a delta describes the right state on the right base.     *)
(* Events and clipboard requests share the stream but no state with frames. *)
(***************************************************************************)
EXTENDS Naturals, Sequences, FiniteSets, SequencesExt

CONSTANTS
    Images,       \* image generations
    Screens,      \* what a terminal may show: [size, images, fits]
    CacheBudget,  \* IMAGE_CACHE_BYTES, in images
    Unhealthy,    \* UNHEALTHY_STREAMS (3 in the code)
    MaxGeneration, MaxToggles, MaxFaults,  \* how often things happen
    MaxPipe,      \* updates the connection holds before a write blocks
    Nothing       \* no state, no generation, no confirmation

ASSUME FrameAssumption ==
    /\ CacheBudget \in Nat
    /\ {Unhealthy, MaxGeneration, MaxPipe} \subseteq Nat \ {0}
    /\ {MaxToggles, MaxFaults} \subseteq Nat
    /\ \A s \in Screens : /\ s.images \subseteq Images /\ IsFiniteSet(s.images)
                           /\ s.fits \in BOOLEAN
    /\ \E s \in Screens : s.fits
    /\ Nothing \notin Nat \cup BOOLEAN

VARIABLES
    \* The host.
    engine,       \* what the terminal shows
    screen,       \* Shared::state, the state published last
    pending,      \* Subscription::pending
    hand,         \* the state the serving thread took and has yet to send
    encoder,      \* FrameEncoder and GraphicsEncoder
    \* The connection.
    down, up,
    \* The client.
    paused,       \* ClientState::paused: the view is hidden
    shown,        \* ClientState::state
    reader,       \* FrameReader
    link,         \* the reader thread and what it knows of the stream
    \* What has happened so far.
    toggles, faults, unfit

hostVars   == <<engine, screen, pending, hand, encoder>>
clientVars == <<paused, shown, reader, link>>
boundVars  == <<toggles, faults, unfit>>
vars == <<hostVars, down, up, clientVars, boundVars>>

-----------------------------------------------------------------------------
NewPending == [paused |-> FALSE, acknowledge |-> Nothing, state |-> TRUE,
               resync |-> FALSE, resume |-> FALSE]
NewEncoder == [last |-> Nothing, cache |-> <<>>]
NewReader  == [images |-> {}, resyncing |-> FALSE]

\* The updates of a stream and the requests of its control connection.
ImagesUpdate(i) == [kind |-> "images", images |-> i]
PausedUpdate(b) == [kind |-> "paused", paused |-> b]
FrameUpdate(s, base, evicted) ==
    [kind |-> "frame", state |-> s, base |-> base, evicted |-> evicted]
SetPaused(b) == [kind |-> "setPaused", paused |-> b]
Resync == [kind |-> "resync"]

IsFull(f) == f.base = Nothing

State(s, g) == [generation |-> g, size |-> s.size, images |-> s.images, fits |-> s.fits]

Init ==
    /\ \E s \in Screens :
           /\ s.fits /\ engine = State(s, 0) /\ screen = engine
           \* The state the client attached with, without its images.
           /\ shown = [engine EXCEPT !.images = {}]
    /\ pending = NewPending /\ hand = Nothing /\ encoder = NewEncoder
    /\ down = <<>> /\ up = <<>>
    /\ paused = FALSE /\ reader = NewReader
    /\ link = [open |-> TRUE, disconnected |-> FALSE, confirmed |-> FALSE,
               resubscribed |-> FALSE, shown |-> FALSE, short |-> 0]
    /\ toggles = 0 /\ faults = 0 /\ unfit = 0

-----------------------------------------------------------------------------
(* The pane's worker.                                                      *)

Output(s) ==
    /\ engine.generation < MaxGeneration
    /\ engine' = State(s, engine.generation + 1)
    /\ unfit' = IF s.fits THEN unfit ELSE unfit + 1
    /\ UNCHANGED <<screen, pending, hand, encoder, down, up, clientVars, toggles, faults>>

\* A hidden view is not told; another view may have wanted the frame.
Publish ==
    /\ engine # screen
    /\ screen' = engine
    /\ pending' = [pending EXCEPT !.state = @ \/ ~pending.paused]
    /\ UNCHANGED <<engine, hand, encoder, down, up, clientVars, boundVars>>

\* Work::Resume: the worker captures a frame for a view that is shown again.
CaptureForResume ==
    /\ pending.resume
    /\ screen' = engine
    /\ pending' = [pending EXCEPT !.resume = FALSE, !.state = @ \/ ~pending.paused]
    /\ UNCHANGED <<engine, hand, encoder, down, up, clientVars, boundVars>>

-----------------------------------------------------------------------------
(* The host's side of the subscription.                                    *)

\* The thread that reads the control requests.
ReadSetPaused(sent) ==
    /\ link.open /\ up # <<>> /\ Head(up).kind = "setPaused"
    /\ LET b == Head(up).paused
       IN  IF pending.paused = b
           THEN UNCHANGED pending
           \* `sent': the worker's queue had room for Work::Resume.
           ELSE pending' = [pending EXCEPT !.paused = b, !.acknowledge = b,
                                           !.resume = @ \/ (~b /\ sent),
                                           !.state = ~b /\ ~sent]
    /\ up' = Tail(up)
    /\ UNCHANGED <<engine, screen, hand, encoder, down, clientVars, boundVars>>

\* A mutant of the next action: the request alone makes no frame due.
ReadResyncLater ==
    /\ link.open /\ up # <<>> /\ Head(up).kind = "resync"
    /\ pending' = [pending EXCEPT !.resync = TRUE]
    /\ up' = Tail(up)
    /\ UNCHANGED <<engine, screen, hand, encoder, down, clientVars, boundVars>>

ReadResync ==
    /\ link.open /\ up # <<>> /\ Head(up).kind = "resync"
    /\ pending' = [pending EXCEPT !.resync = TRUE, !.state = ~pending.paused]
    /\ up' = Tail(up)
    /\ UNCHANGED <<engine, screen, hand, encoder, down, clientVars, boundVars>>

\* A mutant of the next action: the host keeps its image cache when it resumes.
SendPausedOnly ==
    /\ link.open /\ hand = Nothing /\ Len(down) < MaxPipe
    /\ pending.acknowledge # Nothing
    /\ down' = Append(down, PausedUpdate(pending.acknowledge))
    /\ pending' = [pending EXCEPT !.acknowledge = Nothing]
    /\ UNCHANGED <<engine, screen, hand, encoder, up, clientVars, boundVars>>

\* The thread that sends the updates takes the next one: a confirmation
\* before any frame, and a frame only while the view is not paused.
SendPaused ==
    /\ link.open /\ hand = Nothing /\ Len(down) < MaxPipe
    /\ pending.acknowledge # Nothing
    /\ down' = Append(down, PausedUpdate(pending.acknowledge))
    /\ encoder' = IF pending.acknowledge THEN encoder ELSE [encoder EXCEPT !.cache = <<>>]
    /\ pending' = [pending EXCEPT !.acknowledge = Nothing]
    /\ UNCHANGED <<engine, screen, hand, up, clientVars, boundVars>>

\* A mutant of the next action: a frame overtakes the confirmation.
TakeStateFirst ==
    /\ link.open /\ hand = Nothing
    /\ pending.state /\ ~pending.paused
    /\ hand' = screen
    /\ pending' = [pending EXCEPT !.state = FALSE]
    /\ UNCHANGED <<engine, screen, encoder, down, up, clientVars, boundVars>>

TakeState ==
    /\ link.open /\ hand = Nothing
    /\ pending.acknowledge = Nothing /\ pending.state /\ ~pending.paused
    /\ hand' = screen
    /\ pending' = [pending EXCEPT !.state = FALSE]
    /\ UNCHANGED <<engine, screen, encoder, down, up, clientVars, boundVars>>

\* The images of a cache that are not shown, in their order.
Others(cache, images) ==
    LET kept[n \in 0..Len(cache)] ==
            IF n = 0 THEN <<>>
            ELSE IF cache[n] \in images THEN kept[n - 1] ELSE Append(kept[n - 1], cache[n])
    IN  kept[Len(cache)]

\* Two mutants of Encoded: an image shown again enters the cache a second time;
\* the client is not told what was evicted.
EncodedTwice(cache, images) ==
    LET others == Others(cache, images)
    IN  [uploads |-> images \ ToSet(cache), evicted |-> {},
         cache |-> IF Len(others) + Cardinality(images) <= CacheBudget
                   THEN cache \o SetToSeq(images) ELSE SetToSeq(images)]
EncodedSilently(cache, images) ==
    LET others == Others(cache, images)
        over   == Len(others) + Cardinality(images)
    IN  [uploads |-> images \ ToSet(cache), evicted |-> {},
         cache |-> IF over <= CacheBudget THEN others \o SetToSeq(images)
                                          ELSE SetToSeq(images)]

\* GraphicsEncoder::encode: the images shown move to the end of the cache; as
\* many of the others as exceed the budget leave it, least recently shown first.
Encoded(cache, images) ==
    LET others == Others(cache, images)
        over   == Len(others) + Cardinality(images)
        n      == IF over <= CacheBudget THEN 0
                  ELSE IF over - CacheBudget < Len(others) THEN over - CacheBudget
                  ELSE Len(others)
    IN  [uploads |-> images \ ToSet(cache),
         evicted |-> ToSet(SubSeq(others, 1, n)),
         cache   |-> SubSeq(others, n + 1, Len(others)) \o SetToSeq(images)]

\* The base of the next delta, if the next frame is not sent in full.
Base(last, s) == IF last # Nothing /\ last.size = s.size THEN last.generation ELSE Nothing

\* The images go out before the frame, in one update here.
SendFrame ==
    LET from == IF pending.resync THEN NewEncoder ELSE encoder
        g    == Encoded(from.cache, hand.images)
        f    == FrameUpdate(hand, Base(from.last, hand), g.evicted)
    IN  /\ link.open /\ hand # Nothing /\ Len(down) + 2 <= MaxPipe
        /\ down' = down \o (IF g.uploads = {} THEN <<f>> ELSE <<ImagesUpdate(g.uploads), f>>)
        /\ encoder' = [last |-> hand, cache |-> g.cache]
        /\ pending' = [pending EXCEPT !.resync = FALSE]
        /\ hand' = Nothing
        /\ UNCHANGED <<engine, screen, up, clientVars, boundVars>>

-----------------------------------------------------------------------------
(* The client's reader thread.                                             *)

\* The stream ends, by an I/O error or by a frame nobody can use; the next
\* subscription starts afresh.  `short': streams in a row that showed nothing.
EndStream(protocol) ==
    LET short == IF link.shown THEN 0
                 ELSE IF link.short < Unhealthy THEN link.short + 1 ELSE Unhealthy
    IN  /\ link' = [link EXCEPT !.open = FALSE, !.short = short,
                                !.disconnected = @ \/ protocol \/ short = Unhealthy]
        /\ down' = <<>> /\ up' = <<>> /\ hand' = Nothing
        /\ pending' = NewPending /\ encoder' = NewEncoder /\ reader' = NewReader

Incoming(kind) == link.open /\ down # <<>> /\ Head(down).kind = kind

ReadImages ==
    /\ Incoming("images")
    /\ reader' = [reader EXCEPT !.images = @ \cup Head(down).images]
    /\ down' = Tail(down)
    /\ UNCHANGED <<hostVars, up, paused, shown, link, boundVars>>

\* FrameReader::paused: a hidden view keeps the images it shows, one shown
\* again none.
ReadPaused ==
    /\ Incoming("paused")
    /\ LET b == Head(down).paused
       IN  /\ link' = [link EXCEPT !.confirmed = b]
           /\ reader' = [reader EXCEPT !.images = IF b THEN @ \cap shown.images ELSE {}]
    /\ down' = Tail(down)
    /\ UNCHANGED <<hostVars, up, paused, shown, boundVars>>

\* FrameUpdate::apply, validate_state and GraphicsDecoder::decode succeed.
Applies(f) ==
    /\ IsFull(f) \/ (f.base = shown.generation /\ f.state.size = shown.size)
    /\ f.state.fits
    /\ f.state.images \subseteq reader.images \ f.evicted

IgnoreDelta ==
    /\ Incoming("frame") /\ reader.resyncing /\ ~IsFull(Head(down))
    /\ down' = Tail(down)
    /\ UNCHANGED <<hostVars, up, clientVars, boundVars>>

ShowFrame ==
    LET f == Head(down)
        kept == reader.images \ f.evicted
    IN  /\ Incoming("frame") /\ (reader.resyncing => IsFull(f)) /\ Applies(f)
        /\ shown' = f.state
        \* Images from before the host started afresh are unknown to it now.
        /\ reader' = [resyncing |-> FALSE,
                      images |-> IF reader.resyncing THEN kept \cap f.state.images ELSE kept]
        \* `resubscribed': the first frame of a new subscription.
        /\ link' = [link EXCEPT !.shown = TRUE, !.resubscribed = FALSE,
                                !.disconnected = @ /\ ~link.resubscribed]
        /\ down' = Tail(down)
        /\ UNCHANGED <<hostVars, up, paused, boundVars>>

\* A delta that does not fit is answered with a request for a full frame.
SkipFrame ==
    /\ Incoming("frame") /\ ~reader.resyncing /\ ~IsFull(Head(down)) /\ ~Applies(Head(down))
    /\ reader' = [images |-> {}, resyncing |-> TRUE]
    /\ up' = Append(up, Resync)
    /\ down' = Tail(down)
    /\ UNCHANGED <<hostVars, paused, shown, link, boundVars>>

\* A full frame that does not fit ends the stream.
RejectFrame ==
    /\ Incoming("frame") /\ IsFull(Head(down)) /\ ~Applies(Head(down))
    /\ EndStream(TRUE)
    /\ UNCHANGED <<engine, screen, paused, shown, boundVars>>

LoseStream ==
    /\ link.open /\ faults < MaxFaults
    /\ faults' = faults + 1
    /\ EndStream(FALSE)
    /\ UNCHANGED <<engine, screen, paused, shown, toggles, unfit>>

\* ClientState::reattach.  The host refreshes the pane for a new subscription,
\* which sends frames until told otherwise: a hidden view pauses it again.
Resubscribe ==
    /\ ~link.open
    /\ screen' = engine
    /\ link' = [link EXCEPT !.open = TRUE, !.confirmed = FALSE,
                            !.resubscribed = TRUE, !.shown = FALSE]
    /\ up' = IF paused THEN <<SetPaused(TRUE)>> ELSE <<>>
    /\ UNCHANGED <<engine, pending, hand, encoder, down, paused, shown, reader, boundVars>>

RefuseSubscription ==
    /\ ~link.open /\ faults < MaxFaults
    /\ faults' = faults + 1
    /\ link' = [link EXCEPT !.disconnected = TRUE]
    /\ UNCHANGED <<hostVars, down, up, paused, shown, reader, toggles, unfit>>

-----------------------------------------------------------------------------
\* ClientTerminal::set_wakeup_enabled: the view is hidden or shown again.
SetWakeupEnabled ==
    /\ toggles < MaxToggles
    /\ toggles' = toggles + 1
    /\ paused' = ~paused
    /\ up' = IF link.open /\ ~link.disconnected THEN Append(up, SetPaused(~paused)) ELSE up
    /\ UNCHANGED <<hostVars, down, shown, reader, link, faults, unfit>>

-----------------------------------------------------------------------------
Host == \/ Publish \/ CaptureForResume
        \/ \E sent \in BOOLEAN : ReadSetPaused(sent)
        \/ ReadResync \/ SendPaused \/ TakeState \/ SendFrame

Client == \/ ReadImages \/ ReadPaused \/ IgnoreDelta \/ ShowFrame \/ SkipFrame
          \/ RejectFrame \/ LoseStream \/ Resubscribe \/ RefuseSubscription

Next == \/ \E s \in Screens : Output(s)
        \/ Host \/ Client \/ SetWakeupEnabled

Spec == Init /\ [][Next]_vars

\* Every thread goes on; the program, the user and the network need not.
\* The worker captures frames only while a view wants them.
Fairness ==
    /\ WF_vars(Publish /\ ~pending.paused)
    /\ WF_vars(CaptureForResume)
    /\ WF_vars((\E sent \in BOOLEAN : ReadSetPaused(sent)) \/ ReadResync)
    /\ WF_vars(SendPaused \/ TakeState \/ SendFrame)
    /\ WF_vars(ReadImages \/ ReadPaused \/ IgnoreDelta \/ ShowFrame \/ SkipFrame
                \/ RejectFrame \/ Resubscribe)
FairSpec == Spec /\ Fairness

-----------------------------------------------------------------------------
(* Properties.                                                             *)

StateType == [generation : 0..MaxGeneration, size : {s.size : s \in Screens},
              images : SUBSET Images, fits : BOOLEAN]
FrameType == [kind : {"frame"}, state : StateType,
              base : (0..MaxGeneration) \cup {Nothing}, evicted : SUBSET Images]

\* Every variable is of its type, with the counts within their bounds, and the
\* host's cache names no image twice, whatever is shown, evicted and forgotten.
TypeOK ==
    /\ engine \in StateType /\ screen \in StateType /\ shown \in StateType
    /\ pending \in [paused : BOOLEAN, acknowledge : BOOLEAN \cup {Nothing},
                    state : BOOLEAN, resync : BOOLEAN, resume : BOOLEAN]
    /\ hand \in StateType \cup {Nothing}
    /\ encoder.last \in StateType \cup {Nothing}
    /\ encoder.cache \in Seq(Images) /\ IsInjective(encoder.cache)
    /\ \A i \in 1..Len(down) : \/ down[i] \in FrameType
                               \/ down[i] \in [kind : {"images"}, images : SUBSET Images]
                               \/ down[i] \in [kind : {"paused"}, paused : BOOLEAN]
    /\ \A i \in 1..Len(up) : up[i] = Resync \/ up[i] \in [kind : {"setPaused"}, paused : BOOLEAN]
    /\ paused \in BOOLEAN
    /\ reader \in [images : SUBSET Images, resyncing : BOOLEAN]
    /\ link \in [open : BOOLEAN, disconnected : BOOLEAN, confirmed : BOOLEAN,
                 resubscribed : BOOLEAN, shown : BOOLEAN, short : 0..Unhealthy]
    /\ toggles \in 0..MaxToggles /\ faults \in 0..MaxFaults /\ unfit \in 0..MaxGeneration

\* Whatever is paused, resumed, evicted or lost: while every state fits, each
\* frame that arrives applies to the frame shown and names only images the
\* client has, so no full frame is ever asked for.
FramesFit ==
    unfit = 0 /\ Incoming("frame") => ~reader.resyncing /\ Applies(Head(down))

\* Once everything sent was read, both ends cache the same images, so that
\* neither the host counts on one the client dropped nor the client keeps one
\* for ever; a hidden view may have dropped more.
CachesAgree ==
    unfit = 0 /\ link.open /\ down = <<>> =>
        IF link.confirmed THEN reader.images \subseteq ToSet(encoder.cache)
                          ELSE reader.images = ToSet(encoder.cache)

\* A view that knows it is hidden gets no frame until it is told it is shown.
HiddenGetsNoFrames == link.confirmed => ~Incoming("frame")

\* "On resume the worker captures a frame at once and sends only that one": a
\* view that is shown is resumed, or a request to resume it is on its way.
LeftPaused ==
    /\ link.open /\ pending.paused /\ ~paused
    /\ \A i \in 1..Len(up) : up[i] # SetPaused(FALSE)
ShownIsResumed == ~LeftPaused

\* A view of a pane whose terminal comes to rest shows it in the end, also
\* after states that did not fit and streams that were lost, unless it is left
\* paused.
CatchesUp == <>[](paused \/ LeftPaused \/ ~engine.fits \/ shown = engine)
=============================================================================
