---------------------------- MODULE TmuxControl ----------------------------
(***************************************************************************)
(* tmux control mode (crates/core/src/tmux_control_core).  A caller queues *)
(* a request; the writer thread announces it to the reader in a slot of    *)
(* one place, writes its command and, on a line of its own, a token, and   *)
(* waits for it to complete, but not for ever.  The reader thread gives    *)
(* the blocks tmux sends back to the oldest request that is outstanding,   *)
(* until that request's token comes, and hands notifications to the UI     *)
(* through a bounded channel.  The UI cannot drain it while it waits for   *)
(* an answer.                                                              *)
(***************************************************************************)
EXTENDS Naturals, Sequences, FiniteSets

CONSTANTS
  Requests,     \* each made once
  Waited,       \* those whose caller waits for the answer
  QueueBound,   \* REQUEST_QUEUE_BOUND
  NotesBound,   \* NOTIFICATION_QUEUE_BOUND
  MaxBlocks,    \* the blocks of a request's own command
  MaxNotes,     \* the notifications of an instance
  MaxLost,      \* how many completion tokens may be lost
  NoRequest

ASSUME TmuxAssumption ==
  /\ Waited \subseteq Requests
  /\ QueueBound \in Nat \ {0} /\ NotesBound \in Nat \ {0}
  /\ MaxBlocks \in Nat /\ MaxNotes \in Nat /\ MaxLost \in Nat
  /\ NoRequest \notin Requests

VARIABLES
  call,         \* each request: "new", "waiting" for its answer, or "done"
  answer,       \* what is in its response slot
  requests,     \* the queue to the writer
  writer,       \* where the writer is, and with which request
  slot,         \* the pending request, announced to the reader
  completed,    \* the requests whose completion was signalled
  input,        \* what tmux has not read yet
  alive,        \* is there a tmux, and its end of the pipes?
  stream,       \* what it has written and the reader not read
  outstanding,  \* ControlCommandTracker: the requests that await their token
  open,         \* whose block is being read: "none", "front" or "nobody"
  heard,        \* the blocks given to each request
  reader,       \* where the reader is
  dying,        \* has it shut down, but for its last notification?
  coalesced,    \* NotificationCoalescer: what it is about to send
  channel,      \* the notifications the UI has not taken
  ui,           \* "up", "told" of the exit, or "gone"
  notes,        \* the number of notifications so far
  written,      \* history: the requests written to tmux
  ran,          \* history: tmux's own blocks for each request
  lost,         \* history: the requests whose token was lost
  stale         \* history: has the UI missed something, with no refresh since?

callers == <<call, answer>>
writing == <<requests, writer, written>>
tmux    == <<input, alive, ran, lost, notes>>
tracker == <<outstanding, open, heard>>
telling == <<coalesced, channel, stale>>
vars == <<callers, writing, slot, completed, tmux, stream, tracker, reader, dying, telling, ui>>

Answers == {"none", "ok", "error", "timeout", "unsent", "refused", "lost", "closed", "dropped"}
Notes   == {"output", "refresh", "warning", "exit"}

\* What tmux writes: the begin of a block, its end, which holds the output of a
\* request's command or just a token, a notification, or its end.
Item(kind, of) == [kind |-> kind, of |-> of]
Bare(kind)     == Item(kind, NoRequest)
Items == [kind : {"begin", "ok", "error", "token", "output", "refresh", "flood", "eof"},
          of : Requests \cup {NoRequest}]

TypeOK ==
  /\ call \in [Requests -> {"new", "waiting", "done"}]
  /\ answer \in [Requests -> Answers]
  /\ requests \in Seq(Requests) /\ Len(requests) =< QueueBound
  /\ writer \in [at : {"idle", "slot", "write", "wait", "ended"},
                 req : Requests \cup {NoRequest}]
  /\ slot \in Requests \cup {NoRequest}
  /\ completed \subseteq Requests /\ written \subseteq Requests /\ lost \subseteq Requests
  /\ input \in Seq(Requests) /\ alive \in BOOLEAN
  /\ stream \in Seq(Items)
  /\ outstanding \in Seq(Requests) /\ open \in {"none", "front", "nobody"}
  /\ heard \in [Requests -> Seq(Items)] /\ ran \in [Requests -> Seq(Items)]
  /\ reader \in {"reading", "flushing", "blocked", "ended"} /\ dying \in BOOLEAN
  /\ coalesced \in Seq(Notes)
  /\ channel \in Seq(Notes) /\ Len(channel) =< NotesBound
  /\ ui \in {"up", "told", "gone"} /\ notes \in 0..MaxNotes /\ stale \in BOOLEAN

\* tmux may have sent the empty block of the command it was started with.
Init ==
  /\ call = [r \in Requests |-> "new"] /\ answer = [r \in Requests |-> "none"]
  /\ requests = <<>> /\ writer = [at |-> "idle", req |-> NoRequest]
  /\ slot = NoRequest /\ completed = {}
  /\ input = <<>> /\ alive = TRUE
  /\ stream \in {<<>>, <<Bare("begin"), Bare("ok")>>}
  /\ outstanding = <<>> /\ open = "none" /\ heard = [r \in Requests |-> <<>>]
  /\ reader = "reading" /\ dying = FALSE
  /\ coalesced = <<>> /\ channel = <<>> /\ ui = "up" /\ notes = 0
  /\ written = {} /\ ran = [r \in Requests |-> <<>>] /\ lost = {} /\ stale = FALSE
-----------------------------------------------------------------------------
(* The callers. *)

\* A response slot takes one answer; the first one stays.
Replied(rs, a) ==
  [r \in Requests |-> IF r \in rs \cap Waited /\ answer[r] = "none" THEN a ELSE answer[r]]

Waiting == {r \in Requests : call[r] = "waiting"}

\* A call, or one of the two of a refresh, which waits when both are queued.
Send(r) ==
  /\ ui = "up" /\ call[r] = "new" /\ Cardinality(Waiting) < 2
  /\ IF writer.at = "ended" \/ Len(requests) = QueueBound
     THEN call' = [call EXCEPT ![r] = "done"] /\ UNCHANGED requests
     ELSE /\ call' = [call EXCEPT ![r] = IF r \in Waited THEN "waiting" ELSE "done"]
          /\ requests' = Append(requests, r)
  /\ UNCHANGED <<answer, writer, written, slot, completed, tmux, stream, tracker, reader,
                 dying, telling, ui>>

\* The caller takes its answer, or stops waiting for it.
Return(r) ==
  /\ call[r] = "waiting"
  /\ call' = [call EXCEPT ![r] = "done"]
  /\ UNCHANGED <<answer, writing, slot, completed, tmux, stream, tracker, reader, dying,
                 telling, ui>>

\* The UI takes every notification, unless it is waiting for an answer.
Poll ==
  /\ ui = "up" /\ Waiting = {} /\ channel # <<>>
  /\ channel' = <<>>
  /\ ui' = IF \E i \in DOMAIN channel : channel[i] = "exit" THEN "told" ELSE "up"
  /\ stale' = (stale /\ \A i \in DOMAIN channel : channel[i] \notin {"refresh", "exit"})
  /\ UNCHANGED <<callers, writing, slot, completed, tmux, stream, tracker, reader, dying,
                 coalesced>>

\* The session is dropped, which kills tmux.
Drop ==
  /\ ui # "gone" /\ Waiting = {}
  /\ ui' = "gone" /\ alive' = FALSE
  /\ stream' = IF alive THEN Append(stream, Bare("eof")) ELSE stream
  /\ channel' = <<>>
  /\ UNCHANGED <<callers, writing, slot, completed, input, ran, lost, notes, tracker,
                 reader, dying, coalesced, stale>>
-----------------------------------------------------------------------------
(* The writer thread. *)

WriterAt(place) == writer.at = place
WriterGoes(place, r) == writer' = [at |-> place, req |-> r]

\* It returns, and the queue has no reader any more.  The requests in it are answered
\* here as dropped at once; in the code a caller of one learns it when its own wait
\* times out, at the latest.
WriterEnds ==
  /\ WriterGoes("ended", NoRequest)
  /\ requests' = <<>>
  /\ UNCHANGED written

Queued == {requests[i] : i \in DOMAIN requests}

Receive ==
  /\ WriterAt("idle") /\ requests # <<>>
  /\ requests' = Tail(requests)
  /\ \/ WriterGoes("slot", Head(requests)) /\ UNCHANGED answer
     \/ \* A command with a line break in it.
        answer' = Replied({Head(requests)}, "refused") /\ UNCHANGED writer
  /\ UNCHANGED <<call, written, slot, completed, tmux, stream, tracker, reader, dying,
                 telling, ui>>

NoMoreRequests ==
  /\ WriterAt("idle") /\ requests = <<>> /\ ui = "gone"
  /\ WriterEnds
  /\ UNCHANGED <<callers, slot, completed, tmux, stream, tracker, reader, dying, telling, ui>>

\* `send_timeout': the slot is free, or becomes free in time; ...
Announce ==
  /\ WriterAt("slot") /\ slot = NoRequest /\ reader # "ended"
  /\ slot' = writer.req
  /\ WriterGoes("write", writer.req)
  /\ UNCHANGED <<callers, requests, written, completed, tmux, stream, tracker, reader,
                 dying, telling, ui>>

\* ... or it does not; ...
NotAnnounced ==
  /\ WriterAt("slot") /\ slot # NoRequest /\ reader # "ended"
  /\ answer' = Replied({writer.req}, "unsent")
  /\ WriterGoes("idle", NoRequest)
  /\ UNCHANGED <<call, requests, written, slot, completed, tmux, stream, tracker, reader,
                 dying, telling, ui>>

\* ... or there is nobody to announce it to.
NobodyReads ==
  /\ WriterAt("slot") /\ reader = "ended"
  /\ WriterEnds
  /\ answer' = [r \in Requests |-> IF r = writer.req THEN Replied({r}, "unsent")[r]
                                   ELSE Replied(Queued, "dropped")[r]]
  /\ UNCHANGED <<call, slot, completed, tmux, stream, tracker, reader, dying, telling, ui>>

\* Both lines, which a tmux that has died does not read any more.
Write ==
  /\ WriterAt("write")
  /\ WriterGoes("wait", writer.req)
  /\ input' = IF alive THEN Append(input, writer.req) ELSE input
  /\ written' = written \cup {writer.req}
  /\ UNCHANGED <<callers, requests, slot, completed, alive, ran, lost, notes, stream,
                 tracker, reader, dying, telling, ui>>

WriteFails ==
  /\ WriterAt("write") /\ ~alive
  /\ WriterEnds
  /\ answer' = [r \in Requests |-> IF r = writer.req THEN Replied({r}, "closed")[r]
                                   ELSE Replied(Queued, "dropped")[r]]
  /\ UNCHANGED <<call, slot, completed, tmux, stream, tracker, reader, dying, telling, ui>>

Completed ==
  /\ WriterAt("wait") /\ writer.req \in completed
  /\ WriterGoes("idle", NoRequest)
  /\ UNCHANGED <<callers, requests, written, slot, completed, tmux, stream, tracker, reader,
                 dying, telling, ui>>

\* Mutant: a request that timed out is not announced any more.
TimesOutForgotten ==
  /\ WriterAt("wait") /\ writer.req \notin completed
  /\ answer' = Replied({writer.req}, "timeout")
  /\ slot' = IF slot = writer.req THEN NoRequest ELSE slot
  /\ WriterGoes("idle", NoRequest)
  /\ UNCHANGED <<call, requests, written, completed, tmux, stream, tracker, reader, dying,
                 telling, ui>>

\* Mutant: only the caller gives up.
TimesOutWithTmux ==
  /\ WriterAt("wait") /\ ~alive
  /\ answer' = Replied({writer.req}, "timeout")
  /\ WriterGoes("idle", NoRequest)
  /\ UNCHANGED <<call, requests, written, slot, completed, tmux, stream, tracker, reader,
                 dying, telling, ui>>

\* The request stays announced, or outstanding: its blocks may come late.
TimesOut ==
  /\ WriterAt("wait") /\ writer.req \notin completed
  /\ answer' = Replied({writer.req}, "timeout")
  /\ WriterGoes("idle", NoRequest)
  /\ UNCHANGED <<call, requests, written, slot, completed, tmux, stream, tracker, reader,
                 dying, telling, ui>>
-----------------------------------------------------------------------------
(* tmux. *)

TmuxOnly == UNCHANGED <<callers, writing, slot, completed, tracker, reader, dying, telling, ui>>

\* What the blocks of its own command may be.
Results(r) == UNION {[1..n -> {Item("ok", r), Item("error", r)}] : n \in 0..MaxBlocks}

\* As it is written: with the begin of each.
Written(items) ==
  [i \in 1..2 * Len(items) |-> IF i % 2 = 1 THEN Bare("begin") ELSE items[i \div 2]]

\* It runs the two lines of a request, the second of which prints the token.
Run(own) ==
  LET r == Head(input) IN
  /\ ran' = [ran EXCEPT ![r] = own]
  /\ input' = Tail(input)
  /\ \/ stream' = stream \o Written(Append(own, Item("token", r))) /\ UNCHANGED lost
     \/ /\ Cardinality(lost) < MaxLost
        /\ stream' = stream \o Written(own) /\ lost' = lost \cup {r}
  /\ UNCHANGED <<alive, notes>> /\ TmuxOnly

\* Output of a pane, a change of the layout, or a burst above the bound.
NotifyUI ==
  /\ alive /\ notes < MaxNotes
  /\ notes' = notes + 1
  /\ \E n \in {"output", "refresh", "flood"} : stream' = Append(stream, Bare(n))
  /\ UNCHANGED <<input, alive, ran, lost>> /\ TmuxOnly

\* It exits, or its connection fails, in the midst of a request or between two.
TmuxEnds(own) ==
  /\ alive
  /\ alive' = FALSE
  /\ own # <<>> => ran' = [ran EXCEPT ![Head(input)] = own]
  /\ own = <<>> => UNCHANGED ran
  /\ stream' = stream \o Written(own) \o <<Bare("eof")>>
  /\ UNCHANGED <<input, lost, notes>> /\ TmuxOnly
-----------------------------------------------------------------------------
(* The reader thread. *)

\* NotificationCoalescer::push
Pushed(n) ==
  CASE n = "exit"    -> <<"exit">>
    [] n = "refresh" -> IF \E i \in DOMAIN coalesced : coalesced[i] = "refresh"
                        THEN coalesced ELSE Append(coalesced, n)
    [] n = "flood"   -> coalesced \o <<"refresh", "warning">>
    [] OTHER         -> Append(coalesced, n)

\* fail_all: every request the reader knows of has failed.
FailAll(more) ==
  LET known == {outstanding[i] : i \in DOMAIN outstanding} \cup more IN
  /\ answer' = Replied(known, "closed")
  /\ completed' = completed \cup known
  /\ outstanding' = <<>> /\ open' = "none"
  /\ slot' = NoRequest

Pending == {slot} \ {NoRequest}

\* shut_down: the UI is told, unless it is gone.
ShutDown ==
  /\ FailAll(Pending)
  /\ dying' = TRUE
  /\ coalesced' = Pushed("exit")
  /\ reader' = "flushing"

Reads(kinds) ==
  /\ reader = "reading" /\ stream # <<>> /\ Head(stream).kind \in kinds
  /\ stream' = Tail(stream)

Eof ==
  /\ Reads({"eof"})
  /\ ShutDown
  /\ UNCHANGED <<call, writing, tmux, heard, channel, stale, ui>>

\* on_block_begin: the pending request is outstanding from now on; without a
\* writer there will be no other, and control mode ends.  (The code also takes a
\* request that is announced as soon as there is room again; here that one is taken
\* at the next block, which comes before its own.)
BeginBlock ==
  /\ Reads({"begin"})
  /\ IF writer.at = "ended" THEN ShutDown
     ELSE LET now == IF slot = NoRequest THEN outstanding ELSE Append(outstanding, slot) IN
          /\ outstanding' = now
          /\ slot' = NoRequest
          /\ open' = IF now = <<>> THEN "nobody" ELSE "front"
          /\ UNCHANGED <<answer, completed, reader, dying, coalesced>>
  /\ UNCHANGED <<call, writing, tmux, heard, channel, stale, ui>>

\* Position of the request whose token came, 0 for none.
TokenAt(r) ==
  IF \E i \in DOMAIN outstanding : outstanding[i] = r
  THEN CHOOSE i \in DOMAIN outstanding : outstanding[i] = r
  ELSE 0

Failed(r) == \E i \in DOMAIN heard[r] : heard[r][i].kind = "error"

\* on_block_complete, for a token: those ahead of it have lost theirs.
EndToken ==
  /\ Reads({"token"})
  /\ open' = "none"
  /\ LET r == Head(stream).of
         n == TokenAt(r)
     IN
       IF open # "front" \/ n = 0 THEN UNCHANGED <<answer, completed, outstanding>>
       ELSE /\ answer' = [q \in Requests |->
                 IF q = r THEN Replied({r}, IF Failed(r) THEN "error" ELSE "ok")[q]
                 ELSE Replied({outstanding[i] : i \in 1..n - 1}, "lost")[q]]
            /\ completed' = completed \cup {outstanding[i] : i \in 1..n}
            /\ outstanding' = SubSeq(outstanding, n + 1, Len(outstanding))
  /\ UNCHANGED <<call, writing, slot, tmux, heard, reader, dying, telling, ui>>

\* ... and for every other block, which is the oldest request's; the block of
\* nobody is empty, and adds nothing.
EndBlock ==
  /\ Reads({"ok", "error"})
  /\ open' = "none"
  /\ heard' = IF open = "front" /\ Head(stream).of # NoRequest
              THEN [heard EXCEPT ![outstanding[1]] = Append(@, Head(stream))]
              ELSE heard
  /\ UNCHANGED <<callers, writing, slot, completed, tmux, outstanding, reader, dying,
                 telling, ui>>

\* A notification; a burst above the bound is dropped for a refresh.
ReadNote ==
  /\ Reads({"output", "refresh", "flood"})
  /\ coalesced' = Pushed(Head(stream).kind)
  /\ stale' = (stale \/ Head(stream).kind = "flood")
  /\ reader' = "flushing"
  /\ UNCHANGED <<callers, writing, slot, completed, tmux, tracker, dying, channel, ui>>

\* What the reader does when its flush has sent everything.
Flushed == IF dying THEN "ended" ELSE "reading"

Flush ==
  /\ reader = "flushing" /\ ui # "gone" /\ Len(channel) < NotesBound
  /\ channel' = Append(channel, Head(coalesced))
  /\ coalesced' = Tail(coalesced)
  /\ reader' = IF Tail(coalesced) = <<>> THEN Flushed ELSE "flushing"
  /\ UNCHANGED <<callers, writing, slot, completed, tmux, stream, tracker, dying, stale, ui>>

\* Mutant: an exit is not told from the rest.
FlushFullAll ==
  /\ reader = "flushing" /\ ui # "gone" /\ Len(channel) = NotesBound
  /\ coalesced' = <<"refresh">> /\ stale' = TRUE
  /\ reader' = "blocked"
  /\ UNCHANGED <<callers, writing, slot, completed, tmux, stream, tracker, dying, channel, ui>>

\* Mutant: what does not fit is dropped.
FlushFullDropped ==
  /\ reader = "flushing" /\ ui # "gone" /\ Len(channel) = NotesBound
  /\ coalesced' = <<>> /\ stale' = TRUE
  /\ reader' = Flushed
  /\ UNCHANGED <<callers, writing, slot, completed, tmux, stream, tracker, dying, channel, ui>>

\* The channel is full: one refresh replaces all that was to be sent, except an
\* exit, and the reader waits until the UI has room for it.
FlushFull ==
  /\ reader = "flushing" /\ ui # "gone" /\ Len(channel) = NotesBound
  /\ IF Head(coalesced) = "exit" THEN UNCHANGED <<coalesced, stale>>
     ELSE coalesced' = <<"refresh">> /\ stale' = TRUE
  /\ reader' = "blocked"
  /\ UNCHANGED <<callers, writing, slot, completed, tmux, stream, tracker, dying, channel, ui>>

\* Mutant: without waiting for room.
UnblockAnyway ==
  /\ reader = "blocked" /\ ui # "gone"
  /\ channel' = Append(channel, Head(coalesced))
  /\ coalesced' = Tail(coalesced)
  /\ reader' = Flushed
  /\ UNCHANGED <<callers, writing, slot, completed, tmux, stream, tracker, dying, stale, ui>>

Unblock ==
  /\ reader = "blocked" /\ ui # "gone" /\ Len(channel) < NotesBound
  /\ channel' = Append(channel, Head(coalesced))
  /\ coalesced' = Tail(coalesced)
  /\ reader' = Flushed
  /\ UNCHANGED <<callers, writing, slot, completed, tmux, stream, tracker, dying, stale, ui>>

\* Mutant: only what is still to be flushed finds out.
NobodyListensYet ==
  /\ reader = "flushing" /\ ui = "gone"
  /\ IF dying THEN UNCHANGED <<answer, completed, outstanding, open, slot>>
     ELSE FailAll(Pending)
  /\ dying' = TRUE /\ coalesced' = <<>>
  /\ reader' = "ended"
  /\ UNCHANGED <<call, writing, tmux, stream, heard, channel, stale, ui>>

\* The UI is gone: the reader shuts down and has nobody to tell.
NobodyListens ==
  /\ reader \in {"flushing", "blocked"} /\ ui = "gone"
  /\ IF dying THEN UNCHANGED <<answer, completed, outstanding, open, slot>>
     ELSE FailAll(Pending)
  /\ dying' = TRUE /\ coalesced' = <<>>
  /\ reader' = "ended"
  /\ UNCHANGED <<call, writing, tmux, stream, heard, channel, stale, ui>>
-----------------------------------------------------------------------------
WriterStep ==
  \/ Receive \/ NoMoreRequests \/ Announce \/ NotAnnounced \/ NobodyReads
  \/ Write \/ WriteFails \/ Completed \/ TimesOut

ReaderStep ==
  \/ Eof \/ BeginBlock \/ EndBlock \/ EndToken \/ ReadNote
  \/ Flush \/ FlushFull \/ Unblock \/ NobodyListens

TmuxStep ==
  \/ NotifyUI \/ TmuxEnds(<<>>)
  \/ alive /\ input # <<>> /\ \E own \in Results(Head(input)) : Run(own) \/ TmuxEnds(own)

Next ==
  \/ WriterStep \/ ReaderStep \/ TmuxStep
  \/ Poll \/ Drop
  \/ \E r \in Requests : Send(r) \/ Return(r)

Spec == Init /\ [][Next]_vars

\* The threads run, the UI polls, and a caller waits for seconds at most.  tmux
\* need not do anything.
Fairness ==
  /\ WF_vars(WriterStep) /\ WF_vars(ReaderStep) /\ WF_vars(Poll)
  /\ \A r \in Requests : WF_vars(Return(r))

FairSpec == Spec /\ Fairness
-----------------------------------------------------------------------------
\* An answer is what tmux said to this request and to no other, however late
\* the blocks of the ones before it come; it is an error when tmux said so; and
\* a request that is said not to have been sent is not run.
AnswersTrue ==
  \A r \in Waited :
    /\ answer[r] \in {"ok", "error"} =>
         /\ \A i \in DOMAIN heard[r] : heard[r][i].of = r
         /\ lost = {} => heard[r] = ran[r]
         /\ answer[r] = "error" <=> Failed(r)
    /\ answer[r] \in {"unsent", "refused"} => r \notin written

\* When a notification was dropped, a refresh, or the exit, is on its way to the
\* UI, or has reached it.
LossIsRefreshed ==
  stale /\ ui = "up" =>
    \E n \in {"refresh", "exit"} :
      \/ \E i \in DOMAIN coalesced : coalesced[i] = n
      \/ \E i \in DOMAIN channel : channel[i] = n

\* A request that was queued gets an answer, or its caller learns that nobody is
\* left to give one, even if tmux never says anything, and whether or not the
\* UI takes its notifications.
RequestsAnswered ==
  \A r \in Waited : (call[r] = "waiting") ~> answer[r] # "none"

\* The end of control mode is told to a UI that polls, also when its channel is
\* full of other things.
ExitIsTold == dying ~> ui # "up"

\* Both threads end when the session is dropped, whatever they wait for.
ThreadsEnd == (ui = "gone") ~> (writer.at = "ended" /\ reader = "ended")
=============================================================================
