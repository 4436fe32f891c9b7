---------------------------- MODULE PaneProofs ----------------------------
(* Proofs about Pane, for every set of views and every bound. *)
EXTENDS Pane, TLAPS

-----------------------------------------------------------------------------
(* Types.                                                                  *)

\* The parts of TypeOK that a step leaves alone still hold after it.
LEMMA Frame ==
    /\ EngineType /\ UNCHANGED engineVars => EngineType'
    /\ QueueType /\ UNCHANGED queue => QueueType'
    /\ WorkerType /\ UNCHANGED workerVars => WorkerType'
    /\ SharedType /\ UNCHANGED sharedVars => SharedType'
    /\ HostType /\ UNCHANGED <<hook, hostVars, cause>> => HostType'
    /\ ViewType /\ UNCHANGED <<stage, pending>> => ViewType'
    /\ SentType /\ UNCHANGED sentVars => SentType'
<1>1. EngineType /\ UNCHANGED engineVars => EngineType'
  BY DEF EngineType, engineVars
<1>2. QueueType /\ UNCHANGED queue => QueueType'
  BY DEF QueueType
<1>3. WorkerType /\ UNCHANGED workerVars => WorkerType'
  BY DEF WorkerType, workerVars
<1>4. SharedType /\ UNCHANGED sharedVars => SharedType'
  BY DEF SharedType, sharedVars
<1>5. HostType /\ UNCHANGED <<hook, hostVars, cause>> => HostType'
  BY DEF HostType, hostVars
<1>6. ViewType /\ UNCHANGED <<stage, pending>> => ViewType'
  BY DEF ViewType
<1>7. SentType /\ UNCHANGED sentVars => SentType'
  BY DEF SentType, sentVars
<1>8. QED
  BY <1>1, <1>2, <1>3, <1>4, <1>5, <1>6, <1>7

\* What is put on the queue is work.
LEMMA PlainWork ==
    ASSUME NEW k \in {"Wake", "Change", "Viewport", "Close", "Shutdown"}
    PROVE  Plain(k) \in Work
BY DEF Plain, Work

\* A refresh and a resume are work too.
LEMMA ForWork ==
    ASSUME NEW k \in {"Refresh", "Resume"}, NEW v \in Views
    PROVE  For(k, v) \in Work
BY DEF For, Work

\* Receiving keeps the queue's type.
LEMMA QueueTail ==
    QueueType /\ queue # <<>> => Tail(queue) \in Seq(Work) /\ Len(Tail(queue)) <= QueueSize
BY ConstantsAssumption DEF QueueType

\* So does sending, when there is room.
LEMMA QueueAppend ==
    ASSUME QueueType, Len(queue) < QueueSize, NEW w \in Work
    PROVE  Append(queue, w) \in Seq(Work) /\ Len(Append(queue, w)) <= QueueSize
BY ConstantsAssumption DEF QueueType

\* A new subscription's queue, and one with a pause or what was sent removed.
LEMMA PendingTypes ==
    /\ SharedType => [Idle EXCEPT !.state = TRUE, !.replay = ReplaySeed] \in Pending
    /\ \A p \in Pending :
          /\ \A a \in Acks, b, c \in BOOLEAN :
                [p EXCEPT !.paused = b, !.ack = a, !.state = c] \in Pending
          /\ [p EXCEPT !.replay = NoReplay] \in Pending
          /\ [p EXCEPT !.title = NoTitle, !.exit = FALSE] \in Pending
          /\ p.replay.title \in 0..MaxTitle /\ p.title \in 0..MaxTitle
<1>1. NoReplay \in Replay /\ NoTitle \in 0..MaxTitle
  BY ConstantsAssumption DEF NoReplay, Replay, NoTitle
<1>2. SharedType => ReplaySeed \in Replay
  BY DEF SharedType, ReplaySeed, Replay
<1>3. Idle \in Pending
  BY <1>1 DEF Idle, Pending, Acks
<1>4. SharedType => [Idle EXCEPT !.state = TRUE, !.replay = ReplaySeed] \in Pending
  BY <1>2, <1>3 DEF Pending
<1>5. ASSUME NEW p \in Pending
      PROVE  /\ [p EXCEPT !.replay = NoReplay] \in Pending
             /\ [p EXCEPT !.title = NoTitle, !.exit = FALSE] \in Pending
             /\ p.title \in 0..MaxTitle
  BY <1>1 DEF Pending
<1>6. ASSUME NEW p \in Pending PROVE p.replay.title \in 0..MaxTitle
  BY DEF Pending, Replay
<1>7. ASSUME NEW p \in Pending, NEW a \in Acks, NEW b \in BOOLEAN, NEW c \in BOOLEAN
      PROVE  [p EXCEPT !.paused = b, !.ack = a, !.state = c] \in Pending
  BY DEF Pending
<1>8. QED
  BY <1>4, <1>5, <1>6, <1>7

\* Publishing a frame and an event keeps the shared state and the queues typed.
LEMMA PublishType ==
    ASSUME SharedType, ViewType,
           NEW f \in Frames \cup {NoFrame}, NEW e \in Events \cup {NoEvent},
           Publish(f, e)
    PROVE  /\ exited' \in BOOLEAN /\ frame' \in Frames /\ sticky' \in 0..MaxTitle
           /\ subs' \subseteq Views /\ pending' \in [Views -> Pending]
<1>1. ASSUME NEW p \in Pending, NEW changed \in BOOLEAN
      PROVE  Offer(p, changed, e) \in Pending
  <2>1. e \in Titles => e \in 0..MaxTitle
    BY ConstantsAssumption DEF Titles
  <2>2. p.state \in BOOLEAN /\ p.exit \in BOOLEAN /\ p.title \in 0..MaxTitle
    BY DEF Pending
  <2> DEFINE t == IF e \in Titles THEN e ELSE p.title
             s == p.state \/ (changed /\ ~p.paused)
             x == p.exit \/ e = Exit
  <2>3. t \in 0..MaxTitle /\ s \in BOOLEAN /\ x \in BOOLEAN
    BY <2>1, <2>2
  <2>4. Offer(p, changed, e) = [p EXCEPT !.state = s, !.title = t, !.exit = x]
    BY DEF Offer
  <2> HIDE DEF t, s, x
  <2>5. QED
    BY <2>3, <2>4 DEF Pending
<1>2. pending' \in [Views -> Pending]
  BY <1>1 DEF Publish, ViewType
<1>3. /\ exited' \in BOOLEAN /\ frame' \in Frames /\ sticky' \in 0..MaxTitle
      /\ subs' \subseteq Views
  BY ConstantsAssumption DEF Publish, SharedType, Titles, NoFrame
<1>4. QED
  BY <1>2, <1>3

\* The pane starts well typed,
LEMMA TypeInit == Init => TypeOK
<1> SUFFICES ASSUME Init PROVE TypeOK
  OBVIOUS
<1>1. EngineType
  <2>1. screen \in Frames /\ titles \in 0..MaxTitle
    BY ConstantsAssumption DEF Init, Frames, NoTitle
  <2>2. engineEvents \in Seq(Events)
    BY DEF Init
  <2>3. QED
    BY <2>1, <2>2 DEF Init, EngineType
<1>2. QueueType
  BY ConstantsAssumption DEF Init, QueueType
<1>3. WorkerType
  BY DEF Init, WorkerType, Plain, Work
<1>4. SharedType /\ HostType
  <2>1. frame \in Frames /\ sticky \in 0..MaxTitle /\ asks \in 0..MaxAsks
    BY ConstantsAssumption DEF Init, Frames, NoTitle
  <2>2. QED
    BY <2>1 DEF Init, SharedType, HostType
<1>5. ViewType
  BY ConstantsAssumption
     DEF Init, ViewType, Stages, Idle, Pending, NoReplay, Replay, NoTitle, Acks
<1>6. SentType
  BY ConstantsAssumption DEF Init, SentType, NoTitle, NoFrame, Acks
<1>7. QED
  BY <1>1, <1>2, <1>3, <1>4, <1>5, <1>6 DEF TypeOK

\* and every step of a thread keeps it so.
LEMMA TypeStep == TypeOK /\ [Next]_vars => TypeOK'
<1> SUFFICES ASSUME TypeOK, [Next]_vars PROVE TypeOK'
  OBVIOUS
<1> USE ConstantsAssumption DEF TypeOK
<1>1. CASE Output
  <2>1. EngineType'
    BY <1>1 DEF Output, EngineType, Frames, Titles, Events, Exit
  <2>2. QueueType' /\ WorkerType' /\ SharedType' /\ HostType' /\ ViewType' /\ SentType'
    BY <1>1, Frame DEF Output, hostVars, sentVars, viewVars, workerVars, sharedVars, engineVars
  <2>3. QED
    BY <2>1, <2>2
<1>2. CASE SetTitle
  <2>1. EngineType'
    BY <1>2 DEF SetTitle, EngineType, Frames, Titles, Events, Exit
  <2>2. QueueType' /\ WorkerType' /\ SharedType' /\ HostType' /\ ViewType' /\ SentType'
    BY <1>2, Frame DEF SetTitle, hostVars, sentVars, viewVars, workerVars, sharedVars, engineVars
  <2>3. QED
    BY <2>1, <2>2
<1>3. CASE ProgramExits
  <2>1. EngineType'
    BY <1>3 DEF ProgramExits, EngineType, Frames, Titles, Events, Exit
  <2>2. HostType'
    BY <1>3 DEF ProgramExits, HostType, hostVars
  <2>3. QueueType' /\ WorkerType' /\ SharedType' /\ ViewType' /\ SentType'
    BY <1>3, Frame DEF ProgramExits, hostVars, sentVars, viewVars, workerVars, sharedVars,
       engineVars
  <2>4. QED
    BY <2>1, <2>2, <2>3
<1>4. CASE Notify
  <2>1. EngineType'
    BY <1>4 DEF Notify, EngineType, Frames, Titles, Events, Exit
  <2>2. QueueType'
    BY <1>4, QueueAppend, PlainWork DEF Notify, QueueType, TrySend
  <2>3. WorkerType' /\ SharedType' /\ HostType' /\ ViewType' /\ SentType'
    BY <1>4, Frame DEF Notify, hostVars, sentVars, viewVars, workerVars, sharedVars, engineVars
  <2>4. QED
    BY <2>1, <2>2, <2>3
<1>5. CASE ComputeTimeout
  <2>1. WorkerType'
    BY <1>5 DEF ComputeTimeout, WorkerType
  <2>2. EngineType' /\ QueueType' /\ SharedType' /\ HostType' /\ ViewType' /\ SentType'
    BY <1>5, Frame DEF ComputeTimeout, hostVars, sentVars, viewVars, workerVars, sharedVars,
       engineVars
  <2>3. QED
    BY <2>1, <2>2
<1>6. CASE TimedOut
  <2>1. WorkerType'
    BY <1>6 DEF TimedOut, WorkerType
  <2>2. EngineType' /\ QueueType' /\ SharedType' /\ HostType' /\ ViewType' /\ SentType'
    BY <1>6, Frame DEF TimedOut, hostVars, sentVars, viewVars, workerVars, sharedVars, engineVars
  <2>3. QED
    BY <2>1, <2>2
<1>7. CASE ReceiveWake
  <2>1. QueueType'
    BY <1>7, QueueTail DEF ReceiveWake, QueueType, Received
  <2>2. WorkerType'
    BY <1>7 DEF ReceiveWake, WorkerType
  <2>3. EngineType' /\ SharedType' /\ HostType' /\ ViewType' /\ SentType'
    BY <1>7, Frame DEF ReceiveWake, hostVars, sentVars, viewVars, workerVars, sharedVars, engineVars
  <2>4. QED
    BY <2>1, <2>2, <2>3
<1>8. CASE ReceiveChange
  <2>1. EngineType'
    BY <1>8 DEF ReceiveChange, EngineType, Frames, Titles, Events, Exit
  <2>2. QueueType'
    BY <1>8, QueueTail DEF ReceiveChange, QueueType, Received
  <2>3. WorkerType'
    BY <1>8 DEF ReceiveChange, WorkerType
  <2>4. SharedType' /\ HostType' /\ ViewType' /\ SentType'
    BY <1>8, Frame DEF ReceiveChange, hostVars, sentVars, viewVars, workerVars, sharedVars,
       engineVars
  <2>5. QED
    BY <2>1, <2>2, <2>3, <2>4
<1>9. CASE PublishCapture
  <2>1. WorkerType'
    BY <1>9, PlainWork DEF PublishCapture, WorkerType
  <2>2. SharedType'
    BY <1>9, PublishType DEF PublishCapture, SharedType, WorkerType
  <2>3. stage' \in [Views -> Stages]
    BY <1>9 DEF PublishCapture, ViewType, Stages, Asking, Held, Over
  <2>4. pending' \in [Views -> Pending]
    BY <1>9, PublishType DEF PublishCapture, ViewType, WorkerType, SharedType
  <2>5. ViewType'
    BY <2>3, <2>4 DEF ViewType
  <2>6. EngineType' /\ QueueType' /\ HostType' /\ SentType'
    BY <1>9, Frame DEF PublishCapture, hostVars, sentVars, viewVars, workerVars, sharedVars,
       engineVars
  <2>7. QED
    BY <2>1, <2>2, <2>3, <2>4, <2>5, <2>6
<1>10. CASE MarkResumed
  <2>1. WorkerType'
    BY <1>10, PlainWork DEF MarkResumed, WorkerType
  <2>2. stage' \in [Views -> Stages]
    BY <1>10 DEF MarkResumed, ViewType
  <2>3. pending' \in [Views -> Pending]
    BY <1>10, ZenonT(60) DEF MarkResumed, ViewType, Pending
  <2>4. ViewType'
    BY <2>2, <2>3 DEF ViewType
  <2>5. EngineType' /\ QueueType' /\ SharedType' /\ HostType' /\ SentType'
    BY <1>10, Frame DEF MarkResumed, hostVars, sentVars, viewVars, workerVars, sharedVars,
       engineVars
  <2>6. QED
    BY <2>1, <2>2, <2>3, <2>4, <2>5
<1>11. CASE Drain
  <2>1. engineEvents' \in Seq(Events)
    BY <1>11 DEF Drain, EngineType
  <2>2. EngineType'
    BY <1>11, <2>1 DEF Drain, EngineType
  <2>3. WorkerType'
    BY <1>11 DEF Drain, WorkerType, EngineType
  <2>4. QueueType' /\ SharedType' /\ HostType' /\ ViewType' /\ SentType'
    BY <1>11, Frame DEF Drain, hostVars, sentVars, viewVars, workerVars, sharedVars, engineVars
  <2>5. QED
    BY <2>2, <2>3, <2>4
<1>12. CASE Capture
  <2>1. WorkerType'
    BY <1>12 DEF Capture, WorkerType, EngineType
  <2>2. EngineType' /\ QueueType' /\ SharedType' /\ HostType' /\ ViewType' /\ SentType'
    BY <1>12, Frame DEF Capture, hostVars, sentVars, viewVars, workerVars, sharedVars, engineVars
  <2>3. QED
    BY <2>1, <2>2
<1>13. CASE PublishDrained
  <2>1. WorkerType'
    BY <1>13 DEF PublishDrained, WorkerType
  <2>2. SharedType'
    BY <1>13, PublishType DEF PublishDrained, SharedType, WorkerType
  <2>3. stage' \in [Views -> Stages]
    BY <1>13 DEF PublishDrained, ViewType
  <2>4. pending' \in [Views -> Pending]
    BY <1>13, PublishType DEF PublishDrained, ViewType, WorkerType, SharedType
  <2>5. ViewType'
    BY <2>3, <2>4 DEF ViewType
  <2>6. EngineType' /\ QueueType' /\ HostType' /\ SentType'
    BY <1>13, Frame DEF PublishDrained, hostVars, sentVars, viewVars, workerVars, sharedVars,
       engineVars
  <2>7. QED
    BY <2>1, <2>2, <2>3, <2>4, <2>5, <2>6
<1>14. CASE NotifyExit
  <2>1. WorkerType'
    BY <1>14 DEF NotifyExit, WorkerType
  <2>2. HostType'
    BY <1>14 DEF NotifyExit, HostType, hostVars
  <2>3. EngineType' /\ QueueType' /\ SharedType' /\ ViewType' /\ SentType'
    BY <1>14, Frame DEF NotifyExit, hostVars, sentVars, viewVars, workerVars, sharedVars, engineVars
  <2>4. QED
    BY <2>1, <2>2, <2>3
<1>15. CASE FrameIntervalPasses
  <2>1. WorkerType'
    BY <1>15 DEF FrameIntervalPasses, WorkerType
  <2>2. EngineType' /\ QueueType' /\ SharedType' /\ HostType' /\ ViewType' /\ SentType'
    BY <1>15, Frame DEF FrameIntervalPasses, hostVars, sentVars, viewVars, workerVars, sharedVars,
       engineVars
  <2>3. QED
    BY <2>1, <2>2
<1>16. CASE ReceiveClose
  <2>1. QueueType'
    BY <1>16, QueueTail DEF ReceiveClose, QueueType, Received
  <2>2. WorkerType'
    BY <1>16 DEF ReceiveClose, WorkerType
  <2>3. HostType'
    BY <1>16 DEF ReceiveClose, HostType, hostVars
  <2>4. EngineType' /\ SharedType' /\ ViewType' /\ SentType'
    BY <1>16, Frame DEF ReceiveClose, hostVars, sentVars, viewVars, workerVars, sharedVars,
       engineVars
  <2>5. QED
    BY <2>1, <2>2, <2>3, <2>4
<1>17. CASE ReceiveShutdown
  <2>1. EngineType'
    BY <1>17 DEF ReceiveShutdown, EngineType, Frames, Titles, Events, Exit
  <2>2. QueueType'
    BY <1>17, QueueTail DEF ReceiveShutdown, QueueType, Received
  <2>3. WorkerType'
    BY <1>17 DEF ReceiveShutdown, WorkerType
  <2>4. HostType'
    BY <1>17 DEF ReceiveShutdown, HostType, hostVars
  <2>5. SharedType' /\ ViewType' /\ SentType'
    BY <1>17, Frame DEF ReceiveShutdown, hostVars, sentVars, viewVars, workerVars, sharedVars,
       engineVars
  <2>6. QED
    BY <2>1, <2>2, <2>3, <2>4, <2>5
<1>18. CASE Panic
  <2>1. WorkerType'
    BY <1>18 DEF Panic, WorkerType
  <2>2. HostType'
    BY <1>18 DEF Panic, HostType, hostVars
  <2>3. EngineType' /\ QueueType' /\ SharedType' /\ ViewType' /\ SentType'
    BY <1>18, Frame DEF Panic, hostVars, sentVars, viewVars, workerVars, sharedVars, engineVars
  <2>4. QED
    BY <2>1, <2>2, <2>3
<1>19. CASE EndPane
  <2>1. WorkerType'
    BY <1>19 DEF EndPane, WorkerType
  <2>2. CASE hostStopping
    <3>1. pending' \in [Views -> Pending]
      <4>1. \A p \in Pending : [p EXCEPT !.stopping = TRUE] \in Pending
        BY DEF Pending
      <4>2. QED
        BY <1>19, <2>2, <4>1 DEF EndPane, ViewType
    <3>2. SharedType' /\ ViewType'
      BY <1>19, <2>2, <3>1 DEF EndPane, SharedType, ViewType
    <3>3. QED
      BY <1>19, <2>1, <3>2, Frame DEF EndPane, hostVars, sentVars, engineVars
  <2>3. CASE ~hostStopping /\ exited
    <3>1. SharedType' /\ ViewType'
      BY <1>19, <2>3 DEF EndPane, SharedType, ViewType
    <3>2. QED
      BY <1>19, <2>1, <3>1, Frame DEF EndPane, hostVars, sentVars, engineVars
  <2>4. CASE ~hostStopping /\ ~exited
    <3>1. Publish(NoFrame, Exit)
      BY <1>19, <2>4 DEF EndPane
    <3>2. /\ exited' \in BOOLEAN /\ frame' \in Frames /\ sticky' \in 0..MaxTitle
          /\ subs' \subseteq Views /\ pending' \in [Views -> Pending]
      BY <3>1, PublishType DEF Events
    <3>3. SharedType' /\ ViewType'
      BY <1>19, <3>2 DEF EndPane, SharedType, ViewType
    <3>4. QED
      BY <1>19, <2>1, <3>3, Frame DEF EndPane, hostVars, sentVars, engineVars
  <2>5. QED
    BY <2>2, <2>3, <2>4
<1>20. CASE CloseSubscriptions
  <2>1. WorkerType'
    BY <1>20 DEF CloseSubscriptions, WorkerType
  <2>2. HostType'
    BY <1>20 DEF CloseSubscriptions, HostType, hostVars
  <2>3. SharedType'
    BY <1>20 DEF CloseSubscriptions, SharedType
  <2>4. stage' \in [Views -> Stages]
    BY <1>20 DEF CloseSubscriptions, ViewType
  <2>5. pending' \in [Views -> Pending]
    BY <1>20, ZenonT(60) DEF CloseSubscriptions, ViewType, Pending
  <2>6. ViewType'
    BY <2>4, <2>5 DEF ViewType
  <2>7. EngineType' /\ QueueType' /\ SentType'
    BY <1>20, Frame DEF CloseSubscriptions, hostVars, sentVars, viewVars, workerVars, sharedVars,
       engineVars
  <2>8. QED
    BY <2>1, <2>2, <2>3, <2>4, <2>5, <2>6, <2>7
<1>21. CASE RegisterHook
  <2>1. HostType'
    BY <1>21 DEF RegisterHook, HostType, hostVars
  <2>2. EngineType' /\ QueueType' /\ WorkerType' /\ SharedType' /\ ViewType' /\ SentType'
    BY <1>21, Frame DEF RegisterHook, hostVars, sentVars, viewVars, workerVars, sharedVars,
       engineVars
  <2>3. QED
    BY <2>1, <2>2
<1>22. CASE HostStops
  <2>1. HostType'
    BY <1>22 DEF HostStops, HostType, hostVars
  <2>2. EngineType' /\ QueueType' /\ WorkerType' /\ SharedType' /\ ViewType' /\ SentType'
    BY <1>22, Frame DEF HostStops, hostVars, sentVars, viewVars, workerVars, sharedVars, engineVars
  <2>3. QED
    BY <2>1, <2>2
<1>23. CASE SendShutdown
  <2>1. HostType'
    BY <1>23 DEF SendShutdown, HostType, hostVars
  <2>2. QueueType'
    BY <1>23, QueueAppend, PlainWork DEF SendShutdown, QueueType, Room
  <2>3. EngineType' /\ WorkerType' /\ SharedType' /\ ViewType' /\ SentType'
    BY <1>23, Frame DEF SendShutdown, hostVars, sentVars, viewVars, workerVars, sharedVars,
       engineVars
  <2>4. QED
    BY <2>1, <2>2, <2>3
<1>24. ASSUME NEW kind \in {"Refresh", "Viewport", "Resume"}, ReceiveCapture(kind)
      PROVE  TypeOK'
  <2>1. EngineType'
    BY <1>24 DEF ReceiveCapture, EngineType, Frames, Titles, Events, Exit
  <2>2. QueueType'
    BY <1>24, QueueTail DEF ReceiveCapture, QueueType, Received
  <2>3. WorkerType'
    BY <1>24 DEF ReceiveCapture, WorkerType, Received, QueueType, EngineType, Frames
  <2>4. SharedType' /\ HostType' /\ ViewType' /\ SentType'
    BY <1>24, Frame DEF ReceiveCapture, hostVars, sentVars, viewVars, workerVars, sharedVars,
       engineVars
  <2>5. QED
    BY <2>1, <2>2, <2>3, <2>4
<1>25. ASSUME NEW kind \in {"Change", "Viewport", "Close"}, Ask(kind)
      PROVE  TypeOK'
  <2>1. HostType'
    BY <1>25 DEF Ask, HostType, hostVars, MayAsk
  <2>2. QueueType'
    BY <1>25, QueueAppend, PlainWork DEF Ask, QueueType, Room
  <2>3. EngineType' /\ WorkerType' /\ SharedType' /\ ViewType' /\ SentType'
    BY <1>25, Frame DEF Ask, hostVars, sentVars, viewVars, workerVars, sharedVars, engineVars
  <2>4. QED
    BY <2>1, <2>2, <2>3
<1>26. ASSUME NEW v \in Views, Register(v) PROVE TypeOK'
  <2>1. stage' \in [Views -> Stages]
    BY <1>26 DEF Register, ViewType, Stages, Asking, Held, Over
  <2>2. pending' \in [Views -> Pending]
    BY <1>26, PendingTypes DEF Register, ViewType
  <2>3. ViewType'
    BY <2>1, <2>2 DEF ViewType
  <2>4. SharedType'
    BY <1>26 DEF Register, SharedType
  <2>5. EngineType' /\ QueueType' /\ WorkerType' /\ HostType' /\ SentType'
    BY <1>26, Frame DEF Register, hostVars, sentVars, viewVars, workerVars, sharedVars, engineVars
  <2>6. QED
    BY <2>1, <2>2, <2>3, <2>4, <2>5
<1>27. ASSUME NEW v \in Views, WakeWorker(v) PROVE TypeOK'
  <2>1. stage' \in [Views -> Stages]
    BY <1>27 DEF WakeWorker, ViewType, Stages, Asking, Held, Over
  <2>2. pending' \in [Views -> Pending]
    BY <1>27 DEF WakeWorker, ViewType
  <2>3. ViewType'
    BY <2>1, <2>2 DEF ViewType
  <2>4. QueueType'
    BY <1>27, QueueAppend, PlainWork DEF WakeWorker, QueueType, TrySend
  <2>5. EngineType' /\ WorkerType' /\ SharedType' /\ HostType' /\ SentType'
    BY <1>27, Frame DEF WakeWorker, hostVars, sentVars, viewVars, workerVars, sharedVars, engineVars
  <2>6. QED
    BY <2>1, <2>2, <2>3, <2>4, <2>5
<1>28. ASSUME NEW v \in Views, SendAck(v) PROVE TypeOK'
  <2>1. stage' \in [Views -> Stages]
    BY <1>28 DEF SendAck, ViewType
  <2>2. pending' \in [Views -> Pending]
    BY <1>28 DEF SendAck, ViewType, Pending, Acks
  <2>3. ViewType'
    BY <2>1, <2>2 DEF ViewType
  <2>4. SentType'
    BY <1>28 DEF SendAck, SentType, Pending, ViewType
  <2>5. EngineType' /\ QueueType' /\ WorkerType' /\ SharedType' /\ HostType'
    BY <1>28, Frame DEF SendAck, hostVars, sentVars, viewVars, workerVars, sharedVars, engineVars
  <2>6. QED
    BY <2>1, <2>2, <2>3, <2>4, <2>5
<1>29. ASSUME NEW v \in Views, SendReplay(v) PROVE TypeOK'
  <2>1. stage' \in [Views -> Stages]
    BY <1>29 DEF SendReplay, ViewType
  <2>2. pending' \in [Views -> Pending]
    BY <1>29, PendingTypes DEF SendReplay, ViewType
  <2>3. ViewType'
    BY <2>1, <2>2 DEF ViewType
  <2>4. SentType'
    <3>1. pending[v].replay.title \in 0..MaxTitle /\ v \in Views
      BY PendingTypes DEF ViewType
    <3>2. seenTitle' \in [Views -> 0..MaxTitle]
      BY <1>29, <3>1 DEF SendReplay, Receive, SentType
    <3>3. exits' \in [Views -> Nat]
      BY <1>29 DEF SendReplay, Receive, SentType
    <3>4. QED
      BY <1>29, <3>2, <3>3 DEF SendReplay, SentType
  <2>5. EngineType' /\ QueueType' /\ WorkerType' /\ SharedType' /\ HostType'
    BY <1>29, Frame DEF SendReplay, hostVars, sentVars, viewVars, workerVars, sharedVars, engineVars
  <2>6. QED
    BY <2>1, <2>2, <2>3, <2>4, <2>5
<1>30. ASSUME NEW v \in Views, SendEvents(v) PROVE TypeOK'
  <2>1. stage' \in [Views -> Stages]
    BY <1>30 DEF SendEvents, ViewType
  <2>2. pending' \in [Views -> Pending]
    BY <1>30, PendingTypes DEF SendEvents, ViewType
  <2>3. ViewType'
    BY <2>1, <2>2 DEF ViewType
  <2>4. SentType'
    <3>1. pending[v].title \in 0..MaxTitle /\ v \in Views
      BY PendingTypes DEF ViewType
    <3>2. seenTitle' \in [Views -> 0..MaxTitle]
      BY <1>30, <3>1 DEF SendEvents, Receive, SentType
    <3>3. exits' \in [Views -> Nat]
      BY <1>30 DEF SendEvents, Receive, SentType
    <3>4. QED
      BY <1>30, <3>2, <3>3 DEF SendEvents, SentType
  <2>5. EngineType' /\ QueueType' /\ WorkerType' /\ SharedType' /\ HostType'
    BY <1>30, Frame DEF SendEvents, hostVars, sentVars, viewVars, workerVars, sharedVars, engineVars
  <2>6. QED
    BY <2>1, <2>2, <2>3, <2>4, <2>5
<1>31. ASSUME NEW v \in Views, SendHostShutdown(v) PROVE TypeOK'
  <2>1. stage' \in [Views -> Stages]
    BY <1>31 DEF SendHostShutdown, ViewType
  <2>2. pending' \in [Views -> Pending]
    BY <1>31, ZenonT(60) DEF SendHostShutdown, ViewType, Pending
  <2>3. ViewType'
    BY <2>1, <2>2 DEF ViewType
  <2>4. SentType'
    BY <1>31 DEF SendHostShutdown, SentType
  <2>5. EngineType' /\ QueueType' /\ WorkerType' /\ SharedType' /\ HostType'
    BY <1>31, Frame DEF SendHostShutdown, hostVars, sentVars, viewVars, workerVars, sharedVars,
       engineVars
  <2>6. QED
    BY <2>1, <2>2, <2>3, <2>4, <2>5
<1>32. ASSUME NEW v \in Views, EndStream(v) PROVE TypeOK'
  <2>1. stage' \in [Views -> Stages]
    BY <1>32 DEF EndStream, ViewType, Stages, Asking, Held, Over
  <2>2. pending' \in [Views -> Pending]
    BY <1>32 DEF EndStream, ViewType
  <2>3. ViewType'
    BY <2>1, <2>2 DEF ViewType
  <2>4. EngineType' /\ QueueType' /\ WorkerType' /\ SharedType' /\ HostType' /\ SentType'
    BY <1>32, Frame DEF EndStream, hostVars, sentVars, viewVars, workerVars, sharedVars, engineVars
  <2>5. QED
    BY <2>1, <2>2, <2>3, <2>4
<1>33. ASSUME NEW v \in Views, TakeFrame(v) PROVE TypeOK'
  <2>1. stage' \in [Views -> Stages]
    BY <1>33 DEF TakeFrame, ViewType, Stages, Asking, Held, Over
  <2>2. pending' \in [Views -> Pending]
    BY <1>33, ZenonT(60) DEF TakeFrame, ViewType, Pending
  <2>3. ViewType'
    BY <2>1, <2>2 DEF ViewType
  <2>4. EngineType' /\ QueueType' /\ WorkerType' /\ SharedType' /\ HostType' /\ SentType'
    BY <1>33, Frame DEF TakeFrame, hostVars, sentVars, viewVars, workerVars, sharedVars, engineVars
  <2>5. QED
    BY <2>1, <2>2, <2>3, <2>4
<1>34. ASSUME NEW v \in Views, SendFrame(v) PROVE TypeOK'
  <2>1. stage' \in [Views -> Stages]
    BY <1>34 DEF SendFrame, ViewType, Stages, Asking, Held, Over
  <2>2. pending' \in [Views -> Pending]
    BY <1>34, ZenonT(60) DEF SendFrame, ViewType, Pending
  <2>3. ViewType'
    BY <2>1, <2>2 DEF ViewType
  <2>4. SentType'
    BY <1>34 DEF SendFrame, SentType, SharedType, NoFrame
  <2>5. EngineType' /\ QueueType' /\ WorkerType' /\ SharedType' /\ HostType'
    BY <1>34, Frame DEF SendFrame, hostVars, sentVars, viewVars, workerVars, sharedVars, engineVars
  <2>6. QED
    BY <2>1, <2>2, <2>3, <2>4, <2>5
<1>35. ASSUME NEW v \in Views, BeginSubscribe(v) PROVE TypeOK'
  <2>1. QueueType'
    BY <1>35, QueueAppend, ForWork DEF BeginSubscribe, QueueType, Room
  <2>2. stage' \in [Views -> Stages]
    BY <1>35 DEF BeginSubscribe, ViewType, Stages, Asking, Held, Over
  <2>3. pending' \in [Views -> Pending]
    BY <1>35 DEF BeginSubscribe, ViewType
  <2>4. ViewType'
    BY <2>2, <2>3 DEF ViewType
  <2>5. SentType'
    BY <1>35, ZenonT(60) DEF BeginSubscribe, SentType, EngineType
  <2>6. EngineType' /\ WorkerType' /\ SharedType' /\ HostType'
    BY <1>35, Frame DEF BeginSubscribe, hostVars, sentVars, viewVars, workerVars, sharedVars,
       engineVars
  <2>7. QED
    BY <2>1, <2>2, <2>3, <2>4, <2>5, <2>6
<1>36. ASSUME NEW v \in Views, RefreshFails(v) PROVE TypeOK'
  <2>1. stage' \in [Views -> Stages]
    BY <1>36 DEF RefreshFails, ViewType, Stages, Asking, Held, Over
  <2>2. pending' \in [Views -> Pending]
    BY <1>36 DEF RefreshFails, ViewType
  <2>3. ViewType'
    BY <2>1, <2>2 DEF ViewType
  <2>4. EngineType' /\ QueueType' /\ WorkerType' /\ SharedType' /\ HostType' /\ SentType'
    BY <1>36, Frame DEF RefreshFails, hostVars, sentVars, viewVars, workerVars, sharedVars,
       engineVars
  <2>5. QED
    BY <2>1, <2>2, <2>3, <2>4
<1>37. ASSUME NEW v \in Views, WriteFails(v) PROVE TypeOK'
  <2>1. stage' \in [Views -> Stages]
    BY <1>37 DEF WriteFails, ViewType, Stages, Asking, Held, Over
  <2>2. pending' \in [Views -> Pending]
    BY <1>37, ZenonT(60) DEF WriteFails, ViewType, Pending
  <2>3. ViewType'
    BY <2>1, <2>2 DEF ViewType
  <2>4. SentType'
    BY <1>37 DEF WriteFails, SentType
  <2>5. EngineType' /\ QueueType' /\ WorkerType' /\ SharedType' /\ HostType'
    BY <1>37, Frame DEF WriteFails, hostVars, sentVars, viewVars, workerVars, sharedVars, engineVars
  <2>6. QED
    BY <2>1, <2>2, <2>3, <2>4, <2>5
<1>38. ASSUME NEW v \in Views, Hide(v) PROVE TypeOK'
  <2>1. HostType'
    BY <1>38 DEF Hide, HostType, hostVars, MayAsk
  <2>2. stage' \in [Views -> Stages]
    BY <1>38 DEF Hide, ViewType
  <2>3. pending' \in [Views -> Pending]
    BY <1>38, PendingTypes DEF Hide, ViewType, Acks
  <2>4. ViewType'
    BY <2>2, <2>3 DEF ViewType
  <2>5. EngineType' /\ QueueType' /\ WorkerType' /\ SharedType' /\ SentType'
    BY <1>38, Frame DEF Hide, hostVars, sentVars, viewVars, workerVars, sharedVars, engineVars
  <2>6. QED
    BY <2>1, <2>2, <2>3, <2>4, <2>5
<1>39. ASSUME NEW v \in Views, Show(v) PROVE TypeOK'
  <2>1. HostType'
    BY <1>39 DEF Show, HostType, hostVars, MayAsk
  <2>2. stage' \in [Views -> Stages]
    BY <1>39 DEF Show, ViewType
  <2>3. pending' \in [Views -> Pending]
    BY <1>39, PendingTypes DEF Show, ViewType, Acks
  <2>4. ViewType'
    BY <2>2, <2>3 DEF ViewType
  <2>5. QueueType'
    BY <1>39, QueueAppend, ForWork DEF Show, QueueType, Room
  <2>6. EngineType' /\ WorkerType' /\ SharedType' /\ SentType'
    BY <1>39, Frame DEF Show, hostVars, sentVars, viewVars, workerVars, sharedVars, engineVars
  <2>7. QED
    BY <2>1, <2>2, <2>3, <2>4, <2>5, <2>6
<1>40. ASSUME NEW v \in Views, AskResync(v) PROVE TypeOK'
  <2>1. HostType'
    BY <1>40 DEF AskResync, HostType, hostVars, MayAsk
  <2>2. stage' \in [Views -> Stages]
    BY <1>40 DEF AskResync, ViewType
  <2>3. pending' \in [Views -> Pending]
    BY <1>40 DEF AskResync, ViewType, Pending
  <2>4. ViewType'
    BY <2>2, <2>3 DEF ViewType
  <2>5. EngineType' /\ QueueType' /\ WorkerType' /\ SharedType' /\ SentType'
    BY <1>40, Frame DEF AskResync, hostVars, sentVars, viewVars, workerVars, sharedVars, engineVars
  <2>6. QED
    BY <2>1, <2>2, <2>3, <2>4, <2>5
<1>41. ASSUME NEW v \in Views, Detach(v) PROVE TypeOK'
  <2>1. stage' \in [Views -> Stages]
    BY <1>41 DEF Detach, ViewType
  <2>2. pending' \in [Views -> Pending]
    BY <1>41 DEF Detach, ViewType, Pending
  <2>3. ViewType'
    BY <2>1, <2>2 DEF ViewType
  <2>4. SentType'
    BY <1>41 DEF Detach, SentType
  <2>5. EngineType' /\ QueueType' /\ WorkerType' /\ SharedType' /\ HostType'
    BY <1>41, Frame DEF Detach, hostVars, sentVars, viewVars, workerVars, sharedVars, engineVars
  <2>6. QED
    BY <2>1, <2>2, <2>3, <2>4, <2>5
<1>42. CASE UNCHANGED vars
  BY <1>42, Frame DEF vars, viewVars
<1>43. CASE ReceiveUnchanged
  <2>1. QueueType'
    BY <1>43, QueueTail DEF ReceiveUnchanged, QueueType, Received
  <2>2. WorkerType'
    BY <1>43 DEF ReceiveUnchanged, WorkerType
  <2>3. EngineType' /\ SharedType' /\ HostType' /\ ViewType' /\ SentType'
    BY <1>43, Frame DEF ReceiveUnchanged, hostVars, sentVars, viewVars, workerVars, sharedVars,
       engineVars
  <2>4. QED
    BY <2>1, <2>2, <2>3
<1>44. CASE DropPane
  <2>1. HostType'
    BY <1>44 DEF DropPane, HostType, hostVars
  <2>2. EngineType' /\ QueueType' /\ WorkerType' /\ SharedType' /\ ViewType' /\ SentType'
    BY <1>44, Frame DEF DropPane, hostVars, sentVars, viewVars, workerVars, sharedVars, engineVars
  <2>3. QED
    BY <2>1, <2>2
<1>45. ASSUME NEW v \in Views, ReadNothing(v) PROVE TypeOK'
  <2>1. stage' \in [Views -> Stages]
    BY <1>45 DEF ReadNothing, ViewType, Stages, Asking, Held, Over
  <2>2. pending' \in [Views -> Pending]
    BY <1>45 DEF ReadNothing, ViewType
  <2>3. ViewType'
    BY <2>1, <2>2 DEF ViewType
  <2>4. EngineType' /\ QueueType' /\ WorkerType' /\ SharedType' /\ HostType' /\ SentType'
    BY <1>45, Frame DEF ReadNothing, hostVars, sentVars, viewVars, workerVars, sharedVars,
       engineVars
  <2>5. QED
    BY <2>1, <2>2, <2>3, <2>4
<1>46. QED
  BY <1>1, <1>2, <1>3, <1>4, <1>5, <1>6, <1>7, <1>8, <1>9, <1>10, <1>11,
     <1>12, <1>13, <1>14, <1>15, <1>16, <1>17, <1>18, <1>19, <1>20, <1>21,
     <1>22, <1>23, <1>24, <1>25, <1>26, <1>27, <1>28, <1>29, <1>30, <1>31,
     <1>32, <1>33, <1>34, <1>35, <1>36, <1>37, <1>38, <1>39, <1>40, <1>41,
     <1>42, <1>43, <1>44, <1>45
     DEF Next, Program, Worker, Stream, Client, Host

\* Every reachable state is well typed, and the queue never outgrows its bound.
THEOREM TypeCorrect == Spec => []TypeOK
BY TypeInit, TypeStep, PTL DEF Spec


-----------------------------------------------------------------------------
(* No view waits on a worker that is gone.                                 *)

\* What the worker and the serving threads keep between them: an open
\* subscription is known to the worker, a pane is not alive once the worker has
\* reported its end, and a worker that is gone left no subscription open.
Known    == \A v \in Views : stage[v] \in Held /\ ~pending[v].closed => v \in subs
EndMarked == pc \in {"ended", "dead"} => ~alive
AllClosed == pc = "dead" => \A v \in Views : stage[v] \in Held => pending[v].closed
Served   == TypeOK /\ Known /\ EndMarked /\ AllClosed

\* The subscriptions and the end are left alone by most steps.
LEMMA ServedFrame ==
    ASSUME Served, TypeOK', UNCHANGED <<stage, pending, subs, alive>>,
           pc' = pc \/ pc' \notin {"ended", "dead"}
    PROVE  Served'
BY DEF Served, Known, EndMarked, AllClosed

\* A view's own step leaves it Held with its subscription as open as before, or
\* Held no more; the other views are left alone.
LEMMA ServedView ==
    ASSUME Served, TypeOK', UNCHANGED <<subs, alive, pc>>,
           NEW v \in Views,
           \A u \in Views \ {v} : stage'[u] = stage[u] /\ pending'[u] = pending[u],
           stage'[v] \in Held => /\ stage[v] \in Held
                                 /\ pending[v].closed => pending'[v].closed
    PROVE  Served'
BY DEF Served, Known, EndMarked, AllClosed

\* Publishing drops only subscribers that are closed or gone, and closes none.
LEMMA PublishServed ==
    ASSUME TypeOK, Known, NEW f, NEW e, Publish(f, e)
    PROVE  /\ \A v \in Views : pending'[v].closed = pending[v].closed
           /\ \A v \in Views : stage[v] \in Held /\ ~pending[v].closed => v \in subs'
<1>1. ASSUME NEW p \in Pending, NEW changed PROVE Offer(p, changed, e).closed = p.closed
  BY DEF Offer, Pending
<1>2. \A v \in Views : pending[v] \in Pending
  BY DEF TypeOK, ViewType
<1>3. \A v \in Views : pending'[v].closed = pending[v].closed
  BY <1>1, <1>2 DEF Publish
<1>4. \A v \in Views : stage[v] \in Held /\ ~pending[v].closed => v \in subs'
  BY DEF Publish, Known
<1>5. QED
  BY <1>3, <1>4

\* A new pane has nobody to serve.
LEMMA ServedInit == Init => Served
<1> SUFFICES ASSUME Init PROVE Served
  OBVIOUS
<1>1. \A v \in Views : stage[v] \notin Held
  BY DEF Init, Held
<1>2. pc = "wait"
  BY DEF Init
<1>3. QED
  BY <1>1, <1>2, TypeInit DEF Served, Known, EndMarked, AllClosed

\* Every step keeps the views served.
LEMMA ServedStep == Served /\ [Next]_vars => Served'
<1> SUFFICES ASSUME Served, [Next]_vars PROVE Served'
  OBVIOUS
<1> USE ConstantsAssumption
<1>0. TypeOK /\ TypeOK'
  BY TypeStep DEF Served
<1>1. CASE Program \/ Notify \/ FrameIntervalPasses \/ Host
  <2>1. UNCHANGED <<stage, pending, subs, alive, pc>>
    BY <1>1 DEF Program, Output, SetTitle, ProgramExits, Notify, FrameIntervalPasses,
                Host, Ask, RegisterHook, DropPane, HostStops, SendShutdown,
                viewVars, sharedVars, workerVars
  <2>2. QED
    BY <1>0, <2>1, ServedFrame
<1>2. CASE ComputeTimeout \/ TimedOut \/ ReceiveWake \/ ReceiveChange \/ Drain
             \/ ReceiveUnchanged \/ Capture \/ NotifyExit \/ ReceiveClose \/ ReceiveShutdown \/ Panic
             \/ \E kind \in {"Refresh", "Viewport", "Resume"} : ReceiveCapture(kind)
  <2>1. UNCHANGED <<stage, pending, subs, alive>> /\ pc' \notin {"ended", "dead"}
    BY <1>2 DEF ComputeTimeout, TimedOut, ReceiveWake, ReceiveChange, Drain, Capture,
                ReceiveUnchanged,
                NotifyExit, ReceiveClose, ReceiveShutdown, Panic, ReceiveCapture,
                viewVars, sharedVars
  <2>2. QED
    BY <1>0, <2>1, ServedFrame
<1>3. CASE PublishCapture
  <2>1. /\ Publish(captured, NoEvent) /\ pc' \notin {"ended", "dead"}
        /\ \A v \in Views : stage'[v] \in Held => stage[v] \in Held
    BY <1>0, <1>3 DEF PublishCapture, Held, TypeOK, ViewType
  <2>2. \A v \in Views : stage[v] \in Held /\ ~pending'[v].closed => v \in subs'
    BY <1>0, <2>1, PublishServed DEF Served
  <2>3. QED
    BY <1>0, <2>1, <2>2 DEF Served, Known, EndMarked, AllClosed
<1>4. CASE MarkResumed
  <2>1. \A v \in Views : pending'[v].closed = pending[v].closed
    BY <1>0, <1>4 DEF MarkResumed, TypeOK, ViewType, Pending
  <2>2. UNCHANGED <<stage, subs, alive>> /\ pc' = "drain"
    BY <1>4 DEF MarkResumed, sharedVars
  <2>3. QED
    BY <1>0, <2>1, <2>2 DEF Served, Known, EndMarked, AllClosed
<1>5. CASE PublishDrained
  <2>1. Publish(captured, batch) /\ pc' \notin {"ended", "dead"} /\ UNCHANGED stage
    BY <1>5 DEF PublishDrained
  <2>2. \A v \in Views : stage[v] \in Held /\ ~pending'[v].closed => v \in subs'
    BY <1>0, <2>1, PublishServed DEF Served
  <2>3. QED
    BY <1>0, <2>1, <2>2 DEF Served, Known, EndMarked, AllClosed
<1>6. CASE EndPane
  <2>1. ~alive' /\ pc' = "ended" /\ UNCHANGED stage
    BY <1>6 DEF EndPane
  <2>2. \A v \in Views : stage[v] \in Held /\ ~pending'[v].closed => v \in subs'
    <3>1. CASE hostStopping
      <4>1. UNCHANGED subs /\ \A v \in Views : pending'[v].closed = pending[v].closed
        BY <1>0, <1>6, <3>1 DEF EndPane, TypeOK, ViewType, Pending
      <4>2. QED
        BY <4>1 DEF Served, Known
    <3>2. CASE ~hostStopping /\ exited
      BY <1>6, <3>2 DEF EndPane, Served, Known
    <3>3. CASE ~hostStopping /\ ~exited
      <4>1. Publish(NoFrame, Exit)
        BY <1>6, <3>3 DEF EndPane
      <4>2. QED
        BY <1>0, <4>1, PublishServed DEF Served
    <3>4. QED
      BY <3>1, <3>2, <3>3
  <2>3. QED
    BY <1>0, <2>1, <2>2 DEF Served, Known, EndMarked, AllClosed
<1>7. CASE CloseSubscriptions
  <2>1. pc = "ended" /\ pc' = "dead" /\ UNCHANGED <<alive, stage>>
    BY <1>7 DEF CloseSubscriptions
  <2>2. \A v \in Views : stage[v] \in Held => pending'[v].closed
    <3>1. SUFFICES ASSUME NEW v \in Views, stage[v] \in Held PROVE pending'[v].closed
      OBVIOUS
    <3>2. CASE v \in subs
      BY <1>0, <1>7, <3>1, <3>2 DEF CloseSubscriptions, TypeOK, ViewType, Pending
    <3>3. CASE v \notin subs
      BY <1>0, <1>7, <3>1, <3>3 DEF CloseSubscriptions, Served, Known
    <3>4. QED
      BY <3>2, <3>3
  <2>3. QED
    BY <1>0, <2>1, <2>2 DEF Served, Known, EndMarked, AllClosed
<1>8. ASSUME NEW v \in Views, Register(v) PROVE Served'
  <2>1. CASE alive
    <3>1. pc \notin {"ended", "dead"} /\ UNCHANGED <<alive, pc>>
      BY <1>8, <2>1 DEF Register, Served, EndMarked, workerVars
    <3>2. subs' = subs \cup {v}
      BY <1>8, <2>1 DEF Register, EnsureAlive
    <3>3. \A u \in Views \ {v} : stage'[u] = stage[u] /\ pending'[u] = pending[u]
      BY <1>0, <1>8, <2>1 DEF Register, EnsureAlive, TypeOK, ViewType
    <3>4. Known'
      BY <3>2, <3>3 DEF Served, Known
    <3>5. QED
      BY <1>0, <3>1, <3>4 DEF Served, EndMarked, AllClosed
  <2>2. CASE ~alive
    <3>1. UNCHANGED <<subs, pending, alive, pc>> /\ stage' = [stage EXCEPT ![v] = "gone"]
      BY <1>8, <2>2 DEF Register, EnsureAlive, workerVars
    <3>2. stage'[v] \notin Held
      BY <1>0, <3>1 DEF TypeOK, ViewType, Held
    <3>3. \A u \in Views \ {v} : stage'[u] = stage[u]
      BY <1>0, <3>1 DEF TypeOK, ViewType
    <3>4. QED
      BY <1>0, <3>1, <3>2, <3>3, ServedView
  <2>3. QED
    BY <2>1, <2>2
<1>9. ASSUME NEW v \in Views,
             \/ WakeWorker(v) \/ SendAck(v) \/ SendReplay(v) \/ SendEvents(v)
             \/ SendHostShutdown(v) \/ EndStream(v) \/ ReadNothing(v) \/ TakeFrame(v) \/ SendFrame(v)
             \/ Client(v)
      PROVE  Served'
  <2>1. UNCHANGED <<subs, alive, pc>>
    BY <1>9 DEF WakeWorker, SendAck, SendReplay, SendEvents, SendHostShutdown, EndStream,
       ReadNothing,
                TakeFrame, SendFrame, Client, BeginSubscribe, RefreshFails, WriteFails,
                Hide, Show, AskResync, Detach, sharedVars, workerVars
  <2>2. CASE WakeWorker(v) \/ EndStream(v) \/ ReadNothing(v) \/ BeginSubscribe(v) \/ RefreshFails(v)
    <3>1. UNCHANGED pending /\ \E s \in Stages : /\ stage' = [stage EXCEPT ![v] = s]
                                                 /\ s \in Held => stage[v] \in Held
      BY <2>2 DEF WakeWorker, EndStream, ReadNothing, BeginSubscribe, RefreshFails, Held, Stages,
         Over,
                  Asking, viewVars
    <3>2. PICK s \in Stages : /\ stage' = [stage EXCEPT ![v] = s]
                              /\ s \in Held => stage[v] \in Held
      BY <3>1
    <3>3. stage'[v] = s /\ \A u \in Views \ {v} : stage'[u] = stage[u]
      BY <1>0, <3>2 DEF TypeOK, ViewType
    <3>4. QED
      BY <1>0, <2>1, <3>1, <3>2, <3>3, ServedView
  <2>3. CASE SendAck(v) \/ SendReplay(v) \/ SendEvents(v) \/ SendHostShutdown(v)
              \/ Hide(v) \/ Show(v) \/ AskResync(v) \/ Detach(v)
    <3>1. UNCHANGED stage
      BY <2>3 DEF SendAck, SendReplay, SendEvents, SendHostShutdown, Hide, Show,
                  AskResync, Detach
    <3>2. \A u \in Views \ {v} : pending'[u] = pending[u]
      BY <1>0, <2>3 DEF SendAck, SendReplay, SendEvents, SendHostShutdown, Hide, Show,
                        AskResync, Detach, TypeOK, ViewType
    <3>3. pending[v].closed => pending'[v].closed
      <4>1. CASE SendAck(v) \/ SendReplay(v) \/ SendEvents(v) \/ SendHostShutdown(v)
                  \/ Detach(v)
        BY <1>0, <4>1 DEF SendAck, SendReplay, SendEvents, SendHostShutdown, Detach,
                          TypeOK, ViewType, Pending
      <4>2. CASE Hide(v)
        BY <1>0, <4>2 DEF Hide, TypeOK, ViewType, Pending
      <4>3. CASE Show(v)
        BY <1>0, <4>3 DEF Show, TypeOK, ViewType, Pending
      <4>4. CASE AskResync(v)
        BY <1>0, <4>4 DEF AskResync, TypeOK, ViewType, Pending
      <4>5. QED
        BY <2>3, <4>1, <4>2, <4>3, <4>4
    <3>4. QED
      BY <1>0, <2>1, <3>1, <3>2, <3>3, ServedView
  <2>4. CASE TakeFrame(v) \/ SendFrame(v) \/ WriteFails(v)
    <3>1. /\ \A u \in Views \ {v} : stage'[u] = stage[u] /\ pending'[u] = pending[u]
          /\ stage[v] \in Held /\ pending[v].closed => pending'[v].closed
      BY <1>0, <2>4 DEF TakeFrame, SendFrame, WriteFails, TypeOK, ViewType, Pending, Held
    <3>2. stage[v] \in Held /\ (pending[v].closed => pending'[v].closed)
      BY <1>0, <2>4 DEF TakeFrame, SendFrame, WriteFails, TypeOK, ViewType, Pending, Held
    <3>3. QED
      BY <1>0, <2>1, <3>1, <3>2, ServedView
  <2>5. QED
    BY <1>9, <2>2, <2>3, <2>4 DEF Client
<1>10. CASE UNCHANGED vars
  <2>1. UNCHANGED <<stage, pending, subs, alive, pc>>
    BY <1>10 DEF vars, viewVars, sharedVars, workerVars
  <2>2. QED
    BY <1>0, <2>1, ServedFrame
<1>11. QED
  BY <1>1, <1>2, <1>3, <1>4, <1>5, <1>6, <1>7, <1>8, <1>9, <1>10 DEF Next, Worker, Stream

\* A view never waits on a subscription that the worker does not know of, or that
\* a worker left open when it stopped (`subscribe' against `WorkerExit::drop').
THEOREM ServedForEver == Spec => []NobodyForgotten
<1>1. Served => NobodyForgotten
  BY DEF Served, Known, AllClosed, NobodyForgotten
<1>2. QED
  BY <1>1, ServedInit, ServedStep, PTL DEF Spec


-----------------------------------------------------------------------------
(* Every view is told the end of its pane, once.                           *)

\* What `WorkerExit' counts as an exit, and the states of a worker that has
\* reported its end.
ToldCauses == {"exit", "close", "panic"}
Stopped    == {"ended", "dead"}

\* The program's exit is the last of its events and is reported once: after it
\* was published none is drained or waiting.
NoExitDue == batch # Exit /\ \A i \in 1..Len(engineEvents) : engineEvents[i] # Exit
ExitOrder ==
    /\ \A i \in 1..Len(engineEvents) : engineEvents[i] = Exit => i = Len(engineEvents)
    /\ batch = Exit => \A i \in 1..Len(engineEvents) : engineEvents[i] # Exit
    /\ program = "running" => NoExitDue
    /\ exited /\ pc \notin Stopped => NoExitDue /\ program = "exited" /\ cause \in ToldCauses
    /\ NoExitDue \/ cause \in ToldCauses

\* A shutdown is the cause only of an end that began with it.
CauseKnown ==
    /\ cause = "none" => program = "running" /\ pc \notin Stopped \cup {"ending"}
    /\ cause = "shutdown" => /\ program = "exited" /\ hostStopping
                             /\ pc \in Stopped \cup {"ending"}
    /\ hostStopping => pc \in Stopped \cup {"ending"}
    /\ pc = "ending" /\ ~hostStopping => cause \in ToldCauses
    /\ pc \in Stopped => exited

\* What one view has been told or has in its queue.
ViewEnds(v) ==
    /\ stage[v] \notin Held \cup {"done", "cut"} => ExitsOf(v) = 0 /\ StopsOf(v) = 0
    /\ ~exited => ExitsOf(v) = 0
    /\ ExitsOf(v) <= 1 /\ StopsOf(v) <= 1
    /\ pc \notin Stopped => StopsOf(v) = 0
    /\ ExitsOf(v) > 0 => cause \in ToldCauses
    /\ stage[v] \in Held /\ pending[v].closed /\ pc # "dead" => detached[v]
    /\ stage[v] \in Held /\ ~detached[v] /\ exited => ExitsOf(v) + StopsOf(v) >= 1
EveryViewEnds == \A v \in Views : ViewEnds(v)
Ends == Served /\ ExitOrder /\ CauseKnown /\ EveryViewEnds

\* What a view was told is counted, and its parts are known.
LEMMA EndCounts ==
    ASSUME TypeOK, NEW v \in Views
    PROVE  /\ ExitsOf(v) \in Nat /\ StopsOf(v) \in Nat
           /\ exits[v] \in Nat /\ stops[v] \in Nat
           /\ pending[v] \in Pending
           /\ pending[v].replay.exit \in BOOLEAN /\ pending[v].exit \in BOOLEAN
           /\ pending[v].stopping \in BOOLEAN
<1>1. exits[v] \in Nat /\ stops[v] \in Nat /\ pending[v] \in Pending
  BY DEF TypeOK, SentType, ViewType
<1>2. /\ pending[v].replay \in Replay /\ pending[v].exit \in BOOLEAN
      /\ pending[v].stopping \in BOOLEAN
  BY <1>1 DEF Pending
<1>3. pending[v].replay.exit \in BOOLEAN
  BY <1>2 DEF Replay
<1>4. QED
  BY <1>1, <1>2, <1>3 DEF ExitsOf, StopsOf, Count

\* A view that is told nothing new, and takes no part in the end, stays as it
\* should be.
LEMMA ViewEndsKept ==
    ASSUME TypeOK, NEW v \in Views, ViewEnds(v),
           exited' = exited, pc' = pc \/ (pc \notin Stopped /\ pc' \notin Stopped),
           ExitsOf(v)' = ExitsOf(v), StopsOf(v)' = StopsOf(v),
           cause \in ToldCauses => cause' \in ToldCauses,
           stage'[v] \in Held => stage[v] \in Held,
           stage'[v] \notin Held \cup {"done", "cut"} => stage[v] \notin Held \cup {"done", "cut"},
           pending'[v].closed => pending[v].closed \/ detached'[v],
           detached[v] => detached'[v]
    PROVE  ViewEnds(v)'
<1>1. ExitsOf(v) \in Nat /\ StopsOf(v) \in Nat
  BY EndCounts
<1>2. stage'[v] \in Held /\ pending'[v].closed /\ pc' # "dead" => detached'[v]
  BY DEF ViewEnds, Stopped
<1>3. stage'[v] \in Held /\ ~detached'[v] /\ exited' => ExitsOf(v)' + StopsOf(v)' >= 1
  BY DEF ViewEnds
<1>4. /\ stage'[v] \notin Held \cup {"done", "cut"} => ExitsOf(v)' = 0 /\ StopsOf(v)' = 0
      /\ ~exited' => ExitsOf(v)' = 0
      /\ ExitsOf(v)' <= 1 /\ StopsOf(v)' <= 1
      /\ ExitsOf(v)' > 0 => cause' \in ToldCauses
      /\ pc' \notin Stopped => StopsOf(v)' = 0
  BY DEF ViewEnds, Stopped
<1>5. QED
  BY <1>2, <1>3, <1>4 DEF ViewEnds

\* Steps that leave the subscriptions and what was sent alone.
LEMMA EndsFrame ==
    ASSUME TypeOK, EveryViewEnds,
           UNCHANGED <<stage, pending, exited, exits, stops, detached>>,
           pc' = pc \/ (pc \notin Stopped /\ pc' \notin Stopped),
           cause \in ToldCauses => cause' \in ToldCauses
    PROVE  EveryViewEnds'
<1>1. SUFFICES ASSUME NEW v \in Views PROVE ViewEnds(v)'
  BY DEF EveryViewEnds
<1>2. ExitsOf(v)' = ExitsOf(v) /\ StopsOf(v)' = StopsOf(v)
  BY DEF ExitsOf, StopsOf
<1>3. ViewEnds(v)
  BY DEF EveryViewEnds
<1>4. QED
  BY <1>2, <1>3, ViewEndsKept

\* A view's own step that tells it nothing new; the others are left alone.
LEMMA EndsView ==
    ASSUME TypeOK, EveryViewEnds, UNCHANGED <<exited, pc, cause>>,
           NEW v \in Views,
           \A u \in Views \ {v} :
              /\ stage'[u] = stage[u] /\ pending'[u] = pending[u]
              /\ exits'[u] = exits[u] /\ stops'[u] = stops[u]
              /\ detached'[u] = detached[u],
           ExitsOf(v)' = ExitsOf(v), StopsOf(v)' = StopsOf(v),
           stage'[v] \in Held => stage[v] \in Held,
           stage'[v] \notin Held \cup {"done", "cut"} => stage[v] \notin Held \cup {"done", "cut"},
           pending'[v].closed => pending[v].closed \/ detached'[v],
           detached[v] => detached'[v]
    PROVE  EveryViewEnds'
<1>1. SUFFICES ASSUME NEW u \in Views PROVE ViewEnds(u)'
  BY DEF EveryViewEnds
<1>2. ViewEnds(u)
  BY DEF EveryViewEnds
<1>3. CASE u = v
  BY <1>2, <1>3, ViewEndsKept
<1>4. CASE u # v
  <2>1. ExitsOf(u)' = ExitsOf(u) /\ StopsOf(u)' = StopsOf(u)
    BY <1>4 DEF ExitsOf, StopsOf
  <2>2. /\ stage'[u] = stage[u] /\ pending'[u] = pending[u] /\ detached'[u] = detached[u]
    BY <1>4
  <2>3. QED
    BY <1>2, <2>1, <2>2, ViewEndsKept
<1>5. QED
  BY <1>3, <1>4

\* Publishing tells the subscribers of an exit, and of nothing else that ends.
LEMMA PublishEnds ==
    ASSUME TypeOK, NEW f, NEW e \in Events \cup {NoEvent}, Publish(f, e),
           UNCHANGED <<exits, stops>>, NEW v \in Views
    PROVE  /\ StopsOf(v)' = StopsOf(v)
           /\ e # Exit => ExitsOf(v)' = ExitsOf(v)
           /\ ExitsOf(v) = 0 => ExitsOf(v)' \in {0, 1}
           /\ v \notin subs => ExitsOf(v)' = ExitsOf(v)
           /\ stage[v] \notin Held => ExitsOf(v)' = ExitsOf(v)
           /\ e = Exit /\ v \in subs /\ stage[v] \in Held => ExitsOf(v)' >= 1
           /\ pending'[v].closed = pending[v].closed
<1>1. Exit # NoEvent /\ Exit \notin Titles
  BY ConstantsAssumption DEF Exit, NoEvent, Titles
<1>2. pending[v] \in Pending
  BY EndCounts
<1> DEFINE changed == f # NoFrame /\ f # frame
<1>3. CASE UNCHANGED pending /\ (e # Exit \/ v \notin subs \/ stage[v] \notin Held)
  <2>1. ExitsOf(v)' = ExitsOf(v) /\ StopsOf(v)' = StopsOf(v)
    BY <1>3 DEF ExitsOf, StopsOf
  <2>2. QED
    BY <1>3, <2>1, EndCounts
<1>4. CASE pending'[v] = pending[v] /\ (v \notin subs \/ stage[v] \notin Held)
  <2>1. ExitsOf(v)' = ExitsOf(v) /\ StopsOf(v)' = StopsOf(v)
    BY <1>4 DEF ExitsOf, StopsOf
  <2>2. QED
    BY <1>4, <2>1, EndCounts
<1>5. CASE pending'[v] = Offer(pending[v], changed, e) /\ v \in subs /\ stage[v] \in Held
  <2>1. /\ pending'[v].replay = pending[v].replay
        /\ pending'[v].stopping = pending[v].stopping
        /\ pending'[v].closed = pending[v].closed
        /\ pending'[v].exit = (pending[v].exit \/ e = Exit)
    BY <1>2, <1>5 DEF Offer, Pending
  <2>2. StopsOf(v)' = StopsOf(v)
    BY <2>1 DEF StopsOf
  <2>3. e # Exit => ExitsOf(v)' = ExitsOf(v)
    BY <2>1, EndCounts DEF ExitsOf
  <2>4. e = Exit => /\ ExitsOf(v)' >= 1
                    /\ ExitsOf(v) = 0 => ExitsOf(v)' = 1
    <3>1. SUFFICES ASSUME e = Exit
                   PROVE  ExitsOf(v)' >= 1 /\ (ExitsOf(v) = 0 => ExitsOf(v)' = 1)
      OBVIOUS
    <3>2. ExitsOf(v)' = exits[v] + Count(pending[v].replay.exit) + 1
      BY <2>1, <3>1 DEF ExitsOf, Count
    <3>3. Count(pending[v].replay.exit) \in Nat /\ Count(pending[v].exit) \in Nat
      BY DEF Count
    <3>4. QED
      BY <3>2, <3>3, EndCounts DEF ExitsOf
  <2>5. QED
    BY <1>5, <2>1, <2>2, <2>3, <2>4
<1>6. QED
  BY <1>1, <1>3, <1>4, <1>5 DEF Publish

\* When the exit is published, every attached view that was not told gets it.
LEMMA ExitPublished ==
    ASSUME Served, EveryViewEnds, NEW f, Publish(f, Exit),
           ~exited, cause \in ToldCauses, pc \notin Stopped, pc' # "dead",
           UNCHANGED <<stage, exits, stops, detached, cause>>
    PROVE  EveryViewEnds'
<1>1. SUFFICES ASSUME NEW v \in Views PROVE ViewEnds(v)'
  BY DEF EveryViewEnds
<1>2. ViewEnds(v) /\ TypeOK /\ Exit \in Events \cup {NoEvent}
  BY DEF EveryViewEnds, Served, Events
<1>3. /\ StopsOf(v)' = StopsOf(v) /\ StopsOf(v) = 0
      /\ ExitsOf(v) = 0 /\ ExitsOf(v)' \in {0, 1}
      /\ stage[v] \notin Held => ExitsOf(v)' = 0
      /\ v \in subs /\ stage[v] \in Held => ExitsOf(v)' >= 1
      /\ pending'[v].closed = pending[v].closed
  BY <1>2, PublishEnds DEF ViewEnds
<1>4. exited'
  BY DEF Publish
<1>5. stage[v] \in Held /\ ~detached[v] => v \in subs
  BY <1>2 DEF ViewEnds, Served, Known, Stopped
<1>6. pc # "dead"
  BY DEF Stopped
<1>7. /\ ExitsOf(v)' <= 1 /\ StopsOf(v)' <= 1 /\ StopsOf(v)' = 0
  BY <1>3
<1>8. stage'[v] \in Held /\ ~detached'[v] => ExitsOf(v)' + StopsOf(v)' >= 1
  <2>1. SUFFICES ASSUME stage[v] \in Held, ~detached[v] PROVE ExitsOf(v)' + StopsOf(v)' >= 1
    OBVIOUS
  <2>2. ExitsOf(v)' = 1 /\ StopsOf(v)' = 0
    BY <1>3, <1>5, <2>1
  <2>3. QED
    BY <2>2
<1>9. QED
  BY <1>2, <1>3, <1>4, <1>6, <1>7, <1>8 DEF ViewEnds

\* Nobody was told of an end at first.
LEMMA EndsInit == Init => Ends
<1> SUFFICES ASSUME Init PROVE Ends
  OBVIOUS
<1>1. Served
  BY ServedInit
<1>2. Exit # NoEvent
  BY ConstantsAssumption DEF Exit, NoEvent
<1>3. ExitOrder
  BY <1>2 DEF Init, ExitOrder, NoExitDue
<1>4. CauseKnown
  BY DEF Init, CauseKnown, Stopped
<1>5. ASSUME NEW v \in Views PROVE ViewEnds(v)
  <2>1. ExitsOf(v) = 0 /\ StopsOf(v) = 0
    BY DEF Init, ExitsOf, StopsOf, Idle, NoReplay, Count
  <2>2. ~pending[v].closed /\ stage[v] \notin Held /\ ~exited
    BY DEF Init, Idle, Held
  <2>3. QED
    BY <2>1, <2>2 DEF ViewEnds
<1>6. QED
  BY <1>1, <1>3, <1>4, <1>5 DEF Ends, EveryViewEnds

\* Steps that touch neither the program's exit nor the end of the worker.
LEMMA OrderFrame ==
    ASSUME ExitOrder, CauseKnown,
           UNCHANGED <<engineEvents, batch, program, exited, cause, hostStopping>>,
           pc' = pc \/ (pc \notin Stopped \cup {"ending"} /\ pc' \notin Stopped \cup {"ending"})
    PROVE  ExitOrder' /\ CauseKnown'
<1>1. NoExitDue' <=> NoExitDue
  BY DEF NoExitDue
<1>2. pc' \in Stopped <=> pc \in Stopped
  BY DEF Stopped
<1>3. ExitOrder'
  BY <1>1, <1>2 DEF ExitOrder
<1>4. CauseKnown'
  BY <1>2 DEF CauseKnown
<1>5. QED
  BY <1>3, <1>4

\* Every step keeps the exit last, and the cause known.
LEMMA OrderStep ==
    ASSUME TypeOK, ExitOrder, CauseKnown, [Next]_vars
    PROVE  ExitOrder' /\ CauseKnown'
<1>0. Exit # NoEvent /\ Exit \notin Titles /\ engineEvents \in Seq(Events)
  BY ConstantsAssumption DEF Exit, NoEvent, Titles, TypeOK, EngineType
<1>1. CASE \/ Output \/ Notify \/ FrameIntervalPasses \/ Host
           \/ \E v \in Views : Stream(v) \/ Client(v)
           \/ UNCHANGED vars
  <2>1. UNCHANGED <<engineEvents, batch, program, exited, cause, hostStopping, pc>>
    BY <1>1 DEF Output, Notify, FrameIntervalPasses, Host, Ask, RegisterHook, DropPane, HostStops,
                SendShutdown, Stream, Client, Register, WakeWorker, SendAck, SendReplay,
                SendEvents, SendHostShutdown, EndStream, ReadNothing, TakeFrame, SendFrame,
                BeginSubscribe, RefreshFails, WriteFails, Hide, Show, AskResync, Detach,
                vars, engineVars, workerVars, sharedVars
  <2>2. QED
    BY <2>1, OrderFrame
<1>2. CASE \/ ComputeTimeout \/ TimedOut \/ ReceiveWake \/ ReceiveChange \/ ReceiveUnchanged
           \/ \E kind \in {"Refresh", "Viewport", "Resume"} : ReceiveCapture(kind)
           \/ PublishCapture \/ MarkResumed \/ Capture \/ NotifyExit
  <2>1. UNCHANGED <<engineEvents, batch, program, cause, hostStopping>>
    BY <1>2 DEF ComputeTimeout, TimedOut, ReceiveWake, ReceiveChange, ReceiveUnchanged,
                ReceiveCapture, PublishCapture, MarkResumed, Capture, NotifyExit, engineVars
  <2>2. UNCHANGED exited
    BY <1>0, <1>2 DEF ComputeTimeout, TimedOut, ReceiveWake, ReceiveChange, ReceiveUnchanged,
                ReceiveCapture, PublishCapture, MarkResumed, Capture, NotifyExit,
                sharedVars, Publish, TypeOK, SharedType
  <2>3. pc \notin Stopped \cup {"ending"} /\ pc' \notin Stopped \cup {"ending"}
    BY <1>2 DEF ComputeTimeout, TimedOut, ReceiveWake, ReceiveChange, ReceiveUnchanged,
                ReceiveCapture, PublishCapture, MarkResumed, Capture, NotifyExit,
                Received, Stopped
  <2>4. QED
    BY <2>1, <2>2, <2>3, OrderFrame
<1>3. CASE SetTitle
  <2>1. /\ engineEvents' = Append(engineEvents, titles + 1) /\ titles + 1 # Exit
        /\ program = "running"
        /\ UNCHANGED <<batch, program, exited, cause, hostStopping, pc>>
    BY <1>3, ConstantsAssumption
       DEF SetTitle, workerVars, sharedVars, TypeOK, EngineType, Exit
  <2>2. NoExitDue /\ NoExitDue'
    BY <1>0, <2>1 DEF ExitOrder, NoExitDue
  <2>3. ExitOrder'
    BY <2>1, <2>2 DEF ExitOrder, NoExitDue
  <2>4. CauseKnown'
    BY <2>1 DEF CauseKnown
  <2>5. QED
    BY <2>3, <2>4
<1>4. CASE ProgramExits
  <2>1. /\ engineEvents' = Append(engineEvents, Exit)
        /\ program = "running" /\ program' = "exited"
        /\ cause' = IF cause = "none" THEN "exit" ELSE cause
        /\ UNCHANGED <<batch, exited, hostStopping, pc>>
    BY <1>4 DEF ProgramExits, workerVars, sharedVars
  <2>2. cause \in {"none", "exit", "close", "panic", "shutdown"} /\ cause # "shutdown"
    BY <2>1 DEF TypeOK, HostType, CauseKnown
  <2>3. cause' \in ToldCauses /\ cause' # "none"
    BY <2>1, <2>2 DEF ToldCauses
  <2>4. NoExitDue
    BY <2>1 DEF ExitOrder
  <2>5. /\ \A i \in 1..Len(engineEvents') : engineEvents'[i] = Exit => i = Len(engineEvents')
        /\ batch' # Exit
    BY <1>0, <2>1, <2>4 DEF NoExitDue
  <2>6. ~exited \/ pc \in Stopped
    BY <2>1 DEF ExitOrder
  <2>7. ExitOrder'
    BY <2>1, <2>3, <2>5, <2>6 DEF ExitOrder
  <2>8. CauseKnown'
    BY <2>1, <2>3 DEF CauseKnown, ToldCauses
  <2>9. QED
    BY <2>7, <2>8
<1>5. CASE Drain
  <2>1. /\ pc = "drain" /\ pc' = "capture"
        /\ batch' = IF engineEvents = <<>> THEN NoEvent ELSE Head(engineEvents)
        /\ engineEvents' = IF engineEvents = <<>> THEN <<>> ELSE Tail(engineEvents)
        /\ UNCHANGED <<program, exited, cause, hostStopping>>
    BY <1>5 DEF Drain, sharedVars
  <2>2. /\ \A i \in 1..Len(engineEvents') : engineEvents'[i] = Exit => i = Len(engineEvents')
        /\ batch' = Exit => \A i \in 1..Len(engineEvents') : engineEvents'[i] # Exit
        /\ NoExitDue => NoExitDue'
    <3>1. CASE engineEvents = <<>>
      BY <1>0, <2>1, <3>1 DEF NoExitDue
    <3>2. CASE engineEvents # <<>>
      <4>1. /\ batch' = engineEvents[1] /\ Len(engineEvents') = Len(engineEvents) - 1
            /\ Len(engineEvents) \in Nat /\ Len(engineEvents) >= 1
            /\ \A i \in 1..Len(engineEvents') : engineEvents'[i] = engineEvents[i + 1]
        BY <1>0, <2>1, <3>2
      <4>2. \A i \in 1..Len(engineEvents') : i + 1 \in 1..Len(engineEvents)
        BY <4>1
      <4>3. batch' = Exit => Len(engineEvents') = 0
        <5>1. 1 \in 1..Len(engineEvents)
          BY <4>1
        <5>2. engineEvents[1] = Exit => 1 = Len(engineEvents)
          BY <5>1 DEF ExitOrder
        <5>3. batch' = Exit => Len(engineEvents) = 1
          BY <4>1, <5>2
        <5>4. Len(engineEvents') = Len(engineEvents) - 1
          BY <4>1
        <5>5. QED
          BY <5>3, <5>4
      <4>4. \A i \in 1..Len(engineEvents') : engineEvents'[i] = Exit => i = Len(engineEvents')
        BY <4>1, <4>2 DEF ExitOrder
      <4>5. NoExitDue => NoExitDue'
        BY <4>1, <4>2 DEF NoExitDue
      <4>6. QED
        BY <4>3, <4>4, <4>5
    <3>3. QED
      BY <3>1, <3>2
  <2>3. ExitOrder'
    BY <2>1, <2>2 DEF ExitOrder, Stopped
  <2>4. CauseKnown'
    BY <2>1 DEF CauseKnown, Stopped
  <2>5. QED
    BY <2>3, <2>4
<1>6. CASE PublishDrained
  <2>1. /\ pc = "publish" /\ pc' \in {"hook", "wait"} /\ batch' = NoEvent
        /\ exited' = (exited \/ batch = Exit)
        /\ UNCHANGED <<engineEvents, program, cause, hostStopping>>
    BY <1>6 DEF PublishDrained, Publish, engineVars
  <2>2. batch = Exit => /\ program = "exited" /\ cause \in ToldCauses
                        /\ \A i \in 1..Len(engineEvents) : engineEvents[i] # Exit
    BY DEF ExitOrder, NoExitDue, TypeOK, EngineType
  <2>3. ExitOrder'
    BY <1>0, <2>1, <2>2 DEF ExitOrder, NoExitDue, Stopped
  <2>4. CauseKnown'
    BY <2>1 DEF CauseKnown, Stopped
  <2>5. QED
    BY <2>3, <2>4
<1>7. CASE ReceiveClose \/ Panic \/ ReceiveShutdown
  <2>1. /\ pc \notin Stopped \cup {"ending"} /\ pc' = "ending"
        /\ UNCHANGED <<engineEvents, batch, exited>>
    BY <1>7 DEF ReceiveClose, Panic, ReceiveShutdown, Received, Stopped, engineVars,
                sharedVars
  <2>2. /\ cause \in {"none", "exit", "close", "panic"} /\ ~hostStopping
        /\ program \in {"running", "exited"}
    BY <2>1 DEF CauseKnown, TypeOK, HostType, EngineType
  <2>3. \/ /\ cause' \in ToldCauses /\ program' = program /\ hostStopping' = hostStopping
        \/ /\ cause' \in ToldCauses \cup {"shutdown"} /\ hostStopping'
           /\ program' = "exited"
           /\ cause \in ToldCauses => cause' \in ToldCauses
    BY <1>7, <2>2 DEF ReceiveClose, Panic, ReceiveShutdown, engineVars, ToldCauses
  <2>4. /\ cause \in ToldCauses => cause' \in ToldCauses
        /\ program' = "running" => program = "running"
        /\ program = "exited" => program' = "exited"
    BY <2>2, <2>3
  <2>5. NoExitDue' <=> NoExitDue
    BY <2>1 DEF NoExitDue
  <2>6. ExitOrder'
    BY <2>1, <2>4, <2>5 DEF ExitOrder
  <2>7. CauseKnown'
    BY <2>1, <2>3 DEF CauseKnown, ToldCauses, Stopped
  <2>8. QED
    BY <2>6, <2>7
<1>8. CASE EndPane
  <2>1. /\ pc = "ending" /\ pc' = "ended" /\ exited'
        /\ UNCHANGED <<engineEvents, batch, program, cause, hostStopping>>
    BY <1>8 DEF EndPane, Publish, engineVars
  <2>2. NoExitDue' <=> NoExitDue
    BY <2>1 DEF NoExitDue
  <2>3. ExitOrder'
    BY <2>1, <2>2 DEF ExitOrder, Stopped
  <2>4. CauseKnown'
    BY <2>1 DEF CauseKnown, Stopped
  <2>5. QED
    BY <2>3, <2>4
<1>9. CASE CloseSubscriptions
  <2>1. /\ pc = "ended" /\ pc' = "dead"
        /\ UNCHANGED <<engineEvents, batch, program, exited, cause, hostStopping>>
    BY <1>9 DEF CloseSubscriptions, engineVars
  <2>2. NoExitDue' <=> NoExitDue
    BY <2>1 DEF NoExitDue
  <2>3. ExitOrder'
    BY <2>1, <2>2 DEF ExitOrder, Stopped
  <2>4. CauseKnown'
    BY <2>1 DEF CauseKnown, Stopped
  <2>5. QED
    BY <2>3, <2>4
<1>10. QED
  BY <1>1, <1>2, <1>3, <1>4, <1>5, <1>6, <1>7, <1>8, <1>9 DEF Next, Program, Worker

\* Every step keeps what the views are told of the end.
LEMMA EveryViewStep ==
    ASSUME Ends, TypeOK', [Next]_vars
    PROVE  EveryViewEnds'
<1>0. TypeOK /\ Served /\ ExitOrder /\ CauseKnown /\ EveryViewEnds
  BY DEF Ends, Served
<1>00. \A v \in Views : ViewEnds(v)
  BY <1>0 DEF EveryViewEnds
<1>01. Exit # NoEvent /\ {captured, NoFrame} \subseteq Frames \cup {NoFrame}
       /\ {batch, NoEvent, Exit} \subseteq Events \cup {NoEvent}
  BY <1>0, ConstantsAssumption DEF Exit, NoEvent, TypeOK, WorkerType, Events
<1>1. CASE \/ Program \/ Notify \/ FrameIntervalPasses \/ Host \/ UNCHANGED vars
           \/ ComputeTimeout \/ TimedOut \/ ReceiveWake \/ ReceiveChange
           \/ ReceiveUnchanged \/ Drain \/ Capture \/ NotifyExit
           \/ ReceiveClose \/ ReceiveShutdown \/ Panic
           \/ \E kind \in {"Refresh", "Viewport", "Resume"} : ReceiveCapture(kind)
  <2>1. /\ UNCHANGED <<stage, pending, exited, exits, stops, detached>>
        /\ pc' = pc \/ (pc \notin Stopped /\ pc' \notin Stopped)
    BY <1>1 DEF Program, Output, SetTitle, ProgramExits, Notify, FrameIntervalPasses, Host,
                Ask, RegisterHook, DropPane, HostStops, SendShutdown, ComputeTimeout, TimedOut,
                ReceiveWake, ReceiveChange, ReceiveUnchanged, Drain, Capture, NotifyExit,
                ReceiveClose, ReceiveShutdown, Panic, ReceiveCapture, Received, Stopped,
                vars, viewVars, sentVars, sharedVars, workerVars
  <2>2. cause \in ToldCauses => cause' \in ToldCauses
    BY <1>1 DEF Program, Output, SetTitle, ProgramExits, Notify, FrameIntervalPasses, Host,
                Ask, RegisterHook, DropPane, HostStops, SendShutdown, ComputeTimeout, TimedOut,
                ReceiveWake, ReceiveChange, ReceiveUnchanged, Drain, Capture, NotifyExit,
                ReceiveClose, ReceiveShutdown, Panic, ReceiveCapture, vars, ToldCauses
  <2>3. QED
    BY <1>0, <2>1, <2>2, EndsFrame
<1>2. CASE PublishCapture
  <2>1. /\ Publish(captured, NoEvent) /\ pc = "answer" /\ pc' \in {"resume", "drain"}
        /\ UNCHANGED <<exits, stops, detached, cause>>
    BY <1>2 DEF PublishCapture, sentVars
  <2>2. exited' = exited
    BY <1>0, <1>01, <2>1 DEF Publish, TypeOK, SharedType
  <2>3. \A v \in Views : /\ stage'[v] \in Held => stage[v] \in Held
                         /\ stage'[v] \notin Held \cup {"done", "cut"}
                               => stage[v] \notin Held \cup {"done", "cut"}
    BY <1>0, <1>2 DEF PublishCapture, Held, TypeOK, ViewType
  <2>4. SUFFICES ASSUME NEW v \in Views PROVE ViewEnds(v)'
    BY DEF EveryViewEnds
  <2>5. /\ ExitsOf(v)' = ExitsOf(v) /\ StopsOf(v)' = StopsOf(v)
        /\ pending'[v].closed = pending[v].closed
    BY <1>0, <1>01, <2>1, PublishEnds
  <2>6. pc \notin Stopped /\ pc' \notin Stopped
    BY <2>1 DEF Stopped
  <2>7. QED
    BY <1>0, <1>00, <2>1, <2>2, <2>3, <2>5, <2>6, ViewEndsKept
<1>3. CASE MarkResumed
  <2>1. /\ UNCHANGED <<stage, exited, exits, stops, detached, cause>>
        /\ pc \notin Stopped /\ pc' \notin Stopped
    BY <1>3 DEF MarkResumed, Stopped, sharedVars, sentVars
  <2>2. SUFFICES ASSUME NEW v \in Views PROVE ViewEnds(v)'
    BY DEF EveryViewEnds
  <2>3. \/ pending'[v] = pending[v]
        \/ pending'[v] = [pending[v] EXCEPT !.state = TRUE]
    BY <1>0, <1>3 DEF MarkResumed, TypeOK, ViewType
  <2>4. /\ pending'[v].closed = pending[v].closed /\ pending'[v].exit = pending[v].exit
        /\ pending'[v].replay = pending[v].replay
        /\ pending'[v].stopping = pending[v].stopping
    BY <1>0, <2>3, EndCounts DEF Pending
  <2>5. ExitsOf(v)' = ExitsOf(v) /\ StopsOf(v)' = StopsOf(v)
    BY <2>1, <2>4 DEF ExitsOf, StopsOf
  <2>6. QED
    BY <1>0, <1>00, <2>1, <2>4, <2>5, ViewEndsKept
<1>4. CASE PublishDrained
  <2>1. /\ Publish(captured, batch) /\ pc = "publish" /\ pc' \in {"hook", "wait"}
        /\ UNCHANGED <<stage, exits, stops, detached, cause>>
    BY <1>4 DEF PublishDrained, sentVars
  <2>2. pc \notin Stopped /\ pc' \notin Stopped
    BY <2>1 DEF Stopped
  <2>3. CASE batch = Exit
    <3>1. ~exited /\ cause \in ToldCauses
      BY <1>0, <2>2, <2>3 DEF ExitOrder, NoExitDue
    <3>2. Publish(captured, Exit) /\ pc' # "dead"
      BY <2>1, <2>3
    <3>3. QED
      BY <1>0, <2>1, <2>2, <3>1, <3>2, ExitPublished
  <2>4. CASE batch # Exit
    <3>1. exited' = exited
      BY <1>0, <2>1, <2>4 DEF Publish, TypeOK, SharedType
    <3>2. SUFFICES ASSUME NEW v \in Views PROVE ViewEnds(v)'
      BY DEF EveryViewEnds
    <3>3. /\ ExitsOf(v)' = ExitsOf(v) /\ StopsOf(v)' = StopsOf(v)
          /\ pending'[v].closed = pending[v].closed
      BY <1>0, <1>01, <2>1, <2>4, PublishEnds
    <3>4. QED
      BY <1>0, <1>00, <2>1, <2>2, <3>1, <3>3, ViewEndsKept
  <2>5. QED
    BY <2>3, <2>4
<1>5. CASE EndPane
  <2>1. /\ pc = "ending" /\ pc' = "ended"
        /\ UNCHANGED <<stage, exits, stops, detached, cause>>
    BY <1>5 DEF EndPane, sentVars
  <2>2. pc \notin Stopped /\ pc # "dead" /\ pc' \in Stopped
    BY <2>1 DEF Stopped
  <2>3. CASE ~hostStopping /\ ~exited
    <3>1. Publish(NoFrame, Exit) /\ cause \in ToldCauses /\ pc' # "dead"
      BY <1>0, <1>5, <2>1, <2>3 DEF EndPane, CauseKnown
    <3>2. QED
      BY <1>0, <2>1, <2>2, <2>3, <3>1, ExitPublished
  <2>4. CASE ~hostStopping /\ exited
    <3>1. SUFFICES ASSUME NEW v \in Views PROVE ViewEnds(v)'
      BY DEF EveryViewEnds
    <3>2. UNCHANGED <<pending, exited>>
      BY <1>5, <2>4 DEF EndPane
    <3>3. ExitsOf(v)' = ExitsOf(v) /\ StopsOf(v)' = StopsOf(v)
      BY <2>1, <3>2 DEF ExitsOf, StopsOf
    <3>4. QED
      BY <1>00, <2>1, <2>2, <3>2, <3>3 DEF ViewEnds
  <2>5. CASE hostStopping
    <3>1. SUFFICES ASSUME NEW v \in Views PROVE ViewEnds(v)'
      BY DEF EveryViewEnds
    <3>2. /\ exited'
          /\ pending'[v] = IF v \in subs /\ stage[v] \in Held
                           THEN [pending[v] EXCEPT !.stopping = TRUE] ELSE pending[v]
      BY <1>5, <2>5 DEF EndPane
    <3>3. /\ pending'[v].closed = pending[v].closed /\ pending'[v].exit = pending[v].exit
          /\ pending'[v].replay = pending[v].replay
          /\ pending'[v].stopping = (pending[v].stopping \/ (v \in subs /\ stage[v] \in Held))
      BY <1>0, <3>2, EndCounts DEF Pending
    <3>4. ExitsOf(v)' = ExitsOf(v)
      BY <2>1, <3>3 DEF ExitsOf
    <3>5. stops[v] = 0 /\ ~pending[v].stopping /\ StopsOf(v) = 0
      <4>1. StopsOf(v) = 0
        BY <1>00, <2>2 DEF ViewEnds
      <4>2. QED
        BY <1>0, <4>1, EndCounts DEF StopsOf, Count
    <3>6. StopsOf(v)' = IF v \in subs /\ stage[v] \in Held THEN 1 ELSE 0
      <4>1. CASE v \in subs /\ stage[v] \in Held
        <5>1. pending'[v].stopping /\ stops'[v] = 0
          BY <2>1, <3>3, <3>5, <4>1
        <5>2. Count(pending'[v].stopping) = 1
          BY <5>1 DEF Count
        <5>3. StopsOf(v)' = stops'[v] + Count(pending'[v].stopping)
          BY DEF StopsOf, Count
        <5>4. QED
          BY <4>1, <5>1, <5>2, <5>3
      <4>2. CASE ~(v \in subs /\ stage[v] \in Held)
        BY <2>1, <3>3, <3>5, <4>2 DEF StopsOf, Count
      <4>3. QED
        BY <4>1, <4>2
    <3>7. stage[v] \in Held /\ ~detached[v] => v \in subs
      BY <1>0, <1>00, <2>2 DEF ViewEnds, Served, Known
    <3>8. stage'[v] \in Held /\ ~detached'[v] /\ exited' => ExitsOf(v)' + StopsOf(v)' >= 1
      BY <1>0, <2>1, <3>4, <3>6, <3>7, EndCounts
    <3>9. QED
      BY <1>00, <2>1, <2>2, <3>2, <3>3, <3>4, <3>6, <3>8 DEF ViewEnds
  <2>6. QED
    BY <2>3, <2>4, <2>5
<1>6. CASE CloseSubscriptions
  <2>1. SUFFICES ASSUME NEW v \in Views PROVE ViewEnds(v)'
    BY DEF EveryViewEnds
  <2>2. /\ pc \in Stopped /\ pc' = "dead"
        /\ UNCHANGED <<stage, exited, exits, stops, detached, cause>>
        /\ \/ pending'[v] = pending[v]
           \/ pending'[v] = [pending[v] EXCEPT !.closed = TRUE]
    BY <1>6 DEF CloseSubscriptions, Stopped, sentVars
  <2>3. /\ pending'[v].exit = pending[v].exit /\ pending'[v].replay = pending[v].replay
        /\ pending'[v].stopping = pending[v].stopping
    BY <1>0, <2>2, EndCounts DEF Pending
  <2>4. ExitsOf(v)' = ExitsOf(v) /\ StopsOf(v)' = StopsOf(v) /\ pc' \in Stopped
    BY <2>2, <2>3 DEF ExitsOf, StopsOf, Stopped
  <2>5. QED
    BY <1>00, <2>2, <2>4 DEF ViewEnds
<1>7. ASSUME NEW v \in Views, Register(v) PROVE EveryViewEnds'
  <2>1. UNCHANGED <<exited, pc, cause, exits, stops, detached>> /\ stage[v] = "refreshed"
    BY <1>7 DEF Register, workerVars, sentVars
  <2>2. CASE alive
    <3>1. SUFFICES ASSUME NEW u \in Views PROVE ViewEnds(u)'
      BY DEF EveryViewEnds
    <3>2. pc \notin Stopped
      BY <1>0, <2>2 DEF Served, EndMarked, Stopped
    <3>3. CASE u # v
      <4>1. stage'[u] = stage[u] /\ pending'[u] = pending[u]
        BY <1>0, <1>7, <2>2, <3>3 DEF Register, EnsureAlive, TypeOK, ViewType
      <4>2. ExitsOf(u)' = ExitsOf(u) /\ StopsOf(u)' = StopsOf(u)
        BY <2>1, <4>1 DEF ExitsOf, StopsOf
      <4>3. QED
        BY <1>0, <1>00, <2>1, <4>1, <4>2, ViewEndsKept
    <3>4. CASE u = v
      <4>1. /\ stage'[v] = "waking"
            /\ pending'[v] = [Idle EXCEPT !.state = TRUE, !.replay = ReplaySeed]
        BY <1>0, <1>7, <2>2 DEF Register, EnsureAlive, TypeOK, ViewType
      <4>2. /\ ~pending'[v].closed /\ ~pending'[v].exit /\ ~pending'[v].stopping
            /\ pending'[v].replay.exit = exited
        BY <4>1 DEF Idle, ReplaySeed
      <4>3. exits[v] = 0 /\ stops[v] = 0
        <5>1. ExitsOf(v) = 0 /\ StopsOf(v) = 0
          BY <1>00, <2>1 DEF ViewEnds, Held
        <5>2. QED
          BY <1>0, <5>1, EndCounts DEF ExitsOf, StopsOf, Count
      <4>4. StopsOf(v)' = 0 /\ ExitsOf(v)' = IF exited THEN 1 ELSE 0
        BY <2>1, <4>2, <4>3 DEF ExitsOf, StopsOf, Count
      <4>5. exited => cause \in ToldCauses
        BY <1>0, <3>2 DEF ExitOrder
      <4>6. stage'[v] \in Held
        BY <4>1 DEF Held
      <4>7. ViewEnds(v)'
        BY <2>1, <4>2, <4>4, <4>5, <4>6 DEF ViewEnds
      <4>8. QED
        BY <3>4, <4>7
    <3>5. QED
      BY <3>3, <3>4
  <2>3. CASE ~alive
    <3>1. UNCHANGED pending /\ stage' = [stage EXCEPT ![v] = "gone"]
      BY <1>7, <2>3 DEF Register, EnsureAlive
    <3>2. stage'[v] \notin Held /\ stage[v] \notin Held \cup {"done", "cut"}
      BY <1>0, <2>1, <3>1 DEF TypeOK, ViewType, Held
    <3>3. \A u \in Views \ {v} : stage'[u] = stage[u] /\ pending'[u] = pending[u]
      BY <1>0, <3>1 DEF TypeOK, ViewType
    <3>4. ExitsOf(v)' = ExitsOf(v) /\ StopsOf(v)' = StopsOf(v)
      BY <2>1, <3>1 DEF ExitsOf, StopsOf
    <3>5. QED
      BY <1>0, <2>1, <3>1, <3>2, <3>3, <3>4, EndsView
  <2>4. QED
    BY <2>2, <2>3
<1>8. ASSUME NEW v \in Views,
             \/ WakeWorker(v) \/ EndStream(v) \/ ReadNothing(v) \/ BeginSubscribe(v)
             \/ RefreshFails(v)
      PROVE  EveryViewEnds'
  <2>1. /\ UNCHANGED <<pending, exited, pc, cause, exits, stops, detached>>
        /\ \E s \in Stages :
              /\ stage' = [stage EXCEPT ![v] = s]
              /\ s \in Held => stage[v] \in Held
              /\ s \notin Held \cup {"done", "cut"} => stage[v] \notin Held \cup {"done", "cut"}
    BY <1>8 DEF WakeWorker, EndStream, ReadNothing, BeginSubscribe, RefreshFails, Held, Stages,
       Over,
                Asking, viewVars, sentVars, workerVars, sharedVars
  <2>2. PICK s \in Stages :
              /\ stage' = [stage EXCEPT ![v] = s]
              /\ s \in Held => stage[v] \in Held
              /\ s \notin Held \cup {"done", "cut"} => stage[v] \notin Held \cup {"done", "cut"}
    BY <2>1
  <2>3. stage'[v] = s /\ \A u \in Views \ {v} : stage'[u] = stage[u]
    BY <1>0, <2>2 DEF TypeOK, ViewType
  <2>4. ExitsOf(v)' = ExitsOf(v) /\ StopsOf(v)' = StopsOf(v)
    BY <2>1 DEF ExitsOf, StopsOf
  <2>5. QED
    BY <1>0, <2>1, <2>2, <2>3, <2>4, EndsView
<1>9. ASSUME NEW v \in Views,
             \/ SendAck(v) \/ TakeFrame(v) \/ SendFrame(v) \/ WriteFails(v)
             \/ Hide(v) \/ Show(v) \/ AskResync(v) \/ Detach(v)
      PROVE  EveryViewEnds'
  <2>1. UNCHANGED <<exited, pc, cause, exits, stops>>
    BY <1>9 DEF SendAck, TakeFrame, SendFrame, WriteFails, Hide, Show, AskResync, Detach,
                sentVars, workerVars, sharedVars
  <2>2. /\ \A u \in Views \ {v} : /\ stage'[u] = stage[u] /\ pending'[u] = pending[u]
                                  /\ detached'[u] = detached[u]
        /\ stage'[v] \in Held => stage[v] \in Held
        /\ stage'[v] \notin Held \cup {"done", "cut"} => stage[v] \notin Held \cup {"done", "cut"}
    BY <1>0, <1>9 DEF SendAck, TakeFrame, SendFrame, WriteFails, Hide, Show, AskResync,
                      Detach, Monitored, sentVars, TypeOK, ViewType, SentType, Held
  <2>3. pending[v] \in Pending
    BY <1>0, EndCounts
  <2>4. /\ pending'[v].exit = pending[v].exit /\ pending'[v].replay = pending[v].replay
        /\ pending'[v].stopping = pending[v].stopping
        /\ pending'[v].closed => pending[v].closed \/ detached'[v]
        /\ detached[v] => detached'[v]
    <3>1. CASE SendAck(v) \/ TakeFrame(v) \/ SendFrame(v)
      BY <1>0, <2>3, <3>1 DEF SendAck, TakeFrame, SendFrame, sentVars, TypeOK, ViewType,
                              Pending
    <3>2. CASE WriteFails(v) \/ Detach(v)
      BY <1>0, <2>3, <3>2 DEF WriteFails, Detach, TypeOK, ViewType, SentType, Pending
    <3>3. CASE Hide(v)
      BY <1>0, <2>3, <3>3 DEF Hide, sentVars, TypeOK, ViewType, Pending
    <3>4. CASE Show(v)
      BY <1>0, <2>3, <3>4 DEF Show, sentVars, TypeOK, ViewType, Pending
    <3>5. CASE AskResync(v)
      BY <1>0, <2>3, <3>5 DEF AskResync, sentVars, TypeOK, ViewType, Pending
    <3>6. QED
      BY <1>9, <3>1, <3>2, <3>3, <3>4, <3>5
  <2>5. ExitsOf(v)' = ExitsOf(v) /\ StopsOf(v)' = StopsOf(v)
    BY <2>1, <2>4 DEF ExitsOf, StopsOf
  <2>6. QED
    BY <1>0, <2>1, <2>2, <2>4, <2>5, EndsView
<1>10. ASSUME NEW v \in Views, SendReplay(v) \/ SendEvents(v) \/ SendHostShutdown(v)
       PROVE  EveryViewEnds'
  <2>1. UNCHANGED <<stage, exited, pc, cause, detached>>
    BY <1>10 DEF SendReplay, SendEvents, SendHostShutdown, workerVars, sharedVars
  <2>2. \A u \in Views \ {v} : /\ pending'[u] = pending[u]
                               /\ exits'[u] = exits[u] /\ stops'[u] = stops[u]
    BY <1>0, <1>10 DEF SendReplay, SendEvents, SendHostShutdown, Receive, TypeOK, ViewType,
                       SentType
  <2>3. /\ pending[v] \in Pending /\ exits[v] \in Nat /\ stops[v] \in Nat
        /\ pending[v].exit \in BOOLEAN /\ pending[v].stopping \in BOOLEAN
        /\ pending[v].replay.exit \in BOOLEAN
    BY <1>0, EndCounts
  <2>4. /\ ExitsOf(v)' = ExitsOf(v) /\ StopsOf(v)' = StopsOf(v)
        /\ pending'[v].closed = pending[v].closed
    <3>1. CASE SendReplay(v)
      <4>1. /\ exits'[v] = exits[v] + Count(pending[v].replay.exit)
            /\ stops'[v] = stops[v]
        BY <1>0, <2>3, <3>1 DEF SendReplay, Receive, TypeOK, SentType, Count
      <4>2. /\ pending'[v].exit = pending[v].exit /\ ~pending'[v].replay.exit
            /\ pending'[v].stopping = pending[v].stopping
            /\ pending'[v].closed = pending[v].closed
        BY <1>0, <2>3, <3>1 DEF SendReplay, TypeOK, ViewType, Pending, NoReplay
      <4>3. QED
        BY <2>3, <4>1, <4>2 DEF ExitsOf, StopsOf, Count
    <3>2. CASE SendEvents(v)
      <4>1. /\ exits'[v] = exits[v] + Count(pending[v].exit)
            /\ stops'[v] = stops[v]
        BY <1>0, <2>3, <3>2 DEF SendEvents, Receive, TypeOK, SentType, Count
      <4>2. /\ ~pending'[v].exit /\ pending'[v].replay = pending[v].replay
            /\ pending'[v].stopping = pending[v].stopping
            /\ pending'[v].closed = pending[v].closed
        BY <1>0, <2>3, <3>2 DEF SendEvents, TypeOK, ViewType, Pending
      <4>3. QED
        BY <2>3, <4>1, <4>2 DEF ExitsOf, StopsOf, Count
    <3>3. CASE SendHostShutdown(v)
      <4>1. stops'[v] = stops[v] + Count(pending[v].stopping) /\ exits'[v] = exits[v]
        BY <1>0, <2>3, <3>3 DEF SendHostShutdown, StopDue, TypeOK, SentType, Count
      <4>2. /\ pending'[v].exit = pending[v].exit /\ pending'[v].replay = pending[v].replay
            /\ ~pending'[v].stopping
            /\ pending'[v].closed = pending[v].closed
        BY <1>0, <2>3, <3>3 DEF SendHostShutdown, TypeOK, ViewType, Pending
      <4>3. QED
        BY <2>3, <4>1, <4>2 DEF ExitsOf, StopsOf, Count
    <3>4. QED
      BY <1>10, <3>1, <3>2, <3>3
  <2>5. QED
    BY <1>0, <2>1, <2>2, <2>4, EndsView
<1>11. QED
  BY <1>1, <1>2, <1>3, <1>4, <1>5, <1>6, <1>7, <1>8, <1>9, <1>10
     DEF Next, Worker, Stream, Client

\* So every step keeps the end told, once.
LEMMA EndsStep == Ends /\ [Next]_vars => Ends'
<1> SUFFICES ASSUME Ends, [Next]_vars PROVE Ends'
  OBVIOUS
<1>1. Served' /\ TypeOK /\ TypeOK'
  BY ServedStep, TypeStep DEF Ends, Served
<1>2. ExitOrder' /\ CauseKnown'
  BY <1>1, OrderStep DEF Ends
<1>3. EveryViewEnds'
  BY <1>1, EveryViewStep
<1>4. QED
  BY <1>1, <1>2, <1>3 DEF Ends

\* A view is told at most once that its pane ended, and at most once that the
\* host stops, however the exit, a registration, a close, a shutdown and a panic
\* race each other.
THEOREM ToldOnce == Spec => []ExitToldOnce
<1>1. Ends => ExitToldOnce
  BY DEF Ends, EveryViewEnds, ViewEnds, ExitToldOnce
<1>2. QED
  BY <1>1, EndsInit, EndsStep, PTL DEF Spec


\* A stream that ended, and not because its view left, has sent the end.
DoneTold == \A v \in Views : stage[v] = "done" /\ ~detached[v] => exits[v] + stops[v] >= 1

\* Nothing ended before the end was sent: a stream is closed by a worker that
\* stopped, and ends when nothing is queued.
LEMMA DoneStep == Ends /\ DoneTold /\ [Next]_vars => DoneTold'
<1> SUFFICES ASSUME Ends, DoneTold, [Next]_vars, NEW w \in Views, stage'[w] = "done",
                    ~detached'[w]
             PROVE  exits'[w] + stops'[w] >= 1
  BY DEF DoneTold
<1>0. TypeOK /\ ViewEnds(w)
  BY DEF Ends, Served, EveryViewEnds
<1>00. stage[w] = "done" /\ ~detached[w] => exits[w] + stops[w] >= 1
  BY DEF DoneTold
<1>1. CASE \/ Program \/ Notify \/ FrameIntervalPasses \/ Host \/ UNCHANGED vars
           \/ ComputeTimeout \/ TimedOut \/ ReceiveWake \/ ReceiveChange
           \/ ReceiveUnchanged \/ Drain \/ Capture \/ NotifyExit
           \/ ReceiveClose \/ ReceiveShutdown \/ Panic \/ MarkResumed
           \/ \E kind \in {"Refresh", "Viewport", "Resume"} : ReceiveCapture(kind)
  <2>1. UNCHANGED <<stage, detached, exits, stops>>
    BY <1>1 DEF Program, Output, SetTitle, ProgramExits, Notify, FrameIntervalPasses, Host,
                Ask, RegisterHook, DropPane, HostStops, SendShutdown, ComputeTimeout, TimedOut,
                ReceiveWake, ReceiveChange, ReceiveUnchanged, Drain, Capture, NotifyExit,
                ReceiveClose, ReceiveShutdown, Panic, ReceiveCapture, MarkResumed, vars,
                viewVars, sentVars
  <2>2. QED
    BY <1>00, <2>1
<1>2. CASE PublishCapture \/ PublishDrained \/ EndPane \/ CloseSubscriptions
  <2>1. UNCHANGED <<detached, exits, stops>> /\ stage[w] = "done"
    BY <1>0, <1>2 DEF PublishCapture, PublishDrained, EndPane, CloseSubscriptions,
                sentVars, TypeOK, ViewType
  <2>2. QED
    BY <1>00, <2>1
<1>3. ASSUME NEW v \in Views, v # w, Stream(v) \/ Client(v)
      PROVE  exits'[w] + stops'[w] >= 1
  <2>1. /\ stage'[w] = stage[w] /\ detached'[w] = detached[w]
        /\ exits'[w] = exits[w] /\ stops'[w] = stops[w]
    BY <1>0, <1>3 DEF Stream, Client, Register, WakeWorker, SendAck, SendReplay, SendEvents,
                SendHostShutdown, EndStream, ReadNothing, TakeFrame, SendFrame, BeginSubscribe,
                RefreshFails, WriteFails, Hide, Show, AskResync, Detach, Receive,
                viewVars, sentVars, TypeOK, ViewType, SentType
  <2>2. QED
    BY <1>00, <2>1
<1>4. CASE EndStream(w)
  <2>1. /\ stage[w] \in Held /\ pending[w].closed /\ QuietStream(pending[w])
        /\ UNCHANGED <<detached, exits, stops>>
    BY <1>4 DEF EndStream, Held, sentVars
  <2>2. pc = "dead" /\ exited
    BY <1>0, <2>1 DEF ViewEnds, Ends, CauseKnown, Stopped
  <2>3. ExitsOf(w) + StopsOf(w) >= 1
    BY <1>0, <2>1, <2>2 DEF ViewEnds
  <2>4. /\ pending[w].replay = NoReplay /\ ~pending[w].exit /\ ~pending[w].stopping
    BY <2>1 DEF QuietStream, AckDue, ReplayDue, EventsDue, StopDue
  <2>5. ExitsOf(w) = exits[w] /\ StopsOf(w) = stops[w]
    BY <1>0, <2>4, EndCounts DEF ExitsOf, StopsOf, Count, NoReplay
  <2>6. QED
    BY <2>1, <2>3, <2>5
<1>5. CASE \/ WriteFails(w) \/ Detach(w)
  BY <1>0, <1>5 DEF WriteFails, Detach, TypeOK, SentType
<1>6. CASE \/ Register(w) \/ WakeWorker(w) \/ SendAck(w) \/ SendReplay(w) \/ SendEvents(w)
           \/ SendHostShutdown(w) \/ ReadNothing(w) \/ TakeFrame(w) \/ SendFrame(w)
           \/ BeginSubscribe(w) \/ RefreshFails(w) \/ Hide(w) \/ Show(w) \/ AskResync(w)
  <2>1. stage'[w] # "done"
    BY <1>0, <1>6 DEF Register, WakeWorker, SendAck, SendReplay, SendEvents,
                SendHostShutdown, ReadNothing, TakeFrame, SendFrame, BeginSubscribe,
                RefreshFails, Hide, Show, AskResync, Monitored, TypeOK, ViewType
  <2>2. QED
    BY <2>1
<1>7. QED
  BY <1>1, <1>2, <1>3, <1>4, <1>5, <1>6 DEF Next, Worker, Stream, Client

\* When the worker is gone, every view still attached was sent the end or has it
\* in its queue (audit B10, I10), whatever ended the pane; and a stream that ended
\* by itself has sent all of it.  That what is queued is sent is EndReachesViews,
\* with its exception of a stream cut off while its frame was read.
THEOREM ToldTheEnd == Spec => []EndIsTold
<1>1. Ends /\ DoneTold => EndIsTold
  <2> SUFFICES ASSUME Ends, DoneTold, NEW v \in Views, ~detached[v]
               PROVE  /\ pc = "dead" /\ stage[v] \in Held => ExitsOf(v) + StopsOf(v) >= 1
                      /\ stage[v] = "done" => exits[v] + stops[v] >= 1
    BY DEF EndIsTold
  <2>1. stage[v] = "done" => exits[v] + stops[v] >= 1
    BY DEF DoneTold
  <2>2. pc = "dead" => exited
    BY DEF Ends, CauseKnown, Stopped
  <2>3. QED
    BY <2>1, <2>2 DEF Ends, EveryViewEnds, ViewEnds
<1>2. Init => DoneTold
  BY DEF Init, DoneTold
<1>3. QED
  BY <1>1, <1>2, EndsInit, EndsStep, DoneStep, PTL DEF Spec

\* A pane that ends with its host is not reported as exited: whoever was told an
\* exit was told of one that happened (`WorkerExit::host_stopping').
THEOREM NoExitAtShutdown == Spec => []ShutdownIsNoExit
<1>1. Ends => ShutdownIsNoExit
  BY DEF Ends, EveryViewEnds, ViewEnds, ShutdownIsNoExit, ToldCauses
<1>2. QED
  BY <1>1, EndsInit, EndsStep, PTL DEF Spec


-----------------------------------------------------------------------------
(* A hidden view is sent no frame.                                         *)

\* The worker's steps leave the pauses, the answers to them and the replays
\* alone; the one title they can bring is the event just drained.
LEMMA WorkerKeeps ==
    ASSUME TypeOK, NEW v \in Views,
           PublishCapture \/ MarkResumed \/ PublishDrained \/ EndPane \/ CloseSubscriptions
    PROVE  /\ pending'[v].paused = pending[v].paused /\ pending'[v].ack = pending[v].ack
           /\ pending'[v].replay = pending[v].replay
           /\ \/ pending'[v].title = pending[v].title
              \/ PublishDrained /\ batch \in Titles /\ pending'[v].title = batch
<1>1. pending[v] \in Pending /\ Exit \notin Titles /\ NoEvent \notin Titles
  BY EndCounts, ConstantsAssumption DEF Exit, NoEvent, Titles
<1>2. ASSUME NEW changed, NEW e
      PROVE  LET o == Offer(pending[v], changed, e)
             IN  /\ o.paused = pending[v].paused /\ o.ack = pending[v].ack
                 /\ o.replay = pending[v].replay
                 /\ o.title = IF e \in Titles THEN e ELSE pending[v].title
  BY <1>1 DEF Offer, Pending
<1>3. ASSUME NEW f, NEW e, Publish(f, e)
      PROVE  /\ pending'[v].paused = pending[v].paused /\ pending'[v].ack = pending[v].ack
             /\ pending'[v].replay = pending[v].replay
             /\ pending'[v].title = pending[v].title
                  \/ (e \in Titles /\ pending'[v].title = e)
  <2>1. \/ pending'[v] = pending[v]
        \/ \E changed : pending'[v] = Offer(pending[v], changed, e)
    BY <1>3 DEF Publish
  <2>2. QED
    BY <1>2, <2>1
<1>4. CASE PublishCapture
  <2>1. Publish(captured, NoEvent)
    BY <1>4 DEF PublishCapture
  <2>2. QED
    BY <1>1, <1>3, <2>1
<1>5. CASE PublishDrained
  <2>1. Publish(captured, batch)
    BY <1>5 DEF PublishDrained
  <2>2. QED
    BY <1>3, <1>5, <2>1
<1>6. CASE MarkResumed
  <2>1. pending'[v] = pending[v] \/ pending'[v] = [pending[v] EXCEPT !.state = TRUE]
    BY <1>6 DEF MarkResumed, TypeOK, ViewType
  <2>2. QED
    BY <1>1, <2>1 DEF Pending
<1>7. CASE CloseSubscriptions
  <2>1. pending'[v] = pending[v] \/ pending'[v] = [pending[v] EXCEPT !.closed = TRUE]
    BY <1>7 DEF CloseSubscriptions
  <2>2. QED
    BY <1>1, <2>1 DEF Pending
<1>8. CASE EndPane
  <2>1. CASE hostStopping
    <3>1. pending'[v] = pending[v] \/ pending'[v] = [pending[v] EXCEPT !.stopping = TRUE]
      BY <1>8, <2>1 DEF EndPane
    <3>2. QED
      BY <1>1, <3>1 DEF Pending
  <2>2. CASE ~hostStopping /\ exited
    BY <1>8, <2>2 DEF EndPane
  <2>3. CASE ~hostStopping /\ ~exited
    <3>1. Publish(NoFrame, Exit)
      BY <1>8, <2>3 DEF EndPane
    <3>2. QED
      BY <1>1, <1>3, <3>1
  <2>4. QED
    BY <2>1, <2>2, <2>3
<1>9. QED
  BY <1>4, <1>5, <1>6, <1>7, <1>8

\* The stages before a view's subscription is registered.
Unregistered == {"new"} \cup Asking

\* A view that owes no answer is paused just when the last one said so, and a
\* frame is being read only for a view that was not told it is hidden.
ViewHidden(v) ==
    /\ pending[v].ack = "none" => (pending[v].paused <=> acked[v] = "paused")
    /\ pending[v].ack = "paused" => pending[v].paused
    /\ pending[v].ack = "resumed" => ~pending[v].paused
    /\ stage[v] = "reading" => acked[v] # "paused"
    /\ stage[v] \in Unregistered => acked[v] = "none"
HiddenKnown == TypeOK /\ \A v \in Views : ViewHidden(v)

\* Most steps leave a view's pause and its answer alone.
LEMMA ViewHiddenKept ==
    ASSUME NEW v \in Views, ViewHidden(v),
           pending'[v].paused = pending[v].paused, pending'[v].ack = pending[v].ack,
           acked'[v] = acked[v],
           stage'[v] = "reading" => stage[v] = "reading",
           stage'[v] \in Unregistered => stage[v] \in Unregistered
    PROVE  ViewHidden(v)'
BY DEF ViewHidden

\* No view is hidden at first.
LEMMA HiddenInit == Init => HiddenKnown
<1> SUFFICES ASSUME Init PROVE HiddenKnown
  OBVIOUS
<1>1. ASSUME NEW v \in Views PROVE ViewHidden(v)
  BY DEF Init, ViewHidden, Idle
<1>2. QED
  BY <1>1, TypeInit DEF HiddenKnown

\* Every step keeps what a view was told of its pause.
LEMMA HiddenStep == HiddenKnown /\ [Next]_vars => HiddenKnown'
<1> SUFFICES ASSUME HiddenKnown, [Next]_vars PROVE HiddenKnown'
  OBVIOUS
<1>0. TypeOK /\ TypeOK' /\ \A v \in Views : ViewHidden(v)
  BY TypeStep DEF HiddenKnown
<1> SUFFICES ASSUME NEW w \in Views PROVE ViewHidden(w)'
  BY <1>0 DEF HiddenKnown
<1>00. ViewHidden(w) /\ pending[w] \in Pending /\ pending[w].ack \in Acks
       /\ pending[w].paused \in BOOLEAN
  BY <1>0, EndCounts DEF Pending
<1>1. CASE \/ Program \/ Notify \/ FrameIntervalPasses \/ Host \/ UNCHANGED vars
           \/ ComputeTimeout \/ TimedOut \/ ReceiveWake \/ ReceiveChange
           \/ ReceiveUnchanged \/ Drain \/ Capture \/ NotifyExit
           \/ ReceiveClose \/ ReceiveShutdown \/ Panic
           \/ \E kind \in {"Refresh", "Viewport", "Resume"} : ReceiveCapture(kind)
  <2>1. UNCHANGED <<stage, pending, acked>>
    BY <1>1 DEF Program, Output, SetTitle, ProgramExits, Notify, FrameIntervalPasses, Host,
                Ask, RegisterHook, DropPane, HostStops, SendShutdown, ComputeTimeout, TimedOut,
                ReceiveWake, ReceiveChange, ReceiveUnchanged, Drain, Capture, NotifyExit,
                ReceiveClose, ReceiveShutdown, Panic, ReceiveCapture, vars, viewVars, sentVars
  <2>2. QED
    BY <1>00, <2>1, ViewHiddenKept
<1>2. CASE PublishCapture \/ MarkResumed \/ PublishDrained \/ EndPane \/ CloseSubscriptions
  <2>1. /\ acked'[w] = acked[w]
        /\ stage'[w] = "reading" => stage[w] = "reading"
        /\ stage'[w] \in Unregistered => stage[w] \in Unregistered
    BY <1>0, <1>2 DEF PublishCapture, MarkResumed, PublishDrained, EndPane,
                CloseSubscriptions, sentVars, TypeOK, ViewType, Unregistered, Asking
  <2>2. pending'[w].paused = pending[w].paused /\ pending'[w].ack = pending[w].ack
    BY <1>0, <1>2, WorkerKeeps
  <2>3. QED
    BY <1>00, <2>1, <2>2, ViewHiddenKept
<1>3. ASSUME NEW v \in Views, v # w, Stream(v) \/ Client(v) PROVE ViewHidden(w)'
  <2>1. stage'[w] = stage[w] /\ pending'[w] = pending[w] /\ acked'[w] = acked[w]
    BY <1>0, <1>3 DEF Stream, Client, Register, WakeWorker, SendAck, SendReplay, SendEvents,
                SendHostShutdown, EndStream, ReadNothing, TakeFrame, SendFrame, BeginSubscribe,
                RefreshFails, WriteFails, Hide, Show, AskResync, Detach,
                viewVars, sentVars, TypeOK, ViewType, SentType
  <2>2. QED
    BY <1>00, <2>1, ViewHiddenKept
<1>4. CASE Register(w)
  <2>1. acked' = acked /\ stage[w] \in Unregistered
    BY <1>4 DEF Register, sentVars, Unregistered, Asking
  <2>2. CASE alive
    <3>1. /\ stage'[w] = "waking" /\ ~pending'[w].paused /\ pending'[w].ack = "none"
      BY <1>0, <1>4, <2>2 DEF Register, EnsureAlive, TypeOK, ViewType, Idle
    <3>2. acked[w] = "none"
      BY <1>00, <2>1 DEF ViewHidden
    <3>3. QED
      BY <2>1, <3>1, <3>2 DEF ViewHidden, Unregistered, Asking
  <2>3. CASE ~alive
    <3>1. stage'[w] = "gone" /\ pending'[w] = pending[w]
      BY <1>0, <1>4, <2>3 DEF Register, EnsureAlive, TypeOK, ViewType
    <3>2. QED
      BY <1>00, <2>1, <3>1, ViewHiddenKept
  <2>4. QED
    BY <2>2, <2>3
<1>5. CASE WakeWorker(w) \/ EndStream(w) \/ ReadNothing(w) \/ BeginSubscribe(w) \/ RefreshFails(w)
  <2>1. /\ pending' = pending /\ acked' = acked
        /\ stage'[w] = "reading" => stage[w] = "reading"
        /\ stage'[w] \in Unregistered => stage[w] \in Unregistered
    BY <1>0, <1>5 DEF WakeWorker, EndStream, ReadNothing, BeginSubscribe, RefreshFails,
                viewVars, sentVars,
                TypeOK, ViewType, Unregistered, Asking
  <2>2. QED
    BY <1>00, <2>1, ViewHiddenKept
<1>6. CASE SendReplay(w) \/ SendEvents(w) \/ SendHostShutdown(w) \/ WriteFails(w) \/ Detach(w)
           \/ SendFrame(w)
  <2>1. /\ acked' = acked
        /\ stage'[w] = "reading" => stage[w] = "reading"
        /\ stage'[w] \in Unregistered => stage[w] \in Unregistered
    BY <1>0, <1>6 DEF SendReplay, SendEvents, SendHostShutdown, WriteFails, Detach, SendFrame,
                sentVars, TypeOK, ViewType, Unregistered, Asking
  <2>2. pending'[w].paused = pending[w].paused /\ pending'[w].ack = pending[w].ack
    BY <1>0, <1>00, <1>6 DEF SendReplay, SendEvents, SendHostShutdown, WriteFails, Detach,
                SendFrame, TypeOK, ViewType, Pending
  <2>3. QED
    BY <1>00, <2>1, <2>2, ViewHiddenKept
<1>7. CASE AskResync(w)
  <2>1. /\ acked' = acked /\ stage' = stage
        /\ pending'[w] = [pending[w] EXCEPT !.resync = TRUE, !.state = ~pending[w].paused]
    BY <1>0, <1>7 DEF AskResync, sentVars, TypeOK, ViewType
  <2>2. pending'[w].paused = pending[w].paused /\ pending'[w].ack = pending[w].ack
    BY <1>00, <2>1 DEF Pending
  <2>3. QED
    BY <1>00, <2>1, <2>2, ViewHiddenKept
<1>8. CASE SendAck(w)
  <2>1. /\ stage' = stage /\ stage[w] = "open" /\ pending[w].ack # "none"
        /\ acked'[w] = pending[w].ack
        /\ pending'[w] = [pending[w] EXCEPT !.ack = "none"]
    BY <1>0, <1>8 DEF SendAck, AckDue, TypeOK, ViewType, SentType
  <2>2. pending'[w].paused = pending[w].paused /\ pending'[w].ack = "none"
    BY <1>00, <2>1 DEF Pending
  <2>3. QED
    BY <1>00, <2>1, <2>2 DEF ViewHidden, Acks, Unregistered, Asking
<1>9. CASE Hide(w)
  <2>1. /\ stage' = stage /\ acked' = acked
        /\ pending'[w] = [pending[w] EXCEPT !.paused = TRUE, !.ack = "paused", !.state = FALSE]
    BY <1>0, <1>9 DEF Hide, sentVars, TypeOK, ViewType
  <2>2. pending'[w].paused /\ pending'[w].ack = "paused"
    BY <1>00, <2>1 DEF Pending
  <2>3. QED
    BY <1>00, <2>1, <2>2 DEF ViewHidden
<1>10. CASE Show(w)
  <2>1. PICK s \in BOOLEAN :
           /\ stage' = stage /\ acked' = acked
           /\ pending'[w] = [pending[w] EXCEPT !.paused = FALSE, !.ack = "resumed", !.state = s]
    BY <1>0, <1>10 DEF Show, sentVars, TypeOK, ViewType
  <2>2. ~pending'[w].paused /\ pending'[w].ack = "resumed"
    BY <1>00, <2>1 DEF Pending
  <2>3. QED
    BY <1>00, <2>1, <2>2 DEF ViewHidden
<1>11. CASE TakeFrame(w)
  <2>1. /\ acked' = acked /\ stage'[w] = "reading" /\ ~pending[w].paused
        /\ pending[w].ack = "none"
        /\ pending'[w] = [pending[w] EXCEPT !.state = FALSE]
    BY <1>0, <1>11 DEF TakeFrame, QuietStream, AckDue, sentVars, TypeOK, ViewType
  <2>2. ~pending'[w].paused /\ pending'[w].ack = "none"
    BY <1>00, <2>1 DEF Pending
  <2>3. acked[w] # "paused"
    BY <1>00, <2>1 DEF ViewHidden
  <2>4. QED
    BY <2>1, <2>2, <2>3 DEF ViewHidden, Unregistered, Asking
<1>12. QED
  BY <1>1, <1>2, <1>3, <1>4, <1>5, <1>6, <1>7, <1>8, <1>9, <1>10, <1>11
     DEF Next, Worker, Stream, Client

\* From the moment the host confirmed that a view is hidden until it confirms
\* that it is shown again, the view is sent no frame: one being read when the view
\* hides goes out before the answer (`Update::Paused').
THEOREM HiddenIsQuiet == Spec => NoFrameWhileHidden
<1>1. HiddenKnown => [\A v \in Views : SendFrame(v) => acked[v] # "paused"]_vars
  BY DEF HiddenKnown, ViewHidden, SendFrame
<1>2. QED
  BY <1>1, HiddenInit, HiddenStep, PTL DEF Spec, NoFrameWhileHidden


-----------------------------------------------------------------------------
(* Titles only go forward.                                                 *)

\* Events wait in the order they happened, all of them newer than the title that
\* was drained, and that one newer than the title that was published.
TitleOrder ==
    /\ \A i, j \in 1..Len(engineEvents) : i < j => engineEvents[i] < engineEvents[j]
    /\ \A i \in 1..Len(engineEvents) :
          /\ engineEvents[i] \in Titles => engineEvents[i] <= titles
          /\ engineEvents[i] > batch /\ engineEvents[i] > sticky
    /\ batch \in Titles => batch > sticky /\ batch <= titles
    /\ sticky <= titles

\* What a view saw is older than its replay, its replay older than its queue, and
\* the published title is the newest of them.
ViewTitles(v) ==
    /\ pending[v].replay.title # NoTitle => seenTitle[v] <= pending[v].replay.title
    /\ pending[v].title # NoTitle => /\ seenTitle[v] <= pending[v].title
                                     /\ pending[v].replay.title <= pending[v].title
    /\ seenTitle[v] <= sticky
    /\ pending[v].replay.title <= sticky /\ pending[v].title <= sticky
    /\ stage[v] \in Unregistered => seenTitle[v] = NoTitle
TitlesForward == Ends /\ TitleOrder /\ \A v \in Views : ViewTitles(v)

\* A view that is sent nothing keeps its order when the published title grows.
LEMMA ViewTitlesKept ==
    ASSUME TypeOK, TypeOK', NEW v \in Views, ViewTitles(v), sticky <= sticky',
           pending'[v].replay = pending[v].replay, seenTitle'[v] = seenTitle[v],
           \/ pending'[v].title = pending[v].title
           \/ pending'[v].title = sticky',
           stage'[v] \in Unregistered => stage[v] \in Unregistered
    PROVE  ViewTitles(v)'
<1>1. pending[v].title \in 0..MaxTitle /\ pending[v].replay.title \in 0..MaxTitle
  BY EndCounts, PendingTypes
<1>2. sticky \in 0..MaxTitle /\ sticky' \in 0..MaxTitle /\ seenTitle[v] \in 0..MaxTitle
  BY DEF TypeOK, SharedType, SentType
<1>3. /\ sticky \in Nat /\ sticky' \in Nat /\ seenTitle[v] \in Nat
      /\ pending[v].title \in Nat /\ pending[v].replay.title \in Nat
  BY <1>1, <1>2, ConstantsAssumption
<1>4. QED
  BY <1>3 DEF ViewTitles, NoTitle

\* Events added after the last one keep the order.
LEMMA OrderAppend ==
    ASSUME NEW S \in SUBSET Nat, NEW s \in Seq(S), NEW e \in S,
           \A i, j \in 1..Len(s) : i < j => s[i] < s[j],
           \A i \in 1..Len(s) : s[i] < e
    PROVE  \A i, j \in 1..Len(Append(s, e)) : i < j => Append(s, e)[i] < Append(s, e)[j]
OBVIOUS

\* What is left after the first event is in order, and newer than it.
LEMMA OrderTail ==
    ASSUME NEW S \in SUBSET Nat, NEW s \in Seq(S), s # <<>>,
           \A i, j \in 1..Len(s) : i < j => s[i] < s[j]
    PROVE  /\ \A i, j \in 1..Len(Tail(s)) : i < j => Tail(s)[i] < Tail(s)[j]
           /\ \A i \in 1..Len(Tail(s)) : /\ Tail(s)[i] > Head(s)
                                         /\ i + 1 \in 1..Len(s) /\ Tail(s)[i] = s[i + 1]
<1>1. /\ Len(s) \in Nat /\ Len(s) >= 1 /\ Len(Tail(s)) = Len(s) - 1
      /\ Head(s) = s[1]
      /\ \A i \in 1..Len(Tail(s)) : Tail(s)[i] = s[i + 1]
  OBVIOUS
<1>2. \A i \in 1..Len(Tail(s)) : i + 1 \in 1..Len(s)
  BY <1>1
<1>3. \A i \in 1..Len(s) : s[i] \in Nat
  <2>1. \A i \in 1..Len(s) : s[i] \in S
    OBVIOUS
  <2>2. QED
    BY <2>1
<1>4. ASSUME NEW i \in 1..Len(Tail(s)), NEW j \in 1..Len(Tail(s)), i < j
      PROVE  Tail(s)[i] < Tail(s)[j]
  <2>1. i + 1 < j + 1 /\ i + 1 \in 1..Len(s) /\ j + 1 \in 1..Len(s)
    BY <1>2, <1>4
  <2>2. QED
    BY <1>1, <2>1
<1>5. ASSUME NEW i \in 1..Len(Tail(s)) PROVE Tail(s)[i] > Head(s)
  <2>1. 1 < i + 1 /\ i + 1 \in 1..Len(s) /\ 1 \in 1..Len(s)
    BY <1>1, <1>2
  <2>2. QED
    BY <1>1, <1>3, <2>1
<1>6. QED
  BY <1>1, <1>2, <1>4, <1>5

\* There is no title at first.
LEMMA TitlesInit == Init => TitlesForward
<1> SUFFICES ASSUME Init PROVE TitlesForward
  OBVIOUS
<1>1. TitleOrder
  BY DEF Init, TitleOrder, Titles, NoEvent, NoTitle
<1>2. ASSUME NEW v \in Views PROVE ViewTitles(v)
  BY DEF Init, ViewTitles, Idle, NoReplay, NoTitle
<1>3. QED
  BY <1>1, <1>2, EndsInit DEF TitlesForward

\* Every step keeps the order of the events.
LEMMA TitleOrderStep ==
    ASSUME TypeOK, ExitOrder, TitleOrder, [Next]_vars
    PROVE  TitleOrder' /\ sticky <= sticky'
<1>0. /\ engineEvents \in Seq(Events) /\ Events \in SUBSET Nat
      /\ batch \in Nat /\ sticky \in Nat /\ titles \in Nat
      /\ MaxTitle \in Nat
      /\ \A i \in 1..Len(engineEvents) :
            engineEvents[i] \in Events /\ engineEvents[i] \in Nat
  <2>1. Events \in SUBSET Nat /\ NoEvent \in Nat /\ MaxTitle \in Nat
    BY ConstantsAssumption DEF Events, Titles, Exit, NoEvent
  <2>2. /\ engineEvents \in Seq(Events) /\ batch \in Nat /\ sticky \in Nat /\ titles \in Nat
    BY <2>1 DEF TypeOK, EngineType, WorkerType, SharedType
  <2>3. \A i \in 1..Len(engineEvents) : engineEvents[i] \in Events
    BY <2>2
  <2>4. QED
    BY <2>1, <2>2, <2>3
<1>1. CASE \/ Output \/ Notify \/ FrameIntervalPasses \/ Host
           \/ \E v \in Views : Stream(v) \/ Client(v)
           \/ ComputeTimeout \/ TimedOut \/ ReceiveWake \/ ReceiveChange \/ ReceiveUnchanged
           \/ \E kind \in {"Refresh", "Viewport", "Resume"} : ReceiveCapture(kind)
           \/ MarkResumed \/ Capture \/ NotifyExit
           \/ ReceiveClose \/ ReceiveShutdown \/ Panic \/ CloseSubscriptions
           \/ UNCHANGED vars
  <2>1. UNCHANGED <<engineEvents, batch, sticky, titles>>
    BY <1>1 DEF Output, Notify, FrameIntervalPasses, Host, Ask, RegisterHook, DropPane, HostStops,
                SendShutdown, Stream, Client, Register, WakeWorker, SendAck, SendReplay,
                SendEvents, SendHostShutdown, EndStream, ReadNothing, TakeFrame, SendFrame,
                BeginSubscribe, RefreshFails, WriteFails, Hide, Show, AskResync, Detach,
                ComputeTimeout, TimedOut, ReceiveWake, ReceiveChange, ReceiveUnchanged,
                ReceiveCapture, MarkResumed, Capture, NotifyExit, ReceiveClose,
                ReceiveShutdown, Panic, CloseSubscriptions,
                vars, engineVars, workerVars, sharedVars
  <2>2. QED
    BY <1>0, <2>1 DEF TitleOrder
<1>2. CASE PublishCapture \/ EndPane
  <2>1. UNCHANGED <<engineEvents, batch, titles>>
    BY <1>2 DEF PublishCapture, EndPane, engineVars
  <2>2. Exit \notin Titles /\ NoEvent \notin Titles
    BY ConstantsAssumption DEF Exit, NoEvent, Titles
  <2>3. sticky' = sticky
    BY <1>2, <2>2 DEF PublishCapture, EndPane, Publish
  <2>4. QED
    BY <1>0, <2>1, <2>3 DEF TitleOrder
<1>3. CASE SetTitle
  <2>1. /\ engineEvents' = Append(engineEvents, titles + 1) /\ program = "running"
        /\ titles' = titles + 1 /\ titles < MaxTitle
        /\ UNCHANGED <<batch, sticky>>
    BY <1>3 DEF SetTitle, workerVars, sharedVars
  <2>2. NoExitDue
    BY <2>1 DEF ExitOrder
  <2>3. \A i \in 1..Len(engineEvents) : engineEvents[i] <= titles
    BY <1>0, <2>2 DEF NoExitDue, TitleOrder, Events
  <2>4. batch <= titles /\ sticky <= titles /\ titles + 1 \in Events
    <3>1. batch \in Events \cup {NoEvent} /\ batch # Exit
      BY <2>2 DEF TypeOK, WorkerType, NoExitDue
    <3>2. QED
      BY <1>0, <2>1, <3>1 DEF TitleOrder, Events, NoEvent, Titles
  <2>5. \A i, j \in 1..Len(engineEvents') : i < j => engineEvents'[i] < engineEvents'[j]
    <3>1. \A i \in 1..Len(engineEvents) : engineEvents[i] < titles + 1
      BY <1>0, <2>3
    <3>2. QED
      BY <1>0, <2>1, <2>4, <3>1, OrderAppend DEF TitleOrder
  <2>6. \A i \in 1..Len(engineEvents') :
          /\ engineEvents'[i] <= titles'
          /\ engineEvents'[i] > batch /\ engineEvents'[i] > sticky
    BY <1>0, <2>1, <2>3, <2>4 DEF TitleOrder
  <2>7. QED
    BY <1>0, <2>1, <2>4, <2>5, <2>6 DEF TitleOrder
<1>4. CASE ProgramExits
  <2>1. /\ engineEvents' = Append(engineEvents, Exit) /\ program = "running"
        /\ UNCHANGED <<batch, sticky, titles>>
    BY <1>4 DEF ProgramExits, workerVars, sharedVars
  <2>2. NoExitDue
    BY <2>1 DEF ExitOrder
  <2>3. \A i \in 1..Len(engineEvents) : engineEvents[i] < Exit
    BY <1>0, <2>2 DEF NoExitDue, Events, Titles, Exit
  <2>4. /\ Exit \notin Titles /\ Exit \in Nat
        /\ batch < Exit /\ sticky < Exit
    BY <1>0, <2>2 DEF Titles, Exit, NoExitDue, TypeOK, WorkerType, SharedType, Events, NoEvent
  <2>5. QED
    BY <1>0, <2>1, <2>3, <2>4, OrderAppend DEF TitleOrder
<1>5. CASE Drain
  <2>1. /\ batch' = IF engineEvents = <<>> THEN NoEvent ELSE Head(engineEvents)
        /\ engineEvents' = IF engineEvents = <<>> THEN <<>> ELSE Tail(engineEvents)
        /\ UNCHANGED <<sticky, titles>>
    BY <1>5 DEF Drain, sharedVars
  <2>2. CASE engineEvents = <<>>
    BY <1>0, <2>1, <2>2 DEF TitleOrder, NoEvent, Titles
  <2>3. CASE engineEvents # <<>>
    <3>1. /\ \A i, j \in 1..Len(engineEvents') :
                i < j => engineEvents'[i] < engineEvents'[j]
          /\ \A i \in 1..Len(engineEvents') :
                /\ engineEvents'[i] > batch'
                /\ i + 1 \in 1..Len(engineEvents) /\ engineEvents'[i] = engineEvents[i + 1]
      BY <1>0, <2>1, <2>3, OrderTail DEF TitleOrder
    <3>2. batch' = engineEvents[1] /\ 1 \in 1..Len(engineEvents)
      BY <1>0, <2>1, <2>3
    <3>3. batch' > sticky /\ (batch' \in Titles => batch' <= titles)
      BY <3>2 DEF TitleOrder
    <3>4. QED
      BY <1>0, <2>1, <3>1, <3>3 DEF TitleOrder
  <2>4. QED
    BY <2>2, <2>3
<1>6. CASE PublishDrained
  <2>1. /\ batch' = NoEvent /\ sticky' = IF batch \in Titles THEN batch ELSE sticky
        /\ UNCHANGED <<engineEvents, titles>>
    BY <1>6 DEF PublishDrained, Publish, engineVars
  <2>2. \A i \in 1..Len(engineEvents) : engineEvents[i] > NoEvent
    BY <1>0 DEF TitleOrder, NoEvent
  <2>3. NoEvent \notin Titles
    BY DEF NoEvent, Titles
  <2>4. QED
    BY <1>0, <2>1, <2>2, <2>3 DEF TitleOrder
<1>7. QED
  BY <1>1, <1>2, <1>3, <1>4, <1>5, <1>6 DEF Next, Program, Worker


\* Every step keeps the order of what a view sees, and shows it no older title.
LEMMA ViewTitlesStep ==
    ASSUME TitlesForward, TypeOK', sticky <= sticky', [Next]_vars, NEW w \in Views
    PROVE  ViewTitles(w)' /\ seenTitle'[w] >= seenTitle[w]
<1>0. TypeOK /\ ViewTitles(w)
  BY DEF TitlesForward, Ends, Served
<1>00. /\ pending[w] \in Pending
       /\ pending[w].title \in Nat /\ pending[w].replay.title \in Nat
       /\ sticky \in Nat /\ seenTitle[w] \in Nat
  <2>1. /\ pending[w] \in Pending /\ sticky \in 0..MaxTitle /\ seenTitle[w] \in 0..MaxTitle
    BY <1>0, EndCounts DEF TypeOK, SharedType, SentType
  <2>2. pending[w].title \in 0..MaxTitle /\ pending[w].replay.title \in 0..MaxTitle
    BY <2>1, PendingTypes
  <2>3. QED
    BY <2>1, <2>2, ConstantsAssumption
<1>1. ASSUME pending'[w].replay = pending[w].replay, seenTitle'[w] = seenTitle[w],
             pending'[w].title = pending[w].title \/ pending'[w].title = sticky',
             stage'[w] \in Unregistered => stage[w] \in Unregistered
      PROVE  ViewTitles(w)' /\ seenTitle'[w] >= seenTitle[w]
  BY <1>0, <1>00, <1>1, ViewTitlesKept
<1>2. CASE \/ Program \/ Notify \/ FrameIntervalPasses \/ Host \/ UNCHANGED vars
           \/ ComputeTimeout \/ TimedOut \/ ReceiveWake \/ ReceiveChange
           \/ ReceiveUnchanged \/ Drain \/ Capture \/ NotifyExit
           \/ ReceiveClose \/ ReceiveShutdown \/ Panic
           \/ \E kind \in {"Refresh", "Viewport", "Resume"} : ReceiveCapture(kind)
  <2>1. UNCHANGED <<stage, pending, seenTitle>>
    BY <1>2 DEF Program, Output, SetTitle, ProgramExits, Notify, FrameIntervalPasses, Host,
                Ask, RegisterHook, DropPane, HostStops, SendShutdown, ComputeTimeout, TimedOut,
                ReceiveWake, ReceiveChange, ReceiveUnchanged, Drain, Capture, NotifyExit,
                ReceiveClose, ReceiveShutdown, Panic, ReceiveCapture, vars, viewVars, sentVars
  <2>2. QED
    BY <1>1, <2>1
<1>3. CASE PublishCapture \/ MarkResumed \/ PublishDrained \/ EndPane \/ CloseSubscriptions
  <2>1. /\ seenTitle' = seenTitle
        /\ stage'[w] \in Unregistered => stage[w] \in Unregistered
    BY <1>0, <1>3 DEF PublishCapture, MarkResumed, PublishDrained, EndPane,
                CloseSubscriptions, sentVars, TypeOK, ViewType, Unregistered, Asking
  <2>2. /\ pending'[w].replay = pending[w].replay
        /\ \/ pending'[w].title = pending[w].title
           \/ PublishDrained /\ batch \in Titles /\ pending'[w].title = batch
    BY <1>0, <1>3, WorkerKeeps
  <2>3. PublishDrained /\ batch \in Titles => sticky' = batch
    BY DEF PublishDrained, Publish
  <2>4. QED
    BY <1>1, <2>1, <2>2, <2>3
<1>4. ASSUME NEW v \in Views, v # w, Stream(v) \/ Client(v)
      PROVE  ViewTitles(w)' /\ seenTitle'[w] >= seenTitle[w]
  <2>1. stage'[w] = stage[w] /\ pending'[w] = pending[w] /\ seenTitle'[w] = seenTitle[w]
    BY <1>0, <1>4 DEF Stream, Client, Register, WakeWorker, SendAck, SendReplay, SendEvents,
                SendHostShutdown, EndStream, ReadNothing, TakeFrame, SendFrame, BeginSubscribe,
                RefreshFails, WriteFails, Hide, Show, AskResync, Detach, Receive,
                viewVars, sentVars, TypeOK, ViewType, SentType
  <2>2. QED
    BY <1>1, <2>1
<1>5. CASE Register(w)
  <2>1. seenTitle' = seenTitle /\ stage[w] \in Unregistered /\ sticky' = sticky
    BY <1>5 DEF Register, sentVars, Unregistered, Asking
  <2>2. CASE alive
    <3>0. /\ stage'[w] = "waking"
          /\ pending'[w] = [Idle EXCEPT !.state = TRUE, !.replay = ReplaySeed]
      BY <1>0, <1>5, <2>2 DEF Register, EnsureAlive, TypeOK, ViewType
    <3>1. pending'[w].title = NoTitle /\ pending'[w].replay.title = sticky
      BY <3>0 DEF ReplaySeed, Idle
    <3>2. seenTitle[w] = NoTitle
      BY <1>0, <2>1 DEF ViewTitles
    <3>3. QED
      BY <1>00, <2>1, <3>0, <3>1, <3>2 DEF ViewTitles, NoTitle, Unregistered, Asking
  <2>3. CASE ~alive
    <3>1. stage'[w] = "gone" /\ pending'[w] = pending[w]
      BY <1>0, <1>5, <2>3 DEF Register, EnsureAlive, TypeOK, ViewType
    <3>2. QED
      BY <1>1, <2>1, <3>1 DEF Unregistered, Asking
  <2>4. QED
    BY <2>2, <2>3
<1>6. CASE WakeWorker(w) \/ EndStream(w) \/ ReadNothing(w) \/ BeginSubscribe(w) \/ RefreshFails(w)
  <2>1. /\ pending' = pending /\ seenTitle' = seenTitle
        /\ stage'[w] \in Unregistered => stage[w] \in Unregistered
    BY <1>0, <1>6 DEF WakeWorker, EndStream, ReadNothing, BeginSubscribe, RefreshFails,
                viewVars, sentVars,
                TypeOK, ViewType, Unregistered, Asking
  <2>2. QED
    BY <1>1, <2>1
<1>7. CASE SendAck(w) \/ SendHostShutdown(w) \/ TakeFrame(w) \/ SendFrame(w)
           \/ WriteFails(w) \/ Detach(w) \/ Hide(w) \/ Show(w) \/ AskResync(w)
  <2>1. /\ seenTitle' = seenTitle
        /\ stage'[w] \in Unregistered => stage[w] \in Unregistered
    BY <1>0, <1>7 DEF SendAck, SendHostShutdown, TakeFrame, SendFrame, WriteFails, Detach,
                Hide, Show, AskResync, sentVars, TypeOK, ViewType, Unregistered, Asking
  <2>2. pending'[w].title = pending[w].title /\ pending'[w].replay = pending[w].replay
    <3>1. CASE SendAck(w) \/ SendHostShutdown(w) \/ TakeFrame(w) \/ SendFrame(w)
               \/ WriteFails(w) \/ Detach(w)
      BY <1>0, <1>00, <3>1 DEF SendAck, SendHostShutdown, TakeFrame, SendFrame, WriteFails,
                  Detach, TypeOK, ViewType, Pending
    <3>2. CASE Hide(w)
      BY <1>0, <1>00, <3>2 DEF Hide, TypeOK, ViewType, Pending
    <3>3. CASE Show(w)
      BY <1>0, <1>00, <3>3 DEF Show, TypeOK, ViewType, Pending
    <3>4. CASE AskResync(w)
      BY <1>0, <1>00, <3>4 DEF AskResync, TypeOK, ViewType, Pending
    <3>5. QED
      BY <1>7, <3>1, <3>2, <3>3, <3>4
  <2>3. QED
    BY <1>1, <2>1, <2>2
<1>8. CASE SendReplay(w)
  <2>1. /\ stage' = stage /\ stage[w] = "open" /\ sticky' = sticky
        /\ seenTitle'[w] = IF pending[w].replay.title # NoTitle
                           THEN pending[w].replay.title ELSE seenTitle[w]
        /\ pending'[w].title = pending[w].title /\ pending'[w].replay.title = NoTitle
    BY <1>0, <1>00, <1>8 DEF SendReplay, Receive, NoReplay, TypeOK, ViewType, SentType, Pending,
                sharedVars
  <2>2. QED
    BY <1>0, <1>00, <2>1 DEF ViewTitles, NoTitle, Unregistered, Asking
<1>9. CASE SendEvents(w)
  <2>1. /\ stage' = stage /\ stage[w] = "open" /\ sticky' = sticky
        /\ seenTitle'[w] = IF pending[w].title # NoTitle
                           THEN pending[w].title ELSE seenTitle[w]
        /\ pending'[w].title = NoTitle /\ pending'[w].replay = pending[w].replay
    BY <1>0, <1>00, <1>9 DEF SendEvents, Receive, TypeOK, ViewType, SentType, Pending,
                sharedVars
  <2>2. pending[w].replay.title = NoTitle
    BY <1>9 DEF SendEvents, EventsDue, ReplayDue, NoReplay
  <2>3. QED
    BY <1>0, <1>00, <2>1, <2>2 DEF ViewTitles, NoTitle, Unregistered, Asking
<1>10. QED
  BY <1>2, <1>3, <1>4, <1>5, <1>6, <1>7, <1>8, <1>9 DEF Next, Worker, Stream, Client

\* So every step keeps the titles going forward.
LEMMA TitlesStep == TitlesForward /\ [Next]_vars => TitlesForward'
<1> SUFFICES ASSUME TitlesForward, [Next]_vars PROVE TitlesForward'
  OBVIOUS
<1>1. Ends' /\ TypeOK /\ TypeOK' /\ ExitOrder
  BY EndsStep, TypeStep DEF TitlesForward, Ends, Served
<1>2. TitleOrder' /\ sticky <= sticky'
  BY <1>1, TitleOrderStep DEF TitlesForward
<1>3. \A v \in Views : ViewTitles(v)'
  BY <1>1, <1>2, ViewTitlesStep
<1>4. QED
  BY <1>1, <1>2, <1>3 DEF TitlesForward

\* A view never sees the title go back to an older one, whether the newer came by
\* the replay of its registration or live.
THEOREM TitleForward == Spec => TitleNeverGoesBack
<1>1. TitlesForward /\ [Next]_vars => [\A v \in Views : seenTitle'[v] >= seenTitle[v]]_vars
  <2>1. SUFFICES ASSUME TitlesForward, [Next]_vars
                 PROVE  \A v \in Views : seenTitle'[v] >= seenTitle[v]
    OBVIOUS
  <2>2. TypeOK /\ TypeOK' /\ ExitOrder /\ TitleOrder
    BY <2>1, TypeStep DEF TitlesForward, Ends, Served
  <2>3. sticky <= sticky'
    BY <2>1, <2>2, TitleOrderStep
  <2>4. QED
    BY <2>1, <2>2, <2>3, ViewTitlesStep
<1>2. QED
  BY <1>1, TitlesInit, TitlesStep, PTL DEF Spec, TitleNeverGoesBack

-----------------------------------------------------------------------------
(* The first frame of a view is fresh.                                     *)

\* Frames are published in the order they were captured, none from before what is
\* published already.
FramesOrdered ==
    /\ frame <= screen
    /\ captured # NoFrame => frame <= captured /\ captured <= screen
    /\ pc = "answer" => captured # NoFrame

\* A refresh is queued, and answered, only for a view that asked.
RefreshesAsked ==
    /\ \A i \in 1..Len(queue) : queue[i].kind = "Refresh" => stage[queue[i].view] # "new"
    /\ job.kind = "Refresh" => stage[job.view] # "new"

\* What a view that subscribes is owed: until its refresh is answered, the frame
\* of that answer; from then on, the frame that is published.
ViewFresh(v) ==
    /\ stage[v] = "asking" => born[v] <= screen
    /\ pc = "answer" /\ job = For("Refresh", v) /\ stage[v] = "asking" => born[v] <= captured
    /\ stage[v] \in {"refreshed"} \cup Held => born[v] <= frame
Fresh == TypeOK /\ FramesOrdered /\ RefreshesAsked /\ \A v \in Views : ViewFresh(v)

\* No step takes a view back before it asked, but its asking sets what it is owed.
LEMMA ViewFreshKept ==
    ASSUME Fresh, TypeOK', NEW v \in Views, ViewFresh(v),
           born'[v] = born[v], screen <= screen', frame <= frame',
           stage'[v] = "asking" => stage[v] = "asking",
           stage'[v] \in {"refreshed"} \cup Held => stage[v] \in {"refreshed"} \cup Held,
           pc' = "answer" => pc = "answer" /\ UNCHANGED <<captured, job>>
    PROVE  ViewFresh(v)'
<1>1. /\ born[v] \in Nat /\ screen \in Nat /\ screen' \in Nat /\ frame \in Nat
      /\ frame' \in Nat
  BY ConstantsAssumption
     DEF Fresh, TypeOK, EngineType, SharedType, SentType, Frames, NoFrame
<1>2. QED
  BY <1>1 DEF ViewFresh

\* Nobody is owed a frame at first.
LEMMA FreshInit == Init => Fresh
<1> SUFFICES ASSUME Init PROVE Fresh
  OBVIOUS
<1>1. FramesOrdered
  BY DEF Init, FramesOrdered, NoFrame
<1>2. RefreshesAsked
  BY DEF Init, RefreshesAsked, Plain
<1>3. ASSUME NEW v \in Views PROVE ViewFresh(v)
  BY DEF Init, ViewFresh, Held
<1>4. QED
  BY <1>1, <1>2, <1>3, TypeInit DEF Fresh


\* A refresh in the queue, or being answered, stays one for a view that asked.
LEMMA AskedStep ==
    ASSUME TypeOK, TypeOK', RefreshesAsked, [Next]_vars
    PROVE  RefreshesAsked'
<1>0. /\ queue \in Seq(Work) /\ queue' \in Seq(Work) /\ job \in Work
      /\ \A w \in Work : w.kind = "Refresh" => w.view \in Views
  BY DEF TypeOK, QueueType, WorkerType, Work
<1>1. ASSUME \A v \in Views : stage'[v] = "new" => stage[v] = "new",
             \/ queue' = queue
             \/ queue # <<>> /\ queue' = Tail(queue)
             \/ \E w \in Work : /\ queue' = Append(queue, w)
                                /\ w.kind = "Refresh" => stage'[w.view] # "new",
             \/ job' = job \/ job' = Plain("Wake")
             \/ queue # <<>> /\ job' = Head(queue)
      PROVE  RefreshesAsked'
  <2>1. \A i \in 1..Len(queue) : queue[i].kind = "Refresh" => stage'[queue[i].view] # "new"
    BY <1>0, <1>1 DEF RefreshesAsked
  <2>2. \A i \in 1..Len(queue') : queue'[i].kind = "Refresh" => stage'[queue'[i].view] # "new"
    <3>1. CASE queue' = queue
      BY <2>1, <3>1
    <3>2. CASE queue # <<>> /\ queue' = Tail(queue)
      <4>1. \A i \in 1..Len(queue') : i + 1 \in 1..Len(queue) /\ queue'[i] = queue[i + 1]
        BY <1>0, <3>2
      <4>2. QED
        BY <2>1, <4>1
    <3>3. ASSUME NEW w \in Work, queue' = Append(queue, w),
                 w.kind = "Refresh" => stage'[w.view] # "new"
          PROVE  \A i \in 1..Len(queue') :
                    queue'[i].kind = "Refresh" => stage'[queue'[i].view] # "new"
      <4>1. \A i \in 1..Len(queue') : \/ i \in 1..Len(queue) /\ queue'[i] = queue[i]
                                      \/ queue'[i] = w
        BY <1>0, <3>3
      <4>2. QED
        BY <2>1, <3>3, <4>1
    <3>4. QED
      BY <1>1, <3>1, <3>2, <3>3
  <2>3. job'.kind = "Refresh" => stage'[job'.view] # "new"
    <3>1. CASE job' = job
      BY <1>0, <1>1, <3>1 DEF RefreshesAsked
    <3>2. CASE job' = Plain("Wake")
      BY <3>2 DEF Plain
    <3>3. CASE queue # <<>> /\ job' = Head(queue)
      <4>1. job' = queue[1] /\ 1 \in 1..Len(queue)
        BY <1>0, <3>3
      <4>2. QED
        BY <2>1, <4>1
    <3>4. QED
      BY <1>1, <3>1, <3>2, <3>3
  <2>4. QED
    BY <2>2, <2>3 DEF RefreshesAsked
<1>2. CASE \/ Output \/ SetTitle \/ ProgramExits \/ FrameIntervalPasses \/ Panic
           \/ RegisterHook \/ HostStops \/ DropPane \/ UNCHANGED vars
           \/ ComputeTimeout \/ TimedOut \/ MarkResumed \/ Drain \/ Capture
           \/ PublishDrained \/ NotifyExit \/ EndPane \/ CloseSubscriptions
           \/ PublishCapture
  <2>1. /\ queue' = queue /\ (job' = job \/ job' = Plain("Wake"))
        /\ \A v \in Views : stage'[v] = "new" => stage[v] = "new"
    BY <1>2 DEF Output, SetTitle, ProgramExits, FrameIntervalPasses, Panic, RegisterHook,
                HostStops, DropPane, ComputeTimeout, TimedOut, MarkResumed, Drain, Capture,
                PublishDrained, NotifyExit, EndPane, CloseSubscriptions, PublishCapture,
                vars, viewVars, workerVars, TypeOK, ViewType
  <2>2. QED
    BY <1>1, <2>1
<1>3. CASE \/ ReceiveWake \/ ReceiveChange \/ ReceiveUnchanged \/ ReceiveClose
           \/ ReceiveShutdown
           \/ \E kind \in {"Refresh", "Viewport", "Resume"} : ReceiveCapture(kind)
  <2>1. /\ queue # <<>> /\ queue' = Tail(queue) /\ stage' = stage
        /\ job' = job \/ job' = Head(queue)
    BY <1>3 DEF ReceiveWake, ReceiveChange, ReceiveUnchanged, ReceiveClose, ReceiveShutdown,
                ReceiveCapture, Received, viewVars
  <2>2. QED
    BY <1>1, <2>1
<1>4. CASE \/ Notify \/ SendShutdown
           \/ \E kind \in {"Change", "Viewport", "Close"} : Ask(kind)
  <2>1. stage' = stage /\ job' = job
    BY <1>4 DEF Notify, SendShutdown, Ask, viewVars, workerVars
  <2>2. queue' = queue \/ \E kind \in {"Wake", "Change", "Viewport", "Close", "Shutdown"} :
                              queue' = Append(queue, Plain(kind))
    BY <1>4 DEF Notify, SendShutdown, Ask, TrySend
  <2>3. \A kind \in {"Wake", "Change", "Viewport", "Close", "Shutdown"} :
            Plain(kind) \in Work /\ Plain(kind).kind # "Refresh"
    BY PlainWork DEF Plain
  <2>4. QED
    BY <1>1, <2>1, <2>2, <2>3
<1>5. ASSUME NEW v \in Views,
             \/ SendAck(v) \/ SendReplay(v) \/ SendEvents(v) \/ SendHostShutdown(v)
             \/ EndStream(v) \/ ReadNothing(v) \/ TakeFrame(v) \/ SendFrame(v) \/ Register(v)
             \/ RefreshFails(v) \/ WriteFails(v) \/ Hide(v) \/ AskResync(v) \/ Detach(v)
      PROVE  RefreshesAsked'
  <2>1. queue' = queue /\ job' = job
    BY <1>5 DEF SendAck, SendReplay, SendEvents, SendHostShutdown, EndStream, ReadNothing,
       TakeFrame,
                SendFrame, Register, RefreshFails, WriteFails, Hide, AskResync, Detach,
                workerVars
  <2>2. \A u \in Views : stage'[u] = "new" => stage[u] = "new"
    BY <1>5 DEF SendAck, SendReplay, SendEvents, SendHostShutdown, EndStream, ReadNothing,
       TakeFrame,
                SendFrame, Register, RefreshFails, WriteFails, Hide, AskResync, Detach,
                TypeOK, ViewType
  <2>3. QED
    BY <1>1, <2>1, <2>2
<1>6. ASSUME NEW v \in Views, WakeWorker(v) \/ Show(v) PROVE RefreshesAsked'
  <2>1. /\ job' = job /\ \A u \in Views : stage'[u] = "new" => stage[u] = "new"
        /\ \/ queue' = queue \/ queue' = Append(queue, Plain("Wake"))
           \/ queue' = Append(queue, For("Resume", v))
    BY <1>6 DEF WakeWorker, Show, TrySend, TypeOK, ViewType, workerVars
  <2>2. /\ Plain("Wake") \in Work /\ Plain("Wake").kind # "Refresh"
        /\ For("Resume", v) \in Work /\ For("Resume", v).kind # "Refresh"
    BY PlainWork, ForWork DEF Plain, For
  <2>3. QED
    BY <1>1, <2>1, <2>2
<1>7. ASSUME NEW v \in Views, BeginSubscribe(v) PROVE RefreshesAsked'
  <2>1. /\ job' = job /\ stage'[v] # "new"
        /\ \A u \in Views : stage'[u] = "new" => stage[u] = "new"
        /\ queue' = queue \/ queue' = Append(queue, For("Refresh", v))
    BY <1>7 DEF BeginSubscribe, TypeOK, ViewType, workerVars
  <2>2. For("Refresh", v) \in Work /\ For("Refresh", v).view = v
    BY ForWork DEF For
  <2>3. QED
    BY <1>1, <2>1, <2>2
<1>8. QED
  BY <1>2, <1>3, <1>4, <1>5, <1>6, <1>7 DEF Next, Program, Worker, Host, Stream, Client

\* Frames and the screen only go forward.
LEMMA FramesStep ==
    ASSUME TypeOK, TypeOK', FramesOrdered, [Next]_vars
    PROVE  FramesOrdered' /\ screen <= screen' /\ frame <= frame'
<1>0. /\ frame \in Nat \ {0} /\ screen \in Nat \ {0} /\ captured \in Nat
      /\ frame' \in Nat /\ screen' \in Nat \ {0} /\ captured' \in Nat
  BY ConstantsAssumption
     DEF TypeOK, EngineType, SharedType, WorkerType, Frames, NoFrame
<1>1. CASE \/ Program \/ Notify \/ FrameIntervalPasses \/ Host \/ UNCHANGED vars
           \/ ComputeTimeout \/ TimedOut \/ ReceiveWake \/ ReceiveChange \/ ReceiveUnchanged
           \/ MarkResumed \/ Drain \/ NotifyExit \/ ReceiveClose \/ ReceiveShutdown
           \/ Panic \/ CloseSubscriptions \/ EndPane
           \/ \E v \in Views : Stream(v) \/ Client(v)
  <2>1. captured' = captured /\ (pc' = "answer" => pc = "answer")
    BY <1>1 DEF Program, Output, SetTitle, ProgramExits, Notify, FrameIntervalPasses, Host,
                Ask, RegisterHook, DropPane, HostStops, SendShutdown, ComputeTimeout, TimedOut,
                ReceiveWake, ReceiveChange, ReceiveUnchanged, MarkResumed, Drain, NotifyExit,
                ReceiveClose, ReceiveShutdown, Panic, CloseSubscriptions, EndPane,
                Stream, Client, Register, WakeWorker, SendAck, SendReplay, SendEvents,
                SendHostShutdown, EndStream, ReadNothing, TakeFrame, SendFrame, BeginSubscribe,
                RefreshFails, WriteFails, Hide, Show, AskResync, Detach, vars, workerVars
  <2>2. frame' = frame
    BY <1>1 DEF Program, Output, SetTitle, ProgramExits, Notify, FrameIntervalPasses, Host,
                Ask, RegisterHook, DropPane, HostStops, SendShutdown, ComputeTimeout, TimedOut,
                ReceiveWake, ReceiveChange, ReceiveUnchanged, MarkResumed, Drain, NotifyExit,
                ReceiveClose, ReceiveShutdown, Panic, CloseSubscriptions, EndPane, Publish,
                Stream, Client, Register, WakeWorker, SendAck, SendReplay, SendEvents,
                SendHostShutdown, EndStream, ReadNothing, TakeFrame, SendFrame, BeginSubscribe,
                RefreshFails, WriteFails, Hide, Show, AskResync, Detach, vars, sharedVars
  <2>3. screen' = screen \/ screen' = screen + 1
    BY <1>1 DEF Program, Output, SetTitle, ProgramExits, Notify, FrameIntervalPasses, Host,
                Ask, RegisterHook, DropPane, HostStops, SendShutdown, ComputeTimeout, TimedOut,
                ReceiveWake, ReceiveChange, ReceiveUnchanged, MarkResumed, Drain, NotifyExit,
                ReceiveClose, ReceiveShutdown, Panic, CloseSubscriptions, EndPane,
                Stream, Client, Register, WakeWorker, SendAck, SendReplay, SendEvents,
                SendHostShutdown, EndStream, ReadNothing, TakeFrame, SendFrame, BeginSubscribe,
                RefreshFails, WriteFails, Hide, Show, AskResync, Detach, vars, engineVars
  <2>4. QED
    BY <1>0, <2>1, <2>2, <2>3 DEF FramesOrdered
<1>2. ASSUME NEW kind \in {"Refresh", "Viewport", "Resume"}, ReceiveCapture(kind)
      PROVE  FramesOrdered' /\ screen <= screen' /\ frame <= frame'
  <2>1. /\ captured' = screen' /\ frame' = frame
        /\ screen' = screen \/ screen' = screen + 1
    BY <1>2 DEF ReceiveCapture, sharedVars
  <2>2. QED
    BY <1>0, <2>1 DEF FramesOrdered, NoFrame
<1>3. CASE PublishCapture \/ PublishDrained
  <2>1. /\ captured' = NoFrame /\ screen' = screen /\ pc' # "answer"
        /\ frame' = frame \/ (captured # NoFrame /\ frame' = captured)
    BY <1>3 DEF PublishCapture, PublishDrained, Publish, engineVars
  <2>2. QED
    BY <1>0, <2>1 DEF FramesOrdered
<1>4. CASE Capture
  <2>1. /\ captured' = screen \/ captured' = captured
        /\ UNCHANGED <<screen, frame>> /\ pc' # "answer"
    BY <1>4 DEF Capture, engineVars, sharedVars
  <2>2. QED
    BY <1>0, <2>1 DEF FramesOrdered
<1>5. QED
  BY <1>1, <1>2, <1>3, <1>4 DEF Next, Worker

\* So every step keeps what the views are owed.
LEMMA FreshStep == Fresh /\ [Next]_vars => Fresh'
<1> SUFFICES ASSUME Fresh, [Next]_vars PROVE Fresh'
  OBVIOUS
<1>0. /\ TypeOK /\ TypeOK' /\ RefreshesAsked' /\ FramesOrdered'
      /\ screen <= screen' /\ frame <= frame'
  BY TypeStep, AskedStep, FramesStep DEF Fresh
<1> SUFFICES ASSUME NEW w \in Views PROVE ViewFresh(w)'
  BY <1>0 DEF Fresh
<1>00. /\ ViewFresh(w) /\ FramesOrdered /\ RefreshesAsked
       /\ born[w] \in Nat /\ frame \in Nat \ {0} /\ screen \in Nat \ {0} /\ screen' \in Nat
  BY <1>0, ConstantsAssumption
     DEF Fresh, TypeOK, EngineType, SharedType, SentType, Frames, NoFrame
<1>1. CASE \/ Program \/ Notify \/ FrameIntervalPasses \/ Host \/ UNCHANGED vars
           \/ ComputeTimeout \/ TimedOut \/ ReceiveWake \/ ReceiveChange \/ ReceiveUnchanged
           \/ MarkResumed \/ Drain \/ Capture \/ PublishDrained \/ NotifyExit
           \/ ReceiveClose \/ ReceiveShutdown \/ Panic \/ EndPane \/ CloseSubscriptions
  <2>1. UNCHANGED <<stage, born>>
    BY <1>1 DEF Program, Output, SetTitle, ProgramExits, Notify, FrameIntervalPasses, Host,
                Ask, RegisterHook, DropPane, HostStops, SendShutdown, ComputeTimeout, TimedOut,
                ReceiveWake, ReceiveChange, ReceiveUnchanged, MarkResumed, Drain, Capture,
                PublishDrained, NotifyExit, ReceiveClose, ReceiveShutdown, Panic, EndPane,
                CloseSubscriptions, vars, viewVars, sentVars
  <2>2. pc' = "answer" => pc = "answer" /\ UNCHANGED <<captured, job>>
    BY <1>1 DEF Program, Output, SetTitle, ProgramExits, Notify, FrameIntervalPasses, Host,
                Ask, RegisterHook, DropPane, HostStops, SendShutdown, ComputeTimeout, TimedOut,
                ReceiveWake, ReceiveChange, ReceiveUnchanged, MarkResumed, Drain, Capture,
                PublishDrained, NotifyExit, ReceiveClose, ReceiveShutdown, Panic, EndPane,
                CloseSubscriptions, vars, workerVars
  <2>3. QED
    BY <1>0, <1>00, <2>1, <2>2, ViewFreshKept
<1>2. ASSUME NEW kind \in {"Refresh", "Viewport", "Resume"}, ReceiveCapture(kind)
      PROVE  ViewFresh(w)'
  <2>1. UNCHANGED <<stage, born>> /\ captured' = screen'
    BY <1>2 DEF ReceiveCapture, viewVars, sentVars
  <2>2. frame' = frame
    BY <1>2 DEF ReceiveCapture, sharedVars
  <2>3. QED
    BY <1>0, <1>00, <2>1, <2>2 DEF ViewFresh
<1>3. CASE PublishCapture
  <2>1. /\ pc = "answer" /\ pc' # "answer" /\ born' = born /\ screen' = screen
        /\ Publish(captured, NoEvent)
        /\ stage' = IF job.kind = "Refresh" /\ stage[job.view] = "asking"
                    THEN [stage EXCEPT ![job.view] = "refreshed"] ELSE stage
    BY <1>3 DEF PublishCapture, engineVars, sentVars
  <2>2. frame' = captured
    BY <1>0, <1>00, <2>1 DEF Publish, FramesOrdered
  <2>3. CASE stage'[w] = stage[w]
    BY <1>0, <1>00, <2>1, <2>3, ViewFreshKept
  <2>4. CASE stage'[w] # stage[w]
    <3>1. job.kind = "Refresh" /\ job.view = w /\ stage[w] = "asking" /\ stage'[w] = "refreshed"
      BY <1>0, <2>1, <2>4 DEF TypeOK, ViewType
    <3>2. job = For("Refresh", w)
      BY <1>0, <3>1 DEF TypeOK, WorkerType, Work, For
    <3>3. born[w] <= captured
      BY <1>00, <2>1, <3>1, <3>2 DEF ViewFresh
    <3>4. QED
      BY <2>1, <2>2, <3>1, <3>3 DEF ViewFresh
  <2>5. QED
    BY <2>3, <2>4
<1>4. ASSUME NEW v \in Views, v # w, Stream(v) \/ Client(v) PROVE ViewFresh(w)'
  <2>1. stage'[w] = stage[w] /\ born'[w] = born[w] /\ UNCHANGED <<pc, captured, job>>
    BY <1>0, <1>4 DEF Stream, Client, Register, WakeWorker, SendAck, SendReplay, SendEvents,
                SendHostShutdown, EndStream, ReadNothing, TakeFrame, SendFrame, BeginSubscribe,
                RefreshFails, WriteFails, Hide, Show, AskResync, Detach,
                viewVars, sentVars, workerVars, TypeOK, ViewType, SentType
  <2>2. QED
    BY <1>0, <1>00, <2>1, ViewFreshKept
<1>5. CASE \/ SendAck(w) \/ SendReplay(w) \/ SendEvents(w) \/ SendHostShutdown(w)
           \/ EndStream(w) \/ ReadNothing(w) \/ TakeFrame(w) \/ Register(w) \/ WakeWorker(w)
           \/ RefreshFails(w) \/ WriteFails(w) \/ Hide(w) \/ Show(w) \/ AskResync(w)
           \/ Detach(w)
  <2>1. born' = born /\ UNCHANGED <<pc, captured, job>>
    BY <1>5 DEF SendAck, SendReplay, SendEvents, SendHostShutdown, EndStream, ReadNothing,
       TakeFrame,
                Register, WakeWorker, RefreshFails, WriteFails, Hide, Show, AskResync, Detach,
                sentVars, workerVars
  <2>2. /\ stage'[w] = "asking" => stage[w] = "asking"
        /\ stage'[w] \in {"refreshed"} \cup Held => stage[w] \in {"refreshed"} \cup Held
    BY <1>0, <1>5 DEF SendAck, SendReplay, SendEvents, SendHostShutdown, EndStream, ReadNothing,
       TakeFrame,
                Register, WakeWorker, RefreshFails, WriteFails, Hide, Show, AskResync, Detach,
                TypeOK, ViewType, Held
  <2>3. QED
    BY <1>0, <1>00, <2>1, <2>2, ViewFreshKept
<1>6. CASE SendFrame(w)
  <2>1. stage'[w] = "open" /\ born'[w] = NoFrame /\ frame' = frame
    BY <1>0, <1>6 DEF SendFrame, sharedVars, TypeOK, ViewType, SentType
  <2>2. QED
    BY <1>00, <2>1 DEF ViewFresh, NoFrame
<1>7. CASE BeginSubscribe(w)
  <2>1. stage[w] = "new" /\ screen' = screen /\ UNCHANGED <<pc, captured, job>>
    BY <1>7 DEF BeginSubscribe, engineVars, workerVars
  <2>2. \/ stage'[w] = "gone"
        \/ stage'[w] = "asking" /\ born'[w] = screen
    BY <1>0, <1>7 DEF BeginSubscribe, TypeOK, ViewType, SentType
  <2>3. job # For("Refresh", w)
    BY <1>00, <2>1 DEF RefreshesAsked, For
  <2>4. QED
    BY <1>00, <2>1, <2>2, <2>3 DEF ViewFresh, Held
<1>8. QED
  BY <1>1, <1>2, <1>3, <1>4, <1>5, <1>6, <1>7 DEF Next, Worker, Stream, Client

\* The first frame a view is sent is no older than the screen was when it asked to
\* subscribe, whatever was published, queued or captured by then: this is what
\* `subscribe' refreshes for.
THEOREM FirstFrame == Spec => FirstFrameFresh
<1>1. Fresh => [\A v \in Views : SendFrame(v) => frame >= born[v]]_vars
  <2>1. SUFFICES ASSUME Fresh, NEW v \in Views, SendFrame(v) PROVE frame >= born[v]
    OBVIOUS
  <2>2. stage[v] \in Held
    BY <2>1 DEF SendFrame, Held
  <2>3. born[v] <= frame /\ TypeOK
    BY <2>1, <2>2 DEF Fresh, ViewFresh
  <2>4. born[v] \in Nat /\ frame \in Nat
    BY <2>3, ConstantsAssumption DEF TypeOK, SharedType, SentType, Frames, NoFrame
  <2>5. QED
    BY <2>3, <2>4
<1>2. QED
  BY <1>1, FreshInit, FreshStep, PTL DEF Spec, FirstFrameFresh
=============================================================================
