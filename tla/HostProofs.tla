----------------------------- MODULE HostProofs -----------------------------
(***************************************************************************)
(* Proofs about the multiplexer host of module Host, for any number of      *)
(* panes and clients, any faults and any number of attempts.                *)
(***************************************************************************)
EXTENDS Host, TLAPS

-----------------------------------------------------------------------------
(* The inductive invariant.                                                *)

\* The steps at which a client works on a pane the host has started.
Knows(cl) ==
    \/ cl.step \in (Creating \ {"request"}) \cup Ending \cup {"forget", "lookup", "attached"}
    \/ cl.step \in Updating /\ cl.op # "recover"

\* Which operation is at which step, and how often its update was tried.
StepOK(cl) ==
    /\ cl.step \in Creating \cup {"forget"} => cl.op \in {"create", "split"}
    /\ cl.step = "idle" => cl.op = "none"
    /\ cl.step = "sweep" => cl.op = "recover"
    /\ cl.step \in {"lookup", "attached"} => cl.op = "attach"
    /\ cl.step \in Updating \cup Ending => cl.op # "none"
    /\ cl.step \in Updating => cl.op # "attach" /\ cl.tries < MaxAttempts
    /\ cl.step \in {"idle", "sweep"} \cup Creating => cl.tries = 0
    /\ cl.op = "recover" /\ cl.step \in Ending => cl.tries = 0
    /\ Knows(cl) \/ cl.step = "request" => cl.pane \in Panes

Typed == TypeOK /\ \A c \in Clients : StepOK(client[c])

\* Nothing but a Create under way names a pane the host has not started.
Started == {p \in Panes : worker[p] # "none"}

Names(cl) ==
    /\ Knows(cl) => cl.pane \in Started
    /\ cl.base \cup cl.live \cup cl.exited \subseteq Started

Begun ==
    /\ registered \cup layout \cup drained \cup reported \subseteq Started
    /\ \A c \in Clients : Names(client[c])
    /\ \A c \in Clients : client[c].step = "request" => client[c].pane \notin Started
    /\ \A c, d \in Clients :
          c # d /\ client[c].step = "request" /\ client[d].step = "request" =>
              client[c].pane # client[d].pane

\* A client that is to write the layout read it as it is, unless it was written since.
ReadOK(cl) ==
    cl.step = "read" => cl.rev =< revision /\ (cl.rev = revision => cl.base = layout)
Reads == \A c \in Clients : ReadOK(client[c])

\* What has become of the program when its worker has stopped, and of the
\* drained panes as the host stops.
Ends ==
    /\ \A p \in Panes :
        /\ worker[p] # "none" => program[p] # "none"
        /\ worker[p] = "closed" => program[p] \in {"hungup", "ended"}
        /\ worker[p] = "stopped" => program[p] = "ended"
        /\ program[p] = "hungup" => worker[p] = "closed"
    /\ host = "serving" => drained = {}
    /\ host = "down" => \A p \in drained : Finished(p) \/ p \in unclosed

\* Every pane that runs is registered, or about to be; it is listed, or somebody
\* guards it: the client that created it, or one that closes it.  What could not be
\* closed needs neither.
Creator(c, p) == client[c].op \in {"create", "split"} /\ client[c].pane = p
Creates(c, p) == Creator(c, p) /\ client[c].step \in {"starting", "started", "hooked"}
Guard(c, p) ==
    \/ Creator(c, p) /\ client[c].step \notin {"idle", "done"}
    \/ client[c].op = "close" /\ client[c].pane = p /\ client[c].step \in Ending
Launching(p) == p \in unclosed \/ \E c \in Clients : Creates(c, p)
Guarded(p)   == p \in unclosed \/ \E c \in Clients : Guard(c, p)

ClosingOK(cl) ==
    /\ cl.step \in Ending /\ cl.op = "attach" => cl.pane \in reported
    /\ cl.step = "told" => worker[cl.pane] # "up"
    /\ cl.step = "removed" /\ ~stopping =>
           worker[cl.pane] # "up" \/ program[cl.pane] # "running" \/ cl.pane \in unclosed

Ended ==
    /\ \A p \in reported : program[p] # "running"
    /\ \A p \in Panes : hook[p] = "prune" => p \in reported
OneCreator == \A c, d \in Clients, p \in Panes : Creator(c, p) /\ Creator(d, p) => c = d
Closings == \A c \in Clients : ClosingOK(client[c])
Registered ==
    \A p \in Panes : worker[p] = "up" /\ ~stopping => p \in registered \/ Launching(p)
Guards ==
    \A p \in Panes :
        worker[p] = "up" /\ program[p] = "running" /\ ~stopping => p \in layout \/ Guarded(p)

\* A pane is registered before anybody lists it or begins to close it.
Apart ==
    /\ \A p \in registered \cup layout, c \in Clients : ~Creates(c, p)
    /\ \A c, d \in Clients :
          client[d].op = "close" /\ client[d].step \notin {"idle", "done"} =>
              ~Creates(c, client[d].pane)

Kept == Ended /\ OneCreator /\ Closings /\ Registered /\ Guards

Invariant == Typed /\ Begun /\ Reads /\ Ends
-----------------------------------------------------------------------------
(* Every variable keeps its type, and every client is at a step of its operation.       *)

\* A client that takes a well-formed state leaves all of them well formed.
LEMMA ClientTyped ==
    ASSUME Typed, NEW c \in Clients, NEW cl \in Client, StepOK(cl),
           client' = [client EXCEPT ![c] = cl]
    PROVE  client' \in [Clients -> Client] /\ \A d \in Clients : StepOK(client'[d])
  BY DEF Typed, TypeOK

\* A client that goes to a step its operation has leaves the states well formed.
LEMMA GotoTyped ==
    ASSUME Typed, NEW c \in Clients, NEW s \in Steps, Goto(c, s),
           StepOK([client[c] EXCEPT !.step = s])
    PROVE  client' \in [Clients -> Client] /\ \A d \in Clients : StepOK(client'[d])
<1> DEFINE cl == [client[c] EXCEPT !.step = s]
<1>1. cl \in Client
  BY DEF Typed, TypeOK, Client
<1>2. client' = [client EXCEPT ![c] = cl]
  BY DEF Goto
<1>3. StepOK(cl)
  OBVIOUS
<1> HIDE DEF cl
<1> QED
  BY <1>1, <1>2, <1>3, ClientTyped

\* A client that serves or ends its operation: what that asks of the step it goes to.
LEMMA StepTyped ==
    ASSUME Typed, NEW c \in Clients,
           NEW s \in {"started", "layout", "forget", "sweep", "done"} \cup Ending,
           Goto(c, s), client[c].op # "none", client[c].step # "idle",
           s \in {"started", "forget"} => client[c].op \in {"create", "split"},
           s = "sweep" => client[c].op = "recover",
           s = "layout" => client[c].op \in {"create", "split"},
           s \in {"started", "layout", "sweep"} => client[c].tries = 0,
           client[c].op = "recover" /\ s \in Ending => client[c].tries = 0,
           s \notin {"done", "sweep"} => client[c].pane \in Panes
    PROVE  client' \in [Clients -> Client] /\ \A d \in Clients : StepOK(client'[d])
<1> DEFINE cl == [client[c] EXCEPT !.step = s]
<1>1. client[c] \in Client
  BY DEF Typed, TypeOK
<1>2. /\ cl.op = client[c].op /\ cl.pane = client[c].pane
      /\ cl.tries = client[c].tries /\ cl.step = s
  BY <1>1 DEF Client
<1>3. s \in Steps
  BY DEF Steps, Creating, Updating, Ending
<1> HIDE DEF cl
<1>4. StepOK(cl)
  BY <1>2, HostAssumption DEF StepOK, Knows, Creating, Updating, Ending
<1> QED
  BY <1>3, <1>4, GotoTyped DEF cl

LEMMA TypedInit == Init => Typed
<1> SUFFICES ASSUME Init PROVE Typed
  OBVIOUS
<1>1. NewClient \in Client /\ StepOK(NewClient)
  BY HostAssumption DEF NewClient, StepOK, Knows, Client, Steps, Creating, Updating, Ending
<1> QED
  BY <1>1 DEF Init, Typed, TypeOK

LEMMA TypedStep == Typed /\ [Next]_vars => Typed'
<1> SUFFICES ASSUME Typed, [Next]_vars PROVE Typed'
  OBVIOUS
<1> USE HostAssumption DEF Typed
<1>1. ASSUME NEW c \in Clients, CreatePane(c) PROVE Typed'
  <2> DEFINE cl == [client[c] EXCEPT !.step = IF stopping THEN "done" ELSE "starting"]
  <2>1. client[c] \in Client /\ StepOK(client[c])
    BY DEF TypeOK
  <2>2. cl \in Client /\ StepOK(cl)
    <3>1. cl \in Client
      BY <1>1, <2>1 DEF CreatePane, TypeOK, StepOK, At, Client, Steps, Creating, Updating,
         Ending
    <3>2. StepOK(cl)
      BY <1>1, <2>1 DEF CreatePane, StepOK, Knows, At, Client, Steps, Creating, Updating, Ending
    <3> QED
      BY <3>1, <3>2
  <2>3. client' = [client EXCEPT ![c] = cl]
    BY <1>1 DEF CreatePane, Goto
  <2> HIDE DEF cl
  <2>4. client' \in [Clients -> Client] /\ \A d \in Clients : StepOK(client'[d])
    BY <2>2, <2>3, ClientTyped
  <2> QED
    BY <1>1, <2>4 DEF CreatePane, TypeOK, paneVars, layoutVars, stopVars
<1>2. ASSUME NEW c \in Clients, RefreshPane(c) PROVE Typed'
  <2>1. /\ client[c].op \in {"create", "split"} /\ client[c].tries = 0
        /\ client[c].pane \in Panes /\ client[c].step = "starting"
    BY <1>2 DEF RefreshPane, At, StepOK, Knows, Creating, TypeOK
  <2>2. Goto(c, "started") \/ Goto(c, "done")
    BY <1>2 DEF RefreshPane
  <2>3. client' \in [Clients -> Client] /\ \A d \in Clients : StepOK(client'[d])
    BY <2>1, <2>2, StepTyped DEF Ending
  <2>4. worker' \in [Panes -> {"none", "up", "closing", "closed", "stopping", "stopped"}]
    BY <1>2 DEF RefreshPane, TakesClose, IgnoresClose, Told, TypeOK
  <2>5. unclosed' \subseteq Panes
    BY <1>2, <2>1 DEF RefreshPane, TakesClose, IgnoresClose, GivesUp, TypeOK
  <2> QED
    BY <1>2, <2>3, <2>4, <2>5 DEF RefreshPane, TypeOK, layoutVars
<1>3. ASSUME NEW c \in Clients, RegisterHook(c) PROVE Typed'
  <2> DEFINE s == "hooked"
  <2>1. client[c] \in Client /\ StepOK(client[c])
    BY DEF TypeOK
  <2>2. s \in Steps
    BY DEF Steps, Creating, Updating, Ending
  <2>3. StepOK([client[c] EXCEPT !.step = s])
    <3> DEFINE cl == [client[c] EXCEPT !.step = s]
    <3>1. client[c].op \in {"create", "split"} /\ client[c].tries = 0 /\ client[c].pane \in Panes
      BY <1>3, <2>1 DEF RegisterHook, At, StepOK, Knows, Creating, Updating, Ending, Client
    <3>2. /\ cl.op = client[c].op /\ cl.pane = client[c].pane
          /\ cl.tries = client[c].tries /\ cl.step = s
      BY <2>1 DEF Client
    <3> HIDE DEF cl
    <3> QED
      BY <3>1, <3>2 DEF StepOK, Knows, Creating, Updating, Ending, cl
  <2>4. Goto(c, s)
    BY <1>3 DEF RegisterHook
  <2> HIDE DEF s
  <2>5. client' \in [Clients -> Client] /\ \A d \in Clients : StepOK(client'[d])
    BY <2>2, <2>3, <2>4, GotoTyped
  <2> QED
    BY <1>3, <2>5 DEF RegisterHook, TypeOK, paneVars, layoutVars, stopVars, Prune
<1>4. ASSUME NEW c \in Clients, InsertPane(c) PROVE Typed'
  BY <1>4 DEF InsertPane, TypeOK, StepOK, Knows, Client, Steps, Creating, Updating, Ending, At,
     Goto, paneVars, layoutVars, stopVars
<1>5. ASSUME NEW c \in Clients, AnswerCreate(c) PROVE Typed'
  <2>1. /\ client[c].op \in {"create", "split"} /\ client[c].tries = 0
        /\ client[c].pane \in Panes /\ client[c].step = "inserted"
    BY <1>5 DEF AnswerCreate, At, StepOK, Knows, Creating, TypeOK
  <2>2. \E s \in {"removed", "closing", "layout"} : Goto(c, s)
    BY <1>5 DEF AnswerCreate
  <2>3. client' \in [Clients -> Client] /\ \A d \in Clients : StepOK(client'[d])
    BY <2>1, <2>2, StepTyped DEF Ending
  <2>4. worker' \in [Panes -> {"none", "up", "closing", "closed", "stopping", "stopped"}]
    BY <1>5 DEF AnswerCreate, TakesClose, IgnoresClose, Told, TypeOK
  <2>5. unclosed' \subseteq Panes /\ registered' \subseteq Panes
    BY <1>5, <2>1 DEF AnswerCreate, TakesClose, IgnoresClose, GivesUp, TypeOK
  <2> QED
    BY <1>5, <2>3, <2>4, <2>5 DEF AnswerCreate, TypeOK, layoutVars
<1>6. ASSUME NEW c \in Clients, ReadLayout(c) PROVE Typed'
  <2>1. /\ client[c].op \notin {"none", "attach"} /\ client[c].step = "layout"
        /\ client[c].op # "recover" => client[c].pane \in Panes
        /\ client[c].tries < MaxAttempts /\ client[c] \in Client
    BY <1>6 DEF ReadLayout, At, StepOK, Knows, Updating, TypeOK
  <2>2. ASSUME Goto(c, UpdateFails(c))
        PROVE  client' \in [Clients -> Client] /\ \A d \in Clients : StepOK(client'[d])
    BY <2>1, <2>2, StepTyped DEF UpdateFails, Ending
  <2>3. ASSUME client' = [client EXCEPT ![c] =
                   [@ EXCEPT !.step = "read", !.base = layout, !.rev = revision]]
        PROVE  client' \in [Clients -> Client] /\ \A d \in Clients : StepOK(client'[d])
    <3> DEFINE cl == [client[c] EXCEPT !.step = "read", !.base = layout, !.rev = revision]
    <3>1. cl \in Client
      BY <2>1 DEF Client, TypeOK, Steps, Updating
    <3>2. /\ cl.step = "read" /\ cl.op = client[c].op /\ cl.pane = client[c].pane
          /\ cl.tries = client[c].tries
      BY <2>1 DEF Client
    <3>3. client' = [client EXCEPT ![c] = cl]
      BY <2>3
    <3> HIDE DEF cl
    <3>4. StepOK(cl)
      BY <2>1, <3>2 DEF StepOK, Knows, Creating, Updating, Ending
    <3> QED
      BY <3>1, <3>3, <3>4, ClientTyped
  <2>4. client' \in [Clients -> Client] /\ \A d \in Clients : StepOK(client'[d])
    BY <1>6, <2>2, <2>3 DEF ReadLayout
  <2> QED
    BY <1>6, <2>4 DEF ReadLayout, TypeOK, paneVars, layoutVars, stopVars
<1>7. ASSUME NEW c \in Clients, Write(c) PROVE Typed'
  <2>1. /\ client[c].op \notin {"none", "attach"} /\ client[c].step = "read"
        /\ client[c].op # "recover" => client[c].pane \in Panes
        /\ client[c] \in Client
    BY <1>7 DEF Write, At, StepOK, Knows, Updating, TypeOK
  <2>2. Goto(c, UpdateEnds(c)) \/ Goto(c, UpdateFails(c))
    BY <1>7 DEF Write
  <2>3. client' \in [Clients -> Client] /\ \A d \in Clients : StepOK(client'[d])
    <3>1. CASE Goto(c, UpdateEnds(c))
      BY <2>1, <3>1, StepTyped DEF UpdateEnds, Ending
    <3>2. CASE Goto(c, UpdateFails(c))
      BY <2>1, <3>2, StepTyped DEF UpdateFails, Ending
    <3> QED
      BY <2>2, <3>1, <3>2
  <2>4. layout' \subseteq Panes
    <3>1. client[c].base \subseteq Panes /\ client[c].live \subseteq Panes
      BY <2>1 DEF Client
    <3> QED
      BY <1>7, <2>1, <3>1 DEF Write, Edited
  <2>5. unclosed' \subseteq Panes
    BY <1>7, <2>1 DEF Write, GivesUp, TypeOK
  <2> QED
    BY <1>7, <2>3, <2>4, <2>5 DEF Write, TypeOK, paneVars
<1>8. ASSUME NEW c \in Clients, Retry(c) PROVE Typed'
  <2> DEFINE cl == [client[c] EXCEPT !.tries = client[c].tries + 1,
             !.step = IF client[c].tries + 1 < MaxAttempts THEN "layout"
                                                          ELSE UpdateFails(c)]
  <2>1. client[c] \in Client /\ StepOK(client[c])
    BY DEF TypeOK
  <2>2. cl \in Client /\ StepOK(cl)
    <3>1. cl \in Client
      <4>1. client[c].tries + 1 \in 0..MaxAttempts
        BY <1>8, <2>1 DEF Retry, StepOK, At, Client, Updating
      <4>2. (IF client[c].tries + 1 < MaxAttempts THEN "layout" ELSE UpdateFails(c)) \in Steps
        BY DEF UpdateFails, Steps, Updating
      <4> QED
        BY <2>1, <4>1, <4>2 DEF Client
    <3>2. StepOK(cl)
      BY <1>8, <2>1 DEF Retry, StepOK, Knows, At, Client, Steps, Creating, Updating, Ending,
         UpdateFails
    <3> QED
      BY <3>1, <3>2
  <2>3. client' = [client EXCEPT ![c] = cl]
    BY <1>8 DEF Retry, Goto
  <2> HIDE DEF cl
  <2>4. client' \in [Clients -> Client] /\ \A d \in Clients : StepOK(client'[d])
    BY <2>2, <2>3, ClientTyped
  <2> QED
    BY <1>8, <2>4 DEF Retry, TypeOK, paneVars, layoutVars, stopVars, UpdateFails
<1>9. ASSUME NEW c \in Clients, EndUpdate(c) PROVE Typed'
  BY <1>9 DEF EndUpdate, TypeOK, StepOK, Knows, Client, Steps, Creating, Updating, Ending, At,
     Goto, paneVars, layoutVars, stopVars, UpdateFails, UpdateEnds, Unedited, Impossible, Edited
<1>10. ASSUME NEW c \in Clients, Forget(c) PROVE Typed'
  <2>1. /\ client[c].op \in {"create", "split"} /\ client[c].step = "forget"
        /\ client[c].pane \in Panes
    BY <1>10 DEF Forget, At, StepOK, Knows, TypeOK
  <2>2. Goto(c, "done") \/ Goto(c, "closing")
    BY <1>10 DEF Forget
  <2>3. client' \in [Clients -> Client] /\ \A d \in Clients : StepOK(client'[d])
    BY <2>1, <2>2, StepTyped DEF Ending
  <2>4. unclosed' \subseteq Panes
    BY <1>10, <2>1 DEF Forget, GivesUp, TypeOK
  <2> QED
    BY <1>10, <2>3, <2>4 DEF Forget, TypeOK, paneVars, layoutVars
<1>11. ASSUME NEW c \in Clients, LookUpClosed(c) PROVE Typed'
  <2>1. /\ client[c].op # "none" /\ client[c].step = "closing" /\ client[c].pane \in Panes
        /\ client[c].op = "recover" => client[c].tries = 0
    BY <1>11 DEF LookUpClosed, At, StepOK, Knows, Ending, TypeOK
  <2>2. \E s \in {AfterClose(c), "noted", "removed"} : Goto(c, s)
    BY <1>11 DEF LookUpClosed
  <2>3. client' \in [Clients -> Client] /\ \A d \in Clients : StepOK(client'[d])
    BY <2>1, <2>2, StepTyped DEF Ending, AfterClose
  <2>4. unclosed' \subseteq Panes
    BY <1>11, <2>1 DEF LookUpClosed, GivesUp, TypeOK
  <2> QED
    BY <1>11, <2>3, <2>4 DEF LookUpClosed, TypeOK, paneVars, layoutVars
<1>12. ASSUME NEW c \in Clients, TellWorker(c) PROVE Typed'
  <2>1. /\ client[c].op # "none" /\ client[c].step = "noted" /\ client[c].pane \in Panes
        /\ client[c].op = "recover" => client[c].tries = 0
    BY <1>12 DEF TellWorker, At, StepOK, Knows, Ending, TypeOK
  <2>2. \E s \in {AfterClose(c), "told"} : Goto(c, s)
    BY <1>12 DEF TellWorker
  <2>3. client' \in [Clients -> Client] /\ \A d \in Clients : StepOK(client'[d])
    BY <2>1, <2>2, StepTyped DEF Ending, AfterClose
  <2>4. worker' \in [Panes -> {"none", "up", "closing", "closed", "stopping", "stopped"}]
    BY <1>12 DEF TellWorker, TakesClose, IgnoresClose, Told, TypeOK
  <2>5. unclosed' \subseteq Panes
    BY <1>12, <2>1 DEF TellWorker, TakesClose, IgnoresClose, GivesUp, TypeOK
  <2> QED
    BY <1>12, <2>3, <2>4, <2>5 DEF TellWorker, TypeOK, layoutVars
<1>13. ASSUME NEW c \in Clients, RemovePane(c) PROVE Typed'
  <2>1. /\ client[c].op # "none" /\ client[c].step = "told" /\ client[c].pane \in Panes
        /\ client[c].op = "recover" => client[c].tries = 0
    BY <1>13 DEF RemovePane, At, StepOK, Knows, Ending, TypeOK
  <2>2. Goto(c, "removed")
    BY <1>13 DEF RemovePane
  <2>3. client' \in [Clients -> Client] /\ \A d \in Clients : StepOK(client'[d])
    BY <2>1, <2>2, StepTyped DEF Ending
  <2> QED
    BY <1>13, <2>3 DEF RemovePane, TypeOK, paneVars, layoutVars, stopVars
<1>14. ASSUME NEW c \in Clients, PruneClosed(c) PROVE Typed'
  <2> DEFINE cl == [client[c] EXCEPT !.step = AfterClose(c)]
  <2>1. client[c] \in Client /\ StepOK(client[c])
    BY DEF TypeOK
  <2>2. cl \in Client /\ StepOK(cl)
    <3>1. cl \in Client
      BY <1>14, <2>1 DEF PruneClosed, TypeOK, StepOK, At, Client, Steps, Creating, Updating,
         Ending, AfterClose, Prune
    <3>2. StepOK(cl)
      BY <1>14, <2>1 DEF PruneClosed, StepOK, Knows, At, Client, Steps, Creating, Updating,
         Ending, AfterClose, Prune
    <3> QED
      BY <3>1, <3>2
  <2>3. client' = [client EXCEPT ![c] = cl]
    BY <1>14 DEF PruneClosed, Goto
  <2> HIDE DEF cl
  <2>4. client' \in [Clients -> Client] /\ \A d \in Clients : StepOK(client'[d])
    BY <2>2, <2>3, ClientTyped
  <2> QED
    BY <1>14, <2>4 DEF PruneClosed, TypeOK, paneVars, layoutVars, stopVars, AfterClose, Prune
<1>15. ASSUME NEW c \in Clients, Sweep(c) PROVE Typed'
  <2>1. ASSUME client' = [client EXCEPT ![c].step = "layout"]
       PROVE  client' \in [Clients -> Client] /\ \A d \in Clients : StepOK(client'[d])
    <3> DEFINE cl == [client[c] EXCEPT !.step = "layout"]
    <3>1. client[c] \in Client /\ StepOK(client[c])
      BY DEF TypeOK
    <3>2. cl \in Client
      BY <1>15, <2>1, <3>1 DEF Sweep, TypeOK, StepOK, At, Client, Steps, Creating, Updating,
         Ending
    <3>4. StepOK(cl)
      <4>1. client[c].op = "recover" /\ client[c].tries = 0
        BY <1>15, <3>1 DEF Sweep, At, StepOK
      <4>2. cl.step = "layout" /\ cl.op = "recover" /\ cl.tries = 0
        BY <3>1, <4>1 DEF Client
      <4> QED
        BY <4>2 DEF StepOK, Knows, Creating, Updating, Ending
    <3>3. client' = [client EXCEPT ![c] = cl]
      BY <1>15, <2>1 DEF Sweep, Goto
    <3> HIDE DEF cl
    <3> QED
      BY <3>2, <3>3, <3>4, ClientTyped
  <2>2. ASSUME NEW q \in client[c].exited,
              client' = [client EXCEPT ![c] =
                  [@ EXCEPT !.step = "closing", !.pane = q, !.exited = client[c].exited \ {q}]]
       PROVE  client' \in [Clients -> Client] /\ \A d \in Clients : StepOK(client'[d])
    <3> DEFINE cl == [client[c] EXCEPT !.step = "closing", !.pane = q,
                                       !.exited = client[c].exited \ {q}]
    <3>1. client[c] \in Client /\ StepOK(client[c])
      BY DEF TypeOK
    <3>2. cl \in Client
      BY <1>15, <2>2, <3>1 DEF Sweep, TypeOK, StepOK, At, Client, Steps, Creating, Updating,
         Ending
    <3>4. StepOK(cl)
      BY <1>15, <2>2, <3>1 DEF Sweep, StepOK, Knows, At, Client, Steps, Creating, Updating,
         Ending
    <3>3. client' = [client EXCEPT ![c] = cl]
      BY <1>15, <2>2 DEF Sweep, Goto
    <3> HIDE DEF cl
    <3> QED
      BY <3>2, <3>3, <3>4, ClientTyped
  <2> QED
    BY <1>15, <2>1, <2>2 DEF Sweep, Goto, TypeOK, paneVars, layoutVars, stopVars
<1>16. ASSUME NEW c \in Clients, Attach(c) PROVE Typed'
  BY <1>16 DEF Attach, TypeOK, StepOK, Knows, Client, Steps, Creating, Updating, Ending, At,
     Goto, paneVars, layoutVars, stopVars
<1>17. ASSUME NEW c \in Clients, SeeEnd(c) PROVE Typed'
  <2> DEFINE cl ==
        [client[c] EXCEPT !.step = IF worker[client[c].pane] = "stopped" THEN "done"
                                                                        ELSE "closing"]
  <2>1. client[c] \in Client /\ StepOK(client[c])
    BY DEF TypeOK
  <2>2. cl \in Client /\ StepOK(cl)
    <3>1. cl \in Client
      BY <1>17, <2>1 DEF SeeEnd, TypeOK, StepOK, At, Client, Steps, Creating, Updating, Ending
    <3>2. StepOK(cl)
      <4>1. client[c].pane \in Panes /\ client[c].op = "attach"
        BY <1>17, <2>1 DEF SeeEnd, At, StepOK, Knows
      <4>2. cl.step \in {"done", "closing"} /\ cl.op # "recover" /\ cl.op # "none" /\ cl.pane \in Panes
        BY <2>1, <4>1 DEF Client
      <4> QED
        BY <4>2 DEF StepOK, Knows, Creating, Updating, Ending
    <3> QED
      BY <3>1, <3>2
  <2>3. client' = [client EXCEPT ![c] = cl]
    BY <1>17 DEF SeeEnd, Goto
  <2> HIDE DEF cl
  <2>4. client' \in [Clients -> Client] /\ \A d \in Clients : StepOK(client'[d])
    BY <2>2, <2>3, ClientTyped
  <2> QED
    BY <1>17, <2>4 DEF SeeEnd, TypeOK, paneVars, layoutVars, stopVars
<1>18. ASSUME NEW c \in Clients, BeginRecover(c) PROVE Typed'
  <2> DEFINE cl == [client[c] EXCEPT !.op = "recover", !.step = "sweep",
             !.live = registered \ reported, !.exited = registered \cap reported]
  <2>1. client[c] \in Client /\ StepOK(client[c])
    BY DEF TypeOK
  <2>2. cl \in Client /\ StepOK(cl)
    <3>1. cl \in Client
      BY <1>18, <2>1 DEF BeginRecover, TypeOK, StepOK, At, Client, Steps, Creating, Updating,
         Ending
    <3>2. StepOK(cl)
      BY <1>18, <2>1 DEF BeginRecover, StepOK, Knows, At, Client, Steps, Creating, Updating,
         Ending
    <3> QED
      BY <3>1, <3>2
  <2>3. client' = [client EXCEPT ![c] = cl]
    BY <1>18 DEF BeginRecover, Goto
  <2> HIDE DEF cl
  <2>4. client' \in [Clients -> Client] /\ \A d \in Clients : StepOK(client'[d])
    BY <2>2, <2>3, ClientTyped
  <2> QED
    BY <1>18, <2>4 DEF BeginRecover, TypeOK, paneVars, layoutVars, stopVars
<1>19. ASSUME NEW c \in Clients, GiveUp(c) PROVE Typed'
  <2> DEFINE cl == [client[c] EXCEPT !.late = TRUE]
  <2>1. client[c] \in Client /\ StepOK(client[c])
    BY DEF TypeOK
  <2>2. cl \in Client /\ StepOK(cl)
    <3>1. cl \in Client
      BY <1>19, <2>1 DEF GiveUp, TypeOK, StepOK, At, Client, Steps, Creating, Updating, Ending
    <3>2. StepOK(cl)
      BY <1>19, <2>1 DEF GiveUp, StepOK, Knows, At, Client, Steps, Creating, Updating, Ending
    <3> QED
      BY <3>1, <3>2
  <2>3. client' = [client EXCEPT ![c] = cl]
    BY <1>19 DEF GiveUp, Goto
  <2> HIDE DEF cl
  <2>4. client' \in [Clients -> Client] /\ \A d \in Clients : StepOK(client'[d])
    BY <2>2, <2>3, ClientTyped
  <2> QED
    BY <1>19, <2>4 DEF GiveUp, TypeOK, paneVars, layoutVars, stopVars
<1>20. ASSUME NEW c \in Clients, Leave(c) PROVE Typed'
  <2> DEFINE cl == [client[c] EXCEPT !.left = TRUE]
  <2>1. client[c] \in Client /\ StepOK(client[c])
    BY DEF TypeOK
  <2>2. cl \in Client /\ StepOK(cl)
    <3>1. cl \in Client
      BY <1>20, <2>1 DEF Leave, TypeOK, StepOK, At, Client, Steps, Creating, Updating, Ending
    <3>2. StepOK(cl)
      BY <1>20, <2>1 DEF Leave, StepOK, Knows, At, Client, Steps, Creating, Updating, Ending
    <3> QED
      BY <3>1, <3>2
  <2>3. client' = [client EXCEPT ![c] = cl]
    BY <1>20 DEF Leave, Goto
  <2> HIDE DEF cl
  <2>4. client' \in [Clients -> Client] /\ \A d \in Clients : StepOK(client'[d])
    BY <2>2, <2>3, ClientTyped
  <2> QED
    BY <1>20, <2>4 DEF Leave, TypeOK, paneVars, layoutVars, stopVars
<1>21. ASSUME NEW c \in Clients, Detach(c) PROVE Typed'
  BY <1>21 DEF Detach, TypeOK, StepOK, Knows, Client, Steps, Creating, Updating, Ending, At,
     Goto, paneVars, layoutVars, stopVars
<1>22. ASSUME NEW c \in Clients, NEW p \in Panes, BeginCreate(c, p) PROVE Typed'
  <2>1. ASSUME "create" \in Ops,
              client' = [client EXCEPT ![c] =
                  [@ EXCEPT !.op = "create", !.step = "request", !.pane = p]]
       PROVE  client' \in [Clients -> Client] /\ \A d \in Clients : StepOK(client'[d])
    <3> DEFINE cl == [client[c] EXCEPT !.op = "create", !.step = "request", !.pane = p]
    <3>1. client[c] \in Client /\ StepOK(client[c])
      BY DEF TypeOK
    <3>2. cl \in Client
      BY <1>22, <2>1, <3>1 DEF BeginCreate, TypeOK, StepOK, At, Client, Steps, Creating,
         Updating, Ending
    <3>4. StepOK(cl)
      BY <1>22, <2>1, <3>1 DEF BeginCreate, StepOK, Knows, At, Client, Steps, Creating,
         Updating, Ending
    <3>3. client' = [client EXCEPT ![c] = cl]
      BY <1>22, <2>1 DEF BeginCreate, Goto
    <3> HIDE DEF cl
    <3> QED
      BY <3>2, <3>3, <3>4, ClientTyped
  <2>2. ASSUME "split" \in Ops, NEW q \in layout,
              client' = [client EXCEPT ![c] =
                  [@ EXCEPT !.op = "split", !.step = "request", !.pane = p, !.from = q]]
       PROVE  client' \in [Clients -> Client] /\ \A d \in Clients : StepOK(client'[d])
    <3> DEFINE cl == [client[c] EXCEPT !.op = "split", !.step = "request", !.pane = p, !.from = q]
    <3>1. client[c] \in Client /\ StepOK(client[c])
      BY DEF TypeOK
    <3>2. cl \in Client
      BY <1>22, <2>2, <3>1 DEF BeginCreate, TypeOK, StepOK, At, Client, Steps, Creating,
         Updating, Ending
    <3>4. StepOK(cl)
      BY <1>22, <2>2, <3>1 DEF BeginCreate, StepOK, Knows, At, Client, Steps, Creating,
         Updating, Ending
    <3>3. client' = [client EXCEPT ![c] = cl]
      BY <1>22, <2>2 DEF BeginCreate, Goto
    <3> HIDE DEF cl
    <3> QED
      BY <3>2, <3>3, <3>4, ClientTyped
  <2> QED
    BY <1>22, <2>1, <2>2 DEF BeginCreate, Goto, TypeOK, paneVars, layoutVars, stopVars
<1>23. ASSUME NEW c \in Clients, NEW p \in Panes, BeginClose(c, p) PROVE Typed'
  <2> DEFINE cl == [client[c] EXCEPT !.op = "close", !.step = "layout", !.pane = p]
  <2>1. client[c] \in Client /\ StepOK(client[c])
    BY DEF TypeOK
  <2>2. cl \in Client /\ StepOK(cl)
    <3>1. cl \in Client
      BY <1>23, <2>1 DEF BeginClose, TypeOK, StepOK, At, Client, Steps, Creating, Updating,
         Ending
    <3>2. StepOK(cl)
      BY <1>23, <2>1 DEF BeginClose, StepOK, Knows, At, Client, Steps, Creating, Updating,
         Ending
    <3> QED
      BY <3>1, <3>2
  <2>3. client' = [client EXCEPT ![c] = cl]
    BY <1>23 DEF BeginClose, Goto
  <2> HIDE DEF cl
  <2>4. client' \in [Clients -> Client] /\ \A d \in Clients : StepOK(client'[d])
    BY <2>2, <2>3, ClientTyped
  <2> QED
    BY <1>23, <2>4 DEF BeginClose, TypeOK, paneVars, layoutVars, stopVars
<1>24. ASSUME NEW c \in Clients, NEW p \in Panes, BeginAttach(c, p) PROVE Typed'
  <2> DEFINE cl == [client[c] EXCEPT !.op = "attach", !.step = "lookup", !.pane = p]
  <2>1. client[c] \in Client /\ StepOK(client[c])
    BY DEF TypeOK
  <2>2. cl \in Client /\ StepOK(cl)
    <3>1. cl \in Client
      BY <1>24, <2>1 DEF BeginAttach, TypeOK, StepOK, At, Client, Steps, Creating, Updating,
         Ending
    <3>2. StepOK(cl)
      BY <1>24, <2>1 DEF BeginAttach, StepOK, Knows, At, Client, Steps, Creating, Updating,
         Ending
    <3> QED
      BY <3>1, <3>2
  <2>3. client' = [client EXCEPT ![c] = cl]
    BY <1>24 DEF BeginAttach, Goto
  <2> HIDE DEF cl
  <2>4. client' \in [Clients -> Client] /\ \A d \in Clients : StepOK(client'[d])
    BY <2>2, <2>3, ClientTyped
  <2> QED
    BY <1>24, <2>4 DEF BeginAttach, TypeOK, paneVars, layoutVars, stopVars
<1>25. ASSUME NEW p \in Panes, ReportExit(p) PROVE Typed'
  BY <1>25 DEF ReportExit, TypeOK, StepOK, Knows, Client, Steps, Creating, Updating, Ending, At,
     Goto, paneVars, layoutVars, stopVars
<1>26. ASSUME NEW p \in Panes, NotifyExit(p) PROVE Typed'
  BY <1>26 DEF NotifyExit, TypeOK, StepOK, Knows, Client, Steps, Creating, Updating, Ending, At,
     Goto, paneVars, layoutVars, stopVars
<1>27. ASSUME NEW p \in Panes, PruneExited(p) PROVE Typed'
  BY <1>27 DEF PruneExited, TypeOK, StepOK, Knows, Client, Steps, Creating, Updating, Ending,
     At, Goto, paneVars, layoutVars, stopVars, Prune
<1>28. ASSUME NEW p \in Panes, EndClosed(p) PROVE Typed'
  BY <1>28 DEF EndClosed, TypeOK, StepOK, Knows, Client, Steps, Creating, Updating, Ending, At,
     Goto, paneVars, layoutVars, stopVars
<1>29. ASSUME NEW p \in Panes, EndStopped(p) PROVE Typed'
  BY <1>29 DEF EndStopped, TypeOK, StepOK, Knows, Client, Steps, Creating, Updating, Ending, At,
     Goto, paneVars, layoutVars, stopVars
<1>30. ASSUME NEW p \in Panes, Escalate(p) PROVE Typed'
  BY <1>30 DEF Escalate, TypeOK, StepOK, Knows, Client, Steps, Creating, Updating, Ending, At,
     Goto, paneVars, layoutVars, stopVars
<1>31. ASSUME NEW p \in Panes, ProgramExits(p) PROVE Typed'
  BY <1>31 DEF ProgramExits, TypeOK, StepOK, Knows, Client, Steps, Creating, Updating, Ending,
     At, Goto, paneVars, layoutVars, stopVars
<1>32. ASSUME Stop PROVE Typed'
  BY <1>32 DEF Stop, TypeOK, StepOK, Knows, Client, Steps, Creating, Updating, Ending, At, Goto,
     paneVars, layoutVars, stopVars
<1>33. ASSUME Drain PROVE Typed'
  BY <1>33 DEF Drain, TypeOK, StepOK, Knows, Client, Steps, Creating, Updating, Ending, At,
     Goto, paneVars, layoutVars, stopVars
<1>34. ASSUME Exit PROVE Typed'
  BY <1>34 DEF Exit, Finished, TypeOK, StepOK, Knows, Client, Steps, Creating, Updating, Ending,
     At, Goto,
     paneVars, layoutVars, stopVars
<1>35. CASE UNCHANGED vars
  BY <1>35 DEF TypeOK, StepOK, Knows, Client, Steps, Creating, Updating, Ending, At, Goto,
     paneVars, layoutVars, stopVars, vars
<1> QED
  BY <1>1, <1>2, <1>3, <1>4, <1>5, <1>6, <1>7, <1>8, <1>9, <1>10, <1>11,
     <1>12, <1>13, <1>14, <1>15, <1>16, <1>17, <1>18, <1>19, <1>20, <1>21,
     <1>22, <1>23, <1>24, <1>25, <1>26, <1>27, <1>28, <1>29, <1>30, <1>31,
     <1>32, <1>33, <1>34, <1>35 DEF Next, Serve, Begin, Work
-----------------------------------------------------------------------------
(* What the clients know of the layout they are to write.                   *)

LEMMA ReadsStep == Typed /\ Reads /\ [Next]_vars => Reads'
<1> SUFFICES ASSUME Typed /\ Reads, [Next]_vars PROVE Reads'
  OBVIOUS
<1> USE HostAssumption DEF Typed
<1>1. ASSUME NEW c \in Clients, CreatePane(c) PROVE Reads'
  BY <1>1 DEF CreatePane, Reads, ReadOK, At, Goto, TypeOK, Client, paneVars,
     layoutVars, stopVars
<1>2. ASSUME NEW c \in Clients, RefreshPane(c) PROVE Reads'
  BY <1>2 DEF RefreshPane, TakesClose, IgnoresClose, GivesUp, Reads, ReadOK, At, Goto, TypeOK,
     Client,
     paneVars, layoutVars, stopVars, Told
<1>3. ASSUME NEW c \in Clients, RegisterHook(c) PROVE Reads'
  BY <1>3 DEF RegisterHook, Reads, ReadOK, At, Goto, TypeOK, Client,
     paneVars, layoutVars, stopVars, Prune
<1>4. ASSUME NEW c \in Clients, InsertPane(c) PROVE Reads'
  BY <1>4 DEF InsertPane, Reads, ReadOK, At, Goto, TypeOK, Client, paneVars,
     layoutVars, stopVars
<1>5. ASSUME NEW c \in Clients, AnswerCreate(c) PROVE Reads'
  BY <1>5 DEF AnswerCreate, TakesClose, IgnoresClose, GivesUp, Reads, ReadOK, At, Goto, TypeOK,
     Client,
     paneVars, layoutVars, stopVars, Told
<1>6. ASSUME NEW c \in Clients, ReadLayout(c) PROVE Reads'
  <2>1. CASE Goto(c, UpdateFails(c))
    BY <1>6, <2>1 DEF ReadLayout, UpdateFails, Reads, ReadOK, Goto, TypeOK, Client, layoutVars
  <2>2. CASE client' = [client EXCEPT ![c] =
                 [@ EXCEPT !.step = "read", !.base = layout, !.rev = revision]]
    BY <1>6, <2>2 DEF ReadLayout, Reads, ReadOK, TypeOK, Client, layoutVars
  <2> QED
    BY <1>6, <2>1, <2>2 DEF ReadLayout
<1>7. ASSUME NEW c \in Clients, Write(c) PROVE Reads'
  BY <1>7 DEF Write, Lost, GivesUp, Reads, ReadOK, At, Goto, TypeOK, Client, paneVars,
     layoutVars, stopVars, Edited, UpdateFails, UpdateEnds, Wins,
     Impossible, Unedited
<1>8. ASSUME NEW c \in Clients, Retry(c) PROVE Reads'
  BY <1>8 DEF Retry, Reads, ReadOK, At, Goto, TypeOK, Client, paneVars,
     layoutVars, stopVars, UpdateFails
<1>9. ASSUME NEW c \in Clients, EndUpdate(c) PROVE Reads'
  BY <1>9 DEF EndUpdate, Reads, ReadOK, At, Goto, TypeOK, Client, paneVars,
     layoutVars, stopVars, UpdateFails, UpdateEnds, Unedited, Impossible,
     Edited
<1>10. ASSUME NEW c \in Clients, Forget(c) PROVE Reads'
  BY <1>10 DEF Forget, Lost, GivesUp, Reads, ReadOK, At, Goto, TypeOK, Client, paneVars,
     layoutVars, stopVars
<1>11. ASSUME NEW c \in Clients, LookUpClosed(c) PROVE Reads'
  BY <1>11 DEF LookUpClosed, Lost, GivesUp, Reads, ReadOK, At, Goto, TypeOK, Client,
     paneVars, layoutVars, stopVars, AfterClose
<1>12. ASSUME NEW c \in Clients, TellWorker(c) PROVE Reads'
  BY <1>12 DEF TellWorker, TakesClose, IgnoresClose, GivesUp, Reads, ReadOK, At, Goto, TypeOK,
     Client,
     paneVars, layoutVars, stopVars, AfterClose, Told
<1>13. ASSUME NEW c \in Clients, RemovePane(c) PROVE Reads'
  BY <1>13 DEF RemovePane, Reads, ReadOK, At, Goto, TypeOK, Client,
     paneVars, layoutVars, stopVars
<1>14. ASSUME NEW c \in Clients, PruneClosed(c) PROVE Reads'
  BY <1>14 DEF PruneClosed, Reads, ReadOK, At, Goto, TypeOK, Client,
     paneVars, layoutVars, stopVars, AfterClose, Prune
<1>15. ASSUME NEW c \in Clients, Sweep(c) PROVE Reads'
  <2> SUFFICES ASSUME NEW d \in Clients PROVE ReadOK(client[d])'
    BY DEF Reads
  <2>1. client'[d].step = "read" => client'[d] = client[d]
    <3>1. CASE Goto(c, "layout")
      BY <3>1 DEF Goto, TypeOK, Client
    <3>2. ASSUME NEW q \in client[c].exited,
                 client' = [client EXCEPT ![c] =
                     [@ EXCEPT !.step = "closing", !.pane = q,
                               !.exited = client[c].exited \ {q}]]
          PROVE  client'[d].step = "read" => client'[d] = client[d]
      BY <3>2 DEF TypeOK, Client
    <3> QED
      BY <1>15, <3>1, <3>2 DEF Sweep
  <2> QED
    BY <1>15, <2>1 DEF Sweep, Reads, ReadOK, layoutVars
<1>16. ASSUME NEW c \in Clients, Attach(c) PROVE Reads'
  BY <1>16 DEF Attach, Reads, ReadOK, At, Goto, TypeOK, Client, paneVars,
     layoutVars, stopVars
<1>17. ASSUME NEW c \in Clients, SeeEnd(c) PROVE Reads'
  BY <1>17 DEF SeeEnd, Reads, ReadOK, At, Goto, TypeOK, Client, paneVars,
     layoutVars, stopVars
<1>18. ASSUME NEW c \in Clients, BeginRecover(c) PROVE Reads'
  BY <1>18 DEF BeginRecover, Reads, ReadOK, At, Goto, TypeOK, Client,
     paneVars, layoutVars, stopVars
<1>19. ASSUME NEW c \in Clients, GiveUp(c) PROVE Reads'
  BY <1>19 DEF GiveUp, Reads, ReadOK, At, Goto, TypeOK, Client, paneVars,
     layoutVars, stopVars
<1>20. ASSUME NEW c \in Clients, Leave(c) PROVE Reads'
  BY <1>20 DEF Leave, Reads, ReadOK, At, Goto, TypeOK, Client, paneVars,
     layoutVars, stopVars
<1>21. ASSUME NEW c \in Clients, Detach(c) PROVE Reads'
  BY <1>21 DEF Detach, Reads, ReadOK, At, Goto, TypeOK, Client, paneVars,
     layoutVars, stopVars
<1>22. ASSUME NEW c \in Clients, NEW p \in Panes, BeginCreate(c, p) PROVE Reads'
  <2> SUFFICES ASSUME NEW d \in Clients PROVE ReadOK(client[d])'
    BY DEF Reads
  <2>1. client'[d].step = "read" => client'[d] = client[d]
    <3>1. CASE client' = [client EXCEPT ![c] =
                  [@ EXCEPT !.op = "create", !.step = "request", !.pane = p]]
      BY <3>1 DEF TypeOK, Client
    <3>2. ASSUME NEW q \in layout,
                 client' = [client EXCEPT ![c] =
                     [@ EXCEPT !.op = "split", !.step = "request", !.pane = p, !.from = q]]
          PROVE  client'[d].step = "read" => client'[d] = client[d]
      BY <3>2 DEF TypeOK, Client
    <3> QED
      BY <1>22, <3>1, <3>2 DEF BeginCreate
  <2> QED
    BY <1>22, <2>1 DEF BeginCreate, Reads, ReadOK, layoutVars
<1>23. ASSUME NEW c \in Clients, NEW p \in Panes, BeginClose(c, p) PROVE Reads'
  BY <1>23 DEF BeginClose, Reads, ReadOK, At, Goto, TypeOK, Client,
     paneVars, layoutVars, stopVars
<1>24. ASSUME NEW c \in Clients, NEW p \in Panes, BeginAttach(c, p) PROVE Reads'
  BY <1>24 DEF BeginAttach, Reads, ReadOK, At, Goto, TypeOK, Client,
     paneVars, layoutVars, stopVars
<1>25. ASSUME NEW p \in Panes, ReportExit(p) PROVE Reads'
  BY <1>25 DEF ReportExit, Reads, ReadOK, At, Goto, TypeOK, Client,
     paneVars, layoutVars, stopVars
<1>26. ASSUME NEW p \in Panes, NotifyExit(p) PROVE Reads'
  BY <1>26 DEF NotifyExit, Reads, ReadOK, At, Goto, TypeOK, Client,
     paneVars, layoutVars, stopVars
<1>27. ASSUME NEW p \in Panes, PruneExited(p) PROVE Reads'
  BY <1>27 DEF PruneExited, Reads, ReadOK, At, Goto, TypeOK, Client,
     paneVars, layoutVars, stopVars, Prune
<1>28. ASSUME NEW p \in Panes, EndClosed(p) PROVE Reads'
  BY <1>28 DEF EndClosed, Reads, ReadOK, At, Goto, TypeOK, Client, paneVars,
     layoutVars, stopVars
<1>29. ASSUME NEW p \in Panes, EndStopped(p) PROVE Reads'
  BY <1>29 DEF EndStopped, Reads, ReadOK, At, Goto, TypeOK, Client,
     paneVars, layoutVars, stopVars
<1>30. ASSUME NEW p \in Panes, Escalate(p) PROVE Reads'
  BY <1>30 DEF Escalate, Reads, ReadOK, At, Goto, TypeOK, Client, paneVars,
     layoutVars, stopVars
<1>31. ASSUME NEW p \in Panes, ProgramExits(p) PROVE Reads'
  BY <1>31 DEF ProgramExits, Reads, ReadOK, At, Goto, TypeOK, Client,
     paneVars, layoutVars, stopVars
<1>32. ASSUME Stop PROVE Reads'
  BY <1>32 DEF Stop, Reads, ReadOK, At, Goto, TypeOK, Client, paneVars,
     layoutVars, stopVars
<1>33. ASSUME Drain PROVE Reads'
  BY <1>33 DEF Drain, Reads, ReadOK, At, Goto, TypeOK, Client, paneVars,
     layoutVars, stopVars
<1>34. ASSUME Exit PROVE Reads'
  BY <1>34 DEF Exit, Finished, Reads, ReadOK, At, Goto, TypeOK, Client, paneVars,
     layoutVars, stopVars
<1>35. CASE UNCHANGED vars
  BY <1>35 DEF Reads, ReadOK, At, Goto, TypeOK, Client, paneVars,
     layoutVars, stopVars, vars
<1> QED
  BY <1>1, <1>2, <1>3, <1>4, <1>5, <1>6, <1>7, <1>8, <1>9, <1>10, <1>11,
     <1>12, <1>13, <1>14, <1>15, <1>16, <1>17, <1>18, <1>19, <1>20, <1>21,
     <1>22, <1>23, <1>24, <1>25, <1>26, <1>27, <1>28, <1>29, <1>30, <1>31,
     <1>32, <1>33, <1>34, <1>35 DEF Next, Serve, Begin, Work

-----------------------------------------------------------------------------
(* The panes that exist.                                                   *)

LEMMA BegunStep == Typed /\ Begun /\ [Next]_vars => Begun'
<1> SUFFICES ASSUME Typed /\ Begun, [Next]_vars PROVE Begun'
  OBVIOUS
<1> USE HostAssumption DEF Typed
<1>1. ASSUME NEW c \in Clients, CreatePane(c) PROVE Begun'
  <2> DEFINE q == client[c].pane
  <2>1. q \in Panes /\ q \notin Started
    BY <1>1 DEF CreatePane, At, StepOK, Begun
  <2>2. Started' \in {Started, Started \cup {q}} /\ UNCHANGED <<reported, registered, layout, drained>>
    BY <1>1, <2>1 DEF CreatePane, Started, TypeOK, layoutVars, stopVars
  <2>3. CASE stopping
    <3>1. Started' = Started /\ Goto(c, "done")
      BY <1>1, <2>3 DEF CreatePane, Started
    <3> QED
      BY <2>2, <3>1 DEF Goto, Begun, Names, Knows, TypeOK, Client, Creating, Updating, Ending
  <2>4. CASE ~stopping
    <3>1. Started' = Started \cup {q} /\ Goto(c, "starting")
      BY <1>1, <2>1, <2>4 DEF CreatePane, Started, TypeOK
    <3>2. \A d \in Clients \ {c} : client[d].step = "request" => client[d].pane # q
      BY <1>1 DEF CreatePane, At, Begun
    <3>3. \A d \in Clients :
             \/ client'[d] = client[d] /\ d # c
             \/ /\ d = c /\ client'[d].step = "starting" /\ client'[d].pane = q
                /\ client'[d].base = client[d].base
                /\ client'[d].live = client[d].live /\ client'[d].exited = client[d].exited
      BY <3>1 DEF Goto, TypeOK, Client
    <3> QED
      BY <2>2, <3>1, <3>2, <3>3 DEF Begun, Names, Knows, Creating, Updating, Ending
  <2> QED
    BY <2>3, <2>4
<1>2. ASSUME NEW c \in Clients, RefreshPane(c) PROVE Begun'
  <2>1. Started' = Started
    BY <1>2 DEF RefreshPane, TakesClose, IgnoresClose, GivesUp, Told, Started, At, TypeOK
  <2>2. /\ Goto(c, "started") \/ Goto(c, "done")
        /\ UNCHANGED <<reported, registered, layout, drained>>
    BY <1>2 DEF RefreshPane, TakesClose, IgnoresClose, GivesUp, layoutVars, stopVars
  <2>3. \A d \in Clients :
           \/ client'[d] = client[d]
           \/ /\ d = c /\ client'[d].step \in {"started", "done"}
              /\ client'[d].pane = client[d].pane /\ client'[d].base = client[d].base
              /\ client'[d].live = client[d].live /\ client'[d].exited = client[d].exited
    BY <2>2 DEF Goto, TypeOK, Client
  <2>4. client[c].pane \in Started
    BY <1>2 DEF RefreshPane, TakesClose, IgnoresClose, GivesUp, At, Begun, Names, Knows, Creating
  <2> QED
    BY <2>1, <2>2, <2>3, <2>4 DEF Begun, Names, Knows, Creating, Updating, Ending
<1>3. ASSUME NEW c \in Clients, RegisterHook(c) PROVE Begun'
  <2>1. Started' = Started
    BY <1>3 DEF RegisterHook, Started
  <2>2. Goto(c, "hooked") /\ UNCHANGED <<reported, registered, drained>> /\ layout' \subseteq layout
    BY <1>3 DEF RegisterHook, layoutVars, stopVars, Prune
  <2>3. \A d \in Clients :
           \/ client'[d] = client[d]
           \/ /\ d = c /\ client'[d].step = "hooked"
              /\ client'[d].pane = client[d].pane /\ client'[d].base = client[d].base
              /\ client'[d].live = client[d].live /\ client'[d].exited = client[d].exited
    BY <2>2 DEF Goto, TypeOK, Client
  <2>4. client[c].pane \in Started
    BY <1>3 DEF RegisterHook, At, Begun, Names, Knows, Creating
  <2> QED
    BY <2>1, <2>2, <2>3, <2>4 DEF Begun, Names, Knows, Creating, Updating, Ending
<1>4. ASSUME NEW c \in Clients, InsertPane(c) PROVE Begun'
  BY <1>4 DEF InsertPane, Begun, Started, Names, Knows, At, Goto, TypeOK,
     Client, Creating, Updating, Ending, paneVars, layoutVars, stopVars
<1>5. ASSUME NEW c \in Clients, AnswerCreate(c) PROVE Begun'
  <2>1. Started' = Started
    BY <1>5 DEF AnswerCreate, TakesClose, IgnoresClose, GivesUp, Started, Told, TypeOK
  <2>2. UNCHANGED <<reported, layout, drained>> /\ registered' \subseteq registered
    BY <1>5 DEF AnswerCreate, TakesClose, IgnoresClose, GivesUp, layoutVars, stopVars
  <2>3. \A d \in Clients :
           \/ client'[d] = client[d]
           \/ /\ d = c /\ client'[d].step \in {"removed", "closing", "layout"}
              /\ client'[d].pane = client[d].pane /\ client'[d].base = client[d].base
              /\ client'[d].live = client[d].live /\ client'[d].exited = client[d].exited
    BY <1>5 DEF AnswerCreate, TakesClose, IgnoresClose, GivesUp, Goto, TypeOK, Client
  <2>4. client[c].pane \in Started
    BY <1>5 DEF AnswerCreate, TakesClose, IgnoresClose, GivesUp, At, Begun, Names, Knows, Creating
  <2> QED
    BY <2>1, <2>2, <2>3, <2>4 DEF Begun, Names, Knows, Creating, Updating, Ending
<1>6. ASSUME NEW c \in Clients, ReadLayout(c) PROVE Begun'
  <2>1. Started' = Started /\ UNCHANGED <<reported, registered, layout, drained>>
    BY <1>6 DEF ReadLayout, Started, paneVars, layoutVars, stopVars
  <2>2. client[c].step = "layout" /\ client[c] \in Client /\ StepOK(client[c])
    BY <1>6 DEF ReadLayout, At, TypeOK
  <2>3. \A d \in Clients :
           \/ client'[d] = client[d]
           \/ /\ d = c /\ client'[d].step \in {"read", "forget", "done"}
              /\ client'[d].pane = client[d].pane /\ client'[d].op = client[d].op
              /\ client'[d].live = client[d].live /\ client'[d].exited = client[d].exited
              /\ client'[d].base \in {client[d].base, layout}
              /\ client'[d].step = "forget" => client[d].op # "recover"
    <3> DEFINE Goal ==
          \A d \in Clients :
           \/ client'[d] = client[d]
           \/ /\ d = c /\ client'[d].step \in {"read", "forget", "done"}
              /\ client'[d].pane = client[d].pane /\ client'[d].op = client[d].op
              /\ client'[d].live = client[d].live /\ client'[d].exited = client[d].exited
              /\ client'[d].base \in {client[d].base, layout}
              /\ client'[d].step = "forget" => client[d].op # "recover"
    <3>1. ASSUME Goto(c, UpdateFails(c)) PROVE Goal
      BY <2>2, <3>1 DEF UpdateFails, Goto, TypeOK, Client
    <3>2. ASSUME client' = [client EXCEPT ![c] =
                   [@ EXCEPT !.step = "read", !.base = layout, !.rev = revision]]
          PROVE  Goal
      BY <2>2, <3>2 DEF TypeOK, Client
    <3> QED
      BY <1>6, <3>1, <3>2 DEF ReadLayout
  <2>4. client[c].op # "recover" => client[c].pane \in Started
    BY <2>2 DEF Begun, Names, Knows, Updating
  <2> QED
    BY <2>1, <2>2, <2>3, <2>4 DEF Begun, Names, Knows, Creating, Updating, Ending
<1>7. ASSUME NEW c \in Clients, Write(c) PROVE Begun'
  BY <1>7, SMTT(60) DEF Write, Lost, GivesUp, Begun, Started, Names, Knows, At, Goto, TypeOK,
     Client,
     Creating, Updating, Ending, paneVars, layoutVars, stopVars, Edited,
     UpdateFails, UpdateEnds, Wins, Impossible, Unedited
<1>8. ASSUME NEW c \in Clients, Retry(c) PROVE Begun'
  BY <1>8 DEF Retry, Begun, Started, Names, Knows, At, Goto, TypeOK, Client,
     Creating, Updating, Ending, paneVars, layoutVars, stopVars, UpdateFails
<1>9. ASSUME NEW c \in Clients, EndUpdate(c) PROVE Begun'
  BY <1>9 DEF EndUpdate, Begun, Started, Names, Knows, At, Goto, TypeOK,
     Client, Creating, Updating, Ending, paneVars, layoutVars, stopVars,
     UpdateFails, UpdateEnds, Unedited, Impossible, Edited
<1>10. ASSUME NEW c \in Clients, Forget(c) PROVE Begun'
  BY <1>10 DEF Forget, Lost, GivesUp, Begun, Started, Names, Knows, At, Goto, TypeOK,
     Client, Creating, Updating, Ending, paneVars, layoutVars, stopVars
<1>11. ASSUME NEW c \in Clients, LookUpClosed(c) PROVE Begun'
  BY <1>11 DEF LookUpClosed, Lost, GivesUp, Begun, Started, Names, Knows, At, Goto, TypeOK,
     Client, Creating, Updating, Ending, paneVars, layoutVars, stopVars,
     AfterClose
<1>12. ASSUME NEW c \in Clients, TellWorker(c) PROVE Begun'
  <2>1. Started' = Started
    BY <1>12 DEF TellWorker, TakesClose, IgnoresClose, GivesUp, Told, Started, At, TypeOK
  <2>2. /\ Goto(c, "told") \/ Goto(c, AfterClose(c))
        /\ UNCHANGED <<reported, registered, layout, drained>>
    BY <1>12 DEF TellWorker, TakesClose, IgnoresClose, GivesUp, layoutVars, stopVars
  <2>3. \A d \in Clients :
           \/ client'[d] = client[d]
           \/ /\ d = c /\ client'[d].step \in {"told", "done", "sweep"}
              /\ client'[d].pane = client[d].pane /\ client'[d].base = client[d].base
              /\ client'[d].live = client[d].live /\ client'[d].exited = client[d].exited
    BY <2>2 DEF Goto, AfterClose, TypeOK, Client
  <2>4. client[c].pane \in Started
    BY <1>12 DEF TellWorker, TakesClose, IgnoresClose, GivesUp, At, Begun, Names, Knows, Ending
  <2> QED
    BY <2>1, <2>2, <2>3, <2>4 DEF Begun, Names, Knows, Creating, Updating, Ending
<1>13. ASSUME NEW c \in Clients, RemovePane(c) PROVE Begun'
  BY <1>13 DEF RemovePane, Begun, Started, Names, Knows, At, Goto, TypeOK,
     Client, Creating, Updating, Ending, paneVars, layoutVars, stopVars
<1>14. ASSUME NEW c \in Clients, PruneClosed(c) PROVE Begun'
  BY <1>14 DEF PruneClosed, Begun, Started, Names, Knows, At, Goto, TypeOK,
     Client, Creating, Updating, Ending, paneVars, layoutVars, stopVars,
     AfterClose, Prune
<1>15. ASSUME NEW c \in Clients, Sweep(c) PROVE Begun'
  <2>1. \A d \in Clients :
           \/ client'[d] = client[d]
           \/ /\ d = c /\ client'[d].step = "layout" /\ client'[d].op = "recover"
              /\ client'[d].base = client[d].base
              /\ client'[d].live = client[d].live /\ client'[d].exited = client[d].exited
           \/ /\ d = c /\ client'[d].step = "closing" /\ client'[d].pane \in client[d].exited
              /\ client'[d].base = client[d].base /\ client'[d].live = client[d].live
              /\ client'[d].exited \subseteq client[d].exited
    <3> DEFINE Goal ==
          \A d \in Clients :
             \/ client'[d] = client[d]
             \/ /\ d = c /\ client'[d].step = "layout" /\ client'[d].op = "recover"
                /\ client'[d].base = client[d].base
                /\ client'[d].live = client[d].live /\ client'[d].exited = client[d].exited
             \/ /\ d = c /\ client'[d].step = "closing" /\ client'[d].pane \in client[d].exited
                /\ client'[d].base = client[d].base /\ client'[d].live = client[d].live
                /\ client'[d].exited \subseteq client[d].exited
    <3>1. CASE Goto(c, "layout")
      <4>1. client[c].op = "recover"
        BY <1>15 DEF Sweep, At, StepOK
      <4> QED
        BY <3>1, <4>1 DEF Goto, TypeOK, Client
    <3>2. ASSUME NEW q \in client[c].exited,
                 client' = [client EXCEPT ![c] =
                     [@ EXCEPT !.step = "closing", !.pane = q,
                               !.exited = client[c].exited \ {q}]]
          PROVE  Goal
      BY <3>2 DEF TypeOK, Client
    <3> QED
      BY <1>15, <3>1, <3>2 DEF Sweep
  <2>2. Started' = Started /\ UNCHANGED <<reported, registered, layout, drained>>
    BY <1>15 DEF Sweep, Started, paneVars, layoutVars, stopVars
  <2> QED
    BY <2>1, <2>2 DEF Begun, Names, Knows, Creating, Updating, Ending
<1>16. ASSUME NEW c \in Clients, Attach(c) PROVE Begun'
  BY <1>16 DEF Attach, Begun, Started, Names, Knows, At, Goto, TypeOK,
     Client, Creating, Updating, Ending, paneVars, layoutVars, stopVars
<1>17. ASSUME NEW c \in Clients, SeeEnd(c) PROVE Begun'
  BY <1>17 DEF SeeEnd, Begun, Started, Names, Knows, At, Goto, TypeOK,
     Client, Creating, Updating, Ending, paneVars, layoutVars, stopVars
<1>18. ASSUME NEW c \in Clients, BeginRecover(c) PROVE Begun'
  BY <1>18 DEF BeginRecover, Begun, Started, Names, Knows, At, Goto, TypeOK,
     Client, Creating, Updating, Ending, paneVars, layoutVars, stopVars
<1>19. ASSUME NEW c \in Clients, GiveUp(c) PROVE Begun'
  BY <1>19 DEF GiveUp, Begun, Started, Names, Knows, At, Goto, TypeOK,
     Client, Creating, Updating, Ending, paneVars, layoutVars, stopVars
<1>20. ASSUME NEW c \in Clients, Leave(c) PROVE Begun'
  BY <1>20 DEF Leave, Begun, Started, Names, Knows, At, Goto, TypeOK,
     Client, Creating, Updating, Ending, paneVars, layoutVars, stopVars
<1>21. ASSUME NEW c \in Clients, Detach(c) PROVE Begun'
  BY <1>21 DEF Detach, Begun, Started, Names, Knows, At, Goto, TypeOK,
     Client, Creating, Updating, Ending, paneVars, layoutVars, stopVars
<1>22. ASSUME NEW c \in Clients, NEW p \in Panes, BeginCreate(c, p) PROVE Begun'
  <2>1. p \notin Started /\ \A d \in Clients : client[d].pane # p
    BY <1>22 DEF BeginCreate, Fresh, Started
  <2>2. \A d \in Clients :
           \/ client'[d] = client[d]
           \/ /\ d = c /\ client'[d].step = "request" /\ client'[d].pane = p
              /\ client'[d].base = client[d].base
              /\ client'[d].live = client[d].live /\ client'[d].exited = client[d].exited
    <3> DEFINE Goal ==
          \A d \in Clients :
             \/ client'[d] = client[d]
             \/ /\ d = c /\ client'[d].step = "request" /\ client'[d].pane = p
                /\ client'[d].base = client[d].base
                /\ client'[d].live = client[d].live /\ client'[d].exited = client[d].exited
    <3>1. CASE client' = [client EXCEPT ![c] =
                  [@ EXCEPT !.op = "create", !.step = "request", !.pane = p]]
      BY <3>1 DEF TypeOK, Client
    <3>2. ASSUME NEW q \in layout,
                 client' = [client EXCEPT ![c] =
                     [@ EXCEPT !.op = "split", !.step = "request", !.pane = p, !.from = q]]
          PROVE  Goal
      BY <3>2 DEF TypeOK, Client
    <3> QED
      BY <1>22, <3>1, <3>2 DEF BeginCreate
  <2>3. Started' = Started /\ UNCHANGED <<reported, registered, layout, drained>>
    BY <1>22 DEF BeginCreate, Started, paneVars, layoutVars, stopVars
  <2> QED
    BY <2>1, <2>2, <2>3 DEF Begun, Names, Knows, Creating, Updating, Ending
<1>23. ASSUME NEW c \in Clients, NEW p \in Panes, BeginClose(c, p) PROVE Begun'
  BY <1>23 DEF BeginClose, Begun, Started, Names, Knows, At, Goto, TypeOK,
     Client, Creating, Updating, Ending, paneVars, layoutVars, stopVars
<1>24. ASSUME NEW c \in Clients, NEW p \in Panes, BeginAttach(c, p) PROVE Begun'
  BY <1>24 DEF BeginAttach, Begun, Started, Names, Knows, At, Goto, TypeOK,
     Client, Creating, Updating, Ending, paneVars, layoutVars, stopVars
<1>25. ASSUME NEW p \in Panes, ReportExit(p) PROVE Begun'
  BY <1>25 DEF ReportExit, Running, Begun, Started, Names, Knows, TypeOK,
     layoutVars, stopVars
<1>26. ASSUME NEW p \in Panes, NotifyExit(p) PROVE Begun'
  BY <1>26 DEF NotifyExit, Begun, Started, Names, Knows, At, Goto, TypeOK,
     Client, Creating, Updating, Ending, paneVars, layoutVars, stopVars
<1>27. ASSUME NEW p \in Panes, PruneExited(p) PROVE Begun'
  BY <1>27 DEF PruneExited, Begun, Started, Names, Knows, At, Goto, TypeOK,
     Client, Creating, Updating, Ending, paneVars, layoutVars, stopVars,
     Prune
<1>28. ASSUME NEW p \in Panes, EndClosed(p) PROVE Begun'
  BY <1>28 DEF EndClosed, Begun, Started, Names, Knows, At, Goto, TypeOK,
     Client, Creating, Updating, Ending, paneVars, layoutVars, stopVars
<1>29. ASSUME NEW p \in Panes, EndStopped(p) PROVE Begun'
  BY <1>29 DEF EndStopped, Begun, Started, Names, Knows, At, Goto, TypeOK,
     Client, Creating, Updating, Ending, paneVars, layoutVars, stopVars
<1>30. ASSUME NEW p \in Panes, Escalate(p) PROVE Begun'
  BY <1>30 DEF Escalate, Begun, Started, Names, Knows, At, Goto, TypeOK,
     Client, Creating, Updating, Ending, paneVars, layoutVars, stopVars
<1>31. ASSUME NEW p \in Panes, ProgramExits(p) PROVE Begun'
  BY <1>31 DEF ProgramExits, Begun, Started, Names, Knows, At, Goto, TypeOK,
     Client, Creating, Updating, Ending, paneVars, layoutVars, stopVars
<1>32. ASSUME Stop PROVE Begun'
  BY <1>32 DEF Stop, Begun, Started, Names, Knows, At, Goto, TypeOK, Client,
     Creating, Updating, Ending, paneVars, layoutVars, stopVars
<1>33. ASSUME Drain PROVE Begun'
  BY <1>33 DEF Drain, Begun, Started, Names, Knows, At, Goto, TypeOK,
     Client, Creating, Updating, Ending, paneVars, layoutVars, stopVars
<1>34. ASSUME Exit PROVE Begun'
  BY <1>34 DEF Exit, Finished, Begun, Started, Names, Knows, At, Goto, TypeOK, Client,
     Creating, Updating, Ending, paneVars, layoutVars, stopVars
<1>35. CASE UNCHANGED vars
  BY <1>35 DEF Begun, Started, Names, Knows, At, Goto, TypeOK, Client,
     Creating, Updating, Ending, paneVars, layoutVars, stopVars, vars
<1> QED
  BY <1>1, <1>2, <1>3, <1>4, <1>5, <1>6, <1>7, <1>8, <1>9, <1>10, <1>11,
     <1>12, <1>13, <1>14, <1>15, <1>16, <1>17, <1>18, <1>19, <1>20, <1>21,
     <1>22, <1>23, <1>24, <1>25, <1>26, <1>27, <1>28, <1>29, <1>30, <1>31,
     <1>32, <1>33, <1>34, <1>35 DEF Next, Serve, Begin, Work

-----------------------------------------------------------------------------
(* How the panes end.                                                      *)

LEMMA EndsStep == Typed /\ Begun /\ Ends /\ [Next]_vars => Ends'
<1> SUFFICES ASSUME Typed /\ Begun /\ Ends, [Next]_vars PROVE Ends'
  OBVIOUS
<1> USE HostAssumption DEF Typed
<1>1. ASSUME NEW c \in Clients, CreatePane(c) PROVE Ends'
  <2>1. client[c].pane \in Panes /\ client[c].pane \notin drained
    BY <1>1 DEF CreatePane, At, StepOK, Begun
  <2>2. host # "down" /\ UNCHANGED <<host, drained>>
    BY <1>1 DEF CreatePane, At, stopVars
  <2>3. \A p \in Panes :
           \/ worker'[p] = worker[p] /\ program'[p] = program[p]
           \/ p = client[c].pane /\ worker'[p] = "up" /\ program'[p] = "running"
    BY <1>1, <2>1 DEF CreatePane, TypeOK
  <2> QED
    BY <2>1, <2>2, <2>3 DEF Ends, Finished, TypeOK
<1>2. ASSUME NEW c \in Clients, RefreshPane(c) PROVE Ends'
  BY <1>2 DEF RefreshPane, TakesClose, IgnoresClose, GivesUp, Ends, Finished, At, Goto, TypeOK,
     paneVars, layoutVars,
     stopVars, Told
<1>3. ASSUME NEW c \in Clients, RegisterHook(c) PROVE Ends'
  BY <1>3 DEF RegisterHook, Ends, Finished, At, Goto, TypeOK, paneVars, layoutVars,
     stopVars, Prune
<1>4. ASSUME NEW c \in Clients, InsertPane(c) PROVE Ends'
  BY <1>4 DEF InsertPane, Ends, Finished, At, Goto, TypeOK, paneVars, layoutVars,
     stopVars
<1>5. ASSUME NEW c \in Clients, AnswerCreate(c) PROVE Ends'
  BY <1>5 DEF AnswerCreate, TakesClose, IgnoresClose, GivesUp, Ends, Finished, At, Goto, TypeOK,
     paneVars, layoutVars,
     stopVars, Told
<1>6. ASSUME NEW c \in Clients, ReadLayout(c) PROVE Ends'
  BY <1>6 DEF ReadLayout, Lost, GivesUp, Ends, Finished, At, Goto, TypeOK, paneVars, layoutVars,
     stopVars, UpdateFails
<1>7. ASSUME NEW c \in Clients, Write(c) PROVE Ends'
  BY <1>7 DEF Write, Lost, GivesUp, Ends, Finished, At, Goto, TypeOK, paneVars, layoutVars,
     stopVars,
     Edited, UpdateFails, UpdateEnds, Wins, Impossible, Unedited
<1>8. ASSUME NEW c \in Clients, Retry(c) PROVE Ends'
  BY <1>8 DEF Retry, Ends, Finished, At, Goto, TypeOK, paneVars, layoutVars, stopVars,
     UpdateFails
<1>9. ASSUME NEW c \in Clients, EndUpdate(c) PROVE Ends'
  BY <1>9 DEF EndUpdate, Ends, Finished, At, Goto, TypeOK, paneVars, layoutVars,
     stopVars, UpdateFails, UpdateEnds, Unedited, Impossible, Edited
<1>10. ASSUME NEW c \in Clients, Forget(c) PROVE Ends'
  BY <1>10 DEF Forget, Lost, GivesUp, Ends, Finished, At, Goto, TypeOK, paneVars, layoutVars,
     stopVars
<1>11. ASSUME NEW c \in Clients, LookUpClosed(c) PROVE Ends'
  BY <1>11 DEF LookUpClosed, Lost, GivesUp, Ends, Finished, At, Goto, TypeOK, paneVars, layoutVars,
     stopVars, AfterClose
<1>12. ASSUME NEW c \in Clients, TellWorker(c) PROVE Ends'
  BY <1>12 DEF TellWorker, TakesClose, IgnoresClose, GivesUp, Ends, Finished, At, Goto, TypeOK,
     paneVars, layoutVars,
     stopVars, AfterClose, Told
<1>13. ASSUME NEW c \in Clients, RemovePane(c) PROVE Ends'
  BY <1>13 DEF RemovePane, Ends, Finished, At, Goto, TypeOK, paneVars, layoutVars,
     stopVars
<1>14. ASSUME NEW c \in Clients, PruneClosed(c) PROVE Ends'
  BY <1>14 DEF PruneClosed, Ends, Finished, At, Goto, TypeOK, paneVars, layoutVars,
     stopVars, AfterClose, Prune
<1>15. ASSUME NEW c \in Clients, Sweep(c) PROVE Ends'
  BY <1>15 DEF Sweep, Ends, Finished, At, Goto, TypeOK, paneVars, layoutVars, stopVars
<1>16. ASSUME NEW c \in Clients, Attach(c) PROVE Ends'
  BY <1>16 DEF Attach, Ends, Finished, At, Goto, TypeOK, paneVars, layoutVars,
     stopVars
<1>17. ASSUME NEW c \in Clients, SeeEnd(c) PROVE Ends'
  BY <1>17 DEF SeeEnd, Ends, Finished, At, Goto, TypeOK, paneVars, layoutVars,
     stopVars
<1>18. ASSUME NEW c \in Clients, BeginRecover(c) PROVE Ends'
  BY <1>18 DEF BeginRecover, Ends, Finished, At, Goto, TypeOK, paneVars, layoutVars,
     stopVars
<1>19. ASSUME NEW c \in Clients, GiveUp(c) PROVE Ends'
  BY <1>19 DEF GiveUp, Ends, Finished, At, Goto, TypeOK, paneVars, layoutVars,
     stopVars
<1>20. ASSUME NEW c \in Clients, Leave(c) PROVE Ends'
  BY <1>20 DEF Leave, Ends, Finished, At, Goto, TypeOK, paneVars, layoutVars, stopVars
<1>21. ASSUME NEW c \in Clients, Detach(c) PROVE Ends'
  BY <1>21 DEF Detach, Ends, Finished, At, Goto, TypeOK, paneVars, layoutVars,
     stopVars
<1>22. ASSUME NEW c \in Clients, NEW p \in Panes, BeginCreate(c, p) PROVE Ends'
  BY <1>22 DEF BeginCreate, Ends, Finished, At, Goto, TypeOK, paneVars, layoutVars,
     stopVars
<1>23. ASSUME NEW c \in Clients, NEW p \in Panes, BeginClose(c, p) PROVE Ends'
  BY <1>23 DEF BeginClose, Ends, Finished, At, Goto, TypeOK, paneVars, layoutVars,
     stopVars
<1>24. ASSUME NEW c \in Clients, NEW p \in Panes, BeginAttach(c, p) PROVE Ends'
  BY <1>24 DEF BeginAttach, Ends, Finished, At, Goto, TypeOK, paneVars, layoutVars,
     stopVars
<1>25. ASSUME NEW p \in Panes, ReportExit(p) PROVE Ends'
  BY <1>25 DEF ReportExit, Ends, Finished, At, Goto, TypeOK, paneVars, layoutVars,
     stopVars
<1>26. ASSUME NEW p \in Panes, NotifyExit(p) PROVE Ends'
  BY <1>26 DEF NotifyExit, Ends, Finished, At, Goto, TypeOK, paneVars, layoutVars,
     stopVars
<1>27. ASSUME NEW p \in Panes, PruneExited(p) PROVE Ends'
  BY <1>27 DEF PruneExited, Ends, Finished, At, Goto, TypeOK, paneVars, layoutVars,
     stopVars, Prune
<1>28. ASSUME NEW p \in Panes, EndClosed(p) PROVE Ends'
  BY <1>28 DEF EndClosed, Ends, Finished, At, Goto, TypeOK, paneVars, layoutVars,
     stopVars
<1>29. ASSUME NEW p \in Panes, EndStopped(p) PROVE Ends'
  BY <1>29 DEF EndStopped, Ends, Finished, At, Goto, TypeOK, paneVars, layoutVars,
     stopVars
<1>30. ASSUME NEW p \in Panes, Escalate(p) PROVE Ends'
  BY <1>30 DEF Escalate, Ends, Finished, At, Goto, TypeOK, paneVars, layoutVars,
     stopVars
<1>31. ASSUME NEW p \in Panes, ProgramExits(p) PROVE Ends'
  BY <1>31 DEF ProgramExits, Ends, Finished, At, Goto, TypeOK, paneVars, layoutVars,
     stopVars
<1>32. ASSUME Stop PROVE Ends'
  BY <1>32 DEF Stop, Ends, Finished, At, Goto, TypeOK, paneVars, layoutVars, stopVars
<1>33. ASSUME Drain PROVE Ends'
  BY <1>33 DEF Drain, Ends, Finished, At, Goto, TypeOK, paneVars, layoutVars, stopVars
<1>34. ASSUME Exit PROVE Ends'
  BY <1>34 DEF Exit, Finished, Ends, Finished, At, Goto, TypeOK, paneVars, layoutVars, stopVars
<1>35. CASE UNCHANGED vars
  BY <1>35 DEF Ends, Finished, At, Goto, TypeOK, paneVars, layoutVars, stopVars, vars
<1> QED
  BY <1>1, <1>2, <1>3, <1>4, <1>5, <1>6, <1>7, <1>8, <1>9, <1>10, <1>11,
     <1>12, <1>13, <1>14, <1>15, <1>16, <1>17, <1>18, <1>19, <1>20, <1>21,
     <1>22, <1>23, <1>24, <1>25, <1>26, <1>27, <1>28, <1>29, <1>30, <1>31,
     <1>32, <1>33, <1>34, <1>35 DEF Next, Serve, Begin, Work

-----------------------------------------------------------------------------
(* No pane is forgotten.                                                   *)

\* No client recovers: a recovery writes the layout without looking at it first
\* (the run host_recover shows what that costs).
Calm == "recover" \notin Ops

LEMMA CalmOps ==
    ASSUME Typed, Calm, NEW c \in Clients
    PROVE  client[c].op \in {"none", "create", "split", "close", "attach"}
<1>1. client[c].op \in Ops \cup {"none"}
  BY DEF Typed, TypeOK, Client
<1> QED
  BY <1>1, HostAssumption DEF Calm

LEMMA GotoEffect ==
    ASSUME Typed, NEW c \in Clients, NEW s, Goto(c, s)
    PROVE  \A d \in Clients :
               /\ client'[d].op = client[d].op /\ client'[d].pane = client[d].pane
               /\ client'[d].step = IF d = c THEN s ELSE client[d].step
  BY DEF Goto, Typed, TypeOK, Client

\* Who could not close a pane has said so for good.
LEMMA UnclosedGrows == [Next]_vars => unclosed \subseteq unclosed'
BY DEF Next, Serve, Begin, Work, CreatePane, RefreshPane, RegisterHook, InsertPane,
   AnswerCreate, ReadLayout, Write, Retry, EndUpdate, Forget, LookUpClosed, TellWorker,
   RemovePane, PruneClosed, Sweep, Attach, SeeEnd, BeginRecover, GiveUp, Leave, Detach,
   BeginCreate, BeginClose, BeginAttach, ReportExit, NotifyExit, PruneExited, EndClosed,
   EndStopped, Escalate, ProgramExits, Stop, Drain, Exit, TakesClose, IgnoresClose, GivesUp,
   stopVars, vars

\* Who is at work on a pane stays with it, unless it is done.
LEMMA LaunchingKept ==
    ASSUME NEW p \in Panes, Launching(p), unclosed \subseteq unclosed',
           \A d \in Clients : Creator(d, p) => Creator(d, p)',
           \A d \in Clients :
               Creator(d, p) /\ client[d].step \in {"starting", "started", "hooked"} =>
                   client'[d].step \in {"starting", "started", "hooked"}
    PROVE  Launching(p)'
  BY DEF Launching, Creates

LEMMA GuardedKept ==
    ASSUME NEW p \in Panes, Guarded(p), unclosed \subseteq unclosed',
           \A d \in Clients : Guard(d, p) => Guard(d, p)'
    PROVE  Guarded(p)'
  BY DEF Guarded

LEMMA KeptStep == Invariant /\ Kept /\ Apart /\ Calm /\ [Next]_vars => Kept'
<1> SUFFICES ASSUME Invariant, Kept, Apart, Calm, [Next]_vars PROVE Kept'
  OBVIOUS
<1>0. Typed /\ TypeOK /\ Begun /\ \A c \in Clients : StepOK(client[c]) /\ Names(client[c])
  BY DEF Invariant, Typed, Begun
<1>00. unclosed \subseteq unclosed'
  BY UnclosedGrows
<1> USE HostAssumption, <1>0, <1>00
<1>1. ASSUME NEW c \in Clients, CreatePane(c) PROVE Kept'
  <2> DEFINE q == client[c].pane
  <2>1. /\ q \in Panes /\ worker[q] = "none" /\ q \notin reported
        /\ client[c].step = "request" /\ Creator(c, q)
    BY <1>1 DEF CreatePane, At, StepOK, Begun, Started, Creator, Creating
  <2>2. /\ \A d \in Clients : client'[d].op = client[d].op /\ client'[d].pane = client[d].pane
        /\ \A d \in Clients : d # c => client'[d].step = client[d].step
        /\ client'[c].step = IF stopping THEN "done" ELSE "starting"
    BY <1>1, GotoEffect DEF CreatePane
  <2>3. /\ \A p \in Panes : worker'[p] = (IF p = q /\ ~stopping THEN "up" ELSE worker[p])
        /\ \A p \in Panes : program'[p] = (IF p = q /\ ~stopping THEN "running" ELSE program[p])
        /\ UNCHANGED <<hook, reported, registered, layout, stopping>>
    BY <1>1, <2>1 DEF CreatePane, TypeOK, layoutVars, stopVars
  <2>4. Ended'
    BY <2>1, <2>3 DEF Kept, Ended, TypeOK
  <2>5. OneCreator'
    BY <2>2 DEF Kept, OneCreator, Creator
  <2>6. Closings'
    BY <2>1, <2>2, <2>3 DEF Kept, Closings, ClosingOK, Names, Knows, Started, Creating,
       Updating, Ending, StepOK
  <2>7. Registered'
    <3> SUFFICES ASSUME NEW p \in Panes, worker'[p] = "up", ~stopping
                 PROVE  p \in registered \/ Launching(p)'
      BY <2>3 DEF Registered
    <3>1. CASE p = q
      BY <2>1, <2>2, <3>1 DEF Launching, Creates, Creator
    <3>2. CASE p # q /\ Launching(p)
      BY <2>1, <2>2, <3>2, LaunchingKept DEF Creator
    <3> QED
      BY <2>3, <3>1, <3>2 DEF Kept, Registered
  <2>8. Guards'
    <3> SUFFICES ASSUME NEW p \in Panes, worker'[p] = "up", program'[p] = "running", ~stopping
                 PROVE  p \in layout \/ Guarded(p)'
      BY <2>3 DEF Guards
    <3>1. CASE p = q
      BY <2>1, <2>2, <3>1 DEF Guarded, Guard, Creator, Ending
    <3>2. CASE p # q /\ Guarded(p)
      BY <2>1, <2>2, <3>2, GuardedKept DEF Guard, Creator, Ending
    <3> QED
      BY <2>3, <3>1, <3>2 DEF Kept, Guards
  <2> QED
    BY <2>4, <2>5, <2>6, <2>7, <2>8 DEF Kept
<1>2. ASSUME NEW c \in Clients, RefreshPane(c) PROVE Kept'
  <2> DEFINE q == client[c].pane
  <2>1. q \in Panes /\ client[c].step = "starting" /\ Creator(c, q)
    BY <1>2 DEF RefreshPane, TakesClose, IgnoresClose, GivesUp, At, StepOK, Knows, Creator, Creating
  <2>2. /\ \A d \in Clients : client'[d].op = client[d].op /\ client'[d].pane = client[d].pane
        /\ \A d \in Clients : d # c => client'[d].step = client[d].step
        /\ \/ client'[c].step = "started"
           \/ client'[c].step = "done" /\ (worker'[q] # "up" \/ q \in unclosed')
        /\ \A p \in Panes : worker'[p] = "up" => worker[p] = "up"
        /\ UNCHANGED <<program, hook, reported, registered, layout, stopping>>
    <3>1. UNCHANGED <<program, hook, reported, registered, layout, stopping>>
      BY <1>2 DEF RefreshPane, layoutVars
    <3>2. ASSUME NEW s, Goto(c, s)
          PROVE  /\ \A d \in Clients :
                       client'[d].op = client[d].op /\ client'[d].pane = client[d].pane
                 /\ \A d \in Clients : d # c => client'[d].step = client[d].step
                 /\ client'[c].step = s
      BY <3>2, GotoEffect
    <3>3. CASE Goto(c, "started") /\ UNCHANGED worker
      BY <3>1, <3>2, <3>3
    <3>4. CASE Goto(c, "done") /\ TakesClose(q)
      BY <2>1, <3>1, <3>2, <3>4 DEF TakesClose, Told, TypeOK
    <3>5. CASE Goto(c, "done") /\ IgnoresClose(q)
      BY <2>1, <3>1, <3>2, <3>5 DEF IgnoresClose, GivesUp
    <3> QED
      BY <1>2, <3>3, <3>4, <3>5 DEF RefreshPane
  <2>3. Ended'
    BY <2>2 DEF Kept, Ended
  <2>4. OneCreator'
    BY <2>2 DEF Kept, OneCreator, Creator
  <2>5. Closings'
    BY <2>1, <2>2 DEF Kept, Closings, ClosingOK, Names, Knows, Started, Creating, Updating,
       Ending, StepOK
  <2>6. Registered'
    <3> SUFFICES ASSUME NEW p \in Panes, worker'[p] = "up", ~stopping'
                 PROVE  p \in registered' \/ Launching(p)'
      BY DEF Registered
    <3>1. p \in registered \/ Launching(p)
      BY <2>1, <2>2 DEF Kept, Registered, TypeOK
    <3>2. CASE Launching(p) /\ p \notin unclosed'
      BY <2>1, <2>2, <3>2, LaunchingKept DEF Creator
    <3> QED
      BY <2>1, <2>2, <3>1, <3>2 DEF Launching, Guarded
  <2>7. Guards'
    <3> SUFFICES ASSUME NEW p \in Panes, worker'[p] = "up", program'[p] = "running", ~stopping'
                 PROVE  p \in layout' \/ Guarded(p)'
      BY DEF Guards
    <3>1. p \in layout \/ Guarded(p)
      BY <2>1, <2>2 DEF Kept, Guards, TypeOK
    <3>2. CASE Guarded(p) /\ p \notin unclosed'
      BY <2>1, <2>2, <3>2, GuardedKept DEF Guard, Creator, Ending
    <3> QED
      BY <2>1, <2>2, <3>1, <3>2 DEF Launching, Guarded
  <2> QED
    BY <2>3, <2>4, <2>5, <2>6, <2>7 DEF Kept
<1>3. ASSUME NEW c \in Clients, RegisterHook(c) PROVE Kept'
  <2> DEFINE q == client[c].pane
  <2>1. q \in Panes /\ client[c].step = "started"
    BY <1>3 DEF RegisterHook, At, StepOK, Knows, Creating
  <2>2. /\ \A d \in Clients : client'[d].op = client[d].op /\ client'[d].pane = client[d].pane
        /\ \A d \in Clients : d # c => client'[d].step = client[d].step
        /\ client'[c].step = "hooked"
        /\ \A p \in Panes : hook'[p] = "prune" => hook[p] = "prune"
        /\ \A p \in layout : p \in layout' \/ (p = q /\ q \in reported)
        /\ UNCHANGED <<worker, program, reported, registered, stopping>>
    BY <1>3, <2>1, GotoEffect DEF RegisterHook, Prune, TypeOK, layoutVars, stopVars
  <2>3. Ended'
    BY <2>2 DEF Kept, Ended
  <2>4. OneCreator'
    BY <2>2 DEF Kept, OneCreator, Creator
  <2>5. Closings'
    BY <2>1, <2>2 DEF Kept, Closings, ClosingOK, Names, Knows, Started, Creating, Updating,
       Ending, StepOK
  <2>6. Registered'
    <3> SUFFICES ASSUME NEW p \in Panes, worker'[p] = "up", ~stopping'
                 PROVE  p \in registered' \/ Launching(p)'
      BY DEF Registered
    <3>1. p \in registered \/ Launching(p)
      BY <2>1, <2>2 DEF Kept, Registered, TypeOK
    <3>2. CASE Launching(p)
      BY <2>1, <2>2, <3>2, LaunchingKept DEF Creator
    <3> QED
      BY <2>1, <2>2, <3>1, <3>2
  <2>7. Guards'
    <3> SUFFICES ASSUME NEW p \in Panes, worker'[p] = "up", program'[p] = "running", ~stopping'
                 PROVE  p \in layout' \/ Guarded(p)'
      BY DEF Guards
    <3>1. p \in layout \/ Guarded(p)
      BY <2>1, <2>2 DEF Kept, Guards, TypeOK
    <3>2. CASE Guarded(p)
      BY <2>1, <2>2, <3>2, GuardedKept DEF Guard, Creator, Ending
    <3> QED
      BY <2>1, <2>2, <3>1, <3>2 DEF Kept, Ended
  <2> QED
    BY <2>3, <2>4, <2>5, <2>6, <2>7 DEF Kept
<1>4. ASSUME NEW c \in Clients, InsertPane(c) PROVE Kept'
  <2>1. Ended'
    BY <1>4 DEF InsertPane, Ended, Kept, At, Goto, TypeOK, Client, paneVars,
       layoutVars, stopVars
  <2>2. OneCreator'
    BY <1>4 DEF InsertPane, OneCreator, Creator, Kept, Ended, At, Goto,
       TypeOK, Client, paneVars, layoutVars, stopVars
  <2>3. Closings'
    BY <1>4 DEF InsertPane, Closings, ClosingOK, Ending, AfterClose, Kept,
       Ended, At, Goto, TypeOK, Client, paneVars, layoutVars, stopVars
  <2>4. Registered'
    BY <1>4 DEF InsertPane, Registered, Launching, Creates, Creator, Kept, Ended, At,
       Goto, TypeOK, Client, paneVars, layoutVars, stopVars
  <2>5. Guards'
    BY <1>4 DEF InsertPane, Guards, Guarded, Guard, Creator, Ending, Kept, Ended, At, Goto,
       TypeOK, Client, paneVars, layoutVars, stopVars
  <2> QED
    BY <2>1, <2>2, <2>3, <2>4, <2>5 DEF Kept
<1>5. ASSUME NEW c \in Clients, AnswerCreate(c) PROVE Kept'
  <2> DEFINE q == client[c].pane
  <2>1. q \in Panes /\ client[c].step = "inserted" /\ Creator(c, q)
    BY <1>5 DEF AnswerCreate, TakesClose, IgnoresClose, GivesUp, At, StepOK, Knows, Creator,
       Creating
  <2>2. /\ \A d \in Clients : client'[d].op = client[d].op /\ client'[d].pane = client[d].pane
        /\ \A d \in Clients : d # c => client'[d].step = client[d].step
        /\ client'[c].step \in {"removed", "closing", "layout"}
        /\ client'[c].step = "removed" => worker'[q] # "up" \/ q \in unclosed'
        /\ \A p \in Panes : worker'[p] = "up" => worker[p] = "up"
        /\ \A p \in registered :
              \/ p \in registered'
              \/ p = q /\ (worker'[q] # "up" \/ q \in unclosed')
        /\ UNCHANGED <<program, hook, reported, layout, stopping>>
    <3>1. CASE client[c].left
      <4>1. /\ \A d \in Clients :
                  client'[d].op = client[d].op /\ client'[d].pane = client[d].pane
            /\ \A d \in Clients : d # c => client'[d].step = client[d].step
            /\ client'[c].step = "removed"
        BY <1>5, <3>1, GotoEffect DEF AnswerCreate
      <4>2. /\ UNCHANGED <<program, hook, reported, layout, stopping>>
            /\ registered' = registered \ {q}
        BY <1>5, <3>1 DEF AnswerCreate, layoutVars
      <4>3. /\ worker'[q] # "up" \/ q \in unclosed'
            /\ \A p \in Panes : worker'[p] = "up" => worker[p] = "up"
        BY <1>5, <2>1, <3>1 DEF AnswerCreate, TakesClose, IgnoresClose, GivesUp, Told, TypeOK
      <4> QED
        BY <4>1, <4>2, <4>3
    <3>2. CASE ~client[c].left
      BY <1>5, <2>1, <3>2, GotoEffect DEF AnswerCreate, TakesClose, IgnoresClose, GivesUp,
         layoutVars, stopVars
    <3> QED
      BY <3>1, <3>2
  <2>3. Ended'
    BY <2>2 DEF Kept, Ended
  <2>4. OneCreator'
    BY <2>2 DEF Kept, OneCreator, Creator
  <2>5. Closings'
    BY <2>1, <2>2 DEF Kept, Closings, ClosingOK, Creator, Names, Knows, Started, Creating,
       Updating, Ending, StepOK
  <2>6. Registered'
    <3> SUFFICES ASSUME NEW p \in Panes, worker'[p] = "up", ~stopping'
                 PROVE  p \in registered' \/ Launching(p)'
      BY DEF Registered
    <3>1. p \in registered \/ Launching(p)
      BY <2>1, <2>2 DEF Kept, Registered, TypeOK
    <3>2. CASE Launching(p) /\ p \notin unclosed'
      BY <2>1, <2>2, <3>2, LaunchingKept DEF Creator
    <3> QED
      BY <2>1, <2>2, <3>1, <3>2 DEF Launching, Guarded
  <2>7. Guards'
    <3> SUFFICES ASSUME NEW p \in Panes, worker'[p] = "up", program'[p] = "running", ~stopping'
                 PROVE  p \in layout' \/ Guarded(p)'
      BY DEF Guards
    <3>1. p \in layout \/ Guarded(p)
      BY <2>1, <2>2 DEF Kept, Guards, TypeOK
    <3>2. CASE Guarded(p) /\ p \notin unclosed'
      BY <2>1, <2>2, <3>2, GuardedKept DEF Guard, Creator, Ending
    <3> QED
      BY <2>1, <2>2, <3>1, <3>2 DEF Launching, Guarded
  <2> QED
    BY <2>3, <2>4, <2>5, <2>6, <2>7 DEF Kept
<1>6. ASSUME NEW c \in Clients, ReadLayout(c) PROVE Kept'
  <2>1. client[c].step = "layout" /\ client[c] \in Client
    BY <1>6 DEF ReadLayout, At, TypeOK
  <2>2. /\ \A d \in Clients : client'[d].op = client[d].op /\ client'[d].pane = client[d].pane
        /\ \A d \in Clients : d # c => client'[d].step = client[d].step
        /\ client'[c].step \in {"read", "forget", "done"}
        /\ client'[c].step = "done" => client[c].op \notin {"create", "split"}
        /\ UNCHANGED <<worker, program, hook, reported, registered, layout, stopping>>
    <3>1. UNCHANGED <<worker, program, hook, reported, registered, layout, stopping>>
      BY <1>6 DEF ReadLayout, paneVars, layoutVars, stopVars
    <3>2. CASE Goto(c, UpdateFails(c))
      <4>1. /\ \A d \in Clients :
                  client'[d].op = client[d].op /\ client'[d].pane = client[d].pane
            /\ \A d \in Clients : d # c => client'[d].step = client[d].step
            /\ client'[c].step = UpdateFails(c)
        BY <3>2, GotoEffect
      <4> QED
        BY <3>1, <4>1 DEF UpdateFails
    <3>3. CASE client' = [client EXCEPT ![c] =
                   [@ EXCEPT !.step = "read", !.base = layout, !.rev = revision]]
      BY <2>1, <3>1, <3>3 DEF TypeOK, Client
    <3> QED
      BY <1>6, <3>2, <3>3 DEF ReadLayout
  <2>3. Ended'
    BY <2>2 DEF Kept, Ended
  <2>4. OneCreator'
    BY <2>2 DEF Kept, OneCreator, Creator
  <2>5. Closings'
    BY <2>1, <2>2 DEF Kept, Closings, ClosingOK, Ending
  <2>6. Registered'
    <3> SUFFICES ASSUME NEW p \in Panes, worker'[p] = "up", ~stopping'
                 PROVE  p \in registered' \/ Launching(p)'
      BY DEF Registered
    <3>1. p \in registered \/ Launching(p)
      BY <2>2 DEF Kept, Registered
    <3>2. CASE Launching(p)
      BY <2>1, <2>2, <3>2, LaunchingKept DEF Creator
    <3> QED
      BY <2>2, <3>1, <3>2
  <2>7. Guards'
    <3> SUFFICES ASSUME NEW p \in Panes, worker'[p] = "up", program'[p] = "running", ~stopping'
                 PROVE  p \in layout' \/ Guarded(p)'
      BY DEF Guards
    <3>1. p \in layout \/ Guarded(p)
      BY <2>2 DEF Kept, Guards
    <3>2. CASE Guarded(p)
      BY <2>1, <2>2, <3>2, GuardedKept DEF Guard, Creator, Ending
    <3> QED
      BY <2>2, <3>1, <3>2
  <2> QED
    BY <2>3, <2>4, <2>5, <2>6, <2>7 DEF Kept
<1>7. ASSUME NEW c \in Clients, Write(c) PROVE Kept'
  <2>1. client[c].step = "read" /\ client[c].rev = revision /\ client[c].base = layout
    BY <1>7 DEF Write, Lost, GivesUp, At, Wins, Invariant, Reads, ReadOK
  <2>2. client[c].op \in {"create", "split", "close"} /\ client[c].pane \in Panes
    BY <2>1, CalmOps DEF StepOK, Knows, Updating
  <2>3. /\ \A d \in Clients : client'[d].op = client[d].op /\ client'[d].pane = client[d].pane
        /\ \A d \in Clients : d # c => client'[d].step = client[d].step
        /\ client'[c].step \in {"done", "closing", "forget"}
        /\ client'[c].step = "closing" => client[c].op = "close"
        /\ client[c].op = "close" =>
              client'[c].step = "closing" \/ client[c].pane \in unclosed'
        /\ UNCHANGED <<worker, program, hook, reported, registered, stopping>>
    <3>1. UNCHANGED <<worker, program, hook, reported, registered, stopping>>
      BY <1>7 DEF Write, paneVars
    <3>2. ASSUME NEW s, Goto(c, s)
          PROVE  /\ \A d \in Clients :
                       client'[d].op = client[d].op /\ client'[d].pane = client[d].pane
                 /\ \A d \in Clients : d # c => client'[d].step = client[d].step
                 /\ client'[c].step = s
      BY <3>2, GotoEffect
    <3>3. CASE Goto(c, UpdateEnds(c))
      BY <3>1, <3>2, <3>3 DEF UpdateEnds
    <3>4. CASE /\ Goto(c, UpdateFails(c))
               /\ client[c].op = "close" => client[c].pane \in unclosed'
      BY <3>1, <3>2, <3>4 DEF UpdateFails
    <3> QED
      BY <1>7, <3>3, <3>4 DEF Write, GivesUp
  <2>4. layout' = IF client[c].op = "close" THEN layout \ {client[c].pane}
                                            ELSE layout \cup {client[c].pane}
    BY <1>7, <2>1, <2>2 DEF Write, Lost, GivesUp, Edited
  <2>5. Ended'
    BY <2>3 DEF Kept, Ended
  <2>6. OneCreator'
    BY <2>3 DEF Kept, OneCreator, Creator
  <2>7. Closings'
    BY <2>1, <2>2, <2>3 DEF Kept, Closings, ClosingOK, Names, Knows, Started, Creating,
       Updating, Ending, StepOK
  <2>8. Registered'
    <3> SUFFICES ASSUME NEW p \in Panes, worker'[p] = "up", ~stopping'
                 PROVE  p \in registered' \/ Launching(p)'
      BY DEF Registered
    <3>1. p \in registered \/ Launching(p)
      BY <2>1, <2>3 DEF Kept, Registered, TypeOK
    <3>2. CASE Launching(p) /\ p \notin unclosed'
      BY <2>1, <2>3, <3>2, LaunchingKept DEF Creator
    <3> QED
      BY <2>1, <2>3, <3>1, <3>2 DEF Launching, Guarded
  <2>9. Guards'
    <3> SUFFICES ASSUME NEW p \in Panes, worker[p] = "up", program[p] = "running", ~stopping
                 PROVE  p \in layout' \/ Guarded(p)'
      BY <2>3 DEF Guards
    <3>1. p \in layout \/ Guarded(p)
      BY DEF Kept, Guards
    <3>2. CASE p = client[c].pane
      BY <2>2, <2>3, <2>4, <3>2 DEF Guarded, Guard, Creator, Ending
    <3>3. CASE p # client[c].pane /\ Guarded(p) /\ p \notin unclosed'
      BY <2>3, <3>3, GuardedKept DEF Guard, Creator, Ending
    <3> QED
      BY <2>4, <3>1, <3>2, <3>3 DEF Launching, Guarded
  <2> QED
    BY <2>5, <2>6, <2>7, <2>8, <2>9 DEF Kept
<1>8. ASSUME NEW c \in Clients, Retry(c) PROVE Kept'
  <2>1. Ended'
    BY <1>8 DEF Retry, Ended, Kept, At, Goto, TypeOK, Client, paneVars,
       layoutVars, stopVars, UpdateFails
  <2>2. OneCreator'
    BY <1>8 DEF Retry, OneCreator, Creator, Kept, Ended, At, Goto, TypeOK,
       Client, paneVars, layoutVars, stopVars, UpdateFails
  <2>3. Closings'
    BY <1>8 DEF Retry, Closings, ClosingOK, Ending, AfterClose, Kept, Ended,
       At, Goto, TypeOK, Client, paneVars, layoutVars, stopVars, UpdateFails
  <2>4. Registered'
    BY <1>8 DEF Retry, Registered, Launching, Creates, Creator, Kept, Ended, At,
       Goto, TypeOK, Client, paneVars, layoutVars, stopVars, UpdateFails
  <2>5. Guards'
    BY <1>8 DEF Retry, Guards, Guarded, Guard, Creator, Ending, Kept, Ended, At, Goto,
       TypeOK, Client, paneVars, layoutVars, stopVars, UpdateFails
  <2> QED
    BY <2>1, <2>2, <2>3, <2>4, <2>5 DEF Kept
<1>9. ASSUME NEW c \in Clients, EndUpdate(c) PROVE Kept'
  <2>1. Ended'
    BY <1>9 DEF EndUpdate, Ended, Kept, At, Goto, TypeOK, Client, paneVars,
       layoutVars, stopVars, UpdateFails, UpdateEnds, Unedited, Impossible,
       Edited
  <2>2. OneCreator'
    BY <1>9 DEF EndUpdate, OneCreator, Creator, Kept, Ended, At, Goto,
       TypeOK, Client, paneVars, layoutVars, stopVars, UpdateFails,
       UpdateEnds, Unedited, Impossible, Edited
  <2>3. Closings'
    BY <1>9 DEF EndUpdate, Closings, ClosingOK, Ending, AfterClose, Kept,
       Ended, At, Goto, TypeOK, Client, paneVars, layoutVars, stopVars,
       UpdateFails, UpdateEnds, Unedited, Impossible, Edited
  <2>4. Registered'
    BY <1>9 DEF EndUpdate, Registered, Launching, Creates, Creator, Kept, Ended, At,
       Goto, TypeOK, Client, paneVars, layoutVars, stopVars, UpdateFails,
       UpdateEnds, Unedited, Impossible, Edited
  <2>5. Guards'
    BY <1>9 DEF EndUpdate, Guards, Guarded, Guard, Creator, Ending, Kept, Ended, At, Goto,
       TypeOK, Client, paneVars, layoutVars, stopVars, UpdateFails,
       UpdateEnds, Unedited, Impossible, Edited
  <2> QED
    BY <2>1, <2>2, <2>3, <2>4, <2>5 DEF Kept
<1>10. ASSUME NEW c \in Clients, Forget(c) PROVE Kept'
  <2>1. client[c].pane \in Panes /\ client[c].step = "forget" /\ client[c].op \in {"create", "split"}
    BY <1>10 DEF Forget, Lost, GivesUp, At, StepOK, Knows
  <2>2. /\ \A d \in Clients : client'[d].op = client[d].op /\ client'[d].pane = client[d].pane
        /\ \A d \in Clients : d # c => client'[d].step = client[d].step
        /\ \/ client'[c].step = "closing"
           \/ /\ client'[c].step = "done"
              /\ stopping \/ client[c].pane \in layout \/ client[c].pane \in unclosed'
        /\ UNCHANGED <<worker, program, hook, reported, registered, layout, stopping>>
    <3>1. UNCHANGED <<worker, program, hook, reported, registered, layout, stopping>>
      BY <1>10 DEF Forget, paneVars, layoutVars
    <3>2. ASSUME NEW s, Goto(c, s)
          PROVE  /\ \A d \in Clients :
                       client'[d].op = client[d].op /\ client'[d].pane = client[d].pane
                 /\ \A d \in Clients : d # c => client'[d].step = client[d].step
                 /\ client'[c].step = s
      BY <3>2, GotoEffect
    <3>3. \/ Goto(c, "closing")
          \/ /\ Goto(c, "done")
             /\ stopping \/ client[c].pane \in layout \/ client[c].pane \in unclosed'
      BY <1>10 DEF Forget, GivesUp
    <3> QED
      BY <3>1, <3>2, <3>3
  <2>3. Ended'
    BY <2>2 DEF Kept, Ended
  <2>4. OneCreator'
    BY <2>2 DEF Kept, OneCreator, Creator
  <2>5. Closings'
    BY <2>1, <2>2 DEF Kept, Closings, ClosingOK, Names, Knows, Started, Creating, Updating,
       Ending, StepOK
  <2>6. Registered'
    <3> SUFFICES ASSUME NEW p \in Panes, worker'[p] = "up", ~stopping'
                 PROVE  p \in registered' \/ Launching(p)'
      BY DEF Registered
    <3>1. p \in registered \/ Launching(p)
      BY <2>1, <2>2 DEF Kept, Registered, TypeOK
    <3>2. CASE Launching(p) /\ p \notin unclosed'
      BY <2>1, <2>2, <3>2, LaunchingKept DEF Creator
    <3> QED
      BY <2>1, <2>2, <3>1, <3>2 DEF Launching, Guarded
  <2>7. Guards'
    <3> SUFFICES ASSUME NEW p \in Panes, worker'[p] = "up", program'[p] = "running", ~stopping'
                 PROVE  p \in layout' \/ Guarded(p)'
      BY DEF Guards
    <3>1. p \in layout \/ Guarded(p)
      BY <2>1, <2>2 DEF Kept, Guards, TypeOK
    <3>2. CASE Guarded(p) /\ p \notin unclosed'
      BY <2>1, <2>2, <3>2, GuardedKept DEF Guard, Creator, Ending
    <3> QED
      BY <2>1, <2>2, <3>1, <3>2 DEF Launching, Guarded
  <2> QED
    BY <2>3, <2>4, <2>5, <2>6, <2>7 DEF Kept
<1>11. ASSUME NEW c \in Clients, LookUpClosed(c) PROVE Kept'
  <2> DEFINE q == client[c].pane
  <2>1. q \in Panes /\ client[c].step = "closing" /\ client[c].op \in {"create", "split", "close", "attach"}
    BY <1>11, CalmOps DEF LookUpClosed, Lost, GivesUp, At, StepOK, Knows, Ending
  <2>2. /\ \A d \in Clients : client'[d].op = client[d].op /\ client'[d].pane = client[d].pane
        /\ \A d \in Clients : d # c => client'[d].step = client[d].step
        /\ \/ client'[c].step = "done" /\ (stopping \/ q \in unclosed')
           \/ client'[c].step = "noted"
           \/ client'[c].step = "removed" /\ q \notin registered
        /\ UNCHANGED <<worker, program, hook, reported, registered, layout, stopping>>
    <3>1. UNCHANGED <<worker, program, hook, reported, registered, layout, stopping>>
      BY <1>11 DEF LookUpClosed, paneVars, layoutVars
    <3>2. ASSUME NEW s, Goto(c, s)
          PROVE  /\ \A d \in Clients :
                       client'[d].op = client[d].op /\ client'[d].pane = client[d].pane
                 /\ \A d \in Clients : d # c => client'[d].step = client[d].step
                 /\ client'[c].step = s
      BY <3>2, GotoEffect
    <3>3. \/ Goto(c, "done") /\ (stopping \/ q \in unclosed')
          \/ Goto(c, "noted")
          \/ Goto(c, "removed") /\ q \notin registered
      BY <1>11, <2>1 DEF LookUpClosed, GivesUp, AfterClose
    <3> QED
      BY <3>1, <3>2, <3>3
  <2>3. client[c].op = "attach" => program[q] # "running"
    BY <2>1 DEF Kept, Closings, ClosingOK, Ended, Ending
  <2>4. client[c].op # "attach" /\ ~stopping /\ q \notin registered =>
            worker[q] # "up" \/ q \in unclosed
    <3> SUFFICES ASSUME client[c].op # "attach", ~stopping, q \notin registered,
                        worker[q] = "up", q \notin unclosed
                 PROVE  FALSE
      OBVIOUS
    <3>1. PICK d \in Clients : Creates(d, q)
      BY <2>1 DEF Kept, Registered, Launching
    <3>2. CASE client[c].op = "close"
      BY <2>1, <3>1, <3>2 DEF Apart
    <3>3. CASE client[c].op \in {"create", "split"}
      BY <2>1, <3>1, <3>3 DEF Kept, OneCreator, Creates, Creator
    <3> QED
      BY <2>1, <3>2, <3>3
  <2>5. Ended'
    BY <2>2 DEF Kept, Ended
  <2>6. OneCreator'
    BY <2>2 DEF Kept, OneCreator, Creator
  <2>7. Closings'
    BY <2>1, <2>2, <2>3, <2>4 DEF Kept, Closings, ClosingOK, Names, Knows, Started, Creating,
       Updating, Ending, StepOK
  <2>8. Registered'
    <3> SUFFICES ASSUME NEW p \in Panes, worker'[p] = "up", ~stopping'
                 PROVE  p \in registered' \/ Launching(p)'
      BY DEF Registered
    <3>1. p \in registered \/ Launching(p)
      BY <2>1, <2>2 DEF Kept, Registered, TypeOK
    <3>2. CASE Launching(p) /\ p \notin unclosed'
      BY <2>1, <2>2, <3>2, LaunchingKept DEF Creator
    <3> QED
      BY <2>1, <2>2, <3>1, <3>2 DEF Launching, Guarded
  <2>9. Guards'
    <3> SUFFICES ASSUME NEW p \in Panes, worker'[p] = "up", program'[p] = "running", ~stopping'
                 PROVE  p \in layout' \/ Guarded(p)'
      BY DEF Guards
    <3>1. p \in layout \/ Guarded(p)
      BY <2>1, <2>2 DEF Kept, Guards, TypeOK
    <3>2. CASE Guarded(p) /\ p \notin unclosed'
      BY <2>1, <2>2, <3>2, GuardedKept DEF Guard, Creator, Ending
    <3> QED
      BY <2>1, <2>2, <3>1, <3>2 DEF Launching, Guarded
  <2> QED
    BY <2>5, <2>6, <2>7, <2>8, <2>9 DEF Kept
<1>12. ASSUME NEW c \in Clients, TellWorker(c) PROVE Kept'
  <2> DEFINE q == client[c].pane
  <2>1. q \in Panes /\ client[c].step = "noted" /\ client[c].op # "recover"
    BY <1>12, CalmOps DEF TellWorker, At, StepOK, Knows, Ending
  <2>3. /\ \A d \in Clients : client'[d].op = client[d].op /\ client'[d].pane = client[d].pane
        /\ \A d \in Clients : d # c => client'[d].step = client[d].step
        /\ \/ client'[c].step = "told" /\ worker'[q] # "up"
           \/ client'[c].step = "done" /\ q \in unclosed'
        /\ \A p \in Panes : worker'[p] = "up" => worker[p] = "up"
        /\ UNCHANGED <<program, hook, reported, registered, layout, stopping>>
    <3>1. UNCHANGED <<program, hook, reported, registered, layout, stopping>>
      BY <1>12 DEF TellWorker, layoutVars
    <3>2. ASSUME NEW s, Goto(c, s)
          PROVE  /\ \A d \in Clients :
                       client'[d].op = client[d].op /\ client'[d].pane = client[d].pane
                 /\ \A d \in Clients : d # c => client'[d].step = client[d].step
                 /\ client'[c].step = s
      BY <3>2, GotoEffect
    <3>3. CASE Goto(c, "told") /\ TakesClose(q)
      BY <2>1, <3>1, <3>2, <3>3 DEF TakesClose, Told, TypeOK
    <3>4. CASE Goto(c, "done") /\ IgnoresClose(q)
      BY <2>1, <3>1, <3>2, <3>4 DEF IgnoresClose, GivesUp
    <3> QED
      BY <1>12, <2>1, <3>3, <3>4 DEF TellWorker, AfterClose
  <2>4. Ended'
    BY <2>3 DEF Kept, Ended
  <2>5. OneCreator'
    BY <2>3 DEF Kept, OneCreator, Creator
  <2>6. Closings'
    BY <2>1, <2>3 DEF Kept, Closings, ClosingOK, Names, Knows, Started, Creating, Updating,
       Ending, StepOK
  <2>7. Registered'
    <3> SUFFICES ASSUME NEW p \in Panes, worker'[p] = "up", ~stopping'
                 PROVE  p \in registered' \/ Launching(p)'
      BY DEF Registered
    <3>1. p \in registered \/ Launching(p)
      BY <2>1, <2>3 DEF Kept, Registered, TypeOK
    <3>2. CASE Launching(p) /\ p \notin unclosed'
      BY <2>1, <2>3, <3>2, LaunchingKept DEF Creator
    <3> QED
      BY <2>1, <2>3, <3>1, <3>2 DEF Launching, Guarded
  <2>8. Guards'
    <3> SUFFICES ASSUME NEW p \in Panes, worker'[p] = "up", program'[p] = "running", ~stopping'
                 PROVE  p \in layout' \/ Guarded(p)'
      BY DEF Guards
    <3>1. p \in layout \/ Guarded(p)
      BY <2>1, <2>3 DEF Kept, Guards, TypeOK
    <3>2. CASE Guarded(p) /\ p \notin unclosed'
      BY <2>1, <2>3, <3>2, GuardedKept DEF Guard, Creator, Ending
    <3> QED
      BY <2>1, <2>3, <3>1, <3>2 DEF Launching, Guarded
  <2> QED
    BY <2>4, <2>5, <2>6, <2>7, <2>8 DEF Kept
<1>13. ASSUME NEW c \in Clients, RemovePane(c) PROVE Kept'
  <2> DEFINE q == client[c].pane
  <2>1. q \in Panes /\ client[c].step = "told" /\ worker[q] # "up"
    BY <1>13 DEF RemovePane, At, StepOK, Knows, Ending, Kept, Closings, ClosingOK
  <2>2. /\ \A d \in Clients : client'[d].op = client[d].op /\ client'[d].pane = client[d].pane
        /\ \A d \in Clients : d # c => client'[d].step = client[d].step
        /\ client'[c].step = "removed" /\ registered' = registered \ {q}
        /\ UNCHANGED <<worker, program, hook, reported, layout, stopping>>
    BY <1>13, GotoEffect DEF RemovePane, paneVars, layoutVars, stopVars
  <2>3. Ended'
    BY <2>2 DEF Kept, Ended
  <2>4. OneCreator'
    BY <2>2 DEF Kept, OneCreator, Creator
  <2>5. Closings'
    BY <2>1, <2>2 DEF Kept, Closings, ClosingOK, Names, Knows, Started, Creating, Updating,
       Ending, StepOK
  <2>6. Registered'
    <3> SUFFICES ASSUME NEW p \in Panes, worker'[p] = "up", ~stopping'
                 PROVE  p \in registered' \/ Launching(p)'
      BY DEF Registered
    <3>1. p \in registered \/ Launching(p)
      BY <2>1, <2>2 DEF Kept, Registered, TypeOK
    <3>2. CASE Launching(p)
      BY <2>1, <2>2, <3>2, LaunchingKept DEF Creator
    <3> QED
      BY <2>1, <2>2, <3>1, <3>2
  <2>7. Guards'
    <3> SUFFICES ASSUME NEW p \in Panes, worker'[p] = "up", program'[p] = "running", ~stopping'
                 PROVE  p \in layout' \/ Guarded(p)'
      BY DEF Guards
    <3>1. p \in layout \/ Guarded(p)
      BY <2>1, <2>2 DEF Kept, Guards, TypeOK
    <3>2. CASE Guarded(p)
      BY <2>1, <2>2, <3>2, GuardedKept DEF Guard, Creator, Ending
    <3> QED
      BY <2>1, <2>2, <3>1, <3>2
  <2> QED
    BY <2>3, <2>4, <2>5, <2>6, <2>7 DEF Kept
<1>14. ASSUME NEW c \in Clients, PruneClosed(c) PROVE Kept'
  <2> DEFINE q == client[c].pane
  <2>1. q \in Panes /\ client[c].step = "removed"
    BY <1>14 DEF PruneClosed, At, StepOK, Knows, Ending
  <2>2. client[c].op \in {"create", "split", "close", "attach"}
    BY <2>1, CalmOps DEF StepOK, Ending
  <2>3. /\ \A d \in Clients : client'[d].op = client[d].op /\ client'[d].pane = client[d].pane
        /\ \A d \in Clients : d # c => client'[d].step = client[d].step
        /\ client'[c].step = "done" /\ \A p \in layout : p \in layout' \/ p = q
        /\ UNCHANGED <<worker, program, hook, reported, registered, stopping>>
    BY <1>14, <2>2, GotoEffect DEF PruneClosed, AfterClose, Prune, paneVars, layoutVars,
       stopVars
  <2>4. ~stopping => worker[q] # "up" \/ program[q] # "running" \/ q \in unclosed
    BY <2>1 DEF Kept, Closings, ClosingOK
  <2>5. Ended'
    BY <2>3 DEF Kept, Ended
  <2>6. OneCreator'
    BY <2>3 DEF Kept, OneCreator, Creator
  <2>7. Closings'
    BY <2>1, <2>3 DEF Kept, Closings, ClosingOK, Names, Knows, Started, Creating, Updating,
       Ending, StepOK
  <2>8. Registered'
    <3> SUFFICES ASSUME NEW p \in Panes, worker'[p] = "up", ~stopping'
                 PROVE  p \in registered' \/ Launching(p)'
      BY DEF Registered
    <3>1. p \in registered \/ Launching(p)
      BY <2>1, <2>3 DEF Kept, Registered, TypeOK
    <3>2. CASE Launching(p) /\ p \notin unclosed'
      BY <2>1, <2>3, <3>2, LaunchingKept DEF Creator
    <3> QED
      BY <2>1, <2>3, <3>1, <3>2 DEF Launching, Guarded
  <2>9. Guards'
    <3> SUFFICES ASSUME NEW p \in Panes, worker[p] = "up", program[p] = "running", ~stopping
                 PROVE  p \in layout' \/ Guarded(p)'
      BY <2>3 DEF Guards
    <3>1. p \in layout \/ Guarded(p)
      BY DEF Kept, Guards
    <3>2. CASE p = q
      BY <2>2, <2>3, <2>4, <3>2 DEF Guarded, Guard, Creator, Ending
    <3>3. CASE p # q /\ Guarded(p) /\ p \notin unclosed'
      BY <2>3, <3>3, GuardedKept DEF Guard, Creator, Ending
    <3> QED
      BY <2>3, <3>1, <3>2, <3>3 DEF Launching, Guarded
  <2> QED
    BY <2>5, <2>6, <2>7, <2>8, <2>9 DEF Kept
<1>15. ASSUME NEW c \in Clients, Sweep(c) PROVE Kept'
  <2>1. FALSE
    BY <1>15, CalmOps DEF Sweep, At, StepOK
  <2> QED
    BY <2>1
<1>16. ASSUME NEW c \in Clients, Attach(c) PROVE Kept'
  <2>1. client[c].step = "lookup" /\ client[c].op = "attach"
    BY <1>16 DEF Attach, At, StepOK
  <2>2. /\ \A d \in Clients : client'[d].op = client[d].op /\ client'[d].pane = client[d].pane
        /\ \A d \in Clients : d # c => client'[d].step = client[d].step
        /\ client'[c].step \in {"attached", "done"}
        /\ UNCHANGED <<worker, program, hook, reported, registered, layout, stopping>>
    BY <1>16, GotoEffect DEF Attach, paneVars, layoutVars, stopVars
  <2>3. Ended'
    BY <2>2 DEF Kept, Ended
  <2>4. OneCreator'
    BY <2>2 DEF Kept, OneCreator, Creator
  <2>5. Closings'
    BY <2>1, <2>2 DEF Kept, Closings, ClosingOK, Names, Knows, Started, Creating, Updating,
       Ending, StepOK
  <2>6. Registered'
    <3> SUFFICES ASSUME NEW p \in Panes, worker'[p] = "up", ~stopping'
                 PROVE  p \in registered' \/ Launching(p)'
      BY DEF Registered
    <3>1. p \in registered \/ Launching(p)
      BY <2>1, <2>2 DEF Kept, Registered, TypeOK
    <3>2. CASE Launching(p)
      BY <2>1, <2>2, <3>2, LaunchingKept DEF Creator
    <3> QED
      BY <2>1, <2>2, <3>1, <3>2
  <2>7. Guards'
    <3> SUFFICES ASSUME NEW p \in Panes, worker'[p] = "up", program'[p] = "running", ~stopping'
                 PROVE  p \in layout' \/ Guarded(p)'
      BY DEF Guards
    <3>1. p \in layout \/ Guarded(p)
      BY <2>1, <2>2 DEF Kept, Guards, TypeOK
    <3>2. CASE Guarded(p)
      BY <2>1, <2>2, <3>2, GuardedKept DEF Guard, Creator, Ending
    <3> QED
      BY <2>1, <2>2, <3>1, <3>2
  <2> QED
    BY <2>3, <2>4, <2>5, <2>6, <2>7 DEF Kept
<1>17. ASSUME NEW c \in Clients, SeeEnd(c) PROVE Kept'
  <2>1. Ended'
    BY <1>17 DEF SeeEnd, Ended, Kept, At, Goto, TypeOK, Client, paneVars,
       layoutVars, stopVars
  <2>2. OneCreator'
    BY <1>17 DEF SeeEnd, OneCreator, Creator, Kept, Ended, At, Goto, TypeOK,
       Client, paneVars, layoutVars, stopVars
  <2>3. Closings'
    BY <1>17 DEF SeeEnd, Closings, ClosingOK, Ending, AfterClose, Kept,
       Ended, At, Goto, TypeOK, Client, paneVars, layoutVars, stopVars
  <2>4. Registered'
    BY <1>17 DEF SeeEnd, Registered, Launching, Creates, Creator, Kept, Ended, At,
       Goto, TypeOK, Client, paneVars, layoutVars, stopVars
  <2>5. Guards'
    BY <1>17 DEF SeeEnd, Guards, Guarded, Guard, Creator, Ending, Kept, Ended, At, Goto,
       TypeOK, Client, paneVars, layoutVars, stopVars
  <2> QED
    BY <2>1, <2>2, <2>3, <2>4, <2>5 DEF Kept
<1>18. ASSUME NEW c \in Clients, BeginRecover(c) PROVE Kept'
  <2>1. FALSE
    BY <1>18 DEF BeginRecover, Calm
  <2> QED
    BY <2>1
<1>19. ASSUME NEW c \in Clients, GiveUp(c) PROVE Kept'
  <2>1. Ended'
    BY <1>19 DEF GiveUp, Ended, Kept, At, Goto, TypeOK, Client, paneVars,
       layoutVars, stopVars
  <2>2. OneCreator'
    BY <1>19 DEF GiveUp, OneCreator, Creator, Kept, Ended, At, Goto, TypeOK,
       Client, paneVars, layoutVars, stopVars
  <2>3. Closings'
    BY <1>19 DEF GiveUp, Closings, ClosingOK, Ending, AfterClose, Kept,
       Ended, At, Goto, TypeOK, Client, paneVars, layoutVars, stopVars
  <2>4. Registered'
    BY <1>19 DEF GiveUp, Registered, Launching, Creates, Creator, Kept, Ended, At,
       Goto, TypeOK, Client, paneVars, layoutVars, stopVars
  <2>5. Guards'
    BY <1>19 DEF GiveUp, Guards, Guarded, Guard, Creator, Ending, Kept, Ended, At, Goto,
       TypeOK, Client, paneVars, layoutVars, stopVars
  <2> QED
    BY <2>1, <2>2, <2>3, <2>4, <2>5 DEF Kept
<1>20. ASSUME NEW c \in Clients, Leave(c) PROVE Kept'
  <2>1. Ended'
    BY <1>20 DEF Leave, Ended, Kept, At, Goto, TypeOK, Client, paneVars,
       layoutVars, stopVars
  <2>2. OneCreator'
    BY <1>20 DEF Leave, OneCreator, Creator, Kept, Ended, At, Goto, TypeOK,
       Client, paneVars, layoutVars, stopVars
  <2>3. Closings'
    BY <1>20 DEF Leave, Closings, ClosingOK, Ending, AfterClose, Kept,
       Ended, At, Goto, TypeOK, Client, paneVars, layoutVars, stopVars
  <2>4. Registered'
    BY <1>20 DEF Leave, Registered, Launching, Creates, Creator, Kept, Ended, At,
       Goto, TypeOK, Client, paneVars, layoutVars, stopVars
  <2>5. Guards'
    BY <1>20 DEF Leave, Guards, Guarded, Guard, Creator, Ending, Kept, Ended, At, Goto,
       TypeOK, Client, paneVars, layoutVars, stopVars
  <2> QED
    BY <2>1, <2>2, <2>3, <2>4, <2>5 DEF Kept
<1>21. ASSUME NEW c \in Clients, Detach(c) PROVE Kept'
  <2>1. client[c].step = "attached" /\ client[c].op = "attach"
    BY <1>21 DEF Detach, At, StepOK
  <2>2. /\ \A d \in Clients : client'[d].op = client[d].op /\ client'[d].pane = client[d].pane
        /\ \A d \in Clients : d # c => client'[d].step = client[d].step
        /\ client'[c].step \in {"done"}
        /\ UNCHANGED <<worker, program, hook, reported, registered, layout, stopping>>
    BY <1>21, GotoEffect DEF Detach, paneVars, layoutVars, stopVars
  <2>3. Ended'
    BY <2>2 DEF Kept, Ended
  <2>4. OneCreator'
    BY <2>2 DEF Kept, OneCreator, Creator
  <2>5. Closings'
    BY <2>1, <2>2 DEF Kept, Closings, ClosingOK, Names, Knows, Started, Creating, Updating,
       Ending, StepOK
  <2>6. Registered'
    <3> SUFFICES ASSUME NEW p \in Panes, worker'[p] = "up", ~stopping'
                 PROVE  p \in registered' \/ Launching(p)'
      BY DEF Registered
    <3>1. p \in registered \/ Launching(p)
      BY <2>1, <2>2 DEF Kept, Registered, TypeOK
    <3>2. CASE Launching(p)
      BY <2>1, <2>2, <3>2, LaunchingKept DEF Creator
    <3> QED
      BY <2>1, <2>2, <3>1, <3>2
  <2>7. Guards'
    <3> SUFFICES ASSUME NEW p \in Panes, worker'[p] = "up", program'[p] = "running", ~stopping'
                 PROVE  p \in layout' \/ Guarded(p)'
      BY DEF Guards
    <3>1. p \in layout \/ Guarded(p)
      BY <2>1, <2>2 DEF Kept, Guards, TypeOK
    <3>2. CASE Guarded(p)
      BY <2>1, <2>2, <3>2, GuardedKept DEF Guard, Creator, Ending
    <3> QED
      BY <2>1, <2>2, <3>1, <3>2
  <2> QED
    BY <2>3, <2>4, <2>5, <2>6, <2>7 DEF Kept
<1>22. ASSUME NEW c \in Clients, NEW p \in Panes, BeginCreate(c, p) PROVE Kept'
  <2>1. client[c].step = "idle" /\ client[c].op = "none"
    BY <1>22 DEF BeginCreate, At, StepOK
  <2>2. /\ \A d \in Clients : d # c => client'[d] = client[d]
        /\ client'[c].op \in {"create", "split"} /\ client'[c].step = "request" /\ client'[c].pane = p
        /\ UNCHANGED <<worker, program, hook, reported, registered, layout, stopping>>
    <3>1. CASE client' = [client EXCEPT ![c] =
                  [@ EXCEPT !.op = "create", !.step = "request", !.pane = p]]
      <4>1. /\ \A d \in Clients : d # c => client'[d] = client[d]
            /\ client'[c].op = "create" /\ client'[c].step = "request" /\ client'[c].pane = p
        BY <3>1 DEF TypeOK, Client
      <4> QED
        BY <1>22, <4>1 DEF BeginCreate, paneVars, layoutVars, stopVars
    <3>2. CASE \E q \in layout : client' = [client EXCEPT ![c] =
                  [@ EXCEPT !.op = "split", !.step = "request", !.pane = p, !.from = q]]
      <4>1. PICK q \in layout : client' = [client EXCEPT ![c] =
                [@ EXCEPT !.op = "split", !.step = "request", !.pane = p, !.from = q]]
        BY <3>2
      <4>2. /\ \A d \in Clients : d # c => client'[d] = client[d]
            /\ client'[c].op = "split" /\ client'[c].step = "request" /\ client'[c].pane = p
        BY <4>1 DEF TypeOK, Client
      <4> QED
        BY <1>22, <4>2 DEF BeginCreate, paneVars, layoutVars, stopVars
    <3> QED
      BY <1>22, <3>1, <3>2 DEF BeginCreate
  <2>3. \A d \in Clients : client[d].pane # p
    BY <1>22 DEF BeginCreate, Fresh
  <2>4. Ended'
    BY <2>2 DEF Kept, Ended
  <2>5. OneCreator'
    BY <2>1, <2>2, <2>3 DEF Kept, OneCreator, Creator
  <2>6. Closings'
    BY <2>1, <2>2 DEF Kept, Closings, ClosingOK, Names, Knows, Started, Creating, Updating,
       Ending, StepOK
  <2>7. Registered'
    <3> SUFFICES ASSUME NEW r \in Panes, worker'[r] = "up", ~stopping'
                 PROVE  r \in registered' \/ Launching(r)'
      BY DEF Registered
    <3>1. r \in registered \/ Launching(r)
      BY <2>1, <2>2 DEF Kept, Registered, TypeOK
    <3>2. CASE Launching(r)
      BY <2>1, <2>2, <3>2, LaunchingKept DEF Creator
    <3> QED
      BY <2>1, <2>2, <3>1, <3>2
  <2>8. Guards'
    <3> SUFFICES ASSUME NEW r \in Panes, worker'[r] = "up", program'[r] = "running", ~stopping'
                 PROVE  r \in layout' \/ Guarded(r)'
      BY DEF Guards
    <3>1. r \in layout \/ Guarded(r)
      BY <2>1, <2>2 DEF Kept, Guards, TypeOK
    <3>2. CASE Guarded(r)
      BY <2>1, <2>2, <3>2, GuardedKept DEF Guard, Creator, Ending
    <3> QED
      BY <2>1, <2>2, <3>1, <3>2
  <2> QED
    BY <2>4, <2>5, <2>6, <2>7, <2>8 DEF Kept
<1>23. ASSUME NEW c \in Clients, NEW p \in Panes, BeginClose(c, p) PROVE Kept'
  <2>1. client[c].step = "idle" /\ client[c].op = "none"
    BY <1>23 DEF BeginClose, At, StepOK
  <2>2. /\ \A d \in Clients : d # c => client'[d] = client[d]
        /\ client'[c].op = "close" /\ client'[c].step = "layout" /\ client'[c].pane = p
        /\ UNCHANGED <<worker, program, hook, reported, registered, layout, stopping>>
    BY <1>23 DEF BeginClose, TypeOK, Client, paneVars, layoutVars, stopVars
  <2>3. Ended'
    BY <2>2 DEF Kept, Ended
  <2>4. OneCreator'
    BY <2>1, <2>2 DEF Kept, OneCreator, Creator
  <2>5. Closings'
    BY <2>1, <2>2 DEF Kept, Closings, ClosingOK, Names, Knows, Started, Creating, Updating,
       Ending, StepOK
  <2>6. Registered'
    <3> SUFFICES ASSUME NEW r \in Panes, worker'[r] = "up", ~stopping'
                 PROVE  r \in registered' \/ Launching(r)'
      BY DEF Registered
    <3>1. r \in registered \/ Launching(r)
      BY <2>1, <2>2 DEF Kept, Registered, TypeOK
    <3>2. CASE Launching(r)
      BY <2>1, <2>2, <3>2, LaunchingKept DEF Creator
    <3> QED
      BY <2>1, <2>2, <3>1, <3>2
  <2>7. Guards'
    <3> SUFFICES ASSUME NEW r \in Panes, worker'[r] = "up", program'[r] = "running", ~stopping'
                 PROVE  r \in layout' \/ Guarded(r)'
      BY DEF Guards
    <3>1. r \in layout \/ Guarded(r)
      BY <2>1, <2>2 DEF Kept, Guards, TypeOK
    <3>2. CASE Guarded(r)
      BY <2>1, <2>2, <3>2, GuardedKept DEF Guard, Creator, Ending
    <3> QED
      BY <2>1, <2>2, <3>1, <3>2
  <2> QED
    BY <2>3, <2>4, <2>5, <2>6, <2>7 DEF Kept
<1>24. ASSUME NEW c \in Clients, NEW p \in Panes, BeginAttach(c, p) PROVE Kept'
  <2>1. client[c].step = "idle" /\ client[c].op = "none"
    BY <1>24 DEF BeginAttach, At, StepOK
  <2>2. /\ \A d \in Clients : d # c => client'[d] = client[d]
        /\ client'[c].op = "attach" /\ client'[c].step = "lookup" /\ client'[c].pane = p
        /\ UNCHANGED <<worker, program, hook, reported, registered, layout, stopping>>
    BY <1>24 DEF BeginAttach, TypeOK, Client, paneVars, layoutVars, stopVars
  <2>3. Ended'
    BY <2>2 DEF Kept, Ended
  <2>4. OneCreator'
    BY <2>1, <2>2 DEF Kept, OneCreator, Creator
  <2>5. Closings'
    BY <2>1, <2>2 DEF Kept, Closings, ClosingOK, Names, Knows, Started, Creating, Updating,
       Ending, StepOK
  <2>6. Registered'
    <3> SUFFICES ASSUME NEW r \in Panes, worker'[r] = "up", ~stopping'
                 PROVE  r \in registered' \/ Launching(r)'
      BY DEF Registered
    <3>1. r \in registered \/ Launching(r)
      BY <2>1, <2>2 DEF Kept, Registered, TypeOK
    <3>2. CASE Launching(r)
      BY <2>1, <2>2, <3>2, LaunchingKept DEF Creator
    <3> QED
      BY <2>1, <2>2, <3>1, <3>2
  <2>7. Guards'
    <3> SUFFICES ASSUME NEW r \in Panes, worker'[r] = "up", program'[r] = "running", ~stopping'
                 PROVE  r \in layout' \/ Guarded(r)'
      BY DEF Guards
    <3>1. r \in layout \/ Guarded(r)
      BY <2>1, <2>2 DEF Kept, Guards, TypeOK
    <3>2. CASE Guarded(r)
      BY <2>1, <2>2, <3>2, GuardedKept DEF Guard, Creator, Ending
    <3> QED
      BY <2>1, <2>2, <3>1, <3>2
  <2> QED
    BY <2>3, <2>4, <2>5, <2>6, <2>7 DEF Kept
<1>25. ASSUME NEW p \in Panes, ReportExit(p) PROVE Kept'
  <2>1. Ended'
    BY <1>25 DEF ReportExit, Ended, Kept, At, Goto, TypeOK, Client,
       paneVars, layoutVars, stopVars
  <2>2. OneCreator'
    BY <1>25 DEF ReportExit, OneCreator, Creator, Kept, Ended, At, Goto,
       TypeOK, Client, paneVars, layoutVars, stopVars
  <2>3. Closings'
    BY <1>25 DEF ReportExit, Closings, ClosingOK, Ending, AfterClose, Kept,
       Ended, At, Goto, TypeOK, Client, paneVars, layoutVars, stopVars
  <2>4. Registered'
    BY <1>25 DEF ReportExit, Registered, Launching, Creates, Creator, Kept, Ended,
       At, Goto, TypeOK, Client, paneVars, layoutVars, stopVars
  <2>5. Guards'
    BY <1>25 DEF ReportExit, Guards, Guarded, Guard, Creator, Ending, Kept, Ended, At,
       Goto, TypeOK, Client, paneVars, layoutVars, stopVars
  <2> QED
    BY <2>1, <2>2, <2>3, <2>4, <2>5 DEF Kept
<1>26. ASSUME NEW p \in Panes, NotifyExit(p) PROVE Kept'
  <2>1. p \in reported /\ \A q \in Panes : hook'[q] = "prune" => hook[q] = "prune" \/ q = p
    BY <1>26 DEF NotifyExit, Owes, TypeOK
  <2>2. UNCHANGED <<worker, program, reported, registered, layout, stopping, client>>
    BY <1>26 DEF NotifyExit, layoutVars, stopVars
  <2>3. Ended'
    BY <2>1, <2>2 DEF Kept, Ended
  <2>4. OneCreator'
    BY <2>1, <2>2 DEF Kept, OneCreator, Creator
  <2>5. Closings'
    BY <2>1, <2>2 DEF Kept, Closings, ClosingOK, Ending, Ended
  <2>6. Registered'
    BY <2>1, <2>2 DEF Kept, Registered, Launching, Creates, Creator
  <2>7. Guards'
    BY <2>1, <2>2 DEF Kept, Guards, Guarded, Guard, Creator, Ending
  <2> QED
    BY <2>3, <2>4, <2>5, <2>6, <2>7 DEF Kept
<1>27. ASSUME NEW p \in Panes, PruneExited(p) PROVE Kept'
  <2>1. Ended'
    BY <1>27 DEF PruneExited, Ended, Kept, At, Goto, TypeOK, Client,
       paneVars, layoutVars, stopVars, Prune
  <2>2. OneCreator'
    BY <1>27 DEF PruneExited, OneCreator, Creator, Kept, Ended, At, Goto,
       TypeOK, Client, paneVars, layoutVars, stopVars, Prune
  <2>3. Closings'
    BY <1>27 DEF PruneExited, Closings, ClosingOK, Ending, AfterClose, Kept,
       Ended, At, Goto, TypeOK, Client, paneVars, layoutVars, stopVars,
       Prune
  <2>4. Registered'
    BY <1>27 DEF PruneExited, Registered, Launching, Creates, Creator, Kept, Ended,
       At, Goto, TypeOK, Client, paneVars, layoutVars, stopVars, Prune
  <2>5. Guards'
    BY <1>27 DEF PruneExited, Guards, Guarded, Guard, Creator, Ending, Kept, Ended, At,
       Goto, TypeOK, Client, paneVars, layoutVars, stopVars, Prune
  <2> QED
    BY <2>1, <2>2, <2>3, <2>4, <2>5 DEF Kept
<1>28. ASSUME NEW p \in Panes, EndClosed(p) PROVE Kept'
  <2>1. /\ worker'[p] = "closed" /\ program'[p] # "running" /\ reported' = reported \cup {p}
        /\ \A q \in Panes \ {p} : worker'[q] = worker[q] /\ program'[q] = program[q]
        /\ UNCHANGED <<hook, registered, layout, stopping, client>>
    BY <1>28 DEF EndClosed, TypeOK, layoutVars, stopVars
  <2>2. Ended'
    BY <2>1 DEF Kept, Ended, TypeOK
  <2>3. OneCreator'
    BY <2>1 DEF Kept, TypeOK, OneCreator, Creator
  <2>4. Closings'
    BY <2>1 DEF Kept, TypeOK, Closings, ClosingOK, Ending, Knows, StepOK
  <2>5. Registered'
    BY <2>1 DEF Kept, TypeOK, Registered, Launching, Creates, Creator
  <2>6. Guards'
    BY <2>1 DEF Kept, TypeOK, Guards, Guarded, Guard, Creator, Ending
  <2> QED
    BY <2>2, <2>3, <2>4, <2>5, <2>6 DEF Kept
<1>29. ASSUME NEW p \in Panes, EndStopped(p) PROVE Kept'
  <2>1. /\ worker'[p] = "stopped" /\ program'[p] # "running" /\ reported' = reported \cup {p}
        /\ \A q \in Panes \ {p} : worker'[q] = worker[q] /\ program'[q] = program[q]
        /\ UNCHANGED <<hook, registered, layout, stopping, client>>
    BY <1>29 DEF EndStopped, TypeOK, layoutVars, stopVars
  <2>2. Ended'
    BY <2>1 DEF Kept, Ended, TypeOK
  <2>3. OneCreator'
    BY <2>1 DEF Kept, TypeOK, OneCreator, Creator
  <2>4. Closings'
    BY <2>1 DEF Kept, TypeOK, Closings, ClosingOK, Ending, Knows, StepOK
  <2>5. Registered'
    BY <2>1 DEF Kept, TypeOK, Registered, Launching, Creates, Creator
  <2>6. Guards'
    BY <2>1 DEF Kept, TypeOK, Guards, Guarded, Guard, Creator, Ending
  <2> QED
    BY <2>2, <2>3, <2>4, <2>5, <2>6 DEF Kept
<1>30. ASSUME NEW p \in Panes, Escalate(p) PROVE Kept'
  <2>1. Ended'
    BY <1>30 DEF Escalate, Ended, Kept, At, Goto, TypeOK, Client, paneVars,
       layoutVars, stopVars
  <2>2. OneCreator'
    BY <1>30 DEF Escalate, OneCreator, Creator, Kept, Ended, At, Goto,
       TypeOK, Client, paneVars, layoutVars, stopVars
  <2>3. Closings'
    BY <1>30 DEF Escalate, Closings, ClosingOK, Ending, AfterClose, Kept,
       Ended, At, Goto, TypeOK, Client, paneVars, layoutVars, stopVars
  <2>4. Registered'
    BY <1>30 DEF Escalate, Registered, Launching, Creates, Creator, Kept, Ended, At,
       Goto, TypeOK, Client, paneVars, layoutVars, stopVars
  <2>5. Guards'
    BY <1>30 DEF Escalate, Guards, Guarded, Guard, Creator, Ending, Kept, Ended, At, Goto,
       TypeOK, Client, paneVars, layoutVars, stopVars
  <2> QED
    BY <2>1, <2>2, <2>3, <2>4, <2>5 DEF Kept
<1>31. ASSUME NEW p \in Panes, ProgramExits(p) PROVE Kept'
  <2>1. Ended'
    BY <1>31 DEF ProgramExits, Ended, Kept, At, Goto, TypeOK, Client,
       paneVars, layoutVars, stopVars
  <2>2. OneCreator'
    BY <1>31 DEF ProgramExits, OneCreator, Creator, Kept, Ended, At, Goto,
       TypeOK, Client, paneVars, layoutVars, stopVars
  <2>3. Closings'
    BY <1>31 DEF ProgramExits, Closings, ClosingOK, Ending, AfterClose,
       Kept, Ended, At, Goto, TypeOK, Client, paneVars, layoutVars, stopVars
  <2>4. Registered'
    BY <1>31 DEF ProgramExits, Registered, Launching, Creates, Creator, Kept, Ended,
       At, Goto, TypeOK, Client, paneVars, layoutVars, stopVars
  <2>5. Guards'
    BY <1>31 DEF ProgramExits, Guards, Guarded, Guard, Creator, Ending, Kept, Ended, At,
       Goto, TypeOK, Client, paneVars, layoutVars, stopVars
  <2> QED
    BY <2>1, <2>2, <2>3, <2>4, <2>5 DEF Kept
<1>32. ASSUME Stop PROVE Kept'
  <2>1. Ended'
    BY <1>32 DEF Stop, Ended, Kept, At, Goto, TypeOK, Client, paneVars,
       layoutVars, stopVars
  <2>2. OneCreator'
    BY <1>32 DEF Stop, OneCreator, Creator, Kept, Ended, At, Goto, TypeOK,
       Client, paneVars, layoutVars, stopVars
  <2>3. Closings'
    BY <1>32 DEF Stop, Closings, ClosingOK, Ending, AfterClose, Kept, Ended,
       At, Goto, TypeOK, Client, paneVars, layoutVars, stopVars
  <2>4. Registered'
    BY <1>32 DEF Stop, Registered, Launching, Creates, Creator, Kept, Ended, At,
       Goto, TypeOK, Client, paneVars, layoutVars, stopVars
  <2>5. Guards'
    BY <1>32 DEF Stop, Guards, Guarded, Guard, Creator, Ending, Kept, Ended, At, Goto,
       TypeOK, Client, paneVars, layoutVars, stopVars
  <2> QED
    BY <2>1, <2>2, <2>3, <2>4, <2>5 DEF Kept
<1>33. ASSUME Drain PROVE Kept'
  <2>1. /\ \A p \in Panes : worker'[p] = "up" => worker[p] = "up"
        /\ stopping /\ UNCHANGED <<program, hook, reported, layout, stopping, client>>
    BY <1>33 DEF Drain, TypeOK, layoutVars
  <2>2. Ended'
    BY <2>1 DEF Kept, Ended
  <2>3. OneCreator'
    BY <2>1 DEF Kept, OneCreator, Creator
  <2>4. Closings'
    BY <2>1 DEF Kept, Closings, ClosingOK, Names, Knows, Started, Creating, Updating, Ending,
       StepOK
  <2>5. Registered'
    BY <2>1 DEF Registered
  <2>6. Guards'
    BY <2>1 DEF Guards
  <2> QED
    BY <2>2, <2>3, <2>4, <2>5, <2>6 DEF Kept
<1>34. ASSUME Exit PROVE Kept'
  <2>1. Ended'
    BY <1>34 DEF Exit, Finished, Ended, Kept, At, Goto, TypeOK, Client, paneVars,
       layoutVars, stopVars
  <2>2. OneCreator'
    BY <1>34 DEF Exit, Finished, OneCreator, Creator, Kept, Ended, At, Goto, TypeOK,
       Client, paneVars, layoutVars, stopVars
  <2>3. Closings'
    BY <1>34 DEF Exit, Finished, Closings, ClosingOK, Ending, AfterClose, Kept, Ended,
       At, Goto, TypeOK, Client, paneVars, layoutVars, stopVars
  <2>4. Registered'
    BY <1>34 DEF Exit, Finished, Registered, Launching, Creates, Creator, Kept, Ended, At,
       Goto, TypeOK, Client, paneVars, layoutVars, stopVars
  <2>5. Guards'
    BY <1>34 DEF Exit, Finished, Guards, Guarded, Guard, Creator, Ending, Kept, Ended, At, Goto,
       TypeOK, Client, paneVars, layoutVars, stopVars
  <2> QED
    BY <2>1, <2>2, <2>3, <2>4, <2>5 DEF Kept
<1>35. CASE UNCHANGED vars
  <2>1. UNCHANGED <<worker, program, hook, reported, registered, layout, stopping, unclosed,
                    client>>
    BY <1>35 DEF paneVars, layoutVars, stopVars, vars
  <2>2. Ended'
    BY <2>1 DEF Kept, Ended
  <2>3. OneCreator'
    BY <2>1 DEF Kept, OneCreator, Creator
  <2>4. Closings'
    BY <2>1 DEF Kept, Closings, ClosingOK
  <2>5. Registered'
    BY <2>1 DEF Kept, Registered, Launching, Creates, Creator
  <2>6. Guards'
    BY <2>1 DEF Kept, Guards, Guarded, Guard, Creator
  <2> QED
    BY <2>2, <2>3, <2>4, <2>5, <2>6 DEF Kept
<1> QED
  BY <1>1, <1>2, <1>3, <1>4, <1>5, <1>6, <1>7, <1>8, <1>9, <1>10, <1>11,
     <1>12, <1>13, <1>14, <1>15, <1>16, <1>17, <1>18, <1>19, <1>20, <1>21,
     <1>22, <1>23, <1>24, <1>25, <1>26, <1>27, <1>28, <1>29, <1>30, <1>31,
     <1>32, <1>33, <1>34, <1>35 DEF Next, Serve, Begin, Work

\* A close under way.
Closer(d) == client[d].op = "close" /\ client[d].step \notin {"idle", "done"}

\* Who begins nothing, and lists and registers nothing, keeps closes and creations apart.
LEMMA ApartKept ==
    ASSUME Apart,
           registered' \subseteq registered, layout' \subseteq layout,
           \A d \in Clients, p \in Panes : Creates(d, p)' => Creates(d, p),
           \A d \in Clients :
               Closer(d)' => Closer(d) /\ client'[d].pane = client[d].pane,
           registered \cup layout \subseteq Panes,
           \A d \in Clients : Closer(d)' => client'[d].pane \in Panes
    PROVE  Apart'
  BY DEF Apart, Closer

LEMMA ApartStep == Invariant /\ Kept /\ Apart /\ Calm /\ [Next]_vars => Apart'
<1> SUFFICES ASSUME Invariant, Kept, Apart, Calm, [Next]_vars PROVE Apart'
  OBVIOUS
<1>1. Typed /\ TypeOK /\ Begun /\ \A c \in Clients : StepOK(client[c]) /\ Names(client[c])
  BY DEF Invariant, Typed, Begun
<1>2. registered \cup layout \subseteq Panes /\ registered \cup layout \subseteq Started
  BY <1>1 DEF TypeOK, Begun
<1>3. \A d \in Clients : Closer(d) => client[d].pane \in Panes /\ client[d].pane \in Started
  BY <1>1 DEF Closer, StepOK, Names, Knows, Steps, Creating, Updating, Ending, TypeOK, Client
<1>4. ASSUME NEW c \in Clients, NEW s, Goto(c, s), client[c].step \notin {"idle", "done"},
             s \notin {"starting", "started", "hooked"}
                \/ client[c].step \in {"starting", "started", "hooked"}
      PROVE  /\ \A d \in Clients, p \in Panes : Creates(d, p)' => Creates(d, p)
             /\ \A d \in Clients :
                   Closer(d)' => Closer(d) /\ client'[d].pane = client[d].pane
  BY <1>1, <1>4, GotoEffect DEF Creates, Creator, Closer
<1>5. ASSUME NEW c \in Clients, CreatePane(c) PROVE Apart'
  <2>1. client[c].step = "request" /\ client[c].pane \notin Started /\ client[c].op # "close"
    BY <1>1, <1>5 DEF CreatePane, At, Begun, StepOK, Creating
  <2>2. registered' = registered /\ layout' = layout
    BY <1>5 DEF CreatePane, layoutVars
  <2>3. \A d \in Clients :
           /\ client'[d].op = client[d].op /\ client'[d].pane = client[d].pane
           /\ d # c => client'[d].step = client[d].step
    BY <1>1, <1>5, GotoEffect DEF CreatePane
  <2>4. \A d \in Clients : Closer(d)' => Closer(d) /\ client'[d].pane = client[d].pane
    BY <2>1, <2>3 DEF Closer
  <2>5. \A d \in Clients, p \in Panes :
           Creates(d, p)' => Creates(d, p) \/ p = client[c].pane
    BY <2>3 DEF Creates, Creator
  <2>6. \A p \in registered' \cup layout', d \in Clients : ~Creates(d, p)'
    BY <1>2, <2>1, <2>2, <2>5 DEF Apart
  <2>7. \A b, d \in Clients : Closer(d)' => ~Creates(b, client[d].pane)'
    BY <1>3, <2>1, <2>4, <2>5 DEF Apart, Closer
  <2> QED
    BY <2>3, <2>6, <2>7 DEF Apart, Closer
<1>6. ASSUME NEW c \in Clients, InsertPane(c) PROVE Apart'
  <2>1. client[c].step = "hooked" /\ client[c].op \in {"create", "split"}
        /\ client[c].pane \in Panes
    BY <1>1, <1>6 DEF InsertPane, At, StepOK, Knows, Creating
  <2>2. registered' = registered \cup {client[c].pane} /\ layout' = layout
    BY <1>6 DEF InsertPane, layoutVars
  <2>3. \A d \in Clients :
           /\ client'[d].op = client[d].op /\ client'[d].pane = client[d].pane
           /\ client'[d].step = IF d = c THEN "inserted" ELSE client[d].step
    BY <1>1, <1>6, GotoEffect DEF InsertPane
  <2>4. \A d \in Clients, p \in Panes : Creates(d, p)' => Creates(d, p) /\ d # c
    BY <2>3 DEF Creates, Creator
  <2>5. \A q \in Panes, d \in Clients : q = client[c].pane => ~Creates(d, q)'
    BY <2>1, <2>4 DEF Kept, OneCreator, Creates, Creator
  <2>6. \A q \in registered' \cup layout', d \in Clients : ~Creates(d, q)'
    <3> SUFFICES ASSUME NEW q \in registered' \cup layout', NEW d \in Clients
                 PROVE  ~Creates(d, q)'
      OBVIOUS
    <3>1. q \in Panes /\ (q \in registered \cup layout \/ q = client[c].pane)
      BY <1>2, <2>1, <2>2
    <3> QED
      BY <2>4, <2>5, <3>1 DEF Apart
  <2>7. \A d \in Clients : Closer(d)' => Closer(d) /\ client'[d].pane = client[d].pane
    BY <2>1, <2>3 DEF Closer
  <2>8. \A b, d \in Clients : Closer(d)' => ~Creates(b, client[d].pane)'
    BY <1>3, <2>4, <2>7 DEF Apart, Closer
  <2> QED
    BY <2>3, <2>6, <2>8 DEF Apart, Closer
<1>7. ASSUME NEW c \in Clients, Write(c) PROVE Apart'
  <2>1. /\ client[c].step = "read" /\ client[c].base = layout /\ client[c].pane \in Panes
        /\ client[c].op \in {"create", "split", "close"}
    <3>1. client[c].step = "read" /\ client[c].rev = revision
      BY <1>7 DEF Write, At, Wins
    <3>2. client[c].base = layout
      BY <3>1 DEF Invariant, Reads, ReadOK
    <3> QED
      BY <1>1, <3>1, <3>2, CalmOps DEF StepOK, Knows, Updating
  <2>2. /\ registered' = registered /\ layout' \subseteq layout \cup {client[c].pane}
        /\ client[c].op = "close" => layout' \subseteq layout
    BY <1>7, <2>1 DEF Write, Edited
  <2>3. \E s \in {"closing", "done", "forget"} : Goto(c, s)
    BY <1>7 DEF Write, UpdateEnds, UpdateFails
  <2>4. /\ \A d \in Clients, p \in Panes : Creates(d, p)' => Creates(d, p)
        /\ \A d \in Clients :
              Closer(d)' => Closer(d) /\ client'[d].pane = client[d].pane
    BY <1>4, <2>1, <2>3
  <2>5. client[c].op # "close" => \A d \in Clients : ~Creates(d, client[c].pane)
    BY <2>1 DEF Kept, OneCreator, Creates, Creator
  <2>6. \A q \in registered' \cup layout', d \in Clients : ~Creates(d, q)'
    <3> SUFFICES ASSUME NEW q \in registered' \cup layout', NEW d \in Clients
                 PROVE  ~Creates(d, q)'
      OBVIOUS
    <3>1. /\ q \in Panes
          /\ q \in registered \cup layout \/ (q = client[c].pane /\ client[c].op # "close")
      <4>1. CASE client[c].op = "close"
        BY <1>2, <2>2, <4>1
      <4>2. CASE client[c].op # "close"
        BY <1>2, <2>1, <2>2, <4>2
      <4> QED
        BY <4>1, <4>2
    <3> QED
      BY <2>4, <2>5, <3>1 DEF Apart
  <2>7. \A b, d \in Clients : Closer(d)' => ~Creates(b, client[d].pane)'
    <3> SUFFICES ASSUME NEW b \in Clients, NEW d \in Clients, Closer(d)'
                 PROVE  ~Creates(b, client[d].pane)'
      OBVIOUS
    <3>1. Closer(d) /\ client'[d].pane = client[d].pane /\ client[d].pane \in Panes
      BY <1>3, <2>4
    <3>2. \A q \in Panes : q = client[d].pane => ~Creates(b, q) /\ ~Creates(b, q)'
      BY <2>4, <3>1 DEF Apart, Closer
    <3> QED
      BY <3>1, <3>2 DEF Creates, Creator
  <2> QED
    BY <2>6, <2>7 DEF Apart, Closer
<1>8. ASSUME NEW c \in Clients,
             \/ RefreshPane(c) \/ RegisterHook(c) \/ AnswerCreate(c) \/ EndUpdate(c)
             \/ Forget(c) \/ LookUpClosed(c) \/ TellWorker(c) \/ RemovePane(c)
             \/ PruneClosed(c) \/ Attach(c) \/ SeeEnd(c) \/ Detach(c)
      PROVE  Apart'
  <2>1. registered' \subseteq registered /\ layout' \subseteq layout
    BY <1>8 DEF RefreshPane, RegisterHook, AnswerCreate, EndUpdate, Forget, LookUpClosed,
       TellWorker, RemovePane, PruneClosed, Attach, SeeEnd, Detach, Prune, layoutVars
  <2>2. client[c].step \notin {"idle", "done"}
    BY <1>8 DEF RefreshPane, RegisterHook, AnswerCreate, EndUpdate, Forget, LookUpClosed,
       TellWorker, RemovePane, PruneClosed, Attach, SeeEnd, Detach, At
  <2>3. \E s : /\ Goto(c, s)
               /\ \/ s \notin {"starting", "started", "hooked"}
                  \/ client[c].step \in {"starting", "started", "hooked"}
    <3>1. CASE RefreshPane(c) \/ RegisterHook(c)
      BY <3>1 DEF RefreshPane, RegisterHook, At
    <3>2. CASE AnswerCreate(c) \/ EndUpdate(c) \/ Forget(c) \/ LookUpClosed(c)
      <4>1. \E s \in {"removed", "closing", "layout", "done", "forget", "noted", "sweep"} :
               Goto(c, s)
        BY <3>2 DEF AnswerCreate, EndUpdate, Forget, LookUpClosed, UpdateEnds, UpdateFails,
           AfterClose
      <4> QED
        BY <4>1
    <3>3. CASE \/ TellWorker(c) \/ RemovePane(c) \/ PruneClosed(c) \/ Attach(c)
               \/ SeeEnd(c) \/ Detach(c)
      <4>1. \E s \in {"told", "removed", "done", "sweep", "attached", "closing"} : Goto(c, s)
        BY <3>3 DEF TellWorker, RemovePane, PruneClosed, Attach, SeeEnd, Detach, AfterClose
      <4> QED
        BY <4>1
    <3> QED
      BY <1>8, <3>1, <3>2, <3>3
  <2>4. /\ \A d \in Clients, p \in Panes : Creates(d, p)' => Creates(d, p)
        /\ \A d \in Clients :
              Closer(d)' => Closer(d) /\ client'[d].pane = client[d].pane
    BY <1>4, <2>2, <2>3
  <2> QED
    BY <1>2, <1>3, <2>1, <2>4, ApartKept
<1>9. ASSUME NEW c \in Clients, ReadLayout(c) \/ Retry(c) \/ GiveUp(c) \/ Leave(c)
      PROVE  Apart'
  <2>1. registered' = registered /\ layout' = layout
    BY <1>9 DEF ReadLayout, Retry, GiveUp, Leave, layoutVars
  <2>2. \A d \in Clients :
           /\ client'[d].op = client[d].op /\ client'[d].pane = client[d].pane
           /\ \/ client'[d].step = client[d].step
              \/ /\ client[d].step \notin {"idle", "done"}
                 /\ client'[d].step \notin {"starting", "started", "hooked"}
    <3> DEFINE Goal ==
          \A d \in Clients :
             /\ client'[d].op = client[d].op /\ client'[d].pane = client[d].pane
             /\ \/ client'[d].step = client[d].step
                \/ /\ client[d].step \notin {"idle", "done"}
                   /\ client'[d].step \notin {"starting", "started", "hooked"}
    <3>1. ASSUME Goto(c, UpdateFails(c)), client[c].step \in {"layout", "read"} PROVE Goal
      BY <1>1, <3>1, GotoEffect DEF UpdateFails
    <3>2. ASSUME ReadLayout(c),
                 client' = [client EXCEPT ![c] =
                     [@ EXCEPT !.step = "read", !.base = layout, !.rev = revision]]
          PROVE  Goal
      BY <1>1, <3>2 DEF ReadLayout, At, TypeOK, Client
    <3>3. ASSUME Retry(c) PROVE Goal
      BY <1>1, <3>3 DEF Retry, At, UpdateFails, TypeOK, Client
    <3>4. ASSUME GiveUp(c) \/ Leave(c) PROVE Goal
      BY <1>1, <3>4 DEF GiveUp, Leave, TypeOK, Client
    <3> QED
      BY <1>9, <3>1, <3>2, <3>3, <3>4 DEF ReadLayout, At
  <2>3. /\ \A d \in Clients, p \in Panes : Creates(d, p)' => Creates(d, p)
        /\ \A d \in Clients :
              Closer(d)' => Closer(d) /\ client'[d].pane = client[d].pane
    BY <2>2 DEF Creates, Creator, Closer
  <2> QED
    BY <1>2, <1>3, <2>1, <2>3, ApartKept
<1>10. ASSUME NEW c \in Clients, Sweep(c) \/ BeginRecover(c) PROVE Apart'
  BY <1>1, <1>10, CalmOps DEF Sweep, At, StepOK, BeginRecover, Calm
<1>11. ASSUME NEW c \in Clients, NEW p \in Panes,
              BeginCreate(c, p) \/ BeginClose(c, p) \/ BeginAttach(c, p)
       PROVE  Apart'
  <2>1. registered' = registered /\ layout' = layout /\ client[c].step = "idle"
    BY <1>11 DEF BeginCreate, BeginClose, BeginAttach, At, layoutVars
  <2>2. /\ \A d \in Clients : d # c => client'[d] = client[d]
        /\ client'[c].step \in {"request", "layout", "lookup"}
        /\ client'[c].op = "close" => client'[c].pane \in layout \cup registered
    <3> DEFINE Goal ==
          /\ \A d \in Clients : d # c => client'[d] = client[d]
          /\ client'[c].step \in {"request", "layout", "lookup"}
          /\ client'[c].op = "close" => client'[c].pane \in layout \cup registered
    <3>1. ASSUME client' = [client EXCEPT ![c] =
                     [@ EXCEPT !.op = "create", !.step = "request", !.pane = p]] PROVE Goal
      BY <1>1, <3>1 DEF TypeOK, Client
    <3>2. ASSUME NEW q \in layout,
                 client' = [client EXCEPT ![c] =
                     [@ EXCEPT !.op = "split", !.step = "request", !.pane = p, !.from = q]]
          PROVE  Goal
      BY <1>1, <3>2 DEF TypeOK, Client
    <3>3. ASSUME BeginClose(c, p) PROVE Goal
      BY <1>1, <3>3 DEF BeginClose, TypeOK, Client
    <3>4. ASSUME BeginAttach(c, p) PROVE Goal
      BY <1>1, <3>4 DEF BeginAttach, TypeOK, Client
    <3> QED
      BY <1>11, <3>1, <3>2, <3>3, <3>4 DEF BeginCreate
  <2>3. \A d \in Clients, q \in Panes : Creates(d, q)' => Creates(d, q) /\ d # c
    BY <2>2 DEF Creates, Creator
  <2>4. \A q \in registered' \cup layout', d \in Clients : ~Creates(d, q)'
    BY <1>2, <2>1, <2>3 DEF Apart
  <2>5. \A b, d \in Clients, q \in Panes :
           Closer(d)' /\ client'[d].pane = q => ~Creates(b, q)
    <3> SUFFICES ASSUME NEW b \in Clients, NEW d \in Clients, NEW q \in Panes, Closer(d)',
                        client'[d].pane = q
                 PROVE  ~Creates(b, q)
      OBVIOUS
    <3>1. CASE d = c
      BY <2>2, <3>1 DEF Apart, Closer
    <3>2. CASE d # c
      BY <2>2, <3>2 DEF Apart, Closer
    <3> QED
      BY <3>1, <3>2
  <2>6. \A d \in Clients : Closer(d)' => client'[d].pane \in Panes
    BY <1>2, <1>3, <2>2 DEF Closer
  <2>7. \A b, d \in Clients : Closer(d)' => ~Creates(b, client[d].pane)'
    <3> SUFFICES ASSUME NEW b \in Clients, NEW d \in Clients, Closer(d)'
                 PROVE  ~Creates(b, client[d].pane)'
      OBVIOUS
    <3>1. \A q \in Panes : q = client'[d].pane => ~Creates(b, q)'
      BY <2>3, <2>5
    <3> QED
      BY <2>6, <3>1 DEF Creates, Creator
  <2> QED
    BY <2>4, <2>7 DEF Apart, Closer
<1>12. ASSUME NEW p \in Panes, Work(p) \/ ProgramExits(p) PROVE Apart'
  <2>1. registered' = registered /\ layout' \subseteq layout /\ client' = client
    BY <1>12 DEF Work, ReportExit, NotifyExit, PruneExited, EndClosed, EndStopped, Escalate,
       ProgramExits, Prune, layoutVars
  <2> QED
    BY <1>2, <1>3, <2>1, ApartKept DEF Creates, Creator, Closer
<1>13. CASE Stop \/ Drain \/ Exit \/ UNCHANGED vars
  <2>1. registered' \subseteq registered /\ layout' = layout /\ client' = client
    BY <1>13 DEF Stop, Drain, Exit, vars, layoutVars
  <2> QED
    BY <1>2, <1>3, <2>1, ApartKept DEF Creates, Creator, Closer
<1> QED
  BY <1>5, <1>6, <1>7, <1>8, <1>9, <1>10, <1>11, <1>12, <1>13 DEF Next, Serve, Begin

-----------------------------------------------------------------------------
(* The invariant and the theorems.                                         *)

LEMMA InvariantInit == Init => Invariant
  BY TypedInit DEF Init, Invariant, Begun, Reads, ReadOK, Ends, Started, Names, Knows,
     NewClient, Creating, Updating, Ending

THEOREM InvariantHolds == Spec => []Invariant
<1>1. Invariant /\ [Next]_vars => Invariant'
  BY TypedStep, ReadsStep, BegunStep, EndsStep DEF Invariant
<1> QED
  BY <1>1, InvariantInit, PTL DEF Spec

\* Every variable of the host keeps its type, and no client tries an update of
\* the layout more than MaxAttempts times (`update_layout').
THEOREM TypeCorrect == Spec => []TypeOK
<1>1. Invariant => TypeOK
  BY DEF Invariant, Typed
<1> QED
  BY <1>1, InvariantHolds, PTL

\* Every pane the host drains has ended when the host is gone, its program too
\* unless the pane was being closed already, or the deadline passed before its
\* worker was finished, which is logged (`close_panes', `wait_closed').
THEOREM DrainedEnd == Spec => []DrainedProgramsEnd
<1>1. Invariant => DrainedProgramsEnd
  BY DEF Invariant, Ends, Finished, Typed, TypeOK, DrainedProgramsEnd
<1> QED
  BY <1>1, InvariantHolds, PTL

\* While no client recovers the whole layout, no program runs on unseen, whatever
\* fails, unless somebody could not close its pane and said so
\* (`forget_unregistered_pane', `abandon_created', the late reply; audit L3, L6).
THEOREM NoOrphanEver == ASSUME Calm PROVE Spec => []NoOrphan
<1>1. Init => Kept /\ Apart
  BY DEF Init, NewClient, Kept, Ended, OneCreator, Creator, Closings, ClosingOK, Ending,
     Registered, Guards, Apart
<1>2. Invariant /\ Kept /\ Apart /\ [Next]_vars => (Kept /\ Apart)'
  BY KeptStep, ApartStep
<1>3. Invariant /\ Kept => NoOrphan
  <2> SUFFICES ASSUME Invariant, Kept, NEW p \in Panes, worker[p] = "up",
                      program[p] = "running", ~stopping, p \notin layout, p \notin unclosed
               PROVE  \E c \in Clients :
                         client[c].pane = p /\ client[c].op # "attach" /\ Busy(c)
    BY DEF NoOrphan
  <2>1. PICK c \in Clients : Guard(c, p)
    BY DEF Kept, Guards, Guarded
  <2>2. StepOK(client[c])
    BY DEF Invariant, Typed
  <2>3. client[c].pane = p /\ client[c].op # "attach" /\ Busy(c)
    BY <2>1, <2>2 DEF Guard, Creator, Busy, StepOK, Ending
  <2> QED
    BY <2>3
<1> QED
  BY <1>1, <1>2, <1>3, InvariantHolds, PTL DEF Spec

\* Where requests are neither lost nor refused, every close takes effect: the
\* exceptions of NoOrphan and DrainedProgramsEnd are those two faults and no other
\* (`close_unregistered', `wait_closed', `forget_unregistered_pane').
THEOREM NothingGivenUp ==
    ASSUME Faults \cap {"lost", "stuck"} = {} PROVE Spec => [](unclosed = {})
<1>1. Init => unclosed = {}
  BY DEF Init
<1>2. unclosed = {} /\ [Next]_vars => (unclosed = {})'
  BY DEF Next, Serve, Begin, Work, CreatePane, RefreshPane, RegisterHook, InsertPane,
     AnswerCreate, ReadLayout, Write, Retry, EndUpdate, Forget, LookUpClosed, TellWorker,
     RemovePane, PruneClosed, Sweep, Attach, SeeEnd, BeginRecover, GiveUp, Leave, Detach,
     BeginCreate, BeginClose, BeginAttach, ReportExit, NotifyExit, PruneExited, EndClosed,
     EndStopped, Escalate, ProgramExits, Stop, Drain, Exit, TakesClose, IgnoresClose, GivesUp,
     Lost, stopVars, vars
<1> QED
  BY <1>1, <1>2, PTL DEF Spec

\* A prune is an edit of the layout as it is.
LEMMA PruneEdits ==
    ASSUME NEW p \in Panes, Prune(p)
    PROVE  Layout!Unlist(p) \/ UNCHANGED layoutVars
  BY DEF Prune, Layout!Unlist

\* So is what a client writes that compared its revision.
LEMMA WriteEdits ==
    ASSUME Invariant, "recover" \notin Ops, NEW c \in Clients, Write(c)
    PROVE  Layout!Next
<1> DEFINE cl == client[c]
<1>1. /\ cl \in Client /\ cl.step = "read" /\ cl.rev = revision
      /\ layout' = Edited(c) /\ revision' = revision + 1 /\ ~Unedited(c)
  BY DEF Write, Lost, GivesUp, At, Wins, Invariant, Typed, TypeOK
<1>2. cl.base = layout /\ cl.pane \in Panes /\ cl.op \in {"create", "split", "close"}
  <2>1. ReadOK(cl) /\ StepOK(cl)
    BY DEF Invariant, Typed, Reads
  <2>2. cl.op \in {"create", "split", "close"}
    BY <1>1, <2>1, HostAssumption DEF StepOK, Client, Updating
  <2> QED
    BY <1>1, <2>1, <2>2 DEF ReadOK, StepOK, Knows, Updating
<1>3. CASE cl.op \in {"create", "split"}
  <2>1. layout' = layout \cup {cl.pane}
    BY <1>1, <1>2, <1>3 DEF Edited
  <2> QED
    BY <1>1, <1>2, <2>1 DEF Layout!Next, Layout!List
<1>4. CASE cl.op = "close"
  <2>1. layout' = layout \ {cl.pane} /\ layout' # layout
    BY <1>1, <1>2, <1>4 DEF Edited, Unedited
  <2> QED
    BY <1>1, <1>2, <2>1 DEF Layout!Next, Layout!Unlist
<1> QED
  BY <1>2, <1>3, <1>4

LEMMA StepEdits ==
    ASSUME Invariant, "recover" \notin Ops, [Next]_vars
    PROVE  [Layout!Next]_<<layout, revision>>
<1>1. ASSUME NEW c \in Clients, Serve(c) PROVE Layout!Next \/ UNCHANGED layoutVars
  <2>1. CASE RegisterHook(c) \/ PruneClosed(c)
    <3>1. client[c].pane \in Panes
      BY <2>1 DEF RegisterHook, PruneClosed, At, Invariant, Typed, StepOK, Knows, Creating,
         Ending
    <3>2. Prune(client[c].pane) \/ UNCHANGED layoutVars
      BY <2>1 DEF RegisterHook, PruneClosed
    <3> QED
      BY <3>1, <3>2, PruneEdits DEF Layout!Next
  <2>2. CASE Write(c)
    BY <2>2, WriteEdits
  <2>3. CASE \/ CreatePane(c) \/ RefreshPane(c) \/ InsertPane(c) \/ AnswerCreate(c)
             \/ ReadLayout(c) \/ Retry(c) \/ EndUpdate(c) \/ Forget(c)
             \/ LookUpClosed(c) \/ TellWorker(c) \/ RemovePane(c) \/ Sweep(c)
             \/ Attach(c) \/ SeeEnd(c)
    BY <2>3 DEF CreatePane, RefreshPane, InsertPane, AnswerCreate, ReadLayout, Retry, EndUpdate,
       Forget, LookUpClosed, TellWorker, RemovePane, Sweep, Attach, SeeEnd, layoutVars
  <2> QED
    BY <1>1, <2>1, <2>2, <2>3 DEF Serve
<1>2. ASSUME NEW c \in Clients, Begin(c) PROVE UNCHANGED layoutVars
  BY <1>2 DEF Begin, BeginRecover, GiveUp, Leave, Detach, BeginCreate, BeginClose, BeginAttach
<1>3. ASSUME NEW p \in Panes, Work(p) \/ ProgramExits(p)
      PROVE  Layout!Next \/ UNCHANGED layoutVars
  <2>1. Prune(p) \/ UNCHANGED layoutVars
    BY <1>3 DEF Work, ReportExit, NotifyExit, PruneExited, EndClosed, EndStopped, Escalate,
       ProgramExits
  <2> QED
    BY <2>1, PruneEdits DEF Layout!Next
<1>4. Stop \/ Drain \/ Exit \/ UNCHANGED vars => UNCHANGED layoutVars
  BY DEF Stop, Drain, Exit, vars
<1> QED
  BY <1>1, <1>2, <1>3, <1>4 DEF Next, layoutVars

\* Without the recovery that replaces the whole layout, the host keeps the
\* layout as LayoutSpec says: no edit undoes another client's.
THEOREM LayoutRefined == ASSUME "recover" \notin Ops PROVE Spec => LayoutEdits
<1>1. Init => Layout!Init
  BY DEF Init, Layout!Init
<1>2. Invariant /\ [Next]_vars => [Layout!Next]_<<layout, revision>>
  BY StepEdits
<1> QED
  BY <1>1, <1>2, InvariantHolds, PTL DEF Spec, LayoutEdits, Layout!Spec
=============================================================================
