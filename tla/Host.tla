-------------------------------- MODULE Host --------------------------------
(***************************************************************************)
(* The multiplexer host: the panes it runs, the session layout it keeps for *)
(* its clients, and how it stops (crates/core/src/multiplexer/server.rs and  *)
(* layout_store.rs), with the clients that create, split, close, attach to   *)
(* and recover panes (layout.rs, client.rs, and the desktop's               *)
(* `reconcile_on_host').                                                    *)
(*                                                                          *)
(* A client carries out one operation.  While it waits for the host, the    *)
(* step it is at is that of the host thread that serves it.  A pane is      *)
(* reduced to the life of its worker and its program (see Pane), and a      *)
(* layout to the panes it lists.                                            *)
(***************************************************************************)
EXTENDS Naturals, FiniteSets

CONSTANTS
    Panes,        \* identifiers for new panes, all distinct
    Clients,      \* the clients
    Ops,          \* the operations the clients carry out in an instance
    MaxAttempts,  \* LAYOUT_ATTEMPTS (16 in the code)
    Mortal,       \* the panes whose programs may exit by themselves
    Faults        \* what may go wrong in an instance

ASSUME HostAssumption ==
    /\ MaxAttempts \in Nat \ {0}
    /\ Ops \subseteq {"create", "split", "close", "attach", "recover"}
    /\ Faults \subseteq {"leave", "late", "refresh", "lost", "stuck", "stop"}
    /\ Mortal \subseteq Panes

VARIABLES
    \* Each pane: its worker, its program, and `Pane::exit_hook'.
    worker, program, hook,
    reported,     \* the panes whose `info.exited' is set
    \* Server.
    registered,   \* Server::panes
    layout,       \* LayoutStore: the panes it lists
    revision,     \* LayoutStore: its revision
    stopping,     \* Server::stopping
    host,         \* "serving", "closing" once it has drained its panes, "down"
    drained,      \* the panes it drained
    unclosed,     \* history: the panes that somebody could not close, and said so
    client        \* what each client, or the thread serving it, is doing

paneVars   == <<worker, program, hook, reported>>
layoutVars == <<layout, revision>>
stopVars   == <<stopping, host, drained, unclosed>>
vars == <<paneVars, registered, layoutVars, stopVars, client>>

-----------------------------------------------------------------------------
NoPane == "no pane"

\* The steps of a Create before the host answers it, of an update of the
\* layout, and of a Close.
Creating == {"request", "starting", "started", "hooked", "inserted"}
Updating == {"layout", "read"}
Ending   == {"closing", "noted", "told", "removed"}
Steps == {"idle", "lookup", "attached", "sweep", "forget", "done"}
            \cup Creating \cup Updating \cup Ending

Client == [op : Ops \cup {"none"}, step : Steps,
           pane : Panes \cup {NoPane},   \* the pane it works on
           from : Panes \cup {NoPane},   \* the pane it splits
           live : SUBSET Panes, exited : SUBSET Panes,  \* what it was told exists
           base : SUBSET Panes, rev : Nat,              \* the layout as it read it
           tries : 0..MaxAttempts,
           late : BOOLEAN, left : BOOLEAN]  \* it gave up waiting, or is gone
NewClient == [op |-> "none", step |-> "idle", pane |-> NoPane, from |-> NoPane,
              live |-> {}, exited |-> {}, base |-> {}, rev |-> 0, tries |-> 0,
              late |-> FALSE, left |-> FALSE]

Init ==
    /\ worker = [p \in Panes |-> "none"] /\ program = [p \in Panes |-> "none"]
    /\ hook = [p \in Panes |-> "unset"] /\ reported = {}
    /\ registered = {} /\ layout = {} /\ revision = 0
    /\ stopping = FALSE /\ host = "serving" /\ drained = {} /\ unclosed = {}
    /\ client = [c \in Clients |-> NewClient]

At(c, step) == client[c].step = step /\ host # "down"
Goto(c, step) == client' = [client EXCEPT ![c].step = step]

\* The views the worker of p counts as attached.
Attached(p) == \E c \in Clients : client[c].step = "attached" /\ client[c].pane = p

\* LayoutStore::remove_pane: only a layout that lists the pane is written.
Prune(p) ==
    IF p \in layout THEN layout' = layout \ {p} /\ revision' = revision + 1
                    ELSE UNCHANGED layoutVars

\* Pane::close: a worker that still runs takes the Close.
Told(p) == [worker EXCEPT ![p] = IF @ = "up" THEN "closing" ELSE @]
TakesClose(p) == worker' = Told(p) /\ UNCHANGED unclosed

\* Its queue is full for as long as the request waits: whoever closes the pane
\* logs that it could not, or is answered so, and the pane runs on.
GivesUp(p) == unclosed' = unclosed \cup {p}
IgnoresClose(p) ==
    "stuck" \in Faults /\ worker[p] = "up" /\ GivesUp(p) /\ UNCHANGED worker

-----------------------------------------------------------------------------
(* What a client sets out to do.                                           *)

Fresh(p) == worker[p] = "none" /\ \A c \in Clients : client[c].pane # p

\* A split reads the layout first: the pane it splits must be listed.
BeginCreate(c, p) ==
    /\ At(c, "idle") /\ Fresh(p)
    /\ \/ /\ "create" \in Ops
          /\ client' = [client EXCEPT ![c] =
                 [@ EXCEPT !.op = "create", !.step = "request", !.pane = p]]
       \/ /\ "split" \in Ops
          /\ \E q \in layout : client' = [client EXCEPT ![c] =
                 [@ EXCEPT !.op = "split", !.step = "request", !.pane = p, !.from = q]]
    /\ UNCHANGED <<paneVars, registered, layoutVars, stopVars>>

\* The pane is one the client saw listed or running.
BeginClose(c, p) ==
    /\ "close" \in Ops /\ At(c, "idle") /\ p \in layout \cup registered
    /\ client' = [client EXCEPT ![c] =
           [@ EXCEPT !.op = "close", !.step = "layout", !.pane = p]]
    /\ UNCHANGED <<paneVars, registered, layoutVars, stopVars>>

BeginAttach(c, p) ==
    /\ "attach" \in Ops /\ At(c, "idle") /\ p \in layout \cup registered
    /\ client' = [client EXCEPT ![c] =
           [@ EXCEPT !.op = "attach", !.step = "lookup", !.pane = p]]
    /\ UNCHANGED <<paneVars, registered, layoutVars, stopVars>>

\* `reconcile_on_host' lists the panes once, before anything else.
BeginRecover(c) ==
    /\ "recover" \in Ops /\ At(c, "idle") /\ ~stopping
    /\ client' = [client EXCEPT ![c] =
           [@ EXCEPT !.op = "recover", !.step = "sweep",
                     !.live = registered \ reported, !.exited = registered \cap reported]]
    /\ UNCHANGED <<paneVars, registered, layoutVars, stopVars>>

-----------------------------------------------------------------------------
(* Create, on the host.                                                    *)

\* `stopping' is read when the request arrives, and not again.
CreatePane(c) ==
    LET p == client[c].pane
    IN  /\ At(c, "request")
        /\ IF stopping
           THEN Goto(c, "done") /\ UNCHANGED <<worker, program>>
           ELSE /\ Goto(c, "starting")
                /\ worker' = [worker EXCEPT ![p] = "up"]
                /\ program' = [program EXCEPT ![p] = "running"]
        /\ UNCHANGED <<hook, reported, registered, layoutVars, stopVars>>

\* The first state of a pane that answers; one that does not is closed again
\* (`close_unregistered').
RefreshPane(c) ==
    LET p == client[c].pane
    IN  /\ At(c, "starting")
        /\ \/ Goto(c, "started") /\ UNCHANGED <<worker, unclosed>>
           \/ /\ "refresh" \in Faults /\ Goto(c, "done")
              /\ TakesClose(p) \/ IgnoresClose(p)
        /\ UNCHANGED <<program, hook, reported, registered, layoutVars, stopping, host,
                       drained>>

\* A pane that already exited runs the hook at once; nobody is attached to it.
RegisterHook(c) ==
    LET p == client[c].pane
    IN  /\ At(c, "started") /\ Goto(c, "hooked")
        /\ IF p \in reported
           THEN hook' = [hook EXCEPT ![p] = "ran"] /\ Prune(p)
           ELSE hook' = [hook EXCEPT ![p] = "set"] /\ UNCHANGED layoutVars
        /\ UNCHANGED <<worker, program, reported, registered, stopVars>>

InsertPane(c) ==
    /\ At(c, "hooked") /\ Goto(c, "inserted")
    /\ registered' = registered \cup {client[c].pane}
    /\ UNCHANGED <<paneVars, layoutVars, stopVars>>

\* A mutant of the next action: nobody looks whether the client is still there.
AnswerBlindly(c) ==
    /\ At(c, "inserted")
    /\ Goto(c, IF client[c].left THEN "done"
               ELSE IF client[c].late THEN "closing" ELSE "layout")
    /\ UNCHANGED <<paneVars, registered, layoutVars, stopVars>>

\* The answer finds the client waiting; or one that gave up waiting and closes
\* the pane when the late reply comes; or nobody, and the host abandons the pane.
AnswerCreate(c) ==
    LET p == client[c].pane
    IN  /\ At(c, "inserted")
        /\ IF client[c].left
           THEN /\ Goto(c, "removed")
                /\ registered' = registered \ {p}
                /\ TakesClose(p) \/ IgnoresClose(p)
           ELSE /\ Goto(c, IF client[c].late THEN "closing" ELSE "layout")
                /\ UNCHANGED <<registered, worker, unclosed>>
        /\ UNCHANGED <<program, hook, reported, layoutVars, stopping, host, drained>>

GiveUp(c) ==
    /\ "late" \in Faults /\ client[c].step \in Creating
    /\ ~client[c].late /\ ~client[c].left
    /\ client' = [client EXCEPT ![c].late = TRUE]
    /\ UNCHANGED <<paneVars, registered, layoutVars, stopVars>>

Leave(c) ==
    /\ "leave" \in Faults /\ client[c].step \in Creating /\ ~client[c].left
    /\ client' = [client EXCEPT ![c].left = TRUE]
    /\ UNCHANGED <<paneVars, registered, layoutVars, stopVars>>

-----------------------------------------------------------------------------
(* `update_layout': read, edit a copy, compare and set, retry.              *)

\* A client whose new pane could not be listed looks again before it gives it up.
UpdateFails(c) == IF client[c].op \in {"create", "split"} THEN "forget" ELSE "done"
UpdateEnds(c) == IF client[c].op = "close" THEN "closing" ELSE "done"

\* A request or its reply may be lost; the client is told that it failed.
Lost == "lost" \in Faults

ReadLayout(c) ==
    /\ At(c, "layout")
    /\ \/ /\ ~stopping
          /\ client' = [client EXCEPT ![c] =
                 [@ EXCEPT !.step = "read", !.base = layout, !.rev = revision]]
       \/ (stopping \/ Lost) /\ Goto(c, UpdateFails(c))
    /\ UNCHANGED <<paneVars, registered, layoutVars, stopVars>>

\* What the client makes of the layout it read.  A recovery lists exactly the
\* panes it was told are alive; a new pane is placed even when it was listed.
Edited(c) ==
    LET cl == client[c]
    IN  CASE cl.op \in {"create", "split"} -> cl.base \cup {cl.pane}
          [] cl.op = "close" -> cl.base \ {cl.pane}
          [] OTHER -> cl.live
Impossible(c) == client[c].op = "split" /\ client[c].from \notin client[c].base
Unedited(c) == client[c].op \in {"close", "recover"} /\ Edited(c) = client[c].base

\* A mutant of the next operator: the host does not compare.
WinsAlways(c) == TRUE
Wins(c) == client[c].rev = revision

\* A close whose write took effect and whose reply was lost ends there.
Write(c) ==
    /\ At(c, "read") /\ ~stopping /\ ~Impossible(c) /\ ~Unedited(c) /\ Wins(c)
    /\ layout' = Edited(c) /\ revision' = revision + 1
    /\ \/ Goto(c, UpdateEnds(c)) /\ UNCHANGED unclosed
       \/ /\ Lost /\ Goto(c, UpdateFails(c))
          /\ IF client[c].op = "close" THEN GivesUp(client[c].pane) ELSE UNCHANGED unclosed
    /\ UNCHANGED <<paneVars, registered, stopping, host, drained>>

\* A mutant of the next action: one attempt too many.
RetryOnceMore(c) ==
    /\ At(c, "read") /\ ~stopping /\ ~Impossible(c) /\ ~Unedited(c) /\ ~Wins(c)
    /\ client' = [client EXCEPT ![c] =
           [@ EXCEPT !.tries = client[c].tries + 1,
                     !.step = IF client[c].tries < MaxAttempts THEN "layout"
                                                              ELSE UpdateFails(c)]]
    /\ UNCHANGED <<paneVars, registered, layoutVars, stopVars>>

Retry(c) ==
    /\ At(c, "read") /\ ~stopping /\ ~Impossible(c) /\ ~Unedited(c) /\ ~Wins(c)
    /\ client' = [client EXCEPT ![c] =
           [@ EXCEPT !.tries = client[c].tries + 1,
                     !.step = IF client[c].tries + 1 < MaxAttempts THEN "layout"
                                                                  ELSE UpdateFails(c)]]
    /\ UNCHANGED <<paneVars, registered, layoutVars, stopVars>>

\* The edit is impossible or changes nothing, or the host stops.
EndUpdate(c) ==
    /\ At(c, "read")
    /\ stopping \/ Impossible(c) \/ Unedited(c)
    /\ Goto(c, IF Unedited(c) THEN UpdateEnds(c) ELSE UpdateFails(c))
    /\ UNCHANGED <<paneVars, registered, layoutVars, stopVars>>

\* A mutant of the next action: a failed update is believed.
ForgetBlindly(c) ==
    /\ At(c, "forget") /\ Goto(c, "done")
    /\ UNCHANGED <<paneVars, registered, layoutVars, stopVars>>

\* `forget_unregistered_pane'.  When it cannot look either, the pane is left alone:
\* `its saved state could not be verified'.
Forget(c) ==
    /\ At(c, "forget")
    /\ \/ /\ Goto(c, IF stopping \/ client[c].pane \in layout THEN "done" ELSE "closing")
          /\ UNCHANGED unclosed
       \/ Lost /\ Goto(c, "done") /\ GivesUp(client[c].pane)
    /\ UNCHANGED <<paneVars, registered, layoutVars, stopping, host, drained>>

-----------------------------------------------------------------------------
(* Close, on the host.                                                     *)

AfterClose(c) == IF client[c].op = "recover" THEN "sweep" ELSE "done"

\* A pane that is not registered is only pruned.  A request that does not reach the
\* host leaves the pane as it is.
LookUpClosed(c) ==
    /\ At(c, "closing")
    /\ \/ /\ Goto(c, IF stopping THEN AfterClose(c)
                     ELSE IF client[c].pane \in registered THEN "noted" ELSE "removed")
          /\ UNCHANGED unclosed
       \/ Lost /\ Goto(c, AfterClose(c)) /\ GivesUp(client[c].pane)
    /\ UNCHANGED <<paneVars, registered, layoutVars, stopping, host, drained>>

\* A worker that does not take the Close in time leaves the pane registered.
TellWorker(c) ==
    LET p == client[c].pane
    IN  /\ At(c, "noted")
        /\ \/ Goto(c, "told") /\ TakesClose(p)
           \/ Goto(c, AfterClose(c)) /\ IgnoresClose(p)
        /\ UNCHANGED <<program, hook, reported, registered, layoutVars, stopping, host,
                       drained>>

RemovePane(c) ==
    /\ At(c, "told") /\ Goto(c, "removed")
    /\ registered' = registered \ {client[c].pane}
    /\ UNCHANGED <<paneVars, layoutVars, stopVars>>

PruneClosed(c) ==
    /\ At(c, "removed") /\ Goto(c, AfterClose(c))
    /\ Prune(client[c].pane)
    /\ UNCHANGED <<paneVars, registered, stopVars>>

\* A recovery closes the panes it was told had exited, then edits the layout.
Sweep(c) ==
    /\ At(c, "sweep")
    /\ \/ client[c].exited = {} /\ Goto(c, "layout")
       \/ \E p \in client[c].exited : client' = [client EXCEPT ![c] =
              [@ EXCEPT !.step = "closing", !.pane = p,
                        !.exited = client[c].exited \ {p}]]
    /\ UNCHANGED <<paneVars, registered, layoutVars, stopVars>>

-----------------------------------------------------------------------------
(* An attached view (see Pane for the subscription).                       *)

Attach(c) ==
    LET p == client[c].pane
    IN  /\ At(c, "lookup")
        /\ Goto(c, IF ~stopping /\ p \in registered /\ worker[p] \in {"up", "closing"}
                   THEN "attached" ELSE "done")
        /\ UNCHANGED <<paneVars, registered, layoutVars, stopVars>>

\* The view closes a pane that ends, and keeps one that ends with its host.
SeeEnd(c) ==
    LET p == client[c].pane
    IN  /\ At(c, "attached") /\ p \in reported
        /\ Goto(c, IF worker[p] = "stopped" THEN "done" ELSE "closing")
        /\ UNCHANGED <<paneVars, registered, layoutVars, stopVars>>

Detach(c) ==
    /\ "leave" \in Faults /\ At(c, "attached") /\ Goto(c, "done")
    /\ UNCHANGED <<paneVars, registered, layoutVars, stopVars>>

-----------------------------------------------------------------------------
(* The panes' programs and workers.                                        *)

Running(p) == worker[p] \in {"up", "closing", "stopping"} /\ host # "down"
Owes(p) == p \in reported /\ hook[p] = "set"    \* notify_exit comes next

ProgramExits(p) ==
    /\ p \in Mortal /\ program[p] = "running"
    /\ program' = [program EXCEPT ![p] = "ended"]
    /\ UNCHANGED <<worker, hook, reported, registered, layoutVars, stopVars, client>>

ReportExit(p) ==
    /\ Running(p) /\ program[p] = "ended" /\ p \notin reported
    /\ reported' = reported \cup {p}
    /\ UNCHANGED <<worker, program, hook, registered, layoutVars, stopVars, client>>

\* Whether a view is attached is read before the hook runs.
NotifyExit(p) ==
    /\ Running(p) /\ Owes(p)
    /\ hook' = [hook EXCEPT ![p] = IF Attached(p) THEN "ran" ELSE "prune"]
    /\ UNCHANGED <<worker, program, reported, registered, layoutVars, stopVars, client>>

PruneExited(p) ==
    /\ Running(p) /\ hook[p] = "prune"
    /\ hook' = [hook EXCEPT ![p] = "ran"]
    /\ Prune(p)
    /\ UNCHANGED <<worker, program, reported, registered, stopVars, client>>

\* A closed worker hangs up and does not wait: a program that ignores that is
\* killed by a timer of the host.
EndClosed(p) ==
    /\ worker[p] = "closing" /\ host # "down" /\ ~Owes(p) /\ hook[p] # "prune"
    /\ worker' = [worker EXCEPT ![p] = "closed"]
    /\ program' = [program EXCEPT ![p] = IF @ = "running" THEN "hungup" ELSE @]
    /\ reported' = reported \cup {p}
    /\ UNCHANGED <<hook, registered, layoutVars, stopVars, client>>

Escalate(p) ==
    /\ program[p] = "hungup" /\ host # "down"
    /\ program' = [program EXCEPT ![p] = "ended"]
    /\ UNCHANGED <<worker, hook, reported, registered, layoutVars, stopVars, client>>

\* A mutant of the next action: the program is hung up and not waited for.
EndUnwaited(p) ==
    /\ worker[p] = "stopping" /\ host # "down" /\ ~Owes(p) /\ hook[p] # "prune"
    /\ worker' = [worker EXCEPT ![p] = "stopped"]
    /\ program' = [program EXCEPT ![p] = IF @ = "running" THEN "hungup" ELSE @]
    /\ reported' = reported \cup {p}
    /\ UNCHANGED <<hook, registered, layoutVars, stopVars, client>>

EndStopped(p) ==
    /\ worker[p] = "stopping" /\ host # "down" /\ ~Owes(p) /\ hook[p] # "prune"
    /\ worker' = [worker EXCEPT ![p] = "stopped"]
    /\ program' = [program EXCEPT ![p] = "ended"]
    /\ reported' = reported \cup {p}
    /\ UNCHANGED <<hook, registered, layoutVars, stopVars, client>>

-----------------------------------------------------------------------------
(* How the host stops.                                                     *)

Stop ==
    /\ "stop" \in Faults /\ ~stopping /\ stopping' = TRUE
    /\ UNCHANGED <<paneVars, registered, layoutVars, host, drained, unclosed, client>>

\* The panes are taken out of the map and each is sent a Shutdown, which a worker
\* that was told to close never reads, and one that is stuck does not take.
Drain ==
    /\ stopping /\ host = "serving" /\ host' = "closing"
    /\ drained' = registered /\ registered' = {}
    /\ \E deaf \in SUBSET registered :
          /\ deaf # {} => "stuck" \in Faults
          /\ worker' = [p \in Panes |-> IF p \in registered \ deaf /\ worker[p] = "up"
                                        THEN "stopping" ELSE worker[p]]
    /\ UNCHANGED <<program, hook, reported, layoutVars, stopping, unclosed, client>>

Finished(p) == worker[p] \in {"closed", "stopped"}

\* A mutant of the next action: it waits for every pane to obey its Shutdown.
ExitWhenStopped ==
    /\ host = "closing" /\ \A p \in drained : worker[p] = "stopped"
    /\ host' = "down"
    /\ UNCHANGED <<paneVars, registered, layoutVars, stopping, drained, unclosed, client>>

\* `wait_closed': a pane whose worker is not finished by the deadline is logged, and
\* the host goes down without it.
Exit ==
    /\ host = "closing"
    /\ (\A p \in drained : Finished(p)) \/ "stuck" \in Faults
    /\ host' = "down"
    /\ unclosed' = unclosed \cup {p \in drained : ~Finished(p)}
    /\ UNCHANGED <<paneVars, registered, layoutVars, stopping, drained, client>>

-----------------------------------------------------------------------------
\* What a client and the thread that serves it do without being asked again.
Serve(c) ==
    \/ CreatePane(c) \/ RefreshPane(c) \/ RegisterHook(c) \/ InsertPane(c)
    \/ AnswerCreate(c) \/ ReadLayout(c) \/ Write(c) \/ Retry(c) \/ EndUpdate(c)
    \/ Forget(c) \/ LookUpClosed(c) \/ TellWorker(c) \/ RemovePane(c)
    \/ PruneClosed(c) \/ Sweep(c) \/ Attach(c) \/ SeeEnd(c)
Begin(c) ==
    \/ BeginRecover(c) \/ GiveUp(c) \/ Leave(c) \/ Detach(c)
    \/ \E p \in Panes : BeginCreate(c, p) \/ BeginClose(c, p) \/ BeginAttach(c, p)
Work(p) ==
    \/ ReportExit(p) \/ NotifyExit(p) \/ PruneExited(p)
    \/ EndClosed(p) \/ EndStopped(p) \/ Escalate(p)

Next ==
    \/ \E c \in Clients : Serve(c) \/ Begin(c)
    \/ \E p \in Panes : Work(p) \/ ProgramExits(p)
    \/ Stop \/ Drain \/ Exit

Spec == Init /\ [][Next]_vars

\* The host's threads and the requests under way keep going.  Nobody has to
\* begin anything, and no program has to exit.
Fairness ==
    /\ WF_vars(Drain) /\ WF_vars(Exit)
    /\ \A c \in Clients : WF_vars(Serve(c))
    /\ \A p \in Panes : WF_vars(Work(p))

FairSpec == Spec /\ Fairness

-----------------------------------------------------------------------------
(* Properties.                                                             *)

\* Every variable has its type, and the host lists only panes it started.
TypeOK ==
    /\ worker \in [Panes -> {"none", "up", "closing", "closed", "stopping", "stopped"}]
    /\ program \in [Panes -> {"none", "running", "hungup", "ended"}]
    /\ hook \in [Panes -> {"unset", "set", "prune", "ran"}]
    /\ reported \subseteq Panes /\ registered \subseteq Panes /\ drained \subseteq Panes
    /\ unclosed \subseteq Panes
    /\ layout \subseteq Panes /\ revision \in Nat
    /\ stopping \in BOOLEAN /\ host \in {"serving", "closing", "down"}
    /\ client \in [Clients -> Client]

\* The layout implements LayoutSpec: no client's edit undoes another's, and a
\* prune by the host is never overwritten by a client that read before it
\* (`compare_and_set', `remove_pane').
Layout == INSTANCE LayoutSpec WITH listed <- layout, version <- revision
LayoutEdits == Layout!Spec

Busy(c) == client[c].step \notin {"idle", "attached", "done"}

\* No program runs on unseen and unsaid: while the host serves, a pane that runs is
\* listed in the layout, or somebody who created or closes it is still at work on
\* it (audit L3, L6).  Excepted are the panes somebody could not close, and said so:
\* the code leaves them running (`forget_unregistered_pane', `close_unregistered').
NoOrphan ==
    \A p \in Panes :
        worker[p] = "up" /\ program[p] = "running" /\ ~stopping /\ p \notin layout =>
            \/ \E c \in Clients :
                  client[c].pane = p /\ client[c].op # "attach" /\ Busy(c)
            \/ p \in unclosed

\* Shutdown waits for every pane it finds: when the host is gone, each of their
\* programs has ended, unless the pane was being closed already, whose program
\* was only hung up (`close_panes', audit L1).  Excepted is the pane whose worker
\* was not finished by the deadline, which is logged.
DrainedProgramsEnd ==
    host = "down" =>
        \A p \in drained :
            \/ program[p] = "ended"
            \/ program[p] = "hungup" /\ worker[p] = "closed"
            \/ p \in unclosed /\ ~Finished(p)

\* A pane created for a client that gave up or left before the answer is closed,
\* and not left running (`abandon_created', the late reply; audit L3): its worker
\* ends, or it was asked to and did not take the request, which is said.
GivenUpCreatesEnd ==
    \A c \in Clients, p \in Panes :
        (client[c].pane = p /\ client[c].step \in Creating /\ (client[c].late \/ client[c].left))
            ~> host = "down" \/ worker[p] = "none" \/ Finished(p) \/ p \in unclosed

\* A host that is asked to stop does, whatever its clients and panes are doing.
ShutdownEnds == stopping ~> host = "down"

\* What `reconcile' says: a pane that is alive is listed once nobody is at work,
\* in the place a client gave it or among the recovered sessions.
LivePanesListed ==
    \A p \in registered \ reported :
        p \notin layout /\ ~stopping =>
            \E c \in Clients : Busy(c) \/ (client[c].op = "close" /\ client[c].pane = p)
=============================================================================
