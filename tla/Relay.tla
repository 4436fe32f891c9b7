------------------------------- MODULE Relay -------------------------------
(***************************************************************************)
(* The relay (crates/relay): the hub that routes sealed packets between    *)
(* the sockets of paired devices, the socket loop `serve', and the API     *)
(* calls that pair devices, remove a pairing and remove a device.  The     *)
(* database keeps the registered devices, the links between them and the   *)
(* open pairings; the hub keeps, for every connected device, a copy of the *)
(* peers the database linked it with.  The mutex `gate' makes changing the *)
(* database and then the hub one step for every other call and for a       *)
(* socket that is about to connect; routing and disconnecting never take   *)
(* it.                                                                     *)
(***************************************************************************)
EXTENDS Integers, Sequences, FiniteSets

CONSTANTS
  Hosts, Clients,  \* the registered devices, by kind
  Sockets,         \* one for every call of `serve'; its identity is its serial
  Owner,           \* the device that opens each socket
  Ops,             \* which of the calls are made
  Removable,       \* the devices that remove themselves
  QueueSize,       \* QUEUE, the frames a device may have waiting
  NoSocket, NoOffer, Open, Free, ApiCall

Devices == Hosts \cup Clients

ASSUME RelayAssumption ==
  /\ QueueSize \in Nat \ {0}
  /\ Ops \subseteq {"approve", "unpair", "remove"}
  /\ Removable \subseteq Devices
  /\ NoSocket \notin Sockets
  /\ Owner \in [Sockets -> Devices]
  /\ {NoOffer, Open} \cap Devices = {} /\ NoOffer # Open
  /\ {Free, ApiCall} \cap Sockets = {} /\ Free # ApiCall
  /\ Hosts # {} /\ Hosts \cap Clients = {} /\ IsFiniteSet(Devices)

VARIABLES
  registered,  \* the devices in remote_devices
  links,       \* the pairs in remote_links
  offer,       \* each host's pairing: NoOffer, Open, or who claimed it
  gate,        \* who holds the mutex: Free, ApiCall, or a socket's loop
  conn,        \* Hub::connections: each device's socket, or NoSocket
  peers,       \* the peers of its connection
  stale,       \* history: of whom a call changed the database, and not its connection
  call,        \* the API call that holds it: what it does, for whom, how far it is
  at,          \* where each socket's loop is
  known,       \* the peers its lookup found
  slow,        \* the peer, and its socket, whose queue `route' found full
  queue,       \* the frames waiting for the socket's writer
  reading,     \* does the writer still take frames off the queue?
  told,        \* history: the devices a connected socket was last told are online
  missed       \* history: did a connected socket's queue ever refuse a frame?

database == <<registered, links, offer>>
hub      == <<conn, peers, stale>>
loops    == <<at, known, slow>>
mail     == <<queue, reading, told, missed>>
vars     == <<database, gate, hub, call, loops, mail>>

Frames == {"frame", "close"}
Stages == {"idle", "first", "second", "hub"}
Places == {"new", "lookup", "live", "slow", "leaving", "ended"}

\* Db::peers
PeersOf(d) == {p \in Devices \ {d} : {d, p} \in links}
Online(d)  == conn[d] # NoSocket

AnyDevice == CHOOSE d \in Devices : TRUE

NoCall == [op |-> "approve", by |-> AnyDevice, with |-> AnyDevice,
           stage |-> "idle", left |-> {}]

TypeOK ==
  /\ registered \subseteq Devices
  /\ \A l \in links : l \subseteq registered /\ Cardinality(l) = 2
  /\ offer \in [Hosts -> Clients \cup {NoOffer, Open}]
  /\ gate \in Sockets \cup {Free, ApiCall}
  /\ gate = ApiCall <=> call # NoCall
  /\ conn \in [Devices -> Sockets \cup {NoSocket}]
  /\ peers \in [Devices -> SUBSET Devices]
  /\ stale \in [Devices -> SUBSET Devices]
  /\ call \in [op : {"approve", "unpair", "remove"}, by : Devices, with : Devices,
              stage : Stages, left : SUBSET Devices]
  /\ at \in [Sockets -> Places]
  /\ known \in [Sockets -> SUBSET Devices]
  /\ slow \in [Sockets -> (Devices \X Sockets) \cup {NoSocket}]
  /\ queue \in [Sockets -> Seq(Frames)]
  /\ \A s \in Sockets : Len(queue[s]) =< QueueSize
  /\ reading \in [Sockets -> BOOLEAN]
  /\ told \in [Sockets -> SUBSET Devices]
  /\ missed \in [Sockets -> BOOLEAN]

Init ==
  /\ registered = Devices /\ links = {} /\ offer = [h \in Hosts |-> NoOffer]
  /\ gate = Free
  /\ conn = [d \in Devices |-> NoSocket] /\ peers = [d \in Devices |-> {}]
  /\ stale = [d \in Devices |-> {}]
  /\ call = NoCall
  /\ at = [s \in Sockets |-> "new"]
  /\ known = [s \in Sockets |-> {}] /\ slow = [s \in Sockets |-> NoSocket]
  /\ queue = [s \in Sockets |-> <<>>] /\ reading = [s \in Sockets |-> TRUE]
  /\ told = [s \in Sockets |-> {}] /\ missed = [s \in Sockets |-> FALSE]
-----------------------------------------------------------------------------
(* Sending: `try_send' drops what does not fit, or what nobody reads. *)

Fits(s, out) == reading[s] /\ Len(queue[s]) + Len(out) =< QueueSize

\* Each socket s is sent out[s]; `up' and `down' say which devices the events
\* among them announce.
Deliver(out, up, down) ==
  /\ queue' = [s \in Sockets |->
       IF ~reading[s] THEN queue[s]
       ELSE IF Fits(s, out[s]) THEN queue[s] \o out[s]
       ELSE SubSeq(queue[s] \o out[s], 1, QueueSize)]
  /\ missed' = [s \in Sockets |->
       conn'[Owner[s]] = s /\ (missed[s] \/ (out[s] # <<>> /\ ~Fits(s, out[s])))]
  /\ told' = [s \in Sockets |->
       IF conn'[Owner[s]] = s THEN (told[s] \cup up[s]) \ down[s] ELSE {}]
  /\ UNCHANGED reading

Nobody      == [s \in Sockets |-> {}]
Nothing     == [s \in Sockets |-> <<>>]
Event(some) == [s \in Sockets |-> IF some[s] = {} THEN <<>> ELSE <<"frame">>]

\* Mutant: the peers are looked at after the connection was removed.
GoneUnheard(d) == Nobody

\* Hub::announce_gone: to the peers of d, as d had them.
Gone(d) == [s \in Sockets |-> IF \E p \in peers[d] \ {d} : conn[p] = s THEN {d} ELSE {}]

\* Mutant: without a look at the serial.
DisconnectAny(d, s) ==
  /\ conn' = [conn EXCEPT ![d] = NoSocket]
  /\ peers' = [peers EXCEPT ![d] = {}] /\ stale' = [stale EXCEPT ![d] = {}]
  /\ Deliver(Event(Gone(d)), Nobody, Gone(d))

\* Hub::disconnect: only while s is still the device's socket.
Disconnect(d, s) ==
  IF conn[d] = s
  THEN /\ conn' = [conn EXCEPT ![d] = NoSocket]
       /\ peers' = [peers EXCEPT ![d] = {}] /\ stale' = [stale EXCEPT ![d] = {}]
       /\ Deliver(Event(Gone(d)), Nobody, Gone(d))
  ELSE UNCHANGED <<hub, queue, missed, told, reading>>

\* Hub::connect
Register(d, s) ==
  LET mutual == {p \in known[s] : Online(p) /\ d \in peers[p]}
      news   == [t \in Sockets |-> IF \E p \in mutual : conn[p] = t THEN {d} ELSE {}]
  IN /\ conn' = [conn EXCEPT ![d] = s]
     /\ peers' = [peers EXCEPT ![d] = known[s]] /\ stale' = [stale EXCEPT ![d] = {}]
     /\ Deliver([t \in Sockets |->
                   IF t = s THEN [i \in 1..Cardinality(mutual) + 1 |-> "frame"]
                   ELSE IF conn[d] = t THEN <<"close">>
                   ELSE Event(news)[t]],
                [t \in Sockets |-> IF t = s THEN mutual ELSE news[t]],
                Nobody)

\* Hub::kick
Kick(d) ==
  IF ~Online(d) THEN UNCHANGED <<hub, mail>>
  ELSE /\ conn' = [conn EXCEPT ![d] = NoSocket]
       /\ peers' = [peers EXCEPT ![d] = {}] /\ stale' = [stale EXCEPT ![d] = {}]
       /\ Deliver([Event(Gone(d)) EXCEPT ![conn[d]] = <<"close">>], Nobody, Gone(d))

\* Each of a and b that is online, with the other one.
Sides(a, b) ==
  [s \in Sockets |-> IF conn[a] = s THEN {b} ELSE IF conn[b] = s THEN {a} ELSE {}]

\* What a call says of a pair sets right what an earlier one did not get to say.
SetRight(a, b) == stale' = [stale EXCEPT ![a] = @ \ {b}, ![b] = @ \ {a}]

\* Hub::authorize
Authorize(a, b) ==
  /\ UNCHANGED conn /\ SetRight(a, b)
  /\ peers' = [d \in Devices |-> IF ~Online(d) THEN peers[d]
                                 ELSE IF d = a THEN peers[d] \cup {b}
                                 ELSE IF d = b THEN peers[d] \cup {a} ELSE peers[d]]
  /\ Deliver(Event(Sides(a, b)),
             [s \in Sockets |-> {d \in Sides(a, b)[s] : Online(d)}],
             [s \in Sockets |-> {d \in Sides(a, b)[s] : ~Online(d)}])

\* Hub::revoke
Revoke(a, b) ==
  /\ UNCHANGED conn /\ SetRight(a, b)
  /\ peers' = [peers EXCEPT ![a] = @ \ {b}, ![b] = @ \ {a}]
  /\ Deliver(Event(Sides(a, b)), Nobody, Sides(a, b))
-----------------------------------------------------------------------------
(* The API calls. *)

\* A call gets the gate.  `Authed' found its caller registered when it came,
\* which may not be so any more when its turn comes.
Begin(op, by, with) ==
  /\ call = NoCall /\ gate = Free /\ op \in Ops
  /\ CASE op = "approve" -> by \in Hosts /\ with \in Clients
       [] op = "unpair"  -> with # by
       [] op = "remove"  -> with = by /\ by \in Removable
  /\ call' = [op |-> op, by |-> by, with |-> with, stage |-> "first", left |-> {}]
  /\ gate' = ApiCall
  /\ UNCHANGED <<database, hub, loops, mail>>

Step(op, from, to) ==
  /\ call.op = op /\ call.stage = from
  /\ call' = IF to = "idle" THEN NoCall ELSE [call EXCEPT !.stage = to]
  /\ gate' = IF to = "idle" THEN Free ELSE gate
  /\ UNCHANGED loops

\* unpair: first the link, then the pairings that could be polled, then the hub.
UnpairLinks ==
  /\ Step("unpair", "first", "second")
  /\ links' = links \ {{call.by, call.with}}
  /\ UNCHANGED <<registered, offer, hub, mail>>

UnpairOffers ==
  /\ Step("unpair", "second", "hub")
  /\ offer' = [h \in Hosts |-> IF {h, offer[h]} = {call.by, call.with}
                               THEN NoOffer ELSE offer[h]]
  /\ UNCHANGED <<registered, links, hub, mail>>

UnpairHub ==
  /\ Step("unpair", "hub", "idle")
  /\ Revoke(call.by, call.with)
  /\ UNCHANGED database

\* approve: one transaction, refused unless this client claimed the offer.
Approve ==
  /\ Step("approve", "first", "hub")
  /\ offer[call.by] = call.with
  /\ links' = links \cup {{call.by, call.with}}
  /\ offer' = [offer EXCEPT ![call.by] = NoOffer]
  /\ UNCHANGED <<registered, hub, mail>>

ApproveRefused ==
  /\ Step("approve", "first", "idle")
  /\ offer[call.by] # call.with
  /\ UNCHANGED <<database, hub, mail>>

ApproveHub ==
  /\ Step("approve", "hub", "idle")
  /\ Authorize(call.by, call.with)
  /\ UNCHANGED database

\* Mutant: the peers are read after the rows that say so are deleted.
RemoveLookupLate ==
  /\ call.op = "remove" /\ call.stage = "first"
  /\ call' = [call EXCEPT !.stage = "second"]
  /\ UNCHANGED <<database, gate, hub, loops, mail>>

\* delete_self: the peers are read before the rows that say so are deleted.
RemoveLookup ==
  /\ call.op = "remove" /\ call.stage = "first"
  /\ call' = [call EXCEPT !.stage = "second", !.left = PeersOf(call.by)]
  /\ UNCHANGED <<database, gate, hub, loops, mail>>

\* Mutant: the links outlive their device.
RemoveRowOnly ==
  LET d == call.by IN
  /\ Step("remove", "second", "hub")
  /\ registered' = registered \ {d}
  /\ offer' = [h \in Hosts |-> IF h = d \/ offer[h] = d THEN NoOffer ELSE offer[h]]
  /\ UNCHANGED <<links, hub, mail>>

RemoveRow ==
  LET d == call.by IN
  /\ Step("remove", "second", "hub")
  /\ registered' = registered \ {d}
  /\ links' = {l \in links : d \notin l}
  /\ offer' = [h \in Hosts |-> IF h = d \/ offer[h] = d THEN NoOffer ELSE offer[h]]
  /\ UNCHANGED <<hub, mail>>

RemovePeer(p) ==
  /\ call.op = "remove" /\ call.stage = "hub" /\ p \in call.left
  /\ call' = [call EXCEPT !.left = @ \ {p}]
  /\ Revoke(call.by, p)
  /\ UNCHANGED <<database, gate, loops>>

RemoveKick ==
  /\ call.left = {}
  /\ Step("remove", "hub", "idle")
  /\ Kick(call.by)
  /\ UNCHANGED database

\* Has the call changed the database, and not yet the hub?
Written ==
  \/ call.stage = "hub"
  \/ call.op = "unpair" /\ call.stage = "second"

\* The pairs a call has changed in the database and is about to in the hub.
Settling ==
  {l \in SUBSET Devices :
     Written /\ call.by \in l /\ (call.op = "remove" \/ call.with \in l)}

\* What the hub has of d and p is not what such a call has made of the database:
\* d is connected and removed, or has the other one as a peer and no link, or the link.
Wrong(d, p) ==
  /\ {d, p} \in Settling
  /\ p = d \/ (p \in peers[d] <=> {d, p} \notin links)

\* A query fails, or the caller hangs up and its handler is dropped.  What the
\* hub was to be told of the connections that are open now, it never is.
Abandon ==
  /\ call # NoCall
  /\ call' = NoCall
  /\ gate' = Free
  /\ stale' = [d \in Devices |->
       IF Online(d) THEN stale[d] \cup {p \in Devices : Wrong(d, p)} ELSE stale[d]]
  /\ UNCHANGED <<database, conn, peers, loops, mail>>

\* create_pairing and cancel_pairing take the gate for one transaction each.
CreatePairing(h) ==
  /\ gate = Free /\ h \in registered /\ "approve" \in Ops
  /\ offer' = [offer EXCEPT ![h] = Open]
  /\ UNCHANGED <<registered, links, gate, hub, call, loops, mail>>

CancelPairing(h) ==
  /\ gate = Free /\ offer[h] # NoOffer
  /\ offer' = [offer EXCEPT ![h] = NoOffer]
  /\ UNCHANGED <<registered, links, gate, hub, call, loops, mail>>

\* claim: a single statement, without the gate; the first client wins.
Claim(d, h) ==
  /\ d \in registered /\ offer[h] = Open
  /\ offer' = [offer EXCEPT ![h] = d]
  /\ UNCHANGED <<registered, links, gate, hub, call, loops, mail>>

\* The offer's two minutes pass, whoever holds the gate.
Expire(h) ==
  /\ offer[h] # NoOffer
  /\ offer' = [offer EXCEPT ![h] = NoOffer]
  /\ UNCHANGED <<registered, links, gate, hub, call, loops, mail>>
-----------------------------------------------------------------------------
(* The socket loop, `serve'. *)

Goto(s, place) == at' = [at EXCEPT ![s] = place]

\* The writer is gone, and its end of the queue with it.
StopReading(s) ==
  /\ reading' = [reading EXCEPT ![s] = FALSE]
  /\ queue' = [queue EXCEPT ![s] = <<>>]

LookUpPeers(s) ==
  /\ at[s] = "new" /\ gate = Free
  /\ gate' = s
  /\ known' = [known EXCEPT ![s] = PeersOf(Owner[s])]
  /\ Goto(s, "lookup")
  /\ UNCHANGED <<database, hub, call, slow, mail>>

\* A query fails, or the device is not registered any more.
Refuse(s) ==
  /\ at[s] = "lookup"
  /\ gate' = Free
  /\ known' = [known EXCEPT ![s] = {}]
  /\ StopReading(s)
  /\ Goto(s, "ended")
  /\ UNCHANGED <<database, hub, call, slow, told, missed>>

Connect(s) ==
  /\ at[s] = "lookup" /\ Owner[s] \in registered
  /\ Register(Owner[s], s)
  /\ gate' = Free
  /\ Goto(s, "live")
  /\ known' = [known EXCEPT ![s] = {}]
  /\ UNCHANGED <<database, call, slow>>

\* Hub::route, for a frame to p; a socket that was replaced routes nothing.
\* A full queue is found here, and its owner disconnected in the next step,
\* when the lock that protected the connections has been let go.
Route(s, p) ==
  LET d == Owner[s] IN
  /\ at[s] = "live" /\ conn[d] = s
  /\ UNCHANGED <<database, gate, hub, call, known>>
  /\ IF p # d /\ Online(p) /\ p \in peers[d] /\ d \in peers[p]
     THEN /\ Deliver([Nothing EXCEPT ![conn[p]] = <<"frame">>], Nobody, Nobody)
          /\ IF Fits(conn[p], <<"frame">>) THEN UNCHANGED <<at, slow>>
             ELSE /\ slow' = [slow EXCEPT ![s] = <<p, conn[p]>>]
                  /\ Goto(s, "slow")
     ELSE /\ Deliver([Nothing EXCEPT ![s] = <<"frame">>], Nobody, Nobody)
          /\ UNCHANGED <<at, slow>>

DropSlow(s) ==
  /\ at[s] = "slow"
  /\ Disconnect(slow[s][1], slow[s][2])
  /\ slow' = [slow EXCEPT ![s] = NoSocket]
  /\ Goto(s, "live")
  /\ UNCHANGED <<database, gate, call, known>>

\* The loop is left, and aborts its writer with what it still had to send.
Leave(s) ==
  /\ Goto(s, "leaving")
  /\ StopReading(s)
  /\ UNCHANGED <<told, missed>>

\* The heartbeat: a device whose queue takes no ping is left.
Ping(s) ==
  /\ at[s] = "live"
  /\ UNCHANGED <<database, gate, hub, call, known, slow>>
  /\ IF Fits(s, <<"frame">>)
     THEN /\ Deliver([Nothing EXCEPT ![s] = <<"frame">>], Nobody, Nobody)
          /\ UNCHANGED at
     ELSE Leave(s)

\* The other end closes the socket.
HangUp(s) ==
  /\ at[s] = "live"
  /\ Leave(s)
  /\ UNCHANGED <<database, gate, hub, call, known, slow>>

\* The membership tick: the writer has ended, or another socket took over.
Notice(s) ==
  /\ at[s] = "live"
  /\ ~reading[s] \/ conn[Owner[s]] # s
  /\ Leave(s)
  /\ UNCHANGED <<database, gate, hub, call, known, slow>>

End(s) ==
  /\ at[s] = "leaving"
  /\ Disconnect(Owner[s], s)
  /\ Goto(s, "ended")
  /\ UNCHANGED <<database, gate, call, known, slow>>

\* The writer task: it ends with a Close, or when the socket takes no more.
Write(s) ==
  /\ reading[s] /\ queue[s] # <<>>
  /\ IF Head(queue[s]) = "close" THEN StopReading(s)
     ELSE queue' = [queue EXCEPT ![s] = Tail(@)] /\ UNCHANGED reading
  /\ UNCHANGED <<database, gate, hub, call, loops, told, missed>>

SinkFails(s) ==
  /\ reading[s] /\ at[s] \in {"live", "slow"} /\ queue[s] # <<>>
  /\ StopReading(s)
  /\ UNCHANGED <<database, gate, hub, call, loops, told, missed>>
-----------------------------------------------------------------------------
CallStep ==
  \/ UnpairLinks \/ UnpairOffers \/ UnpairHub
  \/ Approve \/ ApproveRefused \/ ApproveHub
  \/ RemoveLookup \/ RemoveRow \/ RemoveKick
  \/ \E p \in Devices : RemovePeer(p)

PairingStep(h) ==
  \/ CreatePairing(h) \/ CancelPairing(h) \/ Expire(h)
  \/ \E d \in Clients : Claim(d, h)

\* The loop of a socket and its writer, and what the other end makes them do.
SocketStep(s) ==
  \/ LookUpPeers(s) \/ Connect(s) \/ Refuse(s)
  \/ \E p \in Devices : Route(s, p)
  \/ DropSlow(s) \/ Ping(s) \/ HangUp(s) \/ Notice(s) \/ End(s)
  \/ Write(s) \/ SinkFails(s)

Next ==
  \/ CallStep \/ Abandon
  \/ \E op \in Ops : \E d, e \in Devices : Begin(op, d, e)
  \/ \E h \in Hosts : PairingStep(h)
  \/ \E s \in Sockets : SocketStep(s)

Spec == Init /\ [][Next]_vars

-----------------------------------------------------------------------------
\* The hub and the database never disagree about a pair that no call is
\* changing right now: two devices are peers of each other's connection when,
\* and only when, they are linked, and only registered devices are connected,
\* whatever connects, disconnects, is paired and removed at the same time.
\* Excepted is a connection that was open when a call ended between the two (a
\* query failed, the caller hung up): about the pair that call was changing it
\* is wrong until it ends, or a later call speaks of the pair again.
HubAgrees ==
  \A a \in Devices : Online(a) =>
    /\ a \in registered \/ {a} \in Settling \/ a \in stale[a]
    /\ \A b \in Devices \ {a} : {a, b} \notin Settling /\ b \notin stale[a] =>
         (b \in peers[a] <=> {a, b} \in links)

\* A device whose queue never overflowed was last told of every peer what is
\* so: online exactly while the peer is connected and the hub has them as peers.
\* Presence is told as differences, between two who know each other: excepted are
\* the pairs of which one side's connection is stale, for the calls that did not
\* reach the hub.
ToldTruth ==
  \A d \in Devices : Online(d) /\ ~missed[conn[d]] =>
    \A p \in Devices : p \notin stale[d] /\ d \notin stale[p] =>
      (p \in told[conn[d]] <=> p \in peers[d] /\ Online(p))

\* A connection is taken out of the hub only when its own socket ended or its
\* own queue refused a frame, when its device is removed, or when a newer
\* socket replaces it: never because an older socket of its device, or a
\* `route' that met one, comes late.
NobodyElseDropped ==
  [][\A d \in Devices : Online(d) /\ conn'[d] # conn[d] =>
       \/ conn'[d] # NoSocket /\ at[conn'[d]] = "lookup"
       \/ at[conn[d]] = "leaving" \/ missed[conn[d]] \/ d \notin registered]_vars
=============================================================================
