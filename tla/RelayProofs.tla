---------------------------- MODULE RelayProofs ----------------------------
(***************************************************************************)
(* The hub never disagrees with the database about a pair that no call is  *)
(* changing, and tells the devices the truth about their peers, for any    *)
(* number of devices and sockets, but for the connections a call did not   *)
(* get to, which it left between the database and the hub; and nobody is   *)
(* dropped for another's sake.                                             *)
(***************************************************************************)
EXTENDS Relay, FiniteSetTheorems, TLAPS

\* The state the argument is about; queues and their history follow it.
Typed ==
  /\ registered \subseteq Devices
  /\ conn \in [Devices -> Sockets \cup {NoSocket}]
  /\ peers \in [Devices -> SUBSET Devices]
  /\ stale \in [Devices -> SUBSET Devices]
  /\ known \in [Sockets -> SUBSET Devices]
  /\ at \in [Sockets -> Places]
  /\ offer \in [Hosts -> Clients \cup {NoOffer, Open}]
  /\ call \in [op : {"approve", "unpair", "remove"}, by : Devices, with : Devices,
               stage : Stages, left : SUBSET Devices]

\* The gate has one holder, which is where it says.
Gated ==
  /\ gate \in Sockets \cup {Free, ApiCall}
  /\ gate = ApiCall <=> call.stage # "idle"
  /\ call.stage = "idle" => call = NoCall
  /\ \A s \in Sockets : at[s] = "lookup" <=> gate = s

\* What the holder read is still so.
Current ==
  /\ \A s \in Sockets : at[s] = "lookup" => known[s] = PeersOf(Owner[s])
  /\ call.op = "remove" /\ call.stage = "second" => call.left = PeersOf(call.by)

\* What a call has done to the database by now.
Halfway ==
  /\ call.stage # "idle" =>
       CASE call.op = "approve" -> call.by \in Hosts /\ call.with \in Clients
         [] call.op = "unpair"  -> call.by # call.with
         [] call.op = "remove"  -> call.by = call.with
  /\ call.stage = "second" => call.op # "approve"
  /\ call.op = "approve" /\ call.stage = "hub" => {call.by, call.with} \in links
  /\ call.op = "unpair" /\ call.stage \in {"second", "hub"} =>
       {call.by, call.with} \notin links
  /\ call.op = "remove" /\ call.stage = "hub" =>
       /\ \A d \in Devices : {call.by, d} \notin links
       /\ \A d \in Devices \ {call.by} :
            Online(d) /\ call.by \in peers[d] => d \in call.left \/ call.by \in stale[d]

\* A loop that met a full queue remembers whose it was.
Pointed ==
  /\ slow \in [Sockets -> (Devices \X Sockets) \cup {NoSocket}]
  /\ \A s \in Sockets : at[s] = "slow" => slow[s] \in Devices \X Sockets

IInv == Typed /\ Gated /\ Current /\ Halfway /\ HubAgrees

core == <<registered, links, offer, gate, conn, peers, stale, call, at, known>>

\* A pair is being settled when the call in its window is about it.
LEMMA SettlingPair ==
  ASSUME NEW a \in Devices, NEW b \in Devices
  PROVE  {a, b} \in Settling <=>
           Written /\ call.by \in {a, b} /\ (call.op = "remove" \/ call.with \in {a, b})
BY DEF Settling

\* The same, of the state after a step.
LEMMA SettlingPairNext ==
  ASSUME NEW a \in Devices, NEW b \in Devices
  PROVE  ({a, b} \in Settling)' <=>
           Written' /\ call'.by \in {a, b} /\ (call'.op = "remove" \/ call'.with \in {a, b})
BY DEF Settling

\* Which pairs are the same.
LEMMA SamePair ==
  ASSUME NEW a, NEW b, NEW c, NEW d
  PROVE  {a, b} = {c, d} <=> (a = c /\ b = d) \/ (a = d /\ b = c)
OBVIOUS

\* Nothing is connected, linked or called at the start.
LEMMA InitInvariant ==
  ASSUME RelayAssumption, Init
  PROVE  IInv
<1>1. AnyDevice \in Devices
  BY DEF RelayAssumption, AnyDevice, Devices
<1>2. Typed
  BY <1>1 DEF Init, Typed, NoCall, Places, Stages
<1>3. Gated
  BY DEF Init, Gated, NoCall, RelayAssumption
<1>4. Current /\ Halfway
  BY DEF Init, Current, Halfway, NoCall
<1>5. HubAgrees
  BY DEF Init, HubAgrees, Online
<1>. QED
  BY <1>2, <1>3, <1>4, <1>5 DEF IInv

\* A step that leaves the core as it is keeps the invariant.
LEMMA CoreUnchanged ==
  ASSUME IInv, UNCHANGED core
  PROVE  IInv'
<1>1. Typed' /\ Gated'
  BY DEF IInv, core, Typed, Gated
<1>2. Current'
  BY DEF IInv, core, Current, PeersOf
<1>3. Halfway'
  <2>1. UNCHANGED <<call, links, conn, peers, stale>>
    BY DEF core
  <2>2. Halfway
    BY DEF IInv
  <2>. QED
    BY <2>1, <2>2 DEF Halfway, Online
<1>4. Settling' = Settling
  BY DEF core, Settling, Written
<1>5. HubAgrees'
  BY <1>4 DEF IInv, core, HubAgrees, Online
<1>. QED
  BY <1>1, <1>2, <1>3, <1>5 DEF IInv

\* So does one that moves a socket's loop, but not to its lookup or from it.
LEMMA LoopMoves ==
  ASSUME IInv, NEW s \in Sockets, NEW place \in Places \ {"lookup"},
         at[s] # "lookup", Goto(s, place),
         UNCHANGED <<registered, links, offer, gate, conn, peers, stale, call, known>>
  PROVE  IInv'
<1>1. Typed'
  BY DEF IInv, Typed, Goto
<1>2. Gated'
  BY DEF IInv, Typed, Gated, Goto
<1>3. Current' /\ Halfway'
  BY DEF IInv, Typed, Current, Halfway, Goto, PeersOf, Online
<1>4. HubAgrees'
  BY DEF IInv, HubAgrees, Online, Settling, Written
<1>. QED
  BY <1>1, <1>2, <1>3, <1>4 DEF IInv

\* Disconnecting a device only takes it out of the hub.
LEMMA Disconnects ==
  ASSUME IInv, NEW d \in Devices, NEW t, NEW s \in Sockets,
         NEW place \in Places \ {"lookup"}, at[s] # "lookup",
         Disconnect(d, t), Goto(s, place), RelayAssumption,
         UNCHANGED <<database, gate, call, known>>
  PROVE  IInv'
<1>1. CASE conn[d] = t
  <2>. /\ conn' = [conn EXCEPT ![d] = NoSocket]
       /\ peers' = [peers EXCEPT ![d] = {}] /\ stale' = [stale EXCEPT ![d] = {}]
    BY <1>1 DEF Disconnect
  <2>1. Typed'
    BY DEF IInv, Typed, Goto, database
  <2>2. Gated'
    BY DEF IInv, Typed, Gated, Goto
  <2>3. Current'
    BY DEF IInv, Typed, Current, Goto, PeersOf, database
  <2>4. \A a \in Devices : Online(a)' =>
          a # d /\ Online(a) /\ peers'[a] = peers[a] /\ stale'[a] = stale[a]
    BY DEF IInv, Typed, Online
  <2>5. Halfway'
    BY <2>4 DEF IInv, Typed, Halfway, database
  <2>6. HubAgrees'
    <3>1. Settling' = Settling
      BY DEF Settling, Written
    <3>. QED
      BY <2>4, <3>1 DEF IInv, HubAgrees, database
  <2>. QED
    BY <2>1, <2>2, <2>3, <2>5, <2>6 DEF IInv
<1>2. CASE conn[d] # t
  <2>. UNCHANGED hub
    BY <1>2 DEF Disconnect
  <2>. QED
    BY LoopMoves DEF hub, database
<1>. QED
  BY <1>1, <1>2

\* The steps of a socket's loop and of its writer.
LEMMA SocketKeeps ==
  ASSUME IInv, Pointed, RelayAssumption, NEW s \in Sockets, SocketStep(s)
  PROVE  IInv'
<1>. USE DEF database, hub, loops, mail
<1>0. Owner[s] \in Devices
  BY DEF RelayAssumption
<1>1. CASE LookUpPeers(s)
  <2>1. Typed'
    BY <1>1 DEF LookUpPeers, IInv, Typed, Goto, Places, PeersOf
  <2>2. Gated'
    BY <1>1 DEF LookUpPeers, IInv, Typed, Gated, Goto, RelayAssumption
  <2>3. Current'
    BY <1>1 DEF LookUpPeers, IInv, Typed, Gated, Current, Goto, PeersOf
  <2>0. Halfway'
    BY <1>1 DEF LookUpPeers, IInv, Halfway, Online
  <2>4. HubAgrees'
    BY <1>1 DEF LookUpPeers, IInv, HubAgrees, Online, Settling, Written
  <2>. QED
    BY <2>0, <2>1, <2>2, <2>3, <2>4 DEF IInv
<1>2. CASE Connect(s)
  <2>. /\ at[s] = "lookup" /\ gate = s /\ Owner[s] \in registered
       /\ known[s] = PeersOf(Owner[s])
       /\ conn' = [conn EXCEPT ![Owner[s]] = s]
       /\ peers' = [peers EXCEPT ![Owner[s]] = known[s]]
       /\ stale' = [stale EXCEPT ![Owner[s]] = {}]
       /\ gate' = Free /\ at' = [at EXCEPT ![s] = "live"]
       /\ known' = [known EXCEPT ![s] = {}]
       /\ UNCHANGED <<registered, links, offer, call>>
    BY <1>2 DEF Connect, Register, Goto, IInv, Gated, Current
  <2>0. call.stage = "idle"
    BY DEF IInv, Gated, RelayAssumption
  <2>1. Typed'
    BY <1>0 DEF IInv, Typed, Places
  <2>2. Gated'
    BY <2>0 DEF IInv, Typed, Gated, RelayAssumption
  <2>3. Current' /\ Halfway'
    BY <2>0 DEF IInv, Typed, Gated, Current, Halfway, PeersOf
  <2>4. HubAgrees'
    <3>1. ~Written /\ ~Written'
      BY <2>0 DEF Written
    <3>2. Settling = {} /\ Settling' = {}
      BY <3>1 DEF Settling
    <3>. QED
      BY <3>2, <1>0 DEF IInv, Typed, HubAgrees, Online, PeersOf
  <2>. QED
    BY <2>1, <2>2, <2>3, <2>4 DEF IInv
<1>3. CASE Refuse(s)
  <2>0. call.stage = "idle" /\ gate = s
    BY <1>3 DEF Refuse, IInv, Gated, RelayAssumption
  <2>1. Typed'
    BY <1>3 DEF Refuse, IInv, Typed, Goto, Places
  <2>2. Gated'
    BY <1>3, <2>0 DEF Refuse, IInv, Typed, Gated, Goto, RelayAssumption
  <2>3. Current' /\ Halfway'
    BY <1>3, <2>0 DEF Refuse, IInv, Typed, Current, Halfway, Goto, PeersOf
  <2>4. HubAgrees'
    BY <1>3 DEF Refuse, IInv, HubAgrees, Online, Settling, Written
  <2>. QED
    BY <2>1, <2>2, <2>3, <2>4 DEF IInv
<1>4. CASE \E p \in Devices : Route(s, p)
  <2>1. PICK p \in Devices : Route(s, p)
    BY <1>4
  <2>2. CASE at' = at
    BY <2>1, <2>2, CoreUnchanged DEF Route, core
  <2>3. CASE Goto(s, "slow")
    BY <2>1, <2>3, LoopMoves DEF Route, Places
  <2>. QED
    BY <2>1, <2>2, <2>3 DEF Route
<1>5. CASE DropSlow(s)
  <2>1. slow[s][1] \in Devices
    BY <1>5 DEF DropSlow, Pointed
  <2>. QED
    BY <1>5, <2>1, Disconnects DEF DropSlow, Places
<1>6. CASE Ping(s) \/ HangUp(s) \/ Notice(s)
  <2>1. CASE at' = at
    BY <1>6, <2>1, CoreUnchanged DEF Ping, HangUp, Notice, Leave, core
  <2>2. CASE Goto(s, "leaving")
    BY <1>6, <2>2, LoopMoves DEF Ping, HangUp, Notice, Leave, Places
  <2>. QED
    BY <1>6, <2>1, <2>2 DEF Ping, HangUp, Notice, Leave
<1>7. CASE End(s)
  BY <1>7, <1>0, Disconnects DEF End, Places
<1>8. CASE Write(s) \/ SinkFails(s)
  BY <1>8, CoreUnchanged DEF Write, SinkFails, core
<1>. QED
  BY <1>1, <1>2, <1>3, <1>4, <1>5, <1>6, <1>7, <1>8 DEF SocketStep

\* What a loop remembers of a full queue is a device and the socket it had.
LEMMA PointedKeeps ==
  ASSUME IInv, Pointed, RelayAssumption, [Next]_vars
  PROVE  Pointed'
<1>1. CASE UNCHANGED <<at, slow>>
  BY <1>1 DEF Pointed
<1>2. CASE \E r \in Sockets : SocketStep(r)
  <2>1. PICK r \in Sockets : SocketStep(r)
    BY <1>2
  <2>2. CASE \E p \in Devices : Route(r, p)
    <3>1. PICK p \in Devices : Route(r, p)
      BY <2>2
    <3>2. CASE UNCHANGED <<at, slow>>
      BY <3>2 DEF Pointed
    <3>3. CASE ~UNCHANGED <<at, slow>>
      <4>1. /\ Online(p) /\ slow' = [slow EXCEPT ![r] = <<p, conn[p]>>]
            /\ at' = [at EXCEPT ![r] = "slow"]
        BY <3>1, <3>3 DEF Route, Goto
      <4>2. conn[p] \in Sockets
        BY <4>1 DEF IInv, Typed, Online
      <4>. QED
        BY <4>1, <4>2 DEF IInv, Typed, Pointed
    <3>. QED
      BY <3>2, <3>3
  <2>3. CASE ~\E p \in Devices : Route(r, p)
    <3>1. /\ at' = at \/ (at' = [at EXCEPT ![r] = at'[r]] /\ at'[r] # "slow")
          /\ slow' = slow \/ slow' = [slow EXCEPT ![r] = NoSocket]
          /\ slow' # slow => at'[r] # "slow"
      BY <2>1, <2>3 DEF SocketStep, LookUpPeers, Connect, Refuse, DropSlow, Ping, HangUp,
           Notice, End, Write, SinkFails, Leave, Goto, loops, IInv, Typed
    <3>. QED
      BY <3>1 DEF IInv, Typed, Pointed
  <2>. QED
    BY <2>2, <2>3
<1>3. CASE \E h \in Hosts : PairingStep(h)
  BY <1>1, <1>3 DEF PairingStep, CreatePairing, CancelPairing, Expire, Claim, loops
<1>4. CASE CallStep \/ Abandon \/ \E op \in Ops : \E d, e \in Devices : Begin(op, d, e)
  BY <1>1, <1>4 DEF CallStep, Abandon, Begin, Step, UnpairLinks, UnpairOffers, UnpairHub,
       Approve, ApproveRefused, ApproveHub, RemoveLookup, RemoveRow, RemoveKick,
       RemovePeer, loops
<1>. QED
  BY <1>1, <1>2, <1>3, <1>4 DEF Next, vars, loops

\* Pairings come and go without the links: one transaction each.
LEMMA PairingKeeps ==
  ASSUME IInv, RelayAssumption, NEW h \in Hosts, PairingStep(h)
  PROVE  IInv'
<1>1. /\ offer' \in [Hosts -> Clients \cup {NoOffer, Open}]
      /\ UNCHANGED <<registered, links, gate, conn, peers, stale, call, at, known>>
  BY DEF PairingStep, CreatePairing, CancelPairing, Expire, Claim, IInv, Typed, hub, loops
<1>2. Typed' /\ Gated' /\ Current'
  BY <1>1 DEF IInv, Typed, Gated, Current, PeersOf
<1>3. Halfway' /\ HubAgrees'
  BY <1>1 DEF IInv, Halfway, HubAgrees, Online, Settling, Written
<1>. QED
  BY <1>2, <1>3 DEF IInv

\* A call that starts, ends or goes on without the hub or the links.
LEMMA CallMoves ==
  ASSUME IInv, RelayAssumption,
         UNCHANGED <<registered, links, conn, peers, stale, at, known>>,
         offer' \in [Hosts -> Clients \cup {NoOffer, Open}],
         Typed', gate' = IF call'.stage = "idle" THEN Free ELSE ApiCall,
         call'.stage = "idle" => call' = NoCall,
         gate \in {Free, ApiCall}, Current', Halfway',
         Written => Written' /\ call' = [call EXCEPT !.stage = call'.stage]
  PROVE  IInv'
<1>1. Gated'
  BY DEF IInv, Gated, RelayAssumption
<1>2. HubAgrees'
  <2>1. Settling \subseteq Settling'
    BY DEF Settling, Written, IInv, Typed
  <2>. QED
    BY <2>1 DEF IInv, HubAgrees, Online
<1>. QED
  BY <1>1, <1>2 DEF IInv

\* The steps of an API call before it gets to the hub.
LEMMA CallKeeps ==
  ASSUME IInv, RelayAssumption,
         \/ UnpairLinks \/ UnpairOffers \/ Approve \/ ApproveRefused \/ RemoveLookup
         \/ RemoveRow
         \/ \E op \in Ops : \E d, e \in Devices : Begin(op, d, e)
  PROVE  IInv'
<1>. USE DEF database, hub, loops
<1>0. NoCall \in [op : {"approve", "unpair", "remove"}, by : Devices, with : Devices,
                  stage : Stages, left : SUBSET Devices] /\ NoCall.stage = "idle"
  BY DEF NoCall, AnyDevice, RelayAssumption, Devices, Stages
<1>1. CASE \E op \in Ops : \E d, e \in Devices : Begin(op, d, e)
  <2>1. PICK op \in Ops, d \in Devices, e \in Devices : Begin(op, d, e)
    BY <1>1
  <2>2. /\ call' = [op |-> op, by |-> d, with |-> e, stage |-> "first", left |-> {}]
        /\ op \in {"approve", "unpair", "remove"}
        /\ gate = Free /\ gate' = ApiCall
        /\ UNCHANGED <<registered, links, offer, conn, peers, stale, at, known>>
        /\ call.stage = "idle"
    BY <2>1, <1>0 DEF Begin, RelayAssumption
  <2>3. Typed'
    BY <2>2 DEF IInv, Typed, Stages
  <2>4. Current'
    BY <2>2 DEF IInv, Current, PeersOf
  <2>5. Halfway'
    <3>1. /\ op = "approve" => d \in Hosts /\ e \in Clients
          /\ op = "unpair" => d # e
          /\ op = "remove" => d = e
      BY <2>1, <2>2 DEF Begin
    <3>2. call'.stage = "first" /\ call'.op = op /\ call'.by = d /\ call'.with = e
      BY <2>2
    <3>. QED
      BY <3>1, <3>2, <2>2 DEF Halfway
  <2>6. ~Written
    BY <2>2 DEF Written
  <2>. QED
    BY <2>2, <2>3, <2>4, <2>5, <2>6, CallMoves DEF IInv, Typed
<1>2. CASE ApproveRefused
  <2>1. /\ call' = NoCall /\ gate' = Free /\ gate = ApiCall
        /\ UNCHANGED <<registered, links, offer, conn, peers, stale, at, known>>
        /\ ~Written
    BY <1>2 DEF ApproveRefused, Step, IInv, Gated, Written
  <2>2. Typed' /\ Current' /\ Halfway'
    BY <2>1, <1>0 DEF IInv, Typed, Current, Halfway, PeersOf
  <2>. QED
    BY <2>1, <2>2, <1>0, CallMoves DEF IInv, Typed
<1>3. CASE UnpairOffers
  <2>1. /\ call.op = "unpair" /\ call.stage = "second"
        /\ call' = [call EXCEPT !.stage = "hub"] /\ gate' = gate
        /\ UNCHANGED <<registered, links, conn, peers, stale, at, known>>
        /\ offer' = [h \in Hosts |-> IF {h, offer[h]} = {call.by, call.with}
                                     THEN NoOffer ELSE offer[h]]
    BY <1>3 DEF UnpairOffers, Step
  <2>2. gate = ApiCall /\ call'.stage = "hub" /\ call'.op = "unpair"
        /\ offer' \in [Hosts -> Clients \cup {NoOffer, Open}]
    BY <2>1 DEF IInv, Gated, Typed
  <2>3. Typed'
    BY <2>1, <2>2 DEF IInv, Typed, Stages
  <2>4. Current' /\ Halfway'
    BY <2>1 DEF IInv, Typed, Current, Halfway, PeersOf, Online
  <2>5. Written'
    BY <2>2 DEF Written
  <2>. QED
    BY <2>1, <2>2, <2>3, <2>4, <2>5, CallMoves
<1>4. CASE RemoveLookup
  <2>1. /\ call.op = "remove" /\ call.stage = "first"
        /\ call' = [call EXCEPT !.stage = "second", !.left = PeersOf(call.by)]
        /\ UNCHANGED <<registered, links, offer, gate, conn, peers, stale, at, known>>
    BY <1>4 DEF RemoveLookup
  <2>2. gate = ApiCall /\ call'.stage = "second" /\ call'.op = "remove" /\ ~Written
    BY <2>1 DEF IInv, Gated, Typed, Written
  <2>3. Typed'
    <3>1. PeersOf(call.by) \in SUBSET Devices
      BY DEF PeersOf
    <3>. QED
      BY <2>1, <3>1 DEF IInv, Typed, Stages
  <2>4. Current' /\ Halfway'
    BY <2>1 DEF IInv, Typed, Current, Halfway, PeersOf, Online
  <2>. QED
    BY <2>1, <2>2, <2>3, <2>4, CallMoves DEF IInv, Typed
<1>5. CASE UnpairLinks
  <2>1. /\ call.op = "unpair" /\ call.stage = "first"
        /\ call' = [call EXCEPT !.stage = "second"] /\ gate' = gate
        /\ links' = links \ {{call.by, call.with}}
        /\ UNCHANGED <<registered, offer, conn, peers, stale, at, known>>
    BY <1>5 DEF UnpairLinks, Step
  <2>2. gate = ApiCall
    BY <2>1 DEF IInv, Gated
  <2>3. Typed' /\ Gated'
    BY <2>1, <2>2 DEF IInv, Typed, Gated, Stages, RelayAssumption
  <2>4. Current' /\ Halfway'
    BY <2>1, <2>2 DEF IInv, Typed, Gated, Current, Halfway, Online, RelayAssumption
  <2>5. HubAgrees'
    <3>1. ~Written /\ Written' /\ call'.by = call.by /\ call'.with = call.with
          /\ call'.op = "unpair"
      BY <2>1 DEF Written, IInv, Typed
    <3>2. \A a, b \in Devices : ({a, b} \in Settling)' =>  call.by \in {a, b}
      BY <3>1, SettlingPairNext
    <3>3. \A a, b \in Devices :
            a # b /\ ({a, b} \notin Settling)' => {a, b} # {call.by, call.with}
      BY <3>1 DEF Settling
    <3>4. Settling = {}
      BY <3>1 DEF Settling
    <3>. QED
      BY <2>1, <3>3, <3>4 DEF IInv, HubAgrees, Online
  <2>. QED
    BY <2>3, <2>4, <2>5 DEF IInv
<1>6. CASE Approve
  <2>1. /\ call.op = "approve" /\ call.stage = "first"
        /\ call' = [call EXCEPT !.stage = "hub"] /\ gate' = gate
        /\ links' = links \cup {{call.by, call.with}}
        /\ offer' = [offer EXCEPT ![call.by] = NoOffer]
        /\ UNCHANGED <<registered, conn, peers, stale, at, known>>
    BY <1>6 DEF Approve, Step
  <2>2. gate = ApiCall
    BY <2>1 DEF IInv, Gated
  <2>3. Typed' /\ Gated'
    BY <2>1, <2>2 DEF IInv, Typed, Gated, Stages, RelayAssumption
  <2>4. Current' /\ Halfway'
    BY <2>1, <2>2 DEF IInv, Typed, Gated, Current, Halfway, Online, RelayAssumption
  <2>5. HubAgrees'
    <3>1. ~Written /\ Written' /\ call'.by = call.by /\ call'.with = call.with
      BY <2>1 DEF Written, IInv, Typed
    <3>2. \A a, b \in Devices :
            a # b /\ ({a, b} \notin Settling)' => {a, b} # {call.by, call.with}
      BY <3>1 DEF Settling
    <3>3. Settling = {}
      BY <3>1 DEF Settling
    <3>. QED
      BY <2>1, <3>2, <3>3 DEF IInv, HubAgrees, Online
  <2>. QED
    BY <2>3, <2>4, <2>5 DEF IInv
<1>7. CASE RemoveRow
  <2>1. /\ call.op = "remove" /\ call.stage = "second"
        /\ call' = [call EXCEPT !.stage = "hub"] /\ gate' = gate
        /\ registered' = registered \ {call.by}
        /\ links' = {l \in links : call.by \notin l}
        /\ offer' = [h \in Hosts |-> IF h = call.by \/ offer[h] = call.by
                                     THEN NoOffer ELSE offer[h]]
        /\ UNCHANGED <<conn, peers, stale, at, known>>
    BY <1>7 DEF RemoveRow, Step
  <2>2. gate = ApiCall /\ call.left = PeersOf(call.by) /\ call.by = call.with
    BY <2>1 DEF IInv, Gated, Current, Halfway
  <2>3. Typed' /\ Gated'
    BY <2>1, <2>2 DEF IInv, Typed, Gated, Stages, RelayAssumption
  <2>4. ~Written /\ Written' /\ call'.by = call.by /\ call'.op = "remove"
        /\ call'.left = call.left /\ call'.stage = "hub" /\ call'.with = call.with
    BY <2>1 DEF Written, IInv, Typed
  <2>5. Settling = {}
    BY <2>4 DEF Settling
  <2>6. \A d \in Devices \ {call.by} :
          Online(d) /\ call.by \in peers[d] => d \in call.left \/ call.by \in stale[d]
    BY <2>2, <2>5 DEF IInv, Typed, HubAgrees, PeersOf
  <2>7. Current' /\ Halfway'
    BY <2>1, <2>2, <2>4, <2>6 DEF IInv, Typed, Gated, Current, Halfway, Online, RelayAssumption
  <2>8. HubAgrees'
    <3>1. \A a, b \in Devices : ({a, b} \in Settling)' <=> call.by \in {a, b}
      BY <2>4, SettlingPairNext
    <3>2. \A a \in Devices : ({a} \in Settling)' <=> call.by = a
      BY <2>4 DEF Settling
    <3>. QED
      BY <2>1, <2>5, <3>1, <3>2 DEF IInv, HubAgrees, Online
  <2>. QED
    BY <2>3, <2>7, <2>8 DEF IInv
<1>. QED
  BY <1>1, <1>2, <1>3, <1>4, <1>5, <1>6, <1>7

\* A call that ends between the two leaves the open connections it did not
\* get to marked, and only those that are wrong about the pair.
LEMMA AbandonKeeps ==
  ASSUME IInv, RelayAssumption, Abandon
  PROVE  IInv'
<1>. USE DEF database, loops
<1>0. /\ NoCall \in [op : {"approve", "unpair", "remove"}, by : Devices, with : Devices,
                     stage : Stages, left : SUBSET Devices]
      /\ NoCall.stage = "idle"
  BY DEF NoCall, AnyDevice, RelayAssumption, Devices, Stages
<1>1. /\ call' = NoCall /\ gate' = Free /\ gate = ApiCall
      /\ UNCHANGED <<registered, links, offer, conn, peers, at, known>>
      /\ stale' = [d \in Devices |->
           IF Online(d) THEN stale[d] \cup {p \in Devices : Wrong(d, p)} ELSE stale[d]]
  BY DEF Abandon, IInv, Gated
<1>2. Typed'
  BY <1>0, <1>1 DEF IInv, Typed
<1>3. Gated' /\ Current' /\ Halfway'
  BY <1>0, <1>1 DEF IInv, Typed, Gated, Current, Halfway, PeersOf, RelayAssumption
<1>4. Settling' = {}
  BY <1>0, <1>1 DEF Settling, Written, NoCall
<1>5. HubAgrees'
  <2>. SUFFICES ASSUME NEW a \in Devices, Online(a)
                PROVE  /\ a \in registered \/ a \in stale'[a]
                       /\ \A b \in Devices \ {a} : b \notin stale'[a] =>
                            (b \in peers[a] <=> {a, b} \in links)
    BY <1>1, <1>4 DEF HubAgrees, Online
  <2>1. stale'[a] = stale[a] \cup {p \in Devices : Wrong(a, p)}
    BY <1>1
  <2>2. {a} \in Settling => Wrong(a, a)
    BY DEF Wrong
  <2>3. \A b \in Devices \ {a} : {a, b} \in Settling /\ ~Wrong(a, b) =>
          (b \in peers[a] <=> {a, b} \in links)
    BY DEF Wrong
  <2>. QED
    BY <2>1, <2>2, <2>3 DEF IInv, HubAgrees
<1>. QED
  BY <1>2, <1>3, <1>5 DEF IInv

\* What a call sets right of a pair it does of no other.
LEMMA SetRightTo ==
  ASSUME NEW c \in Devices, NEW e \in Devices, stale \in [Devices -> SUBSET Devices],
         SetRight(c, e)
  PROVE  \A a, b \in Devices : {a, b} # {c, e} => (b \in stale'[a] <=> b \in stale[a])
<1>. SUFFICES ASSUME NEW a \in Devices, NEW b \in Devices, {a, b} # {c, e}
              PROVE  b \in stale'[a] <=> b \in stale[a]
  OBVIOUS
<1>1. ~(a = c /\ b = e) /\ ~(a = e /\ b = c)
  BY SamePair
<1>. QED
  BY <1>1 DEF SetRight

\* The steps in which a call brings the hub up to what it did to the database.
LEMMA HubKeeps ==
  ASSUME IInv, RelayAssumption,
         \/ UnpairHub \/ ApproveHub \/ RemoveKick \/ \E p \in Devices : RemovePeer(p)
  PROVE  IInv'
<1>. USE DEF database, hub, loops
<1>0. NoCall \in [op : {"approve", "unpair", "remove"}, by : Devices, with : Devices,
                  stage : Stages, left : SUBSET Devices] /\ NoCall.stage = "idle"
  BY DEF NoCall, AnyDevice, RelayAssumption, Devices, Stages
<1>a. ASSUME call' = NoCall
      PROVE  Settling' = {}
  BY <1>0, <1>a DEF Settling, Written, NoCall
<1>b. call.stage = "hub" =>
        gate = ApiCall /\ call.by \in Devices /\ call.with \in Devices /\ Written
  BY DEF IInv, Typed, Gated, Written
<1>1. CASE UnpairHub
  <2>1. /\ call.op = "unpair" /\ call.stage = "hub" /\ call' = NoCall /\ gate' = Free
        /\ peers' = [peers EXCEPT ![call.by] = @ \ {call.with}, ![call.with] = @ \ {call.by}]
        /\ SetRight(call.by, call.with)
        /\ UNCHANGED <<registered, links, offer, conn, at, known>>
    BY <1>1 DEF UnpairHub, Step, Revoke
  <2>2. {call.by, call.with} \notin links /\ call.by # call.with
    BY <2>1 DEF IInv, Halfway
  <2>3. Typed'
    BY <2>1, <1>0, <1>b DEF IInv, Typed, SetRight
  <2>4. Gated' /\ Current' /\ Halfway'
    BY <2>1, <1>0, <1>b DEF IInv, Gated, Current, Halfway, PeersOf, RelayAssumption
  <2>5. \A a \in Devices : \A b \in Devices \ {a} :
          {a, b} # {call.by, call.with} => {a, b} \notin Settling
    BY <2>1, <2>2, <1>b, SettlingPair, SamePair
  <2>8. \A a \in Devices : \A b \in Devices \ {a} :
          (b \in peers'[a]) <=> (b \in peers[a] /\ {a, b} # {call.by, call.with})
    <3>1. peers \in [Devices -> SUBSET Devices] /\ call.by \in Devices /\ call.with \in Devices
      BY <2>1, <1>b DEF IInv, Typed
    <3>2. \A a \in Devices : peers'[a] = IF a = call.by THEN peers[a] \ {call.with}
                                       ELSE IF a = call.with THEN peers[a] \ {call.by}
                                       ELSE peers[a]
      BY <2>1, <2>2, <3>1
    <3>. SUFFICES ASSUME NEW a \in Devices, NEW b \in Devices \ {a}
                  PROVE  (b \in peers'[a]) <=>
                           (b \in peers[a] /\ {a, b} # {call.by, call.with})
      OBVIOUS
    <3>4. CASE a = call.by
      <4>1. peers'[a] = peers[a] \ {call.with}
        BY <2>2, <3>2, <3>4
      <4>2. {a, b} = {call.by, call.with} <=> b = call.with
        BY <2>2, <3>4, SamePair
      <4>. QED
        BY <4>1, <4>2
    <3>5. CASE a = call.with
      <4>1. peers'[a] = peers[a] \ {call.by}
        BY <2>2, <3>2, <3>5
      <4>2. {a, b} = {call.by, call.with} <=> b = call.by
        BY <2>2, <3>5, SamePair
      <4>. QED
        BY <4>1, <4>2
    <3>6. CASE a # call.by /\ a # call.with
      <4>1. peers'[a] = peers[a]
        BY <3>2, <3>6
      <4>2. a \in {a, b} /\ a \notin {call.by, call.with}
        BY <3>6
      <4>. QED
        BY <4>1, <4>2
    <3>. QED
      BY <3>4, <3>5, <3>6
  <2>6. \A a \in Devices : {a} \notin Settling
    BY <2>1, <2>2 DEF Settling
  <2>9. \A a, b \in Devices : {a, b} # {call.by, call.with} =>
          (b \in stale'[a] <=> b \in stale[a])
    BY <2>1, <2>2, <1>b, SetRightTo DEF IInv, Typed
  <2>10. \A a \in Devices : {a, a} # {call.by, call.with}
    BY <2>2
  <2>7. HubAgrees'
    BY <2>1, <2>2, <2>5, <2>6, <2>8, <2>9, <2>10, <1>a DEF IInv, HubAgrees, Online
  <2>. QED
    BY <2>3, <2>4, <2>7 DEF IInv
<1>2. CASE ApproveHub
  <2>1. /\ call.op = "approve" /\ call.stage = "hub" /\ call' = NoCall /\ gate' = Free
        /\ peers' = [d \in Devices |-> IF ~Online(d) THEN peers[d]
                       ELSE IF d = call.by THEN peers[d] \cup {call.with}
                       ELSE IF d = call.with THEN peers[d] \cup {call.by} ELSE peers[d]]
        /\ SetRight(call.by, call.with)
        /\ UNCHANGED <<registered, links, offer, conn, at, known>>
    BY <1>2 DEF ApproveHub, Step, Authorize
  <2>2. {call.by, call.with} \in links /\ call.by # call.with
    BY <2>1 DEF IInv, Halfway, RelayAssumption
  <2>3. Typed'
    BY <2>1, <1>0, <1>b DEF IInv, Typed, SetRight
  <2>4. Gated' /\ Current' /\ Halfway'
    BY <2>1, <1>0, <1>b DEF IInv, Gated, Current, Halfway, PeersOf, RelayAssumption
  <2>5. \A a \in Devices : \A b \in Devices \ {a} :
          {a, b} # {call.by, call.with} => {a, b} \notin Settling
    BY <2>1, <2>2, <1>b, SettlingPair, SamePair
  <2>8. \A a \in Devices : \A b \in Devices \ {a} : Online(a) =>
          ((b \in peers'[a]) <=> (b \in peers[a] \/ {a, b} = {call.by, call.with}))
    <3>. SUFFICES ASSUME NEW a \in Devices, NEW b \in Devices \ {a}, Online(a)
                  PROVE  (b \in peers'[a]) <=>
                           (b \in peers[a] \/ {a, b} = {call.by, call.with})
      OBVIOUS
    <3>1. peers'[a] = IF a = call.by THEN peers[a] \cup {call.with}
                      ELSE IF a = call.with THEN peers[a] \cup {call.by} ELSE peers[a]
      BY <2>1
    <3>2. {a, b} = {call.by, call.with} <=>
            (a = call.by /\ b = call.with) \/ (a = call.with /\ b = call.by)
      BY SamePair
    <3>. QED
      BY <3>1, <3>2, <2>2
  <2>6. \A a \in Devices : {a} \notin Settling
    BY <2>1, <2>2 DEF Settling
  <2>9. \A a, b \in Devices : {a, b} # {call.by, call.with} =>
          (b \in stale'[a] <=> b \in stale[a])
    BY <2>1, <2>2, <1>b, SetRightTo DEF IInv, Typed
  <2>10. \A a \in Devices : {a, a} # {call.by, call.with}
    BY <2>2
  <2>7. HubAgrees'
    BY <2>1, <2>2, <2>5, <2>6, <2>8, <2>9, <2>10, <1>a DEF IInv, HubAgrees, Online
  <2>. QED
    BY <2>3, <2>4, <2>7 DEF IInv
<1>3. CASE \E p \in Devices : RemovePeer(p)
  <2>1. PICK p \in Devices : RemovePeer(p)
    BY <1>3
  <2>2. /\ call.op = "remove" /\ call.stage = "hub"
        /\ call' = [call EXCEPT !.left = @ \ {p}]
        /\ peers' = [peers EXCEPT ![call.by] = @ \ {p}, ![p] = @ \ {call.by}]
        /\ SetRight(call.by, p)
        /\ UNCHANGED <<registered, links, offer, gate, conn, at, known>>
    BY <2>1 DEF RemovePeer, Revoke
  <2>3. call'.op = "remove" /\ call'.stage = "hub" /\ call'.by = call.by
        /\ call'.with = call.with /\ call'.left = call.left \ {p} /\ call.by \in Devices
    BY <2>2 DEF IInv, Typed
  <2>4. Typed'
    BY <2>2 DEF IInv, Typed, SetRight
  <2>5. Gated' /\ Current'
    BY <2>2, <2>3, <1>0 DEF IInv, Typed, Gated, Current, PeersOf
  <2>6. \A a \in Devices : \A b \in Devices \ {a} :
          call.by \notin {a, b} => ((b \in peers'[a]) <=> (b \in peers[a]))
    BY <2>2, <2>3 DEF IInv, Typed
  <2>7. Halfway'
    <3>0. \A d \in Devices \ {call.by} : call.by \in peers'[d] =>
            d # p /\ call.by \in peers[d] /\ stale'[d] = stale[d]
      BY <2>2, <2>3 DEF IInv, Typed, SetRight
    <3>1. \A d \in Devices \ {call.by} : Online(d)' /\ call.by \in peers'[d] =>
            d \in call.left \ {p} \/ call.by \in stale'[d]
      BY <2>2, <3>0 DEF IInv, Halfway, Online
    <3>2. \A d \in Devices : {call.by, d} \notin links
      BY <2>2 DEF IInv, Halfway
    <3>. QED
      BY <2>2, <2>3, <3>1, <3>2 DEF IInv, Halfway, Typed
  <2>8. HubAgrees'
    <3>1. \A a, b \in Devices : ({a, b} \in Settling)' <=> call.by \in {a, b}
      BY <2>3, SettlingPairNext DEF Written
    <3>2. \A a, b \in Devices : {a, b} \in Settling <=> call.by \in {a, b}
      BY <2>2, SettlingPair DEF Written
    <3>3. \A a \in Devices : {a} = {a, a}
      OBVIOUS
    <3>4. \A a \in Devices : {a} \in Settling => ({a} \in Settling)'
      BY <3>1, <3>2, <3>3
    <3>5. \A a, b \in Devices : call.by \notin {a, b} => (b \in stale'[a] <=> b \in stale[a])
      <4>1. \A a, b \in Devices : call.by \notin {a, b} => {a, b} # {call.by, p}
        OBVIOUS
      <4>. QED
        BY <2>2, <2>3, <4>1, SetRightTo DEF IInv, Typed
    <3>6. \A a \in Devices : {a} \in Settling <=> a = call.by
      BY <3>2, <3>3
    <3>. QED
      BY <2>2, <2>6, <3>1, <3>2, <3>4, <3>5, <3>6 DEF IInv, HubAgrees, Online
  <2>. QED
    BY <2>4, <2>5, <2>7, <2>8 DEF IInv
<1>4. CASE RemoveKick
  <2>1. /\ call.op = "remove" /\ call.stage = "hub" /\ call.left = {}
        /\ call' = NoCall /\ gate' = Free
        /\ UNCHANGED <<registered, links, offer, at, known>>
    BY <1>4 DEF RemoveKick, Step
  <2>2. /\ conn' = [conn EXCEPT ![call.by] = NoSocket]
        /\ \A d \in Devices \ {call.by} : peers'[d] = peers[d] /\ stale'[d] = stale[d]
        /\ peers' \in [Devices -> SUBSET Devices] /\ stale' \in [Devices -> SUBSET Devices]
    BY <1>4, <1>b, <2>1 DEF RemoveKick, Kick, IInv, Typed, Online
  <2>3. Typed'
    BY <2>1, <2>2, <1>0 DEF IInv, Typed
  <2>4. Gated' /\ Current' /\ Halfway'
    BY <2>1, <1>0, <1>b DEF IInv, Gated, Current, Halfway, PeersOf, RelayAssumption
  <2>5. \A a \in Devices : Online(a)' =>
          a # call.by /\ Online(a) /\ peers'[a] = peers[a] /\ stale'[a] = stale[a]
    BY <2>2, <1>b, <2>1 DEF Online, IInv, Typed
  <2>6. \A d \in Devices : {call.by, d} \notin links
    BY <2>1 DEF IInv, Halfway
  <2>7. \A d \in Devices \ {call.by} :
          Online(d) /\ call.by \notin stale[d] => call.by \notin peers[d]
    BY <2>1 DEF IInv, Halfway
  <2>8. \A a, b \in Devices : {a, b} \in Settling <=> call.by \in {a, b}
    BY <2>1, SettlingPair DEF Written
  <2>9. \A a \in Devices : a # call.by => {a} \notin Settling
    BY <2>1 DEF Settling
  <2>10. HubAgrees'
    <3>. SUFFICES ASSUME NEW a \in Devices, Online(a)'
                  PROVE  /\ a \in registered \/ a \in stale'[a]
                         /\ \A b \in Devices \ {a} : b \notin stale'[a] =>
                              (b \in peers'[a] <=> {a, b} \in links)
      BY <2>1, <1>a DEF HubAgrees
    <3>1. a # call.by /\ Online(a) /\ peers'[a] = peers[a] /\ stale'[a] = stale[a]
      BY <2>5
    <3>2. a \in registered \/ a \in stale[a]
      BY <3>1, <2>9 DEF IInv, HubAgrees
    <3>3. ASSUME NEW b \in Devices \ {a}, b \notin stale[a]
          PROVE  b \in peers[a] <=> {a, b} \in links
      <4>1. CASE b = call.by
        <5>1. {a, b} = {call.by, a}
          BY <4>1
        <5>. QED
          BY <4>1, <5>1, <3>1, <3>3, <2>6, <2>7
      <4>2. CASE b # call.by
        BY <4>2, <3>1, <3>3, <2>8 DEF IInv, HubAgrees
      <4>. QED
        BY <4>1, <4>2
    <3>. QED
      BY <3>1, <3>2, <3>3
  <2>. QED
    BY <2>3, <2>4, <2>10 DEF IInv
<1>. QED
  BY <1>1, <1>2, <1>3, <1>4

LEMMA StepInvariant ==
  ASSUME RelayAssumption, IInv, Pointed, [Next]_vars
  PROVE  IInv' /\ Pointed'
<1>1. CASE UNCHANGED vars
  BY <1>1, CoreUnchanged, PointedKeeps DEF vars, core, database, hub, loops
<1>2. CASE Next
  BY <1>2, SocketKeeps, PairingKeeps, CallKeeps, AbandonKeeps, HubKeeps, PointedKeeps
     DEF Next, CallStep
<1>. QED
  BY <1>1, <1>2

\* Whatever connects, routes, disconnects, is paired, unpaired and removed, and
\* in whatever order, the hub and the database agree about every pair but the
\* one a call is changing, but for a connection that was open when a call ended
\* between the database and the hub: that one only, only about the pair the
\* call was changing, and only until it ends or a later call speaks of the pair
\* (api.rs: approve, unpair, delete_self; hub.rs: connect, authorize, revoke,
\* kick).
THEOREM HubAgreesEver ==
  ASSUME RelayAssumption
  PROVE  Spec => []HubAgrees
<1>1. Init => IInv /\ Pointed
  BY InitInvariant DEF Init, Pointed
<1>2. IInv /\ Pointed /\ [Next]_vars => IInv' /\ Pointed'
  BY StepInvariant
<1>3. IInv => HubAgrees
  BY DEF IInv
<1>. QED
  BY <1>1, <1>2, <1>3, PTL DEF Spec



-----------------------------------------------------------------------------
(* What every variable holds.                                               *)

CallType == [op : {"approve", "unpair", "remove"}, by : Devices, with : Devices,
             stage : Stages, left : SUBSET Devices]

\* The rows of the database: pairs and pairings are of registered devices.
Registry ==
  /\ registered \subseteq Devices
  /\ \A l \in links : l \subseteq registered /\ Cardinality(l) = 2
  /\ offer \in [Hosts -> Clients \cup {NoOffer, Open}]
  /\ \A h \in Hosts : offer[h] # NoOffer => h \in registered
  /\ \A h \in Hosts : offer[h] \in Clients => offer[h] \in registered

\* The call that holds the gate; a device removed is registered no more.
Calling ==
  /\ call \in CallType
  /\ gate \in Sockets \cup {Free, ApiCall}
  /\ gate = ApiCall <=> call.stage # "idle"
  /\ call.stage = "idle" => call = NoCall
  /\ call.op = "approve" /\ call.stage # "idle" => call.by \in Hosts /\ call.with \in Clients
  /\ call.op = "remove" /\ call.stage = "hub" => call.by \notin registered

\* No call is of the type of a call.
LEMMA NoCallType == NoCall \in CallType /\ NoCall.stage = "idle"
  BY RelayAssumption DEF NoCall, CallType, AnyDevice, Devices, Stages

\* Two devices make a pair.
LEMMA PairOfTwo ==
  ASSUME NEW a, NEW b, a # b
  PROVE  Cardinality({a, b}) = 2
<1>1. IsFiniteSet({a}) /\ Cardinality({a}) = 1
  BY FS_Singleton
<1>2. Cardinality({a} \cup {b}) = 1 + 1
  BY <1>1, FS_AddElement
<1>3. {a, b} = {a} \cup {b}
  OBVIOUS
<1>. QED
  BY <1>2, <1>3

\* The pairings' steps.
LEMMA PairingRegistry ==
  ASSUME Registry, NEW h \in Hosts, PairingStep(h)
  PROVE  Registry'
<1>0. h \in Devices /\ NoOffer \notin Devices /\ Open \notin Clients /\ Clients \subseteq Devices
  BY RelayAssumption DEF Devices
<1>1. PICK x \in Clients \cup {NoOffer, Open} :
        /\ offer' = [offer EXCEPT ![h] = x]
        /\ UNCHANGED <<registered, links>>
        /\ x # NoOffer => h \in registered
        /\ x \in Clients => x \in registered
  <2>1. CASE CreatePairing(h)
    BY <1>0, <2>1 DEF CreatePairing
  <2>2. CASE CancelPairing(h)
    BY <1>0, <2>2 DEF CancelPairing
  <2>3. CASE Expire(h)
    BY <1>0, <2>3 DEF Expire
  <2>4. CASE \E d \in Clients : Claim(d, h)
    <3>1. PICK d \in Clients : Claim(d, h)
      BY <2>4
    <3>2. offer[h] = Open /\ d \in registered /\ offer' = [offer EXCEPT ![h] = d]
          /\ UNCHANGED <<registered, links>>
      BY <3>1 DEF Claim
    <3>3. h \in registered
      BY <3>2, RelayAssumption DEF Registry
    <3>. QED
      BY <3>2, <3>3
  <2>. QED
    BY <2>1, <2>2, <2>3, <2>4 DEF PairingStep
<1>2. \A k \in Hosts : offer'[k] = IF k = h THEN x ELSE offer[k]
  BY <1>1 DEF Registry
<1>. QED
  BY <1>1, <1>2 DEF Registry

\* The calls' steps: a link is made of two registered devices, and goes with
\* either of them.
LEMMA CallRegistry ==
  ASSUME Registry, Calling, CallStep
  PROVE  Registry'
<1>0. NoOffer \notin Clients /\ Hosts \subseteq Devices /\ Clients \subseteq Devices
      /\ Hosts \cap Clients = {} /\ call.by \in Devices
  BY RelayAssumption DEF Devices, Calling, CallType
<1>1. CASE UnpairLinks
  BY <1>1 DEF UnpairLinks, Registry
<1>2. CASE UnpairOffers
  <2>1. UNCHANGED <<registered, links>>
        /\ offer' = [h \in Hosts |-> IF {h, offer[h]} = {call.by, call.with}
                                     THEN NoOffer ELSE offer[h]]
    BY <1>2 DEF UnpairOffers
  <2>2. \A h \in Hosts : offer'[h] \in {NoOffer, offer[h]}
    BY <2>1
  <2>3. offer' \in [Hosts -> Clients \cup {NoOffer, Open}]
    BY <2>1 DEF Registry
  <2>. QED
    BY <1>0, <2>1, <2>2, <2>3 DEF Registry
<1>3. CASE Approve
  <2>1. /\ call.op = "approve" /\ call.stage = "first"
        /\ offer[call.by] = call.with
        /\ links' = links \cup {{call.by, call.with}}
        /\ offer' = [offer EXCEPT ![call.by] = NoOffer]
        /\ registered' = registered
    BY <1>3 DEF Approve, Step
  <2>2. call.by \in Hosts /\ call.with \in Clients
    BY <2>1 DEF Calling
  <2>3. call.by \in registered /\ call.with \in registered /\ call.by # call.with
    BY <1>0, <2>1, <2>2 DEF Registry
  <2>4. Cardinality({call.by, call.with}) = 2
    BY <2>3, PairOfTwo
  <2>5. \A l \in links' : l \subseteq registered /\ Cardinality(l) = 2
    BY <2>1, <2>3, <2>4 DEF Registry
  <2>6. \A h \in Hosts : offer'[h] \in {NoOffer, offer[h]}
    BY <2>1 DEF Registry
  <2>7. offer' \in [Hosts -> Clients \cup {NoOffer, Open}]
    BY <2>1, <2>2 DEF Registry
  <2>. QED
    BY <1>0, <2>1, <2>5, <2>6, <2>7 DEF Registry
<1>4. CASE RemoveRow
  <2>1. /\ registered' = registered \ {call.by}
        /\ links' = {l \in links : call.by \notin l}
        /\ offer' = [h \in Hosts |-> IF h = call.by \/ offer[h] = call.by
                                     THEN NoOffer ELSE offer[h]]
    BY <1>4 DEF RemoveRow
  <2>2. \A l \in links' : l \subseteq registered' /\ Cardinality(l) = 2
    BY <2>1 DEF Registry
  <2>3. offer' \in [Hosts -> Clients \cup {NoOffer, Open}]
    BY <2>1 DEF Registry
  <2>4. \A h \in Hosts : offer'[h] # NoOffer =>
          h # call.by /\ offer[h] # call.by /\ offer'[h] = offer[h]
    BY <2>1
  <2>. QED
    BY <1>0, <2>1, <2>2, <2>3, <2>4 DEF Registry
<1>5. CASE UNCHANGED database
  BY <1>5 DEF database, Registry
<1>. QED
  BY <1>1, <1>2, <1>3, <1>4, <1>5 DEF CallStep, UnpairHub, ApproveRefused, ApproveHub,
     RemoveLookup, RemoveKick, RemovePeer, database

LEMMA StepRegistry ==
  ASSUME Registry, Calling, [Next]_vars
  PROVE  Registry'
<1>1. CASE UNCHANGED database
  BY <1>1 DEF database, Registry
<1>2. CASE Abandon \/ \E op \in Ops : \E d, e \in Devices : Begin(op, d, e)
  BY <1>1, <1>2 DEF Abandon, Begin
<1>3. CASE \E s \in Sockets : SocketStep(s)
  BY <1>1, <1>3 DEF SocketStep, LookUpPeers, Connect, Refuse, Route, DropSlow, Ping, HangUp,
     Notice, End, Write, SinkFails
<1>. QED
  BY <1>1, <1>2, <1>3, PairingRegistry, CallRegistry DEF Next, vars

\* The gate passes from one call or socket to the next.
LEMMA StepCalling ==
  ASSUME Registry, Calling, [Next]_vars, \A s \in Sockets : at[s] = "lookup" => gate = s
  PROVE  Calling'
<1>0. ApiCall \notin Sockets /\ Free \notin Sockets /\ Free # ApiCall
      /\ NoCall \in CallType /\ NoCall.stage = "idle"
  BY NoCallType, RelayAssumption
<1>1. CASE UNCHANGED <<call, gate, registered>>
  BY <1>1 DEF Calling
<1>2. CASE \E op \in Ops : \E d, e \in Devices : Begin(op, d, e)
  <2>1. PICK op \in Ops, d \in Devices, e \in Devices : Begin(op, d, e)
    BY <1>2
  <2>2. /\ call' = [op |-> op, by |-> d, with |-> e, stage |-> "first", left |-> {}]
        /\ gate' = ApiCall
        /\ op = "approve" => d \in Hosts /\ e \in Clients
    BY <2>1 DEF Begin
  <2>3. op \in {"approve", "unpair", "remove"}
    BY RelayAssumption
  <2>4. call' \in CallType /\ call'.stage = "first" /\ call'.op = op /\ call'.by = d
        /\ call'.with = e
    BY <2>2, <2>3 DEF CallType, Stages
  <2>. QED
    BY <1>0, <2>2, <2>4 DEF Calling
<1>3. CASE call' = NoCall /\ gate' = Free
  BY <1>0, <1>3 DEF Calling
<1>4. CASE \E stage \in {"second", "hub"} :
             /\ call.stage # "idle" /\ gate' = gate
             /\ call' = [call EXCEPT !.stage = stage]
             /\ stage = "hub" /\ call.op = "remove" => call.by \notin registered'
  <2>1. PICK stage \in {"second", "hub"} :
             /\ call.stage # "idle" /\ gate' = gate
             /\ call' = [call EXCEPT !.stage = stage]
             /\ stage = "hub" /\ call.op = "remove" => call.by \notin registered'
    BY <1>4
  <2>2. call' \in CallType /\ call'.stage = stage /\ call'.op = call.op /\ call'.by = call.by
        /\ call'.with = call.with
    BY <2>1 DEF Calling, CallType, Stages
  <2>. QED
    BY <2>1, <2>2 DEF Calling
<1>5. CASE RemoveLookup
  <2>1. call.op = "remove" /\ call.stage = "first" /\ gate' = gate
        /\ call' = [call EXCEPT !.stage = "second", !.left = PeersOf(call.by)]
    BY <1>5 DEF RemoveLookup
  <2>2. call' \in CallType /\ call'.stage = "second" /\ call'.op = "remove"
    BY <2>1 DEF Calling, CallType, Stages, PeersOf
  <2>. QED
    BY <2>1, <2>2 DEF Calling
<1>6. CASE \E p \in Devices : RemovePeer(p)
  <2>1. PICK p \in Devices : call.op = "remove" /\ call.stage = "hub" /\ gate' = gate
          /\ call' = [call EXCEPT !.left = @ \ {p}] /\ registered' = registered
    BY <1>6 DEF RemovePeer, database
  <2>2. call' \in CallType /\ call'.stage = "hub" /\ call'.op = "remove" /\ call'.by = call.by
    BY <2>1 DEF Calling, CallType
  <2>. QED
    BY <2>1, <2>2 DEF Calling
<1>7. CASE CallStep
  <2>1. CASE UnpairLinks \/ UnpairOffers \/ Approve
    BY <1>4, <2>1 DEF UnpairLinks, UnpairOffers, Approve, Step
  <2>2. CASE RemoveRow
    BY <1>4, <2>2 DEF RemoveRow, Step
  <2>3. CASE UnpairHub \/ ApproveHub \/ ApproveRefused \/ RemoveKick
    BY <1>3, <2>3 DEF UnpairHub, ApproveHub, ApproveRefused, RemoveKick, Step
  <2>. QED
    BY <1>5, <1>6, <1>7, <2>1, <2>2, <2>3 DEF CallStep
<1>8. CASE \E s \in Sockets : SocketStep(s)
  <2>1. PICK s \in Sockets : SocketStep(s)
    BY <1>8
  <2>2. call' = call /\ registered' = registered
    BY <2>1 DEF SocketStep, LookUpPeers, Connect, Refuse, Route, DropSlow, Ping, HangUp,
       Notice, End, Write, SinkFails, database
  <2>3. \/ gate' = gate
        \/ gate = Free /\ gate' = s
        \/ gate = s /\ gate' = Free
    BY <2>1 DEF SocketStep, LookUpPeers, Connect, Refuse, Route, DropSlow, Ping, HangUp,
       Notice, End, Write, SinkFails
  <2>. QED
    BY <1>0, <2>2, <2>3 DEF Calling
<1>9. CASE \E h \in Hosts : PairingStep(h)
  BY <1>1, <1>9 DEF PairingStep, CreatePairing, CancelPairing, Expire, Claim
<1>10. CASE Abandon
  BY <1>3, <1>10 DEF Abandon
<1>. QED
  BY <1>1, <1>2, <1>7, <1>8, <1>9, <1>10 DEF Next, vars, database



-----------------------------------------------------------------------------
(* Frames: a queue keeps its bound, and a refusal is remembered.            *)

Mail ==
  /\ queue \in [Sockets -> Seq(Frames)]
  /\ \A s \in Sockets : Len(queue[s]) =< QueueSize
  /\ reading \in [Sockets -> BOOLEAN]
  /\ told \in [Sockets -> SUBSET Devices]
  /\ missed \in [Sockets -> BOOLEAN]

\* What a connected socket missed it has missed after the step as well.
Kept == \A t \in Sockets : conn'[Owner[t]] = t /\ missed[t] => missed'[t]

HubType ==
  /\ conn \in [Devices -> Sockets \cup {NoSocket}]
  /\ peers \in [Devices -> SUBSET Devices]
  /\ stale \in [Devices -> SUBSET Devices]

\* A queue that a list does not fit is filled up to its size.
LEMMA FilledUp ==
  ASSUME NEW q \in Seq(Frames), NEW o \in Seq(Frames), NEW n \in Nat, Len(q) + Len(o) > n,
         NEW full, full = SubSeq(q \o o, 1, n)
  PROVE  full \in Seq(Frames) /\ Len(full) =< n
<1>1. q \o o \in Seq(Frames) /\ Len(q \o o) = Len(q) + Len(o)
  OBVIOUS
<1>2. PICK r \in Seq(Frames) : r = q \o o
  BY <1>1
<1>3. Len(r) \in Nat /\ n < Len(r)
  BY <1>1, <1>2
<1>4. SubSeq(r, 1, n) \in Seq(Frames) /\ Len(SubSeq(r, 1, n)) = n
  BY <1>3
<1>. QED
  BY <1>2, <1>4

LEMMA DeliverMail ==
  ASSUME Mail, NEW out \in [Sockets -> Seq(Frames)], NEW up \in [Sockets -> SUBSET Devices],
         NEW down, Deliver(out, up, down)
  PROVE  Mail' /\ Kept
<1>1. QueueSize \in Nat
  BY RelayAssumption
<1>2. ASSUME NEW s \in Sockets
      PROVE  LET q == IF ~reading[s] THEN queue[s]
                      ELSE IF Fits(s, out[s]) THEN queue[s] \o out[s]
                      ELSE SubSeq(queue[s] \o out[s], 1, QueueSize)
             IN  q \in Seq(Frames) /\ Len(q) =< QueueSize
  <2>1. queue[s] \in Seq(Frames) /\ out[s] \in Seq(Frames) /\ Len(queue[s]) =< QueueSize
    BY DEF Mail
  <2>2. queue[s] \o out[s] \in Seq(Frames) /\ Len(queue[s] \o out[s]) = Len(queue[s]) + Len(out[s])
    BY <2>1
  <2>3. CASE reading[s] /\ Fits(s, out[s])
    BY <2>2, <2>3 DEF Fits
  <2>4. CASE reading[s] /\ ~Fits(s, out[s])
    <3>1. Len(queue[s]) + Len(out[s]) > QueueSize
      BY <1>1, <2>1, <2>4 DEF Fits
    <3>2. PICK q : q = SubSeq(queue[s] \o out[s], 1, QueueSize)
      OBVIOUS
    <3>3. q \in Seq(Frames) /\ Len(q) =< QueueSize
      BY <1>1, <2>1, <3>1, <3>2, FilledUp
    <3>. QED
      BY <2>4, <3>2, <3>3
  <2>. QED
    BY <2>1, <2>3, <2>4
<1>3. queue' \in [Sockets -> Seq(Frames)] /\ \A s \in Sockets : Len(queue'[s]) =< QueueSize
  BY <1>2 DEF Deliver
<1>4. told' \in [Sockets -> SUBSET Devices]
  BY DEF Deliver, Mail
<1>5. missed' \in [Sockets -> BOOLEAN]
  BY DEF Deliver, Mail
<1>6. Kept
  BY DEF Deliver, Kept
<1>. QED
  BY <1>3, <1>4, <1>5, <1>6 DEF Mail, Deliver

\* A socket whose writer is gone has nothing waiting.
LEMMA StopMail ==
  ASSUME Mail, NEW s \in Sockets, StopReading(s), UNCHANGED <<told, missed>>
  PROVE  Mail' /\ Kept
<1>1. <<>> \in Seq(Frames) /\ Len(<<>>) = 0 /\ 0 =< QueueSize
  BY RelayAssumption
<1>. QED
  BY <1>1 DEF Mail, Kept, StopReading

LEMMA SameMail ==
  ASSUME Mail, UNCHANGED mail
  PROVE  Mail' /\ Kept
BY DEF Mail, Kept, mail

\* What is sent is frames.
LEMMA FramesType ==
  /\ <<>> \in Seq(Frames) /\ <<"frame">> \in Seq(Frames) /\ <<"close">> \in Seq(Frames)
  /\ \A some : Event(some) \in [Sockets -> Seq(Frames)]
  /\ Nothing \in [Sockets -> Seq(Frames)]
  /\ Nobody \in [Sockets -> SUBSET Devices]
<1>1. <<>> \in Seq(Frames) /\ <<"frame">> \in Seq(Frames) /\ <<"close">> \in Seq(Frames)
  BY DEF Frames
<1>. QED
  BY <1>1 DEF Event, Nothing, Nobody

LEMMA DisconnectMail ==
  ASSUME Mail, NEW d, NEW t, Disconnect(d, t)
  PROVE  Mail' /\ Kept
<1>1. CASE conn[d] = t
  BY <1>1, FramesType, DeliverMail DEF Disconnect
<1>2. CASE conn[d] # t
  BY <1>2, SameMail DEF Disconnect, mail
<1>. QED
  BY <1>1, <1>2

LEMMA KickMail ==
  ASSUME Mail, HubType, NEW d \in Devices, Kick(d)
  PROVE  Mail' /\ Kept
<1>1. CASE ~Online(d)
  BY <1>1, SameMail DEF Kick
<1>2. CASE Online(d)
  <2>1. [Event(Gone(d)) EXCEPT ![conn[d]] = <<"close">>] \in [Sockets -> Seq(Frames)]
    BY FramesType
  <2>. QED
    BY <1>2, <2>1, FramesType, DeliverMail DEF Kick
<1>. QED
  BY <1>1, <1>2

LEMMA AuthorizeMail ==
  ASSUME Mail, NEW a \in Devices, NEW b \in Devices, Authorize(a, b) \/ Revoke(a, b)
  PROVE  Mail' /\ Kept
<1>1. [s \in Sockets |-> {d \in Sides(a, b)[s] : Online(d)}] \in [Sockets -> SUBSET Devices]
  BY DEF Sides
<1>2. CASE Authorize(a, b)
  BY <1>1, <1>2, FramesType, DeliverMail DEF Authorize
<1>3. CASE Revoke(a, b)
  BY <1>3, FramesType, DeliverMail DEF Revoke
<1>. QED
  BY <1>2, <1>3

\* A socket that connects is sent its peers, each in a frame.
LEMMA RegisterMail ==
  ASSUME Mail, NEW d \in Devices, NEW s \in Sockets, known[s] \subseteq Devices, Register(d, s)
  PROVE  Mail' /\ Kept
<1> DEFINE mutual == {p \in known[s] : Online(p) /\ d \in peers[p]}
           news == [t \in Sockets |-> IF \E p \in mutual : conn[p] = t THEN {d} ELSE {}]
           out == [t \in Sockets |->
                     IF t = s THEN [i \in 1..Cardinality(mutual) + 1 |-> "frame"]
                     ELSE IF conn[d] = t THEN <<"close">>
                     ELSE Event(news)[t]]
           up == [t \in Sockets |-> IF t = s THEN mutual ELSE news[t]]
<1>1. Deliver(out, up, Nobody)
  BY DEF Register
<1>2. [i \in 1..Cardinality(mutual) + 1 |-> "frame"] \in Seq(Frames)
  <2>1. IsFiniteSet(Devices) /\ mutual \in SUBSET Devices
    BY RelayAssumption
  <2>2. Cardinality(mutual) \in Nat
    <3>. HIDE DEF mutual
    <3>. QED
      BY <2>1, FS_Subset, FS_CardinalityType
  <2>. HIDE DEF mutual
  <2>3. Cardinality(mutual) + 1 \in Nat
    BY <2>2
  <2>. QED
    BY <2>3 DEF Frames
<1>3. out \in [Sockets -> Seq(Frames)]
  <2>. HIDE DEF mutual, news
  <2>. QED
    BY <1>2, FramesType
<1>4. up \in [Sockets -> SUBSET Devices]
  OBVIOUS
<1>. HIDE DEF out, up
<1>. QED
  BY <1>1, <1>3, <1>4, DeliverMail

LEMMA SocketMail ==
  ASSUME Mail, HubType, known \in [Sockets -> SUBSET Devices], NEW s \in Sockets, SocketStep(s)
  PROVE  Mail' /\ Kept
<1>0. Owner[s] \in Devices
  BY RelayAssumption
<1>1. CASE LookUpPeers(s)
  BY <1>1, SameMail DEF LookUpPeers
<1>2. CASE Connect(s)
  BY <1>0, <1>2, RegisterMail DEF Connect
<1>3. CASE Refuse(s)
  BY <1>3, StopMail DEF Refuse
<1>4. CASE \E p \in Devices : Route(s, p)
  <2>1. PICK p \in Devices : Route(s, p)
    BY <1>4
  <2>2. PICK t \in Sockets \cup {NoSocket} :
          Deliver([Nothing EXCEPT ![t] = <<"frame">>], Nobody, Nobody)
    <3>1. conn[p] \in Sockets \cup {NoSocket}
      BY DEF HubType
    <3>. QED
      BY <2>1, <3>1 DEF Route
  <2>3. [Nothing EXCEPT ![t] = <<"frame">>] \in [Sockets -> Seq(Frames)]
    BY FramesType
  <2>. QED
    BY <2>2, <2>3, FramesType, DeliverMail
<1>5. CASE DropSlow(s)
  BY <1>5, DisconnectMail DEF DropSlow
<1>6. CASE Ping(s)
  <2>1. CASE Fits(s, <<"frame">>)
    <3>1. [Nothing EXCEPT ![s] = <<"frame">>] \in [Sockets -> Seq(Frames)]
      BY FramesType
    <3>. QED
      BY <1>6, <2>1, <3>1, FramesType, DeliverMail DEF Ping
  <2>2. CASE ~Fits(s, <<"frame">>)
    BY <1>6, <2>2, StopMail DEF Ping, Leave
  <2>. QED
    BY <2>1, <2>2
<1>7. CASE HangUp(s) \/ Notice(s)
  BY <1>7, StopMail DEF HangUp, Notice, Leave
<1>8. CASE End(s)
  BY <1>8, DisconnectMail DEF End
<1>9. CASE SinkFails(s)
  BY <1>9, StopMail DEF SinkFails
<1>10. CASE Write(s)
  <2>1. CASE Head(queue[s]) = "close"
    BY <1>10, <2>1, StopMail DEF Write
  <2>2. CASE Head(queue[s]) # "close"
    <3>1. queue' = [queue EXCEPT ![s] = Tail(queue[s])] /\ queue[s] # <<>>
          /\ UNCHANGED <<reading, told, missed>>
      BY <1>10, <2>2 DEF Write
    <3>2. queue[s] \in Seq(Frames) /\ Len(queue[s]) =< QueueSize /\ QueueSize \in Nat
      BY RelayAssumption DEF Mail
    <3>3. Tail(queue[s]) \in Seq(Frames) /\ Len(Tail(queue[s])) =< QueueSize
      BY <3>1, <3>2
    <3>. QED
      BY <3>1, <3>3 DEF Mail, Kept
  <2>. QED
    BY <2>1, <2>2
<1>. QED
  BY <1>1, <1>2, <1>3, <1>4, <1>5, <1>6, <1>7, <1>8, <1>9, <1>10 DEF SocketStep

LEMMA StepMail ==
  ASSUME Mail, HubType, known \in [Sockets -> SUBSET Devices], call \in CallType, [Next]_vars
  PROVE  Mail' /\ Kept
<1>0. call.by \in Devices /\ call.with \in Devices
  BY DEF CallType
<1>1. CASE UNCHANGED mail
  BY <1>1, SameMail
<1>2. CASE CallStep
  <2>1. CASE UnpairHub
    BY <1>0, <2>1, AuthorizeMail DEF UnpairHub
  <2>2. CASE ApproveHub
    BY <1>0, <2>2, AuthorizeMail DEF ApproveHub
  <2>3. CASE \E p \in Devices : RemovePeer(p)
    BY <1>0, <2>3, AuthorizeMail DEF RemovePeer
  <2>4. CASE RemoveKick
    BY <1>0, <2>4, KickMail DEF RemoveKick
  <2>. QED
    BY <1>1, <1>2, <2>1, <2>2, <2>3, <2>4 DEF CallStep, UnpairLinks, UnpairOffers, Approve,
       ApproveRefused, RemoveLookup, RemoveRow
<1>3. CASE Abandon \/ \E op \in Ops : \E d, e \in Devices : Begin(op, d, e)
  BY <1>1, <1>3 DEF Abandon, Begin
<1>4. CASE \E h \in Hosts : PairingStep(h)
  BY <1>1, <1>4 DEF PairingStep, CreatePairing, CancelPairing, Expire, Claim
<1>. QED
  BY <1>1, <1>2, <1>3, <1>4, SocketMail DEF Next, vars



-----------------------------------------------------------------------------
(* Connections: each is of its owner's socket, which is in its loop, and    *)
(* whoever is dropped as slow has missed a frame.                           *)

Looping == {"live", "slow", "leaving"}
Unborn  == {"new", "lookup"}

\* Socket t of p was once connected, and if it still is it has missed a frame.
Met(p, t) ==
  /\ Owner[t] = p /\ at[t] \notin Unborn
  /\ conn[p] = t => missed[t]

LoopType ==
  /\ at \in [Sockets -> Places]
  /\ known \in [Sockets -> SUBSET Devices]
  /\ slow \in [Sockets -> (Devices \X Sockets) \cup {NoSocket}]

LookupGated == \A s \in Sockets : at[s] = "lookup" <=> gate = s

Attached ==
  /\ HubType /\ LoopType /\ LookupGated
  /\ \A d \in Devices : Online(d) => Owner[conn[d]] = d /\ at[conn[d]] \in Looping
  /\ \A s \in Sockets : at[s] = "slow" =>
       \E p \in Devices, t \in Sockets : slow[s] = <<p, t>> /\ Met(p, t)

\* A step connects a device only to a socket of its own that comes from its lookup.
Moves ==
  \A d \in Devices :
    \/ conn'[d] \in {conn[d], NoSocket}
    \/ \E s \in Sockets : conn'[d] = s /\ at[s] = "lookup" /\ at'[s] = "live" /\ Owner[s] = d

\* No loop begins again.
Passes == \A s \in Sockets : at[s] \notin Unborn => at'[s] \notin Unborn

\* The socket of a connection that stays goes on looping.
Stays == \A d \in Devices : conn'[d] = conn[d] /\ Online(d) => at'[conn[d]] \in Looping

LEMMA MetKept ==
  ASSUME Kept, Moves, Passes, NEW p \in Devices, NEW t \in Sockets, Met(p, t)
  PROVE  Met(p, t)'
<1>1. at[t] # "lookup" /\ t # NoSocket
  BY RelayAssumption DEF Met, Unborn
<1>2. conn'[p] = t => conn[p] = t
  BY <1>1 DEF Moves
<1>. QED
  BY <1>2 DEF Met, Passes, Kept

LEMMA AttachedMoves ==
  ASSUME Attached, Kept, Moves, Passes, Stays, HubType', LoopType', LookupGated',
         \A s \in Sockets : at'[s] = "slow" =>
           \/ at[s] = "slow" /\ slow'[s] = slow[s]
           \/ \E p \in Devices, t \in Sockets : slow'[s] = <<p, t>> /\ Met(p, t)'
  PROVE  Attached'
<1>1. ASSUME NEW d \in Devices, Online(d)'
      PROVE  Owner[conn'[d]] = d /\ at'[conn'[d]] \in Looping
  <2>1. CASE conn'[d] = conn[d]
    BY <1>1, <2>1 DEF Attached, Stays, Online
  <2>2. CASE \E s \in Sockets : conn'[d] = s /\ at'[s] = "live" /\ Owner[s] = d
    BY <2>2 DEF Looping
  <2>. QED
    BY <1>1, <2>1, <2>2 DEF Moves, Online
<1>2. ASSUME NEW s \in Sockets, at'[s] = "slow"
      PROVE  \E p \in Devices, t \in Sockets : slow'[s] = <<p, t>> /\ Met(p, t)'
  <2>1. CASE at[s] = "slow" /\ slow'[s] = slow[s]
    <3>1. PICK p \in Devices, t \in Sockets : slow[s] = <<p, t>> /\ Met(p, t)
      BY <2>1 DEF Attached
    <3>2. Met(p, t)'
      BY <3>1, MetKept
    <3>. QED
      BY <2>1, <3>1, <3>2
  <2>. QED
    BY <1>2, <2>1
<1>. QED
  BY <1>1, <1>2 DEF Attached

\* What the hub's operations do to the connections.
LEMMA DisconnectHub ==
  ASSUME HubType, NEW d \in Devices, NEW t, Disconnect(d, t)
  PROVE  /\ HubType'
         /\ \A e \in Devices : conn'[e] = IF e = d /\ conn[d] = t THEN NoSocket ELSE conn[e]
BY DEF HubType, Disconnect, hub

LEMMA KickHub ==
  ASSUME HubType, NEW d \in Devices, Kick(d)
  PROVE  /\ HubType'
         /\ \A e \in Devices : conn'[e] = IF e = d THEN NoSocket ELSE conn[e]
BY DEF HubType, Kick, hub, Online

LEMMA AuthorizeHub ==
  ASSUME HubType, NEW a \in Devices, NEW b \in Devices, Authorize(a, b) \/ Revoke(a, b)
  PROVE  HubType' /\ conn' = conn
BY DEF HubType, Authorize, Revoke, SetRight

LEMMA RegisterHub ==
  ASSUME HubType, NEW d \in Devices, NEW s \in Sockets, known[s] \subseteq Devices, Register(d, s)
  PROVE  /\ HubType'
         /\ conn' = [conn EXCEPT ![d] = s] /\ peers' = [peers EXCEPT ![d] = known[s]]
         /\ stale' = [stale EXCEPT ![d] = {}]
BY DEF HubType, Register

\* A step outside the loops, by which nobody connects.
LEMMA OutsideAttached ==
  ASSUME Attached, Kept, HubType', UNCHANGED <<at, known, slow>>, LookupGated',
         \A d \in Devices : conn'[d] \in {conn[d], NoSocket}
  PROVE  Attached'
<1>1. Moves /\ Passes
  BY DEF Moves, Passes
<1>2. Stays
  BY DEF Stays, Attached
<1>3. LoopType'
  BY DEF Attached, LoopType
<1>. QED
  BY <1>1, <1>2, <1>3, AttachedMoves DEF Attached

LEMMA CallAttached ==
  ASSUME Attached, Calling, Kept,
         \/ CallStep \/ Abandon
         \/ \E op \in Ops : \E d, e \in Devices : Begin(op, d, e)
         \/ \E h \in Hosts : PairingStep(h)
  PROVE  Attached'
<1>0. /\ call.by \in Devices /\ call.with \in Devices
      /\ Free \notin Sockets /\ ApiCall \notin Sockets
      /\ NoCall.stage = "idle"
  BY NoCallType, RelayAssumption DEF Calling, CallType
<1>1. gate' = gate \/ (gate \notin Sockets /\ gate' \notin Sockets)
  <2>1. CASE CallStep
    BY <1>0, <2>1 DEF CallStep, UnpairLinks, UnpairOffers, UnpairHub, Approve, ApproveRefused,
       ApproveHub, RemoveLookup, RemoveRow, RemoveKick, RemovePeer, Step, Calling
  <2>2. CASE Abandon
    <3>1. call.stage # "idle" /\ gate' = Free
      BY <2>2 DEF Abandon, Calling
    <3>. QED
      BY <1>0, <3>1 DEF Calling
  <2>3. CASE \E op \in Ops : \E d, e \in Devices : Begin(op, d, e)
    BY <1>0, <2>3 DEF Begin
  <2>4. CASE \E h \in Hosts : PairingStep(h)
    BY <2>4 DEF PairingStep, CreatePairing, CancelPairing, Expire, Claim
  <2>. QED
    BY <2>1, <2>2, <2>3, <2>4
<1>2. UNCHANGED <<at, known, slow>>
  BY DEF CallStep, UnpairLinks, UnpairOffers, UnpairHub, Approve, ApproveRefused,
     ApproveHub, RemoveLookup, RemoveRow, RemoveKick, RemovePeer, Step, Abandon, Begin,
     PairingStep, CreatePairing, CancelPairing, Expire, Claim, loops
<1>3. LookupGated'
  BY <1>1, <1>2 DEF LookupGated, Attached
<1>4. HubType' /\ \A d \in Devices : conn'[d] \in {conn[d], NoSocket}
  <2>0. HubType
    BY DEF Attached
  <2>1. CASE UNCHANGED hub
    BY <2>0, <2>1 DEF hub, HubType
  <2>2. CASE UnpairHub
    BY <1>0, <2>0, <2>2, AuthorizeHub DEF UnpairHub
  <2>3. CASE ApproveHub
    BY <1>0, <2>0, <2>3, AuthorizeHub DEF ApproveHub
  <2>4. CASE \E p \in Devices : RemovePeer(p)
    BY <1>0, <2>0, <2>4, AuthorizeHub DEF RemovePeer
  <2>5. CASE RemoveKick
    BY <1>0, <2>0, <2>5, KickHub DEF RemoveKick
  <2>6. CASE Abandon
    BY <2>0, <2>6 DEF Abandon, HubType
  <2>. QED
    BY <2>1, <2>2, <2>3, <2>4, <2>5, <2>6 DEF CallStep, UnpairLinks, UnpairOffers, Approve,
       ApproveRefused, RemoveLookup, RemoveRow, Abandon, Begin,
       PairingStep, CreatePairing, CancelPairing, Expire, Claim
<1>. QED
  BY <1>2, <1>3, <1>4, OutsideAttached

\* A step of one loop that leaves the lookup alone.
LEMMA LoopAttached ==
  ASSUME Attached, Kept, HubType', NEW s \in Sockets, NEW place \in Places \ Unborn,
         at[s] \notin Unborn, Goto(s, place), UNCHANGED <<gate, known>>,
         slow' \in [Sockets -> (Devices \X Sockets) \cup {NoSocket}],
         \A t \in Sockets \ {s} : slow'[t] = slow[t],
         \A d \in Devices : conn'[d] \in {conn[d], NoSocket},
         place \notin Looping => conn'[Owner[s]] # s,
         place = "slow" =>
           \E p \in Devices, t \in Sockets : slow'[s] = <<p, t>> /\ Met(p, t)'
  PROVE  Attached'
<1>1. at' \in [Sockets -> Places] /\ \A t \in Sockets : at'[t] = IF t = s THEN place ELSE at[t]
  BY DEF Goto, Attached, LoopType
<1>2. LoopType'
  BY <1>1 DEF Attached, LoopType
<1>3. LookupGated'
  BY <1>1 DEF Attached, LookupGated, Unborn
<1>4. Moves /\ Passes
  BY <1>1 DEF Moves, Passes
<1>5. Stays
  <2>. SUFFICES ASSUME NEW d \in Devices, conn'[d] = conn[d], Online(d)
                PROVE  at'[conn[d]] \in Looping
    BY DEF Stays
  <2>1. conn[d] \in Sockets /\ Owner[conn[d]] = d /\ at[conn[d]] \in Looping
    BY DEF Attached, HubType, Online
  <2>2. CASE conn[d] = s
    BY <1>1, <2>1, <2>2
  <2>3. CASE conn[d] # s
    BY <1>1, <2>1, <2>3
  <2>. QED
    BY <2>2, <2>3
<1>6. \A t \in Sockets : at'[t] = "slow" =>
        \/ at[t] = "slow" /\ slow'[t] = slow[t]
        \/ \E p \in Devices, u \in Sockets : slow'[t] = <<p, u>> /\ Met(p, u)'
  BY <1>1
<1>. QED
  BY <1>2, <1>3, <1>4, <1>5, <1>6, AttachedMoves


LEMMA SocketAttached ==
  ASSUME Attached, Mail, Kept, NEW s \in Sockets, SocketStep(s)
  PROVE  Attached'
<1>0. /\ Owner[s] \in Devices /\ s # NoSocket /\ Free \notin Sockets /\ NoSocket \notin Sockets
      /\ HubType /\ LoopType /\ LookupGated
  BY RelayAssumption DEF Attached
<1>1. CASE LookUpPeers(s)
  <2>1. /\ at[s] = "new" /\ gate = Free /\ gate' = s
        /\ known' = [known EXCEPT ![s] = PeersOf(Owner[s])]
        /\ at' = [at EXCEPT ![s] = "lookup"]
        /\ UNCHANGED <<conn, peers, stale, slow>>
    BY <1>1 DEF LookUpPeers, Goto, hub
  <2>2. LoopType'
    BY <2>1, <1>0 DEF LoopType, PeersOf, Places
  <2>3. LookupGated'
    BY <1>0, <2>1 DEF LookupGated, LoopType
  <2>4. HubType' /\ Moves
    BY <1>0, <2>1 DEF HubType, Moves
  <2>5. Passes
    BY <1>0, <2>1 DEF Passes, LoopType, Unborn
  <2>6. Stays
    BY <1>0, <2>1 DEF Stays, LoopType, Attached, Looping, HubType, Online
  <2>7. \A t \in Sockets : at'[t] = "slow" => at[t] = "slow" /\ slow'[t] = slow[t]
    BY <1>0, <2>1 DEF LoopType
  <2>. QED
    BY <2>2, <2>3, <2>4, <2>5, <2>6, <2>7, AttachedMoves
<1>2. CASE Connect(s)
  <2>1. /\ at[s] = "lookup" /\ gate' = Free
        /\ known' = [known EXCEPT ![s] = {}]
        /\ at' = [at EXCEPT ![s] = "live"]
        /\ slow' = slow
    BY <1>2 DEF Connect, Goto
  <2>2. HubType' /\ conn' = [conn EXCEPT ![Owner[s]] = s]
    BY <1>0, <1>2, RegisterHub DEF Connect, LoopType
  <2>3. gate = s
    BY <1>0, <2>1 DEF LookupGated
  <2>4. LoopType'
    BY <2>1, <1>0 DEF LoopType, Places
  <2>5. LookupGated'
    BY <1>0, <2>1, <2>3 DEF LookupGated, LoopType
  <2>6. Moves
    BY <1>0, <2>1, <2>2 DEF Moves, HubType, LoopType
  <2>7. Passes
    BY <1>0, <2>1 DEF Passes, LoopType, Unborn
  <2>8. Stays
    BY <1>0, <2>1 DEF Stays, LoopType, Attached, Looping, HubType, Online
  <2>9. \A t \in Sockets : at'[t] = "slow" => at[t] = "slow" /\ slow'[t] = slow[t]
    BY <1>0, <2>1 DEF LoopType
  <2>. QED
    BY <2>2, <2>4, <2>5, <2>6, <2>7, <2>8, <2>9, AttachedMoves
<1>3. CASE Refuse(s)
  <2>1. /\ at[s] = "lookup" /\ gate' = Free
        /\ known' = [known EXCEPT ![s] = {}]
        /\ at' = [at EXCEPT ![s] = "ended"]
        /\ UNCHANGED <<conn, peers, stale, slow>>
    BY <1>3 DEF Refuse, Goto, hub
  <2>2. gate = s
    BY <1>0, <2>1 DEF LookupGated
  <2>3. LoopType'
    BY <2>1, <1>0 DEF LoopType, Places
  <2>4. LookupGated'
    BY <1>0, <2>1, <2>2 DEF LookupGated, LoopType
  <2>5. HubType' /\ Moves
    BY <1>0, <2>1 DEF HubType, Moves
  <2>6. Passes
    BY <1>0, <2>1 DEF Passes, LoopType, Unborn
  <2>7. Stays
    BY <1>0, <2>1 DEF Stays, LoopType, Attached, Looping, HubType, Online
  <2>8. \A t \in Sockets : at'[t] = "slow" => at[t] = "slow" /\ slow'[t] = slow[t]
    BY <1>0, <2>1 DEF LoopType
  <2>. QED
    BY <2>3, <2>4, <2>5, <2>6, <2>7, <2>8, AttachedMoves
<1>4. CASE \E p \in Devices : Route(s, p)
  <2>1. PICK p \in Devices : Route(s, p)
    BY <1>4
  <2>2. UNCHANGED <<conn, peers, stale, gate, known>> /\ at[s] = "live"
    BY <2>1 DEF Route, hub
  <2>3. HubType' /\ LookupGated /\ \A d \in Devices : conn'[d] \in {conn[d], NoSocket}
    BY <1>0, <2>2 DEF HubType
  <2>4. CASE UNCHANGED <<at, slow>>
    BY <2>2, <2>3, <2>4, OutsideAttached DEF LookupGated
  <2>5. CASE ~UNCHANGED <<at, slow>>
    <3>1. /\ p \in Devices /\ Online(p)
          /\ slow' = [slow EXCEPT ![s] = <<p, conn[p]>>] /\ Goto(s, "slow")
          /\ ~Fits(conn[p], <<"frame">>)
          /\ Deliver([Nothing EXCEPT ![conn[p]] = <<"frame">>], Nobody, Nobody)
      BY <2>1, <2>5 DEF Route
    <3>2. conn[p] \in Sockets /\ Owner[conn[p]] = p /\ at[conn[p]] \in Looping
      BY <1>0, <3>1 DEF Attached, HubType, Online
    <3>3. missed'[conn[p]]
      <4>1. [Nothing EXCEPT ![conn[p]] = <<"frame">>][conn[p]] = <<"frame">>
        BY <3>2 DEF Nothing
      <4>2. <<"frame">> # <<>>
        OBVIOUS
      <4>3. conn'[Owner[conn[p]]] = conn[p]
        BY <2>2, <3>2
      <4>4. missed' = [t \in Sockets |->
               conn'[Owner[t]] = t /\ (missed[t]
                 \/ ([Nothing EXCEPT ![conn[p]] = <<"frame">>][t] # <<>>
                     /\ ~Fits(t, [Nothing EXCEPT ![conn[p]] = <<"frame">>][t])))]
        BY <3>1 DEF Deliver
      <4>5. missed'[conn[p]] =
              (conn'[Owner[conn[p]]] = conn[p] /\ (missed[conn[p]]
                 \/ (<<"frame">> # <<>> /\ ~Fits(conn[p], <<"frame">>))))
        BY <3>2, <4>1, <4>4
      <4>. QED
        BY <3>1, <4>2, <4>3, <4>5
    <3>4. at'[conn[p]] \in Looping
      BY <1>0, <3>1, <3>2 DEF Goto, LoopType, Looping
    <3>5. slow'[s] = <<p, conn[p]>> /\ slow' \in [Sockets -> (Devices \X Sockets) \cup {NoSocket}]
          /\ \A t \in Sockets \ {s} : slow'[t] = slow[t]
      BY <1>0, <3>1, <3>2 DEF LoopType
    <3>6. Met(p, conn[p])'
      BY <2>2, <3>2, <3>3, <3>4 DEF Met, Looping, Unborn
    <3>7. "slow" \in Places \ Unborn /\ "slow" \in Looping /\ at[s] \notin Unborn
      BY <2>2 DEF Places, Unborn, Looping
    <3>8. \E q \in Devices, t \in Sockets : slow'[s] = <<q, t>> /\ Met(q, t)'
      <4>1. PICK t \in Sockets : t = conn[p]
        BY <3>2
      <4>2. slow'[s] = <<p, t>> /\ Met(p, t)'
        BY <2>2, <3>5, <3>6, <4>1 DEF Met
      <4>. QED
        BY <4>2
    <3>. QED
      BY <2>2, <2>3, <3>1, <3>5, <3>7, <3>8, LoopAttached
  <2>. QED
    BY <2>4, <2>5
<1>5. CASE DropSlow(s)
  <2>1. /\ at[s] = "slow" /\ slow' = [slow EXCEPT ![s] = NoSocket]
        /\ Goto(s, "live") /\ UNCHANGED <<gate, known>>
        /\ Disconnect(slow[s][1], slow[s][2])
    BY <1>5 DEF DropSlow
  <2>2. slow[s][1] \in Devices
    BY <2>1 DEF Attached
  <2>3. HubType' /\ \A d \in Devices : conn'[d] \in {conn[d], NoSocket}
    BY <1>0, <2>1, <2>2, DisconnectHub
  <2>4. slow' \in [Sockets -> (Devices \X Sockets) \cup {NoSocket}]
        /\ \A t \in Sockets \ {s} : slow'[t] = slow[t]
    BY <1>0, <2>1 DEF LoopType
  <2>5. "live" \in Places \ Unborn /\ "live" \in Looping /\ at[s] \notin Unborn /\ "live" # "slow"
    BY <2>1 DEF Places, Unborn, Looping
  <2>. QED
    BY <2>1, <2>3, <2>4, <2>5, LoopAttached
<1>6. CASE Ping(s) \/ HangUp(s) \/ Notice(s)
  <2>1. at[s] = "live" /\ UNCHANGED <<conn, peers, stale, gate, known, slow>>
    BY <1>6 DEF Ping, HangUp, Notice, hub
  <2>2. HubType' /\ \A d \in Devices : conn'[d] \in {conn[d], NoSocket}
    BY <1>0, <2>1 DEF HubType
  <2>3. CASE at' = at
    BY <1>0, <2>1, <2>2, <2>3, OutsideAttached DEF LookupGated
  <2>4. CASE Goto(s, "leaving")
    <3>1. slow' \in [Sockets -> (Devices \X Sockets) \cup {NoSocket}]
          /\ \A t \in Sockets \ {s} : slow'[t] = slow[t]
      BY <1>0, <2>1 DEF LoopType
    <3>2. "leaving" \in Places \ Unborn /\ "leaving" \in Looping /\ at[s] \notin Unborn
          /\ "leaving" # "slow"
      BY <2>1 DEF Places, Unborn, Looping
    <3>. QED
      BY <2>1, <2>2, <2>4, <3>1, <3>2, LoopAttached
  <2>. QED
    BY <1>6, <2>3, <2>4 DEF Ping, HangUp, Notice, Leave
<1>7. CASE End(s)
  <2>1. /\ at[s] = "leaving" /\ slow' = slow /\ Goto(s, "ended") /\ UNCHANGED <<gate, known>>
        /\ Disconnect(Owner[s], s)
    BY <1>7 DEF End
  <2>2. HubType' /\ \A d \in Devices : conn'[d] = IF d = Owner[s] /\ conn[Owner[s]] = s
                                                  THEN NoSocket ELSE conn[d]
    BY <1>0, <2>1, DisconnectHub
  <2>3. conn'[Owner[s]] # s /\ \A d \in Devices : conn'[d] \in {conn[d], NoSocket}
    BY <1>0, <2>2
  <2>4. slow' \in [Sockets -> (Devices \X Sockets) \cup {NoSocket}]
        /\ \A t \in Sockets \ {s} : slow'[t] = slow[t]
    BY <1>0, <2>1 DEF LoopType
  <2>5. "ended" \in Places \ Unborn /\ at[s] \notin Unborn /\ "ended" # "slow"
    BY <2>1 DEF Places, Unborn
  <2>. QED
    BY <2>1, <2>2, <2>3, <2>4, <2>5, LoopAttached
<1>8. CASE Write(s) \/ SinkFails(s)
  <2>1. UNCHANGED <<conn, peers, stale, gate, at, known, slow>>
    BY <1>8 DEF Write, SinkFails, hub, loops
  <2>2. HubType' /\ \A d \in Devices : conn'[d] \in {conn[d], NoSocket}
    BY <1>0, <2>1 DEF HubType
  <2>. QED
    BY <1>0, <2>1, <2>2, OutsideAttached DEF LookupGated
<1>. QED
  BY <1>1, <1>2, <1>3, <1>4, <1>5, <1>6, <1>7, <1>8 DEF SocketStep

\* All of it.
Sound == Registry /\ Calling /\ Attached /\ Mail

LEMMA InitSound == Init => Sound
<1>. SUFFICES ASSUME Init PROVE Sound
  OBVIOUS
<1>1. Registry
  BY RelayAssumption DEF Init, Registry, Devices
<1>2. Calling
  BY NoCallType, RelayAssumption DEF Init, Calling
<1>3. Attached
  BY RelayAssumption DEF Init, Attached, HubType, LoopType, LookupGated, Online, Places
<1>4. Mail
  <2>1. <<>> \in Seq(Frames) /\ Len(<<>>) = 0 /\ 0 =< QueueSize
    BY RelayAssumption
  <2>. QED
    BY <2>1 DEF Init, Mail
<1>. QED
  BY <1>1, <1>2, <1>3, <1>4 DEF Sound

LEMMA StepSound ==
  ASSUME Sound, [Next]_vars
  PROVE  Sound' /\ Kept
<1>1. Registry'
  BY StepRegistry DEF Sound
<1>2. Calling'
  BY StepCalling DEF Sound, Attached, LookupGated
<1>3. Mail' /\ Kept
  BY StepMail DEF Sound, Attached, LoopType, Calling
<1>4. Attached'
  <2>1. CASE UNCHANGED vars
    <3>1. UNCHANGED <<conn, peers, stale, gate, at, known, slow, missed>>
      BY <2>1 DEF vars, hub, loops, mail
    <3>. QED
      BY <3>1 DEF Sound, Attached, HubType, LoopType, LookupGated, Online, Met
  <2>2. CASE \E s \in Sockets : SocketStep(s)
    BY <1>3, <2>2, SocketAttached DEF Sound
  <2>3. CASE ~UNCHANGED vars /\ ~\E s \in Sockets : SocketStep(s)
    <3>1. \/ CallStep \/ Abandon
          \/ \E op \in Ops : \E d, e \in Devices : Begin(op, d, e)
          \/ \E h \in Hosts : PairingStep(h)
      BY <2>3 DEF Next
    <3>2. Attached /\ Calling /\ Kept
      BY <1>3 DEF Sound
    <3>. QED
      BY <3>1, <3>2, CallAttached
  <2>. QED
    BY <2>1, <2>2, <2>3
<1>. QED
  BY <1>1, <1>2, <1>3, <1>4 DEF Sound

\* Every pair and every pairing is of registered devices, the gate has the
\* holder that is in its call or lookup, and no queue exceeds its bound, also
\* when a call ends between the database and the hub.
THEOREM TypeCorrect == Spec => []TypeOK
<1>1. Sound => TypeOK
  <2>. SUFFICES ASSUME Sound PROVE TypeOK
    OBVIOUS
  <2>1. gate = ApiCall <=> call # NoCall
    BY NoCallType DEF Sound, Calling
  <2>. QED
    BY <2>1 DEF Sound, Registry, Calling, CallType, Attached, HubType, LoopType, Mail, TypeOK
<1>. QED
  BY InitSound, StepSound, <1>1, PTL DEF Spec


\* Why a connection is taken from the hub.
Excused(d) ==
  \/ conn'[d] # NoSocket /\ at[conn'[d]] = "lookup"
  \/ at[conn[d]] = "leaving" \/ missed[conn[d]] \/ d \notin registered

LEMMA SocketExcused ==
  ASSUME Sound, NEW s \in Sockets, SocketStep(s), NEW d \in Devices, Online(d), conn'[d] # conn[d]
  PROVE  Excused(d)
<1>0. /\ Owner[s] \in Devices /\ s # NoSocket /\ conn[d] \in Sockets
      /\ Attached /\ HubType /\ LoopType
  BY RelayAssumption DEF Sound, Attached, HubType, Online
<1>1. CASE Connect(s)
  <2>1. at[s] = "lookup" /\ conn' = [conn EXCEPT ![Owner[s]] = s]
    BY <1>1 DEF Connect, Register
  <2>2. conn'[d] = s
    BY <1>0, <2>1 DEF HubType
  <2>. QED
    BY <1>0, <2>1, <2>2 DEF Excused
<1>2. CASE DropSlow(s)
  <2>1. at[s] = "slow" /\ Disconnect(slow[s][1], slow[s][2])
    BY <1>2 DEF DropSlow
  <2>2. PICK p \in Devices, t \in Sockets : slow[s] = <<p, t>> /\ Met(p, t)
    BY <1>0, <2>1 DEF Attached
  <2>3. slow[s][1] = p /\ slow[s][2] = t
    BY <2>2
  <2>4. d = p /\ conn[p] = t
    BY <1>0, <2>1, <2>3, DisconnectHub
  <2>. QED
    BY <2>2, <2>4 DEF Met, Excused
<1>3. CASE End(s)
  <2>1. at[s] = "leaving" /\ Disconnect(Owner[s], s)
    BY <1>3 DEF End
  <2>2. d = Owner[s] /\ conn[d] = s
    BY <1>0, <2>1, DisconnectHub
  <2>. QED
    BY <2>1, <2>2 DEF Excused
<1>4. CASE conn' = conn
  BY <1>4
<1>. QED
  BY <1>1, <1>2, <1>3, <1>4 DEF SocketStep, LookUpPeers, Refuse, Route, Ping, HangUp, Notice,
     Write, SinkFails, hub

\* A connection is taken out of the hub only for a newer socket, because its
\* own loop is left, because its own queue refused a frame, or because its
\* device is registered no more, whatever comes late (hub.rs: disconnect's
\* serial, route, kick), for any number of devices and sockets.
THEOREM OnlyOwnDropped == Spec => NobodyElseDropped
<1>1. ASSUME Sound, [Next]_vars
      PROVE  [\A d \in Devices : Online(d) /\ conn'[d] # conn[d] =>
                \/ conn'[d] # NoSocket /\ at[conn'[d]] = "lookup"
                \/ at[conn[d]] = "leaving" \/ missed[conn[d]] \/ d \notin registered]_vars
  <2>. SUFFICES ASSUME Next, NEW d \in Devices, Online(d), conn'[d] # conn[d]
                PROVE  Excused(d)
    BY <1>1 DEF Excused
  <2>0. HubType /\ call.by \in Devices /\ call.with \in Devices
    BY <1>1 DEF Sound, Attached, Calling, CallType
  <2>1. CASE \E s \in Sockets : SocketStep(s)
    BY <1>1, <2>1, SocketExcused
  <2>2. CASE RemoveKick
    <3>1. call.op = "remove" /\ call.stage = "hub" /\ Kick(call.by)
      BY <2>2 DEF RemoveKick, Step
    <3>2. d = call.by
      BY <2>0, <3>1, KickHub
    <3>. QED
      BY <1>1, <3>1, <3>2 DEF Sound, Calling, Excused
  <2>3. CASE UnpairHub \/ ApproveHub \/ \E p \in Devices : RemovePeer(p)
    BY <2>3 DEF UnpairHub, ApproveHub, RemovePeer, Authorize, Revoke
  <2>4. CASE \E h \in Hosts : PairingStep(h)
    BY <2>4 DEF PairingStep, CreatePairing, CancelPairing, Expire, Claim, hub
  <2>5. CASE CallStep \/ Abandon \/ (\E op \in Ops : \E a, e \in Devices : Begin(op, a, e))
    BY <2>2, <2>3, <2>5 DEF CallStep, UnpairLinks, UnpairOffers, Approve, ApproveRefused,
       RemoveLookup, RemoveRow, Abandon, Begin, hub
  <2>. QED
    BY <2>1, <2>4, <2>5 DEF Next
<1>. QED
  BY InitSound, StepSound, <1>1, PTL DEF Spec, NobodyElseDropped



-----------------------------------------------------------------------------
(* What the devices were told.                                              *)

\* No connection is marked for what a call did not say of the other's device.
Clean(d, p) == p \notin stale[d] /\ d \notin stale[p]

NotItsOwn ==
  /\ \A d \in Devices : d \notin peers[d]
  /\ \A s \in Sockets : Owner[s] \notin told[s]

\* A socket that is not its owner's connection was told nothing.
Fresh == \A s \in Sockets : conn[Owner[s]] # s => told[s] = {}

Truth(d, p) ==
  Online(d) /\ Clean(d, p) => (p \in told[conn[d]] <=> p \in peers[d] /\ Online(p))

\* Who is told that another one is connected is one of its peers, and so will
\* hear that it is gone, even when that one's connection is wrong about it.
Heard(d, p) ==
  Online(d) /\ p \notin stale[d] /\ p \in told[conn[d]] => p \in peers[d] /\ d \in peers[p]

Informed ==
  /\ NotItsOwn /\ Fresh
  /\ \A d \in Devices : \A p \in Devices \ {d} : Truth(d, p) /\ Heard(d, p)

\* The socket of a device that is connected is its own.
LEMMA OwnSocket ==
  ASSUME Attached, NEW d \in Devices, Online(d)
  PROVE  /\ conn[d] \in Sockets /\ Owner[conn[d]] = d
         /\ \A e \in Devices : conn[e] = conn[d] => e = d
<1>1. \A e \in Devices : Online(e) => conn[e] \in Sockets /\ Owner[conn[e]] = e
  BY DEF Attached, HubType, Online
<1>. QED
  BY <1>1 DEF Online

\* What a socket was told follows what it is sent.
LEMMA Hears ==
  ASSUME NEW out, NEW up, NEW down, Deliver(out, up, down), NEW t \in Sockets
  PROVE  told'[t] = IF conn'[Owner[t]] = t THEN (told[t] \cup up[t]) \ down[t] ELSE {}
BY DEF Deliver

\* Who hears that a device is gone, and who that two were linked or parted.
LEMMA GoneTo ==
  ASSUME Attached, NEW d \in Devices, NEW a \in Devices \ {d}, Online(a),
         peers[d] \subseteq Devices
  PROVE  Gone(d)[conn[a]] = IF a \in peers[d] THEN {d} ELSE {}
<1>1. conn[a] \in Sockets /\ \A e \in Devices : conn[e] = conn[a] => e = a
  BY OwnSocket
<1>2. Gone(d)[conn[a]] = IF \E p \in peers[d] \ {d} : conn[p] = conn[a] THEN {d} ELSE {}
  BY <1>1 DEF Gone
<1>. QED
  BY <1>1, <1>2

\* The other one of a and b, when d is one of them.
Other(a, b, d) == IF d = a THEN {b} ELSE IF d = b THEN {a} ELSE {}

LEMMA SidesTo ==
  ASSUME Attached, NEW a \in Devices, NEW b \in Devices, NEW d \in Devices, Online(d)
  PROVE  Sides(a, b)[conn[d]] = IF d = a THEN {b} ELSE IF d = b THEN {a} ELSE {}
<1>1. conn[d] \in Sockets /\ \A e \in Devices : conn[e] = conn[d] => e = d
  BY OwnSocket
<1>. QED
  BY <1>1 DEF Sides

\* A step that neither connects nor parts anybody and tells nothing; it may mark
\* connections.
LEMMA QuietInformed ==
  ASSUME Informed, Attached, conn' = conn, peers' = peers,
         \A d \in Devices : stale[d] \subseteq stale'[d],
         \A t \in Sockets : told'[t] = told[t]
  PROVE  Informed'
<1>1. NotItsOwn' /\ Fresh'
  BY DEF Informed, NotItsOwn, Fresh
<1>2. ASSUME NEW d \in Devices, NEW p \in Devices \ {d} PROVE Truth(d, p)' /\ Heard(d, p)'
  <2>1. Truth(d, p) /\ Heard(d, p)
    BY DEF Informed
  <2>2. Online(d) => conn[d] \in Sockets
    BY OwnSocket
  <2>3. p \notin stale'[d] => p \notin stale[d]
    OBVIOUS
  <2>4. d \notin stale'[p] => d \notin stale[p]
    OBVIOUS
  <2>. QED
    BY <2>1, <2>2, <2>3, <2>4 DEF Truth, Heard, Clean, Online
<1>. QED
  BY <1>1, <1>2 DEF Informed

\* So does one that sends frames which are no events.
LEMMA FrameInformed ==
  ASSUME Informed, Attached, conn' = conn, peers' = peers, stale' = stale,
         NEW out, Deliver(out, Nobody, Nobody)
  PROVE  Informed'
<1>1. ASSUME NEW t \in Sockets PROVE told'[t] = told[t]
  <2>1. Nobody[t] = {}
    BY DEF Nobody
  <2>2. told'[t] = IF conn[Owner[t]] = t THEN (told[t] \cup {}) \ {} ELSE {}
    BY <2>1, Hears
  <2>. QED
    BY <2>2 DEF Informed, Fresh
<1>. QED
  BY <1>1, QuietInformed

\* A device that is gone is gone for its peers, which are those it had.
LEMMA DropInformed ==
  ASSUME Informed, Attached, NEW d \in Devices, Online(d),
         conn' = [conn EXCEPT ![d] = NoSocket], peers' = [peers EXCEPT ![d] = {}],
         stale' = [stale EXCEPT ![d] = {}],
         NEW out, Deliver(out, Nobody, Gone(d))
  PROVE  Informed'
<1>0. HubType
  BY DEF Attached
<1>1. \A a \in Devices : Online(a)' <=> (a # d /\ Online(a))
  BY <1>0 DEF HubType, Online
<1>2. \A a \in Devices \ {d} :
        conn'[a] = conn[a] /\ peers'[a] = peers[a] /\ stale'[a] = stale[a]
  BY <1>0 DEF HubType
<1>3. ASSUME NEW t \in Sockets
      PROVE  told'[t] = IF conn'[Owner[t]] = t THEN told[t] \ Gone(d)[t] ELSE {}
  BY Hears DEF Nobody
<1>4. NotItsOwn'
  <2>1. \A a \in Devices : a \notin peers'[a]
    BY <1>0 DEF Informed, NotItsOwn, HubType
  <2>. QED
    BY <1>3, <2>1 DEF Informed, NotItsOwn
<1>5. Fresh'
  BY <1>3 DEF Fresh
<1>6. ASSUME NEW a \in Devices, NEW p \in Devices \ {a} PROVE Truth(a, p)' /\ Heard(a, p)'
  <2>. SUFFICES ASSUME a # d, Online(a), p \notin stale[a]
                PROVE  Truth(a, p)' /\ Heard(a, p)'
    BY <1>1, <1>2 DEF Truth, Heard, Clean
  <2>1. conn[a] \in Sockets /\ Owner[conn[a]] = a /\ conn'[a] = conn[a] /\ Online(a)'
    BY <1>1, <1>2, OwnSocket
  <2>2. told'[conn[a]] = told[conn[a]] \ (IF a \in peers[d] THEN {d} ELSE {})
    <3>1. Gone(d)[conn[a]] = IF a \in peers[d] THEN {d} ELSE {}
      BY <1>0, GoneTo DEF HubType
    <3>. QED
      BY <1>3, <2>1, <3>1
  <2>3. Truth(a, p) /\ Heard(a, p)
    BY DEF Informed
  <2>4. CASE p = d
    <3>1. d \notin told'[conn[a]]
      BY <2>2, <2>3, <2>4 DEF Heard
    <3>. QED
      BY <1>1, <2>1, <2>4, <3>1 DEF Truth, Heard
  <2>5. CASE p # d
    <3>1. p \in told'[conn[a]] <=> p \in told[conn[a]]
      BY <2>2, <2>5
    <3>. QED
      BY <1>1, <1>2, <2>1, <2>3, <2>5, <3>1 DEF Truth, Heard, Clean
  <2>. QED
    BY <2>4, <2>5
<1>. QED
  BY <1>4, <1>5, <1>6 DEF Informed

\* What a call says of two devices: to each of them that is connected.
Says(a, b, how) ==
  /\ how = "link" => a # b
  /\ \A d \in Devices : peers'[d] =
       IF how = "part" THEN peers[d] \ Other(a, b, d)
       ELSE IF Online(d) THEN peers[d] \cup Other(a, b, d) ELSE peers[d]
  /\ \A d \in Devices : Online(d) => told'[conn[d]] =
       IF how = "part" THEN told[conn[d]] \ Other(a, b, d)
       ELSE (told[conn[d]] \cup {p \in Other(a, b, d) : Online(p)})
              \ {p \in Other(a, b, d) : ~Online(p)}
  /\ \A t \in Sockets : conn[Owner[t]] # t => told'[t] = {}

\* It touches no other pair, and is right of them.
LEMMA SidesInformed ==
  ASSUME Informed, Attached, NEW a \in Devices, NEW b \in Devices,
         conn' = conn, SetRight(a, b), NEW how \in {"link", "part"}, Says(a, b, how)
  PROVE  Informed'
<1>0. HubType
  BY DEF Attached
<1>. USE DEF Says
<1>1. \A d \in Devices : Online(d)' <=> Online(d)
  BY DEF Online
<1>2. \A d \in Devices : \A p \in Devices \ {d} :
        p \in Other(a, b, d) <=> {d, p} = {a, b}
  <2>. SUFFICES ASSUME NEW d \in Devices, NEW p \in Devices \ {d}
                PROVE  p \in Other(a, b, d) <=> {d, p} = {a, b}
    OBVIOUS
  <2>1. {d, p} = {a, b} <=> (d = a /\ p = b) \/ (d = b /\ p = a)
    BY SamePair
  <2>. QED
    BY <2>1 DEF Other
<1>3. how = "link" => \A d \in Devices : d \notin Other(a, b, d)
  BY DEF Other
<1>4. NotItsOwn'
  <2>1. \A d \in Devices : d \notin peers'[d]
    BY <1>3 DEF Informed, NotItsOwn
  <2>2. ASSUME NEW s \in Sockets PROVE Owner[s] \notin told'[s]
    <3>1. CASE conn[Owner[s]] # s
      BY <3>1
    <3>2. CASE conn[Owner[s]] = s
      <4>1. PICK d \in Devices : d = Owner[s]
        BY RelayAssumption
      <4>2. Online(d) /\ conn[d] = s /\ d \notin told[s]
        BY <3>2, <4>1, RelayAssumption DEF Informed, NotItsOwn, Online
      <4>3. d \notin told'[conn[d]]
        BY <1>3, <4>2
      <4>. QED
        BY <4>1, <4>2, <4>3
    <3>. QED
      BY <3>1, <3>2
  <2>. QED
    BY <2>1, <2>2 DEF NotItsOwn
<1>5. Fresh'
  BY DEF Fresh
<1>6. ASSUME NEW d \in Devices, NEW p \in Devices \ {d} PROVE Truth(d, p)' /\ Heard(d, p)'
  <2>. SUFFICES ASSUME Online(d)
                PROVE  Truth(d, p)' /\ Heard(d, p)'
    BY <1>1 DEF Truth, Heard
  <2>1. CASE {d, p} = {a, b}
    <3>1. p \in Other(a, b, d)
      BY <1>2, <2>1
    <3>2. d \in Other(a, b, p)
      <4>1. {p, d} = {a, b}
        BY <2>1
      <4>. QED
        BY <1>2, <4>1
    <3>3. p \in told'[conn[d]] <=> how = "link" /\ Online(p)
      BY <3>1
    <3>4. how = "link" => p \in peers'[d] /\ (Online(p) => d \in peers'[p])
      BY <3>1, <3>2
    <3>5. how = "part" => p \notin peers'[d]
      BY <3>1
    <3>. QED
      BY <1>1, <3>3, <3>4, <3>5 DEF Truth, Heard
  <2>2. CASE {d, p} # {a, b}
    <3>1. p \notin Other(a, b, d)
      BY <1>2, <2>2
    <3>2. d \notin Other(a, b, p)
      <4>1. {p, d} # {a, b}
        BY <2>2, SamePair
      <4>. QED
        BY <1>2, <4>1
    <3>3. (p \in stale'[d] <=> p \in stale[d]) /\ (d \in stale'[p] <=> d \in stale[p])
      <4>1. {p, d} # {a, b}
        BY <2>2, SamePair
      <4>. QED
        BY <1>0, <2>2, <4>1, SetRightTo DEF HubType
    <3>4. (p \in peers'[d] <=> p \in peers[d]) /\ (d \in peers'[p] <=> d \in peers[p])
      BY <3>1, <3>2
    <3>5. p \in told'[conn[d]] <=> p \in told[conn[d]]
      <4>1. CASE how = "link"
        <5>1. told'[conn[d]] = (told[conn[d]] \cup {q \in Other(a, b, d) : Online(q)})
                                 \ {q \in Other(a, b, d) : ~Online(q)}
          BY <4>1
        <5>. QED
          BY <3>1, <5>1
      <4>2. CASE how = "part"
        <5>1. told'[conn[d]] = told[conn[d]] \ Other(a, b, d)
          BY <4>2
        <5>. QED
          BY <3>1, <5>1
      <4>. QED
        BY <4>1, <4>2
    <3>6. Truth(d, p) /\ Heard(d, p)
      BY DEF Informed
    <3>. QED
      BY <1>1, <3>3, <3>4, <3>5, <3>6 DEF Truth, Heard, Clean
  <2>. QED
    BY <2>1, <2>2
<1>. QED
  BY <1>4, <1>5, <1>6 DEF Informed

\* Two devices are parted.
LEMMA RevokeInformed ==
  ASSUME Informed, Attached, NEW a \in Devices, NEW b \in Devices, Revoke(a, b)
  PROVE  Informed'
<1>0. HubType
  BY DEF Attached
<1>1. conn' = conn /\ SetRight(a, b) /\ Deliver(Event(Sides(a, b)), Nobody, Sides(a, b))
  BY DEF Revoke
<1>2. \A d \in Devices : peers'[d] = peers[d] \ Other(a, b, d)
  <2>1. peers' = [peers EXCEPT ![a] = @ \ {b}, ![b] = @ \ {a}]
    BY DEF Revoke
  <2>2. CASE a = b
    BY <1>0, <2>1, <2>2 DEF HubType, Other
  <2>3. CASE a # b
    BY <1>0, <2>1, <2>3 DEF HubType, Other
  <2>. QED
    BY <2>2, <2>3
<1>3. ASSUME NEW d \in Devices, Online(d)
      PROVE  told'[conn[d]] = told[conn[d]] \ Other(a, b, d)
  <2>1. conn[d] \in Sockets /\ Owner[conn[d]] = d
    BY <1>3, OwnSocket
  <2>2. Sides(a, b)[conn[d]] = Other(a, b, d)
    BY <1>3, SidesTo DEF Other
  <2>3. PICK t \in Sockets : t = conn[d]
    BY <2>1
  <2>4. Nobody[t] = {} /\ conn'[Owner[t]] = t
    BY <1>1, <2>1, <2>3 DEF Nobody
  <2>5. told'[t] = IF conn'[Owner[t]] = t THEN (told[t] \cup Nobody[t]) \ Sides(a, b)[t] ELSE {}
    BY <1>1, Hears
  <2>. QED
    BY <2>2, <2>3, <2>4, <2>5
<1>4. \A t \in Sockets : conn[Owner[t]] # t => told'[t] = {}
  BY <1>1, Hears
<1>5. Says(a, b, "part")
  BY <1>2, <1>3, <1>4 DEF Says
<1>. QED
  BY <1>1, <1>5, SidesInformed

\* Two devices are linked, and each of them that is connected hears whether
\* the other one is.
LEMMA AuthorizeInformed ==
  ASSUME Informed, Attached, NEW a \in Devices, NEW b \in Devices, a # b, Authorize(a, b)
  PROVE  Informed'
<1> DEFINE up == [s \in Sockets |-> {d \in Sides(a, b)[s] : Online(d)}]
           down == [s \in Sockets |-> {d \in Sides(a, b)[s] : ~Online(d)}]
<1>1. conn' = conn /\ SetRight(a, b) /\ Deliver(Event(Sides(a, b)), up, down)
  BY DEF Authorize
<1>2. \A d \in Devices :
        peers'[d] = IF Online(d) THEN peers[d] \cup Other(a, b, d) ELSE peers[d]
  BY DEF Authorize, Other
<1>3. ASSUME NEW d \in Devices, Online(d)
      PROVE  told'[conn[d]] = (told[conn[d]] \cup {p \in Other(a, b, d) : Online(p)})
                                \ {p \in Other(a, b, d) : ~Online(p)}
  <2>1. conn[d] \in Sockets /\ Owner[conn[d]] = d
    BY <1>3, OwnSocket
  <2>2. Sides(a, b)[conn[d]] = Other(a, b, d)
    BY <1>3, SidesTo DEF Other
  <2>3. up[conn[d]] = {p \in Other(a, b, d) : Online(p)}
        /\ down[conn[d]] = {p \in Other(a, b, d) : ~Online(p)}
    BY <2>1, <2>2
  <2>. HIDE DEF up, down
  <2>4. told'[conn[d]] = (told[conn[d]] \cup up[conn[d]]) \ down[conn[d]]
    <3>1. PICK t \in Sockets : t = conn[d]
      BY <2>1
    <3>2. conn'[Owner[t]] = t
      BY <1>1, <2>1, <3>1
    <3>3. told'[t] = IF conn'[Owner[t]] = t THEN (told[t] \cup up[t]) \ down[t] ELSE {}
      BY <1>1, Hears
    <3>. QED
      BY <3>1, <3>2, <3>3
  <2>. QED
    BY <2>3, <2>4
<1>4. \A t \in Sockets : conn[Owner[t]] # t => told'[t] = {}
  <2>. HIDE DEF up, down
  <2>. QED
    BY <1>1, Hears
<1>. HIDE DEF up, down
<1>5. Says(a, b, "link")
  BY <1>2, <1>3, <1>4 DEF Says
<1>. QED
  BY <1>1, <1>5, SidesInformed


LEMMA GoneInformed ==
  ASSUME Informed, Attached, NEW d \in Devices,
         Kick(d) \/ \E t \in Sockets : Disconnect(d, t)
  PROVE  Informed'
<1>1. CASE UNCHANGED <<conn, peers, stale, told>>
  BY <1>1, QuietInformed
<1>2. CASE ~UNCHANGED <<conn, peers, stale, told>>
  <2>1. PICK out : /\ Online(d)
                   /\ conn' = [conn EXCEPT ![d] = NoSocket] /\ peers' = [peers EXCEPT ![d] = {}]
                   /\ stale' = [stale EXCEPT ![d] = {}]
                   /\ Deliver(out, Nobody, Gone(d))
    <3>1. CASE Kick(d)
      BY <1>2, <3>1 DEF Kick, hub, mail
    <3>2. CASE \E t \in Sockets : Disconnect(d, t)
      <4>1. PICK t \in Sockets : Disconnect(d, t)
        BY <3>2
      <4>2. conn[d] = t /\ t # NoSocket
        BY <1>2, <4>1, RelayAssumption DEF Disconnect, hub
      <4>. QED
        BY <4>1, <4>2 DEF Disconnect, Online
    <3>. QED
      BY <3>1, <3>2
  <2>. QED
    BY <2>1, DropInformed
<1>. QED
  BY <1>1, <1>2

\* While no call holds the gate, a device's linked peers that are connected
\* have it among theirs, if they are not marked.
LEMMA LinkedBoth ==
  ASSUME IInv, call.stage = "idle", NEW d \in Devices, NEW p \in Devices \ {d}, Online(p),
         d \notin stale[p]
  PROVE  d \in peers[p] <=> p \in PeersOf(d)
<1>1. Settling = {}
  BY DEF Settling, Written, IInv, Gated, NoCall
<1>2. d \in peers[p] <=> {p, d} \in links
  BY <1>1 DEF IInv, HubAgrees
<1>3. {p, d} = {d, p}
  OBVIOUS
<1>. QED
  BY <1>2, <1>3 DEF PeersOf

\* A socket that connects is told of its peers, and they of its device.
LEMMA ConnectInformed ==
  ASSUME Informed, Attached, IInv, NEW s \in Sockets, Connect(s)
  PROVE  Informed'
<1> DEFINE d == Owner[s]
           mutual == {p \in known[s] : Online(p) /\ d \in peers[p]}
           news == [t \in Sockets |-> IF \E p \in mutual : conn[p] = t THEN {d} ELSE {}]
           out == [t \in Sockets |->
                     IF t = s THEN [i \in 1..Cardinality(mutual) + 1 |-> "frame"]
                     ELSE IF conn[d] = t THEN <<"close">>
                     ELSE Event(news)[t]]
           up == [t \in Sockets |-> IF t = s THEN mutual ELSE news[t]]
<1>0. d \in Devices /\ HubType /\ LoopType /\ s # NoSocket
  BY RelayAssumption DEF Attached
<1>1. /\ at[s] = "lookup" /\ conn' = [conn EXCEPT ![d] = s]
      /\ peers' = [peers EXCEPT ![d] = known[s]] /\ stale' = [stale EXCEPT ![d] = {}]
      /\ Deliver(out, up, Nobody)
  BY DEF Connect, Register
<1>2. known[s] = PeersOf(d) /\ call.stage = "idle"
  BY <1>1, RelayAssumption DEF IInv, Current, Gated
<1>3. \A p \in Devices \ {d} : Online(p) /\ d \notin stale[p] =>
        (d \in peers[p] <=> p \in PeersOf(d))
  BY <1>0, <1>2, LinkedBoth
<1>4. PeersOf(d) \subseteq Devices \ {d}
  BY DEF PeersOf
<1>5. mutual = {p \in PeersOf(d) : Online(p) /\ d \in peers[p]}
  BY <1>2
<1>6. /\ conn'[d] = s /\ peers'[d] = PeersOf(d) /\ stale'[d] = {}
      /\ \A e \in Devices \ {d} :
           conn'[e] = conn[e] /\ peers'[e] = peers[e] /\ stale'[e] = stale[e]
      /\ \A e \in Devices : Online(e)' <=> e = d \/ Online(e)
  BY <1>0, <1>1, <1>2 DEF HubType, Online
<1>. HIDE DEF d, mutual, out, up
<1>7. \A t \in Sockets : told'[t] = IF conn'[Owner[t]] = t THEN told[t] \cup up[t] ELSE {}
  BY <1>1, Hears DEF Nobody
<1>8. Fresh'
  BY <1>7 DEF Fresh
<1>9. conn[d] # s
  BY <1>0, <1>1, OwnSocket DEF Attached, Looping, Online
<1>10. told'[s] = mutual
  <2>1. told[s] = {}
    BY <1>9 DEF Informed, Fresh, d
  <2>2. up[s] = mutual
    BY DEF up
  <2>3. conn'[Owner[s]] = s
    BY <1>6 DEF d
  <2>. QED
    BY <1>7, <2>1, <2>2, <2>3
<1>11. ASSUME NEW a \in Devices \ {d}, Online(a)
       PROVE  told'[conn[a]] = told[conn[a]] \cup (IF a \in mutual THEN {d} ELSE {})
  <2>1. /\ conn[a] \in Sockets /\ Owner[conn[a]] = a
        /\ \A e \in Devices : conn[e] = conn[a] => e = a
    BY <1>11, OwnSocket
  <2>2. conn'[a] = conn[a] /\ conn[a] # s
    BY <1>6, <2>1 DEF d
  <2>3. (\E p \in mutual : conn[p] = conn[a]) <=> a \in mutual
    BY <1>4, <1>5, <2>1
  <2>4. up[conn[a]] = IF \E p \in mutual : conn[p] = conn[a] THEN {d} ELSE {}
    BY <2>1, <2>2 DEF up
  <2>. QED
    BY <1>7, <2>1, <2>2, <2>3, <2>4
<1>12. NotItsOwn'
  <2>1. \A e \in Devices : e \notin peers'[e]
    BY <1>4, <1>6 DEF Informed, NotItsOwn
  <2>2. ASSUME NEW t \in Sockets, conn'[Owner[t]] = t PROVE Owner[t] \notin told'[t]
    <3>1. CASE t = s
      BY <1>4, <1>5, <1>10, <3>1 DEF d
    <3>2. CASE t # s
      <4>1. PICK a \in Devices : a = Owner[t]
        BY RelayAssumption
      <4>2. a # d /\ conn[a] = t
        BY <1>6, <2>2, <3>2, <4>1
      <4>3. Online(a) /\ a \notin told[t]
        BY <4>1, <4>2, RelayAssumption DEF Online, Informed, NotItsOwn
      <4>. QED
        BY <1>11, <4>1, <4>2, <4>3
    <3>. QED
      BY <3>1, <3>2
  <2>. QED
    BY <1>7, <2>1, <2>2 DEF NotItsOwn
<1>13. ASSUME NEW p \in Devices \ {d} PROVE Truth(d, p)' /\ Heard(d, p)'
  <2>1. p \in told'[conn'[d]] <=> p \in PeersOf(d) /\ Online(p) /\ d \in peers[p]
    BY <1>5, <1>6, <1>10
  <2>2. peers'[p] = peers[p] /\ stale'[p] = stale[p] /\ (Online(p)' <=> Online(p))
    BY <1>6
  <2>3. Truth(d, p)'
    BY <1>3, <1>6, <2>1, <2>2 DEF Truth, Clean
  <2>4. Heard(d, p)'
    BY <1>6, <2>1, <2>2 DEF Heard
  <2>. QED
    BY <2>3, <2>4
<1>14. ASSUME NEW a \in Devices \ {d}, Online(a), d \notin stale[a]
       PROVE  Truth(a, d)' /\ Heard(a, d)'
  <2>1. Heard(a, d)
    BY <1>0 DEF Informed
  <2>2. a \in mutual <=> d \in peers[a]
    BY <1>3, <1>5, <1>14
  <2>3. d \in told'[conn[a]] <=> d \in peers[a]
    BY <1>11, <1>14, <2>1, <2>2 DEF Heard
  <2>4. d \in peers[a] => a \in PeersOf(d)
    BY <1>3, <1>14
  <2>5. conn'[a] = conn[a] /\ peers'[a] = peers[a] /\ Online(d)' /\ peers'[d] = PeersOf(d)
    BY <1>0, <1>6
  <2>. QED
    BY <2>3, <2>4, <2>5 DEF Truth, Heard
<1>15. ASSUME NEW a \in Devices \ {d}, Online(a), NEW p \in Devices \ {a}, p # d
       PROVE  Truth(a, p)' /\ Heard(a, p)'
  <2>1. Truth(a, p) /\ Heard(a, p)
    BY DEF Informed
  <2>2. p \in told'[conn[a]] <=> p \in told[conn[a]]
    BY <1>11, <1>15
  <2>3. /\ conn'[a] = conn[a] /\ peers'[a] = peers[a] /\ stale'[a] = stale[a]
        /\ peers'[p] = peers[p] /\ stale'[p] = stale[p] /\ (Online(p)' <=> Online(p))
    BY <1>6, <1>15
  <2>. QED
    BY <1>15, <2>1, <2>2, <2>3 DEF Truth, Heard, Clean
<1>16. ASSUME NEW a \in Devices, NEW p \in Devices \ {a} PROVE Truth(a, p)' /\ Heard(a, p)'
  <2>1. CASE a = d
    BY <1>13, <2>1
  <2>2. CASE a # d /\ ~Online(a)
    BY <1>6, <2>2 DEF Truth, Heard
  <2>3. CASE a # d /\ Online(a) /\ p = d
    <3>1. CASE d \in stale[a]
      BY <1>6, <2>3, <3>1 DEF Truth, Heard, Clean
    <3>2. CASE d \notin stale[a]
      BY <1>14, <2>3, <3>2
    <3>. QED
      BY <3>1, <3>2
  <2>4. CASE a # d /\ Online(a) /\ p # d
    BY <1>15, <2>4
  <2>. QED
    BY <2>1, <2>2, <2>3, <2>4
<1>. QED
  BY <1>8, <1>12, <1>16 DEF Informed

LEMMA SocketInformed ==
  ASSUME Informed, Attached, IInv, NEW s \in Sockets, SocketStep(s)
  PROVE  Informed'
<1>0. Owner[s] \in Devices
  BY RelayAssumption
<1>1. CASE Connect(s)
  BY <1>1, ConnectInformed
<1>2. CASE \E p \in Devices : Route(s, p)
  <2>1. PICK p \in Devices : Route(s, p)
    BY <1>2
  <2>2. PICK out : Deliver(out, Nobody, Nobody)
    BY <2>1 DEF Route
  <2>3. conn' = conn /\ peers' = peers /\ stale' = stale
    BY <2>1 DEF Route, hub
  <2>. QED
    BY <2>2, <2>3, FrameInformed
<1>3. CASE DropSlow(s)
  <2>1. Disconnect(slow[s][1], slow[s][2]) /\ at[s] = "slow"
    BY <1>3 DEF DropSlow
  <2>2. slow[s][1] \in Devices /\ slow[s][2] \in Sockets
    BY <2>1 DEF Attached
  <2>. QED
    BY <2>1, <2>2, GoneInformed
<1>4. CASE End(s)
  BY <1>0, <1>4, GoneInformed DEF End
<1>5. CASE Ping(s)
  <2>1. conn' = conn /\ peers' = peers /\ stale' = stale
    BY <1>5 DEF Ping, hub
  <2>2. CASE told' = told
    BY <2>1, <2>2, QuietInformed
  <2>3. CASE told' # told
    <3>1. PICK out : Deliver(out, Nobody, Nobody)
      BY <1>5, <2>3 DEF Ping, Leave
    <3>. QED
      BY <2>1, <3>1, FrameInformed
  <2>. QED
    BY <2>2, <2>3
<1>6. CASE UNCHANGED <<conn, peers, stale, told>>
  BY <1>6, QuietInformed
<1>. QED
  BY <1>1, <1>2, <1>3, <1>4, <1>5, <1>6 DEF SocketStep, LookUpPeers, Refuse, HangUp, Notice,
     Leave, Write, SinkFails, hub, mail

LEMMA StepInformed ==
  ASSUME Informed, Sound, IInv, [Next]_vars
  PROVE  Informed'
<1>0. /\ Attached /\ call.by \in Devices /\ call.with \in Devices
      /\ call.op = "approve" /\ call.stage # "idle" => call.by # call.with
  BY RelayAssumption DEF Sound, Calling, CallType
<1>1. CASE UNCHANGED <<conn, peers, stale, told>>
  BY <1>0, <1>1, QuietInformed
<1>2. CASE \E s \in Sockets : SocketStep(s)
  BY <1>0, <1>2, SocketInformed
<1>3. CASE UnpairHub
  BY <1>0, <1>3, RevokeInformed DEF UnpairHub
<1>4. CASE ApproveHub
  <2>1. call.by # call.with /\ Authorize(call.by, call.with)
    BY <1>0, <1>4 DEF ApproveHub, Step
  <2>. QED
    BY <1>0, <2>1, AuthorizeInformed
<1>5. CASE \E p \in Devices : RemovePeer(p)
  BY <1>0, <1>5, RevokeInformed DEF RemovePeer
<1>6. CASE RemoveKick
  BY <1>0, <1>6, GoneInformed DEF RemoveKick
<1>7. CASE CallStep \/ (\E op \in Ops : \E a, e \in Devices : Begin(op, a, e))
  BY <1>1, <1>3, <1>4, <1>5, <1>6, <1>7 DEF CallStep, UnpairLinks, UnpairOffers, Approve,
     ApproveRefused, RemoveLookup, RemoveRow, Begin, hub, mail
<1>8. CASE \E h \in Hosts : PairingStep(h)
  BY <1>1, <1>8 DEF PairingStep, CreatePairing, CancelPairing, Expire, Claim, hub, mail
<1>9. CASE UNCHANGED vars
  BY <1>1, <1>9 DEF vars, hub, mail
<1>10. CASE Abandon
  <2>1. conn' = conn /\ peers' = peers /\ told' = told
    BY <1>10 DEF Abandon, mail
  <2>2. \A d \in Devices : stale[d] \subseteq stale'[d]
    BY <1>10 DEF Abandon
  <2>. QED
    BY <1>0, <2>1, <2>2, QuietInformed
<1>. QED
  BY <1>2, <1>7, <1>8, <1>9, <1>10 DEF Next

\* A device whose queue never overflowed knows of each of its peers whether it
\* is connected (PeerStatus and Unpaired events of hub.rs), for any number of
\* devices, sockets and calls, except of a pair of which a call that did not get
\* to the hub has left one side's connection wrong.
THEOREM ToldTruthEver == Spec => []ToldTruth
<1>0. RelayAssumption
  BY RelayAssumption
<1>1. Init => IInv /\ Pointed /\ Sound /\ Informed
  <2>. SUFFICES ASSUME Init PROVE Informed /\ IInv /\ Pointed
    BY InitSound
  <2>1. IInv /\ Pointed
    BY <1>0, InitInvariant DEF Init, Pointed
  <2>2. Informed
    BY DEF Init, Informed, NotItsOwn, Fresh, Truth, Heard, Online
  <2>. QED
    BY <2>1, <2>2
<1>2. ASSUME IInv, Pointed, Sound, Informed, [Next]_vars
      PROVE  IInv' /\ Pointed' /\ Sound' /\ Informed'
  <2>1. IInv' /\ Pointed'
    BY <1>0, <1>2, StepInvariant
  <2>2. Sound'
    BY <1>2, StepSound
  <2>3. Informed'
    BY <1>2, StepInformed
  <2>. QED
    BY <2>1, <2>2, <2>3
<1>3. Informed /\ Sound => ToldTruth
  <2>. SUFFICES ASSUME Informed, Sound, NEW d \in Devices, NEW p \in Devices,
                       Online(d), p \notin stale[d], d \notin stale[p]
                PROVE  p \in told[conn[d]] <=> p \in peers[d] /\ Online(p)
    BY DEF ToldTruth
  <2>1. CASE p = d
    <3>1. conn[d] \in Sockets /\ Owner[conn[d]] = d
      BY OwnSocket DEF Sound
    <3>. QED
      BY <2>1, <3>1 DEF Informed, NotItsOwn
  <2>2. CASE p # d
    BY <2>2 DEF Informed, Truth, Clean
  <2>. QED
    BY <2>1, <2>2
<1>. QED
  BY <1>1, <1>2, <1>3, PTL DEF Spec
=============================================================================
