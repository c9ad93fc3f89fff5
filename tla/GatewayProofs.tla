--------------------------- MODULE GatewayProofs ---------------------------
(* The tables the gateway keeps, for every set of interfaces, neighbours,   *)
(* routes and addresses and every bound: the base flows stay, the FIB and   *)
(* the RIB agree with the listing, and the RIB looks addresses up as a      *)
(* router does.                                                             *)
EXTENDS Gateway, PipelineProofs, SequenceTheorems

-----------------------------------------------------------------------------
(* Types *)

\* What watcher w is told about.
Items(w) == CASE w = "neighbor" -> Neigh
              [] w = "route"    -> Route
              [] w = "addr"     -> Local

Event(w) == [op : {"new", "del"}, item : Items(w)]

\* The events that wait, in the list and in the socket, are the watcher's own.
EventsOK ==
    /\ listed = [w \in WatcherIds |-> listed[w]]
    /\ queue = [w \in WatcherIds |-> queue[w]]
    /\ \A w \in WatcherIds : listed[w] \subseteq Event(w) /\ queue[w] \in Seq(Event(w))

TypeInv == TypeOK /\ EventsOK

\* An event is of an entry the kernel can have.
LEMMA EventFacts ==
    ASSUME NEW w \in WatcherIds
    PROVE  /\ \A e \in Event(w) : e.op \in {"new", "del"} /\ e.item \in Items(w)
           /\ \A x \in Items(w) : New(x) \in Event(w) /\ Del(x) \in Event(w)
           /\ \A x \in Items(w) : x.dev \in Devs
BY DEF Event, Items, New, Del, WatcherIds, Neigh, Route, Local

\* Of each watcher, what it is told about.
LEMMA ItemsAre ==
    /\ Items("neighbor") = Neigh
    /\ Items("route") = Route
    /\ Items("addr") = Local
BY DEF Items

\* A watcher's list is made of its own events.
LEMMA SnapshotOK ==
    ASSUME TypeOK, NEW w \in WatcherIds
    PROVE  Snapshot(w) \subseteq Event(w)
<1>1. CASE w = "neighbor"
  <2>1. Snapshot(w) = {New(n) : n \in neighs} /\ neighs \subseteq Items(w)
    BY <1>1, ItemsAre DEF Snapshot, TypeOK, KernelTypeOK
  <2>2. QED
    BY <2>1, EventFacts
<1>2. CASE w = "route"
  <2>1. Snapshot(w) = {New(r) : r \in {x \in routes : x.main}} /\ routes \subseteq Items(w)
    BY <1>2, ItemsAre DEF Snapshot, TypeOK, KernelTypeOK
  <2>2. QED
    BY <2>1, EventFacts
<1>3. CASE w = "addr"
  <2>1. Snapshot(w) = {New(a) : a \in locals} /\ locals \subseteq Items(w)
    BY <1>3, ItemsAre DEF Snapshot, TypeOK, KernelTypeOK
  <2>2. QED
    BY <2>1, EventFacts
<1>4. QED
  BY <1>1, <1>2, <1>3 DEF WatcherIds

-----------------------------------------------------------------------------
(* The flows of hosts, routes and addresses *)

HostFlows  == {HostFlow(h, m, d) : h \in Hosts, m \in Mac, d \in VlanDevs}
RouteFlows == {RouteFlow(p, gw) : p \in Prefixes, gw \in Gateways}
LocalFlows == {LocalFlow(a) : a \in Locals}

\* The match, the table and the priority of each.
LEMMA HostFlowIs ==
    ASSUME NEW h, NEW m, NEW d
    PROVE  /\ HostFlow(h, m, d).table = TableFib
           /\ HostFlow(h, m, d).prio = 100
           /\ HostFlow(h, m, d).match = HostMatch(h)
           /\ HostFlow(h, m, d).act = Forward(m, d)
BY DEF HostFlow, Flow

\* A route's flow: the longer the prefix the higher.
LEMMA RouteFlowIs ==
    ASSUME NEW p, NEW gw
    PROVE  /\ RouteFlow(p, gw).table = TableRib
           /\ RouteFlow(p, gw).prio = 100 + PrefixLen[p]
           /\ RouteFlow(p, gw).match = RouteMatch(p)
           /\ RouteFlow(p, gw).act = IF gw = NoAddr THEN ToReg0 ELSE GatewayToReg0(gw)
BY DEF RouteFlow, Flow

\* An address's flow is in the Nat table.
LEMMA LocalFlowIs ==
    ASSUME NEW a
    PROVE  /\ LocalFlow(a).table = TableNat
           /\ LocalFlow(a).prio = 150
           /\ LocalFlow(a).match = LocalMatch(a)
BY DEF LocalFlow, Flow

\* The fields of their matches that tell them apart.
LEMMA MatchFields ==
    /\ \A h : HostMatch(h).reg0 = {h} /\ HostMatch(h).dlDst = {"router"}
    /\ \A p : RouteMatch(p).dst = p /\ RouteMatch(p).dlDst = {"router"}
BY DEF HostMatch, RouteMatch, AnyIP, AnyPacket

\* Matches are well formed.
LEMMA MatchesOK ==
    /\ \A i \in BaseIds : BaseFlow[i].match \in Match
    /\ \A h \in Hosts : HostMatch(h) \in Match
    /\ \A p \in Prefixes : RouteMatch(p) \in Match
    /\ \A a \in Locals : LocalMatch(a) \in Match
<1>1. AnyPacket \in Match /\ AnyIP \in Match
  BY DEF AnyPacket, AnyIP, Match, IPv4, Protocols
<1>2. \A ct \in SUBSET CtStates : [AnyIP EXCEPT !.ct = ct] \in Match
  BY <1>1 DEF Match
<1>3. \A i \in BaseIds : BaseFlow[i].match \in Match
  <2>1. TrkRpl \in SUBSET CtStates /\ TrkEst \in SUBSET CtStates
    BY DEF TrkRpl, TrkEst, CtStates
  <2>2. [AnyIP EXCEPT !.ct = TrkRpl] \in Match /\ [AnyIP EXCEPT !.ct = TrkEst] \in Match
    BY <1>2, <2>1
  <2>3. \A i \in BaseIds : BaseFlow[i].match \in {AnyIP, AnyPacket, [AnyIP EXCEPT !.ct = TrkRpl],
                                                  [AnyIP EXCEPT !.ct = TrkEst]}
    BY DEF BaseIds, BaseFlow, Flow
  <2>4. QED
    BY <1>1, <2>2, <2>3
<1>4. {"router"} \in SUBSET DlDst
  BY DEF DlDst
<1>5. \A h \in Hosts : HostMatch(h) \in Match
  BY <1>1, <1>4, KernelAssumption DEF HostMatch, Match
<1>6. \A p \in Prefixes : RouteMatch(p) \in Match
  BY <1>1, <1>4, PrefixAssumption DEF RouteMatch, Match
<1>7. \A a \in Locals : LocalMatch(a) \in Match
  BY <1>1, KernelAssumption DEF LocalMatch, Match
<1>8. QED
  BY <1>3, <1>5, <1>6, <1>7
-----------------------------------------------------------------------------
(* What a step does to the tables and to the listing *)

LearnHost(n) ==
    /\ Program(AddFlow(flows, HostFlow(n.ip, n.mac, n.dev)))
    /\ forwardHost' = [forwardHost EXCEPT ![n.ip] = [mac |-> n.mac, dev |-> n.dev]]
    /\ UNCHANGED <<forwardRoute, swept>>
ForgetHost(n) ==
    /\ Program(DelFlows(flows, TableFib, HostMatch(n.ip)))
    /\ forwardHost' = [forwardHost EXCEPT ![n.ip] = NoVal]
    /\ UNCHANGED <<forwardRoute, swept>>
LearnRoute(r) ==
    /\ Program(AddFlow(flows, RouteFlow(r.dst, r.gw)))
    /\ forwardRoute' = [forwardRoute EXCEPT ![r.dst] = [gw |-> r.gw, dev |-> r.dev]]
    /\ swept' = swept \ {r.dst}
    /\ UNCHANGED forwardHost
ForgetRoute(r) ==
    /\ Program(DelFlows(flows, TableRib, RouteMatch(r.dst)))
    /\ forwardRoute' = [forwardRoute EXCEPT ![r.dst] = NoVal]
    /\ swept' = swept \cup Below(r.dst)
    /\ UNCHANGED forwardHost
LearnAddr(a) ==
    /\ Program(AddFlow(flows, LocalFlow(a.ip)))
    /\ UNCHANGED <<forward, swept>>
ForgetAddr(a) ==
    /\ Program(DelFlows(flows, TableNat, LocalMatch(a.ip)))
    /\ UNCHANGED <<forward, swept>>
Quiet == UNCHANGED <<flows, forward, swept>> /\ faulted' \in {faulted, TRUE}
Renewed == Fresh /\ swept' = {} /\ faulted' = FALSE

TableStep ==
    \/ \E n \in Neigh : n.dev \in VlanDevs /\ ((n.mac # NoMac /\ LearnHost(n)) \/ ForgetHost(n))
    \/ \E r \in Route : r.dev \in VlanDevs /\ (LearnRoute(r) \/ ForgetRoute(r))
    \/ \E a \in Local : LearnAddr(a) \/ ForgetAddr(a)
    \/ Quiet
    \/ Renewed

\* A handler changes the tables for one entry, or not at all.
LEMMA HandlerStep ==
    ASSUME TypeInv, NEW w \in WatcherIds, NEW e \in Event(w), On(w, e)
    PROVE  TableStep
<1>1. e.op \in {"new", "del"} /\ e.item \in Items(w)
  BY EventFacts
<1>2. CASE Fault /\ UNCHANGED <<gateway, swept>>
  BY <1>2 DEF TableStep, Quiet, Fault, gateway
<1>3. CASE Ignored(e.item.dev) /\ UNCHANGED <<flows, forward, faults, faulted, swept>>
  BY <1>3 DEF TableStep, Quiet
<1>4. CASE ~Ignored(e.item.dev) /\ w = "neighbor" /\ OnNeighbor(e)
  <2>1. e.item \in Neigh /\ e.item.dev \in VlanDevs
    BY <1>1, <1>4, ItemsAre DEF Ignored
  <2>2. CASE e.op = "new" /\ e.item.mac = NoMac
    BY <1>4, <2>2 DEF OnNeighbor, TableStep, Quiet, forward
  <2>3. CASE e.op = "new" /\ e.item.mac # NoMac
    <3>1. LearnHost(e.item)
      BY <1>4, <2>3 DEF OnNeighbor, LearnHost
    <3>2. QED
      BY <2>1, <2>3, <3>1 DEF TableStep
  <2>4. CASE e.op # "new"
    <3>1. ForgetHost(e.item)
      BY <1>4, <2>4 DEF OnNeighbor, ForgetHost
    <3>2. QED
      BY <2>1, <3>1 DEF TableStep
  <2>5. QED
    BY <2>2, <2>3, <2>4
<1>5. CASE ~Ignored(e.item.dev) /\ w = "route" /\ OnRoute(e)
  <2>1. e.item \in Route /\ e.item.dev \in VlanDevs
    BY <1>1, <1>5, ItemsAre DEF Ignored
  <2>2. LearnRoute(e.item) \/ ForgetRoute(e.item)
    BY <1>5 DEF OnRoute, LearnRoute, ForgetRoute
  <2>3. QED
    BY <2>1, <2>2 DEF TableStep
<1>6. CASE ~Ignored(e.item.dev) /\ w = "addr" /\ OnAddress(e)
  <2>1. e.item \in Local
    BY <1>1, <1>6, ItemsAre
  <2>2. LearnAddr(e.item) \/ ForgetAddr(e.item)
    BY <1>6 DEF OnAddress, LearnAddr, ForgetAddr
  <2>3. QED
    BY <2>1, <2>2 DEF TableStep
<1>7. QED
  BY <1>2, <1>3, <1>4, <1>5, <1>6 DEF On

\* The event a watcher takes from its socket, and what it leaves there.
LEMMA QueueFacts ==
    ASSUME EventsOK, NEW w \in WatcherIds, queue[w] # <<>>
    PROVE  /\ Head(queue[w]) \in Event(w)
           /\ Tail(queue[w]) \in Seq(Event(w))
           /\ Len(Tail(queue[w])) = Len(queue[w]) - 1
BY HeadTailProperties DEF EventsOK

\* So does every step; a restart starts from the base flows.
LEMMA EveryTableStep == TypeInv /\ [Next]_vars => TableStep
<1> SUFFICES ASSUME TypeInv, [Next]_vars PROVE TableStep
  OBVIOUS
<1>1. ASSUME NEW w \in WatcherIds, Start(w) \/ Watch(w) PROVE TableStep
  BY <1>1 DEF Start, Watch, TableStep, Quiet, gateway, past
<1>2. ASSUME NEW w \in WatcherIds, HandleListed(w) PROVE TableStep
  <2>1. PICK e \in listed[w] : On(w, e)
    BY <1>2 DEF HandleListed
  <2>2. e \in Event(w)
    BY DEF TypeInv, EventsOK
  <2>3. QED
    BY <2>1, <2>2, HandlerStep
<1>3. ASSUME NEW w \in WatcherIds, HandleQueued(w) PROVE TableStep
  <2>1. Head(queue[w]) \in Event(w) /\ On(w, Head(queue[w]))
    BY <1>3, QueueFacts DEF HandleQueued, TypeInv
  <2>2. QED
    BY <2>1, HandlerStep
<1>4. CASE KernelStep
  BY <1>4 DEF KernelStep, TableStep, Quiet, gateway
<1>5. CASE Restart
  BY <1>5 DEF Restart, TableStep, Renewed
<1>6. CASE UNCHANGED vars
  BY <1>6 DEF vars, gateway, past, TableStep, Quiet
<1>7. QED
  BY <1>1, <1>2, <1>3, <1>4, <1>5, <1>6 DEF Next
-----------------------------------------------------------------------------
(* Type correctness *)

\* The tables and the listing stay well formed.
LEMMA TablesTyped ==
    ASSUME TypeInv, TableStep
    PROVE  /\ \A x \in flows' : x.match \in Match
           /\ forwardRoute' \in [Prefixes -> {NoVal} \cup [gw : Gateways, dev : VlanDevs]]
           /\ forwardHost' \in [Hosts -> {NoVal} \cup [mac : Mac, dev : VlanDevs]]
           /\ swept' \subseteq Prefixes
           /\ faulted' \in BOOLEAN
<1> USE DEF TypeInv, TypeOK, forward, Program, NoFault, Fault
<1>1. ASSUME NEW n \in Neigh, n.dev \in VlanDevs, n.mac # NoMac, LearnHost(n)
      PROVE  /\ \A x \in flows' : x.match \in Match
             /\ forwardHost' \in [Hosts -> {NoVal} \cup [mac : Mac, dev : VlanDevs]]
             /\ UNCHANGED <<forwardRoute, swept>> /\ faulted' \in BOOLEAN
  <2>1. n.ip \in Hosts /\ n.mac \in Mac
    BY <1>1 DEF Neigh
  <2>2. HostFlow(n.ip, n.mac, n.dev).match \in Match
    BY <2>1, HostFlowIs, MatchesOK
  <2>3. \A x \in AddFlow(flows, HostFlow(n.ip, n.mac, n.dev)) : x.match \in Match
    BY <2>2, AddFlowFacts
  <2>4. QED
    BY <1>1, <2>1, <2>3 DEF LearnHost
<1>2. ASSUME NEW n \in Neigh, ForgetHost(n)
      PROVE  /\ \A x \in flows' : x.match \in Match
             /\ forwardHost' \in [Hosts -> {NoVal} \cup [mac : Mac, dev : VlanDevs]]
             /\ UNCHANGED <<forwardRoute, swept>> /\ faulted' \in BOOLEAN
  BY <1>2, DelFlowsFacts DEF ForgetHost
<1>3. ASSUME NEW r \in Route, r.dev \in VlanDevs, LearnRoute(r)
      PROVE  /\ \A x \in flows' : x.match \in Match
             /\ forwardRoute' \in [Prefixes -> {NoVal} \cup [gw : Gateways, dev : VlanDevs]]
             /\ UNCHANGED forwardHost /\ swept' \subseteq Prefixes /\ faulted' \in BOOLEAN
  <2>1. r.dst \in Prefixes /\ r.gw \in Gateways
    BY <1>3 DEF Route
  <2>2. RouteFlow(r.dst, r.gw).match \in Match
    BY <2>1, RouteFlowIs, MatchesOK
  <2>3. \A x \in AddFlow(flows, RouteFlow(r.dst, r.gw)) : x.match \in Match
    BY <2>2, AddFlowFacts
  <2>4. QED
    BY <1>3, <2>1, <2>3 DEF LearnRoute
<1>4. ASSUME NEW r \in Route, ForgetRoute(r)
      PROVE  /\ \A x \in flows' : x.match \in Match
             /\ forwardRoute' \in [Prefixes -> {NoVal} \cup [gw : Gateways, dev : VlanDevs]]
             /\ UNCHANGED forwardHost /\ swept' \subseteq Prefixes /\ faulted' \in BOOLEAN
  BY <1>4, DelFlowsFacts DEF ForgetRoute, Below
<1>5. ASSUME NEW a \in Local, LearnAddr(a) \/ ForgetAddr(a)
      PROVE  /\ \A x \in flows' : x.match \in Match
             /\ UNCHANGED <<forward, swept>> /\ faulted' \in BOOLEAN
  <2>1. a.ip \in Locals
    BY DEF Local
  <2>2. LocalFlow(a.ip).match \in Match
    BY <2>1, LocalFlowIs, MatchesOK
  <2>3. \A x \in AddFlow(flows, LocalFlow(a.ip)) : x.match \in Match
    BY <2>2, AddFlowFacts
  <2>4. QED
    BY <1>5, <2>3, DelFlowsFacts DEF LearnAddr, ForgetAddr
<1>6. CASE Renewed
  BY <1>6, MatchesOK DEF Renewed, Fresh, BaseFlows
<1>7. CASE Quiet
  BY <1>7 DEF Quiet
<1>8. QED
  BY <1>1, <1>2, <1>3, <1>4, <1>5, <1>6, <1>7 DEF TableStep
\* Publish delivers the watcher one of its own events, drops it, or ends the
\* subscription.
LEMMA PublishTyped ==
    ASSUME TypeInv, NEW w \in WatcherIds, NEW e \in Event(w), Publish(w, e)
    PROVE  /\ stage' \in [WatcherIds -> Stages]
           /\ \A u \in WatcherIds : Len(queue'[u]) <= SocketLen
           /\ EventsOK'
<1>1. stage \in [WatcherIds -> Stages] /\ \A u \in WatcherIds : Len(queue[u]) <= SocketLen
  BY DEF TypeInv, TypeOK, KernelTypeOK
<1>2. /\ listed = [u \in WatcherIds |-> listed[u]]
      /\ queue = [u \in WatcherIds |-> queue[u]]
      /\ \A u \in WatcherIds : listed[u] \subseteq Event(u) /\ queue[u] \in Seq(Event(u))
  BY DEF TypeInv, EventsOK
<1>3. listed' = listed
  BY DEF Publish
<1>4. CASE Reaches(w) /\ queue' = [queue EXCEPT ![w] = Append(@, e)] /\ UNCHANGED stage
  <2>1. /\ Append(queue[w], e) \in Seq(Event(w))
        /\ Len(Append(queue[w], e)) = Len(queue[w]) + 1
    BY <1>2, AppendProperties
  <2>2. Len(queue[w]) \in Nat
    BY <1>2, LenProperties
  <2>3. Len(Append(queue[w], e)) <= SocketLen
    BY <1>4, <2>1, <2>2, KernelAssumption DEF Reaches
  <2>4. QED
    BY <1>1, <1>2, <1>3, <1>4, <2>1, <2>3 DEF EventsOK
<1>5. CASE stage' = [stage EXCEPT ![w] = "deaf"] /\ queue' = [queue EXCEPT ![w] = <<>>]
  <2>1. <<>> \in Seq(Event(w)) /\ Len(<<>>) <= SocketLen
    BY EmptySeq, KernelAssumption
  <2>2. stage' \in [WatcherIds -> Stages]
    BY <1>1, <1>5 DEF Stages
  <2>3. QED
    BY <1>1, <1>2, <1>3, <1>5, <2>1, <2>2 DEF EventsOK
<1>6. CASE UNCHANGED <<stage, queue>>
  BY <1>1, <1>2, <1>3, <1>6 DEF EventsOK
<1>7. QED
  BY <1>4, <1>5, <1>6 DEF Publish

\* The kernel's tables stay what they are, and it sends what it should.
LEMMA KernelTyped == ASSUME TypeInv, KernelChange PROVE KernelTypeOK' /\ EventsOK'
<1>1. /\ links \subseteq Devs /\ neighs \subseteq Neigh /\ routes \subseteq Route
      /\ locals \subseteq Local
  BY DEF TypeInv, TypeOK, KernelTypeOK
<1>2. ASSUME NEW n \in Neigh, SetNeigh(n) \/ DropNeigh(n) PROVE KernelTypeOK' /\ EventsOK'
  <2>1. New(n) \in Event("neighbor") /\ Del(n) \in Event("neighbor")
    BY EventFacts, ItemsAre DEF WatcherIds
  <2>2. Publish("neighbor", New(n)) \/ Publish("neighbor", Del(n))
    BY <1>2 DEF SetNeigh, DropNeigh
  <2>3. /\ stage' \in [WatcherIds -> Stages]
        /\ \A u \in WatcherIds : Len(queue'[u]) <= SocketLen
        /\ EventsOK'
    BY <2>1, <2>2, PublishTyped DEF WatcherIds
  <2>4. neighs' \subseteq Neigh /\ UNCHANGED <<links, routes, locals>>
    BY <1>1, <1>2 DEF SetNeigh, DropNeigh
  <2>5. QED
    BY <1>1, <2>3, <2>4 DEF KernelTypeOK
<1>3. ASSUME NEW r \in Route, AddKernelRoute(r) \/ ReplaceRoute(r) \/ DropRoute(r)
      PROVE  KernelTypeOK' /\ EventsOK'
  <2>1. New(r) \in Event("route") /\ Del(r) \in Event("route")
    BY EventFacts, ItemsAre DEF WatcherIds
  <2>2. Publish("route", New(r)) \/ Publish("route", Del(r))
    BY <1>3 DEF AddKernelRoute, ReplaceRoute, DropRoute
  <2>3. /\ stage' \in [WatcherIds -> Stages]
        /\ \A u \in WatcherIds : Len(queue'[u]) <= SocketLen
        /\ EventsOK'
    BY <2>1, <2>2, PublishTyped DEF WatcherIds
  <2>4. routes' \subseteq Route /\ UNCHANGED <<links, neighs, locals>>
    BY <1>1, <1>3 DEF AddKernelRoute, ReplaceRoute, DropRoute
  <2>5. QED
    BY <1>1, <2>3, <2>4 DEF KernelTypeOK
<1>4. ASSUME NEW a \in Local, AddKernelAddr(a) \/ DropKernelAddr(a)
      PROVE  KernelTypeOK' /\ EventsOK'
  <2>1. New(a) \in Event("addr") /\ Del(a) \in Event("addr")
    BY EventFacts, ItemsAre DEF WatcherIds
  <2>2. Publish("addr", New(a)) \/ Publish("addr", Del(a))
    BY <1>4 DEF AddKernelAddr, DropKernelAddr
  <2>3. /\ stage' \in [WatcherIds -> Stages]
        /\ \A u \in WatcherIds : Len(queue'[u]) <= SocketLen
        /\ EventsOK'
    BY <2>1, <2>2, PublishTyped DEF WatcherIds
  <2>4. locals' \subseteq Local /\ UNCHANGED <<links, neighs, routes>>
    BY <1>1, <1>4 DEF AddKernelAddr, DropKernelAddr
  <2>5. QED
    BY <1>1, <2>3, <2>4 DEF KernelTypeOK
<1>5. ASSUME NEW d \in Devs, DropLink(d) PROVE KernelTypeOK' /\ EventsOK'
  BY <1>1, <1>5 DEF DropLink, watcher, TypeInv, TypeOK, KernelTypeOK, EventsOK
<1>6. ASSUME NEW d \in Devs, LinkDown(d) PROVE KernelTypeOK' /\ EventsOK'
  BY <1>1, <1>6 DEF LinkDown, watcher, TypeInv, TypeOK, KernelTypeOK, EventsOK
<1>7. QED
  BY <1>2, <1>3, <1>4, <1>5, <1>6 DEF KernelChange

\* What a handler remembers is an interface.
LEMMA RememberTyped ==
    ASSUME TypeInv, NEW w, NEW e, On(w, e)
    PROVE  linkAttrs' \subseteq Devs
BY DEF TypeInv, TypeOK, KernelTypeOK, On, Remember, gateway

\* A watcher that has just been started has nothing to do.
LEMMA FreshTyped ==
    ASSUME stage' = FreshStage, listed' = FreshListed, queue' = FreshQueue
    PROVE  /\ stage' \in [WatcherIds -> Stages]
           /\ \A w \in WatcherIds : Len(queue'[w]) <= SocketLen
           /\ EventsOK'
<1>1. \A S : <<>> \in Seq(S) /\ Len(<<>>) = 0
  BY EmptySeq
<1>2. QED
  BY <1>1, KernelAssumption DEF FreshStage, FreshListed, FreshQueue, Stages, EventsOK
\* Initially the tables are empty but for the base flows.
LEMMA TypeInit == Init => TypeInv
<1> SUFFICES ASSUME Init PROVE TypeInv
  OBVIOUS
<1>1. /\ stage \in [WatcherIds -> Stages]
      /\ \A w \in WatcherIds : Len(queue[w]) <= SocketLen
      /\ EventsOK
  <2>1. \A S : <<>> \in Seq(S) /\ Len(<<>>) = 0
    BY EmptySeq
  <2>2. QED
    BY <2>1, KernelAssumption
       DEF Init, KernelInit, FreshStage, FreshListed, FreshQueue, Stages, EventsOK
<1>2. KernelTypeOK
  BY <1>1 DEF Init, KernelInit, KernelTypeOK
<1>3. \A x \in flows : x.match \in Match
  BY MatchesOK DEF Init, BaseFlows
<1>4. QED
  BY <1>1, <1>2, <1>3 DEF Init, TypeOK, TypeInv

\* What a watcher does to its own list and socket.
LEMMA WatcherTyped ==
    ASSUME TypeInv, NEW w \in WatcherIds,
           \/ List(w) \/ Spawn(w) \/ Subscribe(w)
           \/ \E e : TakeListed(w, e) \/ TakeQueued(w, e)
    PROVE  /\ stage' \in [WatcherIds -> Stages]
           /\ \A u \in WatcherIds : Len(queue'[u]) <= SocketLen
           /\ EventsOK'
<1>1. stage \in [WatcherIds -> Stages] /\ \A u \in WatcherIds : Len(queue[u]) <= SocketLen
  BY DEF TypeInv, TypeOK, KernelTypeOK
<1>2. /\ listed = [u \in WatcherIds |-> listed[u]]
      /\ queue = [u \in WatcherIds |-> queue[u]]
      /\ \A u \in WatcherIds : listed[u] \subseteq Event(u) /\ queue[u] \in Seq(Event(u))
  BY DEF TypeInv, EventsOK
<1>3. CASE List(w)
  <2>1. Snapshot(w) \subseteq Event(w)
    BY SnapshotOK DEF TypeInv
  <2>2. QED
    BY <1>1, <1>2, <1>3, <2>1 DEF List, Stages, EventsOK
<1>4. CASE Spawn(w) \/ Subscribe(w)
  BY <1>1, <1>2, <1>4 DEF Spawn, Subscribe, Stages, EventsOK
<1>5. ASSUME NEW e, TakeListed(w, e)
      PROVE  UNCHANGED <<stage, queue>> /\ EventsOK'
  BY <1>2, <1>5 DEF TakeListed, EventsOK
<1>6. ASSUME NEW e, TakeQueued(w, e)
      PROVE  /\ UNCHANGED stage
             /\ \A u \in WatcherIds : Len(queue'[u]) <= SocketLen
             /\ EventsOK'
  <2>1. queue[w] # <<>> /\ queue' = [queue EXCEPT ![w] = Tail(queue[w])]
        /\ UNCHANGED <<stage, listed>>
    BY <1>6 DEF TakeQueued
  <2>2. /\ Tail(queue[w]) \in Seq(Event(w))
        /\ Len(Tail(queue[w])) = Len(queue[w]) - 1
    BY <2>1, QueueFacts DEF TypeInv
  <2>3. Len(queue[w]) \in Nat
    BY <1>2, LenProperties
  <2>4. Len(Tail(queue[w])) <= SocketLen
    BY <1>1, <2>2, <2>3, KernelAssumption
  <2>5. QED
    BY <1>1, <1>2, <2>1, <2>2, <2>4 DEF EventsOK
<1>7. QED
  BY <1>1, <1>3, <1>4, <1>5, <1>6

\* Every step keeps the types.
LEMMA TypeStep == TypeInv /\ [Next]_vars => TypeInv'
<1> SUFFICES ASSUME TypeInv, [Next]_vars PROVE TypeInv'
  OBVIOUS
<1>1. /\ \A x \in flows' : x.match \in Match
      /\ forwardRoute' \in [Prefixes -> {NoVal} \cup [gw : Gateways, dev : VlanDevs]]
      /\ forwardHost' \in [Hosts -> {NoVal} \cup [mac : Mac, dev : VlanDevs]]
      /\ swept' \subseteq Prefixes
      /\ faulted' \in BOOLEAN
  BY EveryTableStep, TablesTyped
<1>2. /\ links \subseteq Devs /\ neighs \subseteq Neigh /\ routes \subseteq Route
      /\ locals \subseteq Local /\ linkAttrs \subseteq Devs /\ lost \subseteq WatcherIds
  BY DEF TypeInv, TypeOK, KernelTypeOK
<1>3. SUFFICES KernelTypeOK' /\ EventsOK' /\ linkAttrs' \subseteq Devs /\ lost' \subseteq WatcherIds
  BY <1>1 DEF TypeInv, TypeOK
<1>4. ASSUME NEW w \in WatcherIds, Start(w) \/ Watch(w) \/ HandleListed(w) \/ HandleQueued(w)
      PROVE  KernelTypeOK' /\ EventsOK' /\ linkAttrs' \subseteq Devs /\ lost' \subseteq WatcherIds
  <2>1. /\ UNCHANGED <<links, neighs, routes, locals>> /\ UNCHANGED lost
        /\ \/ List(w) \/ Spawn(w) \/ Subscribe(w)
           \/ \E e : TakeListed(w, e) \/ TakeQueued(w, e)
    BY <1>4 DEF Start, Watch, HandleListed, HandleQueued, kernel, past
  <2>2. linkAttrs' \subseteq Devs
    BY <1>2, <1>4, RememberTyped DEF Start, Watch, HandleListed, HandleQueued, gateway
  <2>3. QED
    BY <1>2, <2>1, <2>2, WatcherTyped DEF KernelTypeOK
<1>5. CASE KernelStep
  BY <1>2, <1>5, KernelTyped DEF KernelStep, gateway, Missing
<1>6. CASE Restart
  BY <1>2, <1>6, FreshTyped DEF Restart, Fresh, kernel, KernelTypeOK
<1>7. CASE UNCHANGED vars
  BY <1>7 DEF vars, kernel, watcher, gateway, past, TypeInv, TypeOK, KernelTypeOK, EventsOK
<1>8. QED
  BY <1>4, <1>5, <1>6, <1>7 DEF Next

\* The types hold in every state.
THEOREM TypeCorrect == Spec => []TypeOK
<1>1. TypeInv => TypeOK
  BY DEF TypeInv
<1>2. QED
  BY <1>1, TypeInit, TypeStep, PTL DEF Spec
-----------------------------------------------------------------------------
(* Slots and deletes *)

\* Two hosts share a slot only if they are one.
LEMMA HostSlots ==
    ASSUME NEW h, NEW m, NEW d, NEW g, NEW n, NEW c
    PROVE  /\ SameSlot(HostFlow(h, m, d), HostFlow(g, n, c)) <=> h = g
           /\ HostFlow(h, m, d) = HostFlow(g, n, c) <=> h = g /\ m = n /\ d = c
<1>1. HostMatch(h) = HostMatch(g) => h = g
  BY MatchFields
<1>2. Forward(m, d) = Forward(n, c) => m = n /\ d = c
  BY DEF Forward
<1>3. QED
  BY <1>1, <1>2, HostFlowIs DEF SameSlot

\* Two routes share a slot only if they are to the same prefix.
LEMMA RouteSlots ==
    ASSUME NEW p, NEW gw, NEW q, NEW hw
    PROVE  /\ SameSlot(RouteFlow(p, gw), RouteFlow(q, hw)) <=> p = q
           /\ RouteFlow(p, gw) = RouteFlow(q, hw) <=> p = q /\ gw = hw
<1>1. RouteMatch(p) = RouteMatch(q) => p = q
  BY MatchFields
<1>2. ToReg0 # GatewayToReg0(gw) /\ ToReg0 # GatewayToReg0(hw)
  BY DEF ToReg0, GatewayToReg0
<1>3. GatewayToReg0(gw) = GatewayToReg0(hw) => gw = hw
  BY DEF GatewayToReg0
<1>4. RouteFlow(p, gw).act = RouteFlow(q, hw).act => gw = hw
  BY <1>2, <1>3, RouteFlowIs
<1>5. QED
  BY <1>1, <1>4, RouteFlowIs DEF SameSlot

\* The tables are apart, and the base flows have priorities of their own.
LEMMA TablesApart ==
    /\ TableNat # TableRib /\ TableNat # TableFib /\ TableRib # TableFib
    /\ \A i \in BaseIds : /\ \A h, m, d : ~SameSlot(BaseFlow[i], HostFlow(h, m, d))
                          /\ \A p \in Prefixes : \A gw : ~SameSlot(BaseFlow[i], RouteFlow(p, gw))
                          /\ \A a : ~SameSlot(BaseFlow[i], LocalFlow(a))
<1>1. TableNat # TableRib /\ TableNat # TableFib /\ TableRib # TableFib
  BY DEF TableNat, TableRib, TableFib
<1>2. ASSUME NEW i \in BaseIds, NEW h, NEW m, NEW d
      PROVE  ~SameSlot(BaseFlow[i], HostFlow(h, m, d))
  BY BaseTables, HostFlowIs DEF SameSlot
<1>3. ASSUME NEW i \in BaseIds, NEW p \in Prefixes, NEW gw
      PROVE  ~SameSlot(BaseFlow[i], RouteFlow(p, gw))
  <2>1. 100 + PrefixLen[p] # 0
    BY PrefixAssumption
  <2>2. QED
    BY <2>1, BaseTables, RouteFlowIs DEF SameSlot
<1>4. ASSUME NEW i \in BaseIds, NEW a PROVE ~SameSlot(BaseFlow[i], LocalFlow(a))
  BY BaseTables, LocalFlowIs DEF SameSlot
<1>5. QED
  BY <1>1, <1>2, <1>3, <1>4

\* A host's delete takes that host's flow, a route's the flows of its prefix
\* and of those below it.
LEMMA DeletesCover ==
    /\ \A h, g : Covers(HostMatch(h), HostMatch(g)) <=> h = g
    /\ \A p, q : Covers(RouteMatch(p), RouteMatch(q)) <=> q \subseteq p
<1>1. ASSUME NEW h, NEW g PROVE Covers(HostMatch(h), HostMatch(g)) <=> h = g
  <2>1. Covers(HostMatch(h), HostMatch(g)) => h = g
    <3>1. Covers(HostMatch(h), HostMatch(g)) => HostMatch(g).reg0 \subseteq HostMatch(h).reg0
      BY DEF Covers, Fields
    <3>2. QED
      BY <3>1, MatchFields
  <2>2. Covers(HostMatch(h), HostMatch(h))
    BY DEF Covers
  <2>3. QED
    BY <2>1, <2>2
<1>2. ASSUME NEW p, NEW q PROVE Covers(RouteMatch(p), RouteMatch(q)) <=> q \subseteq p
  <2>1. Covers(RouteMatch(p), RouteMatch(q)) => q \subseteq p
    BY MatchFields DEF Covers, Fields
  <2>2. \A f \in Fields \ {"dst"} : RouteMatch(q)[f] = RouteMatch(p)[f]
    BY DEF RouteMatch, AnyIP, AnyPacket, Fields
  <2>3. q \subseteq p => Covers(RouteMatch(p), RouteMatch(q))
    BY <2>2, MatchFields DEF Covers
  <2>4. QED
    BY <2>1, <2>3
<1>3. QED
  BY <1>1, <1>2

\* The router's MAC is in the match of every host and every route, and in
\* that of no base flow.
LEMMA DeletesSpareBase ==
    ASSUME NEW i \in BaseIds
    PROVE  /\ \A h : ~(BaseFlow[i].table = TableFib /\ Covers(HostMatch(h), BaseFlow[i].match))
           /\ \A p : ~(BaseFlow[i].table = TableRib /\ Covers(RouteMatch(p), BaseFlow[i].match))
           /\ \A a \in Addr :
                ~(BaseFlow[i].table = TableNat /\ Covers(LocalMatch(a), BaseFlow[i].match))
<1>1. BaseFlow[7].match.dlDst = DlDst /\ BaseFlow[8].match.dlDst = DlDst
  BY DEF BaseFlow, Flow, AnyIP, AnyPacket
<1>2. ~(DlDst \subseteq {"router"})
  BY DEF DlDst
<1>3. \A h : ~Covers(HostMatch(h), BaseFlow[8].match)
  BY <1>1, <1>2, MatchFields DEF Covers, Fields
<1>4. \A p : ~Covers(RouteMatch(p), BaseFlow[7].match)
  BY <1>1, <1>2, MatchFields DEF Covers, Fields
<1>5. QED
  BY <1>3, <1>4, BaseTables, LocalSparesBase

-----------------------------------------------------------------------------
(* The base flows *)

\* Every step keeps them.
LEMMA SkeletonStep == SkeletonKept /\ TableStep => SkeletonKept'
<1> SUFFICES ASSUME SkeletonKept, TableStep, NEW i \in BaseIds
             PROVE  BaseFlow[i] \in flows'
  BY DEF SkeletonKept, BaseFlows
<1>1. BaseFlow[i] \in flows
  BY DEF SkeletonKept, BaseFlows
<1>2. ASSUME NEW n \in Neigh, LearnHost(n) \/ ForgetHost(n) PROVE BaseFlow[i] \in flows'
  <2>1. BaseFlow[i] \in AddFlow(flows, HostFlow(n.ip, n.mac, n.dev))
    BY <1>1, AddFlowFacts, TablesApart
  <2>2. BaseFlow[i] \in DelFlows(flows, TableFib, HostMatch(n.ip))
    BY <1>1, DeletesSpareBase DEF DelFlows
  <2>3. QED
    BY <1>1, <1>2, <2>1, <2>2 DEF LearnHost, ForgetHost, Program
<1>3. ASSUME NEW r \in Route, LearnRoute(r) \/ ForgetRoute(r) PROVE BaseFlow[i] \in flows'
  <2>1. r.dst \in Prefixes
    BY DEF Route
  <2>2. BaseFlow[i] \in AddFlow(flows, RouteFlow(r.dst, r.gw))
    BY <1>1, <2>1, AddFlowFacts, TablesApart
  <2>3. BaseFlow[i] \in DelFlows(flows, TableRib, RouteMatch(r.dst))
    BY <1>1, DeletesSpareBase DEF DelFlows
  <2>4. QED
    BY <1>1, <1>3, <2>2, <2>3 DEF LearnRoute, ForgetRoute, Program
<1>4. ASSUME NEW a \in Local, LearnAddr(a) \/ ForgetAddr(a) PROVE BaseFlow[i] \in flows'
  <2>1. a.ip \in Addr
    BY KernelAssumption DEF Local
  <2>2. BaseFlow[i] \in AddFlow(flows, LocalFlow(a.ip))
    BY <1>1, AddFlowFacts, TablesApart
  <2>3. BaseFlow[i] \in DelFlows(flows, TableNat, LocalMatch(a.ip))
    BY <1>1, <2>1, DeletesSpareBase DEF DelFlows
  <2>4. QED
    BY <1>1, <1>4, <2>2, <2>3 DEF LearnAddr, ForgetAddr, Program
<1>5. CASE Quiet \/ Renewed
  BY <1>1, <1>5 DEF Quiet, Renewed, Fresh, BaseFlows
<1>6. QED
  BY <1>2, <1>3, <1>4, <1>5 DEF TableStep

\* Whatever neighbours, routes and addresses come and go, and whichever
\* handler of them deletes by what match, the base flows stay.
THEOREM SkeletonStays == Spec => []SkeletonKept
<1>1. Init => SkeletonKept
  BY DEF Init, SkeletonKept
<1>2. QED
  BY <1>1, TypeInit, TypeStep, EveryTableStep, SkeletonStep, PTL DEF Spec
-----------------------------------------------------------------------------
(* The FIB and the RIB agree with the listing *)

\* What is in the table after an add and after a delete.
LEMMA TableFacts ==
    ASSUME NEW T, NEW f, NEW table, NEW match, NEW x
    PROVE  /\ x \in AddFlow(T, f) <=> x = f \/ (x \in T /\ ~SameSlot(x, f))
           /\ x \in DelFlows(T, table, match)
                <=> x \in T /\ ~(x.table = table /\ Covers(match, x.match))
BY DEF AddFlow, DelFlows

\* A host's flow after a host's flow has been added or deleted.
LEMMA HostCommands ==
    ASSUME NEW T, NEW h, NEW m, NEW d, NEW g, NEW n, NEW c
    PROVE  /\ HostFlow(h, m, d) \in AddFlow(T, HostFlow(g, n, c))
                <=> (h = g /\ m = n /\ d = c) \/ (h # g /\ HostFlow(h, m, d) \in T)
           /\ HostFlow(h, m, d) \in DelFlows(T, TableFib, HostMatch(g))
                <=> h # g /\ HostFlow(h, m, d) \in T
<1> DEFINE x == HostFlow(h, m, d)
           f == HostFlow(g, n, c)
<1>1. x \in AddFlow(T, f) <=> x = f \/ (x \in T /\ ~SameSlot(x, f))
  BY TableFacts
<1>2. (SameSlot(x, f) <=> h = g) /\ (x = f <=> h = g /\ m = n /\ d = c)
  BY HostSlots
<1>3. x \in DelFlows(T, TableFib, HostMatch(g))
        <=> x \in T /\ ~(x.table = TableFib /\ Covers(HostMatch(g), x.match))
  BY TableFacts
<1>4. x.table = TableFib /\ x.match = HostMatch(h)
  BY HostFlowIs
<1>5. Covers(HostMatch(g), HostMatch(h)) <=> g = h
  BY DeletesCover
<1> HIDE DEF x, f
<1>6. QED
  BY <1>1, <1>2, <1>3, <1>4, <1>5 DEF x, f

\* A route's flow after a route's flow has been added or deleted.
LEMMA RouteCommands ==
    ASSUME NEW T, NEW p, NEW gw, NEW q, NEW hw
    PROVE  /\ RouteFlow(p, gw) \in AddFlow(T, RouteFlow(q, hw))
                <=> (p = q /\ gw = hw) \/ (p # q /\ RouteFlow(p, gw) \in T)
           /\ RouteFlow(p, gw) \in DelFlows(T, TableRib, RouteMatch(q))
                <=> ~(p \subseteq q) /\ RouteFlow(p, gw) \in T
<1> DEFINE x == RouteFlow(p, gw)
           f == RouteFlow(q, hw)
<1>1. x \in AddFlow(T, f) <=> x = f \/ (x \in T /\ ~SameSlot(x, f))
  BY TableFacts
<1>2. (SameSlot(x, f) <=> p = q) /\ (x = f <=> p = q /\ gw = hw)
  BY RouteSlots
<1>3. x \in DelFlows(T, TableRib, RouteMatch(q))
        <=> x \in T /\ ~(x.table = TableRib /\ Covers(RouteMatch(q), x.match))
  BY TableFacts
<1>4. x.table = TableRib /\ x.match = RouteMatch(p)
  BY RouteFlowIs
<1>5. Covers(RouteMatch(q), RouteMatch(p)) <=> p \subseteq q
  BY DeletesCover
<1> HIDE DEF x, f
<1>6. QED
  BY <1>1, <1>2, <1>3, <1>4, <1>5 DEF x, f

\* Host flows have nothing to do with those of routes and addresses, nor has
\* a route's flow with those of hosts and addresses.
LEMMA KindsApart ==
    ASSUME NEW h, NEW m, NEW d, NEW p, NEW gw, NEW a, NEW T, NEW match
    PROVE  /\ HostFlow(h, m, d) \in AddFlow(T, RouteFlow(p, gw)) <=> HostFlow(h, m, d) \in T
           /\ HostFlow(h, m, d) \in AddFlow(T, LocalFlow(a)) <=> HostFlow(h, m, d) \in T
           /\ HostFlow(h, m, d) \in DelFlows(T, TableRib, match) <=> HostFlow(h, m, d) \in T
           /\ HostFlow(h, m, d) \in DelFlows(T, TableNat, match) <=> HostFlow(h, m, d) \in T
           /\ RouteFlow(p, gw) \in AddFlow(T, HostFlow(h, m, d)) <=> RouteFlow(p, gw) \in T
           /\ RouteFlow(p, gw) \in AddFlow(T, LocalFlow(a)) <=> RouteFlow(p, gw) \in T
           /\ RouteFlow(p, gw) \in DelFlows(T, TableFib, match) <=> RouteFlow(p, gw) \in T
           /\ RouteFlow(p, gw) \in DelFlows(T, TableNat, match) <=> RouteFlow(p, gw) \in T
<1>1. /\ HostFlow(h, m, d).table = TableFib
      /\ RouteFlow(p, gw).table = TableRib
      /\ LocalFlow(a).table = TableNat
  BY HostFlowIs, RouteFlowIs, LocalFlowIs
<1>2. TableNat # TableRib /\ TableNat # TableFib /\ TableRib # TableFib
  BY TablesApart
<1>3. QED
  BY <1>1, <1>2, TableFacts DEF SameSlot

\* No base flow is a host's or a route's.
LEMMA BaseIsNeither ==
    /\ \A h, m, d : HostFlow(h, m, d) \notin BaseFlows
    /\ \A p \in Prefixes : \A gw : RouteFlow(p, gw) \notin BaseFlows
BY TablesApart DEF BaseFlows, SameSlot

\* Every step keeps FIB and listing together.
LEMMA FibStep == TypeInv /\ FibIsListed /\ TableStep => FibIsListed'
<1> SUFFICES ASSUME TypeInv, FibIsListed, TableStep, ~faulted',
                    NEW h \in Hosts, NEW m \in Mac, NEW d \in VlanDevs
             PROVE  HostFlow(h, m, d) \in flows'
                      <=> forwardHost'[h] = [mac |-> m, dev |-> d]
  BY DEF FibIsListed
<1> DEFINE entry == [mac |-> m, dev |-> d]
<1>1. ~faulted => (HostFlow(h, m, d) \in flows <=> forwardHost[h] = entry)
  BY DEF FibIsListed
<1>2. DOMAIN forwardHost = Hosts /\ entry # NoVal
  BY ListingAssumption DEF TypeInv, TypeOK
<1>3. ASSUME NEW n \in Neigh, LearnHost(n)
      PROVE  HostFlow(h, m, d) \in flows' <=> forwardHost'[h] = entry
  <2>1. ~faulted /\ flows' = AddFlow(flows, HostFlow(n.ip, n.mac, n.dev))
    BY <1>3 DEF LearnHost, Program, NoFault, Fault
  <2>2. HostFlow(h, m, d) \in AddFlow(flows, HostFlow(n.ip, n.mac, n.dev))
          <=> \/ h = n.ip /\ m = n.mac /\ d = n.dev
              \/ h # n.ip /\ HostFlow(h, m, d) \in flows
    BY HostCommands
  <2>3. forwardHost' = [forwardHost EXCEPT ![n.ip] = [mac |-> n.mac, dev |-> n.dev]]
    BY <1>3 DEF LearnHost
  <2>4. [mac |-> n.mac, dev |-> n.dev] = entry <=> m = n.mac /\ d = n.dev
    OBVIOUS
  <2>5. QED
    BY <1>1, <1>2, <2>1, <2>2, <2>3, <2>4
<1>4. ASSUME NEW n \in Neigh, ForgetHost(n)
      PROVE  HostFlow(h, m, d) \in flows' <=> forwardHost'[h] = entry
  <2>1. ~faulted /\ flows' = DelFlows(flows, TableFib, HostMatch(n.ip))
    BY <1>4 DEF ForgetHost, Program, NoFault, Fault
  <2>2. HostFlow(h, m, d) \in DelFlows(flows, TableFib, HostMatch(n.ip))
          <=> h # n.ip /\ HostFlow(h, m, d) \in flows
    BY HostCommands
  <2>3. forwardHost' = [forwardHost EXCEPT ![n.ip] = NoVal]
    BY <1>4 DEF ForgetHost
  <2>4. QED
    BY <1>1, <1>2, <2>1, <2>2, <2>3
<1>5. ASSUME NEW r \in Route, LearnRoute(r) \/ ForgetRoute(r)
      PROVE  HostFlow(h, m, d) \in flows' <=> forwardHost'[h] = entry
  <2>1. /\ ~faulted /\ forwardHost' = forwardHost
        /\ \/ flows' = AddFlow(flows, RouteFlow(r.dst, r.gw))
           \/ flows' = DelFlows(flows, TableRib, RouteMatch(r.dst))
    BY <1>5 DEF LearnRoute, ForgetRoute, Program, NoFault, Fault
  <2>2. QED
    BY <1>1, <2>1, KindsApart
<1>6. ASSUME NEW a \in Local, LearnAddr(a) \/ ForgetAddr(a)
      PROVE  HostFlow(h, m, d) \in flows' <=> forwardHost'[h] = entry
  <2>1. /\ ~faulted /\ forwardHost' = forwardHost
        /\ \/ flows' = AddFlow(flows, LocalFlow(a.ip))
           \/ flows' = DelFlows(flows, TableNat, LocalMatch(a.ip))
    BY <1>6 DEF LearnAddr, ForgetAddr, Program, NoFault, Fault, forward
  <2>2. QED
    BY <1>1, <2>1, KindsApart
<1>7. CASE Quiet
  BY <1>1, <1>7 DEF Quiet, forward
<1>8. CASE Renewed
  BY <1>2, <1>8, BaseIsNeither DEF Renewed, Fresh
<1>9. QED
  BY <1>3, <1>4, <1>5, <1>6, <1>7, <1>8 DEF TableStep

\* The FIB and its listing agree in every state without a failed command.
THEOREM FibStaysListed == Spec => []FibIsListed
<1>1. Init => FibIsListed
  <2>1. \A m \in Mac, d \in VlanDevs : [mac |-> m, dev |-> d] # NoVal
    BY ListingAssumption
  <2>2. QED
    BY <2>1, BaseIsNeither DEF Init, FibIsListed
<1>2. QED
  BY <1>1, TypeInit, TypeStep, EveryTableStep, FibStep, PTL DEF Spec

\* Every step keeps RIB and listing together, but for what a delete sweeps.
LEMMA RibStep == TypeInv /\ RibIsListed /\ TableStep => RibIsListed'
<1> DEFINE Same(p, gw) == forwardRoute[p] # NoVal /\ forwardRoute[p].gw = gw
           Agree(p, gw) ==
             /\ RouteFlow(p, gw) \in flows => Same(p, gw)
             /\ Same(p, gw) /\ p \notin swept => RouteFlow(p, gw) \in flows
<1> SUFFICES ASSUME TypeInv, RibIsListed, TableStep, ~faulted',
                    NEW p \in Prefixes, NEW gw \in Gateways
             PROVE  Agree(p, gw)'
  BY DEF RibIsListed
<1>1. ~faulted => Agree(p, gw)
  BY DEF RibIsListed
<1>2. DOMAIN forwardRoute = Prefixes
  BY DEF TypeInv, TypeOK
<1>3. ASSUME NEW r \in Route, r.dev \in VlanDevs, LearnRoute(r) PROVE Agree(p, gw)'
  <2>1. ~faulted /\ flows' = AddFlow(flows, RouteFlow(r.dst, r.gw))
    BY <1>3 DEF LearnRoute, Program, NoFault, Fault
  <2>2. RouteFlow(p, gw) \in AddFlow(flows, RouteFlow(r.dst, r.gw))
          <=> \/ p = r.dst /\ gw = r.gw
              \/ p # r.dst /\ RouteFlow(p, gw) \in flows
    BY RouteCommands
  <2>3. /\ forwardRoute' = [forwardRoute EXCEPT ![r.dst] = [gw |-> r.gw, dev |-> r.dev]]
        /\ swept' = swept \ {r.dst}
    BY <1>3 DEF LearnRoute
  <2>4. [gw |-> r.gw, dev |-> r.dev] # NoVal
    <3>1. r.gw \in Gateways
      BY DEF Route
    <3>2. QED
      BY <1>3, <3>1, ListingAssumption
  <2>5. QED
    BY <1>1, <1>2, <2>1, <2>2, <2>3, <2>4
<1>4. ASSUME NEW r \in Route, ForgetRoute(r) PROVE Agree(p, gw)'
  <2>1. ~faulted /\ flows' = DelFlows(flows, TableRib, RouteMatch(r.dst))
    BY <1>4 DEF ForgetRoute, Program, NoFault, Fault
  <2>2. RouteFlow(p, gw) \in DelFlows(flows, TableRib, RouteMatch(r.dst))
          <=> ~(p \subseteq r.dst) /\ RouteFlow(p, gw) \in flows
    BY RouteCommands
  <2>3. /\ forwardRoute' = [forwardRoute EXCEPT ![r.dst] = NoVal]
        /\ swept' = swept \cup Below(r.dst)
    BY <1>4 DEF ForgetRoute
  <2>4. p \in Below(r.dst) <=> p # r.dst /\ p \subseteq r.dst
    BY DEF Below
  <2>5. QED
    BY <1>1, <1>2, <2>1, <2>2, <2>3, <2>4
<1>5. ASSUME NEW n \in Neigh, LearnHost(n) \/ ForgetHost(n) PROVE Agree(p, gw)'
  <2>1. /\ ~faulted /\ UNCHANGED <<forwardRoute, swept>>
        /\ \/ flows' = AddFlow(flows, HostFlow(n.ip, n.mac, n.dev))
           \/ flows' = DelFlows(flows, TableFib, HostMatch(n.ip))
    BY <1>5 DEF LearnHost, ForgetHost, Program, NoFault, Fault
  <2>2. QED
    BY <1>1, <2>1, KindsApart
<1>6. ASSUME NEW a \in Local, LearnAddr(a) \/ ForgetAddr(a) PROVE Agree(p, gw)'
  <2>1. /\ ~faulted /\ UNCHANGED <<forwardRoute, swept>>
        /\ \/ flows' = AddFlow(flows, LocalFlow(a.ip))
           \/ flows' = DelFlows(flows, TableNat, LocalMatch(a.ip))
    BY <1>6 DEF LearnAddr, ForgetAddr, Program, NoFault, Fault, forward
  <2>2. QED
    BY <1>1, <2>1, KindsApart
<1>7. CASE Quiet
  BY <1>1, <1>7 DEF Quiet, forward
<1>8. CASE Renewed
  BY <1>8, BaseIsNeither DEF Renewed, Fresh
<1>9. QED
  BY <1>3, <1>4, <1>5, <1>6, <1>7, <1>8 DEF TableStep

\* Without a failed command every route flow is listed with its gateway, and
\* every listed route is programmed or swept away by the delete of a wider one.
THEOREM RibStaysListed == Spec => []RibIsListed
<1>1. Init => RibIsListed
  BY BaseIsNeither DEF Init, RibIsListed
<1>2. QED
  BY <1>1, TypeInit, TypeStep, EveryTableStep, RibStep, PTL DEF Spec
-----------------------------------------------------------------------------
(* The RIB looks an address up as a router does *)

\* What the RIB table holds beside its base flow are flows of routes.
RibKnown == \A x \in flows : x.table = TableRib => x = BaseFlow[7] \/ x \in RouteFlows

\* Nothing else is ever added to it.
LEMMA RibKnownStep == RibKnown /\ TableStep => RibKnown'
<1> SUFFICES ASSUME RibKnown, TableStep, NEW x \in flows', x.table = TableRib
             PROVE  x = BaseFlow[7] \/ x \in RouteFlows
  BY DEF RibKnown
<1>1. x \in flows => x = BaseFlow[7] \/ x \in RouteFlows
  BY DEF RibKnown
<1>2. ASSUME NEW n \in Neigh, LearnHost(n) \/ ForgetHost(n) PROVE x \in flows
  <2>1. x # HostFlow(n.ip, n.mac, n.dev)
    BY HostFlowIs, TablesApart
  <2>2. /\ \A y \in AddFlow(flows, HostFlow(n.ip, n.mac, n.dev)) :
               y = HostFlow(n.ip, n.mac, n.dev) \/ y \in flows
        /\ DelFlows(flows, TableFib, HostMatch(n.ip)) \subseteq flows
    BY AddFlowFacts, DelFlowsFacts
  <2>3. QED
    BY <1>2, <2>1, <2>2 DEF LearnHost, ForgetHost, Program
<1>3. ASSUME NEW r \in Route, LearnRoute(r) \/ ForgetRoute(r)
      PROVE  x \in flows \/ x \in RouteFlows
  <2>1. RouteFlow(r.dst, r.gw) \in RouteFlows
    BY DEF Route, RouteFlows
  <2>2. /\ \A y \in AddFlow(flows, RouteFlow(r.dst, r.gw)) :
               y = RouteFlow(r.dst, r.gw) \/ y \in flows
        /\ DelFlows(flows, TableRib, RouteMatch(r.dst)) \subseteq flows
    BY AddFlowFacts, DelFlowsFacts
  <2>3. QED
    BY <1>3, <2>1, <2>2 DEF LearnRoute, ForgetRoute, Program
<1>4. ASSUME NEW a \in Local, LearnAddr(a) \/ ForgetAddr(a) PROVE x \in flows
  <2>1. x # LocalFlow(a.ip)
    BY LocalFlowIs, TablesApart
  <2>2. /\ \A y \in AddFlow(flows, LocalFlow(a.ip)) : y = LocalFlow(a.ip) \/ y \in flows
        /\ DelFlows(flows, TableNat, LocalMatch(a.ip)) \subseteq flows
    BY AddFlowFacts, DelFlowsFacts
  <2>3. QED
    BY <1>4, <2>1, <2>2 DEF LearnAddr, ForgetAddr, Program
<1>5. CASE Quiet
  BY <1>1, <1>5 DEF Quiet
<1>6. CASE Renewed
  <2>1. PICK i \in BaseIds : x = BaseFlow[i]
    BY <1>6 DEF Renewed, Fresh, BaseFlows
  <2>2. QED
    BY <2>1, BaseTables
<1>7. QED
  BY <1>1, <1>2, <1>3, <1>4, <1>5, <1>6 DEF TableStep

\* Of the prefixes of a set, one is not shorter than any other.
LEMMA LongestExists ==
    ASSUME NEW S \in SUBSET Prefixes, S # {}
    PROVE  \E p \in S : \A q \in S : PrefixLen[q] <= PrefixLen[p]
<1>1. \A p \in S : PrefixLen[p] \in 0..32
  BY PrefixAssumption
<1>2. PICK n \in 0..32 : /\ \E p \in S : PrefixLen[p] = n
                         /\ \A m \in (n + 1)..32 : ~ \E p \in S : PrefixLen[p] = m
  BY <1>1
<1>3. QED
  BY <1>1, <1>2

\* A route's flow takes the frames to the router for its prefix.
LEMMA RouteAdmits ==
    ASSUME NEW p \in Prefixes, NEW gw, NEW a \in Addr
    PROVE  Admits(RouteFlow(p, gw).match, ToRouter(a)) <=> a \in p
<1>1. RouteFlow(p, gw).match = RouteMatch(p)
  BY RouteFlowIs
<1>2. PICK port \in Port : port = CHOOSE x \in Port : TRUE
  BY PortAssumption
<1>3. ToRouter(a) = [ct |-> "new", proto |-> "tcp", src |-> a, dst |-> a, sport |-> port,
                     dport |-> port, dlDst |-> "router", reg0 |-> a]
  BY <1>2 DEF ToRouter
<1>4. LET m == RouteMatch(p)
      IN /\ m.ct = CtStates /\ m.proto = IPv4 /\ m.src = Addr /\ m.dst = p
         /\ m.sport = Port /\ m.dport = Port /\ m.dlDst = {"router"} /\ m.reg0 = Addr
  BY DEF RouteMatch, AnyIP, AnyPacket
<1>5. "new" \in CtStates /\ "tcp" \in IPv4
  BY DEF CtStates, IPv4, Protocols
<1>6. Admits(RouteMatch(p), ToRouter(a)) <=> a \in p
  BY <1>3, <1>4, <1>5 DEF Admits, Fields
<1>7. QED
  BY <1>1, <1>6

\* It follows from what the RIB holds.
LEMMA LongestWins == TypeInv /\ RibIsListed /\ RibKnown => LongestPrefixWins
<1> SUFFICES ASSUME TypeInv, RibIsListed, RibKnown, ~faulted, swept = {}, NEW a \in Addr,
                    {p \in Prefixes : a \in p /\ forwardRoute[p] # NoVal} # {}
             PROVE  \E p \in {x \in Prefixes : a \in x /\ forwardRoute[x] # NoVal} :
                      /\ \A q \in {x \in Prefixes : a \in x /\ forwardRoute[x] # NoVal} :
                            p \subseteq q
                      /\ Winners(flows, TableRib, ToRouter(a))
                            = {RouteFlow(p, forwardRoute[p].gw)}
  BY DEF LongestPrefixWins
<1> DEFINE known == {p \in Prefixes : a \in p /\ forwardRoute[p] # NoVal}
<1>1. PICK p \in known : \A q \in known : PrefixLen[q] <= PrefixLen[p]
  BY LongestExists
<1>2. \A q \in known : p \subseteq q
  BY <1>1, PrefixAssumption
<1> DEFINE f == RouteFlow(p, forwardRoute[p].gw)
<1>3. /\ p \in Prefixes /\ a \in p /\ forwardRoute[p] # NoVal
      /\ forwardRoute[p].gw \in Gateways
  BY DEF TypeInv, TypeOK
<1>4. f \in flows /\ f.table = TableRib
  BY <1>3, RouteFlowIs DEF RibIsListed
<1>5. f.prio = 100 + PrefixLen[p] /\ PrefixLen[p] \in 0..32
  BY <1>3, RouteFlowIs, PrefixAssumption
<1>6. f \in Candidates(flows, TableRib, ToRouter(a))
  BY <1>3, <1>4, RouteAdmits DEF Candidates
<1>7. ASSUME NEW x \in Candidates(flows, TableRib, ToRouter(a))
      PROVE  x.prio <= f.prio /\ (f.prio <= x.prio => x = f)
  <2>1. x \in flows /\ x.table = TableRib /\ Admits(x.match, ToRouter(a))
    BY DEF Candidates
  <2>2. CASE x = BaseFlow[7]
    <3>1. x.prio = 0
      BY <2>2, BaseTables DEF BaseIds, BaseFlow, Flow
    <3>2. QED
      BY <1>5, <3>1
  <2>3. CASE x \in RouteFlows
    <3>1. PICK q \in Prefixes, gw \in Gateways : x = RouteFlow(q, gw)
      BY <2>3 DEF RouteFlows
    <3>2. q \in known /\ forwardRoute[q].gw = gw
      BY <2>1, <3>1, RouteAdmits DEF RibIsListed
    <3>3. x.prio = 100 + PrefixLen[q] /\ PrefixLen[q] \in 0..32
      BY <3>1, RouteFlowIs, PrefixAssumption
    <3>4. PrefixLen[q] <= PrefixLen[p]
      BY <1>1, <3>2
    <3>5. PrefixLen[p] <= PrefixLen[q] => q = p
      BY <1>2, <1>3, <3>2, PrefixAssumption
    <3>6. QED
      BY <1>5, <3>1, <3>2, <3>3, <3>4, <3>5
  <2>4. QED
    BY <2>1, <2>2, <2>3 DEF RibKnown
<1>8. Winners(flows, TableRib, ToRouter(a)) = {f}
  BY <1>6, <1>7 DEF Winners
<1>9. QED
  BY <1>2, <1>8

\* Without a failed command, and with nothing swept, a frame to the router is
\* forwarded by the longest listed prefix that holds its destination.
THEOREM LongestPrefixIsUsed == Spec => []LongestPrefixWins
<1>1. Init => RibIsListed /\ RibKnown
  <2>1. Init => RibIsListed
    BY BaseIsNeither DEF Init, RibIsListed
  <2>2. Init => RibKnown
    BY BaseTables DEF Init, RibKnown, BaseFlows
  <2>3. QED
    BY <2>1, <2>2
<1>2. QED
  BY <1>1, TypeInit, TypeStep, EveryTableStep, RibStep, RibKnownStep, LongestWins, PTL
     DEF Spec
-----------------------------------------------------------------------------
(* The listing and the kernel *)

Table(w) == CASE w = "neighbor" -> neighs
              [] w = "route"    -> routes
              [] w = "addr"     -> locals
Keys(w)  == CASE w = "neighbor" -> Hosts
              [] w = "route"    -> Prefixes
              [] w = "addr"     -> Locals
Key(w, x)   == IF w = "route" THEN x.dst ELSE x.ip
Excepted(w) == IF w = "route" THEN shared \cup moved ELSE shared

Known(dev) == dev \in VlanDevs \cap linkAttrs
Mine(w, k, T) == {x \in T : Key(w, x) = k}

\* The listing shows, under a key, what a table of the kernel has under it.
\* The interface decides, and whether the process knows it; a host without MAC
\* may still be listed with an earlier one, a route of the local table not.
HostShown(k, T) ==
    /\ Mine("neighbor", k, T) = {} => forwardHost[k] = NoVal
    /\ \A x \in Mine("neighbor", k, T) :
          /\ Known(x.dev) /\ x.mac # NoMac => forwardHost[k] = [mac |-> x.mac, dev |-> x.dev]
          /\ ~Known(x.dev) => forwardHost[k] = NoVal
RouteShown(k, T) ==
    /\ Mine("route", k, T) = {} => forwardRoute[k] = NoVal
    /\ \A x \in Mine("route", k, T) :
          \/ Known(x.dev) /\ forwardRoute[k] = [gw |-> x.gw, dev |-> x.dev]
          \/ (~Known(x.dev) \/ ~x.main) /\ forwardRoute[k] = NoVal
AddrShown(k, T) ==
    LocalFlow(k) \in flows <=> \E x \in Mine("addr", k, T) : Known(x.dev)

Shown(w, k, T) == CASE w = "neighbor" -> HostShown(k, T)
                    [] w = "route"    -> RouteShown(k, T)
                    [] w = "addr"     -> AddrShown(k, T)

\* An interface an entry of the table was handled on is known, or it is gone
\* for good.
Seen(w, T) ==
    \A x \in T : x.dev \in links /\ (w = "route" => x.main) => x.dev \in linkAttrs

Represents(w, T) == Seen(w, T) /\ \A k \in Keys(w) \ Excepted(w) : Shown(w, k, T)

\* Event e tells how table T of the kernel became table U.
Replaces(T, r, U) ==
    \E old \in T :
        /\ old.dst = r.dst /\ old.main = r.main
        /\ U = (T \ {old}) \cup {r}
        /\ r.dst \notin moved /\ old.dev \in VlanDevs => r.dev = old.dev \/ Known(r.dev)
Changes(w, T, e, U) ==
    \/ e.op = "del" /\ e.item \in T /\ U = T \ {e.item}
    \/ e.op = "new" /\ w = "neighbor"
         /\ U = {x \in T : ~(x.ip = e.item.ip /\ x.dev = e.item.dev)} \cup {e.item}
    \/ e.op = "new" /\ w # "neighbor" /\ U = T \cup {e.item}
    \/ e.op = "new" /\ w = "route" /\ Replaces(T, e.item, U)

Single(w, T) ==
    \A x, y \in T : Key(w, x) = Key(w, y) /\ Key(w, x) \notin shared => x = y

\* The listing shows the kernel's table as it was before the events in the
\* socket: t[i] is the table after the first i of them.
Traces(w, q, t) ==
    /\ t \in [0..Len(q) -> SUBSET Items(w)]
    /\ t[Len(q)] = Table(w)
    /\ \A i \in 0..Len(q) : Single(w, t[i])
    /\ \A i \in 1..Len(q) : Changes(w, t[i - 1], q[i], t[i])
Lags(w) == \E t : Traces(w, queue[w], t) /\ Represents(w, t[0])

\* What each watcher has come to, as long as it has missed nothing.
WatcherInv(w) ==
    w \notin lost /\ ~faulted =>
        /\ stage[w] # "deaf"
        /\ stage[w] = "unstarted" =>
              listed[w] = {} /\ queue[w] = <<>> /\ Represents(w, {})
        /\ stage[w] = "listing" =>
              /\ queue[w] = <<>> /\ listed[w] \subseteq Snapshot(w)
              /\ Represents(w, {x \in Table(w) : New(x) \notin listed[w]})
        /\ stage[w] = "spawned" =>
              queue[w] = <<>> /\ listed[w] = {} /\ Represents(w, Table(w))
        /\ stage[w] = "watching" => listed[w] = {} /\ Lags(w)

\* The kernel's entries are on interfaces that exist, a neighbour entry is one
\* per address and interface, and keys with two entries are known to have had two.
KernelInv ==
    /\ \A w \in WatcherIds : \A x \in Table(w) : x.dev \in links
    /\ \A x, y \in neighs : x.ip = y.ip /\ x.dev = y.dev => x = y
    /\ Doubled \subseteq shared

SyncInv == KernelInv /\ \A w \in WatcherIds : WatcherInv(w)

\* Of each watcher, by its name.
LEMMA ByName ==
    /\ Table("neighbor") = neighs /\ Table("route") = routes /\ Table("addr") = locals
    /\ Keys("neighbor") = Hosts /\ Keys("route") = Prefixes /\ Keys("addr") = Locals
    /\ \A x : Key("neighbor", x) = x.ip /\ Key("route", x) = x.dst /\ Key("addr", x) = x.ip
    /\ Excepted("neighbor") = shared /\ Excepted("route") = shared \cup moved
    /\ Excepted("addr") = shared
    /\ \A k, T : /\ Shown("neighbor", k, T) <=> HostShown(k, T)
                 /\ Shown("route", k, T) <=> RouteShown(k, T)
                 /\ Shown("addr", k, T) <=> AddrShown(k, T)
BY DEF Table, Keys, Key, Excepted, Shown

\* A step that leaves the listing of a watcher alone, and that forgets nothing
\* about interfaces and exceptions, leaves what it represents.
Spares(w) ==
    /\ links' \subseteq links
    /\ linkAttrs \subseteq linkAttrs' /\ linkAttrs' \subseteq linkAttrs \cup links
    /\ shared \subseteq shared' /\ moved \subseteq moved'
    /\ w = "neighbor" => UNCHANGED forwardHost
    /\ w = "route" => UNCHANGED forwardRoute
    /\ w = "addr" => \A a \in Locals : LocalFlow(a) \in flows' <=> LocalFlow(a) \in flows

\* An entry that was seen stays known or unknown.
LEMMA KnownStays ==
    ASSUME NEW w, Spares(w), NEW T, Seen(w, T), NEW x \in T
    PROVE  /\ Known(x.dev) => Known(x.dev)'
           /\ (w = "route" => x.main) => (Known(x.dev)' => Known(x.dev))
BY DEF Spares, Seen, Known

\* So the table is still represented.
LEMMA RepresentsStays ==
    ASSUME NEW w \in WatcherIds, Spares(w), NEW T, Represents(w, T)
    PROVE  Represents(w, T)'
<1>1. Seen(w, T)'
  BY DEF Represents, Seen, Spares
<1>2. \A x \in T : /\ Known(x.dev) => Known(x.dev)'
                   /\ (w = "route" => x.main) => (Known(x.dev)' => Known(x.dev))
  BY KnownStays DEF Represents
<1>3. ASSUME NEW k \in Keys(w) \ Excepted(w)' PROVE Shown(w, k, T)'
  <2>1. Shown(w, k, T)
    BY <1>3 DEF Represents, Spares, Excepted
  <2>2. CASE w = "neighbor"
    BY <1>2, <2>1, <2>2 DEF Shown, HostShown, Mine, Key, Spares
  <2>3. CASE w = "route"
    BY <1>2, <2>1, <2>3 DEF Shown, RouteShown, Mine, Key, Spares
  <2>4. CASE w = "addr"
    <3>1. k \in Locals
      BY <1>3, <2>4 DEF Keys
    <3>2. QED
      BY <1>2, <2>1, <2>4, <3>1 DEF Shown, AddrShown, Mine, Key, Spares
  <2>5. QED
    BY <2>2, <2>3, <2>4 DEF WatcherIds
<1>4. Keys(w)' = Keys(w)
  BY DEF Keys
<1>5. QED
  BY <1>1, <1>3, <1>4 DEF Represents

\* And the events in the socket still tell what they told.
LEMMA ChangesStay ==
    ASSUME NEW w, Spares(w)
    PROVE  /\ \A T, e, U : Changes(w, T, e, U) => Changes(w, T, e, U)'
           /\ \A T : Single(w, T) => Single(w, T)'
<1>1. \A d : Known(d) => Known(d)'
  BY DEF Spares, Known
<1>2. \A T, r, U : Replaces(T, r, U) => Replaces(T, r, U)'
  BY <1>1 DEF Replaces, Spares
<1>3. QED
  BY <1>2 DEF Changes, Single, Key, Spares
\* A handler that meets no fault looks the interface up, and then ignores the
\* event or handles it.
LEMMA OnFacts ==
    ASSUME NEW w, NEW e, On(w, e), ~faulted'
    PROVE  /\ Remember(e.item.dev)
           /\ \/ Ignored(e.item.dev) /\ UNCHANGED <<flows, forward>>
              \/ /\ ~Ignored(e.item.dev)
                 /\ \/ w = "neighbor" /\ OnNeighbor(e)
                    \/ w = "route"    /\ OnRoute(e)
                    \/ w = "addr"     /\ OnAddress(e)
BY DEF On, Fault

\* Whether an interface is known afterwards is what the handler went by.
LEMMA IgnoredIsUnknown ==
    ASSUME NEW d, Remember(d)
    PROVE  /\ Known(d)' <=> ~Ignored(d)
           /\ \A c : Known(c) => Known(c)'
           /\ \A c : c # d => (Known(c)' <=> Known(c))
BY DEF Remember, Known, Ignored, Found

\* Once a neighbour event is handled, the listing represents the table after it.
LEMMA HostHandled ==
    ASSUME TypeInv, NEW e \in Event("neighbor"), On("neighbor", e), ~faulted',
           UNCHANGED <<links, shared, moved>>,
           NEW T \in SUBSET Neigh, NEW U \in SUBSET Neigh,
           Single("neighbor", T), Single("neighbor", U),
           Changes("neighbor", T, e, U), Represents("neighbor", T)
    PROVE  Represents("neighbor", U)'
<1> DEFINE n == e.item
<1>1. n \in Neigh /\ n.ip \in Hosts /\ e.op \in {"new", "del"}
  <2>1. n \in Neigh /\ e.op \in {"new", "del"}
    BY ItemsAre DEF Event
  <2>2. QED
    BY <2>1 DEF Neigh
<1>2. Remember(n.dev) /\ (Known(n.dev)' <=> ~Ignored(n.dev))
  BY OnFacts, IgnoredIsUnknown
<1>3. U \subseteq T \cup {n}
  BY DEF Changes
<1>4. Seen("neighbor", U)'
  BY <1>2, <1>3 DEF Represents, Seen, Remember
<1>5. \A x \in T : Known(x.dev) <=> Known(x.dev)'
  BY <1>2 DEF Represents, Seen, Remember, Known
<1>6. \/ Ignored(n.dev) /\ UNCHANGED forwardHost
      \/ ~Ignored(n.dev) /\ OnNeighbor(e)
  BY OnFacts DEF forward
<1>7. DOMAIN forwardHost = Hosts
  BY DEF TypeInv, TypeOK
<1>8. ASSUME NEW k \in Hosts, k \notin shared PROVE HostShown(k, U)'
  <2>1. HostShown(k, T)
    BY <1>8, ByName DEF Represents
  <2>2. CASE k # n.ip
    <3>1. Mine("neighbor", k, U) = Mine("neighbor", k, T)
      BY <2>2 DEF Changes, Mine, Key
    <3>2. forwardHost'[k] = forwardHost[k]
      BY <1>6, <1>7, <2>2 DEF OnNeighbor
    <3>3. QED
      BY <1>5, <2>1, <3>1, <3>2 DEF HostShown, Mine
  <2>3. CASE k = n.ip /\ e.op = "del"
    <3>1. n \in T /\ U = T \ {n}
      BY <2>3 DEF Changes
    <3>2. Mine("neighbor", k, U) = {}
      BY <1>8, <2>3, <3>1 DEF Single, Mine, Key
    <3>3. Ignored(n.dev) => forwardHost[k] = NoVal
      BY <1>2, <1>5, <2>1, <2>3, <3>1 DEF HostShown, Mine, Key
    <3>4. forwardHost'[k] = NoVal
      BY <1>1, <1>6, <1>7, <2>3, <3>3 DEF OnNeighbor
    <3>5. QED
      BY <3>2, <3>4 DEF HostShown, Mine
  <2>4. CASE k = n.ip /\ e.op = "new"
    <3>1. U = {x \in T : ~(x.ip = n.ip /\ x.dev = n.dev)} \cup {n}
      BY <2>4 DEF Changes
    <3>2. Mine("neighbor", k, U) = {n}
      BY <1>8, <2>4, <3>1 DEF Single, Mine, Key
    <3>3. \A x \in Mine("neighbor", k, T) : x.dev = n.dev
      BY <1>8, <2>4, <3>1, <3>2 DEF Mine, Key
    <3>4. ~Known(n.dev)' => forwardHost[k] = NoVal
      <4>1. CASE Mine("neighbor", k, T) = {}
        BY <2>1, <4>1 DEF HostShown
      <4>2. CASE Mine("neighbor", k, T) # {}
        <5>1. PICK x \in Mine("neighbor", k, T) : TRUE
          BY <4>2
        <5>2. x \in T /\ x.dev = n.dev
          BY <3>3 DEF Mine
        <5>3. QED
          BY <1>5, <2>1, <5>1, <5>2 DEF HostShown
      <4>3. QED
        BY <4>1, <4>2
    <3>5. ~Known(n.dev)' => forwardHost'[k] = NoVal
      BY <1>2, <1>6, <3>4
    <3>6. Known(n.dev)' /\ n.mac # NoMac => forwardHost'[k] = [mac |-> n.mac, dev |-> n.dev]
      BY <1>1, <1>2, <1>6, <1>7, <2>4 DEF OnNeighbor
    <3>7. QED
      BY <3>2, <3>5, <3>6 DEF HostShown, Mine
  <2>5. QED
    BY <1>1, <2>2, <2>3, <2>4
<1>9. QED
  BY <1>4, <1>8 DEF Represents, Keys, Excepted, Shown
\* The same for a route event.
LEMMA RouteHandled ==
    ASSUME TypeInv, NEW e \in Event("route"), On("route", e), ~faulted',
           UNCHANGED <<links, shared, moved>>,
           NEW T \in SUBSET Route, NEW U \in SUBSET Route,
           Single("route", T), Single("route", U),
           Changes("route", T, e, U), Represents("route", T)
    PROVE  Represents("route", U)'
<1> DEFINE r == e.item
<1>1. r \in Route /\ r.dst \in Prefixes /\ e.op \in {"new", "del"}
  <2>1. r \in Route /\ e.op \in {"new", "del"}
    BY ItemsAre DEF Event
  <2>2. QED
    BY <2>1 DEF Route
<1>2. /\ Remember(r.dev) /\ (Known(r.dev)' <=> ~Ignored(r.dev))
      /\ \A d : Known(d) => Known(d)'
  BY OnFacts, IgnoredIsUnknown
<1>3. U \subseteq T \cup {r}
  BY DEF Changes, Replaces
<1>4. Seen("route", U)'
  BY <1>2, <1>3 DEF Represents, Seen, Remember
<1>5. \A x \in T : x.main => (Known(x.dev) <=> Known(x.dev)')
  BY <1>2 DEF Represents, Seen, Remember, Known
<1>6. \/ Ignored(r.dev) /\ UNCHANGED forwardRoute
      \/ ~Ignored(r.dev) /\ OnRoute(e)
  BY OnFacts DEF forward
<1>7. DOMAIN forwardRoute = Prefixes
  BY DEF TypeInv, TypeOK
<1>8. ASSUME NEW k \in Prefixes, k \notin shared, k \notin moved PROVE RouteShown(k, U)'
  <2>1. RouteShown(k, T)
    BY <1>8, ByName DEF Represents
  <2>2. CASE k # r.dst
    <3>1. Mine("route", k, U) = Mine("route", k, T)
      BY <2>2 DEF Changes, Replaces, Mine, Key
    <3>2. forwardRoute'[k] = forwardRoute[k]
      BY <1>6, <1>7, <2>2 DEF OnRoute
    <3>3. \A x \in Mine("route", k, T) :
            /\ Known(x.dev) => Known(x.dev)'
            /\ x.main => (Known(x.dev) <=> Known(x.dev)')
      BY <1>2, <1>5 DEF Mine
    <3>4. QED
      BY <2>1, <3>1, <3>2, <3>3 DEF RouteShown, Mine
  <2>3. CASE k = r.dst /\ e.op = "del"
    <3>1. r \in T /\ U = T \ {r}
      BY <2>3 DEF Changes
    <3>2. Mine("route", k, U) = {}
      BY <1>8, <2>3, <3>1 DEF Single, Mine, Key
    <3>3. Ignored(r.dev) => forwardRoute[k] = NoVal
      BY <1>2, <2>1, <2>3, <3>1 DEF RouteShown, Mine, Key
    <3>4. forwardRoute'[k] = NoVal
      BY <1>1, <1>6, <1>7, <2>3, <3>3 DEF OnRoute
    <3>5. QED
      BY <3>2, <3>4 DEF RouteShown, Mine
  <2>4. CASE k = r.dst /\ e.op = "new"
    <3>1. U = T \cup {r} \/ Replaces(T, r, U)
      BY <2>4 DEF Changes
    <3>2. r \in U /\ Mine("route", k, U) = {r}
      BY <1>8, <2>4, <3>1 DEF Replaces, Single, Mine, Key
    <3>3. \A x \in Mine("route", k, T) :
            x.dev \in VlanDevs => x.dev = r.dev \/ Known(r.dev)
      <4>1. CASE U = T \cup {r}
        BY <1>8, <2>4, <3>2, <4>1 DEF Single, Mine, Key
      <4>2. CASE Replaces(T, r, U)
        <5>1. PICK old \in T : /\ old.dst = r.dst
                               /\ old.dev \in VlanDevs => r.dev = old.dev \/ Known(r.dev)
          BY <1>8, <2>4, <4>2 DEF Replaces
        <5>2. \A x \in Mine("route", k, T) : x = old
          BY <1>8, <2>4, <5>1 DEF Single, Mine, Key
        <5>3. QED
          BY <5>1, <5>2
      <4>3. QED
        BY <3>1, <4>1, <4>2
    <3>4. ~Known(r.dev)' => forwardRoute[k] = NoVal
      <4>1. CASE Mine("route", k, T) = {}
        BY <2>1, <4>1 DEF RouteShown
      <4>2. CASE Mine("route", k, T) # {}
        <5>1. PICK x \in Mine("route", k, T) : TRUE
          BY <4>2
        <5>2. ~Known(r.dev)' => ~Known(x.dev)
          BY <1>2, <3>3, <5>1 DEF Known
        <5>3. QED
          BY <2>1, <5>1, <5>2 DEF RouteShown
      <4>3. QED
        BY <4>1, <4>2
    <3>5. ~Known(r.dev)' => forwardRoute'[k] = NoVal
      BY <1>2, <1>6, <3>4
    <3>6. Known(r.dev)' => forwardRoute'[k] = [gw |-> r.gw, dev |-> r.dev]
      BY <1>1, <1>2, <1>6, <1>7, <2>4 DEF OnRoute
    <3>7. QED
      BY <3>2, <3>5, <3>6 DEF RouteShown, Mine
  <2>5. QED
    BY <1>1, <2>2, <2>3, <2>4
<1>9. QED
  BY <1>4, <1>8 DEF Represents, Keys, Excepted, Shown

\* The flow of an address after that of an address has been added or deleted,
\* and what flows of hosts and routes have to do with it.
LEMMA AddrCommands ==
    ASSUME NEW T, NEW a, NEW b
    PROVE  /\ LocalFlow(a) \in AddFlow(T, LocalFlow(b)) <=> a = b \/ LocalFlow(a) \in T
           /\ LocalFlow(a) \in DelFlows(T, TableNat, LocalMatch(b))
                <=> a # b /\ LocalFlow(a) \in T
           /\ \A h, m, d : LocalFlow(a) \in AddFlow(T, HostFlow(h, m, d)) <=> LocalFlow(a) \in T
           /\ \A p, gw : LocalFlow(a) \in AddFlow(T, RouteFlow(p, gw)) <=> LocalFlow(a) \in T
           /\ \A match : /\ LocalFlow(a) \in DelFlows(T, TableFib, match) <=> LocalFlow(a) \in T
                         /\ LocalFlow(a) \in DelFlows(T, TableRib, match) <=> LocalFlow(a) \in T
<1> DEFINE x == LocalFlow(a)
<1>1. x.table = TableNat /\ x.match = LocalMatch(a)
  BY LocalFlowIs
<1>2. LocalMatch(a).dst = {a} /\ LocalMatch(b).dst = {b}
  BY DEF LocalMatch, AnyIP, AnyPacket
<1>3. x = LocalFlow(b) <=> a = b
  BY <1>1, <1>2, LocalFlowIs
<1>4. SameSlot(x, LocalFlow(b)) <=> a = b
  BY <1>1, <1>2, LocalFlowIs DEF SameSlot
<1>5. Covers(LocalMatch(b), LocalMatch(a)) <=> a = b
  <2>1. Covers(LocalMatch(b), LocalMatch(a)) => LocalMatch(a).dst \subseteq LocalMatch(b).dst
    BY DEF Covers, Fields
  <2>2. Covers(LocalMatch(a), LocalMatch(a))
    BY DEF Covers
  <2>3. QED
    BY <1>2, <2>1, <2>2
<1>6. /\ \A h, m, d : x # HostFlow(h, m, d) /\ ~SameSlot(x, HostFlow(h, m, d))
      /\ \A p, gw : x # RouteFlow(p, gw) /\ ~SameSlot(x, RouteFlow(p, gw))
  BY <1>1, HostFlowIs, RouteFlowIs, TablesApart DEF SameSlot
<1>7. x \in AddFlow(T, LocalFlow(b)) <=> a = b \/ x \in T
  BY <1>3, <1>4, TableFacts
<1>8. x \in DelFlows(T, TableNat, LocalMatch(b)) <=> a # b /\ x \in T
  BY <1>1, <1>5, TableFacts
<1>9. /\ \A h, m, d : x \in AddFlow(T, HostFlow(h, m, d)) <=> x \in T
      /\ \A p, gw : x \in AddFlow(T, RouteFlow(p, gw)) <=> x \in T
  BY <1>6, TableFacts
<1>10. \A match : /\ x \in DelFlows(T, TableFib, match) <=> x \in T
                  /\ x \in DelFlows(T, TableRib, match) <=> x \in T
  BY <1>1, TablesApart, TableFacts
<1>11. QED
  BY <1>7, <1>8, <1>9, <1>10

\* The same for an event about an address.
LEMMA AddrHandled ==
    ASSUME TypeInv, NEW e \in Event("addr"), On("addr", e), ~faulted',
           UNCHANGED <<links, shared, moved>>,
           NEW T \in SUBSET Local, NEW U \in SUBSET Local,
           Single("addr", T), Single("addr", U),
           Changes("addr", T, e, U), Represents("addr", T)
    PROVE  Represents("addr", U)'
<1> DEFINE a == e.item
<1>1. a \in Local /\ a.ip \in Locals /\ e.op \in {"new", "del"}
  <2>1. a \in Local /\ e.op \in {"new", "del"}
    BY ItemsAre DEF Event
  <2>2. QED
    BY <2>1 DEF Local
<1>2. Remember(a.dev) /\ (Known(a.dev)' <=> ~Ignored(a.dev))
  BY OnFacts, IgnoredIsUnknown
<1>3. \/ e.op = "del" /\ a \in T /\ U = T \ {a}
      \/ e.op = "new" /\ U = T \cup {a}
  BY DEF Changes
<1>4. Seen("addr", U)'
  BY <1>2, <1>3 DEF Represents, Seen, Remember
<1>5. \A x \in T : Known(x.dev) <=> Known(x.dev)'
  BY <1>2 DEF Represents, Seen, Remember, Known
<1>6. \/ Ignored(a.dev) /\ flows' = flows
      \/ ~Ignored(a.dev) /\ e.op = "new" /\ flows' = AddFlow(flows, LocalFlow(a.ip))
      \/ ~Ignored(a.dev) /\ e.op = "del"
           /\ flows' = DelFlows(flows, TableNat, LocalMatch(a.ip))
  <2>1. \/ Ignored(a.dev) /\ flows' = flows
        \/ ~Ignored(a.dev) /\ OnAddress(e)
    BY OnFacts
  <2>2. CASE e.op = "new"
    BY <2>1, <2>2 DEF OnAddress, Program, Fault
  <2>3. CASE e.op = "del"
    <3>1. e.op # "new"
      BY <2>3
    <3>2. QED
      BY <2>1, <2>3, <3>1 DEF OnAddress, Program, Fault
  <2>4. QED
    BY <1>1, <2>2, <2>3
<1>7. ASSUME NEW k \in Locals, k \notin shared PROVE AddrShown(k, U)'
  <2>1. LocalFlow(k) \in flows <=> \E x \in Mine("addr", k, T) : Known(x.dev)
    BY <1>7, ByName DEF Represents, AddrShown
  <2>2. CASE k # a.ip
    <3>1. Mine("addr", k, U) = Mine("addr", k, T)
      BY <1>3, <2>2 DEF Mine, Key
    <3>2. LocalFlow(k) \in flows' <=> LocalFlow(k) \in flows
      BY <1>6, <2>2, AddrCommands
    <3>3. QED
      BY <1>5, <2>1, <3>1, <3>2 DEF AddrShown, Mine
  <2>3. CASE k = a.ip /\ e.op = "del"
    <3>1. Mine("addr", k, U) = {} /\ Mine("addr", k, T) = {a}
      BY <1>3, <1>7, <2>3 DEF Single, Mine, Key
    <3>2. Ignored(a.dev) => LocalFlow(k) \notin flows
      BY <1>2, <1>3, <1>5, <2>1, <2>3, <3>1
    <3>3. LocalFlow(k) \notin flows'
      BY <1>6, <2>3, <3>2, AddrCommands
    <3>4. QED
      BY <3>1, <3>3 DEF AddrShown, Mine
  <2>4. CASE k = a.ip /\ e.op = "new"
    <3>1. Mine("addr", k, U) = {a} /\ Mine("addr", k, T) \subseteq {a}
      BY <1>3, <1>7, <2>4 DEF Single, Mine, Key
    <3>2. Ignored(a.dev) => LocalFlow(k) \notin flows
      BY <1>2, <1>5, <2>1, <3>1 DEF Mine
    <3>3. LocalFlow(k) \in flows' <=> ~Ignored(a.dev)
      BY <1>6, <2>4, <3>2, AddrCommands
    <3>4. QED
      BY <1>2, <3>1, <3>3 DEF AddrShown, Mine
  <2>5. QED
    BY <1>1, <2>2, <2>3, <2>4
<1>8. QED
  BY <1>4, <1>7 DEF Represents, Keys, Excepted, Shown

\* Whichever watcher it is.
LEMMA Handled ==
    ASSUME TypeInv, NEW w \in WatcherIds, NEW e \in Event(w), On(w, e), ~faulted',
           UNCHANGED <<links, shared, moved>>,
           NEW T \in SUBSET Items(w), NEW U \in SUBSET Items(w),
           Single(w, T), Single(w, U), Changes(w, T, e, U), Represents(w, T)
    PROVE  Represents(w, U)'
<1>1. CASE w = "neighbor"
  BY <1>1, HostHandled, ItemsAre
<1>2. CASE w = "route"
  BY <1>2, RouteHandled, ItemsAre
<1>3. CASE w = "addr"
  BY <1>3, AddrHandled, ItemsAre
<1>4. QED
  BY <1>1, <1>2, <1>3 DEF WatcherIds
\* A key without two entries at once has at most one.
LEMMA SingleTables == Doubled \subseteq shared => \A w \in WatcherIds : Single(w, Table(w))
BY DEF Doubled, Single, Table, Key, WatcherIds

\* What an empty listing represents: no entries but those of other tables.
Blank ==
    /\ flows = BaseFlows
    /\ forwardRoute = [p \in Prefixes |-> NoVal]
    /\ forwardHost = [h \in Hosts |-> NoVal]
\* They are what a new process has.
LEMMA BlankRepresents == Blank => \A w \in WatcherIds : Represents(w, {})
<1> SUFFICES ASSUME Blank, NEW w \in WatcherIds PROVE Represents(w, {})
  OBVIOUS
<1>1. \A a \in Locals : LocalFlow(a) \notin flows
  BY BaseTables, BaseIsNeither, LocalFlowIs DEF Blank, BaseFlows
<1>2. QED
  BY <1>1 DEF Blank, Represents, Seen, Keys, Shown, HostShown, RouteShown, AddrShown, Mine,
              WatcherIds

\* Nothing is listed, and everything represented, before the list is read.
LEMMA SyncInit == Init => SyncInv
<1> SUFFICES ASSUME Init PROVE SyncInv
  OBVIOUS
<1>1. KernelInv
  BY DEF Init, KernelInit, KernelInv, Table, Doubled, WatcherIds
<1>2. \A w \in WatcherIds : Represents(w, {})
  BY BlankRepresents DEF Blank, Init
<1>3. \A w \in WatcherIds : /\ stage[w] = "unstarted"
                            /\ listed[w] = {}
                            /\ queue[w] = <<>>
  BY DEF Init, KernelInit, FreshStage, FreshListed, FreshQueue
<1>4. QED
  BY <1>1, <1>2, <1>3 DEF SyncInv, WatcherInv
\* A step that does not concern a watcher leaves it where it has come to.
LEMMA Undisturbed ==
    ASSUME NEW w \in WatcherIds, WatcherInv(w), Spares(w), Table(w)' = Table(w),
           stage'[w] = stage[w], listed'[w] = listed[w], queue'[w] = queue[w],
           lost \subseteq lost', faulted => faulted'
    PROVE  WatcherInv(w)'
<1> SUFFICES ASSUME w \notin lost', ~faulted' PROVE WatcherInv(w)'
  BY DEF WatcherInv
<1>1. \A T : Represents(w, T) => Represents(w, T)'
  BY RepresentsStays
<1>2. stage[w] = "unstarted" => Represents(w, {})'
  BY <1>1 DEF WatcherInv
<1>3. Snapshot(w)' = Snapshot(w)
  BY DEF Snapshot, Table, WatcherIds
<1>4. stage[w] = "listing" => Represents(w, {x \in Table(w) : New(x) \notin listed[w]})'
  <2> DEFINE T == {x \in Table(w) : New(x) \notin listed[w]}
  <2>1. SUFFICES ASSUME stage[w] = "listing" PROVE Represents(w, T)'
    OBVIOUS
  <2>2. PICK S : S = T
    OBVIOUS
  <2>3. Represents(w, S)
    BY <2>1, <2>2 DEF WatcherInv
  <2>4. Represents(w, S)'
    BY <1>1, <2>3
  <2>5. T' = S
    BY <2>2
  <2>6. QED
    BY <2>4, <2>5
<1>5. stage[w] = "spawned" => Represents(w, Table(w))'
  <2>1. SUFFICES ASSUME stage[w] = "spawned" PROVE Represents(w, Table(w))'
    OBVIOUS
  <2>2. PICK S : S = Table(w)
    OBVIOUS
  <2>3. Represents(w, S)'
    BY <1>1, <2>1, <2>2 DEF WatcherInv
  <2>4. QED
    BY <2>2, <2>3
<1>6. stage[w] = "watching" => Lags(w)'
  <2>1. SUFFICES ASSUME stage[w] = "watching" PROVE Lags(w)'
    OBVIOUS
  <2>2. PICK t : Traces(w, queue[w], t) /\ Represents(w, t[0])
    BY <2>1 DEF WatcherInv, Lags
  <2>3. Traces(w, queue[w], t)'
    BY <2>2, ChangesStay DEF Traces
  <2>4. Represents(w, t[0])'
    BY <1>1, <2>2
  <2>5. QED
    BY <2>3, <2>4 DEF Lags
<1>7. QED
  BY <1>2, <1>3, <1>4, <1>5, <1>6 DEF WatcherInv
\* Handling an event of one watcher does not concern another one.
LEMMA HandlerSpares ==
    ASSUME NEW v \in WatcherIds, NEW w \in WatcherIds, v # w, NEW e, On(v, e), ~faulted',
           UNCHANGED <<links, shared, moved>>
    PROVE  Spares(w)
<1>1. linkAttrs \subseteq linkAttrs' /\ linkAttrs' \subseteq linkAttrs \cup links
  BY OnFacts DEF Remember
<1>2. CASE UNCHANGED <<flows, forward>>
  BY <1>1, <1>2 DEF Spares, forward
<1>3. CASE v = "neighbor" /\ OnNeighbor(e)
  <2>1. forwardRoute' = forwardRoute
    BY <1>3 DEF OnNeighbor
  <2>2. \/ flows' = flows
        \/ flows' = AddFlow(flows, HostFlow(e.item.ip, e.item.mac, e.item.dev))
        \/ flows' = DelFlows(flows, TableFib, HostMatch(e.item.ip))
    BY <1>3 DEF OnNeighbor, Program
  <2>3. \A a : LocalFlow(a) \in flows' <=> LocalFlow(a) \in flows
    BY <2>2, AddrCommands
  <2>4. QED
    BY <1>1, <1>3, <2>1, <2>3 DEF Spares
<1>4. CASE v = "route" /\ OnRoute(e)
  <2>1. forwardHost' = forwardHost
    BY <1>4 DEF OnRoute
  <2>2. \/ flows' = flows
        \/ flows' = AddFlow(flows, RouteFlow(e.item.dst, e.item.gw))
        \/ flows' = DelFlows(flows, TableRib, RouteMatch(e.item.dst))
    BY <1>4 DEF OnRoute, Program
  <2>3. \A a : LocalFlow(a) \in flows' <=> LocalFlow(a) \in flows
    BY <2>2, AddrCommands
  <2>4. QED
    BY <1>1, <1>4, <2>1, <2>3 DEF Spares
<1>5. CASE v = "addr" /\ OnAddress(e)
  BY <1>1, <1>5 DEF Spares, OnAddress, forward, WatcherIds
<1>6. QED
  BY <1>2, <1>3, <1>4, <1>5, OnFacts

\* The list is read: nothing is represented but what it does not tell.
LEMMA ListSync ==
    ASSUME TypeInv, NEW w \in WatcherIds, WatcherInv(w), List(w),
           UNCHANGED <<kernel, gateway, past>>
    PROVE  WatcherInv(w)'
<1> SUFFICES ASSUME w \notin lost, ~faulted PROVE WatcherInv(w)'
  BY DEF WatcherInv, past
<1> DEFINE T == {x \in Table(w) : New(x) \notin Snapshot(w)}
<1>1. stage'[w] = "listing" /\ listed'[w] = Snapshot(w) /\ queue'[w] = <<>>
  BY DEF List, WatcherInv, TypeInv, TypeOK, KernelTypeOK, EventsOK
<1>2. Represents(w, {})
  BY DEF List, WatcherInv, past
<1>3. \A x \in T : w = "route" /\ ~x.main
  BY DEF Snapshot, Table, WatcherIds
<1>4. Represents(w, T)
  <2>1. Seen(w, T)
    BY <1>3 DEF Seen
  <2>2. ASSUME NEW k \in Keys(w) \ Excepted(w) PROVE Shown(w, k, T)
    <3>1. Shown(w, k, {})
      BY <1>2, <2>2 DEF Represents
    <3>2. CASE w = "route"
      <4>1. forwardRoute[k] = NoVal
        BY <3>1, <3>2 DEF Shown, RouteShown, Mine
      <4>2. QED
        BY <1>3, <3>2, <4>1 DEF Shown, RouteShown, Mine
    <3>3. CASE w # "route"
      <4>1. T = {}
        BY <1>3, <3>3
      <4>2. QED
        BY <3>1, <4>1
    <3>4. QED
      BY <3>2, <3>3
  <2>3. QED
    BY <2>1, <2>2 DEF Represents
<1>5. Spares(w)
  BY DEF Spares, kernel, gateway, past, forward
<1>6. Snapshot(w)' = Snapshot(w) /\ Table(w)' = Table(w)
  BY DEF kernel, Snapshot, Table
<1>7. Represents(w, {x \in Table(w) : New(x) \notin listed[w]})'
  <2>1. PICK S : S = T
    OBVIOUS
  <2>2. Represents(w, S)'
    BY <1>4, <1>5, <2>1, RepresentsStays
  <2>3. {x \in Table(w)' : New(x) \notin listed'[w]} = S
    BY <1>1, <1>6, <2>1
  <2>4. QED
    BY <2>2, <2>3
<1>8. QED
  BY <1>1, <1>6, <1>7 DEF WatcherInv

\* The list is handled: the table is represented.
LEMMA SpawnSync ==
    ASSUME TypeInv, NEW w \in WatcherIds, WatcherInv(w), Spawn(w),
           UNCHANGED <<kernel, gateway, past>>
    PROVE  WatcherInv(w)'
<1> SUFFICES ASSUME w \notin lost, ~faulted PROVE WatcherInv(w)'
  BY DEF WatcherInv, past
<1>1. stage'[w] = "spawned" /\ listed'[w] = {} /\ queue'[w] = <<>>
  BY DEF Spawn, WatcherInv, TypeInv, TypeOK, KernelTypeOK, EventsOK
<1>2. PICK S : S = Table(w)
  OBVIOUS
<1>3. Represents(w, S)
  BY <1>2 DEF Spawn, WatcherInv
<1>4. Spares(w) /\ Table(w)' = Table(w)
  BY DEF Spares, Table, kernel, gateway, past, forward
<1>5. Represents(w, S)'
  BY <1>3, <1>4, RepresentsStays
<1>6. Represents(w, Table(w))'
  BY <1>2, <1>4, <1>5
<1>7. QED
  BY <1>1, <1>6 DEF WatcherInv

\* What a watcher's table may hold.
LEMMA TableTyped == TypeInv => \A w \in WatcherIds : Table(w) \in SUBSET Items(w)
BY DEF TypeInv, TypeOK, KernelTypeOK, Table, Items, WatcherIds

\* The subscription starts with an empty socket.
LEMMA SubscribeSync ==
    ASSUME TypeInv, KernelInv, NEW w \in WatcherIds, WatcherInv(w), Subscribe(w),
           UNCHANGED <<kernel, gateway, past>>
    PROVE  WatcherInv(w)'
<1> SUFFICES ASSUME w \notin lost, ~faulted PROVE WatcherInv(w)'
  BY DEF WatcherInv, past
<1>1. stage'[w] = "watching" /\ listed'[w] = {} /\ queue'[w] = <<>>
  BY DEF Subscribe, WatcherInv, TypeInv, TypeOK, KernelTypeOK, EventsOK
<1>2. PICK S : S = Table(w)
  OBVIOUS
<1>3. Represents(w, S)
  BY <1>2 DEF Subscribe, WatcherInv
<1>4. Spares(w) /\ Table(w)' = Table(w)
  BY DEF Spares, Table, kernel, gateway, past, forward
<1>5. Represents(w, S)'
  BY <1>3, <1>4, RepresentsStays
<1>6. PICK t : t = [i \in 0..0 |-> S]
  OBVIOUS
<1>7. Traces(w, <<>>, t)'
  <2>1. S \in SUBSET Items(w)
    BY <1>2, TableTyped
  <2>2. Single(w, S)'
    BY <1>2, <1>4, SingleTables, ChangesStay DEF KernelInv
  <2>3. Len(<<>>) = 0
    OBVIOUS
  <2>4. t \in [0..0 -> SUBSET Items(w)] /\ t[0] = S
    BY <1>6, <2>1
  <2>5. QED
    BY <1>2, <1>4, <2>2, <2>3, <2>4 DEF Traces
<1>8. Lags(w)'
  BY <1>1, <1>5, <1>6, <1>7 DEF Lags
<1>9. QED
  BY <1>1, <1>8 DEF WatcherInv
\* An entry of the list is handled: it is represented too.
LEMMA ListedSync ==
    ASSUME TypeInv, KernelInv, NEW w \in WatcherIds, WatcherInv(w),
           NEW e \in listed[w], TakeListed(w, e), On(w, e), ~faulted',
           UNCHANGED <<kernel, shared, moved, lost>>
    PROVE  WatcherInv(w)'
<1>1. ~faulted
  BY DEF On, NoFault, Fault, OnNeighbor, OnRoute, OnAddress, Program
<1> SUFFICES ASSUME w \notin lost PROVE WatcherInv(w)'
  BY DEF WatcherInv
<1>2. /\ stage'[w] = "listing" /\ queue'[w] = <<>>
      /\ listed'[w] = listed[w] \ {e} /\ listed[w] \subseteq Snapshot(w)
  BY <1>1 DEF TakeListed, WatcherInv, TypeInv, TypeOK, KernelTypeOK, EventsOK
<1>3. PICK T : T = {x \in Table(w) : New(x) \notin listed[w]}
  OBVIOUS
<1>4. PICK U : U = {x \in Table(w) : New(x) \notin listed[w] \ {e}}
  OBVIOUS
<1>5. Represents(w, T)
  BY <1>1, <1>3 DEF TakeListed, WatcherInv
<1>6. e \in Event(w) /\ e.item \in Table(w) /\ e = New(e.item) /\ e.op = "new"
  <2>1. e \in Event(w)
    BY DEF TypeInv, EventsOK
  <2>2. PICK x \in Table(w) : e = New(x)
    BY <1>2 DEF Snapshot, Table, WatcherIds
  <2>3. QED
    BY <2>1, <2>2 DEF New
<1>7. \A x : New(x) = e <=> x = e.item
  BY <1>6 DEF New
<1>8. U = T \cup {e.item} /\ e.item \notin T
  <2>1. \A x : x \in U <=> x \in T \/ x = e.item
    BY <1>3, <1>4, <1>6, <1>7
  <2>2. U = T \cup {e.item}
    BY <2>1
  <2>3. QED
    BY <1>3, <1>6, <2>2
<1>9. Changes(w, T, e, U)
  <2>1. CASE w = "neighbor"
    <3>1. \A x \in T : ~(x.ip = e.item.ip /\ x.dev = e.item.dev)
      BY <1>3, <1>6, <1>8, <2>1 DEF KernelInv, Table
    <3>2. T = {x \in T : ~(x.ip = e.item.ip /\ x.dev = e.item.dev)}
      BY <3>1
    <3>3. QED
      BY <1>6, <1>8, <2>1, <3>2 DEF Changes
  <2>2. CASE w # "neighbor"
    BY <1>6, <1>8, <2>2 DEF Changes
  <2>3. QED
    BY <2>1, <2>2
<1>10. T \in SUBSET Items(w) /\ U \in SUBSET Items(w)
  BY <1>3, <1>4, TableTyped
<1>11. Single(w, T) /\ Single(w, U)
  <2>1. Single(w, Table(w))
    BY SingleTables DEF KernelInv
  <2>2. QED
    BY <1>3, <1>4, <2>1 DEF Single
<1>12. Represents(w, U)'
  BY <1>5, <1>6, <1>9, <1>10, <1>11, Handled DEF kernel
<1>13. Table(w)' = Table(w) /\ Snapshot(w)' = Snapshot(w)
  BY DEF kernel, Table, Snapshot
<1>14. Represents(w, {x \in Table(w) : New(x) \notin listed[w]})'
  BY <1>2, <1>4, <1>12, <1>13
<1>15. QED
  BY <1>2, <1>13, <1>14 DEF WatcherInv

\* An update of the socket is handled: the listing is one change further.
LEMMA QueuedSync ==
    ASSUME TypeInv, NEW w \in WatcherIds, WatcherInv(w), queue[w] # <<>>,
           TakeQueued(w, Head(queue[w])), On(w, Head(queue[w])), ~faulted',
           UNCHANGED <<kernel, shared, moved, lost>>
    PROVE  WatcherInv(w)'
<1>q. PICK q : q = queue[w]
  OBVIOUS
<1>e. PICK e : e = Head(q)
  OBVIOUS
<1>1. ~faulted
  BY DEF On, NoFault, Fault, OnNeighbor, OnRoute, OnAddress, Program
<1> SUFFICES ASSUME w \notin lost PROVE WatcherInv(w)'
  BY DEF WatcherInv
<1>2. /\ stage'[w] = "watching" /\ queue'[w] = Tail(q) /\ listed'[w] = {}
  BY <1>q, <1>1 DEF TakeQueued, WatcherInv, TypeInv, TypeOK, KernelTypeOK, EventsOK
<1>3. PICK t : Traces(w, q, t) /\ Represents(w, t[0])
  BY <1>q, <1>1 DEF TakeQueued, WatcherInv, Lags
<1>4. q \in Seq(Event(w)) /\ q # <<>>
  BY <1>q DEF TypeInv, EventsOK
<1>5. /\ e \in Event(w) /\ e = q[1] /\ Len(q) \in Nat /\ Len(q) >= 1
      /\ Tail(q) \in Seq(Event(w)) /\ Len(Tail(q)) = Len(q) - 1
      /\ \A i \in 1..Len(q) - 1 : Tail(q)[i] = q[i + 1]
  BY <1>e, <1>4
<1> DEFINE n == Len(q)
<1> HIDE DEF n
<1>6. PICK u : u = [i \in 0..n - 1 |-> t[i + 1]]
  OBVIOUS
<1>7. Represents(w, t[1])'
  <2>1. t[0] \in SUBSET Items(w) /\ t[1] \in SUBSET Items(w)
    BY <1>3, <1>5 DEF Traces
  <2>2. Single(w, t[0]) /\ Single(w, t[1]) /\ Changes(w, t[0], e, t[1])
    <3>1. 0 \in 0..Len(q) /\ 1 \in 1..Len(q) /\ 1 \in 0..Len(q) /\ 1 - 1 = 0
      BY <1>5
    <3>2. QED
      BY <1>3, <1>5, <3>1 DEF Traces
  <2>3. On(w, e) /\ UNCHANGED <<links, shared, moved>>
    BY <1>q, <1>e DEF kernel
  <2>4. QED
    BY <1>3, <1>5, <2>1, <2>2, <2>3, Handled
<1>8. Traces(w, Tail(q), u)'
  <2>1. u \in [0..Len(Tail(q)) -> SUBSET Items(w)]
    BY <1>3, <1>5, <1>6 DEF Traces, n
  <2>2. u[Len(Tail(q))] = t[Len(q)] /\ Table(w)' = Table(w)
    BY <1>5, <1>6 DEF n, kernel, Table
  <2>3. \A i \in 0..Len(Tail(q)) : Single(w, u[i])'
    <3>1. \A i \in 0..Len(Tail(q)) : i + 1 \in 0..Len(q) /\ u[i] = t[i + 1]
      BY <1>5, <1>6 DEF n
    <3>2. \A T : Single(w, T) => Single(w, T)'
      BY DEF Single, Key
    <3>3. QED
      BY <1>3, <3>1, <3>2 DEF Traces
  <2>4. \A i \in 1..Len(Tail(q)) : Changes(w, u[i - 1], Tail(q)[i], u[i])'
    <3>1. SUFFICES ASSUME NEW i \in 1..Len(Tail(q))
                   PROVE  Changes(w, u[i - 1], Tail(q)[i], u[i])'
      OBVIOUS
    <3>2. /\ i + 1 \in 1..Len(q) /\ (i + 1) - 1 = i
          /\ u[i - 1] = t[i] /\ u[i] = t[i + 1] /\ Tail(q)[i] = q[i + 1]
      BY <1>5, <1>6 DEF n
    <3>3. Changes(w, t[i], q[i + 1], t[i + 1])
      BY <1>3, <3>2 DEF Traces
    <3>4. \A d : Known(d) => Known(d)'
      BY <1>q, <1>e, OnFacts DEF Known, Remember
    <3>5. PICK T, f, U : T = t[i] /\ f = q[i + 1] /\ U = t[i + 1]
      OBVIOUS
    <3>6. Changes(w, T, f, U)'
      BY <3>3, <3>4, <3>5 DEF Changes, Replaces
    <3>7. QED
      BY <3>2, <3>5, <3>6
  <2>5. QED
    BY <1>3, <2>1, <2>2, <2>3, <2>4 DEF Traces
<1>9. u[0] = t[1]
  BY <1>5, <1>6 DEF n
<1>10. Lags(w)'
  BY <1>2, <1>7, <1>8, <1>9 DEF Lags
<1>11. QED
  BY <1>2, <1>10 DEF WatcherInv
\* One entry of the kernel changes: table T of watcher w becomes U, and w is
\* told, if it can be.
Told(w, e, T, U) ==
    /\ e \in Event(w) /\ Publish(w, e)
    /\ T = Table(w) /\ U = Table(w)' /\ T # U
    /\ Changes(w, T, e, U)'
    /\ U \subseteq T \cup {e.item}
    /\ e.op = "new" => e.item.dev \in links
    /\ w = "neighbor" => \A x, y \in U : x.ip = y.ip /\ x.dev = y.dev => x = y
    /\ \A v \in WatcherIds \ {w} : Table(v)' = Table(v)
    /\ links' = links

\* Only one table of the kernel changes.
LEMMA OtherTables ==
    /\ UNCHANGED <<routes, locals>>
         => \A v \in WatcherIds \ {"neighbor"} : Table(v)' = Table(v)
    /\ UNCHANGED <<neighs, locals>> => \A v \in WatcherIds \ {"route"} : Table(v)' = Table(v)
    /\ UNCHANGED <<neighs, routes>> => \A v \in WatcherIds \ {"addr"} : Table(v)' = Table(v)
BY DEF Table, WatcherIds

\* What an event says.
LEMMA EventIs ==
    ASSUME NEW w \in WatcherIds, NEW x \in Items(w)
    PROVE  /\ New(x) \in Event(w) /\ New(x).op = "new" /\ New(x).item = x
           /\ Del(x) \in Event(w) /\ Del(x).op = "del" /\ Del(x).item = x
BY DEF Event, New, Del

\* A neighbour entry appears, changes or goes.
LEMMA NeighTold ==
    ASSUME KernelInv, NEW n \in Neigh, SetNeigh(n) \/ DropNeigh(n)
    PROVE  \E e, T, U : Told("neighbor", e, T, U)
<1>1. PICK T : T = neighs
  OBVIOUS
<1>2. PICK U : U = neighs'
  OBVIOUS
<1>3. /\ New(n) \in Event("neighbor") /\ New(n).op = "new" /\ New(n).item = n
      /\ Del(n) \in Event("neighbor") /\ Del(n).op = "del" /\ Del(n).item = n
  BY EventIs, ItemsAre DEF WatcherIds
<1>4. T = Table("neighbor") /\ U = Table("neighbor")'
  BY <1>1, <1>2 DEF Table
<1>5. /\ \A v \in WatcherIds \ {"neighbor"} : Table(v)' = Table(v)
      /\ links' = links
  BY OtherTables DEF SetNeigh, DropNeigh
<1>6. \A x, y \in T : x.ip = y.ip /\ x.dev = y.dev => x = y
  BY <1>1 DEF KernelInv
<1>7. CASE SetNeigh(n)
  <2>1. /\ U = {x \in T : ~(x.ip = n.ip /\ x.dev = n.dev)} \cup {n}
        /\ n \notin T /\ n.dev \in links /\ Publish("neighbor", New(n))
    BY <1>1, <1>2, <1>7 DEF SetNeigh
  <2>2. Changes("neighbor", T, New(n), U)'
    BY <1>3, <2>1 DEF Changes
  <2>3. Told("neighbor", New(n), T, U)
    BY <1>3, <1>4, <1>5, <1>6, <2>1, <2>2 DEF Told
  <2>4. QED
    BY <2>3
<1>8. CASE DropNeigh(n)
  <2>1. U = T \ {n} /\ n \in T /\ Publish("neighbor", Del(n))
    BY <1>1, <1>2, <1>8 DEF DropNeigh
  <2>2. Changes("neighbor", T, Del(n), U)'
    BY <1>3, <2>1 DEF Changes
  <2>3. Told("neighbor", Del(n), T, U)
    BY <1>3, <1>4, <1>5, <1>6, <2>1, <2>2 DEF Told
  <2>4. QED
    BY <2>3
<1>9. QED
  BY <1>7, <1>8

\* A route is added, replaced or deleted.  A prefix whose route was replaced is
\* not among the moved ones only if the new one stays where it was known.
LEMMA RouteTold ==
    ASSUME KernelStep, NEW r \in Route, AddKernelRoute(r) \/ ReplaceRoute(r) \/ DropRoute(r)
    PROVE  \E e, T, U : Told("route", e, T, U)
<1>1. PICK T : T = routes
  OBVIOUS
<1>2. PICK U : U = routes'
  OBVIOUS
<1>3. /\ New(r) \in Event("route") /\ New(r).op = "new" /\ New(r).item = r
      /\ Del(r) \in Event("route") /\ Del(r).op = "del" /\ Del(r).item = r
  BY EventIs, ItemsAre DEF WatcherIds
<1>4. T = Table("route") /\ U = Table("route")'
  BY <1>1, <1>2 DEF Table
<1>5. /\ \A v \in WatcherIds \ {"route"} : Table(v)' = Table(v)
      /\ links' = links
  BY OtherTables DEF AddKernelRoute, ReplaceRoute, DropRoute
<1>6. CASE AddKernelRoute(r)
  <2>1. U = T \cup {r} /\ r \notin T /\ r.dev \in links /\ Publish("route", New(r))
    BY <1>1, <1>2, <1>6 DEF AddKernelRoute
  <2>2. Changes("route", T, New(r), U)'
    BY <1>3, <2>1 DEF Changes
  <2>3. Told("route", New(r), T, U)
    BY <1>3, <1>4, <1>5, <2>1, <2>2 DEF Told
  <2>4. QED
    BY <2>3
<1>7. CASE ReplaceRoute(r)
  <2>1. PICK old \in T : old.dst = r.dst /\ old.main = r.main /\ U = (T \ {old}) \cup {r}
    BY <1>1, <1>2, <1>7 DEF ReplaceRoute
  <2>2. r \notin T /\ r.dev \in links /\ Publish("route", New(r))
    BY <1>1, <1>7 DEF ReplaceRoute
  <2>3. r.dst \notin moved' /\ old.dev \in VlanDevs => r.dev = old.dev \/ Known(r.dev)'
    <3>1. SUFFICES ASSUME old.dev \in VlanDevs, r.dev # old.dev, ~Known(r.dev)'
                   PROVE  r.dst \in moved'
      OBVIOUS
    <3>2. r.dev \notin VlanDevs \cap linkAttrs
      BY <3>1 DEF Known, KernelStep, gateway
    <3>3. old \in routes \ routes' /\ r \in routes' \ routes
      BY <1>1, <1>2, <2>1, <2>2
    <3>4. r.dst \in MovedOff
      BY <2>1, <3>1, <3>2, <3>3 DEF MovedOff
    <3>5. QED
      BY <3>4 DEF KernelStep
  <2>4. Replaces(T, r, U)'
    BY <2>1, <2>3 DEF Replaces
  <2>5. Changes("route", T, New(r), U)'
    BY <1>3, <2>4 DEF Changes
  <2>6. Told("route", New(r), T, U)
    BY <1>3, <1>4, <1>5, <2>1, <2>2, <2>5 DEF Told
  <2>7. QED
    BY <2>6
<1>8. CASE DropRoute(r)
  <2>1. U = T \ {r} /\ r \in T /\ Publish("route", Del(r))
    BY <1>1, <1>2, <1>8 DEF DropRoute
  <2>2. Changes("route", T, Del(r), U)'
    BY <1>3, <2>1 DEF Changes
  <2>3. Told("route", Del(r), T, U)
    BY <1>3, <1>4, <1>5, <2>1, <2>2 DEF Told
  <2>4. QED
    BY <2>3
<1>9. QED
  BY <1>6, <1>7, <1>8

\* An address is added or deleted.
LEMMA AddrTold ==
    ASSUME NEW a \in Local, AddKernelAddr(a) \/ DropKernelAddr(a)
    PROVE  \E e, T, U : Told("addr", e, T, U)
<1>1. PICK T : T = locals
  OBVIOUS
<1>2. PICK U : U = locals'
  OBVIOUS
<1>3. /\ New(a) \in Event("addr") /\ New(a).op = "new" /\ New(a).item = a
      /\ Del(a) \in Event("addr") /\ Del(a).op = "del" /\ Del(a).item = a
  BY EventIs, ItemsAre DEF WatcherIds
<1>4. T = Table("addr") /\ U = Table("addr")'
  BY <1>1, <1>2 DEF Table
<1>5. /\ \A v \in WatcherIds \ {"addr"} : Table(v)' = Table(v)
      /\ links' = links
  BY OtherTables DEF AddKernelAddr, DropKernelAddr
<1>6. CASE AddKernelAddr(a)
  <2>1. U = T \cup {a} /\ a \notin T /\ a.dev \in links /\ Publish("addr", New(a))
    BY <1>1, <1>2, <1>6 DEF AddKernelAddr
  <2>2. Changes("addr", T, New(a), U)'
    BY <1>3, <2>1 DEF Changes
  <2>3. Told("addr", New(a), T, U)
    BY <1>3, <1>4, <1>5, <2>1, <2>2 DEF Told
  <2>4. QED
    BY <2>3
<1>7. CASE DropKernelAddr(a)
  <2>1. U = T \ {a} /\ a \in T /\ Publish("addr", Del(a))
    BY <1>1, <1>2, <1>7 DEF DropKernelAddr
  <2>2. Changes("addr", T, Del(a), U)'
    BY <1>3, <2>1 DEF Changes
  <2>3. Told("addr", Del(a), T, U)
    BY <1>3, <1>4, <1>5, <2>1, <2>2 DEF Told
  <2>4. QED
    BY <2>3
<1>8. QED
  BY <1>6, <1>7

\* A change of the kernel is a change of one entry, or an interface goes down
\* or away.
LEMMA KernelTells ==
    ASSUME KernelInv, KernelStep
    PROVE  \/ \E w \in WatcherIds : \E e, T, U : Told(w, e, T, U)
           \/ \E d \in Devs : LinkDown(d) \/ DropLink(d)
<1>1. /\ "neighbor" \in WatcherIds
      /\ "route" \in WatcherIds
      /\ "addr" \in WatcherIds
  BY DEF WatcherIds
<1>2. CASE \E n \in Neigh : SetNeigh(n) \/ DropNeigh(n)
  BY <1>1, <1>2, NeighTold
<1>3. CASE \E r \in Route : AddKernelRoute(r) \/ ReplaceRoute(r) \/ DropRoute(r)
  BY <1>1, <1>3, RouteTold
<1>4. CASE \E a \in Local : AddKernelAddr(a) \/ DropKernelAddr(a)
  BY <1>1, <1>4, AddrTold
<1>5. QED
  BY <1>2, <1>3, <1>4 DEF KernelStep, KernelChange
\* The kernel keeps its entries on interfaces there are, and one per neighbour.
LEMMA KernelKeeps ==
    ASSUME TypeInv, KernelInv, KernelStep
    PROVE  KernelInv'
<1>1. Doubled' \subseteq shared'
  BY DEF KernelStep
<1>2. CASE \E d \in Devs : DropLink(d)
  <2>1. /\ \A x \in neighs \cup routes \cup locals : x.dev \in links'
        /\ UNCHANGED <<neighs, routes, locals>>
    BY <1>2 DEF DropLink, KernelInv, Table, WatcherIds
  <2>2. \A w \in WatcherIds : Table(w)' = Table(w)
    BY <2>1 DEF Table
  <2>3. \A w \in WatcherIds : \A x \in Table(w)' : x.dev \in links'
    BY <2>1, <2>2 DEF Table, WatcherIds
  <2>4. QED
    BY <1>1, <2>1, <2>3 DEF KernelInv
<1>3. ASSUME NEW w \in WatcherIds, NEW e, NEW T, NEW U, Told(w, e, T, U) PROVE KernelInv'
  <2>1. \A v \in WatcherIds : \A x \in Table(v)' : x.dev \in links'
    <3>1. SUFFICES ASSUME NEW v \in WatcherIds, NEW x \in Table(v)' PROVE x.dev \in links
      BY <1>3 DEF Told
    <3>2. CASE v # w
      BY <1>3, <3>1, <3>2 DEF Told, KernelInv
    <3>3. CASE v = w /\ x \in T
      BY <1>3, <3>3 DEF Told, KernelInv
    <3>4. CASE v = w /\ x \notin T
      <4>1. x = e.item /\ x \in U
        BY <1>3, <3>1, <3>4 DEF Told
      <4>2. e.op = "new"
        BY <1>3, <3>4, <4>1 DEF Told, Changes
      <4>3. QED
        BY <1>3, <4>1, <4>2 DEF Told
    <3>5. QED
      BY <3>2, <3>3, <3>4
  <2>2. \A x, y \in neighs' : x.ip = y.ip /\ x.dev = y.dev => x = y
    <3>1. CASE w = "neighbor"
      BY <1>3, <3>1 DEF Told, Table
    <3>2. CASE w # "neighbor"
      <4>1. Table("neighbor")' = Table("neighbor")
        BY <1>3, <3>2 DEF Told, WatcherIds
      <4>2. QED
        BY <4>1 DEF KernelInv, Table
    <3>3. QED
      BY <3>1, <3>2
  <2>3. QED
    BY <1>1, <2>1, <2>2 DEF KernelInv
<1>4. CASE \E d \in Devs : LinkDown(d)
  <2>1. routes' \subseteq routes /\ UNCHANGED <<links, neighs, locals>>
    BY <1>4 DEF LinkDown
  <2>2. \A w \in WatcherIds : Table(w)' \subseteq Table(w)
    BY <2>1 DEF Table
  <2>3. \A w \in WatcherIds : \A x \in Table(w)' : x.dev \in links'
    BY <2>1, <2>2 DEF KernelInv
  <2>4. QED
    BY <1>1, <2>1, <2>3 DEF KernelInv
<1>5. QED
  BY <1>2, <1>3, <1>4, KernelTells

\* A change reaches its watcher's socket, or the watcher has missed it, or it
\* has not listed yet.  It concerns no other watcher.
LEMMA KernelSync ==
    ASSUME TypeInv, SyncInv, KernelStep, NEW v \in WatcherIds
    PROVE  WatcherInv(v)'
<1>1. /\ UNCHANGED <<gateway, faulted>> /\ lost' = lost \cup Missing
      /\ shared \subseteq shared' /\ moved \subseteq moved'
  BY DEF KernelStep
<1>2. KernelInv /\ WatcherInv(v)
  BY DEF SyncInv
<1>3. CASE \E d \in Devs : DropLink(d)
  <2>1. UNCHANGED <<neighs, routes, locals, watcher>> /\ links' \subseteq links
    BY <1>3 DEF DropLink
  <2>2. Spares(v) /\ Table(v)' = Table(v)
    BY <1>1, <2>1 DEF Spares, Table, gateway, forward
  <2>3. QED
    BY <1>1, <1>2, <2>1, <2>2, Undisturbed DEF watcher
<1>4. ASSUME NEW w \in WatcherIds, NEW e, NEW T, NEW U, Told(w, e, T, U) PROVE WatcherInv(v)'
  <2>1. links' = links /\ Publish(w, e) /\ e \in Event(w)
    BY <1>4 DEF Told
  <2>2. Spares(v)
    BY <1>1, <2>1 DEF Spares, gateway, forward
  <2>3. /\ stage \in [WatcherIds -> Stages] /\ DOMAIN queue = WatcherIds
        /\ queue[v] \in Seq(Event(v)) /\ Len(queue[v]) <= SocketLen
    BY DEF TypeInv, TypeOK, KernelTypeOK, EventsOK
  <2>4. CASE v # w
    <3>1. stage'[v] = stage[v] /\ listed'[v] = listed[v] /\ queue'[v] = queue[v]
      BY <2>1, <2>3, <2>4 DEF Publish
    <3>2. Table(v)' = Table(v)
      BY <1>4, <2>4 DEF Told
    <3>3. QED
      BY <1>1, <1>2, <2>2, <3>1, <3>2, Undisturbed
  <2>5. CASE v = w
    <3> SUFFICES ASSUME v \notin lost', ~faulted' PROVE WatcherInv(v)'
      BY DEF WatcherInv
    <3>1. v \notin lost /\ ~faulted /\ listed'[v] = listed[v]
      BY <1>1, <2>1 DEF Publish
    <3>2. Reaches(v) \/ stage[v] = "unstarted"
      <4>1. Table(v)' # Table(v)
        BY <1>4, <2>5 DEF Told
      <4>2. \/ v = "neighbor" /\ neighs' # neighs
            \/ v = "route"    /\ routes' # routes
            \/ v = "addr"     /\ locals' # locals
        BY <4>1 DEF Table, WatcherIds
      <4>3. QED
        BY <1>1, <3>1, <4>2 DEF Missing
    <3>3. CASE stage[v] = "unstarted"
      <4>1. stage'[v] = "unstarted" /\ queue'[v] = <<>> /\ listed'[v] = {}
        BY <1>2, <2>1, <2>5, <3>1, <3>3 DEF Publish, Reaches, WatcherInv
      <4>2. Represents(v, {})'
        BY <1>2, <2>2, <3>1, <3>3, RepresentsStays DEF WatcherInv
      <4>3. QED
        BY <4>1, <4>2 DEF WatcherInv
    <3>4. CASE Reaches(v)
      <4>1. PICK q : q = queue[v]
        OBVIOUS
      <4>2. stage'[v] = "watching" /\ queue'[v] = Append(q, e) /\ listed'[v] = {}
        BY <1>2, <2>1, <2>3, <2>5, <3>1, <3>4, <4>1, KernelAssumption
           DEF Publish, Reaches, WatcherInv
      <4>3. PICK t : Traces(v, q, t) /\ Represents(v, t[0])
        BY <1>2, <3>1, <3>4, <4>1 DEF Reaches, WatcherInv, Lags
      <4>4. /\ q \in Seq(Event(v)) /\ Len(q) \in Nat
            /\ Len(Append(q, e)) = Len(q) + 1 /\ Append(q, e)[Len(q) + 1] = e
            /\ \A i \in 1..Len(q) : Append(q, e)[i] = q[i]
        BY <2>1, <2>3, <2>5, <4>1
      <4> DEFINE n == Len(q)
      <4> HIDE DEF n
      <4>5. PICK u : u = [i \in 0..n + 1 |-> IF i = n + 1 THEN U ELSE t[i]]
        OBVIOUS
      <4>6. Traces(v, Append(q, e), u)'
        <5>1. U \in SUBSET Items(v) /\ U = Table(v)' /\ t[n] = T
          <6>1. T \in SUBSET Items(v) /\ e.item \in Items(v)
            BY <1>4, <2>1, <2>5, TableTyped, EventFacts DEF Told
          <6>2. QED
            BY <1>4, <2>5, <4>3, <6>1 DEF Told, Traces, n
        <5>2. u \in [0..n + 1 -> SUBSET Items(v)] /\ u[n + 1] = U
          BY <4>3, <4>4, <4>5, <5>1 DEF Traces, n
        <5>3. \A i \in 0..n + 1 : Single(v, u[i])'
          <6>1. Single(v, U)'
            <7>1. Doubled' \subseteq shared'
              BY DEF KernelStep
            <7>2. Single(v, Table(v))'
              BY <7>1 DEF Doubled, Single, Table, Key, WatcherIds
            <7>3. QED
              BY <5>1, <7>2
          <6>2. \A i \in 0..n : Single(v, t[i])'
            BY <2>2, <4>3, ChangesStay DEF Traces, n
          <6>3. ASSUME NEW i \in 0..n + 1 PROVE Single(v, u[i])'
            <7>1. CASE i = n + 1
              BY <5>2, <6>1, <7>1
            <7>2. CASE i # n + 1
              BY <4>4, <4>5, <6>2, <7>2 DEF n
            <7>3. QED
              BY <7>1, <7>2
          <6>4. QED
            BY <6>3
        <5>4. ASSUME NEW i \in 1..n + 1
              PROVE  Changes(v, u[i - 1], Append(q, e)[i], u[i])'
          <6>1. CASE i = n + 1
            <7>1. u[i - 1] = T /\ Append(q, e)[i] = e /\ u[i] = U
              BY <4>4, <4>5, <5>1, <6>1 DEF n
            <7>2. Changes(v, T, e, U)'
              BY <1>4, <2>5 DEF Told
            <7>3. QED
              BY <7>1, <7>2
          <6>2. CASE i # n + 1
            <7>1. i \in 1..n /\ u[i - 1] = t[i - 1] /\ Append(q, e)[i] = q[i] /\ u[i] = t[i]
              BY <4>4, <4>5, <6>2 DEF n
            <7>2. PICK S, f, V : S = t[i - 1] /\ f = q[i] /\ V = t[i]
              OBVIOUS
            <7>3. Changes(v, S, f, V)
              BY <4>3, <7>1, <7>2 DEF Traces, n
            <7>4. Changes(v, S, f, V)'
              BY <2>2, <7>3, ChangesStay
            <7>5. QED
              BY <7>1, <7>2, <7>4
          <6>3. QED
            BY <6>1, <6>2
        <5>5. QED
          BY <4>4, <5>1, <5>2, <5>3, <5>4 DEF Traces, n
      <4>7. Represents(v, u[0])'
        <5>1. u[0] = t[0]
          BY <4>4, <4>5 DEF n
        <5>2. Represents(v, t[0])'
          BY <2>2, <4>3, RepresentsStays
        <5>3. QED
          BY <5>1, <5>2
      <4>8. Lags(v)'
        BY <4>2, <4>6, <4>7 DEF Lags
      <4>9. QED
        BY <4>2, <4>8 DEF WatcherInv
    <3>5. QED
      BY <3>2, <3>3, <3>4
  <2>6. QED
    BY <2>4, <2>5
<1>5. CASE \E d \in Devs : LinkDown(d)
  <2>1. UNCHANGED <<links, neighs, locals, watcher>> /\ routes' # routes
    BY <1>5 DEF LinkDown
  <2>2. Spares(v)
    BY <1>1, <2>1 DEF Spares, gateway, forward
  <2>3. CASE v # "route"
    <3>1. Table(v)' = Table(v)
      BY <2>1, <2>3 DEF Table, WatcherIds
    <3>2. QED
      BY <1>1, <1>2, <2>1, <2>2, <3>1, Undisturbed DEF watcher
  <2>4. CASE v = "route"
    <3> SUFFICES ASSUME v \notin lost', ~faulted' PROVE WatcherInv(v)'
      BY DEF WatcherInv
    <3>1. v \notin lost /\ ~faulted
      BY <1>1
    <3>2. stage[v] = "unstarted"
      <4>1. v \notin Missing /\ queue'[v] = queue[v]
        BY <1>1, <2>1 DEF watcher
      <4>2. QED
        BY <2>1, <2>4, <4>1 DEF Missing
    <3>3. stage'[v] = "unstarted" /\ queue'[v] = <<>> /\ listed'[v] = {}
      BY <1>2, <2>1, <3>1, <3>2 DEF watcher, WatcherInv
    <3>4. Represents(v, {})'
      BY <1>2, <2>2, <3>1, <3>2, RepresentsStays DEF WatcherInv
    <3>5. QED
      BY <3>3, <3>4 DEF WatcherInv
  <2>5. QED
    BY <2>3, <2>4
<1>6. QED
  BY <1>2, <1>3, <1>4, <1>5, KernelTells
\* After a restart nothing is listed yet, and nothing excepted is forgotten.
LEMMA RestartSync ==
    ASSUME TypeInv, SyncInv, Restart
    PROVE  SyncInv'
<1>1. KernelInv'
  <2>1. UNCHANGED <<links, neighs, routes, locals>> /\ shared' = Doubled
    BY DEF Restart, kernel
  <2>2. Doubled' = Doubled
    BY <2>1 DEF Doubled
  <2>3. \A w \in WatcherIds : Table(w)' = Table(w)
    BY <2>1 DEF Table
  <2>4. QED
    BY <2>1, <2>2, <2>3 DEF KernelInv, SyncInv
<1>2. ASSUME NEW w \in WatcherIds PROVE WatcherInv(w)'
  <2>1. /\ flows' = BaseFlows
        /\ forwardRoute' = [p \in Prefixes |-> NoVal]
        /\ forwardHost' = [h \in Hosts |-> NoVal]
    BY DEF Restart, Fresh
  <2>2. \A a \in Locals : LocalFlow(a) \notin flows'
    BY <2>1, BaseTables, BaseIsNeither, LocalFlowIs DEF BaseFlows
  <2>3. Represents(w, {})'
    BY <2>1, <2>2 DEF Represents, Seen, Keys, Shown, HostShown, RouteShown, AddrShown, Mine,
                      WatcherIds
  <2>4. stage'[w] = "unstarted" /\ listed'[w] = {} /\ queue'[w] = <<>>
    BY DEF Restart, FreshStage, FreshListed, FreshQueue
  <2>5. QED
    BY <2>3, <2>4 DEF WatcherInv
<1>3. QED
  BY <1>1, <1>2 DEF SyncInv

\* Steps of a watcher that handle nothing, and steps of none.
LEMMA KernelRests ==
    ASSUME KernelInv, UNCHANGED kernel, UNCHANGED shared
    PROVE  KernelInv'
<1>1. \A w \in WatcherIds : Table(w)' = Table(w)
  BY DEF kernel, Table
<1>2. Doubled' = Doubled
  BY DEF kernel, Doubled
<1>3. QED
  BY <1>1, <1>2 DEF KernelInv, kernel

\* Every step keeps every watcher where it says it has come to.
LEMMA SyncStep == TypeInv /\ SyncInv /\ [Next]_vars => SyncInv'
<1> SUFFICES ASSUME TypeInv, SyncInv, [Next]_vars PROVE SyncInv'
  OBVIOUS
<1>1. KernelInv /\ \A w \in WatcherIds : WatcherInv(w)
  BY DEF SyncInv
<1>2. stage \in [WatcherIds -> Stages] /\ DOMAIN listed = WatcherIds /\ DOMAIN queue = WatcherIds
  BY DEF TypeInv, TypeOK, KernelTypeOK, EventsOK
<1>3. CASE UNCHANGED vars
  <2>1. \A w \in WatcherIds : Spares(w) /\ Table(w)' = Table(w)
    BY <1>3 DEF vars, Spares, Table, kernel, gateway, past, forward
  <2>2. \A w \in WatcherIds : WatcherInv(w)'
    BY <1>1, <1>3, <2>1, Undisturbed DEF vars, watcher, past
  <2>3. QED
    BY <1>1, <1>3, <2>2, KernelRests DEF SyncInv, vars, past
<1>4. ASSUME NEW w \in WatcherIds, Start(w) \/ Watch(w) PROVE SyncInv'
  <2>1. UNCHANGED <<kernel, gateway, past>>
    BY <1>4 DEF Start, Watch
  <2>2. WatcherInv(w)'
    BY <1>1, <1>4, <2>1, ListSync, SpawnSync, SubscribeSync DEF Start, Watch
  <2>3. ASSUME NEW v \in WatcherIds, v # w PROVE WatcherInv(v)'
    <3>1. Spares(v) /\ Table(v)' = Table(v)
      BY <2>1 DEF Spares, Table, kernel, gateway, past, forward
    <3>2. stage'[v] = stage[v] /\ listed'[v] = listed[v] /\ queue'[v] = queue[v]
      BY <1>2, <1>4, <2>3 DEF Start, Watch, List, Spawn, Subscribe
    <3>3. QED
      BY <1>1, <2>1, <3>1, <3>2, Undisturbed DEF past
  <2>4. QED
    BY <1>1, <2>1, <2>2, <2>3, KernelRests DEF SyncInv, past
<1>5. ASSUME NEW w \in WatcherIds, HandleListed(w) \/ HandleQueued(w) PROVE SyncInv'
  <2>1. UNCHANGED <<kernel, lost, shared, moved>> /\ (faulted => faulted')
    BY <1>5 DEF HandleListed, HandleQueued, On, NoFault, Fault, OnNeighbor, OnRoute, OnAddress,
                Program
  <2>2. CASE faulted'
    BY <1>1, <2>1, <2>2, KernelRests DEF SyncInv, WatcherInv
  <2>3. CASE ~faulted'
    <3>1. PICK e \in Event(w) :
            /\ On(w, e)
            /\ \/ e \in listed[w] /\ TakeListed(w, e)
               \/ queue[w] # <<>> /\ e = Head(queue[w]) /\ TakeQueued(w, e)
      BY <1>5, QueueFacts DEF HandleListed, HandleQueued, TypeInv, EventsOK
    <3>2. WatcherInv(w)'
      BY <1>1, <2>1, <2>3, <3>1, ListedSync, QueuedSync
    <3>3. ASSUME NEW v \in WatcherIds, v # w PROVE WatcherInv(v)'
      <4>1. Table(v)' = Table(v) /\ UNCHANGED <<links, shared, moved>>
        BY <2>1 DEF kernel, Table
      <4>2. Spares(v)
        BY <2>3, <3>1, <3>3, <4>1, HandlerSpares
      <4>3. stage'[v] = stage[v] /\ listed'[v] = listed[v] /\ queue'[v] = queue[v]
        BY <1>2, <3>1, <3>3 DEF TakeListed, TakeQueued
      <4>4. QED
        BY <1>1, <2>1, <4>1, <4>2, <4>3, Undisturbed
    <3>4. QED
      BY <1>1, <2>1, <3>2, <3>3, KernelRests DEF SyncInv
  <2>4. QED
    BY <2>2, <2>3
<1>6. CASE KernelStep
  BY <1>1, <1>6, KernelKeeps, KernelSync DEF SyncInv
<1>7. CASE Restart
  BY <1>7, RestartSync
<1>8. QED
  BY <1>3, <1>4, <1>5, <1>6, <1>7 DEF Next
\* A watcher with nothing left to handle represents the table of the kernel,
\* and every interface of the table is known.
LEMMA CaughtUp ==
    ASSUME SyncInv, NEW w \in WatcherIds, UpToDate(w)
    PROVE  /\ Represents(w, Table(w))
           /\ \A x \in Table(w) :
                (w = "route" => x.main) => (Known(x.dev) <=> x.dev \in VlanDevs)
<1>1. PICK t : Traces(w, queue[w], t) /\ Represents(w, t[0])
  BY DEF UpToDate, SyncInv, WatcherInv, Lags
<1>2. Len(queue[w]) = 0
  BY DEF UpToDate
<1>3. t[0] = Table(w)
  BY <1>1, <1>2 DEF Traces
<1>4. Represents(w, Table(w))
  BY <1>1, <1>3
<1>5. QED
  BY <1>4 DEF Represents, Seen, SyncInv, KernelInv, Known

\* So the listing agrees with the kernel, and the FIB with the listing.
LEMMA SyncedIsInSync == TypeInv /\ SyncInv /\ FibIsListed => InSync
<1> SUFFICES ASSUME TypeInv, SyncInv, FibIsListed PROVE InSync
  OBVIOUS
<1>1. ASSUME UpToDate("neighbor"), NEW h \in Hosts \ shared PROVE HostMatches(h)
  <2>1. HostShown(h, neighs) /\ \A n \in neighs : Known(n.dev) <=> n.dev \in VlanDevs
    BY <1>1, CaughtUp, ByName DEF WatcherIds, Represents
  <2>2. \A m \in Mac, d \in VlanDevs :
          HostFlow(h, m, d) \in flows <=> forwardHost[h] = [mac |-> m, dev |-> d]
    BY <1>1 DEF FibIsListed, UpToDate
  <2>3. ASSUME NEW n \in Resolved(h) PROVE HostFlow(h, n.mac, n.dev) \in flows
    <3>1. n \in neighs /\ n.ip = h /\ n.dev \in VlanDevs /\ n.mac # NoMac /\ n \in Neigh
      BY DEF Resolved, TypeInv, TypeOK, KernelTypeOK
    <3>2. n.mac \in Mac
      BY <3>1 DEF Neigh
    <3>3. forwardHost[h] = [mac |-> n.mac, dev |-> n.dev]
      BY <2>1, <3>1 DEF HostShown, Mine, Key
    <3>4. QED
      BY <2>2, <3>1, <3>2, <3>3
  <2>4. ASSUME \A n \in neighs : n.ip = h => n.dev \notin VlanDevs,
               NEW m \in Mac, NEW d \in VlanDevs
        PROVE  HostFlow(h, m, d) \notin flows
    <3>1. forwardHost[h] = NoVal
      <4>1. CASE Mine("neighbor", h, neighs) = {}
        BY <2>1, <4>1 DEF HostShown
      <4>2. CASE Mine("neighbor", h, neighs) # {}
        BY <2>1, <2>4, <4>2 DEF HostShown, Mine, Key
      <4>3. QED
        BY <4>1, <4>2
    <3>2. forwardHost[h] # [mac |-> m, dev |-> d]
      BY <3>1, ListingAssumption
    <3>3. QED
      BY <2>2, <3>2
  <2>5. QED
    BY <2>3, <2>4 DEF HostMatches
<1>2. ASSUME UpToDate("route"), NEW p \in Prefixes \ (shared \cup moved) PROVE RouteMatches(p)
  <2>1. RouteShown(p, routes) /\ \A r \in routes : r.main => (Known(r.dev) <=> r.dev \in VlanDevs)
    BY <1>2, CaughtUp, ByName DEF WatcherIds, Represents
  <2>2. \A r \in routes : r.dst = p /\ r.main /\ r.dev \in VlanDevs
          => forwardRoute[p] = [gw |-> r.gw, dev |-> r.dev]
    BY <2>1 DEF RouteShown, Mine, Key
  <2>3. (\A r \in routes : r.dst # p) => forwardRoute[p] = NoVal
    <3>1. (\A r \in routes : r.dst # p) => Mine("route", p, routes) = {}
      BY DEF Mine, Key
    <3>2. QED
      BY <2>1, <3>1 DEF RouteShown
  <2>4. QED
    BY <2>2, <2>3 DEF RouteMatches
<1>3. ASSUME UpToDate("addr"), NEW a \in Locals \ shared
      PROVE  LocalFlow(a) \in flows <=> \E x \in locals : x.ip = a /\ x.dev \in VlanDevs
  <2>1. AddrShown(a, locals) /\ \A x \in locals : Known(x.dev) <=> x.dev \in VlanDevs
    BY <1>3, CaughtUp, ByName DEF WatcherIds, Represents
  <2>2. \A x : x \in Mine("addr", a, locals) <=> x \in locals /\ x.ip = a
    BY DEF Mine, Key
  <2>3. QED
    BY <2>1, <2>2 DEF AddrShown
<1>4. QED
  BY <1>1, <1>2, <1>3 DEF InSync, HostsMatch, RoutesMatch, LocalsMatch

\* A watcher that has missed nothing and handled everything agrees with the
\* kernel, however the kernel changed before, between and after its list and
\* its subscription, and whatever the other two watchers handled meanwhile.
THEOREM StaysInSync == Spec => []InSync
<1>1. Init => FibIsListed
  <2>1. \A m \in Mac, d \in VlanDevs : [mac |-> m, dev |-> d] # NoVal
    BY ListingAssumption
  <2>2. QED
    BY <2>1, BaseIsNeither DEF Init, FibIsListed
<1>2. QED
  BY <1>1, TypeInit, TypeStep, EveryTableStep, FibStep, SyncInit, SyncStep, SyncedIsInSync, PTL
     DEF Spec
====
