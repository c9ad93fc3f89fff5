------------------------------ MODULE Gateway ------------------------------
(***************************************************************************)
(* The gateway keeps the bridge's RIB and FIB tables, and the listing of   *)
(* them it serves (forward), in step with the kernel: OnNeighbor, OnRoute  *)
(* and OnAddress handle the events of the three watchers.  Each handler    *)
(* runs under the mutex and issues one ovs-ofctl command, whose error it   *)
(* ignores, so a handler is one step.                                      *)
(***************************************************************************)
EXTENDS KernelRegister

CONSTANTS NoVal,      \* nothing under a key
          MaxFaults,  \* bound: failing commands and interface lookups
          MaxRestarts \* bound: restarts of the process

ASSUME ListingAssumption ==
    NoVal \notin [gw : Gateways, dev : VlanDevs] \cup [mac : Mac, dev : VlanDevs]

VARIABLES
    flows,        \* the flows of the bridge
    forwardRoute, \* IPForwards, the keys with a prefix length
    forwardHost,  \* IPForwards, the keys that are host addresses
    linkAttrs,    \* interfaces whose attributes the process remembers
    faults,       \* faults so far
    restarts      \* restarts so far

\* What the properties need to know about the past of this run.
VARIABLES
    lost,     \* watchers that missed a change
    faulted,  \* a command or a lookup has failed
    shared,   \* hosts, prefixes and addresses that had two entries at once
    swept,    \* prefixes below a prefix whose route was deleted
    moved     \* prefixes whose route was replaced by one on an interface that is
              \* ignored, or may be: the event tells of the new route only

forward == <<forwardRoute, forwardHost>>
past    == <<lost, faulted, shared, swept, moved>>
gateway == <<flows, forward, linkAttrs>>
vars    == <<kernel, watcher, gateway, faults, restarts, past>>

BaseFlows == {BaseFlow[i] : i \in BaseIds}

\* The types; what is listed and programmed is on vlan interfaces and, for
\* hosts, has a MAC: OnNeighbor and OnRoute ignore everything else.
TypeOK ==
    /\ KernelTypeOK
    /\ \A x \in flows : x.match \in Match
    /\ forwardRoute \in [Prefixes -> {NoVal} \cup [gw : Gateways, dev : VlanDevs]]
    /\ forwardHost \in [Hosts -> {NoVal} \cup [mac : Mac, dev : VlanDevs]]
    /\ linkAttrs \subseteq Devs
    /\ lost \subseteq WatcherIds
    /\ faulted \in BOOLEAN
    /\ swept \subseteq Prefixes

\* Gateway.Init: empty maps, and the bridge with its base flows.
Fresh ==
    /\ flows' = BaseFlows
    /\ forwardRoute' = [p \in Prefixes |-> NoVal]
    /\ forwardHost' = [h \in Hosts |-> NoVal]
    /\ linkAttrs' = {}

Init ==
    /\ KernelInit
    /\ flows = BaseFlows
    /\ forwardRoute = [p \in Prefixes |-> NoVal]
    /\ forwardHost = [h \in Hosts |-> NoVal]
    /\ linkAttrs = {}
    /\ faults = 0
    /\ restarts = 0
    /\ lost = {}
    /\ faulted = FALSE
    /\ shared = {}
    /\ swept = {}
    /\ moved = {}

-----------------------------------------------------------------------------
(* Handlers *)

\* findLinkAttr: the interface as it is now, or as it was last seen.
Remember(dev) == linkAttrs' = linkAttrs \cup ({dev} \cap links)
\* Mutant of Found: the interface is looked up every time.
FoundNow(dev) == dev \in links
Found(dev)    == dev \in links \cup linkAttrs

\* Not a vlan interface, or one that went away before it was ever looked up.
Ignored(dev) == ~Found(dev) \/ dev \notin VlanDevs

NoFault == UNCHANGED <<faults, faulted>>
Fault   == /\ faults < MaxFaults
           /\ faults' = faults + 1
           /\ faulted' = TRUE

\* addFlow and delFlows change the table, or fail and are ignored.
Program(F) == \/ NoFault /\ flows' = F
              \/ Fault   /\ UNCHANGED flows

\* Mutants of OnNeighbor: a known host keeps its listing, and an unresolved
\* neighbour is handled like any other.
OnNeighborFirst(e) ==
    /\ Program(IF e.op = "new"
               THEN AddFlow(flows, HostFlow(e.item.ip, e.item.mac, e.item.dev))
               ELSE DelFlows(flows, TableFib, HostMatch(e.item.ip)))
    /\ forwardHost' = [forwardHost EXCEPT ![e.item.ip] =
                          IF e.op = "del" THEN NoVal
                          ELSE IF @ # NoVal THEN @
                          ELSE [mac |-> e.item.mac, dev |-> e.item.dev]]
    /\ UNCHANGED <<forwardRoute, swept>>
OnNeighborAny(e) ==
    /\ Program(IF e.op = "new"
               THEN AddFlow(flows, HostFlow(e.item.ip, e.item.mac, e.item.dev))
               ELSE DelFlows(flows, TableFib, HostMatch(e.item.ip)))
    /\ forwardHost' = [forwardHost EXCEPT ![e.item.ip] =
                          IF e.op = "del" THEN NoVal
                          ELSE [mac |-> e.item.mac, dev |-> e.item.dev]]
    /\ UNCHANGED <<forwardRoute, swept>>

\* A multicast neighbour is not in Hosts; an unresolved one changes nothing,
\* an entry programmed for an earlier MAC included.
OnNeighbor(e) ==
    LET n == e.item
    IN /\ IF e.op = "new"
          THEN IF n.mac = NoMac
               THEN UNCHANGED <<flows, forwardHost, faults, faulted>>
               ELSE /\ Program(AddFlow(flows, HostFlow(n.ip, n.mac, n.dev)))
                    /\ forwardHost' =
                         [forwardHost EXCEPT ![n.ip] = [mac |-> n.mac, dev |-> n.dev]]
          ELSE /\ Program(DelFlows(flows, TableFib, HostMatch(n.ip)))
               /\ forwardHost' = [forwardHost EXCEPT ![n.ip] = NoVal]
       /\ UNCHANGED <<forwardRoute, swept>>

\* Prefixes strictly below p: their routes match what DelRoute deletes by.
Below(p) == {q \in Prefixes : q # p /\ q \subseteq p}

\* Mutants of OnRoute: a deleted route stays listed, and the route of a
\* prefix that has one is not programmed again.
OnRouteKept(e) ==
    LET r == e.item
    IN /\ IF e.op = "new"
          THEN /\ Program(AddFlow(flows, RouteFlow(r.dst, r.gw)))
               /\ forwardRoute' =
                    [forwardRoute EXCEPT ![r.dst] = [gw |-> r.gw, dev |-> r.dev]]
          ELSE /\ Program(DelFlows(flows, TableRib, RouteMatch(r.dst)))
               /\ UNCHANGED forwardRoute
       /\ UNCHANGED <<forwardHost, swept>>
OnRouteOnce(e) ==
    LET r == e.item
    IN /\ IF e.op = "new" /\ forwardRoute[r.dst] # NoVal
          THEN NoFault /\ UNCHANGED <<flows, forwardRoute, swept>>
          ELSE IF e.op = "new"
          THEN /\ Program(AddFlow(flows, RouteFlow(r.dst, r.gw)))
               /\ forwardRoute' =
                    [forwardRoute EXCEPT ![r.dst] = [gw |-> r.gw, dev |-> r.dev]]
               /\ swept' = swept \ {r.dst}
          ELSE /\ Program(DelFlows(flows, TableRib, RouteMatch(r.dst)))
               /\ forwardRoute' = [forwardRoute EXCEPT ![r.dst] = NoVal]
               /\ swept' = swept \cup Below(r.dst)
       /\ UNCHANGED forwardHost
OnRoute(e) ==
    LET r == e.item
    IN /\ IF e.op = "new"
          THEN /\ Program(AddFlow(flows, RouteFlow(r.dst, r.gw)))
               /\ forwardRoute' =
                    [forwardRoute EXCEPT ![r.dst] = [gw |-> r.gw, dev |-> r.dev]]
               /\ swept' = swept \ {r.dst}
          ELSE /\ Program(DelFlows(flows, TableRib, RouteMatch(r.dst)))
               /\ forwardRoute' = [forwardRoute EXCEPT ![r.dst] = NoVal]
               /\ swept' = swept \cup Below(r.dst)
       /\ UNCHANGED forwardHost

OnAddress(e) ==
    /\ IF e.op = "new"
       THEN Program(AddFlow(flows, LocalFlow(e.item.ip)))
       ELSE Program(DelFlows(flows, TableNat, LocalMatch(e.item.ip)))
    /\ UNCHANGED <<forward, swept>>

On(w, e) ==
    \/ /\ Remember(e.item.dev)
       /\ IF Ignored(e.item.dev)
          THEN UNCHANGED <<flows, forward, faults, faulted, swept>>
          ELSE \/ w = "neighbor" /\ OnNeighbor(e)
               \/ w = "route"    /\ OnRoute(e)
               \/ w = "addr"     /\ OnAddress(e)
    \* No handle to look the interface up with: the event is dropped.
    \/ /\ Fault
       /\ UNCHANGED <<gateway, swept>>

-----------------------------------------------------------------------------
(* Steps *)

\* main: KernelRegister.Start.
Start(w) ==
    /\ List(w) \/ Spawn(w)
    /\ UNCHANGED <<kernel, gateway, faults, restarts, past>>

HandleListed(w) ==
    /\ \E e \in listed[w] : TakeListed(w, e) /\ On(w, e)
    /\ UNCHANGED <<kernel, restarts, lost, shared, moved>>

Watch(w) ==
    /\ Subscribe(w)
    /\ UNCHANGED <<kernel, gateway, faults, restarts, past>>

HandleQueued(w) ==
    /\ queue[w] # <<>>
    /\ TakeQueued(w, Head(queue[w])) /\ On(w, Head(queue[w]))
    /\ UNCHANGED <<kernel, restarts, lost, shared, moved>>

\* Keys under which the kernel has two entries on two interfaces, or two
\* routes: one key of forward, and one flow, stands for both.
Doubled ==
    {n.ip : n \in {x \in neighs : \E y \in neighs : y.ip = x.ip /\ y # x}}
    \cup {r.dst : r \in {x \in routes : \E y \in routes : y.dst = x.dst /\ y # x}}
    \cup {a.ip : a \in {x \in locals : \E y \in locals : y.ip = x.ip /\ y # x}}

\* A watcher that has listed and does not hear of the change misses it, because
\* it is not told or because the kernel tells nobody; one whose socket overflows
\* misses everything the socket held as well.
Missing ==
    {w \in WatcherIds : /\ ~Reaches(w) \/ queue'[w] = queue[w]
                        /\ stage[w] # "unstarted"
                        /\ \/ w = "neighbor" /\ neighs' # neighs
                           \/ w = "route"    /\ routes' # routes
                           \/ w = "addr"     /\ locals' # locals}

\* Replaced by a route on another interface, one that is not a vlan interface
\* or that may be gone before it is looked up for the first time.
MovedOff ==
    {old.dst : old \in {x \in routes \ routes' : x.dev \in VlanDevs /\
        \E r \in routes' \ routes : /\ r.dst = x.dst
                                    /\ r.dev # x.dev
                                    /\ r.dev \notin VlanDevs \cap linkAttrs}}

KernelStep ==
    /\ KernelChange
    /\ lost' = lost \cup Missing
    /\ shared' = shared \cup Doubled'
    /\ moved' = moved \cup MovedOff
    /\ UNCHANGED <<gateway, faults, restarts, faulted, swept>>

\* The process is started again; the bridge is emptied and rebuilt by Init.
Restart ==
    /\ restarts < MaxRestarts
    /\ restarts' = restarts + 1
    /\ stage' = FreshStage
    /\ listed' = FreshListed
    /\ queue' = FreshQueue
    /\ Fresh
    /\ lost' = {}
    /\ faulted' = FALSE
    /\ shared' = Doubled
    /\ swept' = {}
    /\ moved' = {}
    /\ UNCHANGED <<kernel, faults>>

Next ==
    \/ \E w \in WatcherIds : Start(w) \/ HandleListed(w) \/ Watch(w) \/ HandleQueued(w)
    \/ KernelStep
    \/ Restart

\* The runtime schedules main and the three goroutines.
Fairness == \A w \in WatcherIds : /\ WF_vars(Start(w) \/ HandleListed(w))
                                  /\ WF_vars(Watch(w))
                                  /\ WF_vars(HandleQueued(w))

Spec == Init /\ [][Next]_vars /\ Fairness

-----------------------------------------------------------------------------
(* Properties *)

\* No delete of a route, a host or an address reaches a base flow, not even
\* the delete of the default route.
SkeletonKept == BaseFlows \subseteq flows

\* The FIB and its listing agree in every state without a failed command:
\* the same hosts, the same MAC, the same interface.
FibIsListed ==
    ~faulted =>
        \A h \in Hosts, m \in Mac, d \in VlanDevs :
            HostFlow(h, m, d) \in flows <=> forwardHost[h] = [mac |-> m, dev |-> d]

\* Every route flow is listed, with the gateway it sends to, and every listed
\* route is programmed unless the delete of a wider one swept it away.
RibIsListed ==
    ~faulted =>
        \A p \in Prefixes, gw \in Gateways :
            LET same == forwardRoute[p] # NoVal /\ forwardRoute[p].gw = gw
            IN /\ RouteFlow(p, gw) \in flows => same
               /\ same /\ p \notin swept => RouteFlow(p, gw) \in flows

\* A frame to the router with destination a.
ToRouter(a) == [ct |-> "new", proto |-> "tcp", src |-> a, dst |-> a,
                sport |-> CHOOSE x \in Port : TRUE, dport |-> CHOOSE x \in Port : TRUE,
                dlDst |-> "router", reg0 |-> a]

\* The RIB looks a destination up as the kernel does: the flow that wins is
\* the one of the longest listed prefix that holds the address.
LongestPrefixWins ==
    ~faulted /\ swept = {} =>
        \A a \in Addr :
            LET known == {p \in Prefixes : a \in p /\ forwardRoute[p] # NoVal}
            IN known # {} =>
                 \E p \in known :
                    /\ \A q \in known : p \subseteq q
                    /\ Winners(flows, TableRib, ToRouter(a)) = {RouteFlow(p, forwardRoute[p].gw)}

\* Watcher w has handled every change there was, and none of them failed.
UpToDate(w) == /\ stage[w] = "watching"
               /\ queue[w] = <<>>
               /\ w \notin lost
               /\ ~faulted

Resolved(h) == {n \in neighs : n.ip = h /\ n.dev \in VlanDevs /\ n.mac # NoMac}

HostMatches(h) ==
    /\ \A n \in Resolved(h) : HostFlow(h, n.mac, n.dev) \in flows
    /\ (\A n \in neighs : n.ip = h => n.dev \notin VlanDevs)
          => \A m \in Mac, d \in VlanDevs : HostFlow(h, m, d) \notin flows

HostsMatch == \A h \in Hosts \ shared : HostMatches(h)

RouteMatches(p) ==
    /\ \A r \in routes : r.dst = p /\ r.main /\ r.dev \in VlanDevs
          => forwardRoute[p] = [gw |-> r.gw, dev |-> r.dev]
    /\ (\A r \in routes : r.dst # p) => forwardRoute[p] = NoVal

RoutesMatch == \A p \in Prefixes \ (shared \cup moved) : RouteMatches(p)

LocalsMatch ==
    \A a \in Locals \ shared :
        LocalFlow(a) \in flows <=> \E x \in locals : x.ip = a /\ x.dev \in VlanDevs

\* A watcher that has missed nothing and handled everything agrees with the
\* kernel; it misses what happens before it subscribes or while its socket is
\* full, and the routes that are flushed with an interface.  A host that never had two entries is forwarded to the kernel's MAC,
\* and not at all once the kernel has dropped it; so is a prefix that never had
\* two routes and whose route was not replaced by one on an interface that is
\* ignored or not known yet (with RibIsListed the RIB is in step, but for what
\* was swept); so is an address of the router.
InSync ==
    /\ UpToDate("neighbor") => HostsMatch
    /\ UpToDate("route") => RoutesMatch
    /\ UpToDate("addr") => LocalsMatch

\* When the kernel stops changing, the tables come to agree with it for good,
\* or the watcher has missed something.
EventuallyInSync ==
    <>[](/\ "neighbor" \in lost \/ faulted \/ HostsMatch
         /\ "route" \in lost \/ faulted \/ RoutesMatch
         /\ "addr" \in lost \/ faulted \/ LocalsMatch)

-----------------------------------------------------------------------------
(* Statements of the documentation the code does not keep *)

\* README.md:14, "Translate FIB to OpenFlow": a listed route is programmed.
ListedIsProgrammed ==
    ~faulted => \A p \in Prefixes :
        forwardRoute[p] # NoVal => RouteFlow(p, forwardRoute[p].gw) \in flows
=============================================================================
