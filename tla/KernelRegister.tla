--------------------------- MODULE KernelRegister ---------------------------
(***************************************************************************)
(* How the process learns what the kernel of the router's namespace knows: *)
(* three watchers (neighbours, routes, addresses), each of which first     *)
(* lists what there is, from main, and then subscribes to changes in a     *)
(* goroutine of its own.  The kernel does not wait: it changes between the *)
(* list and the subscription, and it overruns a socket nobody reads.       *)
(*                                                                         *)
(* An event is [op |-> "new" or "del", item |-> neighbour, route, address].*)
(* The module leaves to Gateway what a watcher does with an event.         *)
(***************************************************************************)
EXTENDS Pipeline, Sequences

CONSTANTS Devs,       \* interfaces of the namespace
          VlanDevs,   \* those whose name starts with "vlan"
          Hosts,      \* addresses of neighbours
          Gateways,   \* gateways of routes, NoAddr included
          Locals,     \* addresses of the router itself
          NoMac,      \* a neighbour entry without link-layer address
          SocketLen,  \* bound: events a netlink socket holds
          MaxChanges  \* bound: changes of the kernel

Watchers == <<"neighbor", "route", "addr">>
WatcherIds == {"neighbor", "route", "addr"}

Prefixes == DOMAIN PrefixLen

ASSUME KernelAssumption ==
    /\ VlanDevs \subseteq Devs
    /\ Hosts \subseteq Addr /\ Locals \subseteq Addr
    /\ NoMac \notin Mac
    /\ SocketLen \in Nat

\* Prefixes of IPv4: of two that share an address the shorter one is wider.
ASSUME PrefixAssumption ==
    /\ Prefixes \subseteq SUBSET Addr
    /\ PrefixLen \in [Prefixes -> 0..32]
    /\ \A p, q \in Prefixes :
          p \cap q # {} /\ PrefixLen[p] <= PrefixLen[q] => q \subseteq p

Neigh == [ip : Hosts, dev : Devs, mac : Mac \cup {NoMac}]
\* main: the route is in the main table, the only one a list returns; a
\* subscription reports the local table as well.
Route == [dst : Prefixes, dev : Devs, gw : Gateways, main : BOOLEAN]
Local == [ip : Locals, dev : Devs]

New(item) == [op |-> "new", item |-> item]
Del(item) == [op |-> "del", item |-> item]

VARIABLES
    links,    \* interfaces that exist
    neighs,   \* neighbour entries of the kernel
    routes,   \* routes of the kernel
    locals,   \* addresses of the kernel's interfaces
    changes,  \* changes so far
    stage,    \* of each watcher: where its Start and watch have come
    listed,   \* of each watcher: events of the list not handled yet
    queue     \* of each watcher: events in the socket

kernel  == <<links, neighs, routes, locals, changes>>
watcher == <<stage, listed, queue>>

Stages == {"unstarted", "listing", "spawned", "watching", "deaf"}

KernelTypeOK ==
    /\ links \subseteq Devs
    /\ neighs \subseteq Neigh
    /\ routes \subseteq Route
    /\ locals \subseteq Local
    /\ stage \in [WatcherIds -> Stages]
    /\ \A w \in WatcherIds : Len(queue[w]) <= SocketLen

\* The watchers of a process that has just been started.
FreshStage  == [w \in WatcherIds |-> "unstarted"]
FreshListed == [w \in WatcherIds |-> {}]
FreshQueue  == [w \in WatcherIds |-> <<>>]

KernelInit ==
    /\ links = Devs
    /\ neighs = {}
    /\ routes = {}
    /\ locals = {}
    /\ changes = 0
    /\ stage = FreshStage
    /\ listed = FreshListed
    /\ queue = FreshQueue

-----------------------------------------------------------------------------
(* The watchers *)

Snapshot(w) == CASE w = "neighbor" -> {New(n) : n \in neighs}
                 [] w = "route"    -> {New(r) : r \in {x \in routes : x.main}}
                 [] w = "addr"     -> {New(a) : a \in locals}

\* KernelRegister.Start: one watcher after the other, in this order.
Turn(w) == CASE w = "neighbor" -> TRUE
             [] w = "route"    -> stage["neighbor"] \notin {"unstarted", "listing"}
             [] w = "addr"     -> stage["route"] \notin {"unstarted", "listing"}

\* Start calls list, which reads the kernel's table once.
List(w) ==
    /\ stage[w] = "unstarted"
    /\ Turn(w)
    /\ stage' = [stage EXCEPT ![w] = "listing"]
    /\ listed' = [listed EXCEPT ![w] = Snapshot(w)]
    /\ UNCHANGED queue

\* list hands an entry to On, in main.
TakeListed(w, e) ==
    /\ stage[w] = "listing"
    /\ e \in listed[w]
    /\ listed' = [listed EXCEPT ![w] = @ \ {e}]
    /\ UNCHANGED <<stage, queue>>

\* list has returned: go watch().
Spawn(w) ==
    /\ stage[w] = "listing"
    /\ listed[w] = {}
    /\ stage' = [stage EXCEPT ![w] = "spawned"]
    /\ UNCHANGED <<listed, queue>>

\* watch: the goroutine subscribes, whenever it is scheduled.
Subscribe(w) ==
    /\ stage[w] = "spawned"
    /\ stage' = [stage EXCEPT ![w] = "watching"]
    /\ UNCHANGED <<listed, queue>>

\* Mutant of TakeQueued: the update stays at the head.
PeekQueued(w, e) ==
    /\ stage[w] = "watching"
    /\ queue[w] # <<>>
    /\ e = Head(queue[w])
    /\ UNCHANGED <<queue, stage, listed>>

\* watch: the next update of the channel.
TakeQueued(w, e) ==
    /\ stage[w] = "watching"
    /\ queue[w] # <<>>
    /\ e = Head(queue[w])
    /\ queue' = [queue EXCEPT ![w] = Tail(@)]
    /\ UNCHANGED <<stage, listed>>

\* The kernel tells watcher w of e.  Nobody is told before the subscription.
\* A full socket makes the next receive fail, which ends the subscription and
\* closes the channel; watch then reads zero values from it for ever.
Reaches(w) == stage[w] = "watching" /\ Len(queue[w]) < SocketLen

Publish(w, e) ==
    /\ \/ /\ Reaches(w)
          /\ queue' = [queue EXCEPT ![w] = Append(@, e)]
          /\ UNCHANGED stage
       \/ /\ stage[w] = "watching"
          /\ Len(queue[w]) = SocketLen
          /\ stage' = [stage EXCEPT ![w] = "deaf"]
          /\ queue' = [queue EXCEPT ![w] = <<>>]
       \/ /\ stage[w] # "watching"
          /\ UNCHANGED <<stage, queue>>
    /\ UNCHANGED listed

-----------------------------------------------------------------------------
(* The kernel *)

Change == /\ changes < MaxChanges
          /\ changes' = changes + 1

\* An entry is created, resolved, moves to another MAC, or loses its MAC.
SetNeigh(n) ==
    /\ Change
    /\ n.dev \in links
    /\ n \notin neighs
    /\ neighs' = {x \in neighs : ~(x.ip = n.ip /\ x.dev = n.dev)} \cup {n}
    /\ Publish("neighbor", New(n))
    /\ UNCHANGED <<links, routes, locals>>

DropNeigh(n) ==
    /\ Change
    /\ n \in neighs
    /\ neighs' = neighs \ {n}
    /\ Publish("neighbor", Del(n))
    /\ UNCHANGED <<links, routes, locals>>

\* ip route add: other routes to the prefix, of another metric, may exist.
AddKernelRoute(r) ==
    /\ Change
    /\ r.dev \in links
    /\ r \notin routes
    /\ routes' = routes \cup {r}
    /\ Publish("route", New(r))
    /\ UNCHANGED <<links, neighs, locals>>

\* ip route replace: one event, for the new route only.
ReplaceRoute(r) ==
    /\ Change
    /\ r.dev \in links
    /\ r \notin routes
    /\ \E old \in routes :
        /\ old.dst = r.dst
        /\ old.main = r.main
        /\ routes' = (routes \ {old}) \cup {r}
    /\ Publish("route", New(r))
    /\ UNCHANGED <<links, neighs, locals>>

DropRoute(r) ==
    /\ Change
    /\ r \in routes
    /\ routes' = routes \ {r}
    /\ Publish("route", Del(r))
    /\ UNCHANGED <<links, neighs, locals>>

AddKernelAddr(a) ==
    /\ Change
    /\ a.dev \in links
    /\ a \notin locals
    /\ locals' = locals \cup {a}
    /\ Publish("addr", New(a))
    /\ UNCHANGED <<links, neighs, routes>>

DropKernelAddr(a) ==
    /\ Change
    /\ a \in locals
    /\ locals' = locals \ {a}
    /\ Publish("addr", Del(a))
    /\ UNCHANGED <<links, neighs, routes>>

\* An interface goes down, to be deleted for example: the kernel flushes the
\* routes of the main table that leave through it, and sends no event for them.
LinkDown(d) ==
    /\ Change
    /\ \E r \in routes : r.dev = d /\ r.main
    /\ routes' = {r \in routes : ~(r.dev = d /\ r.main)}
    /\ UNCHANGED <<links, neighs, locals, watcher>>

\* An interface that is down, and whose neighbours and addresses were dropped,
\* goes away; its index is not given to another one.
DropLink(d) ==
    /\ Change
    /\ d \in links
    /\ \A n \in neighs \cup routes \cup locals : n.dev # d
    /\ links' = links \ {d}
    /\ UNCHANGED <<neighs, routes, locals, watcher>>

KernelChange ==
    \/ \E n \in Neigh : SetNeigh(n) \/ DropNeigh(n)
    \/ \E r \in Route : AddKernelRoute(r) \/ ReplaceRoute(r) \/ DropRoute(r)
    \/ \E a \in Local : AddKernelAddr(a) \/ DropKernelAddr(a)
    \/ \E d \in Devs : LinkDown(d) \/ DropLink(d)
=============================================================================
