------------------------------ MODULE Composer ------------------------------
(***************************************************************************)
(* The NAT half of the Composer: what is in the bridge's flow tables, what *)
(* is in the bridge's other_config (the only state that survives the       *)
(* process) and what the process itself remembers (others), while REST     *)
(* requests add and remove rules, the router gains and loses addresses,    *)
(* ovs-ofctl and ovs-vsctl commands fail, and the process crashes and is   *)
(* started again.                                                          *)
(*                                                                         *)
(* A request holds the gateway's mutex from its first command to its last, *)
(* but its commands are separate processes: packets, crashes and the       *)
(* start-up code, which takes no mutex, see the states between them.       *)
(***************************************************************************)
EXTENDS Pipeline, FiniteSets

CONSTANTS Sources,    \* source prefixes SNAT requests name, as sets of addresses
          SnatTos,    \* addresses they translate to
          DnatTexts,  \* <<protocol, destination text>> DNAT requests name
          ToTexts,    \* targets they redirect to, as texts
          NoPort,     \* the port of a text that has none
          NoVal,      \* no value under a key
          NoKey,      \* no request in progress
          MaxFaults,  \* bound: failing commands and restarts of the switch
          MaxCrashes, \* bound: crashes
          MaxRequests \* bound: REST requests and address events

ASSUME TextAssumption ==
    /\ NoPort \notin Port
    /\ Sources \subseteq SUBSET Addr
    /\ SnatTos \subseteq Addr
    /\ ToTexts \subseteq [addr : Addr, port : Port \cup {NoPort}]
    /\ DnatTexts \subseteq {"icmp", "tcp", "udp"} \X [addr : Addr, port : Port \cup {NoPort}]

\* A destination as the API takes it: an address and, maybe, a port.
Text == [addr : Addr, port : Port \cup {NoPort}]
Bind == [addr : Addr, port : Port \cup {0}]

\* ParseBind: icmp has no port, tcp and udp must have one.
Parses(proto, text) == proto = "icmp" \/ text.port # NoPort
ParseBind(proto, text) ==
    [addr |-> text.addr, port |-> IF proto = "icmp" THEN 0 ELSE text.port]

\* ToKey: the other_config key of a rule.  Under icmp the port is cut off.
SnatKey(source) == [kind |-> "snat", source |-> source]
DnatKey(proto, text) ==
    [kind |-> "dnat", proto |-> proto, bind |-> ParseBind(proto, text)]

SnatKeys == {SnatKey(s) : s \in Sources}
DnatKeys == {DnatKey(d[1], d[2]) : d \in {x \in DnatTexts : Parses(x[1], x[2])}}
Keys     == SnatKeys \cup DnatKeys

\* A DNAT rule remembers the text of its target, parsed again when needed.
Values == SnatTos \cup ToTexts

ASSUME NoneAssumption == NoKey \notin Keys /\ NoVal \notin Values \cup Bind

\* The flows of the rule key -> val, in the order they are added and deleted.
RuleIds(key) == IF key.kind = "snat" THEN {1} ELSE DnatIds

\* Mutant of RuleFlow: the hairpin flow is added before the redirection.
HairpinFirst(key, val, i) ==
    IF key.kind = "snat"
    THEN SnatFlow(key.source, val)
    ELSE DnatFlow(CASE i = 1 -> 2 [] i = 2 -> 1 [] OTHER -> i,
                  key.proto, key.bind, ParseBind(key.proto, val))

RuleFlow(key, val, i) ==
    IF key.kind = "snat"
    THEN SnatFlow(key.source, val)
    ELSE DnatFlow(i, key.proto, key.bind, ParseBind(key.proto, val))

\* Mutant of RuleMatch: a DNAT rule is deleted by its address alone.
DnatByAddress(key, val, i) ==
    IF key.kind = "snat"
    THEN SnatMatch(key.source)
    ELSE [DnatMatch(i, key.proto, key.bind, ParseBind(key.proto, val))
            EXCEPT !.proto = IPv4, !.dport = Port]

RuleMatch(key, val, i) ==
    IF key.kind = "snat"
    THEN SnatMatch(key.source)
    ELSE DnatMatch(i, key.proto, key.bind, ParseBind(key.proto, val))

\* What may be stored under key k.
ValuesOf(k) == IF k.kind = "snat" THEN SnatTos
               ELSE {t \in ToTexts : Parses(k.proto, t)}

\* The redirecting and the hairpin flow of DNAT rule k with target to.
Redirect(k, to) == DnatFlow(1, k.proto, k.bind, ParseBind(k.proto, to))
Hairpin(k, to)  == DnatFlow(2, k.proto, k.bind, ParseBind(k.proto, to))
Hairpins(k)     == {Hairpin(k, to) : to \in ValuesOf(k)}
AllHairpins     == UNION {Hairpins(k) : k \in DnatKeys}

\* Mutant of LastFlow: the last flow of a DNAT rule is forgotten.
LastButOne(key) == IF key.kind = "snat" THEN 1 ELSE 3
LastFlow(key) == IF key.kind = "snat" THEN 1 ELSE 4

Kinds == {"none", "add", "del"}
NoRequest == [kind |-> "none", key |-> NoKey, val |-> NoVal, pc |-> 0]

Phases == {"down", "init", "list", "restore", "serve"}

VARIABLES
    flows,     \* the flows of the bridge
    config,    \* other_config of the bridge: key -> value or NoVal
    others,    \* Composer.others: key -> value or NoVal
    addrs,     \* addresses the router has, as far as it has been told
    phase,     \* how far Gateway.Init and Gateway.Start have come
    boot,      \* start-up progress: pc, addresses or keys left, key in hand
    request,   \* the request that holds the mutex
    budget     \* faults, crashes and requests so far

\* What the properties need to know about the past.
VARIABLES
    flushed,   \* this run's del-flows emptied the tables
    missing,   \* base flows this run failed to add
    errored,   \* keys for which a command of this run failed
    touched,   \* an address was lost, or a request begun, since start-up
    stale      \* hairpin flows a rule left behind, or adds without its redirection

state == <<flows, config, others, addrs, phase, boot, request>>
history == <<flushed, missing, errored, touched, stale>>
vars == <<state, budget, history>>

NoBoot == [pc |-> 0, left |-> {}, key |-> NoKey]

Init ==
    /\ flows = {}
    /\ config = [k \in Keys |-> NoVal]
    /\ others = [k \in Keys |-> NoVal]
    /\ addrs = {}
    /\ phase = "down"
    /\ boot = NoBoot
    /\ request = NoRequest
    /\ budget = [faults |-> 0, crashes |-> 0, requests |-> 0]
    /\ flushed = FALSE
    /\ missing = {}
    /\ errored = {}
    /\ touched = FALSE
    /\ stale = {}

-----------------------------------------------------------------------------
(* Hairpin flows left behind *)

\* Flow i of rule k, with value val, is added: with the first one the rule has
\* a new target, and the hairpin flows of its other targets stay.
Pointed(k, val, i) ==
    IF k \in DnatKeys /\ i = 1
    THEN (stale \cup (flows \cap Hairpins(k))) \ {Hairpin(k, val)}
    ELSE stale

\* The hairpin flow of the rule in hand.
BeingAdded == {Hairpin(k, config[k]) : k \in {boot.key} \cap DnatKeys}
              \cup {Hairpin(k, request.val) : k \in {request.key} \cap DnatKeys}

-----------------------------------------------------------------------------
(* Bounds *)

Fault   == /\ budget.faults < MaxFaults
           /\ budget' = [budget EXCEPT !.faults = @ + 1]
Another == /\ budget.requests < MaxRequests
           /\ budget' = [budget EXCEPT !.requests = @ + 1]
NoFault == budget' = budget

-----------------------------------------------------------------------------
(* Start-up: Gateway.Init, then Gateway.Start *)

\* main starts: a new Composer with an empty map, on a bridge that may exist.
Boot ==
    /\ phase = "down"
    /\ phase' = "init"
    /\ boot' = NoBoot
    /\ others' = [k \in Keys |-> NoVal]
    /\ flushed' = FALSE
    /\ missing' = {}
    /\ errored' = {}
    /\ touched' = FALSE
    /\ UNCHANGED <<flows, config, addrs, request, budget, stale>>

\* Composer.Init, first command: delFlows(nil), its error ignored.
Flush ==
    /\ phase = "init"
    /\ boot.pc = 0
    /\ boot' = [boot EXCEPT !.pc = 1]
    /\ \/ NoFault /\ flows' = DelAllFlows(flows) /\ flushed' = TRUE /\ stale' = {}
       \/ Fault   /\ UNCHANGED <<flows, flushed, stale>>
    /\ UNCHANGED <<config, others, addrs, phase, request, missing, errored, touched>>

\* Composer.Init, a base flow, its error ignored.  After the last one the
\* kernel's addresses are read.
AddBase ==
    /\ phase = "init"
    /\ boot.pc \in BaseIds
    /\ \/ NoFault /\ flows' = AddFlow(flows, BaseFlow[boot.pc]) /\ UNCHANGED missing
       \/ Fault   /\ missing' = missing \cup {boot.pc} /\ UNCHANGED flows
    /\ IF boot.pc < 9
       THEN boot' = [boot EXCEPT !.pc = @ + 1] /\ UNCHANGED phase
       ELSE boot' = [boot EXCEPT !.left = addrs] /\ phase' = "list"
    /\ UNCHANGED <<config, others, addrs, request, flushed, errored, touched, stale>>

\* KernelAddr.list: AddLocal for an address the router has.
ListLocal ==
    /\ phase = "list"
    /\ \E a \in boot.left :
        /\ boot' = [boot EXCEPT !.left = @ \ {a}]
        /\ \/ NoFault /\ flows' = AddFlow(flows, LocalFlow(a)) /\ UNCHANGED touched
           \/ Fault   /\ touched' = TRUE /\ UNCHANGED flows
    /\ UNCHANGED <<config, others, addrs, phase, request, flushed, missing, errored, stale>>

\* Composer.Start reads other_config; if that fails nothing is restored.
ReadConfig ==
    /\ phase = "list"
    /\ boot.left = {}
    /\ \/ /\ NoFault
          /\ phase' = "restore"
          /\ boot' = [NoBoot EXCEPT !.left = {k \in Keys : config[k] # NoVal}]
          /\ UNCHANGED errored
       \/ /\ Fault
          /\ phase' = "serve"
          /\ boot' = NoBoot
          /\ errored' = Keys
    /\ UNCHANGED <<flows, config, others, addrs, request, flushed, missing, touched, stale>>

\* Mutant of PickKey: the key in hand stays among those left.
PickAgain ==
    /\ phase = "restore"
    /\ boot.key = NoKey
    /\ \E k \in boot.left : boot' = [boot EXCEPT !.pc = 1, !.key = k]
    /\ UNCHANGED <<flows, config, others, addrs, phase, request, budget, history>>

\* Composer.Start takes the next key, in the order of a map iteration.
PickKey ==
    /\ phase = "restore"
    /\ boot.key = NoKey
    /\ \E k \in boot.left :
        boot' = [pc |-> 1, left |-> boot.left \ {k}, key |-> k]
    /\ UNCHANGED <<flows, config, others, addrs, phase, request, budget, history>>

\* addSNAT or addDNAT for that key: one flow.  An error ends the rule's flows
\* and is ignored; either way the key is remembered.
RestoreFlow ==
    /\ phase = "restore"
    /\ boot.key # NoKey
    /\ LET k == boot.key
           noted == /\ others' = [others EXCEPT ![k] = config[k]]
                    /\ boot' = [pc |-> 0, left |-> boot.left, key |-> NoKey]
       IN \/ /\ NoFault
             /\ flows' = AddFlow(flows, RuleFlow(k, config[k], boot.pc))
             /\ stale' = Pointed(k, config[k], boot.pc)
             /\ IF boot.pc < LastFlow(k)
                THEN boot' = [boot EXCEPT !.pc = @ + 1] /\ UNCHANGED others
                ELSE noted
             /\ UNCHANGED errored
          \/ /\ Fault
             /\ noted
             /\ errored' = errored \cup {k}
             /\ UNCHANGED <<flows, stale>>
    /\ UNCHANGED <<config, addrs, phase, request, flushed, missing, touched>>

\* Http.Start.
Serve ==
    /\ phase = "restore"
    /\ boot.key = NoKey
    /\ boot.left = {}
    /\ phase' = "serve"
    /\ UNCHANGED <<flows, config, others, addrs, boot, request, budget, history>>

-----------------------------------------------------------------------------
(* Addresses of the router: Gateway.OnAddress, under the mutex *)

Watching == phase \in {"restore", "serve"} /\ request = NoRequest

AddLocal(a) ==
    /\ Watching
    /\ a \notin addrs
    /\ addrs' = addrs \cup {a}
    /\ \/ Another /\ flows' = AddFlow(flows, LocalFlow(a)) /\ UNCHANGED touched
       \/ Fault   /\ touched' = TRUE /\ UNCHANGED flows
    /\ UNCHANGED <<config, others, phase, boot, request, flushed, missing, errored, stale>>

DelLocal(a) ==
    /\ Watching
    /\ a \in addrs
    /\ addrs' = addrs \ {a}
    /\ touched' = TRUE
    /\ \/ /\ Another
          /\ flows' = DelFlows(flows, TableNat, LocalMatch(a))
          /\ stale' = stale \cup {h \in BeingAdded : h.match.dst = {a}}
       \/ Fault /\ UNCHANGED <<flows, stale>>
    /\ UNCHANGED <<config, others, phase, boot, request, flushed, missing, errored>>

\* The router's addresses change while no OpenVRR watches them.
AddressWhileDown ==
    /\ phase = "down"
    /\ Another
    /\ \E a \in Addr : addrs' = IF a \in addrs THEN addrs \ {a} ELSE addrs \cup {a}
    /\ UNCHANGED <<flows, config, others, phase, boot, request, history>>

-----------------------------------------------------------------------------
(* REST requests: the handler takes the mutex and starts on its commands *)

Accept(kind, key, val) ==
    /\ phase = "serve"
    /\ request = NoRequest
    /\ Another
    /\ request' = [kind |-> kind, key |-> key, val |-> val, pc |-> 1]
    /\ touched' = TRUE
    /\ UNCHANGED <<flows, config, others, addrs, phase, boot, flushed, missing, errored, stale>>

AddSNAT(source, to) == Accept("add", SnatKey(source), to)

DelSNAT(source) == Accept("del", SnatKey(source), NoVal)

\* Both texts must parse, or the handler answers an error and does nothing.
AddDNAT(proto, dest, destTo) ==
    /\ Parses(proto, dest)
    /\ Parses(proto, destTo)
    /\ Accept("add", DnatKey(proto, dest), destTo)

\* Only for a key the process remembers, whose target it takes from there.
DelDNAT(proto, dest) ==
    /\ Parses(proto, dest)
    /\ others[DnatKey(proto, dest)] # NoVal
    /\ Accept("del", DnatKey(proto, dest), others[DnatKey(proto, dest)])

\* The next ovs-ofctl command of the request in progress.  An error is
\* answered to the client; what was done is not undone.
FlowCommand ==
    /\ request # NoRequest
    /\ request.pc <= LastFlow(request.key)
    /\ \/ /\ NoFault
          /\ \/ /\ request.kind = "add"
                /\ flows' = AddFlow(flows, RuleFlow(request.key, request.val, request.pc))
                /\ stale' = Pointed(request.key, request.val, request.pc)
             \/ /\ request.kind = "del"
                /\ flows' = DelFlows(flows, TableNat,
                                     RuleMatch(request.key, request.val, request.pc))
                /\ UNCHANGED stale
          /\ request' = [request EXCEPT !.pc = @ + 1]
          /\ UNCHANGED errored
       \/ /\ Fault
          /\ request' = NoRequest
          /\ errored' = errored \cup {request.key}
          /\ UNCHANGED <<flows, stale>>
    /\ UNCHANGED <<config, others, addrs, phase, boot, flushed, missing, touched>>

\* Mutant of Persist: a removed rule stays in the map.
PersistNoDelete ==
    /\ request # NoRequest
    /\ request.pc > LastFlow(request.key)
    /\ NoFault
    /\ LET v == IF request.kind = "add" THEN request.val ELSE NoVal
       IN /\ config' = [config EXCEPT ![request.key] = v]
          /\ others' = IF v = NoVal THEN others ELSE [others EXCEPT ![request.key] = v]
    /\ request' = NoRequest
    /\ UNCHANGED <<flows, addrs, phase, boot, history>>

\* All flow commands succeeded: Set.Bridge or RemoveBridge, whose error is
\* ignored, then the map, which only the DNAT operations maintain.
Persist ==
    /\ request # NoRequest
    /\ request.pc > LastFlow(request.key)
    /\ LET k == request.key
           v == IF request.kind = "add" THEN request.val ELSE NoVal
       IN /\ \/ /\ NoFault
                /\ config' = [config EXCEPT ![k] = v]
                /\ UNCHANGED errored
             \/ /\ Fault
                /\ errored' = errored \cup {k}
                /\ UNCHANGED config
          /\ others' = IF k.kind = "dnat" THEN [others EXCEPT ![k] = v] ELSE others
    /\ request' = NoRequest
    /\ UNCHANGED <<flows, addrs, phase, boot, flushed, missing, touched, stale>>

-----------------------------------------------------------------------------
\* The process dies between any two commands.  The bridge keeps its flows and
\* its configuration; the client of a request in progress gets no answer.
Crash ==
    /\ phase # "down"
    /\ budget.crashes < MaxCrashes
    /\ budget' = [budget EXCEPT !.crashes = @ + 1]
    /\ phase' = "down"
    /\ boot' = NoBoot
    /\ request' = NoRequest
    /\ others' = [k \in Keys |-> NoVal]
    /\ errored' = errored \cup (({request.key} \cup {boot.key}) \cap Keys)
    /\ UNCHANGED <<flows, config, addrs, flushed, missing, touched, stale>>

\* ovs-vswitchd is started again, by an operator: it knows its configuration
\* and no flow.  Nobody tells the process, which programs nothing again.
SwitchRestart ==
    /\ Fault
    /\ flows' = {}
    /\ missing' = IF phase = "init" THEN missing \cup {i \in BaseIds : i < boot.pc} ELSE BaseIds
    /\ errored' = errored \cup ({request.key, boot.key} \cap Keys)
    /\ touched' = TRUE
    /\ stale' = stale \cup BeingAdded
    /\ UNCHANGED <<config, others, addrs, phase, boot, request, flushed>>

StartUp == \/ Boot \/ Flush \/ AddBase \/ ListLocal \/ ReadConfig
           \/ PickKey \/ RestoreFlow \/ Serve

Rest == \/ \E s \in Sources : DelSNAT(s) \/ \E t \in SnatTos : AddSNAT(s, t)
        \/ \E d \in DnatTexts : \/ DelDNAT(d[1], d[2])
                                \/ \E t \in ToTexts : AddDNAT(d[1], d[2], t)

Next == \/ StartUp
        \/ \E a \in Addr : AddLocal(a) \/ DelLocal(a)
        \/ AddressWhileDown
        \/ Rest
        \/ FlowCommand
        \/ Persist
        \/ Crash
        \/ SwitchRestart

\* The container is started again (docker/compose.yml: restart: always), and
\* start-up runs to its end, the commands it runs returning, failed or not.
\* Nothing is assumed of a request's commands: Set.Bridge waits for an
\* ovs-vswitchd that nobody restarts.
Fairness == WF_vars(StartUp)

Spec == Init /\ [][Next]_vars /\ Fairness

-----------------------------------------------------------------------------
(* Properties *)

Store == {f \in [Keys -> Values \cup {NoVal}] :
            \A k \in Keys : f[k] \in ValuesOf(k) \cup {NoVal}}

RequestOK ==
    /\ request \in [kind : Kinds, key : Keys \cup {NoKey},
                    val : Values \cup {NoVal}, pc : 0..5]
    /\ request.kind = "none" => request = NoRequest
    /\ request # NoRequest =>
         /\ phase = "serve"
         /\ request.key \in Keys
         /\ request.pc \in 1..(LastFlow(request.key) + 1)
         /\ request.kind = "add" => request.val \in ValuesOf(request.key)
         /\ request.key.kind = "dnat" => request.val \in ValuesOf(request.key)

BootOK ==
    /\ boot \in [pc : 0..9, left : SUBSET (Addr \cup Keys), key : Keys \cup {NoKey}]
    /\ phase = "list" => boot.left \subseteq Addr
    /\ phase = "restore" => \A k \in boot.left : k \in Keys /\ config[k] # NoVal
    /\ boot.key # NoKey => /\ phase = "restore"
                           /\ config[boot.key] # NoVal
                           /\ boot.pc \in 1..LastFlow(boot.key)

\* The types, and what the start-up and a request in progress have in hand.
TypeOK ==
    /\ \A x \in flows : x.match \in Match
    /\ config \in Store
    /\ others \in Store
    /\ addrs \subseteq Addr
    /\ phase \in Phases
    /\ BootOK
    /\ RequestOK
    /\ flushed \in BOOLEAN
    /\ missing \subseteq BaseIds
    /\ errored \subseteq Keys
    /\ touched \in BOOLEAN
    /\ stale \subseteq AllHairpins

\* A base flow this run installed stays: no delete of any rule, route or
\* address reaches it, not even the one of the SNAT rule for all sources.
SkeletonKept ==
    \A i \in BaseIds \ missing :
        (phase \in {"list", "restore", "serve"} \/ (phase = "init" /\ i < boot.pc))
            => BaseFlow[i] \in flows

\* A hairpin flow (priority 162) stands only beside the redirection to its own
\* target, in no state without it: between two commands, after an error, after a
\* crash.  Left behind are those in stale: of an earlier target, which AddDNAT
\* to another one does not remove (switch.go:640); of a rule that start-up adds,
\* without the mutex, while its address is lost; of one whose flows are being
\* added when the switch restarts.
HairpinHasRedirect ==
    \A k \in DnatKeys : \A to \in ValuesOf(k) :
        Hairpin(k, to) \in flows \ stale => Redirect(k, to) \in flows

\* Keys as RuleStore sees them: a value is what it does to packets, and a key
\* is in doubt if a command for it failed in this run, or the flush did.
Effect(k, v) == IF v = NoVal \/ k.kind = "snat" THEN v ELSE ParseBind(k.proto, v)
Effects == SnatTos \cup {ParseBind(p, t) : p \in {"icmp", "tcp"}, t \in ToTexts}
Actor(k, t) == IF k.kind = "snat" THEN SnatFlow(k.source, t) ELSE Redirect(k, t)
Acting(T, k) == {Effect(k, t) : t \in {v \in ValuesOf(k) : Actor(k, v) \in T}}
Asked == IF request.kind = "add" THEN Effect(request.key, request.val) ELSE NoVal
Serving == phase = "serve"

KeptEffects   == [k \in Keys |-> Effect(k, config[k])]
ListedEffects == [k \in Keys |-> IF Serving THEN Effect(k, others[k]) ELSE NoVal]
ActingEffects == [k \in Keys |-> Acting(flows, k)]
InDoubt       == IF Serving /\ flushed THEN errored ELSE Keys

Rules == INSTANCE RuleStore WITH
    ListedKeys <- DnatKeys,
    NoEffect <- NoVal,
    up     <- Serving,
    rule   <- KeptEffects,
    listed <- ListedEffects,
    acting <- ActingEffects,
    busy   <- request.key,
    goal   <- Asked,
    doubt  <- InDoubt

\* The Composer keeps what RuleStore promises, command by command: a request
\* that ends well leaves its rule kept, listed and acting; no other step
\* starts an effect or changes a rule; a crash keeps what is kept; and a
\* process that has come up lists and does what was kept, nothing else.
ImplementsRuleStore == Rules!Spec

\* Everything the tables should hold for what is configured.
Expected ==
    {BaseFlow[i] : i \in BaseIds}
    \cup {LocalFlow(a) : a \in addrs}
    \cup UNION {{RuleFlow(k, config[k], i) : i \in RuleIds(k)} :
                    k \in {x \in Keys : config[x] # NoVal}}

\* A start without errors rebuilds exactly that, whatever the earlier runs
\* left in the tables, and lists every rule.
RestoredExactly ==
    phase = "serve" /\ flushed /\ missing = {} /\ errored = {} /\ ~touched
        => flows = Expected /\ others = config

\* A redirection disappears only by a request for its own rule, by the loss
\* of its external address, by the SNAT removal for all sources, by the flush
\* of a start, or by a restart of the switch.
RedirectLossHasCause ==
    [][\A k \in DnatKeys, to \in ToTexts :
          /\ Parses(k.proto, to)
          /\ Redirect(k, to) \in flows
          /\ Redirect(k, to) \notin flows'
          => \/ phase = "init"
             \/ k \in {request.key, boot.key}
             \/ k.bind.addr \in addrs \ addrs'
             \/ flows' = {}
             \/ request.kind = "del" /\ request.key = SnatKey(Addr)]_vars

\* Whatever fails, lost addresses and switch restarts included, a process that
\* stops crashing ends up serving, given that start-up's commands return.
EndsUpServing == <>[](phase = "serve")

-----------------------------------------------------------------------------
(* Statements of the documentation the code does not keep *)

Quiet == phase = "serve" /\ flushed /\ errored = {} /\ missing = {} /\ request = NoRequest

\* README.md:73: a DNAT rule redirects all traffic for its external address.
ListedRedirects ==
    Quiet => \A k \in DnatKeys :
        others[k] # NoVal => Redirect(k, others[k]) \in flows

\* README.md:69: a SNAT rule translates the traffic from its subnet.
StoredTranslates ==
    Quiet => \A s \in Sources :
        config[SnatKey(s)] # NoVal => SnatFlow(s, config[SnatKey(s)]) \in flows

\* cmd/sub/nat.go:84, "List all snats": every translation is listed.
TranslationsAreListed ==
    Quiet => \A s \in Sources, t \in SnatTos :
        SnatFlow(s, t) \in flows => others[SnatKey(s)] = t
=============================================================================
