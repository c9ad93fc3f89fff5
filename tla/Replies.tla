------------------------------- MODULE Replies -------------------------------
(***************************************************************************)
(* A process that asks the switch through the ovs commands, and what it    *)
(* makes of the replies: statistics and traces, the conntrack limits of a  *)
(* datapath, the ports of the bridge while they come and go, and the NAT   *)
(* rules that are kept as text in other_config.  A command prints what the *)
(* switch holds at that moment, it can fail, and a warning can be a line   *)
(* of its reply.  StatsText and RuleText say what is read.                 *)
(*                                                                         *)
(* Topics share nothing but client.exec, so that a process has one topic.  *)
(***************************************************************************)
EXTENDS StatsText, RuleText, FiniteSets

CONSTANTS
    PortScenes, TableScenes, FlowScenes, TraceScenes,  \* what a switch can hold
    PortNames,   \* names of ports of the bridge
    BridgePorts, \* what ovs-vsctl shows of a port
    Zones,       \* conntrack zones
    LimitMaps,   \* what SetCTLimits is asked to set
    Requests,    \* NAT rules that clients add, see RuleText
    MaxSteps     \* bound: changes of the switch and requests

VARIABLES
    topic,    \* "statistics", "limits", "interfaces" or "rules"
    result,   \* of the last query: what it was of, what the switch held, what was read
    limits,   \* conntrack limits: of each zone that has one, and of the others
    ports,    \* ports of the bridge, by name
    call,     \* a listing of the interfaces in progress
    held,     \* history of a listing: ports there were, as it began and since, and those
              \* that went, or that a command failed for
    stored,   \* other_config: key -> value
    others,   \* Composer.others
    rules,    \* the Nat table: slot -> target
    wanted,   \* history: key -> the rule that was asked for
    fresh,    \* "clean" or "noisy" from a restart to the next request
    steps

switch == <<limits, ports, call, held>>
nat    == <<stored, others, rules, wanted, fresh>>
vars   == <<topic, result, switch, nat, steps>>

Nothing  == [k \in {} |-> <<>>]
NoResult == [of |-> "nothing", truth |-> <<>>, kind |-> "none", value |-> <<>>, clear |-> TRUE]
NoHistory == [first |-> {}, shown |-> {}, lost |-> {}]
NoCall   == [phase |-> "idle", names |-> <<>>, port |-> <<>>, data |-> <<>>]

Init ==
    /\ topic \in {"statistics", "limits", "interfaces", "rules"}
    /\ result = NoResult
    /\ limits = [others |-> "0", of |-> Nothing]
    /\ ports = Nothing /\ call = NoCall /\ held = NoHistory
    /\ stored = Nothing /\ others = Nothing /\ rules = Nothing
    /\ wanted = Nothing /\ fresh = "no"
    /\ steps = 0

Step      == steps < MaxSteps /\ steps' = steps + 1
On(t)     == topic = t /\ UNCHANGED topic
Without(map, keys) == [k \in DOMAIN map \ keys |-> map[k]]
With(map, key, val) == [k \in DOMAIN map \cup {key} |-> IF k = key THEN val ELSE map[k]]

-----------------------------------------------------------------------------
(* What a command prints; a warning is before line at, or nowhere if at = 0. *)

Noisy(lines, at) == IF at = 0 THEN lines ELSE InsertAt(lines, at, Warning)
Places(lines)    == 0..Len(lines) + 1
Pairs(keys, vals) == [i \in DOMAIN keys |-> Pair(keys[i], vals[i])]

\* dump-ports: two lines a port, one more from OpenFlow 1.3 on, and two more of
\* OpenFlow 1.4 for a port with custom statistics.  The banner names the version
\* from 1.1 on.
PrintPort(p, version) ==
    <<Indented(Line(<<Word("port"), Pair(p.id, ":"), Word("rx")>> \o Pairs(RxKeys, p.rx))),
      Indented(Line(<<Word("tx")>> \o Pairs(TxKeys, p.tx)))>>
    \o (IF version \in {"1.0", "1.2"} THEN <<>> ELSE <<Indented(Line(<<Pair("duration", "1s")>>))>>)
    \o (IF version = "1.4" /\ p.custom
        THEN <<Indented(Line(<<Word("CUSTOM"), Word("Statistics")>>)),
               Indented(Line(<<Pair("drops", "0")>>))>>
        ELSE <<>>)
PrintPorts(s) ==
    <<Line(<<Word("OFPST_PORT"), Word("reply")>>
           \o (IF s.version = "1.0" THEN <<>> ELSE <<Word("(OF1.")>>))>>
    \o FlattenSeq([i \in DOMAIN s.ports |-> PrintPort(s.ports[i], s.version)])

\* dump-tables: the colon after a name is a word of its own unless it touches.
PrintTable(t) ==
    <<Indented(Line(<<Pair(t.id, ":")>>
                    \o (IF t.touches THEN <<Pair(t.name, ":")>> ELSE <<Word(t.name), Pair("", ":")>>)
                    \o <<Pair("wild", "mask"), Pair("max", t.counts[1]), Pair("active", t.counts[2])>>)),
      Indented(Line(<<Pair("lookup", t.counts[3]), Pair("matched", t.counts[4])>>))>>
PrintTables(ts) ==
    <<Line(<<Word("OFPST_TABLE"), Word("reply")>>)>>
    \o FlattenSeq([i \in DOMAIN ts |-> PrintTable(ts[i])])

PrintAggregate(f) ==
    <<Line(<<Word("NXST_AGGREGATE"), Word("reply")>> \o Pairs(FlowKeys, <<f.packets, f.bytes, "1">>))>>

\* ofproto/trace: a pass through the tables, and another one after each recirculation.
FlowFields(f) ==
    (IF f.protocol = "" THEN <<Word("unchanged")>> ELSE <<Pair("recirc_id", "0"), Word("eth"), Word(f.protocol)>>)
    \o f.matches \o f.strange
PrintPass(p) ==
    (IF p.resumed THEN <<Line(<<Word("===")>>), Line(<<Word("resume conntrack with")>>)>> ELSE <<>>)
    \o <<Line(<<Word("Flow:")>> \o FlowFields(p.flow)), Line(<<Word("bridge(")>>)>>
    \o (IF p.resumed THEN <<Indented(Line(<<Word("thaw")>>))>> ELSE <<>>)
    \o <<Indented(Line(<<Word("0."), Word("ip")>>))>>
    \o [i \in DOMAIN p.actions |-> Indented(Line(p.actions[i]))]
    \o <<Line(<<Word("Final flow:")>> \o FlowFields(p.final)),
         Line(<<Word("Megaflow:")>>),
         Line(<<Word("Datapath actions:")>> \o p.datapath)>>
PrintTrace(passes) == FlattenSeq([i \in DOMAIN passes |-> PrintPass(passes[i])])

-----------------------------------------------------------------------------
(* Statistics and traces: one command each, which may fail *)

\* A reply is clear if no warning is in it and nothing that the code does not
\* expect from ovs.
Result(of, truth, read, clear) ==
    result' = [of |-> of, truth |-> truth, kind |-> read.kind, value |-> read.value, clear |-> clear]
\* What a clear reply should be read as.
Counted(vals) == [i \in DOMAIN vals |-> IF vals[i] = "?" THEN "0" ELSE vals[i]]
PortTruth(p)  == [id |-> p.id, rx |-> Counted(p.rx), tx |-> Counted(p.tx)]
PortsTruth(s) == [i \in DOMAIN s.ports |-> PortTruth(s.ports[i])]
TablesTruth(ts) ==
    LET used == SelectSeq(ts, LAMBDA t : \E i \in 2..4 : t.counts[i] # "0")
    IN [i \in DOMAIN used |-> [id |-> used[i].id, name |-> used[i].name, wild |-> "mask",
                               counts |-> used[i].counts]]
FlowTruth(f)  == [protocol |-> f.protocol, matches |-> f.matches]
\* The flow a trace begins with, and the rest of it as the last pass leaves it.
TraceTruth(ps) ==
    LET actions(p) == p.actions \o (IF Contains(p.datapath, Word("recirc(")) THEN <<<<Word("recirc")>>>> ELSE <<>>)
    IN [input    |-> <<FlowTruth(Head(ps).flow)>>,
        final    |-> <<FlowTruth(Last(ps).final)>>,
        datapath |-> <<Last(ps).datapath>>,
        actions  |-> FlattenSeq([i \in DOMAIN ps |-> actions(ps[i])])]

\* parseEach looks for the duration from OpenFlow 1.1 on, where 1.1 and 1.2 have
\* none, and takes the custom statistics of one port for those of every port.
Alike(s) ==
    \/ s.version \in {"1.0", "1.3"} \/ s.ports = <<>>
    \/ s.version = "1.4" /\ \A i, j \in DOMAIN s.ports : s.ports[i].custom = s.ports[j].custom
\* A flow has nothing that DataPathFlows refuses.
Known(ps) == \A i \in DOMAIN ps : \A f \in ToSet(ps[i].flow.strange) \cup ToSet(ps[i].final.strange) : ~Bad(f)

Statistics == On("statistics") /\ result = NoResult /\ UNCHANGED <<switch, nat, steps>>

QueryPorts(s, at) ==
    /\ Statistics /\ at \in Places(PrintPorts(s))
    /\ Result("ports", PortsTruth(s), DumpPorts(Noisy(PrintPorts(s), at)), at = 0 /\ Alike(s))
\* dump-ports of one port, or of a name that ovs-ofctl takes for several.
QueryPort(s, at) ==
    /\ Statistics /\ at \in Places(PrintPorts(s))
    /\ Result("port", IF Len(s.ports) = 1 THEN PortTruth(s.ports[1]) ELSE <<>>,
              DumpPort(Noisy(PrintPorts(s), at)), at = 0 /\ Alike(s) /\ Len(s.ports) = 1)
QueryTables(ts, at) ==
    /\ Statistics /\ at \in Places(PrintTables(ts))
    /\ Result("tables", TablesTruth(ts), DumpTables(Noisy(PrintTables(ts), at)), at = 0)
QueryAggregate(f, at) ==
    /\ Statistics /\ at \in Places(PrintAggregate(f))
    /\ Result("aggregate", f, DumpAggregate(Noisy(PrintAggregate(f), at)), at = 0)
QueryTrace(ps, at) ==
    /\ Statistics /\ at \in Places(PrintTrace(ps))
    /\ Result("trace", TraceTruth(ps), ProtoTrace(Noisy(PrintTrace(ps), at)), at = 0 /\ Known(ps))

-----------------------------------------------------------------------------
(* Conntrack limits *)

Limits == On("limits") /\ UNCHANGED <<ports, call, held, nat>>

\* SetCTLimits and DelCTLimits, which refuse what ovs-dpctl would not take.
SetCTLimits(asked) ==
    /\ Limits /\ Step /\ result' = NoResult
    /\ limits' = IF SetArgs(asked) = {} THEN limits
                 ELSE LET args == CHOOSE a \in SetArgs(asked) : TRUE
                      IN IF "default" \in DOMAIN args THEN [limits EXCEPT !.others = args["default"]]
                         ELSE [limits EXCEPT !.of = With(@, args["zone"], args["limit"])]
DelCTLimits(zones) ==
    /\ Limits /\ Step /\ result' = NoResult
    /\ limits' = IF zones = <<>> THEN limits
                 ELSE [limits EXCEPT !.of = Without(@, ToSet(zones))]

\* ct-get-limits: the default, then the zones asked for, or all that have a limit.
LimitOf(z) == IF z \in DOMAIN limits.of THEN limits.of[z] ELSE limits.others
Reported(zones) == IF zones = <<>> THEN SetToSeq(DOMAIN limits.of) ELSE zones
ZonePairs(z) == <<Pair("zone", z), Pair("limit", LimitOf(z)), Pair("count", "0")>>
PrintLimits(zones) ==
    <<Line(<<Pair("default limit", limits.others)>>)>>
    \o [i \in DOMAIN Reported(zones) |-> Line(ZonePairs(Reported(zones)[i]))]
QueryLimits(zones, at) ==
    /\ Limits /\ UNCHANGED <<limits, steps>> /\ at \in Places(PrintLimits(zones))
    /\ Result("limits",
              [default |-> <<limits.others>>,
               zones |-> [i \in DOMAIN Reported(zones) |-> ZonePairs(Reported(zones)[i])]],
              GetCTLimits(Noisy(PrintLimits(zones), at)), at = 0)
-----------------------------------------------------------------------------
(* The interfaces of the bridge, one command after the other *)

Interfaces == On("interfaces") /\ UNCHANGED <<limits, nat>>
Names      == SetToSeq(DOMAIN ports)
Lost(name) == held' = [held EXCEPT !.lost = @ \cup {name}]

\* Ports are added, set and removed by others, between any two commands.
SetPort(name, port) ==
    /\ Interfaces /\ Step /\ UNCHANGED <<result, call>>
    /\ ports' = With(ports, name, port)
    /\ held' = [held EXCEPT !.shown = @ \cup {[name |-> name, port |-> port]}]
RemovePort(name) ==
    /\ Interfaces /\ Step /\ UNCHANGED <<result, call>>
    /\ name \in DOMAIN ports
    /\ ports' = Without(ports, {name})
    /\ Lost(name)

\* Composer.listPorts: the names first.
PrintNames == [i \in DOMAIN Names |-> Line(<<Word(Names[i])>>)]
ListNames(at) ==
    /\ Interfaces /\ UNCHANGED <<ports, steps>>
    /\ call.phase = "idle" /\ at \in Places(PrintNames)
    /\ call' = [phase |-> "port", names |-> ListPorts(Noisy(PrintNames, at)), port |-> <<>>, data |-> <<>>]
    /\ held' = [first |-> DOMAIN ports, lost |-> {},
                shown |-> {[name |-> n, port |-> ports[n]] : n \in DOMAIN ports}]
    /\ result' = NoResult

\* Then list port of each; a port that is gone, or another failure, skips it.
Onwards(data) == [call EXCEPT !.phase = "port", !.names = Tail(@), !.port = <<>>, !.data = data]
PrintPortRecord(name) ==
    <<Line(<<Pair("mac", Unset)>>), Line(<<Pair("name", name)>>),
      Line(<<Pair("tag", ports[name].tag)>>), Line(<<Pair("trunks", ports[name].trunks)>>)>>
ListPort(at) ==
    /\ Interfaces /\ UNCHANGED <<ports, held, result, steps>>
    /\ call.phase = "port" /\ call.names # <<>>
    /\ IF Head(call.names) \in DOMAIN ports
       THEN /\ at \in Places(PrintPortRecord(Head(call.names)))
            /\ call' = [call EXCEPT !.phase = "interface",
                                    !.port = Noisy(PrintPortRecord(Head(call.names)), at)]
       ELSE at = 0 /\ call' = Onwards(call.data)
ListPortFails ==
    /\ Interfaces /\ Step /\ UNCHANGED <<ports, result>>
    /\ call.phase = "port" /\ call.names # <<>>
    /\ call' = Onwards(call.data) /\ Lost(Head(call.names))

\* And list interface, whose failure is not looked at.
PrintInterface(name) ==
    <<Line(<<Pair("link_state", ports[name].link)>>), Line(<<Pair("mac_in_use", ports[name].mac)>>),
      Line(<<Pair("ofport", ports[name].ofport)>>)>>
GotPort(lines) == Onwards(Append(call.data, PortData(call.port, lines)))
ListInterface(at) ==
    /\ Interfaces /\ UNCHANGED <<ports, held, result, steps>>
    /\ call.phase = "interface"
    /\ IF Head(call.names) \in DOMAIN ports
       THEN /\ at \in Places(PrintInterface(Head(call.names)))
            /\ call' = GotPort(Noisy(PrintInterface(Head(call.names)), at))
       ELSE at = 0 /\ call' = GotPort(<<>>)
ListInterfaceFails ==
    /\ Interfaces /\ Step /\ UNCHANGED <<ports, result>>
    /\ call.phase = "interface"
    /\ call' = GotPort(<<>>) /\ Lost(Head(call.names))
EndListing ==
    /\ Interfaces /\ UNCHANGED <<ports, held, steps>>
    /\ call.phase = "port" /\ call.names = <<>>
    /\ call' = NoCall
    /\ Result("interfaces", <<>>, Ok(call.data), TRUE)

-----------------------------------------------------------------------------
(* NAT rules, of which only the text survives the process *)

Rules == On("rules") /\ UNCHANGED <<result, switch>>

\* AddSNAT and AddDNAT; only the latter is remembered in others.
AddRule(r) ==
    /\ Rules /\ Step /\ fresh' = "no"
    /\ Accepted(r)
    /\ rules' = With(rules, SlotOf(r), TargetOf(r))
    /\ stored' = With(stored, KeyOf(r), r.to)
    /\ others' = IF r.kind = "dnat" THEN With(others, KeyOf(r), r.to) ELSE others
    /\ wanted' = With(wanted, KeyOf(r), r)

\* ListSNAT and ListDNAT, as a client sees them.
Listed == {RuleOf(k, others[k]) : k \in DOMAIN others}

\* Mutant of DelRule: what is deleted stays in other_config.
DelRuleOnce(r) ==
    /\ Rules /\ Step /\ fresh' = "no"
    /\ Accepted(r)
    /\ IF r.kind = "snat" \/ KeyOf(r) \in DOMAIN others
       THEN /\ rules' = Without(rules, {SlotOf(r)})
            /\ stored' = stored
            /\ others' = IF r.kind = "dnat" THEN Without(others, {KeyOf(r)}) ELSE others
            /\ wanted' = Without(wanted, {KeyOf(r)})
       ELSE UNCHANGED <<stored, others, rules, wanted>>

\* DelSNAT and DelDNAT, for what a client added or has read in a listing.
DelRule(r) ==
    /\ Rules /\ Step /\ fresh' = "no"
    /\ Accepted(r)
    /\ IF r.kind = "snat" \/ KeyOf(r) \in DOMAIN others
       THEN /\ rules' = Without(rules, {SlotOf(r)})
            /\ stored' = Without(stored, {KeyOf(r)})
            /\ others' = IF r.kind = "dnat" THEN Without(others, {KeyOf(r)}) ELSE others
            /\ wanted' = Without(wanted, {KeyOf(r)})
       ELSE UNCHANGED <<stored, others, rules, wanted>>

\* A new process: Init empties the tables, Start reads other_config, whose
\* pairs are printed in any order, and visits them in any other.
Warned(text, at) == CASE at = 0 -> text [] at = 1 -> <<"sudo">> \o text [] OTHER -> text \o <<"sudo">>
Restart(order, at) ==
    /\ Rules /\ UNCHANGED <<stored, wanted, steps>>
    /\ LET map      == ParseMap(Warned(PrintMap(stored, order), at))
           accepted == {k \in DOMAIN map : Accepted(RuleOf(k, map[k]))}
           rule(k)  == RuleOf(k, map[k])
           slots    == {SlotOf(rule(k)) : k \in accepted}
       IN /\ others' = [k \in accepted |-> map[k]]
          /\ rules' \in {f \in [slots -> {TargetOf(rule(k)) : k \in accepted}] :
                           \A s \in slots : \E k \in accepted :
                              SlotOf(rule(k)) = s /\ TargetOf(rule(k)) = f[s]}
    /\ fresh' = IF at = 0 THEN "clean" ELSE "noisy"

Ask ==
    \/ \E s \in PortScenes : \E at \in Places(PrintPorts(s)) : QueryPorts(s, at) \/ QueryPort(s, at)
    \/ \E ts \in TableScenes : \E at \in Places(PrintTables(ts)) : QueryTables(ts, at)
    \/ \E f \in FlowScenes : \E at \in Places(PrintAggregate(f)) : QueryAggregate(f, at)
    \/ \E ps \in TraceScenes : \E at \in Places(PrintTrace(ps)) : QueryTrace(ps, at)
Limit ==
    \/ \E asked \in LimitMaps : SetCTLimits(asked)
    \/ \E zones \in SeqOf(Zones, 2) :
          DelCTLimits(zones) \/ \E at \in Places(PrintLimits(zones)) : QueryLimits(zones, at)
List ==
    \/ \E name \in PortNames : RemovePort(name) \/ \E port \in BridgePorts : SetPort(name, port)
    \/ \E at \in 0..5 : ListNames(at) \/ ListPort(at) \/ ListInterface(at)
    \/ ListPortFails \/ ListInterfaceFails \/ EndListing
Rule ==
    \/ \E r \in Requests : AddRule(r)
    \/ \E r \in Requests \cup Listed : DelRule(r)
    \/ \E order \in SetToSeqs(DOMAIN stored), at \in 0..2 : Restart(order, at)
Next == Ask \/ Limit \/ List \/ Rule

Spec == Init /\ [][Next]_vars

-----------------------------------------------------------------------------
(* Properties *)

\* Limits, ports and rules are of zones, ports and slots there are, and what is
\* stored is under the key of the rule that was asked for.
TypeOK ==
    /\ DOMAIN limits.of \subseteq Zones
    /\ DOMAIN ports \subseteq PortNames
    /\ call.phase \in {"idle", "port", "interface"}
    /\ DOMAIN stored = DOMAIN wanted
    /\ \A k \in DOMAIN wanted : wanted[k] \in Requests /\ KeyOf(wanted[k]) = k
    /\ DOMAIN others \subseteq DOMAIN stored \cup {KeyOf(r) : r \in {q \in Requests : q.kind = "snat"}}
    /\ \A s \in DOMAIN rules : s.bind.port \in {0} \cup {PortNumber[w] : w \in DOMAIN PortNumber}

\* A listing of the interfaces has the ports that were there all the while, each
\* once; what it says of one was so since the listing began, but that the
\* interface's half is blank if the port, or the command, was lost between the
\* two (switch.go:192-209, vswitch.go:286-329).
HasPort(data) == \E h \in held.shown : /\ h.name = data.name /\ data.tag = Count(h.port.tag)
                                       /\ data.trunks = Trim(h.port.trunks)
HasInterface(data) ==
    \/ data.name \in held.lost /\ data.link = "" /\ data.ofport = "0" /\ data.mac = ""
    \/ \E h \in held.shown : /\ h.name = data.name /\ data.link = h.port.link
                             /\ data.mac = Trim(h.port.mac) /\ data.ofport = Count(h.port.ofport)
ListedAsHeld ==
    call.phase = "port" =>
        /\ \A i \in DOMAIN call.data : HasPort(call.data[i]) /\ HasInterface(call.data[i])
        /\ \A i, j \in DOMAIN call.data : call.data[i].name = call.data[j].name => i = j
        /\ held.first \subseteq {call.data[i].name : i \in DOMAIN call.data}
                                \cup held.lost \cup ToSet(call.names)

\* What was read is what the switch held when the command printed it, even if a
\* warning was in the reply; what comes with an error is a part of it; a clear
\* reply is read; and no reader panics but GetCTLimits, on a warning.  Excepted
\* of a trace are the action that a warning looks like, and the input flow of one
\* that recirculates: UnmarshalText replaces it by the flow of every later pass,
\* whatever "initial" says (client.go:70, openflow.go:411-465,
\* datapath.go:178-205, proto_trace.go:31, 74 and 146-219).
Recirculates(trace) == Contains(trace.actions, <<Word("recirc")>>)
Excepting(trace, truth) ==
    [trace EXCEPT !.actions = SelectSeq(@, LAMBDA a : a # RestOf(Warning)),
                  !.input   = IF Recirculates(truth) THEN truth.input ELSE @]
OkIsTruth ==
    /\ ListedAsHeld
    /\ result.of # "interfaces" =>
        /\ result.kind = "ok" =>
              (IF result.of = "trace" THEN Excepting(result.value, result.truth) ELSE result.value)
                  = result.truth
        /\ result.kind = "error" => result.value = <<>> \/ IsPrefix(result.value, result.truth)
        /\ result.kind = "panic" => result.of = "limits"
        /\ result.clear => result.kind \in {"none", "ok"}

\* A new process has the rules that were asked for, and no others.  Of two that
\* share a slot it has one (switch.go:523).  Excepted are a redirection of a
\* prefix, whose length is read as the port (switch.go:634), and what a comma in
\* a value cuts off: its rest and the pairs after it (vswitch.go:197-205).  A
\* warning in the reply loses all of them.
Prefixed(r) == r.kind = "dnat" /\ HasSep(r.dest, "/")
HasComma(r) == HasSep(r.to, ",")
IsAsked(s)  == \E k \in DOMAIN wanted : SlotOf(wanted[k]) = s /\ TargetOf(wanted[k]) = rules[s]
IsMisread(s) == \E k \in DOMAIN wanted : /\ Prefixed(wanted[k]) \/ HasComma(wanted[k])
                                         /\ SlotOf(RuleOf(k, wanted[k].to)) = s
RestoredIsAsked ==
    fresh # "no" =>
        /\ \A s \in DOMAIN rules : IsAsked(s) \/ IsMisread(s)
        /\ fresh = "clean" /\ (\A k \in DOMAIN wanted : ~HasComma(wanted[k])) =>
              \A k \in DOMAIN wanted : ~Prefixed(wanted[k]) => SlotOf(wanted[k]) \in DOMAIN rules

\* What a client reads in a listing it can delete, in the same words: the rule
\* that was asked for stops, is not stored and, for a redirection, not listed any
\* more.  The flows of a redirection of a prefix stay (switch.go:31-39, 749).
ListedIsDeletable ==
    [][\A l \in Listed :
          DelRule(l) =>
              /\ KeyOf(l) \notin DOMAIN stored'
              /\ l.kind = "dnat" => l \notin Listed'
              /\ \A k \in DOMAIN wanted \cap {KeyOf(l)} :
                    ~Prefixed(wanted[k]) => SlotOf(wanted[k]) \notin DOMAIN rules']_vars
=============================================================================
