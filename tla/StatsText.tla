------------------------------ MODULE StatsText ------------------------------
(***************************************************************************)
(* The statistics, traces and records that the ovs commands print, and     *)
(* what the client reads from them.  A reply is a sequence of lines, and   *)
(* stderr is part of it (client.go:70-72), so that a warning can be one of *)
(* the lines.  What a reader returns has a kind: "ok", an "error" that     *)
(* comes with what was read before it, or a "panic".                       *)
(***************************************************************************)
EXTENDS Integers, SequencesExt

CONSTANT Numbers    \* texts that strconv parses

\* A field of a line: a word, or what "=" or a colon cuts into two.
Pair(key, val) == [key |-> key, val |-> val]
Word(word)     == Pair(word, "")
Line(fields)   == [indent |-> FALSE, fields |-> fields]
Indented(line) == [line EXCEPT !.indent = TRUE]

\* One line of stderr: it starts at the margin, and has neither "=" nor comma.
Warning == Line(<<Pair("sudo", ":"), Word("unable")>>)

Ok(value)    == [kind |-> "ok", value |-> value]
Error(value) == [kind |-> "error", value |-> value]
Panic        == [kind |-> "panic", value |-> <<>>]

IsNumber(f) == f.val \in Numbers
IsPair(f)   == f.val \notin {"", ":"}

\* The fields of lines that are appended to each other: the last field of one
\* and the first of the next are a single one unless a blank is between them.
Appended(l1, l2) ==
    IF l2.indent THEN l1.fields \o l2.fields
    ELSE Front(l1.fields) \o <<Pair("glued", "glued")>> \o Tail(l2.fields)

\* The value under a key; of a key given twice, the last one.
ValueOf(fields, key, default) ==
    LET at == SelectLastInSeq(fields, LAMBDA f : f.key = key)
    IN IF at = 0 THEN default ELSE fields[at].val

-----------------------------------------------------------------------------
(* ovs-ofctl dump-ports and dump-tables *)

HasPrefix(lines, word) == lines # <<>> /\ lines[1].fields[1].key = word

\* Mutant of Stride: custom statistics are not known.
StrideNoCustom(lines) == IF Contains(lines[1].fields, Word("(OF1.")) THEN 3 ELSE 2

\* Lines of an entry: the third is taken for the duration from OpenFlow 1.1 on,
\* custom statistics are two more, of every port as soon as one has them.
Stride(lines) ==
    IF ~Contains(lines[1].fields, Word("(OF1.")) THEN 2
    ELSE IF \E i \in DOMAIN lines : Contains(lines[i].fields, Word("CUSTOM")) THEN 5 ELSE 3

\* parseEach, without the callback: the fields of every entry, and an error if
\* the last one is cut short.
ParseEach(lines, prefix) ==
    IF ~HasPrefix(lines, prefix) THEN Error(<<>>)
    ELSE LET stride  == Stride(lines)
             body    == Tail(lines)
             entries == [i \in 1..Len(body) \div stride |->
                            Appended(body[stride * (i - 1) + 1], body[stride * (i - 1) + 2])]
         IN IF Len(body) % stride = 0 THEN Ok(entries) ELSE Error(entries)

\* What the callback made of each entry, up to its first error.
Collected(parsed, results) ==
    LET bad  == SelectInSeq(results, LAMBDA r : r.kind # "ok")
        good == [i \in 1..(IF bad = 0 THEN Len(results) ELSE bad - 1) |-> results[i].value]
    IN CASE bad # 0 /\ results[bad] = Panic      -> Panic
         [] bad # 0 \/ parsed.kind = "error"     -> Error(good)
         [] OTHER                               -> Ok(good)

RxKeys == <<"pkts", "bytes", "drop", "errs", "frame", "over", "crc">>
TxKeys == <<"pkts", "bytes", "drop", "errs", "coll">>

\* PortStats.UnmarshalText: 16 fields, with "port", "rx" and "tx" in their places;
\* a counter that the port does not have counts as 0.
Counter(fields, key) == LET val == ValueOf(fields, key, "0") IN IF val = "?" THEN "0" ELSE val
IsCounter(f)         == IsPair(f) /\ (IsNumber(f) \/ f.val = "?")
ReadPort(fields) ==
    IF /\ Len(fields) = 16
       /\ fields[1].key = "port" /\ fields[3] = Word("rx") /\ fields[11] = Word("tx")
       /\ fields[2].key \in Numbers \cup {"LOCAL"}
       /\ \A i \in 4..16 : i # 11 => IsCounter(fields[i])
    THEN Ok([id |-> fields[2].key,
             rx |-> [i \in DOMAIN RxKeys |-> Counter(SubSeq(fields, 4, 10), RxKeys[i])],
             tx |-> [i \in DOMAIN TxKeys |-> Counter(SubSeq(fields, 12, 16), TxKeys[i])]])
    ELSE Error(<<>>)

DumpPorts(lines) ==
    LET parsed == ParseEach(lines, "OFPST_PORT")
    IN Collected(parsed, [i \in DOMAIN parsed.value |-> ReadPort(parsed.value[i])])
DumpPort(lines)  ==
    LET stats == DumpPorts(lines)
    IN IF stats.kind = "ok" /\ Len(stats.value) = 1 THEN Ok(stats.value[1]) ELSE Error(<<>>)

\* Table.UnmarshalText: the pairs begin after the name, which may have its colon
\* apart; the first one is not a number, and four more are taken unseen.
TableKeys == <<"max", "active", "lookup", "matched">>
ReadTable(fields) ==
    LET first == IF Len(fields) > 1 /\ fields[2].val = ":" THEN 3 ELSE 4
    IN IF /\ Len(fields) \in {7, 8}
          /\ fields[1].key \in Numbers
          /\ \A i \in first..Len(fields) : IsPair(fields[i]) /\ (i > first => IsNumber(fields[i]))
       THEN IF Len(fields) - first < 4 THEN Panic
            ELSE Ok([id |-> fields[1].key, name |-> fields[2].key, wild |-> fields[first].val,
                     counts |-> [i \in DOMAIN TableKeys |-> fields[first + i].val]])
       ELSE Error(<<>>)

\* DumpTables leaves out the tables nobody uses.
IsUsed(table) == \E i \in 2..4 : table.counts[i] # "0"
DumpTables(lines) ==
    LET parsed == ParseEach(lines, "OFPST_TABLE")
        tables == Collected(parsed, [i \in DOMAIN parsed.value |-> ReadTable(parsed.value[i])])
    IN [tables EXCEPT !.value = SelectSeq(@, IsUsed)]

-----------------------------------------------------------------------------
(* ovs-ofctl dump-aggregate *)

\* FlowStats.UnmarshalText: three fields from the first packet_count on, and
\* nothing after them.
FlowKeys == <<"packet_count", "byte_count", "flow_count">>
DumpAggregate(lines) ==
    LET all    == FlattenSeq([i \in DOMAIN lines |-> lines[i].fields])
        from   == SelectInSeq(all, LAMBDA f : f.key = FlowKeys[1])
        fields == SubSeq(all, from, Len(all))
    IN IF /\ from # 0
          /\ Len(fields) = 3
          /\ \A i \in 1..3 : fields[i].key = FlowKeys[i] /\ IsNumber(fields[i])
       THEN Ok([packets |-> fields[1].val, bytes |-> fields[2].val])
       ELSE Error(<<>>)

-----------------------------------------------------------------------------
(* ovs-dpctl ct-get-limits, ct-set-limits and ct-del-limits *)

\* GetCTLimits: the default limit, if the reply has one, then a map for every
\* other line.  A line or a field without "=" is indexed all the same.
GetCTLimits(lines) ==
    LET defaults == SelectSeq(lines, LAMBDA l : l.fields[1].key = "default limit")
        zones    == SelectSeq(lines, LAMBDA l : l.fields[1].key # "default limit")
        zone(l)  == [i \in DOMAIN l.fields |->
                        Pair(l.fields[i].key, IF IsNumber(l.fields[i]) THEN l.fields[i].val ELSE "0")]
    IN CASE \E i \in DOMAIN defaults : ~IsNumber(defaults[i].fields[1]) -> Error(<<>>)
         [] lines = <<>> \/ \E i \in DOMAIN zones :
              \E j \in DOMAIN zones[i].fields : ~IsPair(zones[i].fields[j]) -> Panic
         [] OTHER -> Ok([default |-> [i \in DOMAIN defaults |-> defaults[i].fields[1].val],
                         zones |-> [i \in DOMAIN zones |-> zone(zones[i])]])

\* ctSetLimitsArgsToString: a zone and its limit, or the default alone; other
\* keys are left out.
SetArgs(asked) ==
    LET used == DOMAIN asked \cap {"default", "zone", "limit"}
    IN IF used \in {{"default"}, {"zone", "limit"}} THEN {[k \in used |-> asked[k]]} ELSE {}

-----------------------------------------------------------------------------
(* ovs-vsctl list-ports, list port and list interface *)

\* ListPorts: a name a line, whatever the line says.
ListPorts(lines) == [i \in DOMAIN lines |-> lines[i].fields[1].key]

\* parseKeyValue: a map from what is before the first colon of a line.
ParseKeyValue(lines) == FlattenSeq([i \in DOMAIN lines |-> lines[i].fields])
Unset == "[]"
Trim(val) == IF val = Unset THEN "" ELSE val
Count(val)  == IF val \in Numbers THEN val ELSE "0"

\* Get.Port, of the two replies; the interface's are no lines when ovs-vsctl
\* failed, and its MAC is taken over the port's.
PortData(portLines, interfaceLines) ==
    LET port      == ParseKeyValue(portLines)
        interface == ParseKeyValue(interfaceLines)
    IN [name   |-> ValueOf(port, "name", ""),
        tag    |-> Count(ValueOf(port, "tag", "0")),
        trunks |-> Trim(ValueOf(port, "trunks", "")),
        mac    |-> Trim(ValueOf(interface, "mac_in_use", ValueOf(port, "mac", ""))),
        link   |-> ValueOf(interface, "link_state", ""),
        ofport |-> Count(ValueOf(interface, "ofport", "0"))]

-----------------------------------------------------------------------------
(* ovs-appctl ofproto/trace *)

Protocols == {"arp", "icmp", "icmp6", "ip", "ipv6", "tcp", "tcp6", "udp", "udp6"}
MatchKeys == {"nw_src", "nw_dst", "in_port", "tp_dst", "ct_mark"}

\* DataPathFlows.UnmarshalText, of one match.  Matches nobody knows are left
\* out; words other than these and values that do not parse are errors.
Skipped(f) == f \in {Word("eth"), Word("unchanged")} \/ f.key = "recirc_id"
Bad(f)     == IF IsPair(f) THEN f.key \in MatchKeys /\ f.val = "bad"
              ELSE ~Skipped(f) /\ f.key \notin Protocols
ReadFlow(fields) ==
    LET protocol == SelectLastInSeq(fields, LAMBDA f : f.val = "" /\ f.key \in Protocols)
    IN [protocol |-> IF protocol = 0 THEN "" ELSE fields[protocol].key,
        matches  |-> SelectSeq(fields, LAMBDA f : f.key \in MatchKeys)]

\* What a line of a trace is, by the first expression that matches it.
Comments == {"Megaflow:", "bridge(", "0.", "->", "thaw", "Resuming", "resume conntrack with",
             "native tunnel", "==="}
FlowNames  == {"Flow:", "Final flow:"}
RestOf(l) == Tail(l.fields)

NoTrace == [input |-> <<>>, final |-> <<>>, datapath |-> <<>>, actions |-> <<>>]

\* ProtoTrace.UnmarshalText, of one line: later flows and datapath actions
\* replace earlier ones, and anything after a blank is an action.
WithLine(trace, l) ==
    LET head == l.fields[1].key
    IN CASE head = "Datapath actions:" ->
                [trace EXCEPT !.datapath = <<RestOf(l)>>,
                              !.actions = IF Contains(RestOf(l), Word("recirc("))
                                          THEN Append(@, <<Word("recirc")>>) ELSE @]
         [] head = "Flow:"             -> [trace EXCEPT !.input = <<ReadFlow(RestOf(l))>>]
         [] head = "Final flow:"       -> [trace EXCEPT !.final = <<ReadFlow(RestOf(l))>>]
         [] head \in Comments          -> trace
         [] l.indent \/ Len(l.fields) > 1 ->
                [trace EXCEPT !.actions = Append(@, IF l.indent THEN l.fields ELSE RestOf(l))]
         [] OTHER -> trace

ProtoTrace(lines) ==
    IF \E i \in DOMAIN lines : /\ lines[i].fields[1].key \in FlowNames
                               /\ \E j \in 2..Len(lines[i].fields) : Bad(lines[i].fields[j])
    THEN Error(<<>>)
    ELSE Ok(FoldLeft(WithLine, NoTrace, lines))
=============================================================================
