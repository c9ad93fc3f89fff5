------------------------------ MODULE MCReplies ------------------------------
(* What a switch can hold, for model checking Replies: every counter of a port *)
(* differs, two or three ports with and without custom statistics, traces with *)
(* up to two recirculations, and rules of every kind of text.                  *)
EXTENDS Replies

MCNumbers == {"0", "1", "2", "3", "4", "5", "6", "7", "10"}

-----------------------------------------------------------------------------
MCPort(id, custom) ==
    [id |-> id, rx |-> <<"1", "2", "3", "4", "?", "6", "7">>, tx |-> <<"7", "0", "5", "?", "3">>,
     custom |-> custom]
PortSeqs ==
    {<<>>, <<MCPort("LOCAL", FALSE)>>, <<MCPort("1", TRUE)>>}
    \cup {<<MCPort("1", c), MCPort("LOCAL", d)>> : c, d \in BOOLEAN}
    \cup {<<MCPort("1", c), MCPort("2", d), MCPort("LOCAL", e)>> : c, d, e \in BOOLEAN}
MCPortScenes == [version : {"1.0", "1.2", "1.3", "1.4"}, ports : PortSeqs]

MCTable(id, name, touches, counts) ==
    [id |-> id, name |-> name, touches |-> touches, counts |-> counts]
Tables == {MCTable("0", "classifier", TRUE, <<"10", "1", "2", "3">>),
           MCTable("1", "table1", FALSE, <<"10", "0", "0", "1">>),
           MCTable("2", "table2", FALSE, <<"10", "0", "0", "0">>)}
MCTableScenes == UNION {[1..n -> Tables] : n \in 0..3}

MCFlowScenes == [packets : {"0", "7"}, bytes : {"0", "10"}]

TraceFlow(protocol, matches, strange) ==
    [protocol |-> protocol, matches |-> matches, strange |-> strange]
FromHost == <<Pair("nw_src", "A"), Pair("in_port", "LOCAL")>>
Finals   == {TraceFlow("", <<>>, <<>>), TraceFlow("ip", <<Pair("nw_dst", "B")>>, <<>>)}
Strange  == {<<>>, <<Pair("tun_unknown", "x")>>, <<Word("sctp")>>, <<Pair("ct_mark", "bad")>>}
Pass(flow, actions, final, datapath, resumed) ==
    [flow |-> flow, actions |-> actions, final |-> final, datapath |-> datapath, resumed |-> resumed]
Again == <<Word("ct"), Word("recirc(")>>
Out   == <<Word("1")>>
Firsts(datapath) == {Pass(TraceFlow("tcp", FromHost, x), <<<<Word("ct")>>>>, f, datapath, FALSE) :
                        x \in Strange, f \in Finals}
Seconds(datapath) == {Pass(TraceFlow("tcp", <<Pair("nw_src", "C")>>, <<>>),
                           <<<<Word("resubmit")>>, <<Word("output"), Word("1")>>>>, f, datapath, TRUE) :
                         f \in Finals}
MCTraceScenes ==
    {<<p>> : p \in Firsts(Out)}
    \cup {<<p, q>> : p \in Firsts(Again), q \in Seconds(Out)}
    \cup {<<p, q, r>> : p \in Firsts(Again), q \in Seconds(Again), r \in Seconds(Out)}

-----------------------------------------------------------------------------
MCLimitMaps == {[k \in {"default"} |-> "7"], [k \in {"default", "zone"} |-> "1"]}
    \cup {[k \in {"zone", "limit", "other"} |-> IF k = "zone" THEN z ELSE n] : z \in {"2", "3"}, n \in {"0", "5"}}

\* An access port and a trunk, as ovs-vsctl shows them.
MCBridgePorts ==
    {[tag |-> "10", trunks |-> Unset, mac |-> "m1", link |-> "up", ofport |-> "1"],
     [tag |-> Unset, trunks |-> "5", mac |-> "m2", link |-> Unset, ofport |-> Unset]}

-----------------------------------------------------------------------------
MCPortNumber == [w \in {"80", "080", "24", "8080"} |->
                    CASE w = "24" -> 24 [] w = "8080" -> 8080 [] OTHER -> 80]

Net     == <<"N", "/", "24">>
At(host, port) == <<host, ":", port>>
Redirect(proto, dest, to) == Request("dnat", proto, dest, to)
MCRequests ==
    {Request("snat", "ip", Net, <<"A">>), Request("snat", "ip", <<"B">>, <<"A", ",", "random">>),
     Redirect("tcp", At("A", "80"), At("B", "8080")), Redirect("tcp", At("A", "080"), At("C", "80")),
     Redirect("udp", At("A", "80"), At("B", "80") \o <<",", "random">>),
     Redirect("tcp", At("A", "80") \o <<"-", "24">>, At("C", "24")),
     Redirect("tcp", Net \o <<":", "80">>, At("B", "80")),
     Redirect("icmp", At("A", "80"), <<"B">>), Redirect("icmp", <<"A">>, At("C", "80")),
     Redirect("tcp", <<"A">>, At("C", "80"))}
=============================================================================
