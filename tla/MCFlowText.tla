----------------------------- MODULE MCFlowText -----------------------------
(* Flows and lines for model checking FlowText: a flow for every type of     *)
(* match with values at both sides of its limits, a flow for every type of   *)
(* action, pairs of them, pairs of flows for the deletes, and lines that no  *)
(* MarshalText writes.  2^32 and 2^64 are scaled down to 2^29 and 2^30.      *)
EXTENDS FlowText

MCTwo32 == 536870912
MCTwo64 == 1073741824
MCNames == STRING

Words(ws) == {<<Word(w)>> : w \in ws}
Nums(ns)  == {<<Num(n)>> : n \in ns}
Masked(a, b) == {<<Num(a)>>, <<Num(a), Num(b)>>}

ValuesOf(of) ==
    CASE of \in ByteKeys     -> Nums({0, 255})
      [] of = "in_port"      -> Nums({3})
      [] of \in IntKeys      -> Nums({-1, 7, MCTwo32 - 1})
      [] of = "ct_zone"      -> Nums({7, 65535})
      [] of = "conj_id"      -> Nums({1, MCTwo32 - 1})
      [] of = "ipv6_label"   -> Masked(5, 1048575) \cup Nums({1048576})
      [] of \in TciKeys      -> Masked(5, 4096)
      [] of = "ct_mark"      -> Masked(5, MCTwo32 - 1)
      [] of \in {"metadata", "tun_id"} -> Masked(5, MCTwo64 - 1)
      [] of \in PortKeys     -> Masked(80, 65520)
      [] of = "dl_vlan"      -> Nums({0, 4095, 4096, 65535})
      [] of = "dl_vlan_pcp"  -> Nums({7, 8})
      [] of = "arp_op"       -> Nums({0, 1, 4, 5})
      [] of = "ARPOperation" -> Nums({1})
      [] of = "dl_type"      -> Nums({2048})
      [] of \in LinkKeys     -> Words({"mac", "eui64", "other"}) \cup {<<Word("MAC"), Word("mac")>>}
      [] of \in HardwareKeys -> Words({"mac", "eui64"})
      [] of \in IPv4Keys     -> Words({"ip4", "net4", "ip6", "other"})
      [] of \in IPv6Keys     -> Words({"ip6", "IP6", "net6", "ip4"})
      [] of = "ct_state"     -> {<<>>, <<Signed("+", "est"), Signed("-", "new")>>}
      [] of = "tcp_flags"    -> {<<>>, <<Signed("+", "syn"), Signed("-", "ack")>>, <<Dec(2)>>,
                                 <<Signed("+", "ns")>>, [i \in 1..4 |-> Signed("+", "ns")]}
      [] of = "dec_ttl"      -> {<<>>}
      [] OTHER               -> Words({"other"})
\* There is no constructor for a match on tun_ipv6_src and tun_ipv6_dst.
Types == (KnownKeys \ {"tun_ipv6_src", "tun_ipv6_dst"})
            \cup {"ARPOperation", "dec_ttl", "reg0", "ip_frag"}
Matches == UNION {{Match(of, val) : val \in ValuesOf(of)} : of \in Types}

Zone(n)  == <<Word("zone"), Dec(n)>>
LoadArgs == <<Word("value"), Arrow, Word("reg1")>>
Exec     == <<Word("commit"), Comma, Word("exec"), Open, Word("load:")>> \o LoadArgs \o <<Close>>
Load     == Act("load", LoadArgs)

Actions ==
    {Act(w, <<>>) : w \in TextActions \cup {"ct_clear"}}
    \cup {Act("ct", args) : args \in {<<>>, Zone(1), Exec, Exec \o <<Comma>> \o Zone(1),
                                       <<Word("commit"), Open>>, <<Word("commit"), Close, Open>>,
                                       <<Word("commit"), Comma, Space>> \o Zone(1),
                                       <<Word("nat"), Open, Close, Space, Word("commit")>>}}
    \cup {Act(of, <<Word(w)>>) : of \in {"mod_dl_dst", "mod_dl_src"}, w \in {"mac", "MAC", "eui64"}}
    \cup {Act(of, <<Word(w)>>) : of \in {"mod_nw_dst", "mod_nw_src"}, w \in {"ip4", "ip6"}}
    \cup {Act(of, <<Dec(n)>>) : of \in {"mod_tp_dst", "mod_tp_src"}, n \in {0, 65535}}
    \cup {Act("mod_vlan_vid", <<Dec(n)>>) : n \in {4095, 4096}}
    \cup {Act("output", <<Dec(n)>>) : n \in {-1, 0, 7}}
    \cup {Act(of, <<Word(w)>>) : of \in {"output_field", "push", "pop"}, w \in {"", "reg1"}}
    \cup {Act("set_tunnel", <<Hex(5)>>)}
    \cup {Act("conjunction", <<Dec(1), Dec(n), Dec(2)>>) : n \in {2, 3}}
    \cup {Act("resubmit", <<Dec(p), Dec(t)>>) : p \in {-1, 0, 7}, t \in {0, 1}}
    \cup {Act("resubmit_port", <<Dec(n)>>) : n \in {-1, 0, 16776959, 16776960}}
    \cup {Act(of, args) : of \in {"load", "set_field", "move"}, args \in {LoadArgs, <<Arrow, Word("reg1")>>,
                                      <<Word("value"), Comma>> \o LoadArgs, <<Word("load:")>> \o LoadArgs,
                                      <<Word("value"), Space, Arrow, Word("reg1")>>, LoadArgs \o <<Space>>}}
    \cup {Learn(<<Word("table"), Dec(1)>>, inner) :
            inner \in {<<>>, <<Load>>, <<Load, Act("output_field", <<Word("reg1")>>)>>,
                       <<Act("normal", <<>>)>>}}

Normally == [NoFlow EXCEPT !.priority = 100, !.actions = <<Act("normal", <<>>)>>]
WithMatches(ms) == [Normally EXCEPT !.matches = ms]
WithActions(as) == [Normally EXCEPT !.actions = as]

FewMatches == {Match("nw_src", <<Word("ip4")>>), Match("tun_dst", <<Word("ip4")>>),
               Match("tp_dst", <<Num(80), Num(65520)>>), Match("ip_frag", <<Word("other")>>)}
FewActions == {Act("drop", <<>>), Act("output", <<Dec(7)>>), Act("ct", Exec), Load}

\* Flows whose fields other than matches and actions differ.
Fielded == [priority : {100, 32768}, protocol : {Word(""), Word("tcp")}, inport : {PortLOCAL, 0, 3},
            matches : {<<>>, <<Match("nw_src", <<Word("ip4")>>)>>}, table : {0, 5}, idle : {0, 30},
            cookie : {0, 9}, actions : {<<Act("normal", <<>>)>>}]
Paired  == {[Normally EXCEPT !.priority = p, !.inport = i, !.cookie = c, !.matches = ms] :
               p \in {100, 200}, i \in {0, 3}, c \in {0, 9},
               ms \in {<<>>, <<Match("nw_src", <<Word("ip4")>>)>>, <<Match("reg0", <<Word("other")>>)>>}}
\* Flows of which some are narrower than others: protocols, networks, masks, flags.
Nested  == {[Normally EXCEPT !.protocol = Word(w), !.matches = ms] : w \in {"ip", "tcp"},
               ms \in {<<>>, <<Match("nw_src", <<Word("net4")>>)>>, <<Match("nw_src", <<Word("ip4")>>)>>,
                       <<Match("tp_dst", <<Num(80)>>)>>, <<Match("tp_dst", <<Num(64), Num(65472)>>)>>,
                       <<Match("dl_src", <<Word("mac"), Word("MAC")>>)>>, <<Match("dl_src", <<Word("mac")>>)>>,
                       <<Match("ct_state", <<Signed("+", "trk")>>)>>,
                       <<Match("ct_state", <<Signed("+", "trk"), Signed("-", "new")>>)>>}}

MCAsked ==
    {<<WithMatches(<<m>>)>> : m \in Matches}
    \cup {<<WithActions(<<a>>)>> : a \in Actions} \cup {<<WithActions(<<>>)>>}
    \cup {<<WithMatches(<<m, n>>)>> : m \in FewMatches, n \in FewMatches}
    \cup {<<WithActions(<<a, b>>)>> : a \in FewActions, b \in FewActions}
    \cup {<<f>> : f \in Fielded}
    \cup {<<f, g>> : f \in Paired, g \in Paired} \cup {<<f, g>> : f \in Nested, g \in Nested}

-----------------------------------------------------------------------------
(* Lines that others wrote. *)

Line(matchers, actions) == [text |-> [matchers |-> matchers, actions |-> actions], means |-> <<>>]
Known(matchers, actions, f) == [Line(matchers, actions) EXCEPT !.means = <<f>>]
At100   == <<Matcher("priority", <<Dec(100)>>)>>
OneLine(key, val)     == Line(At100 \o <<Matcher(key, val)>>, <<Word("normal")>>)
KnownLine(key, val, m) == Known(At100 \o <<Matcher(key, val)>>, <<Word("normal")>>, WithMatches(<<m>>))
ActionLine(tokens)    == Line(At100, tokens)

ForeignEntries ==
    \* other spellings, whose meaning is known
    {KnownLine("vlan_tci", <<Dec(5), Hex(4096)>>, Match("vlan_tci", <<Num(5), Num(4096)>>)),
     KnownLine("ct_mark", <<Dec(5)>>, Match("ct_mark", <<Num(5)>>)),
     KnownLine("arp_op", <<Hex(2)>>, Match("arp_op", <<Num(2)>>)),
     KnownLine("dl_vlan", <<Hex(4095)>>, Match("dl_vlan", <<Num(4095)>>)),
     KnownLine("tp_src", <<Hex(80), Hex(0)>>, Match("tp_src", <<Num(80)>>)),
     KnownLine("ct_state", <<Signed("", "est"), Signed("", "trk")>>,
               Match("ct_state", <<Signed("+", "est"), Signed("+", "trk")>>)),
     Known(At100, <<Word("NORMAL")>>, Normally),
     Known(At100, <<Word("NORMAL"), Comma>>, Normally),
     Known(<<Matcher("", <<>>)>> \o At100 \o <<Matcher("unknown", <<Word("other")>>)>>,
           <<Word("normal")>>, Normally)}
    \* numbers beyond the field, or that are not numbers
    \cup {OneLine("vlan_tci", <<p>>) : p \in {Dec(70000), Dec(-1), Hex(69632), Hex(MCTwo32)}}
    \cup {OneLine("vlan_tci", <<Dec(1), Dec(1), Dec(1)>>), OneLine("dl_type", <<Hex(69632)>>),
          OneLine("dl_vlan", <<Hex(69632)>>), OneLine("arp_op", <<Dec(65536)>>),
          OneLine("arp_op", <<Dec(9)>>), OneLine("icmp_type", <<Dec(-1)>>),
          OneLine("icmp_type", <<Dec(256)>>), OneLine("tp_dst", <<Dec(80), Dec(255)>>),
          OneLine("tp_dst", <<Dec(65536)>>), OneLine("tp_dst", <<Dec(-1)>>),
          OneLine("metadata", <<Word("other")>>), OneLine("tcp_flags", <<Word("ack")>>),
          OneLine("tcp_flags", <<Hex(18)>>), OneLine("tcp_flags", <<Hex(2)>>),
          OneLine("tcp_flags", <<Hex(2), Hex(18)>>), OneLine("tcp_flags", <<Hex(2), Hex(4095)>>),
          OneLine("arp_sha", <<Word("other")>>), OneLine("in_port", <<Word("eth1")>>),
          OneLine("in_port", <<Word("LOCAL")>>), OneLine("cookie", <<Word("other")>>),
          OneLine("tun_ipv6_src", <<Word("ip6")>>), OneLine("table", <<Word("br0")>>)}
    \* actions that are none, and parentheses that do not match
    \cup {ActionLine(ts) : ts \in {<<>>, <<Comma, Word("drop")>>, <<Word("normal"), Comma, Comma, Word("drop")>>,
            <<Word("DROP"), Comma, Word("normal")>>, <<Word("drop"), Comma, Word("normal")>>,
            <<Word("unknown")>>, <<Word("ct"), Open, Word("commit"), Close, Close>>,
            <<Word("ct"), Open, Word("commit"), Comma, Word("normal")>>, <<Close>>,
            <<Word("ct"), Open, Close>>, <<Space, Word("drop")>>, <<Word("mod_nw_dst:"), Space, Word("ip4")>>,
            <<Word("mod_tp_dst:"), Space>>, <<Word("conjunction"), Open, Dec(1), Close>>,
            <<Word("output:"), Word("reg1")>>, <<Word("output:")>>, <<Word("resubmit:"), Dec(7)>>,
            <<Word("mod_tp_dst:"), Dec(65536)>>, <<Word("resubmit"), Open, Comma, Close>>}}
Good == Known(At100, <<Word("normal")>>, Normally)
MCForeign == {<<e>> : e \in ForeignEntries} \cup {<<Good, e, Good>> : e \in ForeignEntries}
=============================================================================
