------------------------------- MODULE FlowText ------------------------------
(***************************************************************************)
(* Flows on their way through text: AddFlow writes them (flow.go), the     *)
(* bridge keeps them, DumpFlows or UnmarshalText reads them, matcher by    *)
(* matcher and character by character, and a flow that was read is deleted *)
(* by its MatchFlow.  What becomes of one match or one action is in        *)
(* MatchText and ActionText.                                               *)
(***************************************************************************)
EXTENDS ActionText

CONSTANTS
    Asked,           \* sequences of flows that a caller adds
    Foreign,         \* bridges that others have filled
    DefaultPriority  \* the priority that ovs-ofctl does not print

PortLOCAL == -1
ASSUME FieldNamesAssumption ==
    {"LOCAL", "dec_ttl", "other", "in_port", "cookie", "table", "priority", "idle_timeout",
     "duration", "n_packets", "n_bytes", " "} \subseteq Names
\* A flow, as it is in memory.
Flows == [priority : Int, protocol : Parts, inport : Int, matches : Seq([of : Names, val : Seq(Parts)]),
          table : Int, idle : Int, cookie : Int,
          actions : Seq([of : Names, args : Seq(Parts),
                         inner : Seq([of : Names, args : Seq(Parts), inner : {<<>>}])])]
\* A line of text: matchers, which are what commas separate, and actions.
Matchers == [space : BOOLEAN, key : Names, val : Seq(Parts)]
Texts    == [matchers : Seq(Matchers), actions : Seq(Parts)]
Entries  == [text : Texts, means : Seq(Flows)]

ASSUME AskedAssumption ==
    \A fs \in Asked : fs \in Seq(Flows) /\ \A k \in DOMAIN fs :
        /\ IsWord(fs[k].protocol) /\ fs[k].cookie >= 0
        /\ \A i \in DOMAIN fs[k].matches : Constructed(fs[k].matches[i])
        /\ \A i \in DOMAIN fs[k].actions : ConstructedAction(fs[k].actions[i])
ASSUME ForeignAssumption == \A b \in Foreign : b \in Seq(Entries)

NoFlow == [priority |-> 0, protocol |-> Word(Empty), inport |-> 0, matches |-> <<>>,
           table |-> 0, idle |-> 0, cookie |-> 0, actions |-> <<>>]

VARIABLES
    asked,   \* flows still to be added
    bridge,  \* entries: a text and, in a sequence, the flow it is known to mean
    phase,   \* "idle", "line" while reading, then "dumped", "failed", "panicked",
             \* "refused" by ovs-ofctl, or "deleted"
    printed, \* the lines read are printed by ovs-ofctl, not written by MarshalText
    lines,   \* lines after the one being read
    left,    \* what is left of the line being read
    got,     \* the flow being read
    buf,     \* the action being read
    depth,   \* height of the stack of parentheses
    raw,     \* the actions of the line, as text
    flows    \* flows read

reader == <<lines, left, got, buf, depth, raw, flows>>
vars   == <<asked, bridge, phase, printed, lines, left, got, buf, depth, raw, flows>>

Blank == [matchers |-> <<>>, actions |-> <<>>]

Init ==
    /\ \/ asked \in Asked /\ bridge = <<>>
       \/ asked = <<>> /\ bridge \in Foreign
    /\ phase = "idle" /\ printed = FALSE
    /\ lines = <<>> /\ left = Blank /\ got = NoFlow
    /\ buf = <<>> /\ depth = 0 /\ raw = <<>> /\ flows = <<>>

-----------------------------------------------------------------------------
(* Writing *)

\* A matcher is a word, or a key with a value; one that follows a comma and a
\* space begins with that space.
Matcher(key, val)   == [space |-> FALSE, key |-> key, val |-> val]
When(c, m)          == IF c THEN <<m>> ELSE <<>>
MatchMatcher(m)     == IF m.of = "dec_ttl" THEN Matcher(Empty, <<Word("dec_ttl")>>)
                       ELSE Matcher(KeyOf(m.of), Written(m))
MatchMatchers(f)    == [i \in DOMAIN f.matches |-> MatchMatcher(f.matches[i])]
PortMatchers(f)     == When(f.inport # 0,
    Matcher("in_port", <<IF f.inport = PortLOCAL THEN Word("LOCAL") ELSE Dec(f.inport)>>))
ProtocolMatchers(f) == When(f.protocol.word # Empty, Matcher(Empty, <<f.protocol>>))
CookieMatchers(f)   == When(f.cookie > 0, Matcher("cookie", <<Hex(f.cookie)>>))
TableMatcher(f)     == Matcher("table", <<Dec(f.table)>>)

MatchesMarshal(f) == \A i \in DOMAIN f.matches : Marshals(f.matches[i])
FlowMarshals(f) ==
    /\ f.actions # <<>>
    /\ \A i \in DOMAIN f.actions : ActionMarshals(f.actions[i])
    /\ MatchesMarshal(f)
    /\ Len(f.actions) > 1 => \A i \in DOMAIN f.actions : f.actions[i].of # "drop"

\* Flow.MarshalText.
FlowTextOf(f) ==
    [matchers |-> <<Matcher("priority", <<Dec(f.priority)>>)>> \o ProtocolMatchers(f)
        \o PortMatchers(f) \o MatchMatchers(f)
        \o <<TableMatcher(f), Matcher("idle_timeout", <<Dec(f.idle)>>)>> \o CookieMatchers(f),
     actions |-> Join([i \in DOMAIN f.actions |-> ActionTokens(f.actions[i])])]

\* What tells two entries of a bridge apart.
Identity(text) == {m \in ToSet(text.matchers) : m.key \notin {"idle_timeout", "cookie"}}

\* What is at some places of a sequence, in order.
Among(s, places) ==
    LET taken[i \in 0..Len(s)] ==
            IF i = 0 THEN <<>>
            ELSE IF i \in places THEN Append(taken[i - 1], s[i]) ELSE taken[i - 1]
    IN taken[Len(s)]

\* AddFlow: a flow that does not marshal is refused, one like it is replaced.
AddFlow ==
    /\ phase = "idle" /\ asked # <<>>
    /\ asked' = Tail(asked)
    /\ LET f == Head(asked)
           others == Among(bridge, {i \in DOMAIN bridge :
                                       Identity(bridge[i].text) # Identity(FlowTextOf(f))})
       IN bridge' = IF FlowMarshals(f)
                    THEN Append(others, [text |-> FlowTextOf(f), means |-> <<f>>])
                    ELSE bridge
    /\ UNCHANGED <<phase, printed, reader>>

-----------------------------------------------------------------------------
(* Reading *)

\* A line of ovs-ofctl dump-flows: counters and such, each after a comma and a
\* space, then the priority unless it is the default one, then the match.
PrintedLine(text) ==
    LET all     == text.matchers
        with(keys) == {i \in DOMAIN all : all[i].key \in keys}
        fields(key) == Among(all, with({key}))
        other(key, n) == Among(all, {i \in with({key}) : all[i].val[1].n # n})
        match   == Among(all, DOMAIN all \ with({"priority", "table", "idle_timeout", "cookie"}))
        front   == (IF fields("cookie") = <<>> THEN <<Matcher("cookie", <<Hex(0)>>)>>
                    ELSE fields("cookie"))
                   \o <<Matcher("duration", <<Word("other")>>)>> \o fields("table")
                   \o <<Matcher("n_packets", <<Dec(0)>>), Matcher("n_bytes", <<Dec(0)>>)>>
                   \o other("idle_timeout", 0)
        printedAs == front \o other("priority", DefaultPriority) \o match
    IN [matchers |-> [i \in DOMAIN printedAs |-> [printedAs[i] EXCEPT !.space = i \in 2..Len(front) + 1]],
        actions  |-> text.actions]
LineOf(entry, print) == IF print THEN PrintedLine(entry.text) ELSE entry.text

\* DumpFlows, or UnmarshalText of what MarshalText returned.
Dump(print) ==
    /\ phase = "idle" /\ asked = <<>> /\ bridge # <<>>
    /\ phase' = "line" /\ printed' = print
    /\ LET all == [i \in DOMAIN bridge |-> LineOf(bridge[i], print)]
       IN left' = Head(all) /\ lines' = Tail(all)
    /\ UNCHANGED <<asked, bridge, got, buf, depth, raw, flows>>
\* ovs-ofctl fails, or does not print the header that parseEachLine asks for.
DumpRefused ==
    /\ phase = "idle" /\ asked = <<>>
    /\ phase' = "refused"
    /\ UNCHANGED <<asked, bridge, printed, reader>>

IsDecimal(val) == Len(val) = 1 /\ val[1].base = 10

\* Whether a matcher is read without an error.
MatcherReads(m) ==
    CASE m.key \in {"priority", "table", "idle_timeout"} -> IsDecimal(m.val)
      [] m.key = "cookie"  -> Len(m.val) = 1 /\ IsNumber(m.val[1]) /\ m.val[1].n >= 0
      [] m.key = "in_port" -> IsDecimal(m.val) \/ m.val = <<Word("LOCAL")>>
      [] m.key \in KnownKeys \ {"in_port"} /\ ~m.space -> Parses(m.key, m.val)
      [] OTHER -> TRUE

\* What a matcher sets.  Spaces are trimmed from the keys of fields only: a
\* match after a space is not known.  Unknown matches, counters and empty words
\* set nothing; any other word is a protocol.
WithMatcher(f, m) ==
    CASE m.key = Empty /\ m.val # <<>> ->
            [f EXCEPT !.protocol = IF m.space THEN Signed(" ", m.val[1].word) ELSE m.val[1]]
      [] m.key = "priority"     -> [f EXCEPT !.priority = m.val[1].n]
      [] m.key = "table"        -> [f EXCEPT !.table = m.val[1].n]
      [] m.key = "idle_timeout" -> [f EXCEPT !.idle = m.val[1].n]
      [] m.key = "cookie"       -> [f EXCEPT !.cookie = m.val[1].n]
      [] m.key = "in_port"      -> [f EXCEPT !.inport =
                                       IF m.val[1].word = "LOCAL" THEN PortLOCAL ELSE m.val[1].n]
      [] m.key \in KnownKeys \ {"in_port"} /\ ~m.space ->
            [f EXCEPT !.matches = Append(@, MatchOf(m.key, m.val))]
      [] OTHER -> f

\* A line without actions is an error before any matcher is looked at.
ReadMatcher ==
    /\ phase = "line" /\ left.matchers # <<>>
    /\ LET m == Head(left.matchers)
       IN IF left.actions # <<>> /\ MatcherReads(m)
          THEN /\ got' = WithMatcher(got, m)
               /\ left' = [left EXCEPT !.matchers = Tail(@)]
               /\ UNCHANGED phase
          ELSE phase' = "failed" /\ UNCHANGED <<got, left>>
    /\ UNCHANGED <<asked, bridge, printed, lines, buf, depth, raw, flows>>

InActions == phase = "line" /\ left.matchers = <<>>
AtComma   == left.actions # <<>> /\ Head(left.actions) = Comma /\ depth = 0
AtEnd     == left.actions = <<>>

\* One character of an action; a parenthesis that closes nothing makes the
\* slice expression of pop panic.
ReadToken ==
    /\ InActions /\ ~AtComma /\ ~AtEnd
    /\ LET t == Head(left.actions)
       IN IF t = Close /\ depth = 0
          THEN phase' = "panicked" /\ UNCHANGED <<left, buf, depth>>
          ELSE /\ depth' = depth + (IF t = Open THEN 1 ELSE IF t = Close THEN -1 ELSE 0)
               /\ buf' = Append(buf, t)
               /\ left' = [left EXCEPT !.actions = Tail(@)]
               /\ UNCHANGED phase
    /\ UNCHANGED <<asked, bridge, printed, lines, got, raw, flows>>

\* Mutant of EndAction: an action ends at any comma.
EndAtComma ==
    /\ InActions /\ \/ left.actions # <<>> /\ Head(left.actions) = Comma
                    \/ AtEnd /\ buf # <<>>
    /\ raw' = Append(raw, buf) /\ buf' = <<>>
    /\ left' = [left EXCEPT !.actions = IF AtEnd THEN @ ELSE Tail(@)]
    /\ UNCHANGED <<asked, bridge, phase, printed, lines, got, depth, flows>>
\* An action ends at a comma outside of parentheses, or with the text.
EndAction ==
    /\ InActions /\ (AtComma \/ (AtEnd /\ buf # <<>>))
    /\ IF depth = 0 /\ ParseAction(buf) # <<>>
       THEN /\ got' = [got EXCEPT !.actions = @ \o ParseAction(buf)]
            /\ raw' = Append(raw, buf) /\ buf' = <<>>
            /\ left' = [left EXCEPT !.actions = IF AtEnd THEN @ ELSE Tail(@)]
            /\ UNCHANGED phase
       ELSE phase' = "failed" /\ UNCHANGED <<got, raw, buf, left>>
    /\ UNCHANGED <<asked, bridge, printed, lines, depth, flows>>

\* A line is read when its actions are, and "drop" is not one of several; this
\* is asked of the text, which may say "DROP" too.
EndLine ==
    /\ InActions /\ AtEnd /\ buf = <<>>
    /\ IF Len(raw) > 1 /\ Contains(raw, <<Word("drop")>>)
       THEN phase' = "failed" /\ UNCHANGED reader
       ELSE /\ flows' = Append(flows, got)
            /\ phase' = IF lines = <<>> THEN "dumped" ELSE "line"
            /\ left' = IF lines = <<>> THEN Blank ELSE Head(lines)
            /\ lines' = IF lines = <<>> THEN <<>> ELSE Tail(lines)
            /\ got' = NoFlow /\ raw' = <<>>
            /\ UNCHANGED <<buf, depth>>
    /\ UNCHANGED <<asked, bridge, printed>>

-----------------------------------------------------------------------------
(* Deleting what was read *)

\* Mutant of MatchFlowText: the in_port is left out.
MatchFlowNoPort(f) ==
    ToSet(ProtocolMatchers(f) \o MatchMatchers(f) \o CookieMatchers(f)) \cup {TableMatcher(f)}
\* Flow.MatchFlow and its MarshalText; the cookie is to match exactly.
MatchFlowText(f) ==
    ToSet(ProtocolMatchers(f) \o PortMatchers(f) \o MatchMatchers(f) \o CookieMatchers(f))
        \cup {TableMatcher(f)}

\* For ovs-ofctl a space before a protocol does not count, and a protocol is
\* short for the fields that say it.
Trimmed(m) == [m EXCEPT !.val = [i \in DOMAIN @ |-> IF @[i].sign = " " THEN Word(@[i].word)
                                                    ELSE @[i]]]
EthTypes == [arp |-> 2054, ip |-> 2048, icmp |-> 2048, tcp |-> 2048, udp |-> 2048,
             ipv6 |-> 34525, icmp6 |-> 34525, tcp6 |-> 34525, udp6 |-> 34525]
IPProtocols == [icmp |-> 1, tcp |-> 6, udp |-> 17, icmp6 |-> 58, tcp6 |-> 6, udp6 |-> 17]
InFull(m) ==
    LET w == m.val[1].word
    IN  IF m.key = Empty /\ m.val # <<>> /\ w \in DOMAIN EthTypes
        THEN {Matcher("dl_type", <<Num(EthTypes[w])>>)}
             \cup {Matcher("nw_proto", <<Num(IPProtocols[p])>>) : p \in {w} \cap DOMAIN IPProtocols}
        ELSE {m}

\* The fields of an entry; one that names no table is in table 0.
EntryFields(text) ==
    LET none == \A m \in ToSet(text.matchers) : m.key # "table"
    IN  UNION {InFull(m) : m \in ToSet(text.matchers)}
            \cup (IF none THEN {TableMatcher(NoFlow)} ELSE {})

\* A value with its numbers and addresses spelled the way they are read.
Plain(val) == [i \in DOMAIN val |-> [val[i] EXCEPT !.base = 0, !.word = Canonical(@)]]

\* Bit by bit: what b fixes under its mask, a fixes under its own, and alike.
FixesBits[a \in Nat, aMask \in Nat, b \in Nat, bMask \in Nat] ==
    \/ bMask = 0
    \/ /\ bMask % 2 = 1 => aMask % 2 = 1 /\ a % 2 = b % 2
       /\ FixesBits[a \div 2, aMask \div 2, b \div 2, bMask \div 2]
FullMask(key)     == IF key = "ipv6_label" THEN 1048575 ELSE Width(key) - 1
MaskOf(key, val)  == IF Len(val) = 2 THEN val[2].n ELSE FullMask(key)

\* A field that is at least as narrow as another of its name: an address within
\* a network, a value without a mask, or with one that fixes as many bits, more
\* flags.  (Flags without a sign, and names that share bits as dl_vlan and vlan_tci
\* do, are compared as they are written.)
Narrower(n, m) ==
    LET a == Plain(n.val)
        b == Plain(m.val)
    IN  /\ n.key = m.key
        /\ \/ a = b
           \/ m.key \in IPv4Keys /\ a = <<Word("ip4")>> /\ b = <<Word("net4")>>
           \/ m.key \in IPv6Keys /\ a = <<Word("ip6")>> /\ b = <<Word("net6")>>
           \/ m.key \in LinkKeys /\ Len(b) = 2 /\ a = <<b[1]>>
           \/ m.key \in FlagKeys /\ \A p \in ToSet(b) : p.sign # Empty /\ p \in ToSet(a)
           \/ /\ m.key \in MaskedKeys \cup PortKeys
              /\ Len(a) \in 1..2 /\ Len(b) \in 1..2
              /\ \A p \in ToSet(a) \cup ToSet(b) : p.word = Empty /\ p.n >= 0
              /\ FixesBits[a[1].n, MaskOf(m.key, a), b[1].n, MaskOf(m.key, b)]

\* A delete is loose: it takes the entries that are at least as narrow in every
\* field it names.
Selects(matchers, entry) ==
    \A m \in matchers : \A d \in InFull(m) : \E n \in EntryFields(entry.text) : Narrower(n, d)

\* DelFlows with the MatchFlow of a flow that was read.
DeleteText(f) == {Trimmed(m) : m \in MatchFlowText(f)}
Delete(k) ==
    /\ phase = "dumped" /\ k \in DOMAIN flows
    /\ phase' = "deleted"
    /\ bridge' = IF MatchesMarshal(flows[k])
                 THEN Among(bridge, {i \in DOMAIN bridge : ~Selects(DeleteText(flows[k]), bridge[i])})
                 ELSE bridge
    /\ UNCHANGED <<asked, printed, reader>>

Read == ReadMatcher \/ ReadToken \/ EndAction \/ EndLine
Next ==
    \/ AddFlow
    \/ \E print \in BOOLEAN : Dump(print)
    \/ DumpRefused
    \/ \E k \in DOMAIN flows : Delete(k)
    \/ Read

Spec == Init /\ [][Next]_vars

-----------------------------------------------------------------------------
(* Properties *)

\* What a field was read as fits its type, so that MarshalText can print it;
\* 32 bits and more read for 16 do not survive (matchparser.go:344-357).
TypeOK ==
    /\ phase \in {"idle", "line", "dumped", "failed", "panicked", "refused", "deleted"}
    /\ depth \in Nat
    /\ \A f \in {got} \cup ToSet(flows) : \A i \in DOMAIN f.matches :
          LET m == f.matches[i]
          IN m.of \in NumberKeys =>
                \A j \in DOMAIN m.val : m.val[j].n \in 0..Width(m.of) - 1

\* How many parentheses are open at the end of a text.
Height(s) == Cardinality({i \in DOMAIN s : s[i] = Open})
             - Cardinality({i \in DOMAIN s : s[i] = Close})
Balanced(s) == Height(s) = 0 /\ \A j \in DOMAIN s : Height(SubSeq(s, 1, j)) >= 0

\* The matches and actions that MarshalText writes and the parsers do not read
\* back, or read as others: tun_src is read as nw_src, the types of in_port and
\* dec_ttl as fields of the flow, reg0 and ip_frag not at all, a number above
\* 2^31 - 1 not as an int, no flags as one, TCP flags that have not three letters
\* not at all or cut; a learned load is read as a load, and so is a move or a
\* set_field within which there is one; the text that ct, load and the like are
\* given is written as it is, with what ends an action in it, or white space.
MisreadMatch(m) ==
    \/ m.of \notin KnownKeys \ {"tun_src", "tun_dst", "in_port"}
    \/ m.of \in IntKeys \cup {"conj_id"} /\ m.val[1].n > MaxOf(m.of)
    \/ m.of \in FlagKeys /\ m.val = <<>>
    \/ m.of = "tcp_flags" /\ \E i \in DOMAIN m.val : m.val[i].base = 0 /\ m.val[i].word \in {"ns", Empty}
Telling == {Open, Close, Comma, Space} \cup {Word(w) : w \in {"resubmit:", "load:", "move:"}}
MisreadAction(a) ==
    \/ a.of \in {"all", "ct_clear", "set_tunnel", "push", "pop", "output_field", "learn"}
    \/ a.of = "resubmit" /\ (a.args[1].n < 0 \/ a.args[2].n < 0)
    \/ a.of = "ct" /\ (~Balanced(a.args) \/ Space \in ToSet(a.args))
    \/ a.of \in {"load", "set_field", "move"} /\ ToSet(a.args) \cap Telling # {}
Readable(f) ==
    /\ \A i \in DOMAIN f.matches : ~MisreadMatch(f.matches[i])
    /\ \A i \in DOMAIN f.actions : ~MisreadAction(f.actions[i])
    /\ printed => f.priority # DefaultPriority
HasMeaning(entry) == entry.means # <<>> /\ Readable(entry.means[1])

\* A flow with its numbers and addresses spelled the way they are read.
PlainMatch(m)  == [m EXCEPT !.val = Plain(@)]
PlainAction(a) == [a EXCEPT !.args = Plain(@)]
PlainMatches(f) == [i \in DOMAIN f.matches |-> PlainMatch(f.matches[i])]
PlainActions(f) == [i \in DOMAIN f.actions |-> PlainAction(f.actions[i])]
Normal(f)      == [f EXCEPT !.matches = PlainMatches(f), !.actions = PlainActions(f)]

\* A flow read from what was written, by MarshalText or by others, is the flow
\* that was meant, whatever comes before it, and reading it neither fails nor
\* panics; misreadings are those of Readable (flow.go:137-206 and 293-440).
RoundTrip ==
    /\ phase # "deleted" =>
          \A k \in DOMAIN flows :
              HasMeaning(bridge[k]) => Normal(flows[k]) = Normal(bridge[k].means[1])
    /\ phase \in {"failed", "panicked"} => ~HasMeaning(bridge[Len(flows) + 1])

\* The parser of actions splits its text only at commas outside of parentheses,
\* drops nothing else, and its stack is as high as the parentheses are deep; it
\* panics only where one closes that was not opened (actionparser.go:82-126).
SplitsAtTop ==
    InActions \/ phase = "panicked" =>
        /\ \E between \in {<<>>, <<Comma>>} :
              Join(raw) \o between \o buf \o left.actions = bridge[Len(flows) + 1].text.actions
        /\ \A i \in DOMAIN raw : /\ Height(raw[i]) = 0
                                 /\ \A j \in DOMAIN raw[i] :
                                       raw[i][j] = Comma => Height(SubSeq(raw[i], 1, j)) > 0
        /\ depth = Height(buf)
        /\ phase = "panicked" => Height(Append(buf, Head(left.actions))) < 0

\* Deleting the MatchFlow of a flow that was read removes the entry it was read
\* from, and besides it exactly the entries that are at least as narrow in every
\* field, whatever their priority (flow.go:442-451, matchflow.go:77-137).
Fields(text) == {m \in ToSet(text.matchers) : m.key \notin {"priority", "idle_timeout"}}
DeletesWhatWasRead ==
    [][\A k \in DOMAIN flows :
          Delete(k) /\ HasMeaning(bridge[k]) /\ bridge[k].text = FlowTextOf(bridge[k].means[1])
            => LET rest == {i \in DOMAIN bridge : ~Selects(Fields(bridge[k].text), bridge[i])}
               IN  k \notin rest /\ bridge' = Among(bridge, rest)]_vars
=============================================================================
