------------------------------ MODULE RuleText -------------------------------
(***************************************************************************)
(* How a NAT rule becomes a key and a value of the bridge's other_config,  *)
(* how ovs-vsctl prints that map, and how it is read and becomes rules     *)
(* again.  A text is the sequence of the words and of the separators       *)
(* "-" ":" "/" "," "=" "{" "}" it consists of.                             *)
(***************************************************************************)
EXTENDS Integers, SequencesExt

CONSTANT PortNumber    \* words that begin with a decimal -> that decimal

IndexOf(text, sep) == SelectInSeq(text, LAMBDA t : t = sep)
ReplaceOne(text, old, new) ==
    LET i == IndexOf(text, old) IN IF i = 0 THEN text ELSE ReplaceAt(text, i, new)
\* strings.SplitN(text, sep, 2): what is before and what is after the first one.
HasSep(text, sep) == IndexOf(text, sep) # 0
Before(text, sep) == IF HasSep(text, sep) THEN SubSeq(text, 1, IndexOf(text, sep) - 1) ELSE text
After(text, sep)  == SubSeq(text, IndexOf(text, sep) + 1, Len(text))

-----------------------------------------------------------------------------
(* Rules and their keys *)

Request(kind, proto, dest, to) == [kind |-> kind, proto |-> proto, dest |-> dest, to |-> to]

ToKey(prefix, values) ==
    ReplaceOne(ReplaceOne(<<prefix, "-">> \o values, ":", "-"), "/", "-")

\* Mutant of SplitSNAT: the key's separator is kept.
SplitSNATKept(short) == short
SplitSNAT(short) == ReplaceOne(short, "-", "/")
\* Mutant of SplitDNAT: the last separator is taken for the port's.
SplitDNATLast(short) ==
    LET dest == After(short, "-")
        last == SelectLastInSeq(dest, LAMBDA t : t = "-")
    IN [proto |-> Head(short), dest |-> IF last = 0 THEN dest ELSE ReplaceAt(dest, last, ":")]
SplitDNAT(short) ==
    [proto |-> Head(short), dest |-> ReplaceOne(After(short, "-"), "-", ":")]

\* ParseBind: an address and, but for icmp, a port, of which only the leading
\* decimal is read.
Parses(proto, text) ==
    proto = "icmp" \/ (HasSep(text, ":") /\ \E word \in DOMAIN PortNumber :
                          After(text, ":") # <<>> /\ Head(After(text, ":")) = word)
ParseBind(proto, text) ==
    [addr |-> Before(text, ":"),
     port |-> IF proto = "icmp" THEN 0 ELSE PortNumber[Head(After(text, ":"))]]

KeyOf(r) ==
    IF r.kind = "snat" THEN ToKey("snat", r.dest)
    ELSE ToKey("dnat", <<r.proto, "-">> \o
                       (IF r.proto = "icmp" THEN ParseBind(r.proto, r.dest).addr ELSE r.dest))

\* The slot a rule has in the Nat table, and what is in it.
Accepted(r) == r.kind = "snat" \/ (Parses(r.proto, r.dest) /\ Parses(r.proto, r.to))
SlotOf(r) ==
    [kind |-> r.kind, proto |-> r.proto,
     bind |-> IF r.kind = "snat" THEN [addr |-> r.dest, port |-> 0] ELSE ParseBind(r.proto, r.dest)]
TargetOf(r) ==
    IF r.kind = "snat" THEN [addr |-> r.to, port |-> 0] ELSE ParseBind(r.proto, r.to)

\* The rule of a key and a value: what Start restores and the listings show.
RuleOf(key, val) ==
    LET short == SubSeq(key, 3, Len(key))
    IN IF key[1] = "snat" THEN Request("snat", "ip", SplitSNAT(short), val)
       ELSE Request("dnat", SplitDNAT(short).proto, SplitDNAT(short).dest, val)

-----------------------------------------------------------------------------
(* other_config, printed and read *)

\* ovs-vsctl get: the pairs of the map, in some order; the order is a sequence.
PrintMap(map, order) ==
    LET entry(k) == k \o <<"=">> \o map[k]
        pairs    == [i \in DOMAIN order |-> IF i = 1 THEN entry(order[i]) ELSE <<",">> \o entry(order[i])]
    IN <<"{">> \o FlattenSeq(pairs) \o <<"}">>

\* parseMap: a text without the braces is no map; its pieces are between commas,
\* and the first one without "=" ends it.
ParseMap(text) ==
    LET body     == SubSeq(text, 2, Len(text) - 1)
        ends     == {i \in DOMAIN body : body[i] = ","} \cup {Len(body) + 1}
        starts   == {1} \cup {i + 1 : i \in ends \ {Len(body) + 1}}
        piece(i) == SubSeq(body, i, Min({j \in ends : j >= i}) - 1)
        pieces   == {[at |-> i, text |-> piece(i)] : i \in starts}
        read     == {p \in pieces : \A q \in pieces : q.at <= p.at => HasSep(q.text, "=")}
        keys     == {Before(p.text, "=") : p \in read}
        val(k)   == After((CHOOSE p \in read : Before(p.text, "=") = k).text, "=")
    IN IF text # <<>> /\ Head(text) = "{" /\ Last(text) = "}"
       THEN [k \in keys |-> val(k)]
       ELSE [k \in {} |-> <<>>]
=============================================================================
