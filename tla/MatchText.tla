------------------------------ MODULE MatchText ------------------------------
(***************************************************************************)
(* What a Match is written as (match.go), and what a written match is read *)
(* as (matchparser.go).  A Match is the name of its type with the values   *)
(* it was constructed from; a written match is a key with the parts that   *)
(* '/' separates.  A type is named by the key it is written with, unless   *)
(* another type has that key too.  A number that no mask follows, or whose *)
(* mask is 0, is one part: the structs do not tell these apart either.     *)
(***************************************************************************)
EXTENDS Integers, Sequences, FiniteSets

CONSTANTS
    Two32,  \* stands for 2^32
    Two64,  \* stands for 2^64
    Names   \* types, keys, words and the signs before them

\* No word, or no sign before one.
Empty == ""

ASSUME WideAssumption ==
    /\ Two32 \in Nat /\ Two64 \in Nat
    /\ 1048576 < Two32 /\ Two32 < Two64
ASSUME NamesAssumption ==
    {Empty, "+", "ns", "mac", "ip6", "arp_op", "nw_src", "nw_dst", "ipv6_src", "ipv6_dst"} \subseteq Names

\* A part of a written value, or of a Match: a number written in base 10 or 16
\* (0 for one that is not written), or a word, with the sign before it.
Part(base, n, word, sign) == [base |-> base, n |-> n, word |-> word, sign |-> sign]
Num(n)       == Part(0, n, Empty, Empty)
Dec(n)       == Part(10, n, Empty, Empty)
Hex(n)       == Part(16, n, Empty, Empty)
Word(w)      == Part(0, 0, w, Empty)
Signed(s, w) == Part(0, 0, w, s)

\* A part is a number and nothing else, or a word with or without a sign.
Parts == [base : {0, 10, 16}, n : Int, word : {Empty}, sign : {Empty}]
    \cup [base : {0}, n : {0}, word : Names, sign : Names]

Match(of, val) == [of |-> of, val |-> val]
Within(n, low, high) == low <= n /\ n <= high

ByteKeys     == {"icmp_type", "icmp_code", "icmpv6_type", "icmpv6_code", "nw_proto"}
IntKeys      == {"nw_ecn", "nw_tos", "nw_ttl", "tun_ttl", "tun_tos", "tun_gbp_id",
                 "tun_gbp_flags", "tun_flags", "in_port"}
DecimalKeys  == ByteKeys \cup IntKeys \cup {"ct_zone", "conj_id"}
TciKeys      == {"vlan_tci", "vlan_tci1"}
MaskedKeys   == TciKeys \cup {"ipv6_label", "ct_mark", "metadata", "tun_id"}
PortKeys     == {"tp_src", "tp_dst"}
VlanKeys     == {"dl_vlan", "dl_vlan_pcp"}
LinkKeys     == {"dl_src", "dl_dst"}
HardwareKeys == {"arp_sha", "arp_tha", "nd_sll", "nd_tll"}
IPv4Keys     == {"nw_src", "nw_dst", "arp_spa", "arp_tpa", "tun_src", "tun_dst"}
IPv6Keys     == {"ipv6_src", "ipv6_dst", "nd_target", "tun_ipv6_src", "tun_ipv6_dst"}
FlagKeys     == {"ct_state", "tcp_flags"}

\* The keys that parseMatch knows.
KnownKeys == DecimalKeys \cup MaskedKeys \cup PortKeys \cup VlanKeys \cup LinkKeys
    \cup HardwareKeys \cup IPv4Keys \cup IPv6Keys \cup FlagKeys \cup {"arp_op", "dl_type"}

\* The keys whose value is kept in an unsigned number, or in two of them.
NumberKeys == ByteKeys \cup MaskedKeys \cup PortKeys \cup {"ct_zone", "conj_id", "dl_type", "arp_op"}

\* The numbers that the unsigned type of a field holds.
Width(key) ==
    CASE key \in ByteKeys -> 256
      [] key \in TciKeys \cup PortKeys \cup VlanKeys \cup {"ct_zone", "dl_type", "arp_op"} -> 65536
      [] key \in {"conj_id", "ipv6_label", "ct_mark"} -> Two32
      [] OTHER -> Two64

\* Addresses by what net.ParseMAC, net.ParseIP and net.ParseCIDR take them for;
\* those in capitals are printed in small letters.
IsMac(w)     == w \in {"mac", "MAC"}
ParsesMac(w) == IsMac(w) \/ w = "eui64"
Canonical(w) == CASE w = "MAC" -> "mac" [] w = "IP6" -> "ip6" [] OTHER -> w

-----------------------------------------------------------------------------
(* What the constructors take *)

KeyOf(of) == IF of = "ARPOperation" THEN "arp_op" ELSE of

Fits(key, p)     == p = Num(p.n) /\ p.n \in 0..Width(key) - 1
IsWord(p)        == p = Word(p.word)
\* A flag is one of SetState, UnsetState, SetTCPFlag and UnsetTCPFlag; tcp_flags
\* may be a number instead.
IsFlag(p)        == p = Signed(p.sign, p.word) /\ p.sign \in {"+", "-"}

\* What is kept in a match of one type or another: one number or, of some, two,
\* the second of which is not 0; a word or, of dl_src and dl_dst, two; flags.
\* Nothing constructs a match on tun_ipv6_src and tun_ipv6_dst.
Constructed(m) ==
    LET one == Len(m.val) = 1
    IN  /\ m \in [of : Names, val : Seq(Parts)]
        /\ m.of \notin {"tun_ipv6_src", "tun_ipv6_dst"}
        /\ m.of \in MaskedKeys \cup PortKeys =>
              /\ Len(m.val) \in 1..2 /\ \A i \in DOMAIN m.val : Fits(m.of, m.val[i])
              /\ Len(m.val) = 2 => m.val[2].n # 0
        /\ KeyOf(m.of) \in NumberKeys \ (MaskedKeys \cup PortKeys) => one /\ Fits(KeyOf(m.of), m.val[1])
        /\ m.of \in IntKeys \cup VlanKeys => one /\ m.val[1] = Num(m.val[1].n)
        /\ m.of \in HardwareKeys \cup IPv4Keys \cup IPv6Keys => one
        /\ m.of \in LinkKeys => Len(m.val) \in 1..2
        /\ m.of \in HardwareKeys \cup IPv4Keys \cup IPv6Keys \cup LinkKeys =>
              \A i \in DOMAIN m.val : IsWord(m.val[i])
        /\ m.of \in FlagKeys => \/ \A i \in DOMAIN m.val : IsFlag(m.val[i])
                                \/ m.of = "tcp_flags" /\ one /\ m.val[1] = Dec(m.val[1].n)

-----------------------------------------------------------------------------
(* Writing *)

\* What MarshalText does not refuse.
Marshals(m) ==
    LET n == m.val[1].n
        w == m.val[1].word
    IN  /\ m.of = "dl_vlan"      => Within(n, 0, 4095) \/ n = 65535
        /\ m.of = "dl_vlan_pcp"  => n \in 0..7
        /\ m.of = "arp_op"       => n \in 1..4
        /\ m.of = "ipv6_label"   => \A i \in DOMAIN m.val : m.val[i].n < 1048576
        /\ m.of \in LinkKeys     => \A i \in DOMAIN m.val : IsMac(m.val[i].word)
        /\ m.of \in HardwareKeys => IsMac(w)
        /\ m.of \in IPv4Keys     => w \in {"ip4", "net4"}
        /\ m.of \in IPv6Keys     => w \in {"ip6", "IP6", "net6"}

WithBase(b, val) == [i \in DOMAIN val |-> [val[i] EXCEPT !.base = b]]
Spelled(val)     == [i \in DOMAIN val |-> [val[i] EXCEPT !.word = Canonical(@)]]

\* Mutant of Written: the mask of a transport port is written without 0x.
WrittenDecimal(m) ==
    CASE m.of \in MaskedKeys \cup {"dl_type"} -> WithBase(16, m.val)
      [] m.of \in DecimalKeys \cup PortKeys \cup VlanKeys \cup {"arp_op", "ARPOperation"} ->
            WithBase(10, m.val)
      [] OTHER -> Spelled(m.val)
\* The value that MarshalText writes.
Written(m) ==
    LET hex == \/ m.of \in MaskedKeys \cup {"dl_type"}
               \/ m.of \in PortKeys /\ Len(m.val) = 2
               \/ m.of = "dl_vlan" /\ m.val[1].n = 65535
        dec == m.of \in DecimalKeys \cup PortKeys \cup VlanKeys \cup {"arp_op", "ARPOperation"}
    IN CASE hex -> WithBase(16, m.val)
         [] dec /\ ~hex -> WithBase(10, m.val)
         [] OTHER -> Spelled(m.val)

-----------------------------------------------------------------------------
(* Reading *)

\* parseClampInt: decimal, not above a maximum; below zero nothing is refused.
Clamps(val, max) == Len(val) = 1 /\ val[1].base = 10 /\ val[1].n <= max
MaxOf(key) == CASE key \in ByteKeys -> 255
                [] key = "ct_zone" -> 65535
                [] OTHER -> (Two32 \div 2) - 1

\* parseHexUint16, 32 and 64: digits are hexadecimal with or without 0x.
DecAsHex[n \in Nat] == IF n < 10 THEN n ELSE 16 * DecAsHex[n \div 10] + (n % 10)
IsNumber(p)         == p.base \in {10, 16}
HexOf(p)            == IF p.base = 16 THEN p.n ELSE DecAsHex[p.n]
ReadsHex(p, limit)  == IsNumber(p) /\ p.n >= 0 /\ HexOf(p) < limit

\* Sixteen bits are read as thirty-two.
HexLimit(key) == IF key \in {"metadata", "tun_id"} THEN Two64 ELSE Two32
\* A decimal number, or a hexadecimal one within the limit.
ReadsEither(p, key) == p.base = 10 \/ (p.base = 16 /\ ReadsHex(p, HexLimit(key)))

\* parseTCPFlags takes flags whose text is a multiple of four characters long:
\* a sign and three letters each, which "ns" and no letters at all are not.  Of
\* those without a sign, '|' is between two.  A number counts as long as it is.
Without(val, w) == Cardinality({i \in DOMAIN val : val[i].word = w})
Characters(val) == 4 * Len(val) - Without(val, "ns") - 3 * Without(val, Empty)
                     - (IF val # <<>> /\ val[1].sign = Empty THEN 1 ELSE 0)
Figures[n \in Nat] == IF n < 16 THEN 1 ELSE 1 + Figures[n \div 16]
ParsesFlags(val) ==
    LET hex == \A i \in DOMAIN val : val[i].base = 16 /\ val[i].n >= 0
    IN  \/ Len(val) = 1 /\ val[1].base = 10
        \/ (\A i \in DOMAIN val : val[i].base = 0) /\ Characters(val) % 4 = 0
        \/ Len(val) = 1 /\ hex /\ (2 + Figures[val[1].n]) % 4 = 0
        \/ Len(val) = 2 /\ hex /\ (5 + Figures[val[1].n] + Figures[val[2].n]) % 4 = 0

\* What parseMatch does not refuse, of a key it knows.
Parses(key, val) ==
    LET one == Len(val) = 1
    IN  /\ key \in HardwareKeys => one /\ ParsesMac(val[1].word)
        /\ key \in DecimalKeys  => Clamps(val, MaxOf(key))
        /\ key \in PortKeys     => \/ Clamps(val, 65535)
                                   \/ Len(val) = 2 /\ \A i \in 1..2 : ReadsHex(val[i], 65536)
        /\ key = "arp_op"       => /\ one /\ ReadsEither(val[1], key)
                                   /\ val[1].base = 10 => Within(val[1].n, 0, 65535)
        /\ key = "dl_type"      => one /\ ReadsHex(val[1], Two32)
        /\ key \in VlanKeys     => one /\ ReadsEither(val[1], key)
        /\ key \in MaskedKeys   => /\ Len(val) \in 1..2
                                   /\ \A i \in DOMAIN val : ReadsEither(val[i], key)
        /\ key = "tcp_flags"    => ParsesFlags(val)

\* The type a key is read as.
Kind(key) ==
    CASE key = "tun_src"      -> "nw_src"
      [] key = "tun_dst"      -> "nw_dst"
      [] key = "tun_ipv6_src" -> "ipv6_src"
      [] key = "tun_ipv6_dst" -> "ipv6_dst"
      [] OTHER -> key

\* Mutant of Wrapped: a number keeps the bits its field has no room for.
WrappedNot(key, n) == Num(n)
Wrapped(key, n) == IF key \in IntKeys THEN Num(n) ELSE Num(n % Width(key))

WithoutZeroMask(val) == IF Len(val) = 2 /\ val[2].n = 0 THEN <<val[1]>> ELSE val

\* parseCTState: states without a sign, '|' between them, are all set.
CtState(val) ==
    IF val = <<>> THEN <<Signed("+", Empty)>>
    ELSE IF \E i \in DOMAIN val : val[i].sign # Empty THEN val
    ELSE [i \in DOMAIN val |-> Signed("+", val[i].word)]

\* The value that is read.  Flags of tcp_flags are cut into fours and joined
\* again when they are written: where the cuts are makes no difference.
ReadValue(key, val) ==
    CASE key \in PortKeys /\ Len(val) = 2 ->
            WithoutZeroMask([i \in 1..2 |-> Num(HexOf(val[i]))])
      [] key = "dl_type" -> <<Wrapped(key, HexOf(val[1]))>>
      [] key \in VlanKeys -> <<IF val[1].base = 10 THEN Num(val[1].n) ELSE Wrapped(key, val[1].n)>>
      [] key \in MaskedKeys -> WithoutZeroMask([i \in DOMAIN val |-> Wrapped(key, val[i].n)])
      [] key \in DecimalKeys \cup {"arp_op"} \/ (key \in PortKeys /\ Len(val) = 1) ->
            <<Wrapped(key, val[1].n)>>
      [] key \in HardwareKeys -> Spelled(val)
      [] key = "ct_state" -> CtState(val)
      [] OTHER -> val

MatchOf(key, val) == Match(Kind(key), ReadValue(key, val))
=============================================================================
