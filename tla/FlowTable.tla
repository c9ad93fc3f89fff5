----------------------------- MODULE FlowTable -----------------------------
(***************************************************************************)
(* The OpenFlow tables of the bridge, as the three ovs-ofctl commands the  *)
(* Composer issues see them: add-flow, del-flows with a match, and         *)
(* del-flows without one.  A match is a function from packet fields to the *)
(* set of values it admits (all of them for a field it does not mention),  *)
(* so a prefix, a wildcard and an exact value are all sets, and "matches   *)
(* at least what the other one matches" is set inclusion.                  *)
(***************************************************************************)
EXTENDS Integers

CONSTANTS Addr,     \* IPv4 addresses
          Port,     \* transport ports
          Mac       \* link-layer addresses

\* More than one address: a router that knows only one forwards nothing.
ASSUME AddrAssumption == \A a \in Addr : Addr # {a}
ASSUME PortAssumption == Port # {}

\* The connection states ct_state tells apart here.  A reply is established
\* (+est+rpl) or only related (+rel+rpl), so neither +est nor +rpl covers the
\* other.
CtStates == {"untracked", "new", "established", "reply", "related_reply"}
Protocols == {"arp", "icmp", "tcp", "udp"}

\* The destination of a frame: the one MAC every vlan port of the router has
\* (DefaultVlanMac), or a station's.
DlDst == {"router", "station"}

\* Every value of every field: the match of a flow without matches.
AnyPacket == [ct    |-> CtStates,
              proto |-> Protocols,
              src   |-> Addr,
              dst   |-> Addr,
              sport |-> Port,
              dport |-> Port,
              dlDst |-> DlDst,
              reg0  |-> Addr]

Fields == {"ct", "proto", "src", "dst", "sport", "dport", "dlDst", "reg0"}

Match == [ct    : SUBSET CtStates,
          proto : SUBSET Protocols,
          src   : SUBSET Addr,
          dst   : SUBSET Addr,
          sport : SUBSET Port,
          dport : SUBSET Port,
          dlDst : SUBSET DlDst,
          reg0  : SUBSET Addr]

Flow(table, prio, match, act) ==
    [table |-> table, prio |-> prio, match |-> match, act |-> act]

-----------------------------------------------------------------------------
\* m is at least as general as n: what del-flows without --strict asks of a
\* flow before it removes it.
Covers(m, n) == \A f \in Fields : n[f] \subseteq m[f]

\* Two flows no switch keeps side by side: add-flow overwrites.
SameSlot(x, y) == /\ x.table = y.table
                  /\ x.prio  = y.prio
                  /\ x.match = y.match

AddFlow(T, flow) == {x \in T : ~SameSlot(x, flow)} \cup {flow}

DelFlows(T, table, match) ==
    {x \in T : ~(x.table = table /\ Covers(match, x.match))}

\* del-flows with an empty match.
DelAllFlows(T) == {}

-----------------------------------------------------------------------------
\* What the switch does with a packet p (a function from fields to values) in
\* one table: the highest-priority flows that admit it.
Admits(match, p) == \A f \in Fields : p[f] \in match[f]

Candidates(T, table, p) == {x \in T : x.table = table /\ Admits(x.match, p)}

Winners(T, table, p) ==
    {x \in Candidates(T, table, p) :
        \A y \in Candidates(T, table, p) : y.prio <= x.prio}
=============================================================================
