------------------------------ MODULE Pipeline ------------------------------
(***************************************************************************)
(* The flows OpenVRR programs: the six tables of the bridge, the nine base *)
(* flows Composer.Init installs, and the flow each operation of the        *)
(* Composer adds, with the match the same operation later deletes by.      *)
(*                                                                         *)
(*   In -> Ct -> Nat -> Rib -> Fib -> Fdb                                  *)
(***************************************************************************)
EXTENDS FlowTable

CONSTANTS PrefixLen,  \* PrefixLen[p]: length of the prefix whose addresses are p
          NoAddr      \* the nil gateway of a connected route

TableIn  == 0
TableCt  == 10
TableNat == 12
TableRib == 19
TableFib == 20
TableFdb == 30

IPv4 == Protocols \ {"arp"}

TrkNew == {"new"}
TrkEst == {"established", "reply"}
TrkRpl == {"reply", "related_reply"}

\* The match of a flow whose Protocol is "ip" and that lists no Matches.
AnyIP == [AnyPacket EXCEPT !.proto = IPv4]

\* Actions, as tagged tuples.
Resubmit(table)  == <<"resubmit", table>>
Normal           == <<"normal">>
Track            == <<"ct_nat", TableNat>>
Retrack          == <<"ct_clear_resubmit", TableCt>>
ToReg0           == <<"reg0_from_dst", TableFib>>
GatewayToReg0(gw) == <<"reg0", TableFib, gw>>
ClearReg0        == <<"reg0_zero", TableFdb>>
SourceNat(to)    == <<"snat", TableRib, to>>
DestNat(bind)    == <<"dnat", TableRib, bind>>
HairpinNat(bind) == <<"dnat_again", TableNat, bind>>
Forward(mac, dev) == <<"forward", TableFdb, mac, dev>>

\* The base flows in the order Composer.Init adds them.
BaseFlow == <<
    Flow(TableIn,  100, AnyIP,     Resubmit(TableCt)),
    Flow(TableIn,    0, AnyPacket, Normal),
    Flow(TableCt,  100, AnyIP,     Track),
    Flow(TableNat, 200, [AnyIP EXCEPT !.ct = TrkRpl], Resubmit(TableRib)),
    Flow(TableNat, 200, [AnyIP EXCEPT !.ct = TrkEst], Resubmit(TableRib)),
    Flow(TableNat,  10, AnyIP,     Resubmit(TableRib)),
    Flow(TableRib,   0, AnyIP,     ToReg0),
    Flow(TableFib,   0, AnyPacket, ClearReg0),
    Flow(TableFdb,   0, AnyPacket, Normal) >>

BaseIds == 1..9

-----------------------------------------------------------------------------
\* AddLocal, DelLocal: an address of the router itself is never translated.
LocalMatch(addr) == [AnyIP EXCEPT !.dst = {addr}]
LocalFlow(addr) ==
    Flow(TableNat, 150, LocalMatch(addr), Resubmit(TableRib))

\* AddRoute, DelRoute.  Every vlan port has the same MAC, so the match does
\* not tell two ports apart.
\* Mutant of RouteMatch: without the MAC of the vlan ports.
RouteAnyMac(prefix) == [AnyIP EXCEPT !.dst = prefix]
RouteMatch(prefix) == [AnyIP EXCEPT !.dst = prefix, !.dlDst = {"router"}]
\* Mutant of RouteFlow: every route has the same priority.
RouteFlat(prefix, gw) ==
    Flow(TableRib, 100, RouteMatch(prefix),
         IF gw = NoAddr THEN ToReg0 ELSE GatewayToReg0(gw))
RouteFlow(prefix, gw) ==
    Flow(TableRib, 100 + PrefixLen[prefix], RouteMatch(prefix),
         IF gw = NoAddr THEN ToReg0 ELSE GatewayToReg0(gw))

\* AddHost, DelHost.
HostMatch(addr) == [AnyIP EXCEPT !.reg0 = {addr}, !.dlDst = {"router"}]
HostFlow(addr, mac, dev) ==
    Flow(TableFib, 100, HostMatch(addr), Forward(mac, dev))

\* addSNAT, DelSNAT.
\* Mutant of SnatMatch: without the connection state.
SnatAnyState(source) == [AnyIP EXCEPT !.src = source]
SnatMatch(source) == [AnyIP EXCEPT !.ct = TrkNew, !.src = source]
SnatFlow(source, to) ==
    Flow(TableNat, 50, SnatMatch(source), SourceNat(to))

-----------------------------------------------------------------------------
\* addDNAT, delDNAT: four matches, used to add the flows and to delete them.
\* A transport port is part of the match of tcp and udp only.
\* Mutant of TransportPort: the port is a match of every protocol.
PortAlways(proto, port) == {port}
TransportPort(proto, port) ==
    IF proto \in {"tcp", "udp"} THEN {port} ELSE Port

DnatIds == 1..4

DnatMatch(i, proto, bind, to) ==
    CASE i = 1 -> [AnyPacket EXCEPT
                     !.proto = {proto}, !.ct = TrkNew, !.dst = {bind.addr},
                     !.dport = TransportPort(proto, bind.port)]
      [] i = 2 -> [AnyPacket EXCEPT
                     !.proto = {proto}, !.ct = TrkNew, !.dst = {bind.addr},
                     !.src = {to.addr},
                     !.dport = TransportPort(proto, bind.port)]
      [] i = 3 -> [AnyPacket EXCEPT
                     !.proto = {proto}, !.ct = TrkRpl, !.dst = {to.addr},
                     !.src = {to.addr},
                     !.sport = TransportPort(proto, to.port)]
      [] i = 4 -> [AnyPacket EXCEPT
                     !.proto = {proto}, !.ct = TrkEst, !.dst = {to.addr},
                     !.src = {to.addr},
                     !.dport = TransportPort(proto, to.port)]

DnatPrio(i) == CASE i = 1 -> 160 [] i = 2 -> 162 [] OTHER -> 202

DnatAct(i, to) == CASE i = 1 -> DestNat(to)
                    [] i = 2 -> HairpinNat(to)
                    [] OTHER -> Retrack

DnatFlow(i, proto, bind, to) ==
    Flow(TableNat, DnatPrio(i), DnatMatch(i, proto, bind, to), DnatAct(i, to))
=============================================================================
