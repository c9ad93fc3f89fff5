---------------------------- MODULE MCVlanPorts ----------------------------
(* Values for model checking VlanPorts: a device of the host and three vlan *)
(* interfaces, of which one has a number that is no tag and one a number    *)
(* that is not even an OpenFlow port; a tag that is no interface's own.     *)
EXTENDS VlanPorts

CONSTANTS eth1, vlan10, vlan5000, vlan40000

MCVlanId == [v \in {vlan10, vlan5000, vlan40000} |->
                CASE v = vlan10 -> 10 [] v = vlan5000 -> 5000 [] OTHER -> 40000]
=============================================================================
