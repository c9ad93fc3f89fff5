----------------------------- MODULE MCGateway -----------------------------
(* Values for model checking Gateway: two vlan interfaces and one other, a  *)
(* default route and a subnet below it.                                     *)
EXTENDS Gateway

CONSTANTS a1, a2,        \* addresses: the subnet is {a1}
          vlan10, vlan20, eth,
          m1, m2

MCAddr == {a1, a2}
Default == MCAddr
Subnet  == {a1}

MCPrefixLen == [p \in {Default, Subnet} |-> IF p = Default THEN 0 ELSE 24]
\* An instance in which no route exists, for the runs about hosts.
NoPrefixLen == [p \in {} |-> 0]
=============================================================================
