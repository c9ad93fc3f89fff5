---------------------------- MODULE MCComposer ----------------------------
(* Values for model checking Composer: three addresses, an external one the *)
(* router may hold itself, and two inside; one port.                        *)
EXTENDS Composer

CONSTANTS wan, web, pc,       \* addresses
          http,               \* port
          none

MCAddr == {wan, web, pc}
MCPort == {http}

All == MCAddr
Lan == {web, pc}

MCPrefixLen == [p \in {All, Lan} |-> IF p = All THEN 0 ELSE 24]

At(a, p) == [addr |-> a, port |-> p]

\* Nested SNAT sources, and a DNAT rule of each kind on the external address.
MCSources == {All, Lan}
MCDnatTexts == {<<"tcp", At(wan, http)>>, <<"icmp", At(wan, http)>>, <<"tcp", At(wan, none)>>}
MCToTexts == {At(web, http), At(pc, http)}
=============================================================================
