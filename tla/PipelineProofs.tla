--------------------------- MODULE PipelineProofs ---------------------------
(* What the flows of the pipeline are to each other: which deletes reach    *)
(* which flows, and which flows share a slot.  The proofs about Composer    *)
(* and Gateway rest on these facts.                                         *)
EXTENDS Pipeline, TLAPS

\* add-flow removes only what is in the slot of the new flow.
LEMMA AddFlowFacts ==
    ASSUME NEW T, NEW f
    PROVE  /\ f \in AddFlow(T, f)
           /\ \A x \in T : ~SameSlot(x, f) => x \in AddFlow(T, f)
           /\ \A x \in AddFlow(T, f) : x = f \/ x \in T
BY DEF AddFlow

\* del-flows removes only what is in the table and covered by the match.
LEMMA DelFlowsFacts ==
    ASSUME NEW T, NEW table, NEW match
    PROVE  /\ DelFlows(T, table, match) \subseteq T
           /\ \A x \in T : x.table # table => x \in DelFlows(T, table, match)
           /\ \A x \in T : ~Covers(match, x.match) => x \in DelFlows(T, table, match)
           /\ \A x \in DelFlows(T, table, match) :
                x.table = table => ~Covers(match, x.match)
BY DEF DelFlows

\* The fields of the matches the base flows of the NAT table have.
LEMMA NatBase ==
    /\ BaseFlow[4].match = [AnyIP EXCEPT !.ct = TrkRpl]
    /\ BaseFlow[5].match = [AnyIP EXCEPT !.ct = TrkEst]
    /\ BaseFlow[6].match = AnyIP
BY DEF BaseFlow, Flow

\* Which base flows are in which table, and at which priority.
LEMMA BaseTables ==
    \A i \in BaseIds :
        /\ BaseFlow[i].table = TableNat => i \in {4, 5, 6}
        /\ BaseFlow[i].table = TableRib => i = 7
        /\ BaseFlow[i].table = TableFib => i = 8
        /\ BaseFlow[i].table = TableNat => BaseFlow[i].prio \in {10, 200}
        /\ BaseFlow[i].table = TableRib => BaseFlow[i].prio = 0
        /\ BaseFlow[i].table = TableFib => BaseFlow[i].prio = 0
<1>1. SUFFICES ASSUME NEW i \in BaseIds
      PROVE  /\ BaseFlow[i].table = TableNat => i \in {4, 5, 6}
             /\ BaseFlow[i].table = TableRib => i = 7
             /\ BaseFlow[i].table = TableFib => i = 8
             /\ BaseFlow[i].table = TableNat => BaseFlow[i].prio \in {10, 200}
             /\ BaseFlow[i].table = TableRib => BaseFlow[i].prio = 0
             /\ BaseFlow[i].table = TableFib => BaseFlow[i].prio = 0
  OBVIOUS
<1>2. i \in {1, 2, 3, 4, 5, 6, 7, 8, 9}
  BY DEF BaseIds
<1>3. QED
  BY <1>2 DEF BaseFlow, Flow, TableIn, TableCt, TableNat, TableRib, TableFib, TableFdb

\* A SNAT rule is deleted by new connections, and a base flow admits others.
LEMMA SnatSparesBase ==
    ASSUME NEW i \in {4, 5, 6}, NEW source
    PROVE  ~Covers(SnatMatch(source), BaseFlow[i].match)
<1>1. SnatMatch(source).ct = {"new"}
  BY DEF SnatMatch, AnyIP, AnyPacket, TrkNew
<1>2. "reply" \in BaseFlow[i].match.ct
  BY NatBase DEF AnyIP, AnyPacket, TrkRpl, TrkEst, CtStates
<1>3. QED
  BY <1>1, <1>2 DEF Covers, Fields

\* A DNAT rule is deleted by its protocol, and a base flow admits all of IP.
LEMMA DnatSparesBase ==
    ASSUME NEW i \in {4, 5, 6}, NEW j \in DnatIds, NEW proto, NEW bind, NEW to
    PROVE  ~Covers(DnatMatch(j, proto, bind, to), BaseFlow[i].match)
<1>1. DnatMatch(j, proto, bind, to).proto = {proto}
  BY DEF DnatMatch, AnyPacket, DnatIds
<1>2. {"icmp", "tcp"} \subseteq BaseFlow[i].match.proto
  BY NatBase DEF AnyIP, AnyPacket, IPv4, Protocols
<1>3. QED
  BY <1>1, <1>2 DEF Covers, Fields

\* An address is deleted by itself, and a base flow admits every address.
LEMMA LocalSparesBase ==
    ASSUME NEW i \in {4, 5, 6}, NEW a \in Addr
    PROVE  ~Covers(LocalMatch(a), BaseFlow[i].match)
<1>1. LocalMatch(a).dst = {a}
  BY DEF LocalMatch, AnyIP, AnyPacket
<1>2. BaseFlow[i].match.dst = Addr
  <2>1. BaseFlow[4].match.dst = Addr
    BY NatBase DEF AnyIP, AnyPacket
  <2>2. BaseFlow[5].match.dst = Addr
    BY NatBase DEF AnyIP, AnyPacket
  <2>3. BaseFlow[6].match.dst = Addr
    BY NatBase DEF AnyIP, AnyPacket
  <2>4. QED
    BY <2>1, <2>2, <2>3
<1>3. QED
  BY <1>1, <1>2, AddrAssumption DEF Covers, Fields

\* Two base flows in one slot are the same flow.
LEMMA BaseSlots ==
    ASSUME NEW i \in BaseIds, NEW j \in BaseIds, SameSlot(BaseFlow[i], BaseFlow[j])
    PROVE  BaseFlow[i] = BaseFlow[j]
<1>1. i \in {1, 2, 3, 4, 5, 6, 7, 8, 9} /\ j \in {1, 2, 3, 4, 5, 6, 7, 8, 9}
  BY DEF BaseIds
<1>2. BaseFlow[4].match # BaseFlow[5].match
  <2>1. BaseFlow[4].match.ct = {"reply", "related_reply"}
    BY NatBase DEF AnyIP, AnyPacket, TrkRpl
  <2>2. BaseFlow[5].match.ct = {"established", "reply"}
    BY NatBase DEF AnyIP, AnyPacket, TrkEst
  <2>3. QED
    BY <2>1, <2>2
<1>3. i = j
  BY <1>1, <1>2 DEF SameSlot, BaseFlow, Flow, TableIn, TableCt, TableNat, TableRib,
                    TableFib, TableFdb
<1>4. QED
  BY <1>3
=============================================================================
