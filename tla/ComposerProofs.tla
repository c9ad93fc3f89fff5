--------------------------- MODULE ComposerProofs ---------------------------
(* Proofs about Composer, for every set of addresses, rules and requests    *)
(* and every bound on faults, crashes and requests: what its invariants     *)
(* are, that it implements RuleStore, what a redirection can be lost to,    *)
(* and what a start restores.                                               *)
EXTENDS Composer, PipelineProofs

-----------------------------------------------------------------------------
(* Keys, values and matches *)

\* The shape of a key: what the rules' matches are built from is in range.
LEMMA KeyFacts ==
    ASSUME NEW k \in Keys
    PROVE  /\ k.kind \in {"snat", "dnat"}
           /\ k \in SnatKeys <=> k.kind = "snat"
           /\ k \in DnatKeys <=> k.kind = "dnat"
           /\ k.kind = "snat" => k.source \in SUBSET Addr
           /\ k.kind = "dnat" => /\ k.proto \in {"icmp", "tcp", "udp"}
                                 /\ k.bind.addr \in Addr
                                 /\ k.proto \in {"tcp", "udp"} => k.bind.port \in Port
           /\ LastFlow(k) \in {1, 4}
           /\ k # NoKey
<1>1. CASE k \in SnatKeys
  <2>1. PICK s \in Sources : k = [kind |-> "snat", source |-> s]
    BY <1>1 DEF SnatKeys, SnatKey
  <2>2. k \notin DnatKeys
    BY <2>1 DEF DnatKeys, DnatKey
  <2>3. QED
    BY <1>1, <2>1, <2>2, TextAssumption, NoneAssumption DEF LastFlow
<1>2. CASE k \in DnatKeys
  <2>1. PICK d \in DnatTexts : Parses(d[1], d[2]) /\ k = DnatKey(d[1], d[2])
    BY <1>2 DEF DnatKeys
  <2>2. /\ d[1] \in {"icmp", "tcp", "udp"}
        /\ d[2].addr \in Addr
        /\ d[2].port \in Port \cup {NoPort}
    BY TextAssumption
  <2>3. k.kind = "dnat" /\ k.proto = d[1] /\ k.bind = ParseBind(d[1], d[2])
    BY <2>1 DEF DnatKey
  <2>4. k \notin SnatKeys
    BY <2>3 DEF SnatKeys, SnatKey
  <2>5. k.bind.addr \in Addr /\ (k.proto \in {"tcp", "udp"} => k.bind.port \in Port)
    BY <2>1, <2>2, <2>3 DEF ParseBind, Parses
  <2>6. QED
    BY <1>2, <2>2, <2>3, <2>4, <2>5, NoneAssumption DEF LastFlow
<1>3. QED
  BY <1>1, <1>2 DEF Keys

\* The shape of a value stored under a key, parsed when a flow is built.
LEMMA ValueFacts ==
    ASSUME NEW k \in Keys, NEW v \in ValuesOf(k)
    PROVE  /\ v \in Values
           /\ v # NoVal
           /\ k.kind = "dnat" => /\ v \in ToTexts
                                 /\ Parses(k.proto, v)
                                 /\ ParseBind(k.proto, v).addr \in Addr
                                 /\ k.proto \in {"tcp", "udp"}
                                        => ParseBind(k.proto, v).port \in Port
<1>1. v \in Values /\ v # NoVal
  BY NoneAssumption, KeyFacts DEF ValuesOf, Values
<1>2. ASSUME k.kind = "dnat"
      PROVE  v \in ToTexts /\ Parses(k.proto, v)
  BY <1>2 DEF ValuesOf
<1>3. ASSUME k.kind = "dnat"
      PROVE  /\ ParseBind(k.proto, v).addr \in Addr
             /\ k.proto \in {"tcp", "udp"} => ParseBind(k.proto, v).port \in Port
  <2>1. v.addr \in Addr /\ v.port \in Port \cup {NoPort}
    BY <1>2, <1>3, TextAssumption
  <2>2. QED
    BY <1>2, <1>3, <2>1, KeyFacts DEF ParseBind, Parses
<1>4. QED
  BY <1>1, <1>2, <1>3

\* One entry of a store changes to a value of its key, or to none.
LEMMA StoreUpdate ==
    ASSUME NEW f \in Store, NEW k \in Keys, NEW v \in ValuesOf(k) \cup {NoVal}
    PROVE  [f EXCEPT ![k] = v] \in Store
<1>1. v \in Values \cup {NoVal}
  BY ValueFacts
<1>2. QED
  BY <1>1 DEF Store

\* A new process remembers nothing.
LEMMA EmptyStore == [k \in Keys |-> NoVal] \in Store
BY DEF Store

\* Every match the Composer adds is one: of the base flows,
LEMMA BaseMatches == \A i \in BaseIds : BaseFlow[i].match \in Match
<1>1. AnyPacket \in Match /\ AnyIP \in Match
  BY DEF AnyPacket, AnyIP, Match, IPv4
<1>2. [AnyIP EXCEPT !.ct = TrkRpl] \in Match /\ [AnyIP EXCEPT !.ct = TrkEst] \in Match
  BY <1>1 DEF Match, TrkRpl, TrkEst, CtStates
<1>3. QED
  BY <1>1, <1>2 DEF BaseFlow, Flow, BaseIds

\* of the router's addresses,
LEMMA LocalMatches == \A a \in Addr : LocalFlow(a).match \in Match
<1>1. AnyIP \in Match
  BY DEF AnyPacket, AnyIP, Match, IPv4
<1>2. QED
  BY <1>1 DEF LocalFlow, Flow, LocalMatch, Match

\* and of the rules.
LEMMA RuleMatches ==
    ASSUME NEW k \in Keys, NEW v \in ValuesOf(k), NEW i \in 1..LastFlow(k)
    PROVE  RuleFlow(k, v, i).match \in Match
<1>0. AnyPacket \in Match /\ AnyIP \in Match
  BY DEF AnyPacket, AnyIP, Match, IPv4
<1>1. CASE k.kind = "snat"
  <2>1. k.source \in SUBSET Addr
    BY <1>1, KeyFacts
  <2>2. QED
    BY <1>0, <1>1, <2>1 DEF RuleFlow, SnatFlow, Flow, SnatMatch, Match, TrkNew, CtStates
<1>2. CASE k.kind = "dnat"
  <2>1. /\ k.proto \in {"icmp", "tcp", "udp"}
        /\ k.bind.addr \in Addr
        /\ TransportPort(k.proto, k.bind.port) \in SUBSET Port
    BY <1>2, KeyFacts DEF TransportPort
  <2> DEFINE to == ParseBind(k.proto, v)
  <2>2. to.addr \in Addr /\ TransportPort(k.proto, to.port) \in SUBSET Port
    BY <1>2, ValueFacts DEF TransportPort
  <2>3. i \in {1, 2, 3, 4}
    BY <1>2 DEF LastFlow
  <2>4. DnatMatch(i, k.proto, k.bind, to) \in Match
    <3> HIDE DEF to
    <3>1. {k.proto} \in SUBSET Protocols /\ TrkNew \in SUBSET CtStates
          /\ TrkRpl \in SUBSET CtStates /\ TrkEst \in SUBSET CtStates
      BY <2>1 DEF Protocols, TrkNew, TrkRpl, TrkEst, CtStates
    <3>2. CASE i = 1
      BY <1>0, <2>1, <2>2, <3>1, <3>2 DEF DnatMatch, Match
    <3>3. CASE i = 2
      BY <1>0, <2>1, <2>2, <3>1, <3>3 DEF DnatMatch, Match
    <3>4. CASE i = 3
      BY <1>0, <2>1, <2>2, <3>1, <3>4 DEF DnatMatch, Match
    <3>5. CASE i = 4
      BY <1>0, <2>1, <2>2, <3>1, <3>5 DEF DnatMatch, Match
    <3>6. QED
      BY <2>3, <3>2, <3>3, <3>4, <3>5
  <2>5. QED
    BY <1>2, <2>4 DEF RuleFlow, DnatFlow, Flow
<1>3. QED
  BY <1>1, <1>2, KeyFacts

-----------------------------------------------------------------------------
(* Types *)

\* What is given up are hairpin flows of rules,
LEMMA PointedHairpins ==
    ASSUME stale \subseteq AllHairpins, NEW k \in Keys, NEW v, NEW i
    PROVE  Pointed(k, v, i) \subseteq AllHairpins
BY DEF Pointed, AllHairpins

\* and so is that of the rule in hand.
LEMMA HairpinsInHand == TypeOK => BeingAdded \subseteq AllHairpins
<1> SUFFICES ASSUME TypeOK PROVE BeingAdded \subseteq AllHairpins
  OBVIOUS
<1> USE NoneAssumption
<1>1. ASSUME NEW k \in {boot.key} \cap DnatKeys PROVE config[k] \in ValuesOf(k)
  BY <1>1 DEF TypeOK, BootOK, Store, Keys
<1>2. ASSUME NEW k \in {request.key} \cap DnatKeys PROVE request.val \in ValuesOf(k)
  <2>1. k.kind = "dnat" /\ k \in Keys
    BY <1>2, KeyFacts DEF Keys
  <2>2. request # NoRequest
    BY <1>2, <2>1 DEF NoRequest
  <2>3. QED
    BY <1>2, <2>1, <2>2 DEF TypeOK, RequestOK
<1>3. QED
  BY <1>1, <1>2 DEF BeingAdded, AllHairpins, Hairpins

\* The types hold before the first start,
LEMMA TypeInit == Init => TypeOK
<1>1. SUFFICES ASSUME Init PROVE TypeOK
  OBVIOUS
<1>2. RequestOK
  BY <1>1, NoneAssumption DEF Init, RequestOK, NoRequest, Kinds
<1>3. BootOK
  BY <1>1 DEF Init, BootOK, NoBoot
<1>4. QED
  BY <1>1, <1>2, <1>3, EmptyStore DEF Init, TypeOK, Phases

\* and every command, request, event, failure and crash keeps them.
LEMMA TypeStep == TypeOK /\ [Next]_vars => TypeOK'
<1> SUFFICES ASSUME TypeOK, [Next]_vars PROVE TypeOK'
  OBVIOUS
<1>0. BeingAdded \subseteq AllHairpins
  BY HairpinsInHand
<1>1. CASE Boot
  <2>1. RequestOK'
    BY <1>1 DEF Boot, TypeOK, RequestOK, Phases
  <2>2. BootOK'
    BY <1>1 DEF Boot, BootOK, NoBoot
  <2>3. QED
    BY <1>1, <2>1, <2>2, EmptyStore DEF Boot, TypeOK, Phases
<1>2. CASE Flush
  <2>1. RequestOK'
    BY <1>2 DEF Flush, TypeOK, RequestOK
  <2>2. BootOK'
    BY <1>2 DEF Flush, TypeOK, BootOK
  <2>3. QED
    BY <1>2, <2>1, <2>2 DEF Flush, TypeOK, DelAllFlows
<1>3. CASE AddBase
  <2>1. RequestOK'
    BY <1>3 DEF AddBase, TypeOK, RequestOK
  <2>2. BootOK'
    BY <1>3 DEF AddBase, TypeOK, BootOK, BaseIds
  <2>3. QED
    BY <1>3, <2>1, <2>2, BaseMatches, AddFlowFacts DEF AddBase, TypeOK, Phases
<1>4. CASE ListLocal
  <2>1. RequestOK'
    BY <1>4 DEF ListLocal, TypeOK, RequestOK
  <2>2. BootOK'
    BY <1>4 DEF ListLocal, TypeOK, BootOK
  <2>3. QED
    BY <1>4, <2>1, <2>2, LocalMatches, AddFlowFacts DEF ListLocal, TypeOK, BootOK
<1>5. CASE ReadConfig
  <2>1. RequestOK'
    BY <1>5 DEF ReadConfig, TypeOK, RequestOK
  <2>2. BootOK'
    BY <1>5 DEF ReadConfig, TypeOK, BootOK, NoBoot
  <2>3. QED
    BY <1>5, <2>1, <2>2 DEF ReadConfig, TypeOK, Phases
<1>6. CASE PickKey
  <2>1. RequestOK'
    BY <1>6 DEF PickKey, TypeOK, RequestOK
  <2>2. BootOK'
    BY <1>6, KeyFacts DEF PickKey, TypeOK, BootOK, LastFlow
  <2>3. QED
    BY <1>6, <2>1, <2>2 DEF PickKey, TypeOK, history
<1>7. CASE RestoreFlow
  <2>1. RequestOK'
    BY <1>7 DEF RestoreFlow, TypeOK, RequestOK
  <2>2. /\ boot.key \in Keys
        /\ config[boot.key] \in ValuesOf(boot.key)
        /\ boot.pc \in 1..LastFlow(boot.key)
    BY <1>7 DEF RestoreFlow, TypeOK, BootOK, Store
  <2>3. BootOK'
    <3>1. LastFlow(boot.key) \in {1, 4}
      BY <2>2, KeyFacts
    <3>0. phase = "restore" /\ phase' = phase /\ config' = config /\ boot.key # NoKey
      BY <1>7 DEF RestoreFlow
    <3>2. CASE boot' = [pc |-> 0, left |-> boot.left, key |-> NoKey]
      <4>1. boot'.key = NoKey /\ boot'.left = boot.left /\ boot'.pc = 0
        BY <3>2 DEF TypeOK, BootOK
      <4>2. boot' \in [pc : 0..9, left : SUBSET (Addr \cup Keys), key : Keys \cup {NoKey}]
        BY <3>2 DEF TypeOK, BootOK
      <4>3. QED
        BY <3>0, <4>1, <4>2 DEF TypeOK, BootOK
    <3>3. CASE boot.pc < LastFlow(boot.key) /\ boot' = [boot EXCEPT !.pc = @ + 1]
      <4>1. boot.pc + 1 \in 0..9 /\ boot.pc + 1 \in 1..LastFlow(boot.key)
        BY <2>2, <3>1, <3>3
      <4>2. boot'.key = boot.key /\ boot'.left = boot.left /\ boot'.pc = boot.pc + 1
        BY <3>3 DEF TypeOK, BootOK
      <4>3. boot' \in [pc : 0..9, left : SUBSET (Addr \cup Keys), key : Keys \cup {NoKey}]
        BY <3>3, <4>1 DEF TypeOK, BootOK
      <4>4. QED
        BY <3>0, <4>1, <4>2, <4>3 DEF TypeOK, BootOK
    <3>4. QED
      BY <1>7, <3>2, <3>3 DEF RestoreFlow
  <2>4. [others EXCEPT ![boot.key] = config[boot.key]] \in Store
    BY <2>2, StoreUpdate DEF TypeOK
  <2>5. RuleFlow(boot.key, config[boot.key], boot.pc).match \in Match
    BY <2>2, RuleMatches
  <2>6. stale' \subseteq AllHairpins
    BY <1>7, <2>2, PointedHairpins DEF RestoreFlow, TypeOK
  <2>7. QED
    BY <1>7, <2>1, <2>2, <2>3, <2>4, <2>5, <2>6, AddFlowFacts DEF RestoreFlow, TypeOK
<1>8. CASE Serve
  <2>1. RequestOK' /\ BootOK'
    BY <1>8 DEF Serve, TypeOK, RequestOK, BootOK
  <2>2. QED
    BY <1>8, <2>1 DEF Serve, TypeOK, Phases, history
<1>9. ASSUME NEW a \in Addr, AddLocal(a) PROVE TypeOK'
  <2>1. RequestOK' /\ BootOK'
    BY <1>9 DEF AddLocal, TypeOK, RequestOK, BootOK
  <2>2. QED
    BY <1>9, <2>1, LocalMatches, AddFlowFacts DEF AddLocal, TypeOK
<1>10. ASSUME NEW a \in Addr, DelLocal(a) PROVE TypeOK'
  <2>1. RequestOK' /\ BootOK'
    BY <1>10 DEF DelLocal, TypeOK, RequestOK, BootOK
  <2>2. QED
    BY <1>0, <1>10, <2>1, DelFlowsFacts DEF DelLocal, TypeOK
<1>11. CASE AddressWhileDown
  <2>1. RequestOK' /\ BootOK'
    BY <1>11 DEF AddressWhileDown, TypeOK, RequestOK, BootOK
  <2>2. QED
    BY <1>11, <2>1 DEF AddressWhileDown, TypeOK, history
<1>12. ASSUME NEW kind \in {"add", "del"}, NEW k \in Keys, NEW v,
              kind = "add" => v \in ValuesOf(k),
              kind = "del" => v = IF k.kind = "dnat" THEN others[k] ELSE NoVal,
              k.kind = "dnat" => v # NoVal,
              Accept(kind, k, v)
       PROVE  TypeOK'
  <2>1. v \in ValuesOf(k) \cup {NoVal} /\ (k.kind = "dnat" => v \in ValuesOf(k))
    BY <1>12 DEF TypeOK, Store
  <2>2. v \in Values \cup {NoVal}
    BY <2>1, ValueFacts
  <2>3. RequestOK'
    BY <1>12, <2>1, <2>2, KeyFacts DEF Accept, RequestOK, Kinds
  <2>4. BootOK'
    BY <1>12 DEF Accept, TypeOK, BootOK
  <2>5. QED
    BY <1>12, <2>3, <2>4 DEF Accept, TypeOK
<1>13. CASE Rest
  <2>1. CASE \E s \in Sources : DelSNAT(s)
    BY <1>12, <2>1 DEF DelSNAT, Keys, SnatKeys, SnatKey
  <2>2. CASE \E s \in Sources, t \in SnatTos : AddSNAT(s, t)
    BY <1>12, <2>2 DEF AddSNAT, Keys, SnatKeys, SnatKey, ValuesOf
  <2>3. CASE \E d \in DnatTexts : DelDNAT(d[1], d[2])
    BY <1>12, <2>3 DEF DelDNAT, Keys, DnatKeys, DnatKey
  <2>4. CASE \E d \in DnatTexts, t \in ToTexts : AddDNAT(d[1], d[2], t)
    <3>1. PICK d \in DnatTexts, t \in ToTexts : AddDNAT(d[1], d[2], t)
      BY <2>4
    <3>2. DnatKey(d[1], d[2]) \in Keys
      BY <3>1 DEF AddDNAT, Keys, DnatKeys
    <3>3. t \in ValuesOf(DnatKey(d[1], d[2]))
      BY <3>1 DEF AddDNAT, ValuesOf, DnatKey
    <3>4. QED
      BY <1>12, <3>1, <3>2, <3>3, ValueFacts DEF AddDNAT
  <2>5. QED
    BY <1>13, <2>1, <2>2, <2>3, <2>4 DEF Rest
<1>14. CASE FlowCommand
  <2>1. /\ request.key \in Keys
        /\ request.pc \in 1..LastFlow(request.key)
        /\ request.kind = "add" => request.val \in ValuesOf(request.key)
    BY <1>14 DEF FlowCommand, TypeOK, RequestOK
  <2>2. RequestOK'
    BY <1>14, <2>1, KeyFacts, NoneAssumption
       DEF FlowCommand, TypeOK, RequestOK, NoRequest, Kinds
  <2>3. BootOK'
    BY <1>14 DEF FlowCommand, TypeOK, BootOK
  <2>4. request.kind = "add" => RuleFlow(request.key, request.val, request.pc).match \in Match
    BY <2>1, RuleMatches
  <2>5. \A x \in flows' : x.match \in Match
    BY <1>14, <2>4, AddFlowFacts, DelFlowsFacts DEF FlowCommand, TypeOK
  <2>6. stale' \subseteq AllHairpins
    BY <1>14, <2>1, PointedHairpins DEF FlowCommand, TypeOK
  <2>7. QED
    BY <1>14, <2>1, <2>2, <2>3, <2>5, <2>6 DEF FlowCommand, TypeOK
<1>15. CASE Persist
  <2> DEFINE k == request.key
             v == IF request.kind = "add" THEN request.val ELSE NoVal
  <2>1. k \in Keys /\ v \in ValuesOf(k) \cup {NoVal}
    BY <1>15 DEF Persist, TypeOK, RequestOK
  <2>2. [config EXCEPT ![k] = v] \in Store /\ [others EXCEPT ![k] = v] \in Store
    BY <2>1, StoreUpdate DEF TypeOK
  <2>3. config' \in Store /\ others' \in Store /\ errored' \subseteq Keys
    BY <1>15, <2>1, <2>2 DEF Persist, TypeOK
  <2>4. RequestOK'
    BY <1>15, NoneAssumption DEF Persist, RequestOK, NoRequest, Kinds
  <2>5. BootOK'
    BY <1>15 DEF Persist, TypeOK, BootOK, RequestOK
  <2>6. QED
    BY <1>15, <2>3, <2>4, <2>5 DEF Persist, TypeOK
<1>16. CASE Crash
  <2>1. RequestOK' /\ BootOK'
    BY <1>16, NoneAssumption DEF Crash, RequestOK, BootOK, NoRequest, NoBoot, Kinds
  <2>2. QED
    BY <1>16, <2>1, EmptyStore DEF Crash, TypeOK, Phases
<1>17. CASE SwitchRestart
  <2>1. RequestOK' /\ BootOK'
    BY <1>17 DEF SwitchRestart, TypeOK, RequestOK, BootOK
  <2>2. missing' \subseteq BaseIds /\ errored' \subseteq Keys /\ stale' \subseteq AllHairpins
    BY <1>17, <1>0 DEF SwitchRestart, TypeOK
  <2>3. QED
    BY <1>17, <2>1, <2>2 DEF SwitchRestart, TypeOK
<1>18. CASE UNCHANGED vars
  BY <1>18 DEF vars, state, history, TypeOK, RequestOK, BootOK
<1>19. QED
  BY <1>1, <1>2, <1>3, <1>4, <1>5, <1>6, <1>7, <1>8, <1>9, <1>10, <1>11, <1>13,
     <1>14, <1>15, <1>16, <1>17, <1>18 DEF Next, StartUp

\* The types hold in every state.
THEOREM TypeCorrect == Spec => []TypeOK
<1>1. QED
  BY TypeInit, TypeStep, PTL DEF Spec

-----------------------------------------------------------------------------
(* The base flows *)

\* A rule's flow never takes the slot of a base flow, a local flow neither.
LEMMA RuleSlots ==
    ASSUME NEW k \in Keys, NEW v, NEW i \in 1..LastFlow(k), NEW b \in BaseIds
    PROVE  ~SameSlot(BaseFlow[b], RuleFlow(k, v, i))
<1>1. RuleFlow(k, v, i).table = TableNat
  BY DEF RuleFlow, SnatFlow, DnatFlow, Flow
<1>2. RuleFlow(k, v, i).prio \in {50, 160, 162, 202}
  BY DEF RuleFlow, SnatFlow, DnatFlow, Flow, DnatPrio
<1>3. QED
  BY <1>1, <1>2, BaseTables DEF SameSlot

\* Nor does the flow of a router's address.
LEMMA LocalSlots ==
    ASSUME NEW a \in Addr, NEW b \in BaseIds
    PROVE  ~SameSlot(BaseFlow[b], LocalFlow(a))
<1>1. LocalFlow(a).table = TableNat /\ LocalFlow(a).prio = 150
  BY DEF LocalFlow, Flow
<1>2. QED
  BY <1>1, BaseTables DEF SameSlot

\* No delete of the NAT table that a rule or an address issues covers one.
LEMMA DeletesSpareBase ==
    ASSUME NEW T, NEW b \in BaseIds, BaseFlow[b] \in T
    PROVE  /\ \A k \in Keys : \A v : \A i \in 1..LastFlow(k) :
                BaseFlow[b] \in DelFlows(T, TableNat, RuleMatch(k, v, i))
           /\ \A a \in Addr : BaseFlow[b] \in DelFlows(T, TableNat, LocalMatch(a))
<1>1. CASE BaseFlow[b].table # TableNat
  BY <1>1, DelFlowsFacts
<1>2. CASE BaseFlow[b].table = TableNat
  <2>1. b \in {4, 5, 6}
    BY <1>2, BaseTables
  <2>2. ASSUME NEW k \in Keys, NEW v, NEW i \in 1..LastFlow(k)
        PROVE  ~Covers(RuleMatch(k, v, i), BaseFlow[b].match)
    <3>1. CASE k.kind = "snat"
      BY <2>1, <3>1, SnatSparesBase DEF RuleMatch
    <3>2. CASE k.kind # "snat"
      <4>1. i \in DnatIds
        BY <3>2 DEF LastFlow, DnatIds
      <4>2. QED
        BY <2>1, <3>2, <4>1, DnatSparesBase DEF RuleMatch
    <3>3. QED
      BY <3>1, <3>2
  <2>3. QED
    BY <2>1, <2>2, LocalSparesBase, DelFlowsFacts
<1>3. QED
  BY <1>1, <1>2

\* Every step keeps the base flows that this run has installed.
LEMMA SkeletonStep == TypeOK /\ SkeletonKept /\ [Next]_vars => SkeletonKept'
<1> SUFFICES ASSUME TypeOK, SkeletonKept, [Next]_vars,
                    NEW b \in BaseIds, b \notin missing',
                    \/ phase' \in {"list", "restore", "serve"}
                    \/ phase' = "init" /\ b < boot'.pc
             PROVE  BaseFlow[b] \in flows'
  BY DEF SkeletonKept
<1> DEFINE Had == /\ b \notin missing
                  /\ phase \in {"list", "restore", "serve"} \/ (phase = "init" /\ b < boot.pc)
<1>0. Had => BaseFlow[b] \in flows
  BY DEF SkeletonKept
<1>1. CASE Boot
  BY <1>1 DEF Boot, NoBoot, BaseIds
<1>2. CASE Flush
  BY <1>2 DEF Flush, BaseIds, TypeOK, BootOK
<1>3. CASE AddBase
  <2>1. boot.pc \in BaseIds /\ (phase' = "init" => b < boot.pc + 1)
    BY <1>3 DEF AddBase, TypeOK, BootOK
  <2>2. b <= boot.pc
    BY <1>3, <2>1 DEF AddBase, BaseIds
  <2>3. CASE b = boot.pc
    BY <1>3, <2>3, AddFlowFacts DEF AddBase
  <2>4. CASE b < boot.pc
    <3>1. BaseFlow[b] \in flows
      BY <1>0, <1>3, <2>4 DEF AddBase
    <3>2. BaseFlow[b] \in AddFlow(flows, BaseFlow[boot.pc])
      BY <2>1, <3>1, BaseSlots, AddFlowFacts
    <3>3. QED
      BY <1>3, <3>1, <3>2 DEF AddBase
  <2>5. QED
    BY <2>1, <2>2, <2>3, <2>4 DEF BaseIds
<1>4. CASE ListLocal
  <2>1. BaseFlow[b] \in flows
    BY <1>0, <1>4 DEF ListLocal
  <2>2. \A a \in Addr : BaseFlow[b] \in AddFlow(flows, LocalFlow(a))
    BY <2>1, LocalSlots, AddFlowFacts
  <2>3. QED
    BY <1>4, <2>1, <2>2 DEF ListLocal, TypeOK, BootOK
<1>5. CASE ReadConfig \/ PickKey \/ Serve
  BY <1>0, <1>5 DEF ReadConfig, PickKey, Serve, history
<1>6. CASE RestoreFlow
  <2>1. BaseFlow[b] \in flows
    BY <1>0, <1>6 DEF RestoreFlow
  <2>2. boot.key \in Keys /\ boot.pc \in 1..LastFlow(boot.key)
    BY <1>6 DEF RestoreFlow, TypeOK, BootOK
  <2>3. BaseFlow[b] \in AddFlow(flows, RuleFlow(boot.key, config[boot.key], boot.pc))
    BY <2>1, <2>2, RuleSlots, AddFlowFacts
  <2>4. QED
    BY <1>6, <2>1, <2>3 DEF RestoreFlow
<1>7. ASSUME NEW a \in Addr, AddLocal(a) \/ DelLocal(a) PROVE BaseFlow[b] \in flows'
  <2>1. BaseFlow[b] \in flows
    BY <1>0, <1>7 DEF AddLocal, DelLocal, Watching
  <2>2. BaseFlow[b] \in AddFlow(flows, LocalFlow(a))
    BY <2>1, LocalSlots, AddFlowFacts
  <2>3. BaseFlow[b] \in DelFlows(flows, TableNat, LocalMatch(a))
    BY <2>1, DeletesSpareBase
  <2>4. QED
    BY <1>7, <2>1, <2>2, <2>3 DEF AddLocal, DelLocal
<1>8. CASE AddressWhileDown
  BY <1>8 DEF AddressWhileDown
<1>9. CASE Rest
  <2>1. UNCHANGED <<flows, phase, boot, missing>>
    BY <1>9 DEF Rest, DelSNAT, AddSNAT, DelDNAT, AddDNAT, Accept
  <2>2. QED
    BY <1>0, <2>1
<1>10. CASE FlowCommand
  <2>1. BaseFlow[b] \in flows
    BY <1>0, <1>10 DEF FlowCommand
  <2>2. request.key \in Keys /\ request.pc \in 1..LastFlow(request.key)
    BY <1>10 DEF FlowCommand, TypeOK, RequestOK
  <2>3. BaseFlow[b] \in AddFlow(flows, RuleFlow(request.key, request.val, request.pc))
    BY <2>1, <2>2, RuleSlots, AddFlowFacts
  <2>4. BaseFlow[b] \in DelFlows(flows, TableNat,
                                 RuleMatch(request.key, request.val, request.pc))
    BY <2>1, <2>2, DeletesSpareBase
  <2>5. QED
    BY <1>10, <2>1, <2>3, <2>4 DEF FlowCommand
<1>11. CASE Persist
  BY <1>0, <1>11 DEF Persist
<1>12. CASE Crash
  BY <1>12 DEF Crash
<1>13. CASE SwitchRestart
  BY <1>13 DEF SwitchRestart, TypeOK, BootOK
<1>14. CASE UNCHANGED vars
  BY <1>0, <1>14 DEF vars, state, history
<1>15. QED
  BY <1>1, <1>2, <1>3, <1>4, <1>5, <1>6, <1>7, <1>8, <1>9, <1>10, <1>11, <1>12, <1>13, <1>14
     DEF Next, StartUp

\* Whatever is added, removed, failed and restarted, the base flows this run
\* installed stay in the tables.
THEOREM SkeletonStays == Spec => []SkeletonKept
<1>1. Init => SkeletonKept
  BY DEF Init, SkeletonKept
<1>2. QED
  BY <1>1, TypeInit, TypeStep, SkeletonStep, PTL DEF Spec

-----------------------------------------------------------------------------
(* Hairpin flows and redirections *)

\* A DNAT key is its protocol, its address and its port.
LEMMA DnatKeyShape ==
    ASSUME NEW k \in DnatKeys
    PROVE  /\ k \in Keys
           /\ k.kind = "dnat"
           /\ k = [kind |-> "dnat", proto |-> k.proto,
                   bind |-> [addr |-> k.bind.addr, port |-> k.bind.port]]
           /\ k.proto = "icmp" => k.bind.port = 0
           /\ k.proto # "icmp" => k.proto \in {"tcp", "udp"}
<1>1. PICK d \in DnatTexts : Parses(d[1], d[2]) /\ k = DnatKey(d[1], d[2])
  BY DEF DnatKeys
<1>2. d[1] \in {"icmp", "tcp", "udp"}
  BY TextAssumption
<1>3. QED
  BY <1>1, <1>2 DEF Keys, DnatKey, ParseBind

\* The fields of the first two matches of a DNAT rule: the second one only
\* adds the source.
LEMMA FirstMatch ==
    ASSUME NEW proto, NEW bind, NEW to, NEW m, m = DnatMatch(1, proto, bind, to)
    PROVE  /\ m.ct = TrkNew /\ m.proto = {proto}
           /\ m.src = Addr /\ m.dst = {bind.addr}
           /\ m.sport = Port /\ m.dport = TransportPort(proto, bind.port)
           /\ m.dlDst = DlDst /\ m.reg0 = Addr
<1>1. m = [AnyPacket EXCEPT !.proto = {proto}, !.ct = TrkNew, !.dst = {bind.addr},
                            !.dport = TransportPort(proto, bind.port)]
  BY DEF DnatMatch
<1>2. QED
  BY <1>1 DEF AnyPacket

\* The second one is the first with the target as the only source.
LEMMA SecondMatch ==
    ASSUME NEW proto, NEW bind, NEW to, NEW m, m = DnatMatch(2, proto, bind, to)
    PROVE  /\ m.ct = TrkNew /\ m.proto = {proto}
           /\ m.src = {to.addr} /\ m.dst = {bind.addr}
           /\ m.sport = Port /\ m.dport = TransportPort(proto, bind.port)
           /\ m.dlDst = DlDst /\ m.reg0 = Addr
<1>1. m = [AnyPacket EXCEPT !.proto = {proto}, !.ct = TrkNew, !.dst = {bind.addr},
                            !.src = {to.addr}, !.dport = TransportPort(proto, bind.port)]
  BY DEF DnatMatch
<1>2. QED
  BY <1>1 DEF AnyPacket

\* The fields by which a redirection and a hairpin flow are recognised.
LEMMA RedirectFields ==
    ASSUME NEW k, NEW t
    PROVE  /\ Redirect(k, t) = DnatFlow(1, k.proto, k.bind, ParseBind(k.proto, t))
           /\ Redirect(k, t).table = TableNat
           /\ Redirect(k, t).prio = 160
           /\ Redirect(k, t).match.proto = {k.proto}
           /\ Redirect(k, t).match.dst = {k.bind.addr}
           /\ Redirect(k, t).match.dport = TransportPort(k.proto, k.bind.port)
           /\ Hairpin(k, t).table = TableNat
           /\ Hairpin(k, t).prio = 162
           /\ Hairpin(k, t).match.proto = {k.proto}
           /\ Hairpin(k, t).match.dst = {k.bind.addr}
           /\ Hairpin(k, t).match.dport = TransportPort(k.proto, k.bind.port)
<1>1. /\ Redirect(k, t).match = DnatMatch(1, k.proto, k.bind, ParseBind(k.proto, t))
      /\ Redirect(k, t).table = TableNat
      /\ Redirect(k, t).prio = 160
  BY DEF Redirect, DnatFlow, Flow, DnatPrio
<1>2. /\ Hairpin(k, t).match = DnatMatch(2, k.proto, k.bind, ParseBind(k.proto, t))
      /\ Hairpin(k, t).table = TableNat
      /\ Hairpin(k, t).prio = 162
  BY DEF Hairpin, DnatFlow, Flow, DnatPrio
<1>3. Redirect(k, t) = DnatFlow(1, k.proto, k.bind, ParseBind(k.proto, t))
  BY DEF Redirect
<1>4. QED
  BY <1>1, <1>2, <1>3, FirstMatch, SecondMatch

\* What tells two DNAT rules apart is in the match of their first flow.
LEMMA SameRule ==
    ASSUME NEW k \in DnatKeys, NEW l \in DnatKeys,
           k.proto = l.proto, k.bind.addr = l.bind.addr,
           TransportPort(k.proto, k.bind.port) = TransportPort(l.proto, l.bind.port)
    PROVE  k = l
<1>1. k.bind.port = l.bind.port
  BY DnatKeyShape DEF TransportPort
<1>2. QED
  BY <1>1, DnatKeyShape

\* The priorities of a rule's flows; only the first two flows of a DNAT rule
\* have those of Redirect and Hairpin.
LEMMA RulePriorities ==
    ASSUME NEW k \in Keys, NEW v, NEW i \in 1..LastFlow(k)
    PROVE  /\ RuleFlow(k, v, i).prio = 160
                => k \in DnatKeys /\ i = 1 /\ RuleFlow(k, v, i) = Redirect(k, v)
           /\ RuleFlow(k, v, i).prio = 162
                => k \in DnatKeys /\ i = 2 /\ RuleFlow(k, v, i) = Hairpin(k, v)
           /\ k.kind = "dnat" /\ i = 1 => RuleFlow(k, v, i) = Redirect(k, v)
<1>1. CASE k.kind = "snat"
  BY <1>1 DEF RuleFlow, SnatFlow, Flow
<1>2. CASE k.kind = "dnat"
  <2>1. RuleFlow(k, v, i) = DnatFlow(i, k.proto, k.bind, ParseBind(k.proto, v))
    BY <1>2 DEF RuleFlow
  <2>2. RuleFlow(k, v, i).prio = DnatPrio(i)
    BY <2>1 DEF DnatFlow, Flow
  <2>3. i \in {1, 2, 3, 4} /\ k \in DnatKeys
    BY <1>2, KeyFacts DEF LastFlow
  <2>4. QED
    BY <2>1, <2>2, <2>3 DEF DnatPrio, Redirect, Hairpin
<1>3. QED
  BY <1>1, <1>2, KeyFacts

\* Adding a flow takes no redirection away, but for the first flow of its rule.
LEMMA AddKeepsRedirect ==
    ASSUME NEW T, NEW k \in DnatKeys, NEW t, Redirect(k, t) \in T,
           NEW l \in Keys, NEW v, NEW i \in 1..LastFlow(l),
           l # k \/ i # 1
    PROVE  Redirect(k, t) \in AddFlow(T, RuleFlow(l, v, i))
<1>1. CASE ~SameSlot(Redirect(k, t), RuleFlow(l, v, i))
  BY <1>1, AddFlowFacts
<1>2. CASE SameSlot(Redirect(k, t), RuleFlow(l, v, i))
  <2>1. l \in DnatKeys /\ i = 1 /\ RuleFlow(l, v, i) = Redirect(l, v)
    BY <1>2, RedirectFields, RulePriorities DEF SameSlot
  <2>2. Redirect(k, t).match = Redirect(l, v).match
    BY <1>2, <2>1 DEF SameSlot
  <2>3. /\ {k.proto} = {l.proto}
        /\ {k.bind.addr} = {l.bind.addr}
        /\ TransportPort(k.proto, k.bind.port) = TransportPort(l.proto, l.bind.port)
    BY <2>2, RedirectFields
  <2>4. QED
    BY <2>1, <2>3, SameRule
<1>3. QED
  BY <1>1, <1>2

\* A hairpin flow belongs to one rule and one target.
LEMMA OneHairpin ==
    ASSUME NEW k \in DnatKeys, NEW to, NEW l \in DnatKeys, NEW v,
           Hairpin(k, to) = Hairpin(l, v)
    PROVE  k = l /\ Redirect(k, to) = Redirect(l, v)
<1>1. /\ {k.proto} = {l.proto}
      /\ {k.bind.addr} = {l.bind.addr}
      /\ TransportPort(k.proto, k.bind.port) = TransportPort(l.proto, l.bind.port)
  BY RedirectFields
<1>2. k = l
  BY <1>1, SameRule
<1>3. HairpinNat(ParseBind(k.proto, to)) = HairpinNat(ParseBind(l.proto, v))
  <2>1. /\ Hairpin(k, to).act = HairpinNat(ParseBind(k.proto, to))
        /\ Hairpin(l, v).act = HairpinNat(ParseBind(l.proto, v))
    BY DEF Hairpin, DnatFlow, Flow, DnatAct
  <2>2. QED
    BY <2>1
<1>4. ParseBind(k.proto, to) = ParseBind(l.proto, v)
  BY <1>3 DEF HairpinNat
<1>5. QED
  BY <1>2, <1>4 DEF Redirect

\* A hairpin flow that was not there before is the second flow of its rule.
LEMMA NewHairpin ==
    ASSUME NEW T, NEW k \in DnatKeys, NEW to,
           NEW l \in Keys, NEW v, NEW i \in 1..LastFlow(l),
           Hairpin(k, to) \in AddFlow(T, RuleFlow(l, v, i)), Hairpin(k, to) \notin T
    PROVE  k = l /\ i = 2 /\ Hairpin(k, to) = Hairpin(l, v)
<1>1. Hairpin(k, to) = RuleFlow(l, v, i)
  BY AddFlowFacts
<1>2. l \in DnatKeys /\ i = 2 /\ Hairpin(k, to) = Hairpin(l, v)
  BY <1>1, RedirectFields, RulePriorities
<1>3. QED
  BY <1>2, OneHairpin

\* The flow of a local address is in a slot of its own.
LEMMA LocalApart ==
    ASSUME NEW T, NEW k, NEW t, NEW a
    PROVE  /\ Redirect(k, t) \in T => Redirect(k, t) \in AddFlow(T, LocalFlow(a))
           /\ Hairpin(k, t) \in AddFlow(T, LocalFlow(a)) => Hairpin(k, t) \in T
<1>1. LocalFlow(a).prio = 150
  BY DEF LocalFlow, Flow
<1>2. QED
  BY <1>1, RedirectFields, AddFlowFacts DEF SameSlot

\* A delete that reaches a redirection reaches its hairpin flow: that one
\* matches less.
LEMMA DeleteTakesHairpin ==
    ASSUME NEW T, NEW match, NEW k \in DnatKeys, NEW to \in ToTexts,
           Redirect(k, to) \in T, Hairpin(k, to) \in DelFlows(T, TableNat, match)
    PROVE  Redirect(k, to) \in DelFlows(T, TableNat, match)
<1>2. ~Covers(match, Hairpin(k, to).match)
  BY DelFlowsFacts, RedirectFields
<1>3. Covers(match, Redirect(k, to).match) => Covers(match, Hairpin(k, to).match)
  <2>1. ParseBind(k.proto, to).addr \in Addr
    BY TextAssumption DEF ParseBind
  <2>2. /\ Redirect(k, to).match = DnatMatch(1, k.proto, k.bind, ParseBind(k.proto, to))
        /\ Hairpin(k, to).match = DnatMatch(2, k.proto, k.bind, ParseBind(k.proto, to))
    BY DEF Redirect, Hairpin, DnatFlow, Flow
  <2>3. /\ Hairpin(k, to).match.src \subseteq Addr
        /\ Redirect(k, to).match.src = Addr
    BY <2>1, <2>2, FirstMatch, SecondMatch
  <2>4. \A f \in Fields \ {"src"} : Hairpin(k, to).match[f] = Redirect(k, to).match[f]
    <3> SUFFICES ASSUME NEW f \in Fields \ {"src"}
                 PROVE  Hairpin(k, to).match[f] = Redirect(k, to).match[f]
      OBVIOUS
    <3>1. f \in {"ct", "proto", "dst", "sport", "dport", "dlDst", "reg0"}
      BY DEF Fields
    <3> DEFINE port == TransportPort(k.proto, k.bind.port)
    <3>2. \A m : m = DnatMatch(1, k.proto, k.bind, ParseBind(k.proto, to)) =>
            /\ m.ct = TrkNew /\ m.proto = {k.proto} /\ m.dst = {k.bind.addr}
            /\ m.sport = Port /\ m.dport = port /\ m.dlDst = DlDst /\ m.reg0 = Addr
      BY FirstMatch
    <3>3. \A m : m = DnatMatch(2, k.proto, k.bind, ParseBind(k.proto, to)) =>
            /\ m.ct = TrkNew /\ m.proto = {k.proto} /\ m.dst = {k.bind.addr}
            /\ m.sport = Port /\ m.dport = port /\ m.dlDst = DlDst /\ m.reg0 = Addr
      BY SecondMatch
    <3> HIDE DEF port
    <3>4. QED
      BY <2>2, <3>1, <3>2, <3>3
  <2>5. QED
    BY <2>3, <2>4 DEF Covers
<1>4. QED
  BY <1>2, <1>3, DelFlowsFacts

\* So does the flow of the base that start-up adds.
LEMMA BaseApart ==
    ASSUME NEW T, NEW k, NEW t, NEW i \in BaseIds
    PROVE  /\ Redirect(k, t) \in T => Redirect(k, t) \in AddFlow(T, BaseFlow[i])
           /\ Hairpin(k, t) \in AddFlow(T, BaseFlow[i]) => Hairpin(k, t) \in T
<1>1. ~SameSlot(Redirect(k, t), BaseFlow[i]) /\ Hairpin(k, t) # BaseFlow[i]
  BY RedirectFields, BaseTables DEF SameSlot
<1>2. QED
  BY <1>1, AddFlowFacts

\* The delete of an address spares the redirections of every other one.
LEMMA LocalSparesRedirect ==
    ASSUME NEW T, NEW k, NEW t, Redirect(k, t) \in T, NEW a, a # k.bind.addr
    PROVE  Redirect(k, t) \in DelFlows(T, TableNat, LocalMatch(a))
<1>1. LocalMatch(a).dst = {a} /\ Redirect(k, t).match.dst = {k.bind.addr}
  BY RedirectFields DEF LocalMatch, AnyIP, AnyPacket
<1>2. ~Covers(LocalMatch(a), Redirect(k, t).match)
  BY <1>1 DEF Covers, Fields
<1>3. QED
  BY <1>2, DelFlowsFacts

\* Rule k with value v has its redirection, or its hairpin flow is given up.
Pairs(k, v) == Redirect(k, v) \in flows \/ Hairpin(k, v) \in stale

\* Between the first flow of a DNAT rule and its last, whoever adds them has
\* its redirection in the table: what makes HairpinHasRedirect inductive.
Progress ==
    /\ request.key \in DnatKeys /\ request.kind = "add" /\ request.pc >= 2
          => Pairs(request.key, request.val)
    /\ boot.key \in DnatKeys /\ boot.pc >= 2 => Pairs(boot.key, config[boot.key])

HairpinInv == HairpinHasRedirect /\ Progress

\* A flow of rule k added in turn keeps every hairpin flow with its redirection,
\* and leaves the rule with its own.
LEMMA AddInTurn ==
    ASSUME HairpinHasRedirect,
           NEW k \in Keys, NEW v \in ValuesOf(k), NEW i \in 1..LastFlow(k),
           k \in DnatKeys /\ i >= 2 => Pairs(k, v),
           flows' = AddFlow(flows, RuleFlow(k, v, i)), stale' = Pointed(k, v, i)
    PROVE  HairpinHasRedirect' /\ (k \in DnatKeys => Pairs(k, v)')
<1>1. k \in DnatKeys /\ i = 1 =>
        /\ Redirect(k, v) \in flows'
        /\ stale' = (stale \cup (flows \cap Hairpins(k))) \ {Hairpin(k, v)}
  BY DnatKeyShape, RulePriorities, AddFlowFacts DEF Pointed
<1>2. ~(k \in DnatKeys /\ i = 1) =>
        /\ stale' = stale
        /\ \A l \in DnatKeys : \A t : Redirect(l, t) \in flows => Redirect(l, t) \in flows'
  BY AddKeepsRedirect DEF Pointed
<1>3. ASSUME NEW l \in DnatKeys, NEW to \in ValuesOf(l), Hairpin(l, to) \in flows' \ stale'
      PROVE  Redirect(l, to) \in flows'
  <2>1. CASE Hairpin(l, to) \notin flows
    <3>1. l = k /\ i = 2 /\ Hairpin(l, to) = Hairpin(k, v)
      BY <1>3, <2>1, NewHairpin
    <3>2. Redirect(l, to) = Redirect(k, v) /\ Redirect(k, v) \in flows
      BY <1>2, <1>3, <3>1, OneHairpin DEF Pairs
    <3>3. QED
      BY <1>2, <3>1, <3>2
  <2>2. CASE Hairpin(l, to) \in flows /\ k \in DnatKeys /\ i = 1 /\ Hairpin(l, to) = Hairpin(k, v)
    BY <1>1, <2>2, OneHairpin
  <2>3. CASE Hairpin(l, to) \in flows /\ k \in DnatKeys /\ i = 1 /\ Hairpin(l, to) # Hairpin(k, v)
    <3>1. Hairpin(l, to) \notin stale /\ Hairpin(l, to) \notin Hairpins(k)
      BY <1>1, <1>3, <2>3
    <3>2. l # k
      BY <3>1 DEF Hairpins
    <3>3. Redirect(l, to) \in flows
      BY <2>3, <3>1 DEF HairpinHasRedirect
    <3>4. QED
      BY <3>2, <3>3, AddKeepsRedirect
  <2>4. CASE Hairpin(l, to) \in flows /\ ~(k \in DnatKeys /\ i = 1)
    BY <1>2, <1>3, <2>4 DEF HairpinHasRedirect
  <2>5. QED
    BY <2>1, <2>2, <2>3, <2>4
<1>4. HairpinHasRedirect'
  BY <1>3 DEF HairpinHasRedirect
<1>5. ASSUME k \in DnatKeys PROVE Pairs(k, v)'
  <2>1. i = 1 \/ i >= 2
    OBVIOUS
  <2>2. QED
    BY <1>1, <1>2, <1>5, <2>1 DEF Pairs
<1>6. QED
  BY <1>4, <1>5

\* A step that takes no redirection and adds no hairpin flow.
LEMMA Harmless ==
    ASSUME HairpinHasRedirect, stale \subseteq stale',
           \A l \in DnatKeys : \A t : Redirect(l, t) \in flows => Redirect(l, t) \in flows',
           \A l, t : Hairpin(l, t) \in flows' => Hairpin(l, t) \in flows
    PROVE  HairpinHasRedirect' /\ \A l \in DnatKeys : \A t : Pairs(l, t) => Pairs(l, t)'
BY DEF HairpinHasRedirect, Pairs

\* A delete by any match keeps every hairpin flow with its redirection.
LEMMA DeleteServes ==
    ASSUME HairpinHasRedirect, stale \subseteq stale', NEW match,
           flows' = DelFlows(flows, TableNat, match)
    PROVE  HairpinHasRedirect'
<1>1. SUFFICES ASSUME NEW l \in DnatKeys, NEW to \in ValuesOf(l),
                      Hairpin(l, to) \in flows' \ stale'
               PROVE  Redirect(l, to) \in flows'
  BY DEF HairpinHasRedirect
<1>2. Hairpin(l, to) \in flows \ stale
  BY <1>1, DelFlowsFacts
<1>3. Redirect(l, to) \in flows
  BY <1>2 DEF HairpinHasRedirect
<1>4. to \in ToTexts
  BY DnatKeyShape, ValueFacts
<1>5. QED
  BY <1>1, <1>3, <1>4, DeleteTakesHairpin

\* The strengthened invariant is inductive.
LEMMA HairpinStep == TypeOK /\ HairpinInv /\ [Next]_vars => HairpinInv'
<1> SUFFICES ASSUME TypeOK, HairpinHasRedirect, Progress, [Next]_vars
             PROVE  HairpinHasRedirect' /\ Progress'
  BY DEF HairpinInv
<1> USE NoneAssumption
<1>a. NoKey \notin DnatKeys
  BY DEF Keys
<1>b. phase # "serve" => request = NoRequest
  BY DEF TypeOK, RequestOK
<1>c. phase # "restore" => boot.key = NoKey
  BY DEF TypeOK, BootOK
<1>d. NoRequest.key \notin DnatKeys /\ NoBoot.key \notin DnatKeys
  BY <1>a DEF NoRequest, NoBoot
<1>1. CASE Boot
  <2>1. request' = NoRequest /\ boot' = NoBoot /\ UNCHANGED <<flows, stale>>
    BY <1>1, <1>b DEF Boot
  <2>2. QED
    BY <2>1, <1>d, Harmless DEF Progress
<1>2. CASE Flush
  <2>1. request' = NoRequest /\ boot'.key = NoKey
    BY <1>2, <1>b, <1>c DEF Flush, TypeOK, BootOK
  <2>2. flows' = {} \/ UNCHANGED <<flows, stale>>
    BY <1>2 DEF Flush, DelAllFlows
  <2>3. HairpinHasRedirect'
    BY <2>2, Harmless DEF HairpinHasRedirect
  <2>4. QED
    BY <2>1, <2>3, <1>a, <1>d DEF Progress
<1>3. CASE AddBase
  <2>1. request' = NoRequest /\ boot'.key = NoKey
    BY <1>3, <1>b, <1>c DEF AddBase, TypeOK, BootOK
  <2>2. boot.pc \in BaseIds /\ UNCHANGED stale
        /\ (UNCHANGED flows \/ flows' = AddFlow(flows, BaseFlow[boot.pc]))
    BY <1>3 DEF AddBase
  <2>3. HairpinHasRedirect'
    BY <2>2, BaseApart, Harmless
  <2>4. QED
    BY <2>1, <2>3, <1>a, <1>d DEF Progress
<1>4. CASE ListLocal
  <2>1. request' = NoRequest /\ boot'.key = NoKey
    BY <1>4, <1>b, <1>c DEF ListLocal, TypeOK, BootOK
  <2>2. UNCHANGED stale
        /\ (UNCHANGED flows \/ \E a : flows' = AddFlow(flows, LocalFlow(a)))
    BY <1>4 DEF ListLocal
  <2>3. HairpinHasRedirect'
    BY <2>2, LocalApart, Harmless
  <2>4. QED
    BY <2>1, <2>3, <1>a, <1>d DEF Progress
<1>5. CASE ReadConfig \/ PickKey \/ Serve
  <2>1. request' = request /\ (boot'.key = NoKey \/ boot'.pc = 1)
        /\ UNCHANGED <<flows, stale>>
    BY <1>5 DEF ReadConfig, PickKey, Serve, NoBoot, history
  <2>2. QED
    BY <2>1, <1>a, Harmless DEF Progress
<1>6. CASE RestoreFlow
  <2> DEFINE k == boot.key
  <2>1. k \in Keys /\ boot.pc \in 1..LastFlow(k) /\ config[k] \in ValuesOf(k)
    BY <1>6 DEF RestoreFlow, TypeOK, BootOK, Store
  <2>2. request' = NoRequest /\ UNCHANGED config
    BY <1>6, <1>b DEF RestoreFlow
  <2>3. CASE UNCHANGED <<flows, stale>> /\ boot'.key = NoKey
    BY <2>2, <2>3, <1>a, <1>d, Harmless DEF Progress
  <2>4. CASE /\ flows' = AddFlow(flows, RuleFlow(k, config[k], boot.pc))
             /\ stale' = Pointed(k, config[k], boot.pc)
    <3>1. k \in DnatKeys /\ boot.pc >= 2 => Pairs(k, config[k])
      BY DEF Progress
    <3>0. PICK v \in ValuesOf(k) : v = config[k]
      BY <2>1
    <3>2. /\ HairpinHasRedirect'
          /\ k \in DnatKeys => Redirect(k, v) \in flows' \/ Hairpin(k, v) \in stale'
      BY <2>1, <2>4, <3>0, <3>1, AddInTurn DEF Pairs
    <3>3. boot'.key \in {NoKey, k}
      BY <1>6 DEF RestoreFlow, TypeOK, BootOK
    <3>4. QED
      BY <2>2, <3>0, <3>2, <3>3, <1>a, <1>d DEF Progress, Pairs
  <2>5. QED
    BY <1>6, <2>3, <2>4 DEF RestoreFlow
<1>7. ASSUME NEW a \in Addr, AddLocal(a) PROVE HairpinHasRedirect' /\ Progress'
  <2>1. request' = NoRequest /\ UNCHANGED <<boot, config, stale>>
        /\ (UNCHANGED flows \/ flows' = AddFlow(flows, LocalFlow(a)))
    BY <1>7 DEF AddLocal, Watching
  <2>2. /\ \A l \in DnatKeys : \A t : Redirect(l, t) \in flows => Redirect(l, t) \in flows'
        /\ \A l, t : Hairpin(l, t) \in flows' => Hairpin(l, t) \in flows
    BY <2>1, LocalApart
  <2>3. QED
    BY <2>1, <2>2, <1>d, Harmless DEF Progress
<1>8. ASSUME NEW a \in Addr, DelLocal(a) PROVE HairpinHasRedirect' /\ Progress'
  <2> DEFINE k == boot.key
             v == config[k]
  <2>1. request = NoRequest /\ request' = NoRequest /\ UNCHANGED <<boot, config>>
    BY <1>8 DEF DelLocal, Watching
  <2>2. \/ UNCHANGED <<flows, stale>>
        \/ /\ flows' = DelFlows(flows, TableNat, LocalMatch(a))
           /\ stale' = stale \cup {h \in BeingAdded : h.match.dst = {a}}
    BY <1>8 DEF DelLocal
  <2>3. HairpinHasRedirect'
    BY <2>2, Harmless, DeleteServes
  <2>4. ASSUME k \in DnatKeys, Pairs(k, v) PROVE Pairs(k, v)'
    <3>1. CASE UNCHANGED <<flows, stale>>
      BY <2>1, <2>4, <3>1 DEF Pairs
    <3>2. CASE /\ flows' = DelFlows(flows, TableNat, LocalMatch(a))
               /\ stale' = stale \cup {h \in BeingAdded : h.match.dst = {a}}
      <4>1. Hairpin(k, v) \in BeingAdded /\ Hairpin(k, v).match.dst = {k.bind.addr}
        BY <2>4, RedirectFields DEF BeingAdded
      <4>2. CASE k.bind.addr = a
        BY <2>1, <3>2, <4>1, <4>2 DEF Pairs
      <4>3. CASE k.bind.addr # a
        BY <2>1, <2>4, <3>2, <4>3, LocalSparesRedirect DEF Pairs
      <4>4. QED
        BY <4>2, <4>3
    <3>3. QED
      BY <2>2, <3>1, <3>2
  <2>5. QED
    BY <2>1, <2>3, <2>4, <1>d DEF Progress
<1>9. CASE AddressWhileDown
  <2>1. UNCHANGED <<flows, stale, boot, config, request>>
    BY <1>9 DEF AddressWhileDown, history
  <2>2. QED
    BY <2>1, Harmless DEF Progress
<1>10. CASE Rest
  <2>1. request'.pc = 1 /\ UNCHANGED <<flows, stale, boot, config>>
    BY <1>10 DEF Rest, DelSNAT, AddSNAT, DelDNAT, AddDNAT, Accept
  <2>2. QED
    BY <2>1, Harmless DEF Progress
<1>11. CASE FlowCommand
  <2> DEFINE k == request.key
             v == request.val
  <2>1. /\ k \in Keys
        /\ request.pc \in 1..LastFlow(k)
        /\ request.kind = "add" => v \in ValuesOf(k)
        /\ boot'.key = NoKey
        /\ request.kind \in {"add", "del"}
    BY <1>11, <1>c DEF FlowCommand, TypeOK, RequestOK, Kinds
  <2>2. CASE UNCHANGED <<flows, stale>> /\ request' = NoRequest
    BY <2>1, <2>2, <1>a, <1>d, Harmless DEF Progress
  <2>3. CASE /\ request.kind = "del" /\ request' = [request EXCEPT !.pc = @ + 1]
             /\ flows' = DelFlows(flows, TableNat, RuleMatch(k, v, request.pc))
             /\ UNCHANGED stale
    <3>1. request'.kind = "del"
      BY <2>3 DEF TypeOK, RequestOK
    <3>2. QED
      BY <2>1, <2>3, <3>1, <1>a, DeleteServes DEF Progress
  <2>4. CASE /\ request.kind = "add" /\ request' = [request EXCEPT !.pc = @ + 1]
             /\ flows' = AddFlow(flows, RuleFlow(k, v, request.pc))
             /\ stale' = Pointed(k, v, request.pc)
    <3>1. k \in DnatKeys /\ request.pc >= 2 => Pairs(k, v)
      BY <2>4 DEF Progress
    <3>2. request'.key = k /\ request'.val = v
      BY <2>4 DEF TypeOK, RequestOK
    <3>3. HairpinHasRedirect' /\ (k \in DnatKeys => Pairs(k, v)')
      BY <2>1, <2>4, <3>1, <3>2, AddInTurn DEF Pairs
    <3>4. QED
      BY <2>1, <3>2, <3>3, <1>a DEF Progress, Pairs
  <2>5. QED
    BY <1>11, <2>2, <2>3, <2>4 DEF FlowCommand
<1>12. CASE Persist
  <2>1. request' = NoRequest /\ boot'.key = NoKey /\ UNCHANGED <<flows, stale>>
    BY <1>12, <1>b, <1>c DEF Persist
  <2>2. QED
    BY <2>1, <1>a, <1>d, Harmless DEF Progress
<1>13. CASE Crash
  <2>1. request' = NoRequest /\ boot' = NoBoot /\ UNCHANGED <<flows, stale>>
    BY <1>13 DEF Crash
  <2>2. QED
    BY <2>1, <1>d, Harmless DEF Progress
<1>14. CASE SwitchRestart
  <2>1. /\ flows' = {}
        /\ UNCHANGED <<boot, request, config>>
        /\ stale' = stale \cup BeingAdded
    BY <1>14 DEF SwitchRestart
  <2>2. HairpinHasRedirect'
    BY <2>1 DEF HairpinHasRedirect
  <2>3. /\ boot.key \in DnatKeys => Hairpin(boot.key, config[boot.key]) \in stale'
        /\ request.key \in DnatKeys => Hairpin(request.key, request.val) \in stale'
    BY <2>1 DEF BeingAdded
  <2>4. QED
    BY <2>1, <2>2, <2>3 DEF Progress, Pairs
<1>15. CASE UNCHANGED vars
  <2>1. UNCHANGED <<flows, stale, boot, config, request>>
    BY <1>15 DEF vars, state, history
  <2>2. QED
    BY <2>1, Harmless DEF Progress
<1>16. QED
  BY <1>1, <1>2, <1>3, <1>4, <1>5, <1>6, <1>7, <1>8, <1>9, <1>10, <1>11, <1>12, <1>13, <1>14,
     <1>15
     DEF Next, StartUp

\* In no state, whatever failed or crashed, does a hairpin flow stand without
\* the redirection to its own target, but for those a rule left behind.
THEOREM HairpinNeverAlone == Spec => []HairpinHasRedirect
<1>1. Init => HairpinInv
  BY NoneAssumption DEF Init, HairpinInv, HairpinHasRedirect, Progress, NoRequest, NoBoot, Keys
<1>2. HairpinInv => HairpinHasRedirect
  BY DEF HairpinInv
<1>3. QED
  BY <1>1, <1>2, TypeInit, TypeStep, HairpinStep, PTL DEF Spec

-----------------------------------------------------------------------------
(* The flow by which a rule acts *)

\* A rule acts by its first flow.
LEMMA ActorIsFirst ==
    ASSUME NEW k \in Keys, NEW v
    PROVE  /\ Actor(k, v) = RuleFlow(k, v, 1)
           /\ Actor(k, v).table = TableNat
           /\ Actor(k, v).match = RuleMatch(k, v, 1)
           /\ Actor(k, v).prio = IF k.kind = "snat" THEN 50 ELSE 160
           /\ Actor(k, v).act = IF k.kind = "snat" THEN SourceNat(v)
                                ELSE DestNat(ParseBind(k.proto, v))
<1>1. CASE k.kind = "snat"
  BY <1>1 DEF Actor, RuleFlow, RuleMatch, SnatFlow, Flow
<1>2. CASE k.kind # "snat"
  BY <1>2 DEF Actor, RuleFlow, RuleMatch, Redirect, DnatFlow, Flow, DnatPrio, DnatAct
<1>3. QED
  BY <1>1, <1>2

\* Its match does not depend on the value, so a new value takes the old one's
\* slot, and a delete by the rule reaches every value.
LEMMA ActorMatch ==
    ASSUME NEW k \in Keys, NEW v, NEW w
    PROVE  Actor(k, v).match = Actor(k, w).match
<1>1. CASE k.kind = "snat"
  BY <1>1, ActorIsFirst DEF RuleMatch
<1>2. CASE k.kind # "snat"
  <2>1. DnatMatch(1, k.proto, k.bind, ParseBind(k.proto, v))
          = DnatMatch(1, k.proto, k.bind, ParseBind(k.proto, w))
    BY DEF DnatMatch
  <2>2. QED
    BY <1>2, <2>1, ActorIsFirst DEF RuleMatch
<1>3. QED
  BY <1>1, <1>2

\* A SNAT key is its source, and the source is in the match.
LEMMA SnatSources ==
    ASSUME NEW k \in SnatKeys, NEW l \in SnatKeys,
           SnatMatch(k.source) = SnatMatch(l.source)
    PROVE  k = l
<1>1. SnatMatch(k.source).src = k.source /\ SnatMatch(l.source).src = l.source
  BY DEF SnatMatch, AnyIP, AnyPacket
<1>2. QED
  BY <1>1 DEF SnatKeys, SnatKey

\* Only the first flow of the same rule shares its slot.
LEMMA ActorSlots ==
    ASSUME NEW k \in Keys, NEW v, NEW l \in Keys, NEW w, NEW i \in 1..LastFlow(l),
           SameSlot(Actor(k, v), RuleFlow(l, w, i))
    PROVE  k = l /\ i = 1
<1>1. CASE k.kind = "snat"
  <2>1. RuleFlow(l, w, i).prio = 50 /\ RuleFlow(l, w, i).match = SnatMatch(k.source)
    BY <1>1, ActorIsFirst DEF SameSlot, RuleMatch
  <2>2. l.kind = "snat"
    <3>1. ASSUME l.kind # "snat" PROVE FALSE
      BY <2>1, <3>1 DEF RuleFlow, DnatFlow, Flow, DnatPrio
    <3>2. QED
      BY <3>1
  <2>3. i = 1
    BY <2>2 DEF LastFlow
  <2>4. SnatMatch(k.source) = SnatMatch(l.source)
    BY <2>1, <2>2 DEF RuleFlow, SnatFlow, Flow
  <2>5. QED
    BY <1>1, <2>2, <2>3, <2>4, SnatSources, KeyFacts
<1>2. CASE k.kind = "dnat"
  <2>1. Actor(k, v) = Redirect(k, v) /\ RuleFlow(l, w, i).prio = 160
    BY <1>2, ActorIsFirst DEF SameSlot, Actor
  <2>2. l \in DnatKeys /\ i = 1 /\ RuleFlow(l, w, i) = Redirect(l, w)
    BY <2>1, RulePriorities
  <2>3. Redirect(k, v).match = Redirect(l, w).match
    BY <2>1, <2>2 DEF SameSlot
  <2>4. /\ {k.proto} = {l.proto}
        /\ {k.bind.addr} = {l.bind.addr}
        /\ TransportPort(k.proto, k.bind.port) = TransportPort(l.proto, l.bind.port)
    BY <2>3, RedirectFields
  <2>5. QED
    BY <1>2, <2>2, <2>4, SameRule, KeyFacts
<1>3. QED
  BY <1>1, <1>2, KeyFacts

\* One flow, one effect.
LEMMA ActorEffect ==
    ASSUME NEW k \in Keys, NEW v \in ValuesOf(k), NEW w \in ValuesOf(k),
           Actor(k, v).act = Actor(k, w).act
    PROVE  Effect(k, v) = Effect(k, w)
<1>1. v # NoVal /\ w # NoVal
  BY ValueFacts
<1>2. CASE k.kind = "snat"
  <2>1. SourceNat(v) = SourceNat(w)
    BY <1>2, ActorIsFirst
  <2>2. v = w
    BY <2>1 DEF SourceNat
  <2>3. QED
    BY <2>2
<1>3. CASE k.kind # "snat"
  <2>1. DestNat(ParseBind(k.proto, v)) = DestNat(ParseBind(k.proto, w))
    BY <1>3, ActorIsFirst
  <2>2. ParseBind(k.proto, v) = ParseBind(k.proto, w)
    BY <2>1 DEF DestNat
  <2>3. QED
    BY <1>1, <1>3, <2>2 DEF Effect
<1>4. QED
  BY <1>2, <1>3

\* A value has an effect of RuleStore, and none is the absence of a rule.
LEMMA EffectFacts ==
    ASSUME NEW k \in Keys
    PROVE  /\ Effect(k, NoVal) = NoVal
           /\ \A v \in ValuesOf(k) : Effect(k, v) \in Effects /\ Effect(k, v) # NoVal
<1>1. Effect(k, NoVal) = NoVal
  BY DEF Effect
<1>2. ASSUME NEW v \in ValuesOf(k) PROVE Effect(k, v) \in Effects /\ Effect(k, v) # NoVal
  <2>1. v # NoVal
    BY ValueFacts
  <2>2. CASE k.kind = "snat"
    BY <2>1, <2>2 DEF Effect, Effects, ValuesOf
  <2>3. CASE k.kind = "dnat"
    <3>1. /\ k.proto \in {"icmp", "tcp", "udp"}
          /\ v \in ToTexts /\ Parses(k.proto, v)
          /\ v.addr \in Addr /\ v.port \in Port \cup {NoPort}
      BY <2>3, KeyFacts, ValueFacts, TextAssumption
    <3>2. Effect(k, v) = ParseBind(k.proto, v)
      BY <2>1, <2>3 DEF Effect
    <3>3. ParseBind(k.proto, v) \in Bind
      BY <3>1 DEF ParseBind, Parses, Bind
    <3>4. ParseBind("udp", v) = ParseBind("tcp", v)
      BY DEF ParseBind
    <3>5. ParseBind(k.proto, v) \in Effects
      BY <3>1, <3>4 DEF Effects
    <3>6. QED
      BY <3>2, <3>3, <3>5, NoneAssumption
  <2>4. QED
    BY <2>2, <2>3, KeyFacts
<1>3. QED
  BY <1>1, <1>2

-----------------------------------------------------------------------------
(* What acts in a table *)

\* What takes flows away starts nothing.
LEMMA FewerAct ==
    ASSUME NEW T, NEW U, NEW k \in Keys,
           \A v \in ValuesOf(k) : Actor(k, v) \in T => Actor(k, v) \in U
    PROVE  Acting(T, k) \subseteq Acting(U, k)
BY DEF Acting

\* The first flow of a rule leaves its effect alone to act for the key; its
\* other flows and those of other rules change nothing about what acts.
LEMMA AddRuleActs ==
    ASSUME NEW T, NEW l \in Keys, NEW w \in ValuesOf(l), NEW i \in 1..LastFlow(l),
           NEW k \in Keys
    PROVE  /\ k = l /\ i = 1 => Acting(AddFlow(T, RuleFlow(l, w, i)), k) = {Effect(l, w)}
           /\ k # l \/ i # 1 => Acting(AddFlow(T, RuleFlow(l, w, i)), k) = Acting(T, k)
<1> DEFINE U == AddFlow(T, RuleFlow(l, w, i))
<1>1. CASE k = l /\ i = 1
  <2>1. Actor(l, w) = RuleFlow(l, w, i) /\ Actor(l, w) \in U
    BY <1>1, ActorIsFirst, AddFlowFacts
  <2>2. ASSUME NEW v \in ValuesOf(l), Actor(l, v) \in U
        PROVE  Effect(l, v) = Effect(l, w)
    <3>1. SameSlot(Actor(l, v), RuleFlow(l, w, i))
      BY <2>1, ActorIsFirst, ActorMatch DEF SameSlot
    <3>2. Actor(l, v) = Actor(l, w)
      BY <2>1, <2>2, <3>1 DEF AddFlow
    <3>3. QED
      BY <3>2, ActorEffect
  <2>3. Acting(U, l) = {Effect(l, w)}
    <3> HIDE DEF U
    <3>1. QED
      BY <2>1, <2>2 DEF Acting
  <2>4. QED
    BY <1>1, <2>3
<1>2. CASE ~(k = l /\ i = 1)
  <2>1. \A v : ~SameSlot(Actor(k, v), RuleFlow(l, w, i))
    BY <1>2, ActorSlots
  <2>2. \A v : Actor(k, v) # RuleFlow(l, w, i)
    BY <2>1 DEF SameSlot
  <2>3. \A v : Actor(k, v) \in U <=> Actor(k, v) \in T
    BY <2>1, <2>2 DEF AddFlow
  <2>4. Acting(U, k) = Acting(T, k)
    <3> HIDE DEF U
    <3>1. QED
      BY <2>3 DEF Acting
  <2>5. QED
    BY <1>2, <2>4
<1>3. QED
  BY <1>1, <1>2

\* The flows of base and addresses start nothing.
LEMMA AddOtherActs ==
    ASSUME NEW T, NEW f, NEW k \in Keys,
           (\E b \in BaseIds : f = BaseFlow[b]) \/ (\E a \in Addr : f = LocalFlow(a))
    PROVE  Acting(AddFlow(T, f), k) \subseteq Acting(T, k)
<1>1. f.table # TableNat \/ f.prio \notin {50, 160}
  <2>1. ASSUME NEW b \in BaseIds, f = BaseFlow[b] PROVE f.table = TableNat => f.prio \in {10, 200}
    BY <2>1, BaseTables
  <2>2. ASSUME NEW a \in Addr, f = LocalFlow(a) PROVE f.prio = 150
    BY <2>2 DEF LocalFlow, Flow
  <2>3. QED
    BY <2>1, <2>2
<1>2. \A v : Actor(k, v) # f
  BY <1>1, ActorIsFirst
<1>3. \A v : Actor(k, v) \in AddFlow(T, f) => Actor(k, v) \in T
  BY <1>2, AddFlowFacts
<1>4. QED
  BY <1>3, FewerAct

\* Deleting by the first match of a rule leaves nothing to act for its key.
LEMMA DelRuleActs ==
    ASSUME NEW T, NEW k \in Keys, NEW v
    PROVE  Acting(DelFlows(T, TableNat, RuleMatch(k, v, 1)), k) = {}
<1>1. ASSUME NEW w PROVE Actor(k, w) \notin DelFlows(T, TableNat, RuleMatch(k, v, 1))
  <2>1. Actor(k, w).match = RuleMatch(k, v, 1) /\ Actor(k, w).table = TableNat
    BY ActorIsFirst, ActorMatch
  <2>2. Covers(RuleMatch(k, v, 1), Actor(k, w).match)
    BY <2>1 DEF Covers
  <2>3. QED
    BY <2>1, <2>2, DelFlowsFacts
<1>2. QED
  BY <1>1 DEF Acting

\* No delete starts anything.
LEMMA DeleteActs ==
    ASSUME NEW T, NEW table, NEW match, NEW k \in Keys
    PROVE  Acting(DelFlows(T, table, match), k) \subseteq Acting(T, k)
BY FewerAct, DelFlowsFacts

\* Nothing acts in empty tables.
LEMMA EmptyActs == \A k : Acting({}, k) = {}
BY DEF Acting

-----------------------------------------------------------------------------
(* What start-up and a request in progress have achieved *)

\* Once the flush of a start succeeded, only what is kept acts;
OnlyKeptActs ==
    phase \in {"init", "list", "restore"} /\ flushed =>
        \A k \in Keys : Acting(flows, k) \subseteq Rules!Only(Effect(k, config[k]))

\* nothing is remembered until the configuration is read, and then every key
\* that is neither left nor in hand;
NothingListed == phase \in {"init", "list"} => \A k \in Keys : others[k] = NoVal
ListedSoFar ==
    phase = "restore" =>
        \A k \in Keys \ (boot.left \cup {boot.key}) : others[k] = config[k]

\* and from its first flow on, a request leaves only its effect to act.
RequestActs ==
    request # NoRequest /\ request.pc > 1 /\ request.key \notin errored
        => Acting(flows, request.key) = Rules!Only(Asked)

\* What the implementation of RuleStore rests on, besides the types.
RuleInv == OnlyKeptActs /\ NothingListed /\ ListedSoFar /\ RequestActs

\* The commands of a rule in turn, as the request or the start-up issues them.
LEMMA FlowCommandActs ==
    ASSUME TypeOK, RequestActs, FlowCommand, request' # NoRequest
    PROVE  /\ request.key \in Keys
           /\ request' = [request EXCEPT !.pc = @ + 1]
           /\ request'.key = request.key /\ Asked' = Asked
           /\ \A k \in Keys \ {request.key} : Acting(flows', k) \subseteq Acting(flows, k)
           /\ Acting(flows', request.key)
                \subseteq Acting(flows, request.key) \cup Rules!Only(Asked)
           /\ request.key \notin errored => Acting(flows', request.key) = Rules!Only(Asked)
<1> DEFINE k == request.key
<1>1. /\ k \in Keys
      /\ request.kind \in {"add", "del"}
      /\ request.pc \in 1..LastFlow(k)
      /\ request.pc = 1 \/ request.pc > 1
      /\ request.kind = "add" => request.val \in ValuesOf(k)
  BY KeyFacts DEF FlowCommand, TypeOK, RequestOK, Kinds
<1>2. /\ flows' = IF request.kind = "add"
                  THEN AddFlow(flows, RuleFlow(k, request.val, request.pc))
                  ELSE DelFlows(flows, TableNat, RuleMatch(k, request.val, request.pc))
      /\ request' = [request EXCEPT !.pc = @ + 1]
  BY DEF FlowCommand
<1>3. request' = [request EXCEPT !.pc = @ + 1] /\ request'.key = k /\ Asked' = Asked
  BY <1>2 DEF TypeOK, RequestOK, Asked
<1>4. CASE request.kind = "add"
  <2>1. Rules!Only(Asked) = {Effect(k, request.val)}
    BY <1>1, <1>4, EffectFacts DEF Asked, Rules!Only
  <2>2. /\ request.pc = 1 => Acting(flows', k) = {Effect(k, request.val)}
        /\ request.pc # 1 => Acting(flows', k) = Acting(flows, k)
        /\ \A l \in Keys \ {k} : Acting(flows', l) = Acting(flows, l)
    <3>1. flows' = AddFlow(flows, RuleFlow(k, request.val, request.pc))
      BY <1>2, <1>4
    <3> DEFINE U == AddFlow(flows, RuleFlow(k, request.val, request.pc))
    <3>2. \A l \in Keys :
             /\ l = k /\ request.pc = 1 => Acting(U, l) = {Effect(k, request.val)}
             /\ l # k \/ request.pc # 1 => Acting(U, l) = Acting(flows, l)
      BY <1>1, <1>4, AddRuleActs
    <3>3. QED
      BY <1>1, <3>1, <3>2
  <2>3. k \notin errored => Acting(flows', k) = Rules!Only(Asked)
    BY <1>1, <2>1, <2>2 DEF RequestActs, FlowCommand
  <2>4. QED
    BY <1>1, <1>3, <2>1, <2>2, <2>3
<1>5. CASE request.kind = "del"
  <2>1. Rules!Only(Asked) = {}
    BY <1>5 DEF Asked, Rules!Only
  <2>2. \A l \in Keys : Acting(flows', l) \subseteq Acting(flows, l)
    BY <1>2, <1>5, DeleteActs
  <2>3. request.pc = 1 => Acting(flows', k) = {}
    BY <1>1, <1>2, <1>5, DelRuleActs
  <2>4. request.pc # 1 /\ k \notin errored => Acting(flows, k) = {}
    BY <1>1, <2>1 DEF RequestActs, FlowCommand
  <2>5. QED
    BY <1>1, <1>3, <2>1, <2>2, <2>3, <2>4
<1>6. QED
  BY <1>1, <1>4, <1>5

\* The flow start-up adds for a key is of what is kept under it.
LEMMA RestoreActs ==
    ASSUME TypeOK, RestoreFlow, NEW k \in Keys
    PROVE  Acting(flows', k) \subseteq Acting(flows, k) \cup Rules!Only(Effect(k, config[k]))
<1>1. /\ boot.key \in Keys
      /\ boot.pc \in 1..LastFlow(boot.key)
      /\ config[boot.key] \in ValuesOf(boot.key)
  BY DEF RestoreFlow, TypeOK, BootOK, Store
<1>2. CASE UNCHANGED flows
  BY <1>2
<1>3. CASE flows' = AddFlow(flows, RuleFlow(boot.key, config[boot.key], boot.pc))
  <2>1. \/ Acting(flows', k) = Acting(flows, k)
        \/ k = boot.key /\ Acting(flows', k) = {Effect(boot.key, config[boot.key])}
    BY <1>1, <1>3, AddRuleActs
  <2>2. Effect(boot.key, config[boot.key]) # NoVal
    BY <1>1, EffectFacts
  <2>3. QED
    BY <2>1, <2>2 DEF Rules!Only
<1>4. QED
  BY <1>2, <1>3 DEF RestoreFlow

\* Addresses come and go, base flows are added: nothing starts.
LEMMA OthersAct ==
    ASSUME TypeOK, NEW k \in Keys,
           \/ Flush \/ AddBase \/ ListLocal
           \/ \E a \in Addr : AddLocal(a) \/ DelLocal(a)
           \/ SwitchRestart
    PROVE  Acting(flows', k) \subseteq Acting(flows, k)
<1>1. CASE flows' = {} \/ flows' = flows
  BY <1>1, EmptyActs
<1>2. CASE Flush
  BY <1>1, <1>2 DEF Flush, DelAllFlows
<1>3. CASE AddBase
  BY <1>1, <1>3, AddOtherActs DEF AddBase
<1>4. CASE ListLocal
  BY <1>1, <1>4, AddOtherActs DEF ListLocal, TypeOK, BootOK
<1>5. ASSUME NEW a \in Addr, AddLocal(a) PROVE Acting(flows', k) \subseteq Acting(flows, k)
  BY <1>1, <1>5, AddOtherActs DEF AddLocal
<1>6. ASSUME NEW a \in Addr, DelLocal(a) PROVE Acting(flows', k) \subseteq Acting(flows, k)
  BY <1>1, <1>6, DeleteActs DEF DelLocal
<1>7. CASE SwitchRestart
  BY <1>1, <1>7 DEF SwitchRestart
<1>8. QED
  BY <1>2, <1>3, <1>4, <1>5, <1>6, <1>7

\* The strengthened invariant is inductive.
LEMMA RuleStep == TypeOK /\ RuleInv /\ [Next]_vars => RuleInv'
<1> SUFFICES ASSUME TypeOK, OnlyKeptActs, NothingListed, ListedSoFar, RequestActs, [Next]_vars
             PROVE  OnlyKeptActs' /\ NothingListed' /\ ListedSoFar' /\ RequestActs'
  BY DEF RuleInv
<1>a. phase # "serve" => request = NoRequest
  BY DEF TypeOK, RequestOK
<1>b. \A k \in Keys : others[k] \in Values \cup {NoVal} /\ DOMAIN others = Keys
  BY DEF TypeOK, Store
<1>1. CASE Boot
  <2>1. request' = NoRequest
    BY <1>1, <1>a DEF Boot
  <2>2. NothingListed'
    BY <1>1 DEF Boot, NothingListed
  <2>3. QED
    BY <1>1, <2>1, <2>2 DEF Boot, OnlyKeptActs, ListedSoFar, RequestActs
<1>2. CASE Flush
  <2>1. request' = NoRequest /\ phase' = "init"
    BY <1>2, <1>a DEF Flush
  <2>2. OnlyKeptActs'
    BY <1>2, EmptyActs DEF Flush, DelAllFlows, OnlyKeptActs
  <2>3. QED
    BY <1>2, <2>1, <2>2 DEF Flush, NothingListed, ListedSoFar, RequestActs
<1>3. CASE AddBase
  <2>1. request' = NoRequest /\ phase = "init" /\ phase' \in {"init", "list"}
    BY <1>3, <1>a DEF AddBase
  <2>2. OnlyKeptActs'
    BY <1>3, <2>1, OthersAct DEF AddBase, OnlyKeptActs
  <2>3. QED
    BY <1>3, <2>1, <2>2 DEF AddBase, NothingListed, ListedSoFar, RequestActs
<1>4. CASE ListLocal
  <2>1. request' = NoRequest /\ phase = "list" /\ phase' = "list"
    BY <1>4, <1>a DEF ListLocal
  <2>2. OnlyKeptActs'
    BY <1>4, <2>1, OthersAct DEF ListLocal, OnlyKeptActs
  <2>3. QED
    BY <1>4, <2>1, <2>2 DEF ListLocal, NothingListed, ListedSoFar, RequestActs
<1>5. CASE ReadConfig
  <2>1. request' = NoRequest /\ phase = "list" /\ phase' \in {"restore", "serve"}
    BY <1>5, <1>a DEF ReadConfig
  <2>2. OnlyKeptActs'
    BY <1>5, <2>1 DEF ReadConfig, OnlyKeptActs
  <2>3. phase' = "restore" => boot'.left = {k \in Keys : config[k] # NoVal}
    BY <1>5 DEF ReadConfig, NoBoot
  <2>4. ListedSoFar'
    BY <1>5, <2>1, <2>3 DEF ReadConfig, ListedSoFar, NothingListed
  <2>5. QED
    BY <2>1, <2>2, <2>4 DEF NothingListed, RequestActs
<1>6. CASE PickKey
  <2>1. request' = NoRequest /\ phase = "restore" /\ boot.key = NoKey
        /\ UNCHANGED <<flows, config, others, phase, flushed>>
    BY <1>6, <1>a DEF PickKey, history
  <2>2. boot'.left \cup {boot'.key} = boot.left
    BY <1>6 DEF PickKey
  <2>3. ListedSoFar'
    BY <2>1, <2>2, NoneAssumption DEF ListedSoFar
  <2>4. QED
    BY <2>1, <2>3 DEF OnlyKeptActs, NothingListed, RequestActs
<1>7. CASE RestoreFlow
  <2>1. request' = NoRequest /\ phase = "restore"
        /\ UNCHANGED <<config, phase, flushed>> /\ boot.key \in Keys
    BY <1>7, <1>a DEF RestoreFlow, TypeOK, BootOK
  <2>2. OnlyKeptActs'
    BY <1>7, <2>1, RestoreActs DEF OnlyKeptActs
  <2>3. CASE UNCHANGED others /\ boot' = [boot EXCEPT !.pc = @ + 1]
    <3>1. boot'.left = boot.left /\ boot'.key = boot.key
      BY <2>3 DEF TypeOK, BootOK
    <3>2. QED
      BY <2>1, <2>2, <2>3, <3>1 DEF NothingListed, ListedSoFar, RequestActs
  <2>4. CASE /\ others' = [others EXCEPT ![boot.key] = config[boot.key]]
             /\ boot' = [pc |-> 0, left |-> boot.left, key |-> NoKey]
    <3>1. \A k \in Keys : others'[k] = IF k = boot.key THEN config[k] ELSE others[k]
      BY <1>b, <2>4
    <3>2. ListedSoFar'
      BY <2>1, <2>4, <3>1 DEF ListedSoFar
    <3>3. QED
      BY <2>1, <2>2, <3>2 DEF NothingListed, RequestActs
  <2>5. QED
    BY <1>7, <2>3, <2>4 DEF RestoreFlow
<1>8. CASE Serve
  <2>1. request' = NoRequest /\ phase' = "serve"
    BY <1>8, <1>a DEF Serve
  <2>2. QED
    BY <2>1 DEF OnlyKeptActs, NothingListed, ListedSoFar, RequestActs
<1>9. ASSUME NEW a \in Addr, AddLocal(a) \/ DelLocal(a)
      PROVE  OnlyKeptActs' /\ NothingListed' /\ ListedSoFar' /\ RequestActs'
  <2>1. request' = NoRequest /\ UNCHANGED <<config, others, phase, boot, flushed>>
    BY <1>9 DEF AddLocal, DelLocal, Watching
  <2>2. \A k \in Keys : Acting(flows', k) \subseteq Acting(flows, k)
    BY <1>9, OthersAct
  <2>3. QED
    BY <2>1, <2>2 DEF OnlyKeptActs, NothingListed, ListedSoFar, RequestActs
<1>10. CASE AddressWhileDown
  <2>1. UNCHANGED <<request, config, others, phase, boot, flows, flushed, errored>>
    BY <1>10 DEF AddressWhileDown, history
  <2>2. QED
    BY <2>1 DEF OnlyKeptActs, NothingListed, ListedSoFar, RequestActs, Asked
<1>11. CASE Rest
  <2>1. phase' = "serve" /\ request'.pc = 1
    BY <1>11 DEF Rest, DelSNAT, AddSNAT, DelDNAT, AddDNAT, Accept
  <2>2. QED
    BY <2>1 DEF OnlyKeptActs, NothingListed, ListedSoFar, RequestActs
<1>12. CASE FlowCommand
  <2>1. phase' = "serve"
    BY <1>12, <1>a DEF FlowCommand
  <2>2. request' # NoRequest => UNCHANGED errored
    BY <1>12 DEF FlowCommand
  <2>3. RequestActs'
    BY <1>12, <2>2, FlowCommandActs DEF RequestActs
  <2>4. QED
    BY <2>1, <2>3 DEF OnlyKeptActs, NothingListed, ListedSoFar
<1>13. CASE Persist
  <2>1. phase' = "serve" /\ request' = NoRequest
    BY <1>13, <1>a DEF Persist
  <2>2. QED
    BY <2>1 DEF OnlyKeptActs, NothingListed, ListedSoFar, RequestActs
<1>14. CASE Crash
  BY <1>14 DEF Crash, OnlyKeptActs, NothingListed, ListedSoFar, RequestActs
<1>15. CASE SwitchRestart
  <2>1. /\ flows' = {}
        /\ UNCHANGED <<config, others, phase, boot, request, flushed>>
        /\ errored' = errored \cup ({request.key, boot.key} \cap Keys)
    BY <1>15 DEF SwitchRestart
  <2>2. request # NoRequest => request.key \in errored'
    BY <2>1 DEF TypeOK, RequestOK
  <2>3. QED
    BY <2>1, <2>2, EmptyActs DEF OnlyKeptActs, NothingListed, ListedSoFar, RequestActs
<1>16. CASE UNCHANGED vars
  <2>1. UNCHANGED <<request, config, others, phase, boot, flows, flushed, errored>>
    BY <1>16 DEF vars, state, history
  <2>2. QED
    BY <2>1 DEF OnlyKeptActs, NothingListed, ListedSoFar, RequestActs, Asked
<1>17. QED
  BY <1>1, <1>2, <1>3, <1>4, <1>5, <1>6, <1>7, <1>8, <1>9, <1>10, <1>11, <1>12, <1>13, <1>14,
     <1>15, <1>16
     DEF Next, StartUp

-----------------------------------------------------------------------------
(* The implementation *)

\* A step that only takes effects away, or puts keys in doubt, is a Sweep.
LEMMA IsSweep ==
    ASSUME UNCHANGED <<config, others, phase, request>>,
           \A k \in Keys : Acting(flows', k) \subseteq Acting(flows, k),
           InDoubt \subseteq InDoubt'
    PROVE  Rules!Sweep
<1>1. UNCHANGED <<Serving, KeptEffects, ListedEffects, Asked>>
  BY DEF Serving, KeptEffects, ListedEffects, Asked
<1>2. QED
  BY <1>1 DEF Rules!Sweep, Rules!NoneStarts, ActingEffects

\* Up to the first request, start-up only brings back what is kept.
LEMMA StartUpImplements ==
    ASSUME TypeOK, TypeOK', RuleInv, RuleInv', StartUp
    PROVE  Rules!Next \/ UNCHANGED Rules!vars
<1>a. request = NoRequest /\ request' = NoRequest
  BY DEF StartUp, Boot, Flush, AddBase, ListLocal, ReadConfig, PickKey, RestoreFlow, Serve,
         TypeOK, RequestOK
<1>b. UNCHANGED <<config, KeptEffects, request, Asked>>
  BY <1>a DEF StartUp, Boot, Flush, AddBase, ListLocal, ReadConfig, PickKey, RestoreFlow, Serve,
              KeptEffects, Asked
<1>c. ~Serving
  BY DEF StartUp, Boot, Flush, AddBase, ListLocal, ReadConfig, PickKey, RestoreFlow, Serve, Serving
<1>1. ASSUME ~Serving',
             \A k \in Keys : Acting(flows', k)
                                \subseteq Acting(flows, k) \cup Rules!Only(Effect(k, config[k]))
      PROVE  Rules!ComeUp
  <2>1. UNCHANGED <<Serving, ListedEffects, InDoubt>>
    <3>1. Serving' = Serving
      BY <1>c, <1>1 DEF Serving
    <3>2. ListedEffects = [k \in Keys |-> NoVal] /\ ListedEffects' = [k \in Keys |-> NoVal]
      BY <1>c, <1>1 DEF ListedEffects
    <3>3. InDoubt = Keys /\ InDoubt' = Keys
      BY <1>c, <1>1 DEF InDoubt
    <3>4. QED
      BY <3>1, <3>2, <3>3
  <2>2. QED
    BY <1>b, <1>c, <1>1, <2>1 DEF Rules!ComeUp, KeptEffects, ActingEffects
<1>2. CASE Boot \/ PickKey
  BY <1>1, <1>2 DEF Boot, PickKey, history, Serving, Rules!Next
<1>3. CASE Flush \/ AddBase \/ ListLocal
  <2>1. \A k \in Keys : Acting(flows', k) \subseteq Acting(flows, k)
    BY <1>3, OthersAct
  <2>2. ~Serving'
    BY <1>3 DEF Flush, AddBase, ListLocal, Serving
  <2>3. QED
    BY <1>1, <2>1, <2>2 DEF Rules!Next
<1>4. CASE RestoreFlow
  <2>1. ~Serving'
    BY <1>4 DEF RestoreFlow, Serving
  <2>2. QED
    BY <1>1, <1>4, <2>1, RestoreActs DEF Rules!Next
<1>5. CASE ReadConfig \/ Serve
  <2>1. UNCHANGED <<flows, config, others>>
    BY <1>5 DEF ReadConfig, Serve
  <2>2. CASE ~Serving'
    BY <1>1, <2>1, <2>2 DEF Rules!Next
  <2>3. CASE Serving'
    <3>1. \A k \in Keys \ InDoubt' :
            /\ Acting(flows', k) \subseteq Rules!Only(Effect(k, config[k]))
            /\ others'[k] = config[k]
      <4>1. CASE ReadConfig
        BY <2>3, <4>1 DEF ReadConfig, InDoubt, Serving
      <4>2. CASE Serve
        <5>1. phase = "restore" /\ boot.left = {} /\ boot.key = NoKey
              /\ UNCHANGED <<errored, flushed>>
          BY <4>2 DEF Serve, history
        <5>2. \A k \in Keys : others[k] = config[k]
          BY <5>1, NoneAssumption DEF RuleInv, ListedSoFar
        <5>3. \A k \in Keys \ InDoubt' : flushed
          BY <5>1 DEF InDoubt
        <5>4. QED
          BY <2>1, <5>1, <5>2, <5>3 DEF RuleInv, OnlyKeptActs
      <4>3. QED
        BY <1>5, <4>1, <4>2
    <3>2. ListedEffects' \in [Keys -> Effects \cup {NoVal}]
      <4>1. \A k \in Keys : Effect(k, others'[k]) \in Effects \cup {NoVal}
        BY EffectFacts DEF TypeOK, Store
      <4>2. QED
        BY <4>1 DEF ListedEffects
    <3>3. \A k \in Keys \ InDoubt' :
            /\ ActingEffects'[k] \subseteq Rules!Only(KeptEffects[k])
            /\ ListedEffects'[k] = KeptEffects[k]
      BY <2>3, <3>1 DEF ActingEffects, KeptEffects, ListedEffects
    <3>4. UNCHANGED ActingEffects
      BY <2>1 DEF ActingEffects
    <3>5. Rules!Serve
      BY <1>b, <1>c, <2>3, <3>2, <3>3, <3>4 DEF Rules!Serve
    <3>6. QED
      BY <3>5 DEF Rules!Next
  <2>4. QED
    BY <2>2, <2>3
<1>6. QED
  BY <1>2, <1>3, <1>4, <1>5 DEF StartUp

\* Serving, a request is accepted for a key and a value of that key.
LEMMA AcceptImplements ==
    ASSUME NEW kind \in {"add", "del"}, NEW k \in Keys, NEW v,
           kind = "add" => v \in ValuesOf(k),
           Accept(kind, k, v)
    PROVE  Rules!Next
<1> DEFINE e == IF kind = "add" THEN Effect(k, v) ELSE NoVal
<1>1. e \in Effects \cup {NoVal}
  BY EffectFacts
<1>2. request.key = NoKey /\ request'.key = k /\ Asked' = e
  BY DEF Accept, NoRequest, Asked
<1>3. Serving /\ UNCHANGED <<phase, flows, config, others, flushed, errored>>
  BY DEF Accept, Serving
<1>4. UNCHANGED <<Serving, KeptEffects, ListedEffects, ActingEffects, InDoubt>>
  BY <1>3 DEF Serving, KeptEffects, ListedEffects, ActingEffects, InDoubt
<1>5. Rules!Begin(k, e)
  BY <1>2, <1>3, <1>4 DEF Rules!Begin
<1>6. QED
  BY <1>1, <1>5 DEF Rules!Next

\* All the handlers do.
LEMMA RestImplements == ASSUME Rest PROVE Rules!Next
<1>1. ASSUME NEW s \in Sources, DelSNAT(s) PROVE Rules!Next
  <2>1. SnatKey(s) \in Keys
    BY DEF Keys, SnatKeys
  <2>2. QED
    BY <1>1, <2>1, AcceptImplements DEF DelSNAT
<1>2. ASSUME NEW s \in Sources, NEW t \in SnatTos, AddSNAT(s, t) PROVE Rules!Next
  <2>1. SnatKey(s) \in Keys /\ t \in ValuesOf(SnatKey(s))
    BY DEF Keys, SnatKeys, SnatKey, ValuesOf
  <2>2. QED
    BY <1>2, <2>1, AcceptImplements DEF AddSNAT
<1>3. ASSUME NEW d \in DnatTexts, DelDNAT(d[1], d[2]) PROVE Rules!Next
  <2>1. DnatKey(d[1], d[2]) \in Keys
    BY <1>3 DEF DelDNAT, Keys, DnatKeys
  <2>2. QED
    BY <1>3, <2>1, AcceptImplements DEF DelDNAT
<1>4. ASSUME NEW d \in DnatTexts, NEW t \in ToTexts, AddDNAT(d[1], d[2], t) PROVE Rules!Next
  <2>1. DnatKey(d[1], d[2]) \in Keys
    BY <1>4 DEF AddDNAT, Keys, DnatKeys
  <2>2. t \in ValuesOf(DnatKey(d[1], d[2]))
    BY <1>4 DEF AddDNAT, ValuesOf, DnatKey
  <2>3. QED
    BY <1>4, <2>1, <2>2, AcceptImplements DEF AddDNAT
<1>5. QED
  BY <1>1, <1>2, <1>3, <1>4 DEF Rest

\* A handler that returns an error gives up, with its key in doubt.
LEMMA IsGiveUp ==
    ASSUME TypeOK, request # NoRequest, request' = NoRequest,
           UNCHANGED <<flows, config, phase, flushed>>,
           errored' = errored \cup {request.key},
           ListedEffects' \in {ListedEffects, [ListedEffects EXCEPT ![request.key] = Asked]}
    PROVE  Rules!GiveUp
<1>1. request.key \in Keys /\ phase = "serve"
  BY DEF TypeOK, RequestOK
<1>2. request.key # NoKey /\ request'.key = NoKey /\ Asked' = NoVal
  BY <1>1, NoneAssumption DEF NoRequest, Asked
<1>3. UNCHANGED <<Serving, KeptEffects, ActingEffects>>
  BY DEF Serving, KeptEffects, ActingEffects
<1>4. InDoubt' = InDoubt \cup {request.key}
  BY <1>1, <1>3 DEF InDoubt
<1>5. QED
  BY <1>2, <1>3, <1>4 DEF Rules!GiveUp, Rules!Nobody

\* A command of a request works on its key, or gives up.
LEMMA FlowCommandImplements == ASSUME TypeOK, RuleInv, FlowCommand PROVE Rules!Next
<1>0. UNCHANGED <<config, others, phase, flushed>> /\ request.key \in Keys /\ request # NoRequest
  BY DEF FlowCommand, TypeOK, RequestOK
<1>a. UNCHANGED <<Serving, KeptEffects, ListedEffects>>
  BY <1>0 DEF Serving, KeptEffects, ListedEffects
<1>1. CASE request' = NoRequest
  <2>1. UNCHANGED flows /\ errored' = errored \cup {request.key}
    BY <1>0, <1>1 DEF FlowCommand, TypeOK, RequestOK, NoRequest
  <2>2. QED
    BY <1>0, <1>a, <1>1, <2>1, IsGiveUp DEF Rules!Next
<1>2. CASE request' # NoRequest
  <2>1. UNCHANGED errored
    BY <1>2 DEF FlowCommand
  <2>2. UNCHANGED InDoubt
    BY <1>0, <1>a, <2>1 DEF InDoubt
  <2>3. /\ request'.key = request.key /\ Asked' = Asked
        /\ \A k \in Keys \ {request.key} : Acting(flows', k) \subseteq Acting(flows, k)
        /\ Acting(flows', request.key)
             \subseteq Acting(flows, request.key) \cup Rules!Only(Asked)
    BY <1>2, FlowCommandActs DEF RuleInv
  <2>4. /\ \A k \in Keys \ {request.key} : ActingEffects'[k] \subseteq ActingEffects[k]
        /\ ActingEffects'[request.key]
             \subseteq ActingEffects[request.key] \cup Rules!Only(Asked)
    BY <1>0, <2>3 DEF ActingEffects
  <2>5. Rules!Work
    BY <1>0, <1>a, <2>2, <2>3, <2>4, NoneAssumption DEF Rules!Work, Rules!NoneStarts
  <2>6. QED
    BY <2>5 DEF Rules!Next
<1>3. QED
  BY <1>1, <1>2

\* A request that is through its flows ends with its rule kept, listed and
\* acting, or gives up if the configuration cannot be written.
LEMMA PersistImplements == ASSUME TypeOK, RuleInv, Persist PROVE Rules!Next
<1> DEFINE k == request.key
           v == IF request.kind = "add" THEN request.val ELSE NoVal
<1>1. /\ k \in Keys /\ request # NoRequest /\ request' = NoRequest
      /\ Serving /\ request.pc > 1
      /\ UNCHANGED <<flows, phase, flushed>>
  BY KeyFacts DEF Persist, TypeOK, RequestOK, Serving
<1>2. Effect(k, v) = Asked
  BY <1>1, EffectFacts DEF Asked
<1>3. DOMAIN config = Keys /\ DOMAIN others = Keys
  BY DEF TypeOK, Store
<1>4. ListedEffects' = IF k \in DnatKeys THEN [ListedEffects EXCEPT ![k] = Asked] ELSE ListedEffects
  <2>1. Serving' = Serving
    BY <1>1 DEF Serving
  <2>2. CASE k \in DnatKeys
    <3>1. others' = [others EXCEPT ![k] = v]
      BY <2>2, KeyFacts, <1>1 DEF Persist
    <3>2. \A l \in Keys : Effect(l, others'[l]) = IF l = k THEN Asked ELSE Effect(l, others[l])
      BY <1>2, <1>3, <3>1
    <3>3. ListedEffects' = [ListedEffects EXCEPT ![k] = Asked]
      BY <1>1, <2>1, <3>2 DEF ListedEffects
    <3>4. QED
      BY <2>2, <3>3
  <2>3. CASE k \notin DnatKeys
    <3>1. others' = others
      BY <2>3, KeyFacts, <1>1 DEF Persist
    <3>2. QED
      BY <2>1, <2>3, <3>1 DEF ListedEffects
  <2>4. QED
    BY <2>2, <2>3
<1>5. CASE UNCHANGED config /\ errored' = errored \cup {k}
  <2>1. Rules!GiveUp
    BY <1>1, <1>4, <1>5, IsGiveUp
  <2>2. QED
    BY <2>1 DEF Rules!Next
<1>6. CASE config' = [config EXCEPT ![k] = v] /\ UNCHANGED errored
  <2>1. \A l \in Keys : Effect(l, config'[l]) = IF l = k THEN Asked ELSE Effect(l, config[l])
    BY <1>2, <1>3, <1>6
  <2>2. KeptEffects' = [KeptEffects EXCEPT ![k] = Asked]
    BY <1>1, <2>1 DEF KeptEffects
  <2>3. Serving' = Serving /\ UNCHANGED <<ActingEffects, InDoubt>>
    BY <1>1, <1>6 DEF Serving, ActingEffects, InDoubt
  <2>4. k # NoKey /\ request'.key = NoKey /\ Asked' = NoVal
    BY <1>1, NoneAssumption DEF NoRequest, Asked
  <2>5. k \notin InDoubt => ActingEffects[k] = Rules!Only(Asked)
    BY <1>1 DEF RuleInv, RequestActs, ActingEffects, InDoubt
  <2>6. Rules!End
    BY <1>4, <2>2, <2>3, <2>4, <2>5 DEF Rules!End, Rules!Nobody
  <2>7. QED
    BY <2>6 DEF Rules!Next
<1>7. QED
  BY <1>5, <1>6 DEF Persist

\* Every step of the Composer is a step of RuleStore, or none.
LEMMA StepImplements ==
    ASSUME TypeOK, TypeOK', RuleInv, RuleInv', [Next]_vars
    PROVE  [Rules!Next]_(Rules!vars)
<1>1. CASE StartUp
  BY <1>1, StartUpImplements
<1>2. ASSUME NEW a \in Addr, AddLocal(a) \/ DelLocal(a) PROVE Rules!Next
  <2>1. UNCHANGED <<config, others, phase, request, flushed, errored>>
    BY <1>2 DEF AddLocal, DelLocal
  <2>2. UNCHANGED InDoubt
    BY <2>1 DEF InDoubt, Serving
  <2>3. \A k \in Keys : Acting(flows', k) \subseteq Acting(flows, k)
    BY <1>2, OthersAct
  <2>4. QED
    BY <2>1, <2>2, <2>3, IsSweep DEF Rules!Next
<1>3. CASE AddressWhileDown \/ UNCHANGED vars
  <2>1. UNCHANGED <<flows, config, others, phase, request, flushed, errored>>
    BY <1>3 DEF AddressWhileDown, history, vars, state
  <2>2. UNCHANGED Rules!vars
    BY <2>1 DEF Rules!vars, Serving, KeptEffects, ListedEffects, ActingEffects, Asked, InDoubt
  <2>3. QED
    BY <2>2
<1>4. CASE Rest
  BY <1>4, RestImplements
<1>5. CASE FlowCommand
  BY <1>5, FlowCommandImplements
<1>6. CASE Persist
  BY <1>6, PersistImplements
<1>7. CASE Crash
  <2>1. /\ request' = NoRequest /\ phase' = "down"
        /\ UNCHANGED <<flows, config>>
    BY <1>7 DEF Crash
  <2>2. Rules!Nobody
    BY <2>1 DEF Rules!Nobody, NoRequest, Asked
  <2>3. /\ Serving' = FALSE /\ InDoubt' = Keys
        /\ ListedEffects' = [k \in Keys |-> NoVal]
    BY <2>1 DEF Serving, InDoubt, ListedEffects
  <2>4. Rules!Crash
    BY <2>1, <2>2, <2>3 DEF Rules!Crash, KeptEffects, ActingEffects
  <2>5. QED
    BY <2>4 DEF Rules!Next
<1>8. CASE SwitchRestart
  <2>1. /\ UNCHANGED <<config, others, phase, request, flushed>>
        /\ errored \subseteq errored'
    BY <1>8 DEF SwitchRestart
  <2>2. InDoubt \subseteq InDoubt'
    BY <2>1 DEF InDoubt, Serving
  <2>3. \A k \in Keys : Acting(flows', k) \subseteq Acting(flows, k)
    BY <1>8, OthersAct
  <2>4. QED
    BY <2>1, <2>2, <2>3, IsSweep DEF Rules!Next
<1>9. QED
  BY <1>1, <1>2, <1>3, <1>4, <1>5, <1>6, <1>7, <1>8 DEF Next

\* Before the first start there is no rule, and nothing is promised.
LEMMA InitImplements == ASSUME Init PROVE Rules!Init /\ RuleInv
<1>1. RuleInv
  BY DEF Init, RuleInv, OnlyKeptActs, NothingListed, ListedSoFar, RequestActs
<1>2. ~Serving /\ request.key = NoKey /\ Asked = NoVal
  BY DEF Init, Serving, NoRequest, Asked
<1>3. /\ InDoubt = Keys
      /\ KeptEffects = [k \in Keys |-> NoVal]
      /\ ListedEffects = [k \in Keys |-> NoVal]
      /\ ActingEffects = [k \in Keys |-> {}]
  BY <1>2, EmptyActs
     DEF Init, InDoubt, KeptEffects, ListedEffects, ActingEffects, Effect
<1>4. QED
  BY <1>1, <1>2, <1>3 DEF Rules!Init

\* Command by command, whatever fails, crashes or restarts, the Composer keeps
\* what RuleStore promises of its rules.
THEOREM ComposerImplements == Spec => ImplementsRuleStore
<1>1. Init => Rules!Init /\ RuleInv
  BY InitImplements
<1>2. TypeOK /\ TypeOK' /\ RuleInv /\ RuleInv' /\ [Next]_vars => [Rules!Next]_(Rules!vars)
  BY StepImplements
<1>3. QED
  BY <1>1, <1>2, TypeInit, TypeStep, RuleStep, PTL DEF Spec, ImplementsRuleStore, Rules!Spec

\* What the proofs about RuleStore establish, of the Composer's rules.
Promise == INSTANCE RuleStoreProofs WITH
    ListedKeys <- DnatKeys,
    NoEffect <- NoVal,
    up     <- Serving,
    rule   <- KeptEffects,
    listed <- ListedEffects,
    acting <- ActingEffects,
    busy   <- request.key,
    goal   <- Asked,
    doubt  <- InDoubt

\* While the process serves, a rule no request is working on and no command
\* failed for is listed as it is configured, and does nothing else than what is
\* configured: it may do nothing.
THEOREM OnlyConfiguredActs == Spec => []Rules!Kept
<1>1. Promise!Spec => []Promise!Kept
  BY Promise!RulesKept, NoneAssumption
<1>2. (Rules!Init <=> Promise!Init) /\ (Rules!Kept <=> Promise!Kept)
  BY DEF Rules!Init, Promise!Init, Rules!Kept, Promise!Kept, Rules!Only, Promise!Only
<1>3. [Rules!Next]_(Rules!vars) => [Promise!Next]_(Promise!vars)
  BY Zenon
     DEF Rules!Next, Promise!Next, Rules!vars, Promise!vars,
         Rules!Begin, Promise!Begin,
         Rules!Work, Promise!Work,
         Rules!End, Promise!End,
         Rules!GiveUp, Promise!GiveUp,
         Rules!Sweep, Promise!Sweep,
         Rules!Crash, Promise!Crash,
         Rules!ComeUp, Promise!ComeUp,
         Rules!Serve, Promise!Serve,
         Rules!Only, Promise!Only,
         Rules!Nobody, Promise!Nobody,
         Rules!NoneStarts, Promise!NoneStarts
<1>4. QED
  BY <1>1, <1>2, <1>3, ComposerImplements, PTL
     DEF ImplementsRuleStore, Rules!Spec, Promise!Spec

-----------------------------------------------------------------------------
(* What takes a redirection *)

\* The last two flows of a DNAT rule are for replies, not for new connections.
LEMMA ReplyMatches ==
    ASSUME NEW i \in {3, 4}, NEW proto, NEW bind, NEW to
    PROVE  "new" \notin DnatMatch(i, proto, bind, to).ct
<1>1. CASE i = 3
  <2>1. DnatMatch(3, proto, bind, to) =
          [AnyPacket EXCEPT !.proto = {proto}, !.ct = TrkRpl, !.dst = {to.addr},
                            !.src = {to.addr}, !.sport = TransportPort(proto, to.port)]
    BY DEF DnatMatch
  <2>2. DnatMatch(3, proto, bind, to).ct = TrkRpl
    BY <2>1 DEF AnyPacket
  <2>3. QED
    BY <1>1, <2>2 DEF TrkRpl
<1>2. CASE i = 4
  <2>1. DnatMatch(4, proto, bind, to) =
          [AnyPacket EXCEPT !.proto = {proto}, !.ct = TrkEst, !.dst = {to.addr},
                            !.src = {to.addr}, !.dport = TransportPort(proto, to.port)]
    BY DEF DnatMatch
  <2>2. DnatMatch(4, proto, bind, to).ct = TrkEst
    BY <2>1 DEF AnyPacket
  <2>3. QED
    BY <1>2, <2>2 DEF TrkEst
<1>3. QED
  BY <1>1, <1>2

\* The match of a redirection, of new connections from everywhere.
LEMMA RedirectMatch ==
    ASSUME NEW k, NEW t
    PROVE  /\ Redirect(k, t).match.ct = {"new"}
           /\ Redirect(k, t).match.src = Addr
<1>1. Redirect(k, t).match = DnatMatch(1, k.proto, k.bind, ParseBind(k.proto, t))
  BY DEF Redirect, DnatFlow, Flow
<1>2. QED
  BY <1>1, FirstMatch DEF TrkNew

\* A flow of another rule is not added in its place.
LEMMA AddSparesRedirect ==
    ASSUME NEW T, NEW k \in DnatKeys, NEW t, Redirect(k, t) \in T,
           NEW l \in Keys \ {k}, NEW w, NEW i \in 1..LastFlow(l)
    PROVE  Redirect(k, t) \in AddFlow(T, RuleFlow(l, w, i))
BY AddKeepsRedirect

\* The delete of another rule does not reach it, unless that is the SNAT rule
\* for every source.
LEMMA DeleteSparesRedirect ==
    ASSUME NEW T, NEW k \in DnatKeys, NEW t, Redirect(k, t) \in T,
           NEW l \in Keys \ {k}, l # SnatKey(Addr), NEW w, NEW i \in 1..LastFlow(l)
    PROVE  Redirect(k, t) \in DelFlows(T, TableNat, RuleMatch(l, w, i))
<1> DEFINE m == Redirect(k, t).match
<1>1. ASSUME Covers(RuleMatch(l, w, i), m) PROVE FALSE
  <2>0. \A f \in {"ct", "proto", "src", "dst", "dport"} : m[f] \subseteq RuleMatch(l, w, i)[f]
    BY <1>1 DEF Covers, Fields
  <2>1. CASE l.kind = "snat"
    <3>1. RuleMatch(l, w, i).src = l.source
      BY <2>1 DEF RuleMatch, SnatMatch, AnyIP, AnyPacket
    <3>2. Addr \subseteq l.source /\ l.source \subseteq Addr
      BY <2>0, <2>1, <3>1, RedirectMatch, KeyFacts
    <3>3. l = SnatKey(l.source)
      BY <2>1, KeyFacts DEF SnatKeys, SnatKey
    <3>4. l.source = Addr
      BY <3>2
    <3>5. QED
      BY <3>3, <3>4
  <2>2. CASE l.kind = "dnat"
    <3> DEFINE to == ParseBind(l.proto, w)
    <3>1. l \in DnatKeys /\ i \in {1, 2, 3, 4} /\ RuleMatch(l, w, i) = DnatMatch(i, l.proto, l.bind, to)
      BY <2>2, KeyFacts DEF LastFlow, RuleMatch
    <3>2. CASE i \in {3, 4}
      BY <2>0, <3>1, <3>2, ReplyMatches, RedirectMatch
    <3>3. CASE i \in {1, 2}
      <4>1. /\ RuleMatch(l, w, i).proto = {l.proto}
            /\ RuleMatch(l, w, i).dst = {l.bind.addr}
            /\ RuleMatch(l, w, i).dport = TransportPort(l.proto, l.bind.port)
        BY <3>1, <3>3, FirstMatch, SecondMatch
      <4>2. /\ {k.proto} \subseteq {l.proto}
            /\ {k.bind.addr} \subseteq {l.bind.addr}
            /\ TransportPort(k.proto, k.bind.port) \subseteq TransportPort(l.proto, l.bind.port)
        BY <2>0, <4>1, RedirectFields
      <4>3. TransportPort(k.proto, k.bind.port) = TransportPort(l.proto, l.bind.port)
        BY <4>2 DEF TransportPort
      <4>4. QED
        BY <3>1, <4>2, <4>3, SameRule
    <3>4. QED
      BY <3>1, <3>2, <3>3
  <2>3. QED
    BY <2>1, <2>2, KeyFacts
<1>2. QED
  BY <1>1, DelFlowsFacts

\* Every step that takes a redirection away has a cause.
LEMMA LossStep ==
    ASSUME TypeOK, [Next]_vars, NEW k \in DnatKeys, NEW to,
           Redirect(k, to) \in flows, Redirect(k, to) \notin flows'
    PROVE  \/ phase = "init"
           \/ k \in {request.key, boot.key}
           \/ k.bind.addr \in addrs \ addrs'
           \/ flows' = {}
           \/ request.kind = "del" /\ request.key = SnatKey(Addr)
<1>0. flows' # flows
  OBVIOUS
<1>1. CASE Flush \/ AddBase
  BY <1>1 DEF Flush, AddBase
<1>2. CASE ListLocal
  BY <1>0, <1>2, LocalApart DEF ListLocal
<1>3. CASE RestoreFlow
  <2>1. /\ boot.key \in Keys /\ boot.pc \in 1..LastFlow(boot.key)
        /\ flows' = AddFlow(flows, RuleFlow(boot.key, config[boot.key], boot.pc))
    BY <1>0, <1>3 DEF RestoreFlow, TypeOK, BootOK
  <2>2. CASE k # boot.key
    BY <2>1, <2>2, AddSparesRedirect
  <2>3. QED
    BY <2>2
<1>4. ASSUME NEW a \in Addr, AddLocal(a) PROVE FALSE
  BY <1>0, <1>4, LocalApart DEF AddLocal
<1>5. ASSUME NEW a \in Addr, DelLocal(a) PROVE k.bind.addr \in addrs \ addrs'
  <2>1. flows' = DelFlows(flows, TableNat, LocalMatch(a)) /\ a \in addrs /\ addrs' = addrs \ {a}
    BY <1>0, <1>5 DEF DelLocal
  <2>2. LocalMatch(a).dst = {a} /\ Redirect(k, to).match.dst = {k.bind.addr}
    BY RedirectFields DEF LocalMatch, AnyIP, AnyPacket
  <2>3. Covers(LocalMatch(a), Redirect(k, to).match)
    BY <2>1, DelFlowsFacts
  <2>4. k.bind.addr = a
    BY <2>2, <2>3 DEF Covers, Fields
  <2>5. QED
    BY <2>1, <2>4
<1>6. CASE FlowCommand
  <2> DEFINE l == request.key
  <2>1. /\ l \in Keys /\ request.pc \in 1..LastFlow(l)
        /\ \/ flows' = AddFlow(flows, RuleFlow(l, request.val, request.pc))
           \/ /\ request.kind = "del"
              /\ flows' = DelFlows(flows, TableNat, RuleMatch(l, request.val, request.pc))
    BY <1>0, <1>6 DEF FlowCommand, TypeOK, RequestOK, Kinds
  <2>2. CASE k # l /\ ~(request.kind = "del" /\ l = SnatKey(Addr))
    BY <2>1, <2>2, AddSparesRedirect, DeleteSparesRedirect
  <2>3. QED
    BY <2>2
<1>7. CASE SwitchRestart
  BY <1>7 DEF SwitchRestart
<1>8. CASE Boot \/ ReadConfig \/ PickKey \/ Serve \/ AddressWhileDown \/ Persist \/ Crash
  BY <1>0, <1>8 DEF Boot, ReadConfig, PickKey, Serve, AddressWhileDown, Persist, Crash
<1>9. CASE Rest
  BY <1>0, <1>9 DEF Rest, DelSNAT, AddSNAT, DelDNAT, AddDNAT, Accept
<1>10. CASE UNCHANGED vars
  BY <1>0, <1>10 DEF vars, state
<1>11. QED
  BY <1>1, <1>2, <1>3, <1>4, <1>5, <1>6, <1>7, <1>8, <1>9, <1>10 DEF Next, StartUp

\* No redirection is lost but by a request for its rule, with its address, by
\* a start or a restart of the switch, or with the SNAT rule for all sources.
THEOREM LossHasCause == Spec => RedirectLossHasCause
<1>1. TypeOK /\ [Next]_vars
        => [\A k \in DnatKeys, to \in ToTexts :
              /\ Parses(k.proto, to)
              /\ Redirect(k, to) \in flows
              /\ Redirect(k, to) \notin flows'
              => \/ phase = "init"
                 \/ k \in {request.key, boot.key}
                 \/ k.bind.addr \in addrs \ addrs'
                 \/ flows' = {}
                 \/ request.kind = "del" /\ request.key = SnatKey(Addr)]_vars
  BY LossStep
<1>2. QED
  BY <1>1, TypeInit, TypeStep, PTL DEF Spec, RedirectLossHasCause

-----------------------------------------------------------------------------
(* What a start restores *)

\* The flows of the rules of keys K, as configured; of addresses A; and the
\* base flows before the n-th.
RulesOf(K)  == UNION {{RuleFlow(k, config[k], i) : i \in RuleIds(k)} : k \in K}
LocalsOf(A) == {LocalFlow(a) : a \in A}
BaseUpTo(n) == {BaseFlow[i] : i \in {j \in BaseIds : j < n}}
Configured  == {k \in Keys : config[k] # NoVal}

\* The flows of the key start-up has in hand that it has added.
InHand == IF boot.key = NoKey THEN {}
          ELSE {RuleFlow(boot.key, config[boot.key], i) :
                  i \in {j \in RuleIds(boot.key) : j < boot.pc}}

\* The ids of a rule's flows are the commands of its request.
LEMMA IdsFacts == ASSUME NEW k \in Keys PROVE RuleIds(k) = 1..LastFlow(k)
<1>1. CASE k.kind = "snat"
  BY <1>1 DEF RuleIds, LastFlow
<1>2. CASE k.kind # "snat"
  BY <1>2 DEF RuleIds, LastFlow, DnatIds
<1>3. QED
  BY <1>1, <1>2

\* Two flows of rules in one slot are one flow: replies to one target are
\* treated alike, whichever rule they belong to.
LEMMA RulesShare ==
    ASSUME NEW k \in Keys, NEW v, NEW i \in 1..LastFlow(k),
           NEW l \in Keys, NEW w, NEW j \in 1..LastFlow(l),
           k = l => v = w,
           SameSlot(RuleFlow(k, v, i), RuleFlow(l, w, j))
    PROVE  RuleFlow(k, v, i) = RuleFlow(l, w, j)
<1>1. CASE i = 1
  <2>1. Actor(k, v) = RuleFlow(k, v, i)
    BY <1>1, ActorIsFirst
  <2>2. k = l /\ j = 1
    BY <2>1, ActorSlots
  <2>3. QED
    BY <1>1, <2>2
<1>2. CASE i # 1
  <2>1. k.kind = "dnat" /\ k \in DnatKeys /\ i \in {2, 3, 4}
    BY <1>2, KeyFacts DEF LastFlow
  <2>2. CASE i = 2
    <3>1. RuleFlow(k, v, i) = Hairpin(k, v) /\ RuleFlow(k, v, i).prio = 162
      BY <2>1, <2>2 DEF RuleFlow, Hairpin, DnatFlow, Flow, DnatPrio
    <3>2. l \in DnatKeys /\ j = 2 /\ RuleFlow(l, w, j) = Hairpin(l, w)
      BY <3>1, RulePriorities DEF SameSlot
    <3>3. /\ {k.proto} = {l.proto}
          /\ {k.bind.addr} = {l.bind.addr}
          /\ TransportPort(k.proto, k.bind.port) = TransportPort(l.proto, l.bind.port)
      BY <3>1, <3>2, RedirectFields DEF SameSlot
    <3>4. k = l
      BY <2>1, <3>2, <3>3, SameRule
    <3>5. QED
      BY <2>2, <3>2, <3>4
  <2>3. CASE i \in {3, 4}
    <3>1. \A x \in Keys : \A y : \A n \in {3, 4} : x.kind = "dnat" =>
            RuleFlow(x, y, n) = Flow(TableNat, 202, RuleFlow(x, y, n).match, Retrack)
      BY DEF RuleFlow, DnatFlow, Flow, DnatPrio, DnatAct
    <3>2. RuleFlow(k, v, i).prio = 202
      BY <2>1, <2>3, <3>1 DEF Flow
    <3>3. l.kind = "dnat" /\ j \in {3, 4}
      <4>1. RuleFlow(l, w, j).prio = 202
        BY <3>2 DEF SameSlot
      <4>2. l.kind = "dnat"
        BY <4>1, KeyFacts DEF RuleFlow, SnatFlow, Flow
      <4>3. j \in {1, 2, 3, 4} /\ RuleFlow(l, w, j).prio = DnatPrio(j)
        BY <4>2, KeyFacts DEF LastFlow, RuleFlow, DnatFlow, Flow
      <4>4. QED
        BY <4>1, <4>2, <4>3 DEF DnatPrio
    <3>4. RuleFlow(k, v, i).match = RuleFlow(l, w, j).match
      BY DEF SameSlot
    <3>5. QED
      BY <2>1, <2>3, <3>1, <3>3, <3>4
  <2>4. QED
    BY <2>1, <2>2, <2>3
<1>3. QED
  BY <1>1, <1>2

\* Two local flows in one slot are of one address.
LEMMA LocalsShare ==
    ASSUME NEW a, NEW b, SameSlot(LocalFlow(a), LocalFlow(b)) PROVE a = b
<1>1. LocalMatch(a) = LocalMatch(b)
  BY DEF SameSlot, LocalFlow, Flow
<1>2. LocalMatch(a).dst = {a} /\ LocalMatch(b).dst = {b}
  BY DEF LocalMatch, AnyIP, AnyPacket
<1>3. QED
  BY <1>1, <1>2

\* The slots of local flows and of rules differ.
LEMMA LocalsApart ==
    ASSUME NEW a, NEW k \in Keys, NEW v, NEW i \in 1..LastFlow(k)
    PROVE  ~SameSlot(LocalFlow(a), RuleFlow(k, v, i)) /\ ~SameSlot(RuleFlow(k, v, i), LocalFlow(a))
<1>1. LocalFlow(a).prio = 150
  BY DEF LocalFlow, Flow
<1>2. RuleFlow(k, v, i).prio \in {50, 160, 162, 202}
  BY DEF RuleFlow, SnatFlow, DnatFlow, Flow, DnatPrio
<1>3. QED
  BY <1>1, <1>2 DEF SameSlot

\* Everything a start may add: in one slot there is one flow.
Wanted == BaseUpTo(10) \cup LocalsOf(Addr) \cup RulesOf(Configured)

\* Base flows, flows of addresses and flows of rules never meet in one slot.
LEMMA WantedShare ==
    ASSUME NEW x \in Wanted, NEW y \in Wanted, SameSlot(x, y) PROVE x = y
<1> DEFINE Base(f) == \E i \in BaseIds : f = BaseFlow[i]
           Local(f) == \E a \in Addr : f = LocalFlow(a)
           Rule(f) == \E k \in Keys : \E i \in 1..LastFlow(k) : f = RuleFlow(k, config[k], i)
<1>1. \A f \in Wanted : Base(f) \/ Local(f) \/ Rule(f)
  BY IdsFacts DEF Wanted, BaseUpTo, LocalsOf, RulesOf, Configured
<1>2. SameSlot(y, x)
  BY DEF SameSlot
<1>3. CASE Base(x)
  BY <1>1, <1>3, BaseSlots, LocalSlots, RuleSlots
<1>4. CASE Local(x)
  BY <1>1, <1>2, <1>4, LocalSlots, LocalsShare, LocalsApart
<1>5. CASE Rule(x)
  <2>1. CASE Base(y) \/ Local(y)
    BY <1>2, <1>5, <2>1, RuleSlots, LocalsApart
  <2>2. CASE Rule(y)
    BY <1>5, <2>2, RulesShare
  <2>3. QED
    BY <1>1, <2>1, <2>2
<1>6. QED
  BY <1>1, <1>3, <1>4, <1>5

\* So what is added never replaces anything.
LEMMA AddWanted ==
    ASSUME NEW T \in SUBSET Wanted, NEW f \in Wanted
    PROVE  AddFlow(T, f) = T \cup {f}
BY WantedShare DEF AddFlow

\* A start nothing has failed in and nobody has interfered with.
Clean == flushed /\ missing = {} /\ errored = {} /\ ~touched

\* What such a start has added, at each stage.
Stages ==
    /\ phase = "init" => flows = BaseUpTo(boot.pc)
    /\ phase = "list" => /\ boot.left \subseteq addrs
                         /\ flows = BaseUpTo(10) \cup LocalsOf(addrs \ boot.left)
    /\ phase = "restore" =>
         /\ boot.left \subseteq Configured
         /\ boot.key \notin boot.left
         /\ flows = BaseUpTo(10) \cup LocalsOf(addrs) \cup InHand
                      \cup RulesOf(Configured \ (boot.left \cup {boot.key}))
    /\ phase = "serve" => /\ request = NoRequest
                          /\ flows = Expected
                          /\ others = config

RestoreInv ==
    /\ phase = "init" /\ boot.pc = 0 => ~flushed
    /\ Clean => Stages

\* Expected is what the stages lead to.
LEMMA ExpectedIsAll ==
    Expected = BaseUpTo(10) \cup LocalsOf(addrs) \cup RulesOf(Configured)
BY DEF Expected, BaseUpTo, LocalsOf, RulesOf, Configured, BaseIds

\* Flushed tables get the base flows one by one,
LEMMA InitStages ==
    ASSUME TypeOK, RestoreInv, Flush \/ AddBase, Clean'
    PROVE  Stages'
<1>1. CASE Flush
  <2>1. flows' = {} /\ boot'.pc = 1 /\ phase' = "init"
    BY <1>1 DEF Flush, Clean, RestoreInv, DelAllFlows, TypeOK, BootOK
  <2>2. BaseUpTo(1) = {}
    BY DEF BaseUpTo, BaseIds
  <2>3. QED
    BY <2>1, <2>2 DEF Stages, BaseUpTo
<1>2. CASE AddBase
  <2>1. /\ Clean /\ phase = "init" /\ boot.pc \in BaseIds
        /\ flows = BaseUpTo(boot.pc) /\ UNCHANGED addrs
        /\ flows' = AddFlow(flows, BaseFlow[boot.pc])
    BY <1>2 DEF AddBase, Clean, RestoreInv, Stages
  <2>2. BaseUpTo(boot.pc) \subseteq Wanted /\ BaseFlow[boot.pc] \in Wanted
    BY <2>1 DEF Wanted, BaseUpTo, BaseIds
  <2>3. flows' = BaseUpTo(boot.pc) \cup {BaseFlow[boot.pc]}
    BY <2>1, <2>2, AddWanted
  <2>4. BaseUpTo(boot.pc) \cup {BaseFlow[boot.pc]} = BaseUpTo(boot.pc + 1)
    BY <2>1 DEF BaseUpTo, BaseIds
  <2>5. CASE boot.pc < 9
    <3>1. phase' = "init" /\ boot'.pc = boot.pc + 1
      BY <1>2, <2>5 DEF AddBase, TypeOK, BootOK
    <3>2. QED
      BY <2>3, <2>4, <3>1 DEF Stages, BaseUpTo
  <2>6. CASE boot.pc = 9
    <3>1. phase' = "list" /\ boot'.left = addrs
      BY <1>2, <2>6 DEF AddBase, TypeOK, BootOK
    <3>2. LocalsOf(addrs' \ boot'.left) = {}
      BY <2>1, <3>1 DEF LocalsOf
    <3>3. QED
      BY <2>1, <2>3, <2>4, <2>6, <3>1, <3>2 DEF Stages, BaseUpTo, LocalsOf
  <2>7. QED
    BY <2>1, <2>5, <2>6 DEF BaseIds
<1>3. QED
  BY <1>1, <1>2

\* then one of each address of the router.
LEMMA ListStages ==
    ASSUME TypeOK, RestoreInv, Clean', ListLocal \/ ReadConfig
    PROVE  Stages'
<1>1. CASE ListLocal
  <2>1. PICK a \in boot.left : /\ boot' = [boot EXCEPT !.left = @ \ {a}]
                               /\ flows' = AddFlow(flows, LocalFlow(a))
    BY <1>1 DEF ListLocal, Clean
  <2>2. /\ phase = "list" /\ phase' = "list" /\ UNCHANGED <<addrs, config>>
        /\ boot.left \subseteq addrs /\ addrs \subseteq Addr
        /\ flows = BaseUpTo(10) \cup LocalsOf(addrs \ boot.left)
        /\ boot'.left = boot.left \ {a}
    <3>1. Clean /\ phase = "list" /\ phase' = "list" /\ UNCHANGED <<addrs, config>>
      BY <1>1 DEF ListLocal, Clean
    <3>2. boot'.left = boot.left \ {a}
      BY <2>1 DEF TypeOK, BootOK
    <3>3. QED
      BY <3>1, <3>2 DEF RestoreInv, Stages, TypeOK
  <2>3. flows \subseteq Wanted /\ LocalFlow(a) \in Wanted
    BY <2>2 DEF Wanted, LocalsOf
  <2>4. flows' = flows \cup {LocalFlow(a)}
    BY <2>1, <2>3, AddWanted
  <2>5. LocalsOf(addrs \ boot'.left) = LocalsOf(addrs \ boot.left) \cup {LocalFlow(a)}
    BY <2>2 DEF LocalsOf
  <2>6. flows' = BaseUpTo(10) \cup LocalsOf(addrs' \ boot'.left) /\ boot'.left \subseteq addrs'
    BY <2>2, <2>4, <2>5
  <2>7. QED
    BY <2>2, <2>6 DEF Stages, BaseUpTo, LocalsOf
<1>2. CASE ReadConfig
  <2>0. Clean /\ phase = "list" /\ boot.left = {}
        /\ UNCHANGED <<flows, config, others, addrs, request>>
    BY <1>2 DEF ReadConfig, Clean, TypeOK
  <2>1. /\ UNCHANGED <<flows, config, others, addrs, request>>
        /\ flows = BaseUpTo(10) \cup LocalsOf(addrs)
    BY <2>0 DEF RestoreInv, Stages
  <2>2. CASE phase' = "restore"
    <3>1. boot'.left = Configured /\ boot'.key = NoKey /\ Configured' = Configured
      BY <1>2, <2>1, <2>2 DEF ReadConfig, NoBoot, Configured
    <3>2. InHand' = {}
      BY <3>1 DEF InHand
    <3>3. RulesOf(Configured \ (boot.left \cup {boot.key}))' = {}
      BY <3>1 DEF RulesOf
    <3>4. NoKey \notin Configured
      BY NoneAssumption DEF Configured
    <3>5. BaseUpTo(10)' = BaseUpTo(10) /\ LocalsOf(addrs)' = LocalsOf(addrs)
      BY <2>1 DEF BaseUpTo, LocalsOf
    <3>6. QED
      BY <2>1, <2>2, <3>1, <3>2, <3>3, <3>4, <3>5 DEF Stages
  <2>3. CASE phase' = "serve"
    <3>1. Keys = {} /\ request = NoRequest
      BY <1>2, <2>0, <2>3 DEF ReadConfig, Clean, TypeOK, RequestOK
    <3>2. Configured' = {} /\ RulesOf(Configured)' = {}
      BY <3>1 DEF Configured, RulesOf
    <3>3. others' = config'
      BY <2>1, <3>1 DEF TypeOK, Store
    <3>4. Expected' = flows'
      BY <2>1, <3>1 DEF Expected, BaseUpTo, LocalsOf, BaseIds
    <3>5. QED
      BY <2>1, <2>3, <3>1, <3>3, <3>4 DEF Stages
  <2>4. QED
    BY <1>2, <2>2, <2>3 DEF ReadConfig
<1>3. QED
  BY <1>1, <1>2

\* The flows of the rules come one by one, key by key.
LEMMA PickStages ==
    ASSUME TypeOK, RestoreInv, Clean', PickKey
    PROVE  Stages'
<1>1. /\ phase = "restore" /\ boot.key = NoKey /\ phase' = "restore"
      /\ UNCHANGED <<flows, config, others, addrs, request>>
      /\ Clean
  BY DEF PickKey, history, Clean
<1>2. PICK k \in boot.left : boot' = [pc |-> 1, left |-> boot.left \ {k}, key |-> k]
  BY DEF PickKey
<1>3. /\ boot.left \subseteq Configured
      /\ flows = BaseUpTo(10) \cup LocalsOf(addrs) \cup InHand
                   \cup RulesOf(Configured \ (boot.left \cup {boot.key}))
  BY <1>1 DEF RestoreInv, Stages
<1>4. InHand = {} /\ InHand' = {}
  <2>1. k \in Keys /\ k # NoKey
    BY <1>2, <1>3, NoneAssumption DEF Configured
  <2>2. \A j \in RuleIds(k) : ~(j < 1)
    BY <2>1, IdsFacts, KeyFacts
  <2>3. boot'.key = k /\ boot'.pc = 1
    BY <1>2
  <2>4. QED
    BY <1>1, <2>1, <2>2, <2>3 DEF InHand
<1>5. boot'.left \subseteq Configured' /\ boot'.key \notin boot'.left
  BY <1>1, <1>2, <1>3 DEF Configured
<1>6. /\ Configured' = Configured
      /\ Configured \ (boot'.left \cup {boot'.key}) = Configured \ (boot.left \cup {boot.key})
  BY <1>1, <1>2, NoneAssumption DEF Configured
<1>7. RulesOf(Configured \ (boot.left \cup {boot.key}))'
        = RulesOf(Configured \ (boot.left \cup {boot.key}))
  BY <1>1, <1>6 DEF RulesOf
<1>8. BaseUpTo(10)' = BaseUpTo(10) /\ LocalsOf(addrs)' = LocalsOf(addrs)
  BY <1>1 DEF BaseUpTo, LocalsOf
<1>9. QED
  BY <1>1, <1>3, <1>4, <1>5, <1>7, <1>8 DEF Stages

\* A flow of the rule in hand: the next one, or the rule is done.
LEMMA RestoreStages ==
    ASSUME TypeOK, RestoreInv, Clean', RestoreFlow
    PROVE  Stages'
<1> DEFINE k == boot.key
           f == RuleFlow(k, config[k], boot.pc)
<1>1. /\ phase = "restore" /\ phase' = "restore" /\ k \in Keys /\ k # NoKey
      /\ UNCHANGED <<config, addrs>>
      /\ boot.pc \in 1..LastFlow(k) /\ config[k] # NoVal
  BY DEF RestoreFlow, TypeOK, BootOK
<1>2. Clean /\ flows' = AddFlow(flows, f)
  BY <1>1 DEF RestoreFlow, Clean
<1>3. /\ boot.left \subseteq Configured /\ k \notin boot.left
      /\ flows = BaseUpTo(10) \cup LocalsOf(addrs) \cup InHand
                   \cup RulesOf(Configured \ (boot.left \cup {k}))
  BY <1>1, <1>2 DEF RestoreInv, Stages
<1>4. k \in Configured /\ boot.pc \in RuleIds(k)
  BY <1>1, IdsFacts DEF Configured
<1>5. f \in Wanted /\ InHand \subseteq Wanted
  BY <1>4 DEF Wanted, RulesOf, InHand
<1>6. flows \subseteq Wanted
  <2>1. LocalsOf(addrs) \subseteq LocalsOf(Addr)
    BY DEF TypeOK, LocalsOf
  <2>2. RulesOf(Configured \ (boot.left \cup {k})) \subseteq RulesOf(Configured)
    BY DEF RulesOf
  <2>3. QED
    BY <1>3, <1>5, <2>1, <2>2 DEF Wanted
<1>7. flows' = flows \cup {f}
  BY <1>2, <1>5, <1>6, AddWanted
<1>8. /\ Configured' = Configured
      /\ BaseUpTo(10)' = BaseUpTo(10)
      /\ LocalsOf(addrs)' = LocalsOf(addrs)
      /\ \A K : RulesOf(K)' = RulesOf(K)
  BY <1>1 DEF Configured, BaseUpTo, LocalsOf, RulesOf
<1>9. CASE boot.pc < LastFlow(k)
  <2>1. boot' = [boot EXCEPT !.pc = @ + 1]
    BY <1>1, <1>2, <1>9 DEF RestoreFlow, Clean
  <2>2. boot'.pc = boot.pc + 1 /\ boot'.key = k /\ boot'.left = boot.left
    BY <2>1 DEF TypeOK, BootOK
  <2>3. InHand' = InHand \cup {f}
    <3>1. \A i \in RuleIds(k) : i < boot.pc + 1 <=> i < boot.pc \/ i = boot.pc
      BY <1>1, IdsFacts, KeyFacts
    <3>2. InHand' = {RuleFlow(k, config[k], i) : i \in {j \in RuleIds(k) : j < boot.pc + 1}}
      BY <1>1, <2>2 DEF InHand
    <3>3. InHand = {RuleFlow(k, config[k], i) : i \in {j \in RuleIds(k) : j < boot.pc}}
      BY <1>1 DEF InHand
    <3>4. QED
      BY <1>4, <3>1, <3>2, <3>3
  <2>4. RulesOf(Configured \ (boot.left \cup {boot.key}))' = RulesOf(Configured \ (boot.left \cup {k}))
    BY <1>8, <2>2
  <2>5. QED
    BY <1>1, <1>3, <1>7, <1>8, <2>2, <2>3, <2>4 DEF Stages
<1>10. CASE boot.pc = LastFlow(k)
  <2>1. boot'.left = boot.left /\ boot'.key = NoKey
    BY <1>1, <1>2, <1>10, KeyFacts DEF RestoreFlow, Clean
  <2>2. InHand' = {}
    BY <2>1 DEF InHand
  <2>3. RulesOf({k}) = InHand \cup {f}
    <3>1. \A i \in RuleIds(k) : i < boot.pc \/ i = boot.pc
      BY <1>1, <1>10, IdsFacts, KeyFacts
    <3>2. InHand = {RuleFlow(k, config[k], i) : i \in {j \in RuleIds(k) : j < boot.pc}}
      BY <1>1 DEF InHand
    <3>3. RulesOf({k}) = {RuleFlow(k, config[k], i) : i \in RuleIds(k)}
      BY DEF RulesOf
    <3>4. QED
      BY <1>4, <3>1, <3>2, <3>3
  <2>4. RulesOf(Configured \ (boot.left \cup {boot.key}))'
          = RulesOf(Configured \ (boot.left \cup {k})) \cup RulesOf({k})
    <3>1. NoKey \notin Configured
      BY NoneAssumption DEF Configured
    <3>2. Configured' \ (boot'.left \cup {boot'.key})
            = (Configured \ (boot.left \cup {k})) \cup {k}
      BY <1>3, <1>4, <1>8, <2>1, <3>1
    <3>3. \A K, L : RulesOf(K \cup L) = RulesOf(K) \cup RulesOf(L)
      BY DEF RulesOf
    <3>4. RulesOf(Configured \ (boot.left \cup {boot.key}))'
            = RulesOf(Configured' \ (boot'.left \cup {boot'.key}))
      BY <1>1 DEF RulesOf
    <3>5. QED
      BY <3>2, <3>3, <3>4
  <2>5. boot'.left \subseteq Configured' /\ boot'.key \notin boot'.left
    BY <1>3, <1>8, <2>1, NoneAssumption DEF Configured
  <2>6. QED
    BY <1>1, <1>3, <1>7, <1>8, <2>2, <2>3, <2>4, <2>5 DEF Stages
<1>11. QED
  BY <1>1, <1>9, <1>10, KeyFacts

\* An address the router gains is added to what is expected.
LEMMA LocalStages ==
    ASSUME TypeOK, RestoreInv, Clean', NEW a \in Addr, AddLocal(a)
    PROVE  Stages'
<1>1. /\ Clean /\ phase \in {"restore", "serve"}
      /\ flows' = AddFlow(flows, LocalFlow(a)) /\ addrs' = addrs \cup {a}
      /\ UNCHANGED <<config, others, phase, boot, request>>
  BY DEF AddLocal, Clean, Watching
<1>2. Stages
  BY <1>1 DEF RestoreInv
<1>3. /\ BaseUpTo(10)' = BaseUpTo(10)
      /\ Configured' = Configured
      /\ InHand' = InHand
      /\ \A K : RulesOf(K)' = RulesOf(K)
  BY <1>1 DEF Configured, BaseUpTo, InHand, RulesOf
<1>4. LocalsOf(addrs)' = LocalsOf(addrs) \cup {LocalFlow(a)}
  BY <1>1 DEF LocalsOf
<1>5. LocalsOf(addrs) \subseteq Wanted /\ BaseUpTo(10) \subseteq Wanted /\ LocalFlow(a) \in Wanted
  BY DEF TypeOK, LocalsOf, Wanted
<1>6. \A K \in SUBSET Configured : RulesOf(K) \subseteq Wanted
  BY DEF RulesOf, Wanted
<1>7. InHand \subseteq Wanted
  <2>1. boot.key # NoKey => boot.key \in Configured
    BY DEF TypeOK, BootOK, Configured
  <2>2. QED
    BY <2>1 DEF InHand, Wanted, RulesOf
<1>8. CASE phase = "restore"
  <2>1. flows = BaseUpTo(10) \cup LocalsOf(addrs) \cup InHand
                 \cup RulesOf(Configured \ (boot.left \cup {boot.key}))
    BY <1>2, <1>8 DEF Stages
  <2>2. RulesOf(Configured \ (boot.left \cup {boot.key})) \subseteq Wanted
    BY <1>6
  <2>3. flows \subseteq Wanted
    BY <1>5, <1>7, <2>1, <2>2
  <2>4. flows' = flows \cup {LocalFlow(a)}
    BY <1>1, <1>5, <2>3, AddWanted
  <2>5. RulesOf(Configured \ (boot.left \cup {boot.key}))'
          = RulesOf(Configured \ (boot.left \cup {boot.key}))
    BY <1>1, <1>3
  <2>6. boot'.left \subseteq Configured' /\ boot'.key \notin boot'.left
    BY <1>1, <1>2, <1>3, <1>8 DEF Stages
  <2>7. QED
    BY <1>1, <1>3, <1>4, <1>8, <2>1, <2>4, <2>5, <2>6 DEF Stages
<1>9. CASE phase = "serve"
  <2>1. flows = BaseUpTo(10) \cup LocalsOf(addrs) \cup RulesOf(Configured)
        /\ request = NoRequest /\ others = config
    BY <1>2, <1>9, ExpectedIsAll DEF Stages
  <2>2. flows \subseteq Wanted
    BY <1>5, <1>6, <2>1
  <2>3. flows' = flows \cup {LocalFlow(a)}
    BY <1>1, <1>5, <2>2, AddWanted
  <2>4. Expected' = BaseUpTo(10)' \cup LocalsOf(addrs)' \cup RulesOf(Configured)'
    BY DEF Expected, BaseUpTo, LocalsOf, RulesOf, Configured, BaseIds
  <2>5. RulesOf(Configured)' = RulesOf(Configured)
    BY <1>3
  <2>6. flows' = Expected'
    BY <1>3, <1>4, <2>1, <2>3, <2>4, <2>5
  <2>7. QED
    BY <1>1, <1>9, <2>1, <2>6 DEF Stages
<1>10. QED
  BY <1>1, <1>8, <1>9

\* With no key left, that is all there should be.
LEMMA ServeStages ==
    ASSUME TypeOK, RestoreInv, ListedSoFar, Clean', Serve
    PROVE  Stages'
<1>1. /\ phase = "restore" /\ boot.left = {} /\ boot.key = NoKey /\ phase' = "serve"
      /\ UNCHANGED <<flows, config, others, addrs, request>> /\ Clean
  BY DEF Serve, history, Clean
<1>2. NoKey \notin Configured /\ InHand = {}
  BY <1>1, NoneAssumption DEF Configured, InHand
<1>3. flows = BaseUpTo(10) \cup LocalsOf(addrs) \cup RulesOf(Configured)
  <2>1. Configured \ (boot.left \cup {boot.key}) = Configured
    BY <1>1, <1>2
  <2>2. QED
    BY <1>1, <1>2, <2>1 DEF RestoreInv, Stages
<1>4. Expected' = Expected
  BY <1>1 DEF Expected
<1>5. others = config
  <2>1. \A k \in Keys : others[k] = config[k]
    BY <1>1, NoneAssumption DEF ListedSoFar
  <2>2. QED
    BY <2>1 DEF TypeOK, Store
<1>6. request = NoRequest
  BY <1>1 DEF TypeOK, RequestOK
<1>7. QED
  BY <1>1, <1>3, <1>4, <1>5, <1>6, ExpectedIsAll DEF Stages

\* The flush is the first command of a start, and marks it as flushed.
LEMMA NotYetFlushed ==
    ASSUME TypeOK, phase = "init" /\ boot.pc = 0 => ~flushed, [Next]_vars,
           phase' = "init", boot'.pc = 0
    PROVE  ~flushed'
<1>1. CASE Boot
  BY <1>1 DEF Boot
<1>2. CASE Flush
  BY <1>2 DEF Flush, TypeOK, BootOK
<1>3. CASE AddBase
  BY <1>3 DEF AddBase, TypeOK, BootOK, BaseIds
<1>4. CASE ListLocal \/ ReadConfig \/ PickKey \/ RestoreFlow \/ Serve \/ FlowCommand \/ Persist
  BY <1>4 DEF ListLocal, ReadConfig, PickKey, RestoreFlow, Serve, FlowCommand, Persist,
              TypeOK, RequestOK
<1>5. CASE Rest
  BY <1>5 DEF Rest, DelSNAT, AddSNAT, DelDNAT, AddDNAT, Accept
<1>6. CASE AddressWhileDown \/ Crash \/ \E a \in Addr : AddLocal(a) \/ DelLocal(a)
  BY <1>6 DEF AddressWhileDown, Crash, AddLocal, DelLocal, Watching
<1>7. CASE SwitchRestart \/ UNCHANGED vars
  BY <1>7 DEF SwitchRestart, vars, state, history
<1>8. QED
  BY <1>1, <1>2, <1>3, <1>4, <1>5, <1>6, <1>7 DEF Next, StartUp

\* The strengthened invariant is inductive.
LEMMA RestoreStep == TypeOK /\ RuleInv /\ RestoreInv /\ [Next]_vars => RestoreInv'
<1> SUFFICES ASSUME TypeOK, RuleInv, RestoreInv, [Next]_vars
             PROVE  RestoreInv'
  OBVIOUS
<1>0. SUFFICES ASSUME Clean', ~(Flush \/ AddBase \/ ListLocal \/ ReadConfig \/ PickKey \/ RestoreFlow
                                 \/ Serve \/ \E a \in Addr : AddLocal(a))
               PROVE  Stages'
  <2>1. phase' = "init" /\ boot'.pc = 0 => ~flushed'
    BY NotYetFlushed DEF RestoreInv
  <2>2. QED
    BY <2>1, InitStages, ListStages, PickStages, RestoreStages, ServeStages, LocalStages
       DEF RestoreInv, RuleInv
<1>1. CASE Boot
  BY <1>0, <1>1 DEF Boot, Clean
<1>2. ASSUME NEW a \in Addr, DelLocal(a) PROVE FALSE
  BY <1>0, <1>2 DEF DelLocal, Clean
<1>3. CASE AddressWhileDown
  BY <1>3 DEF AddressWhileDown, Stages
<1>4. CASE Rest
  BY <1>0, <1>4 DEF Rest, DelSNAT, AddSNAT, DelDNAT, AddDNAT, Accept, Clean
<1>5. CASE FlowCommand \/ Persist
  <2>1. request # NoRequest /\ phase = "serve"
    BY <1>5 DEF FlowCommand, Persist, TypeOK, RequestOK
  <2>2. Clean
    <3>1. UNCHANGED <<flushed, missing, touched>> /\ errored \subseteq errored'
      BY <1>5 DEF FlowCommand, Persist
    <3>2. QED
      BY <1>0, <3>1 DEF Clean
  <2>3. QED
    BY <2>1, <2>2 DEF RestoreInv, Stages
<1>6. CASE Crash
  BY <1>6 DEF Crash, Stages
<1>7. CASE SwitchRestart
  BY <1>0, <1>7 DEF SwitchRestart, Clean
<1>8. CASE UNCHANGED vars
  <2>1. UNCHANGED <<flows, config, others, addrs, phase, boot, request>> /\ Clean
    BY <1>0, <1>8 DEF vars, state, history, Clean
  <2>2. QED
    BY <2>1 DEF RestoreInv, Stages, BaseUpTo, LocalsOf, RulesOf, Configured, InHand, Expected
<1>9. QED
  BY <1>0, <1>1, <1>2, <1>3, <1>4, <1>5, <1>6, <1>7, <1>8 DEF Next, StartUp

\* A start nothing fails in, whatever the runs before it left in the tables,
\* serves with exactly the flows of what is configured, and lists every rule.
THEOREM StartRestores == Spec => []RestoredExactly
<1>1. Init => RestoreInv /\ RuleInv
  BY InitImplements DEF Init, RestoreInv, Clean
<1>2. RestoreInv => RestoredExactly
  BY DEF RestoreInv, Clean, Stages, RestoredExactly
<1>3. QED
  BY <1>1, <1>2, TypeInit, TypeStep, RuleStep, RestoreStep, PTL DEF Spec
=============================================================================
