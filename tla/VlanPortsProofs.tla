-------------------------- MODULE VlanPortsProofs --------------------------
(* The ports of the bridge, for every set of devices, vlans, tags and       *)
(* trunks and every bound: a link reaches the router's namespace on its own *)
(* vlan only, a request that is answered is done, and one that is refused   *)
(* is refused for a cause.  All of it follows from what a handler has done  *)
(* by the commands it has left.                                             *)
EXTENDS VlanPorts, SequenceTheorems, TLAPS

-----------------------------------------------------------------------------
(* The commands of a handler, one after the other *)

\* A sequence of commands is what its first one and the others are.
LEMMA First ==
    ASSUME NEW a \in CommandNames, NEW s \in Seq(CommandNames)
    PROVE  /\ <<a>> \o s \in Seq(CommandNames) /\ <<a>> \o s # <<>>
           /\ Head(<<a>> \o s) = a /\ Tail(<<a>> \o s) = s
OBVIOUS

\* The same of two.
LEMMA FirstTwo ==
    ASSUME NEW a \in CommandNames, NEW b \in CommandNames, NEW s \in Seq(CommandNames)
    PROVE  /\ <<a, b>> \o s \in Seq(CommandNames) /\ <<a, b>> \o s # <<>>
           /\ Head(<<a, b>> \o s) = a /\ Tail(<<a, b>> \o s) = <<b>> \o s
<1> DEFINE u == Tail(<<a, b>> \o s)
           v == <<b>> \o s
<1>1. u \in Seq(CommandNames) /\ v \in Seq(CommandNames)
  OBVIOUS
<1>2. Len(u) = Len(s) + 1 /\ Len(v) = Len(s) + 1
  OBVIOUS
<1>3. ASSUME NEW i \in 1..Len(s) + 1 PROVE u[i] = v[i]
  <2>1. u[i] = (<<a, b>> \o s)[i + 1]
    BY <1>2
  <2>2. CASE i = 1
    BY <2>1, <2>2
  <2>3. CASE i # 1
    BY <2>1, <2>3
  <2>4. QED
    BY <2>2, <2>3
<1>4. u = v
  BY <1>1, <1>2, <1>3, SeqEqual
<1>5. <<a, b>> \o s \in Seq(CommandNames) /\ <<a, b>> \o s # <<>> /\ Head(<<a, b>> \o s) = a
  OBVIOUS
<1>6. QED
  BY <1>4, <1>5

\* Of a request to set a tag and trunks: what follows each command.
LEMMA AddVlanTodo ==
    ASSUME NEW tag, NEW trunks
    PROVE  LET all  == AddVlanCommands(tag, trunks)
               set  == <<"set_tag">> \o TrunkCommands(trunks)
               rest == TrunkCommands(trunks)
           IN /\ tag > 0 => /\ all # <<>> /\ Head(all) = "attach" /\ Tail(all) = set
                            /\ set # <<>> /\ Head(set) = "set_tag" /\ Tail(set) = rest
              /\ ~(tag > 0) => all = rest
              /\ trunks # NoTrunks => /\ rest # <<>> /\ Head(rest) = "attach"
                                      /\ Tail(rest) = <<"set_trunks">>
              /\ trunks = NoTrunks => rest = <<>>
              /\ all \in Seq(CommandNames)
<1> DEFINE all  == AddVlanCommands(tag, trunks)
           set  == <<"set_tag">> \o TrunkCommands(trunks)
           rest == TrunkCommands(trunks)
<1>1. "attach" \in CommandNames /\ "set_tag" \in CommandNames /\ "set_trunks" \in CommandNames
  BY DEF CommandNames
<1>2. /\ rest \in Seq(CommandNames)
      /\ trunks # NoTrunks => /\ rest # <<>> /\ Head(rest) = "attach"
                              /\ Tail(rest) = <<"set_trunks">>
      /\ trunks = NoTrunks => rest = <<>>
  BY <1>1 DEF TrunkCommands
<1> HIDE DEF rest
<1>3. CASE tag > 0
  <2>1. all = <<"attach", "set_tag">> \o rest /\ set = <<"set_tag">> \o rest
    BY <1>3 DEF AddVlanCommands, TagCommands, rest
  <2>2. /\ all \in Seq(CommandNames)
        /\ all # <<>> /\ Head(all) = "attach" /\ Tail(all) = set
        /\ set # <<>> /\ Head(set) = "set_tag" /\ Tail(set) = rest
    BY <1>1, <1>2, <2>1, First, FirstTwo
  <2>3. QED
    BY <1>2, <1>3, <2>2 DEF rest
<1>4. CASE ~(tag > 0)
  <2>1. all = <<>> \o rest
    BY <1>4 DEF AddVlanCommands, TagCommands, rest
  <2>2. all = rest
    BY <1>2, <2>1
  <2>3. QED
    BY <1>2, <1>4, <2>2 DEF rest
<1>5. QED
  BY <1>3, <1>4

\* Of a request to clear them.
ClearTrunksCommands(trunks) == IF trunks = "all" THEN <<"clear_trunks">> ELSE <<>>

\* What follows each of its commands.
LEMMA DelVlanTodo ==
    ASSUME NEW tag, NEW trunks
    PROVE  LET all  == DelVlanCommands(tag, trunks)
               rest == ClearTrunksCommands(trunks)
           IN /\ tag = 4095 => all # <<>> /\ Head(all) = "clear_tag" /\ Tail(all) = rest
              /\ tag # 4095 => all = rest
              /\ trunks = "all" => rest # <<>> /\ Head(rest) = "clear_trunks" /\ Tail(rest) = <<>>
              /\ trunks # "all" => rest = <<>>
              /\ all \in Seq(CommandNames)
<1> DEFINE all  == DelVlanCommands(tag, trunks)
           rest == ClearTrunksCommands(trunks)
<1>1. "clear_tag" \in CommandNames /\ "clear_trunks" \in CommandNames
  BY DEF CommandNames
<1>2. /\ rest \in Seq(CommandNames)
      /\ trunks = "all" => rest # <<>> /\ Head(rest) = "clear_trunks" /\ Tail(rest) = <<>>
      /\ trunks # "all" => rest = <<>>
  BY <1>1 DEF ClearTrunksCommands
<1>3. all = (IF tag = 4095 THEN <<"clear_tag">> ELSE <<>>) \o rest
  BY DEF DelVlanCommands, ClearTrunksCommands
<1> HIDE DEF all, rest
<1>4. CASE tag = 4095
  <2>1. all = <<"clear_tag">> \o rest
    BY <1>3, <1>4
  <2>2. QED
    BY <1>1, <1>2, <1>4, <2>1, First DEF all, rest
<1>5. CASE tag # 4095
  <2>1. all = rest
    BY <1>2, <1>3, <1>5
  <2>2. QED
    BY <1>2, <1>5, <2>1 DEF all, rest
<1>6. QED
  BY <1>4, <1>5

\* Of a request to make an interface, or to destroy one.
LEMMA InterfaceTodo ==
    /\ AddInterfaceCommands \in Seq(CommandNames) /\ AddInterfaceCommands # <<>>
    /\ Head(AddInterfaceCommands) = "add_internal"
    /\ Tail(AddInterfaceCommands) = <<"set_interface", "set_own_tag", "move">>
    /\ Head(<<"set_interface", "set_own_tag", "move">>) = "set_interface"
    /\ Tail(<<"set_interface", "set_own_tag", "move">>) = <<"set_own_tag", "move">>
    /\ Head(<<"set_own_tag", "move">>) = "set_own_tag"
    /\ Tail(<<"set_own_tag", "move">>) = <<"move">>
    /\ Head(<<"move">>) = "move" /\ Tail(<<"move">>) = <<>>
    /\ Head(<<"set_trunks">>) = "set_trunks" /\ Tail(<<"set_trunks">>) = <<>>
    /\ <<"delete">> \in Seq(CommandNames)
    /\ Head(<<"delete">>) = "delete" /\ Tail(<<"delete">>) = <<>>
BY DEF AddInterfaceCommands, CommandNames
-----------------------------------------------------------------------------
(* What a handler has done, by the commands it has left *)

Ops == {"add_vlan", "del_vlan", "add_interface", "del_interface"}
Request == [op : Ops, name : Names, tag : Nat, trunks : Trunks \cup {"all"},
            todo : Seq(CommandNames)]

Types ==
    /\ TypeOK
    /\ request # NoRequest =>
         /\ request \in Request
         /\ request.op = "add_vlan" => request.trunks \in Trunks

TagSet(r)    == r.tag > 0 => OnBridge(r.name) /\ ports[r.name].tag = r.tag
TrunksSet(r) == r.trunks # NoTrunks => OnBridge(r.name) /\ ports[r.name].trunks = r.trunks
AddVlanAt(r) ==
    \/ r.todo = AddVlanCommands(r.tag, r.trunks)
    \/ /\ r.tag > 0 /\ r.todo = <<"set_tag">> \o TrunkCommands(r.trunks)
       /\ OnBridge(r.name)
    \/ r.todo = TrunkCommands(r.trunks) /\ TagSet(r)
    \/ /\ r.trunks # NoTrunks /\ r.todo = <<"set_trunks">>
       /\ OnBridge(r.name) /\ TagSet(r)
    \/ r.todo = <<>> /\ TagSet(r) /\ TrunksSet(r)

TagCleared(r)    == r.tag = 4095 /\ OnBridge(r.name) => hidden \/ ports[r.name].tag = 0
TrunksCleared(r) ==
    r.trunks = "all" /\ OnBridge(r.name) => hidden \/ ports[r.name].trunks = NoTrunks
DelVlanAt(r) ==
    \/ r.todo = DelVlanCommands(r.tag, r.trunks)
    \/ r.todo = ClearTrunksCommands(r.trunks) /\ TagCleared(r)
    \/ r.todo = <<>> /\ TagCleared(r) /\ TrunksCleared(r)

Made(n)   == OnBridge(n) /\ n \in internal /\ (n \in Vlans => place[n] # "none")
Tagged(n) == ports[n].tag = OwnTag(n) /\ n \notin retagged
AddInterfaceAt(r) ==
    LET n == r.name
    IN \/ r.todo = AddInterfaceCommands
       \/ /\ \/ r.todo = <<"set_interface", "set_own_tag", "move">>
             \/ r.todo = <<"set_own_tag", "move">>
          /\ Made(n)
       \/ r.todo = <<"move">> /\ Made(n) /\ OwnTag(n) > 0 /\ Tagged(n)
       \/ /\ r.todo = <<>> /\ Made(n)
          /\ OwnTag(n) > 0 => Tagged(n) /\ (hidden \/ place[n] = "vrr")

DelInterfaceAt(r) ==
    \/ r.todo = <<"delete">>
    \/ /\ r.todo = <<>> /\ ~OnBridge(r.name)
       /\ r.name \in Vlans => place[r.name] = "none"

At(r) ==
    /\ r.op = "add_vlan" => AddVlanAt(r)
    /\ r.op = "del_vlan" => DelVlanAt(r)
    /\ r.op = "add_interface" => AddInterfaceAt(r)
    /\ r.op = "del_interface" => DelInterfaceAt(r)

PortsInv == Types /\ MovedIsTagged /\ (request # NoRequest => At(request))

\* A command that is due says what the request is and what has been done.
LEMMA AddVlanBusy ==
    ASSUME PortsInv, NEW c, Busy(c), request.op = "add_vlan"
    PROVE  LET r == request
           IN \/ /\ c = "attach" /\ r.tag > 0
                 /\ Tail(r.todo) = <<"set_tag">> \o TrunkCommands(r.trunks)
              \/ /\ c = "attach" /\ r.trunks # NoTrunks /\ TagSet(r)
                 /\ Tail(r.todo) = <<"set_trunks">>
              \/ /\ c = "set_tag" /\ r.tag > 0 /\ OnBridge(r.name)
                 /\ Tail(r.todo) = TrunkCommands(r.trunks)
              \/ /\ c = "set_trunks" /\ OnBridge(r.name) /\ TagSet(r)
                 /\ Tail(r.todo) = <<>>
<1> DEFINE r == request
           all  == AddVlanCommands(r.tag, r.trunks)
           set  == <<"set_tag">> \o TrunkCommands(r.trunks)
           rest == TrunkCommands(r.trunks)
<1>1. AddVlanAt(r) /\ r.todo # <<>> /\ Head(r.todo) = c
  BY DEF PortsInv, At, Busy
<1>2. /\ r.tag > 0 => /\ all # <<>> /\ Head(all) = "attach" /\ Tail(all) = set
                      /\ set # <<>> /\ Head(set) = "set_tag" /\ Tail(set) = rest
      /\ ~(r.tag > 0) => all = rest
      /\ r.trunks # NoTrunks => /\ rest # <<>> /\ Head(rest) = "attach"
                                /\ Tail(rest) = <<"set_trunks">>
      /\ r.trunks = NoTrunks => rest = <<>>
  BY AddVlanTodo
<1>3. CASE r.todo = all /\ r.tag > 0
  BY <1>1, <1>2, <1>3
<1>4. CASE r.todo = rest /\ TagSet(r)
  BY <1>1, <1>2, <1>4
<1>5. CASE r.todo = all /\ ~(r.tag > 0)
  BY <1>1, <1>2, <1>5 DEF TagSet
<1>6. CASE r.tag > 0 /\ r.todo = set /\ OnBridge(r.name)
  BY <1>1, <1>2, <1>6
<1>7. CASE r.todo = <<"set_trunks">> /\ OnBridge(r.name) /\ TagSet(r)
  BY <1>1, <1>7, InterfaceTodo
<1>8. QED
  BY <1>1, <1>3, <1>4, <1>5, <1>6, <1>7 DEF AddVlanAt

\* The same of a request to clear them.
LEMMA DelVlanBusy ==
    ASSUME PortsInv, NEW c, Busy(c), request.op = "del_vlan"
    PROVE  LET r == request
           IN \/ /\ c = "clear_tag" /\ r.tag = 4095
                 /\ Tail(r.todo) = ClearTrunksCommands(r.trunks)
              \/ /\ c = "clear_trunks" /\ r.trunks = "all" /\ TagCleared(r)
                 /\ Tail(r.todo) = <<>>
<1> DEFINE r == request
           all  == DelVlanCommands(r.tag, r.trunks)
           rest == ClearTrunksCommands(r.trunks)
<1>1. DelVlanAt(r) /\ r.todo # <<>> /\ Head(r.todo) = c
  BY DEF PortsInv, At, Busy
<1>2. /\ r.tag = 4095 => all # <<>> /\ Head(all) = "clear_tag" /\ Tail(all) = rest
      /\ r.tag # 4095 => all = rest
      /\ r.trunks = "all" => /\ rest # <<>> /\ Head(rest) = "clear_trunks"
                             /\ Tail(rest) = <<>>
      /\ r.trunks # "all" => rest = <<>>
  BY DelVlanTodo
<1>3. CASE r.todo = all /\ r.tag = 4095
  BY <1>1, <1>2, <1>3
<1>4. CASE r.todo = rest /\ TagCleared(r)
  BY <1>1, <1>2, <1>4
<1>5. CASE r.todo = all /\ r.tag # 4095
  BY <1>1, <1>2, <1>5 DEF TagCleared
<1>6. QED
  BY <1>1, <1>3, <1>4, <1>5 DEF DelVlanAt

\* The same of one for an interface.
LEMMA InterfaceBusy ==
    ASSUME PortsInv, NEW c, Busy(c), request.op \in {"add_interface", "del_interface"}
    PROVE  LET r == request
               n == request.name
           IN \/ /\ r.op = "del_interface" /\ c = "delete" /\ Tail(r.todo) = <<>>
              \/ /\ r.op = "add_interface" /\ c = "add_internal"
                 /\ Tail(r.todo) = <<"set_interface", "set_own_tag", "move">>
              \/ /\ r.op = "add_interface" /\ c = "set_interface" /\ Made(n)
                 /\ Tail(r.todo) = <<"set_own_tag", "move">>
              \/ /\ r.op = "add_interface" /\ c = "set_own_tag" /\ Made(n)
                 /\ Tail(r.todo) = <<"move">>
              \/ /\ r.op = "add_interface" /\ c = "move" /\ Made(n) /\ OwnTag(n) > 0 /\ Tagged(n)
                 /\ Tail(r.todo) = <<>>
<1>1. At(request) /\ request.todo # <<>> /\ Head(request.todo) = c
  BY DEF PortsInv, Busy
<1>2. CASE request.op = "del_interface"
  BY <1>1, <1>2, InterfaceTodo DEF At, DelInterfaceAt
<1>3. CASE request.op = "add_interface"
  BY <1>1, <1>3, InterfaceTodo DEF At, AddInterfaceAt
<1>4. QED
  BY <1>2, <1>3
-----------------------------------------------------------------------------
(* Every step keeps it *)

\* The parts of TypeOK that speak of the request are those of Types.
LEMMA RequestTyped ==
    /\ \A r \in Request : /\ r # NoRequest /\ r.op # "none" /\ r.op \in Ops
                          /\ r.name \in Names /\ r.tag \in Nat
                          /\ r.todo \in Seq(CommandNames)
                          /\ \A i \in DOMAIN r.todo : r.todo[i] \in CommandNames
    /\ NoRequest.op = "none"
BY DEF Request, NoRequest, Ops

\* What a busy handler does to its request.
LEMMA DoneFacts ==
    ASSUME Types, NEW c, Busy(c), Done
    PROVE  /\ request \in Request /\ request' \in Request
           /\ request # NoRequest /\ request' # NoRequest
           /\ request'.op = request.op /\ request'.name = request.name
           /\ request'.tag = request.tag /\ request'.trunks = request.trunks
           /\ request'.todo = Tail(request.todo) /\ answer' = answer
<1>1. request \in Request /\ request # NoRequest /\ request.todo # <<>>
  BY DEF Types, Busy
<1>2. Tail(request.todo) \in Seq(CommandNames)
  BY <1>1, RequestTyped
<1>3. request' = [request EXCEPT !.todo = Tail(@)]
  BY DEF Done
<1>4. /\ request' \in Request
      /\ request'.op = request.op /\ request'.name = request.name
      /\ request'.tag = request.tag /\ request'.trunks = request.trunks
      /\ request'.todo = Tail(request.todo)
  BY <1>1, <1>2, <1>3 DEF Request
<1>5. QED
  BY <1>1, <1>4, RequestTyped DEF Done

\* A row is written: the other ports are as they were.
LEMMA WriteFacts ==
    ASSUME Types, NEW n \in Names, NEW row \in Port \cup {NoPort}, Write(n, row)
    PROVE  /\ ports' \in [Names -> Port \cup {NoPort}] /\ waiting' = TRUE /\ Done
           /\ ports'[n] = row
           /\ \A m \in Names : m # n => ports'[m] = ports[m]
BY DEF Types, TypeOK, Write

\* A port's row.
LEMMA RowFacts ==
    ASSUME Types, NEW n \in Names, OnBridge(n)
    PROVE  ports[n] \in Port /\ ports[n] # NoPort
BY DEF Types, TypeOK, OnBridge
\* With another tag.
LEMMA TagRow ==
    ASSUME NEW row, row \in Port, NEW tag, tag \in 0..MaxTag,
           NEW new, new = [row EXCEPT !.tag = tag]
    PROVE  new \in Port /\ new # NoPort /\ new.tag = tag /\ new.trunks = row.trunks
<1>1. new \in Port /\ new.tag = tag /\ new.trunks = row.trunks
  BY DEF Port
<1>2. QED
  BY <1>1, VlanAssumption DEF Port, MaxTag
\* With other trunks.
LEMMA TrunksRow ==
    ASSUME NEW row \in Port, NEW trunks \in Trunks \ BadTrunks, NEW new,
           new = [row EXCEPT !.trunks = trunks]
    PROVE  new \in Port /\ new # NoPort /\ new.tag = row.tag /\ new.trunks = trunks
<1>1. new \in Port /\ new.tag = row.tag /\ new.trunks = trunks
  BY DEF Port
<1>2. QED
  BY <1>1, VlanAssumption DEF Port, MaxTag

\* The row of a new port.
LEMMA ClearFacts == Clear \in Port /\ Clear # NoPort /\ Clear.tag = 0 /\ Clear.trunks = NoTrunks
BY VlanAssumption DEF Clear, Port, MaxTag

\* What has a number of its own is a vlan interface of the router's.
LEMMA Numbered ==
    ASSUME NEW n \in Names
    PROVE  /\ OwnTag(n) \in Nat
           /\ OwnTag(n) > 0 => n \in Vlans /\ VlanId[n] = OwnTag(n)
BY VlanAssumption DEF OwnTag

\* No port, no link of the router's and no request.
LEMMA PortsInit == Init => PortsInv
<1> SUFFICES ASSUME Init PROVE PortsInv
  OBVIOUS
<1>1. request = NoRequest /\ request.op = "none"
  BY RequestTyped DEF Init
<1>2. \A n \in Names : place[n] # "vrr"
  BY DEF Init
<1>3. TypeOK
  BY <1>1 DEF Init, TypeOK
<1>4. MovedIsTagged
  BY <1>2 DEF MovedIsTagged, Names
<1>5. QED
  BY <1>1, <1>3, <1>4 DEF PortsInv, Types

\* A step that leaves ports, links and requests alone.
LEMMA PortsRest ==
    ASSUME PortsInv, UNCHANGED <<bridge, request, retagged>>, hidden => hidden',
           TypeOK'
    PROVE  PortsInv'
<1>1. Types'
  BY DEF PortsInv, Types
<1>2. MovedIsTagged'
  BY DEF PortsInv, MovedIsTagged, bridge, OnBridge
<1>3. request # NoRequest => At(request)'
  BY DEF PortsInv, At, AddVlanAt, DelVlanAt, AddInterfaceAt, DelInterfaceAt, TagSet, TrunksSet,
         TagCleared, TrunksCleared, Made, Tagged, OnBridge, bridge
<1>4. QED
  BY <1>1, <1>2, <1>3 DEF PortsInv
\* A handler that gives the mutex back changes nothing else.
LEMMA EndKeeps ==
    ASSUME PortsInv, request' = NoRequest, answer' \in {"none", "ok", "error"},
           UNCHANGED <<bridge, retagged, running>>, waiting' \in BOOLEAN
    PROVE  PortsInv'
<1>1. request'.op = "none"
  BY RequestTyped
<1>2. Types'
  BY <1>1 DEF PortsInv, Types, TypeOK, bridge
<1>3. MovedIsTagged'
  BY DEF PortsInv, MovedIsTagged, bridge, OnBridge
<1>4. QED
  BY <1>2, <1>3 DEF PortsInv

\* A request is accepted: all of its commands are left.
LEMMA AcceptKeeps ==
    ASSUME PortsInv, Rest
    PROVE  PortsInv'
<1>1. PICK n \in Names :
        \/ \E tag \in Tags, trunks \in Trunks : AddVlan(n, tag, trunks)
        \/ \E tag \in {0, 4095}, trunks \in {NoTrunks, "all"} : DelVlan(n, tag, trunks)
        \/ AddInterface(n)
        \/ DelInterface(n)
  BY DEF Rest
<1>2. PICK op \in Ops, tag \in Nat, trunks \in Trunks \cup {"all"}, todo \in Seq(CommandNames) :
        /\ Accept(op, n, tag, trunks, todo)
        /\ op = "add_vlan" => trunks \in Trunks /\ todo = AddVlanCommands(tag, trunks)
        /\ op = "del_vlan" => todo = DelVlanCommands(tag, trunks)
        /\ op = "add_interface" => todo = AddInterfaceCommands
        /\ op = "del_interface" => todo = <<"delete">>
  <2>1. CASE \E tag \in Tags, trunks \in Trunks : AddVlan(n, tag, trunks)
    <3>1. PICK tag \in Tags, trunks \in Trunks : AddVlan(n, tag, trunks)
      BY <2>1
    <3>2. tag \in Nat /\ AddVlanCommands(tag, trunks) \in Seq(CommandNames)
      BY AddVlanTodo, VlanAssumption
    <3>3. QED
      BY <3>1, <3>2 DEF AddVlan, Ops
  <2>2. CASE \E tag \in {0, 4095}, trunks \in {NoTrunks, "all"} : DelVlan(n, tag, trunks)
    <3>1. PICK tag \in {0, 4095}, trunks \in {NoTrunks, "all"} : DelVlan(n, tag, trunks)
      BY <2>2
    <3>2. /\ tag \in Nat /\ trunks \in Trunks \cup {"all"}
          /\ DelVlanCommands(tag, trunks) \in Seq(CommandNames)
      BY DelVlanTodo, VlanAssumption
    <3>3. QED
      BY <3>1, <3>2 DEF DelVlan, Ops
  <2>3. CASE AddInterface(n)
    BY <2>3, InterfaceTodo, VlanAssumption DEF AddInterface, Ops
  <2>4. CASE DelInterface(n)
    <3>1. Accept("del_interface", n, 0, NoTrunks, <<"delete">>)
      BY <2>4 DEF DelInterface
    <3>2. /\ "del_interface" \in Ops /\ 0 \in Nat /\ NoTrunks \in Trunks \cup {"all"}
          /\ <<"delete">> \in Seq(CommandNames)
      BY InterfaceTodo, VlanAssumption DEF Ops
    <3>3. QED
      BY <3>1, <3>2
  <2>5. QED
    BY <1>1, <2>1, <2>2, <2>3, <2>4
<1>3. /\ request' = [op |-> op, name |-> n, tag |-> tag, trunks |-> trunks, todo |-> todo]
      /\ answer' = "none"
      /\ UNCHANGED <<bridge, running, waiting, retagged>>
  BY <1>2 DEF Accept
<1>4. /\ request' \in Request /\ request'.op = op /\ request'.name = n /\ request'.tag = tag
      /\ request'.trunks = trunks /\ request'.todo = todo
  BY <1>3 DEF Request
<1>5. Types'
  BY <1>2, <1>3, <1>4, RequestTyped DEF PortsInv, Types, TypeOK, bridge, Ops
<1>6. MovedIsTagged'
  BY <1>3 DEF PortsInv, MovedIsTagged, bridge, OnBridge
<1>7. At(request)'
  BY <1>2, <1>4 DEF At, AddVlanAt, DelVlanAt, AddInterfaceAt, DelInterfaceAt
<1>8. QED
  BY <1>5, <1>6, <1>7 DEF PortsInv

\* What every command that is carried out leaves in order.
LEMMA CommandTyped ==
    ASSUME PortsInv, NEW c, Busy(c), Done,
           ports' \in [Names -> Port \cup {NoPort}], waiting' \in BOOLEAN,
           internal' \subseteq Names, place' \in [Names -> {"none", "root", "vrr"}],
           retagged' \subseteq Vlans, UNCHANGED running
    PROVE  Types'
<1>1. /\ request \in Request /\ request' \in Request
      /\ request'.op = request.op /\ request'.trunks = request.trunks
      /\ answer' = answer /\ request # NoRequest
  BY DoneFacts DEF PortsInv
<1>2. request'.op = "add_vlan" => request'.trunks \in Trunks
  BY <1>1 DEF PortsInv, Types
<1>3. QED
  BY <1>1, <1>2, RequestTyped DEF PortsInv, Types, TypeOK, Ops

\* Only add_vlan requests attach ports and set tags and trunks.
LEMMA AddVlanKeeps ==
    ASSUME PortsInv, Attach \/ SetTag \/ SetTrunks
    PROVE  PortsInv'
<1> DEFINE n == request.name
<1>1. PICK c \in {"attach", "set_tag", "set_trunks"} :
        /\ Busy(c)
        /\ \/ c = "attach" /\ Attach
           \/ c = "set_tag" /\ SetTag
           \/ c = "set_trunks" /\ SetTrunks
  BY DEF Attach, SetTag, SetTrunks
<1>2. /\ Types /\ MovedIsTagged /\ request \in Request /\ n \in Names
      /\ request.op = "add_vlan" /\ request.trunks \in Trunks
  <2>1. Types /\ MovedIsTagged /\ request \in Request /\ request # NoRequest
    BY <1>1 DEF PortsInv, Types, Busy
  <2>2. request.op \in Ops /\ n \in Names
    BY <2>1, RequestTyped
  <2>3. request.op = "add_vlan"
    BY <1>1, <2>2, DelVlanBusy, InterfaceBusy DEF Ops
  <2>4. QED
    BY <2>1, <2>2, <2>3 DEF Types
<1>3. OnBridge(n) => ports[n] \in Port
  BY <1>2, RowFacts
<1>4. UNCHANGED <<internal, place, running, hidden>>
  BY DEF Attach, SetTag, SetTrunks, past
<1>5. CASE Attach
  <2>1. /\ Done
        /\ \/ OnBridge(n) /\ UNCHANGED <<ports, waiting>>
           \/ ~OnBridge(n) /\ Write(n, Clear)
    BY <1>5 DEF Attach, Write
  <2>2. /\ ports' \in [Names -> Port \cup {NoPort}] /\ waiting' \in BOOLEAN
        /\ ports'[n] # NoPort /\ (OnBridge(n) => ports'[n] = ports[n])
        /\ \A m \in Names : m # n => ports'[m] = ports[m]
    BY <1>2, <2>1, ClearFacts, WriteFacts DEF Types, TypeOK, OnBridge
  <2>3. UNCHANGED retagged
    BY <1>5 DEF Attach, past
  <2>4. Types'
    BY <1>1, <1>2, <1>4, <2>1, <2>2, <2>3, CommandTyped DEF Types, TypeOK
  <2>5. MovedIsTagged'
    BY <1>2, <1>4, <2>2, <2>3 DEF MovedIsTagged, OnBridge, Names
  <2>6. At(request)'
    <3>1. /\ request'.op = "add_vlan" /\ request'.name = n /\ request'.tag = request.tag
          /\ request'.trunks = request.trunks /\ request'.todo = Tail(request.todo)
      BY <1>1, <1>2, <2>1, DoneFacts
    <3>2. \/ /\ request.tag > 0
             /\ Tail(request.todo) = <<"set_tag">> \o TrunkCommands(request.trunks)
          \/ /\ request.trunks # NoTrunks /\ TagSet(request)
             /\ Tail(request.todo) = <<"set_trunks">>
      BY <1>2, <1>5, AddVlanBusy DEF Attach
    <3>3. AddVlanAt(request)'
      BY <2>2, <3>1, <3>2 DEF AddVlanAt, TagSet, OnBridge
    <3>4. QED
      BY <3>1, <3>3 DEF At
  <2>7. QED
    BY <2>4, <2>5, <2>6 DEF PortsInv
<1>6. CASE SetTag
  <2>1. request.tag > 0 /\ OnBridge(n) /\ Tail(request.todo) = TrunkCommands(request.trunks)
    BY <1>2, <1>6, AddVlanBusy DEF SetTag
  <2>2. PICK tag : tag = request.tag
    OBVIOUS
  <2>3. tag \in 0..MaxTag
    <3>1. tag \in Nat /\ ~(tag > MaxTag)
      BY <1>2, <1>6, <2>2, RequestTyped DEF SetTag, Refused
    <3>2. QED
      BY <3>1 DEF MaxTag
  <2>4. PICK row : row = [ports[n] EXCEPT !.tag = tag]
    OBVIOUS
  <2>5. /\ row \in Port /\ row # NoPort /\ row.tag = request.tag
        /\ Write(n, row) /\ retagged' = retagged \cup ({n} \cap Vlans)
    <3>1. row \in Port /\ row # NoPort /\ row.tag = tag
      BY <1>3, <2>1, <2>4, <2>3, TagRow
    <3>2. QED
      BY <1>6, <2>2, <2>4, <3>1 DEF SetTag
  <2>6. /\ ports' \in [Names -> Port \cup {NoPort}] /\ waiting' = TRUE /\ Done
        /\ ports'[n] = row
        /\ \A m \in Names : m # n => ports'[m] = ports[m]
    <3>1. row \in Port \cup {NoPort}
      BY <2>5
    <3>2. QED
      BY <1>2, <2>5, <3>1, WriteFacts
  <2>7. Types'
    <3>1. retagged' \subseteq Vlans
      BY <1>2, <2>5 DEF Types, TypeOK
    <3>2. QED
      BY <1>1, <1>2, <1>4, <2>6, <3>1, CommandTyped DEF Types, TypeOK
  <2>8. MovedIsTagged'
    BY <1>2, <1>4, <2>5, <2>6 DEF MovedIsTagged, OnBridge, Names
  <2>9. At(request)'
    <3>1. /\ request'.op = "add_vlan" /\ request'.name = n /\ request'.tag = request.tag
          /\ request'.trunks = request.trunks /\ request'.todo = Tail(request.todo)
      BY <1>1, <1>2, <2>6, DoneFacts
    <3>2. AddVlanAt(request)'
      BY <2>1, <2>5, <2>6, <3>1 DEF AddVlanAt, TagSet, OnBridge
    <3>3. QED
      BY <3>1, <3>2 DEF At
  <2>10. QED
    BY <2>7, <2>8, <2>9 DEF PortsInv
<1>7. CASE SetTrunks
  <2>1. OnBridge(n) /\ TagSet(request) /\ Tail(request.todo) = <<>>
    BY <1>2, <1>7, AddVlanBusy DEF SetTrunks
  <2>2. PICK row : row = [ports[n] EXCEPT !.trunks = request.trunks]
    OBVIOUS
  <2>3. row \in Port /\ row # NoPort /\ row.tag = ports[n].tag /\ row.trunks = request.trunks
    <3>1. request.trunks \in Trunks \ BadTrunks
      BY <1>2, <1>7 DEF SetTrunks, Refused
    <3>2. QED
      BY <1>3, <2>1, <2>2, <3>1, TrunksRow
  <2>4. Write(n, row) /\ UNCHANGED retagged
    BY <1>7, <2>2 DEF SetTrunks, past
  <2>5. /\ ports' \in [Names -> Port \cup {NoPort}] /\ waiting' = TRUE /\ Done
        /\ ports'[n] = row
        /\ \A m \in Names : m # n => ports'[m] = ports[m]
    BY <1>2, <2>3, <2>4, WriteFacts
  <2>6. Types'
    BY <1>1, <1>2, <1>4, <2>4, <2>5, CommandTyped DEF Types, TypeOK
  <2>7. MovedIsTagged'
    BY <1>2, <1>4, <2>3, <2>4, <2>5 DEF MovedIsTagged, OnBridge, Names
  <2>8. At(request)'
    <3>1. /\ request'.op = "add_vlan" /\ request'.name = n /\ request'.tag = request.tag
          /\ request'.trunks = request.trunks /\ request'.todo = Tail(request.todo)
      BY <1>1, <1>2, <2>5, DoneFacts
    <3>2. AddVlanAt(request)'
      BY <2>1, <2>3, <2>5, <3>1 DEF AddVlanAt, TagSet, TrunksSet, OnBridge
    <3>3. QED
      BY <3>1, <3>2 DEF At
  <2>9. QED
    BY <2>6, <2>7, <2>8 DEF PortsInv
<1>8. QED
  BY <1>5, <1>6, <1>7

\* Only del_vlan requests clear them; a listing that fails is taken for a port
\* that is not there, and then nothing is promised.
LEMMA DelVlanKeeps ==
    ASSUME PortsInv, ClearTag \/ ClearTrunks \/ \E c \in CommandNames : NothingToClear(c)
    PROVE  PortsInv'
<1> DEFINE n == request.name
<1>1. PICK c \in {"clear_tag", "clear_trunks"} :
        /\ Busy(c)
        /\ \/ c = "clear_tag" /\ ClearTag
           \/ c = "clear_trunks" /\ ClearTrunks
           \/ NothingToClear(c)
  BY DEF ClearTag, ClearTrunks, NothingToClear
<1>2. /\ Types /\ MovedIsTagged /\ request \in Request /\ n \in Names
      /\ request.op = "del_vlan"
  <2>1. Types /\ MovedIsTagged /\ request \in Request /\ request # NoRequest
    BY <1>1 DEF PortsInv, Types, Busy
  <2>2. request.op \in Ops /\ n \in Names
    BY <2>1, RequestTyped
  <2>3. request.op = "del_vlan"
    BY <1>1, <2>2, AddVlanBusy, InterfaceBusy DEF Ops
  <2>4. QED
    BY <2>1, <2>2, <2>3
<1>3. UNCHANGED <<internal, place, running>>
  BY <1>1 DEF ClearTag, ClearTrunks, NothingToClear, bridge
<1>4. \/ /\ c = "clear_tag" /\ request.tag = 4095
         /\ Tail(request.todo) = ClearTrunksCommands(request.trunks)
      \/ /\ c = "clear_trunks" /\ request.trunks = "all" /\ TagCleared(request)
         /\ Tail(request.todo) = <<>>
  BY <1>1, <1>2, DelVlanBusy
<1>5. CASE NothingToClear(c)
  <2>1. /\ Done /\ UNCHANGED <<bridge, running, waiting, retagged>>
        /\ (~OnBridge(n) /\ hidden' = hidden) \/ hidden' = TRUE
    BY <1>5 DEF NothingToClear
  <2>2. Types'
    BY <1>1, <1>2, <2>1, CommandTyped DEF Types, TypeOK, bridge
  <2>3. MovedIsTagged'
    BY <1>2, <2>1 DEF MovedIsTagged, bridge, OnBridge
  <2>4. At(request)'
    <3>1. /\ request'.op = "del_vlan" /\ request'.name = n /\ request'.tag = request.tag
          /\ request'.trunks = request.trunks /\ request'.todo = Tail(request.todo)
      BY <1>1, <1>2, <2>1, DoneFacts
    <3>2. DelVlanAt(request)'
      BY <1>4, <2>1, <3>1 DEF DelVlanAt, TagCleared, TrunksCleared, OnBridge, bridge
    <3>3. QED
      BY <3>1, <3>2 DEF At
  <2>5. QED
    BY <2>2, <2>3, <2>4 DEF PortsInv
<1>6. CASE c = "clear_tag" /\ ClearTag
  <2>1. OnBridge(n) /\ ports[n] \in Port
    BY <1>2, <1>6, RowFacts DEF ClearTag
  <2>2. PICK row : row = [ports[n] EXCEPT !.tag = 0]
    OBVIOUS
  <2>3. row \in Port /\ row # NoPort /\ row.tag = 0
    <3>1. 0 \in 0..MaxTag
      BY DEF MaxTag
    <3>2. QED
      BY <2>1, <2>2, <3>1, TagRow
  <2>4. Write(n, row) /\ retagged' = retagged \cup ({n} \cap Vlans) /\ UNCHANGED hidden
    BY <1>6, <2>2 DEF ClearTag
  <2>5. /\ ports' \in [Names -> Port \cup {NoPort}] /\ waiting' = TRUE /\ Done
        /\ ports'[n] = row
        /\ \A m \in Names : m # n => ports'[m] = ports[m]
    BY <1>2, <2>3, <2>4, WriteFacts
  <2>6. Types'
    <3>1. retagged' \subseteq Vlans
      BY <1>2, <2>4 DEF Types, TypeOK
    <3>2. QED
      BY <1>1, <1>2, <1>3, <2>5, <3>1, CommandTyped DEF Types, TypeOK
  <2>7. MovedIsTagged'
    BY <1>2, <1>3, <2>3, <2>4, <2>5 DEF MovedIsTagged, OnBridge, Names
  <2>8. At(request)'
    <3>1. /\ request'.op = "del_vlan" /\ request'.name = n /\ request'.tag = request.tag
          /\ request'.trunks = request.trunks /\ request'.todo = Tail(request.todo)
      BY <1>1, <1>2, <2>5, DoneFacts
    <3>2. DelVlanAt(request)'
      BY <1>4, <1>6, <2>3, <2>5, <3>1 DEF DelVlanAt, TagCleared, OnBridge
    <3>3. QED
      BY <3>1, <3>2 DEF At
  <2>9. QED
    BY <2>6, <2>7, <2>8 DEF PortsInv
<1>7. CASE c = "clear_trunks" /\ ClearTrunks
  <2>1. OnBridge(n) /\ ports[n] \in Port
    BY <1>2, <1>7, RowFacts DEF ClearTrunks
  <2>2. PICK row : row = [ports[n] EXCEPT !.trunks = NoTrunks]
    OBVIOUS
  <2>3. row \in Port /\ row # NoPort /\ row.tag = ports[n].tag /\ row.trunks = NoTrunks
    BY <2>1, <2>2, TrunksRow, VlanAssumption
  <2>4. Write(n, row) /\ UNCHANGED <<retagged, hidden>>
    BY <1>7, <2>2 DEF ClearTrunks, past
  <2>5. /\ ports' \in [Names -> Port \cup {NoPort}] /\ waiting' = TRUE /\ Done
        /\ ports'[n] = row
        /\ \A m \in Names : m # n => ports'[m] = ports[m]
    BY <1>2, <2>3, <2>4, WriteFacts
  <2>6. Types'
    BY <1>1, <1>2, <1>3, <2>4, <2>5, CommandTyped DEF Types, TypeOK
  <2>7. MovedIsTagged'
    BY <1>2, <1>3, <2>3, <2>4, <2>5 DEF MovedIsTagged, OnBridge, Names
  <2>8. At(request)'
    <3>1. /\ request'.op = "del_vlan" /\ request'.name = n /\ request'.tag = request.tag
          /\ request'.trunks = request.trunks /\ request'.todo = Tail(request.todo)
      BY <1>1, <1>2, <2>5, DoneFacts
    <3>2. DelVlanAt(request)'
      BY <1>4, <1>7, <2>1, <2>3, <2>4, <2>5, <3>1 DEF DelVlanAt, TagCleared, TrunksCleared, OnBridge
    <3>3. QED
      BY <3>1, <3>2 DEF At
  <2>9. QED
    BY <2>6, <2>7, <2>8 DEF PortsInv
<1>8. QED
  BY <1>1, <1>5, <1>6, <1>7
\* A vlan interface is made, configured, tagged and moved, in this order.
LEMMA AddInterfaceKeeps ==
    ASSUME PortsInv, AddInternal \/ SetInterface \/ SetOwnTag \/ Move
    PROVE  PortsInv'
<1>0. PICK n : n = request.name
  OBVIOUS
<1>1. PICK c \in {"add_internal", "set_interface", "set_own_tag", "move"} :
        /\ Busy(c)
        /\ \/ c = "add_internal" /\ AddInternal
           \/ c = "set_interface" /\ SetInterface
           \/ c = "set_own_tag" /\ SetOwnTag
           \/ c = "move" /\ Move
  BY DEF AddInternal, SetInterface, SetOwnTag, Move
<1>2. /\ Types /\ MovedIsTagged /\ request \in Request /\ n \in Names /\ request # NoRequest
      /\ request.op = "add_interface"
  <2>1. Types /\ MovedIsTagged /\ request \in Request /\ request # NoRequest
    BY <1>1 DEF PortsInv, Types, Busy
  <2>2. request.op \in Ops /\ n \in Names
    BY <1>0, <2>1, RequestTyped
  <2>3. request.op = "add_interface"
    BY <1>1, <2>2, AddVlanBusy, DelVlanBusy, InterfaceBusy DEF Ops
  <2>4. QED
    BY <2>1, <2>2, <2>3
<1>3. OnBridge(n) => ports[n] \in Port /\ ports[n] # NoPort
  BY <1>2, RowFacts
<1>4. /\ c = "add_internal" => Tail(request.todo) = <<"set_interface", "set_own_tag", "move">>
      /\ c = "set_interface" => Made(n) /\ Tail(request.todo) = <<"set_own_tag", "move">>
      /\ c = "set_own_tag" => Made(n) /\ Tail(request.todo) = <<"move">>
      /\ c = "move" => Made(n) /\ OwnTag(n) > 0 /\ Tagged(n) /\ Tail(request.todo) = <<>>
  BY <1>0, <1>1, <1>2, InterfaceBusy
<1>5. ASSUME Done
      PROVE  /\ request'.op = "add_interface" /\ request'.name = n
             /\ request'.todo = Tail(request.todo)
  BY <1>0, <1>1, <1>2, <1>5, DoneFacts
<1>6. CASE c = "add_internal" /\ AddInternal
  <2>1. PICK row : row = IF OnBridge(n) THEN ports[n] ELSE Clear
    OBVIOUS
  <2>2. row \in Port \cup {NoPort} /\ row # NoPort /\ (OnBridge(n) => row = ports[n])
    BY <1>3, <2>1, ClearFacts
  <2>3. /\ Write(n, row) /\ internal' = internal \cup {n}
        /\ place' = [place EXCEPT ![n] = IF @ = "none" THEN "root" ELSE @]
        /\ UNCHANGED <<running, retagged, hidden>>
    BY <1>0, <1>6, <2>1 DEF AddInternal, MakeLink, past
  <2>4. /\ ports' \in [Names -> Port \cup {NoPort}] /\ waiting' = TRUE /\ Done
        /\ ports'[n] = row
        /\ \A m \in Names : m # n => ports'[m] = ports[m]
    BY <1>2, <2>2, <2>3, WriteFacts
  <2>5. /\ place' \in [Names -> {"none", "root", "vrr"}] /\ place'[n] # "none"
        /\ \A m \in Names : place'[m] = "vrr" => place[m] = "vrr"
    BY <1>2, <2>3 DEF Types, TypeOK
  <2>6. Types'
    <3>1. internal' \subseteq Names /\ retagged' \subseteq Vlans
      BY <1>2, <2>3 DEF Types, TypeOK
    <3>2. QED
      BY <1>1, <2>3, <2>4, <2>5, <3>1, CommandTyped
  <2>7. MovedIsTagged'
    BY <1>2, <2>2, <2>3, <2>4, <2>5 DEF MovedIsTagged, OnBridge, Names
  <2>8. Made(n)'
    BY <2>2, <2>3, <2>4, <2>5 DEF Made, OnBridge
  <2>9. At(request)'
    BY <1>4, <1>5, <1>6, <2>4, <2>8 DEF At, AddInterfaceAt, Made, OnBridge
  <2>10. QED
    BY <2>6, <2>7, <2>9 DEF PortsInv
<1>7. CASE c = "set_interface" /\ SetInterface
  <2>1. Write(n, ports[n]) /\ UNCHANGED <<internal, place, running, retagged, hidden>>
    BY <1>0, <1>7 DEF SetInterface, past
  <2>2. /\ ports' \in [Names -> Port \cup {NoPort}] /\ waiting' = TRUE /\ Done
        /\ \A m \in Names : ports'[m] = ports[m]
    BY <1>2, <1>3, <1>4, <1>7, <2>1, WriteFacts DEF Made
  <2>3. Types'
    BY <1>1, <1>2, <2>1, <2>2, CommandTyped DEF Types, TypeOK
  <2>4. MovedIsTagged'
    BY <1>2, <2>1, <2>2 DEF MovedIsTagged, OnBridge, Names
  <2>5. At(request)'
    BY <1>2, <1>4, <1>5, <1>7, <2>1, <2>2 DEF At, AddInterfaceAt, Made, OnBridge
  <2>6. QED
    BY <2>3, <2>4, <2>5 DEF PortsInv
<1>8. CASE c = "set_own_tag" /\ SetOwnTag /\ OwnTag(n) > 0
  <2>1. PICK tag : tag = OwnTag(n)
    OBVIOUS
  <2>2. tag \in 0..MaxTag
    <3>1. tag \in Nat /\ ~(tag > MaxTag)
      BY <1>0, <1>2, <1>8, <2>1, Numbered DEF SetOwnTag, Refused
    <3>2. QED
      BY <3>1 DEF MaxTag
  <2>3. PICK row : row = [ports[n] EXCEPT !.tag = tag]
    OBVIOUS
  <2>4. row \in Port /\ row # NoPort /\ row.tag = tag
    <3>1. ports[n] \in Port
      BY <1>3, <1>4, <1>8 DEF Made
    <3>2. PICK old : old = ports[n]
      OBVIOUS
    <3>3. old \in Port /\ row = [old EXCEPT !.tag = tag]
      BY <2>3, <3>1, <3>2
    <3>4. QED
      BY <2>2, <3>3, TagRow
  <2>5. /\ Write(n, row) /\ retagged' = retagged \ {n}
        /\ UNCHANGED <<internal, place, running, hidden>>
    BY <1>0, <1>8, <2>1, <2>3 DEF SetOwnTag
  <2>6. /\ ports' \in [Names -> Port \cup {NoPort}] /\ waiting' = TRUE /\ Done
        /\ ports'[n] = row
        /\ \A m \in Names : m # n => ports'[m] = ports[m]
    <3>1. row \in Port \cup {NoPort}
      BY <2>4
    <3>2. QED
      BY <1>2, <2>5, <3>1, WriteFacts
  <2>7. Types'
    <3>1. retagged' \subseteq Vlans
      BY <1>2, <2>5 DEF Types, TypeOK
    <3>2. QED
      BY <1>1, <1>2, <2>5, <2>6, <3>1, CommandTyped DEF Types, TypeOK
  <2>8. MovedIsTagged'
    <3>1. n \in Vlans /\ VlanId[n] > 0 /\ tag = VlanId[n]
      BY <1>2, <1>8, <2>1, Numbered
    <3>2. QED
      BY <1>2, <2>4, <2>5, <2>6, <3>1 DEF MovedIsTagged, OnBridge, Names
  <2>9. Made(n)' /\ Tagged(n)'
    BY <1>4, <1>8, <2>1, <2>4, <2>5, <2>6 DEF Made, Tagged, OnBridge
  <2>10. At(request)'
    BY <1>4, <1>5, <1>8, <2>6, <2>9 DEF At, AddInterfaceAt, Made, Tagged, OnBridge
  <2>11. QED
    BY <2>7, <2>8, <2>10 DEF PortsInv
<1>9. CASE c = "set_own_tag" /\ SetOwnTag /\ ~(OwnTag(n) > 0)
  <2>1. /\ request' = [request EXCEPT !.todo = <<>>]
        /\ UNCHANGED <<bridge, waiting, answer, retagged, running, hidden>>
    BY <1>0, <1>9 DEF SetOwnTag, bridge
  <2>2. /\ request' \in Request /\ request'.op = "add_interface" /\ request'.name = n
        /\ request'.todo = <<>>
    <3>1. <<>> \in Seq(CommandNames)
      OBVIOUS
    <3>2. QED
      BY <1>0, <1>2, <2>1, <3>1 DEF Request
  <2>3. Types'
    BY <1>2, <2>1, <2>2, RequestTyped DEF Types, TypeOK, bridge, Ops
  <2>4. MovedIsTagged'
    BY <1>2, <2>1 DEF MovedIsTagged, bridge, OnBridge
  <2>5. At(request)'
    BY <1>4, <1>9, <2>1, <2>2 DEF At, AddInterfaceAt, Made, OnBridge, bridge
  <2>6. QED
    BY <2>3, <2>4, <2>5 DEF PortsInv
<1>10. CASE c = "move" /\ Move
  <2>1. /\ Done /\ UNCHANGED <<ports, internal, running, waiting, retagged>>
        /\ \/ place' = [place EXCEPT ![n] = "vrr"]
           \/ hidden' = TRUE /\ place' = place
    BY <1>0, <1>10 DEF Move
  <2>2. /\ place' \in [Names -> {"none", "root", "vrr"}]
        /\ \A m \in Names : m # n => place'[m] = place[m]
        /\ place'[n] = place[n] \/ place'[n] = "vrr"
        /\ hidden' = TRUE \/ place'[n] = "vrr"
    BY <1>2, <2>1 DEF Types, TypeOK
  <2>3. Types'
    BY <1>1, <1>2, <2>1, <2>2, CommandTyped DEF Types, TypeOK
  <2>4. MovedIsTagged'
    <3>1. n \in Vlans /\ VlanId[n] > 0 /\ ports[n].tag = VlanId[n]
      BY <1>2, <1>4, <1>10, Numbered DEF Tagged
    <3>2. QED
      BY <1>2, <1>4, <1>10, <2>1, <2>2, <3>1 DEF MovedIsTagged, OnBridge, Made, Names
  <2>5. Made(n)' /\ Tagged(n)'
    BY <1>4, <1>10, <2>1, <2>2 DEF Made, Tagged, OnBridge
  <2>6. At(request)'
    BY <1>4, <1>5, <1>10, <2>1, <2>2, <2>5 DEF At, AddInterfaceAt, Made, Tagged, OnBridge
  <2>7. QED
    BY <2>3, <2>4, <2>6 DEF PortsInv
<1>11. QED
  BY <1>1, <1>6, <1>7, <1>8, <1>9, <1>10

\* Deleting a port takes the router's own link out of any namespace.
LEMMA DelInterfaceKeeps ==
    ASSUME PortsInv, Delete
    PROVE  PortsInv'
<1> DEFINE n == request.name
<1>1. Busy("delete")
  BY DEF Delete
<1>2. /\ Types /\ MovedIsTagged /\ request \in Request /\ n \in Names
      /\ request.op = "del_interface" /\ Tail(request.todo) = <<>>
  <2>1. Types /\ MovedIsTagged /\ request \in Request /\ request # NoRequest
    BY <1>1 DEF PortsInv, Types, Busy
  <2>2. request.op \in Ops /\ n \in Names
    BY <2>1, RequestTyped
  <2>3. request.op = "del_interface" /\ Tail(request.todo) = <<>>
    BY <1>1, <2>2, AddVlanBusy, DelVlanBusy, InterfaceBusy DEF Ops
  <2>4. QED
    BY <2>1, <2>2, <2>3
<1>3. /\ Write(n, NoPort) /\ internal' = internal \ {n}
      /\ n \in Vlans => place' = [place EXCEPT ![n] = "none"]
      /\ n \notin Vlans => place' = place
      /\ retagged' = retagged \ {n} /\ UNCHANGED <<running, hidden>>
  BY DEF Delete
<1>4. /\ ports' \in [Names -> Port \cup {NoPort}] /\ waiting' = TRUE /\ Done
      /\ ports'[n] = NoPort
      /\ \A m \in Names : m # n => ports'[m] = ports[m]
  BY <1>2, <1>3, WriteFacts
<1>5. /\ place' \in [Names -> {"none", "root", "vrr"}]
      /\ n \in Vlans => place'[n] = "none"
      /\ \A m \in Names : m # n => place'[m] = place[m]
  <2>1. CASE n \in Vlans
    BY <1>2, <1>3, <2>1 DEF Types, TypeOK
  <2>2. CASE n \notin Vlans
    BY <1>2, <1>3, <2>2 DEF Types, TypeOK
  <2>3. QED
    BY <2>1, <2>2
<1>6. Types'
  <2>1. internal' \subseteq Names /\ retagged' \subseteq Vlans
    BY <1>2, <1>3 DEF Types, TypeOK
  <2>2. QED
    BY <1>1, <1>3, <1>4, <1>5, <2>1, CommandTyped
<1>7. MovedIsTagged'
  BY <1>2, <1>3, <1>4, <1>5 DEF MovedIsTagged, OnBridge, Names
<1>8. At(request)'
  <2>1. /\ request'.op = "del_interface" /\ request'.name = n /\ request'.todo = <<>>
    BY <1>1, <1>2, <1>4, DoneFacts
  <2>2. QED
    BY <1>4, <1>5, <2>1 DEF At, DelInterfaceAt, OnBridge
<1>9. QED
  BY <1>6, <1>7, <1>8 DEF PortsInv

\* Every step.
LEMMA PortsStep == PortsInv /\ [Next]_vars => PortsInv'
<1> SUFFICES ASSUME PortsInv, [Next]_vars PROVE PortsInv'
  OBVIOUS
<1>1. CASE Rest
  BY <1>1, AcceptKeeps
<1>2. CASE Attach \/ SetTag \/ SetTrunks
  BY <1>2, AddVlanKeeps
<1>3. CASE ClearTag \/ ClearTrunks \/ \E c \in CommandNames : NothingToClear(c)
  BY <1>3, DelVlanKeeps
<1>4. CASE AddInternal \/ SetInterface \/ SetOwnTag \/ Move
  BY <1>4, AddInterfaceKeeps
<1>5. CASE Delete
  BY <1>5, DelInterfaceKeeps
<1>6. CASE LinkGone \/ Answer \/ Crash \/ \E c \in CommandNames : Fail(c) \/ Refuse(c)
  <2>1. /\ request' = NoRequest /\ answer' \in {"none", "ok", "error"}
        /\ UNCHANGED <<bridge, retagged, running>>
        /\ waiting' = waiting \/ waiting' = FALSE
    BY <1>6 DEF Refuse, LinkGone, Answer, Crash, Fail, GiveUp, past
  <2>2. waiting' \in BOOLEAN
    BY <2>1 DEF PortsInv, Types, TypeOK
  <2>3. QED
    BY <2>1, <2>2, EndKeeps
<1>7. CASE Return \/ StopSwitch \/ StartSwitch \/ UNCHANGED vars
  <2>1. /\ UNCHANGED <<bridge, request, answer, retagged, hidden>>
        /\ running' \in {TRUE, FALSE, running} /\ waiting' \in {FALSE, waiting}
    BY <1>7 DEF Return, StopSwitch, StartSwitch, vars, past
  <2>2. TypeOK'
    BY <2>1 DEF PortsInv, Types, TypeOK, bridge
  <2>3. QED
    BY <2>1, <2>2, PortsRest
<1>8. QED
  BY <1>1, <1>2, <1>3, <1>4, <1>5, <1>6, <1>7 DEF Next, Command

\* The types hold; every tag the bridge has is one there is.
THEOREM PortsTyped == Spec => []TypeOK
<1>1. PortsInv => TypeOK
  BY DEF PortsInv, Types
<1>2. QED
  BY <1>1, PortsInit, PortsStep, PTL DEF Spec

\* Whatever fails or crashes, a link in the router's namespace is on the bridge,
\* internal, and on its own vlan unless a vlan request changed that.
THEOREM MovedStaysTagged == Spec => []MovedIsTagged
<1>1. PortsInv => MovedIsTagged
  BY DEF PortsInv
<1>2. QED
  BY <1>1, PortsInit, PortsStep, PTL DEF Spec

\* A handler that has no command left has done what it was asked.
LEMMA AtEndAchieved ==
    ASSUME PortsInv, request # NoRequest, request.todo = <<>>, ~hidden
    PROVE  Achieved(request)
<1> DEFINE r == request
<1>1. r \in Request /\ r.op \in Ops /\ r.name \in Names /\ r.tag \in Nat /\ At(r)
  BY RequestTyped DEF PortsInv, Types
<1>2. CASE r.op = "add_vlan"
  <2>1. TagSet(r) /\ TrunksSet(r)
    <3>1. AddVlanAt(r)
      BY <1>1, <1>2 DEF At
    <3>2. /\ r.tag > 0 => /\ AddVlanCommands(r.tag, r.trunks) # <<>>
                          /\ <<"set_tag">> \o TrunkCommands(r.trunks) # <<>>
          /\ ~(r.tag > 0) => AddVlanCommands(r.tag, r.trunks) = TrunkCommands(r.trunks)
          /\ r.trunks # NoTrunks => TrunkCommands(r.trunks) # <<>>
      BY AddVlanTodo
    <3>3. r.todo = AddVlanCommands(r.tag, r.trunks) => ~(r.tag > 0) /\ r.trunks = NoTrunks
      BY <3>2
    <3>4. r.todo = TrunkCommands(r.trunks) => r.trunks = NoTrunks
      BY <3>2
    <3>5. r.todo = <<>> /\ <<"set_trunks">> # <<>>
      OBVIOUS
    <3>6. ~(r.tag > 0 /\ r.todo = <<"set_tag">> \o TrunkCommands(r.trunks))
      BY <3>2, <3>5
    <3>7. r.todo = AddVlanCommands(r.tag, r.trunks) => TagSet(r) /\ TrunksSet(r)
      BY <3>3 DEF TagSet, TrunksSet
    <3>8. r.todo = TrunkCommands(r.trunks) => TrunksSet(r)
      BY <3>4 DEF TrunksSet
    <3>9. QED
      BY <3>1, <3>5, <3>6, <3>7, <3>8 DEF AddVlanAt
  <2>2. QED
    BY <1>2, <2>1 DEF Achieved, TagSet, TrunksSet
<1>3. CASE r.op = "del_vlan"
  <2>1. TagCleared(r) /\ TrunksCleared(r)
    <3>1. DelVlanAt(r)
      BY <1>1, <1>3 DEF At
    <3>2. /\ r.tag = 4095 => DelVlanCommands(r.tag, r.trunks) # <<>>
          /\ r.tag # 4095 => DelVlanCommands(r.tag, r.trunks) = ClearTrunksCommands(r.trunks)
          /\ r.trunks = "all" => ClearTrunksCommands(r.trunks) # <<>>
      BY DelVlanTodo
    <3>3. QED
      BY <3>1, <3>2 DEF DelVlanAt, TagCleared, TrunksCleared
  <2>2. QED
    BY <1>3, <2>1 DEF Achieved, TagCleared, TrunksCleared
<1>4. CASE r.op = "add_interface"
  BY <1>1, <1>4, InterfaceTodo DEF At, AddInterfaceAt, Achieved, Made, Tagged
<1>5. CASE r.op = "del_interface"
  BY <1>1, <1>5 DEF At, DelInterfaceAt, Achieved
<1>6. QED
  BY <1>1, <1>2, <1>3, <1>4, <1>5 DEF Ops

\* A handler at work has not answered; what has failed is counted.
Unanswered ==
    /\ request # NoRequest => answer = "none"
    /\ budget \in [faults : Nat, crashes : Nat, requests : Nat, stops : Nat]

\* What each step does to the answer.
LEMMA AnswerSteps ==
    ASSUME Unanswered, Next
    PROVE  \/ answer' = answer /\ (request' # NoRequest => request # NoRequest)
           \/ answer' = "none"
           \/ Answer
           \/ request' = NoRequest /\ answer' = "error"
                /\ (LinkGone \/ \E c \in CommandNames : Fail(c) \/ Refuse(c))
<1>1. CASE Rest
  BY <1>1 DEF Rest, AddVlan, DelVlan, AddInterface, DelInterface, Accept
<1>2. CASE Attach \/ SetTag \/ SetTrunks \/ ClearTag \/ ClearTrunks
             \/ AddInternal \/ SetInterface \/ SetOwnTag \/ Move \/ Delete
             \/ \E c \in CommandNames : NothingToClear(c)
  BY <1>2 DEF Attach, SetTag, SetTrunks, ClearTag, ClearTrunks, AddInternal, SetInterface,
              SetOwnTag, Move, Delete, NothingToClear, Write, Done, Busy
<1>3. CASE LinkGone \/ \E c \in CommandNames : Fail(c) \/ Refuse(c)
  <2>1. request' = NoRequest /\ answer' = "error"
    BY <1>3 DEF Refuse, LinkGone, Fail, GiveUp
  <2>2. QED
    BY <1>3, <2>1
<1>4. CASE Crash
  BY <1>4 DEF Crash
<1>5. CASE Return \/ StopSwitch \/ StartSwitch
  BY <1>5 DEF Return, StopSwitch, StartSwitch
<1>6. QED
  BY <1>1, <1>2, <1>3, <1>4, <1>5 DEF Next, Command

\* What each step does to the bounds.
LEMMA BudgetSteps ==
    ASSUME Unanswered, Next
    PROVE  budget' \in [faults : Nat, crashes : Nat, requests : Nat, stops : Nat]
<1>1. \/ budget' = budget
      \/ budget' = [budget EXCEPT !.faults = @ + 1]
      \/ budget' = [budget EXCEPT !.crashes = @ + 1]
      \/ budget' = [budget EXCEPT !.requests = @ + 1]
      \/ budget' = [budget EXCEPT !.stops = @ + 1]
  <2>1. CASE Rest
    BY <2>1 DEF Rest, AddVlan, DelVlan, AddInterface, DelInterface, Accept
  <2>2. CASE Attach \/ SetTag \/ SetTrunks \/ ClearTag \/ ClearTrunks
               \/ AddInternal \/ SetInterface \/ SetOwnTag \/ LinkGone \/ Move \/ Delete
    BY <2>2 DEF Attach, SetTag, SetTrunks, ClearTag, ClearTrunks, AddInternal,
                SetInterface, SetOwnTag, LinkGone, Move, Delete, Fault
  <2>3. CASE \E c \in CommandNames : Fail(c) \/ Refuse(c) \/ NothingToClear(c)
    BY <2>3 DEF Fail, Refuse, NothingToClear, Fault
  <2>4. CASE Return \/ Answer \/ Crash \/ StopSwitch \/ StartSwitch
    BY <2>4 DEF Return, Answer, Crash, StopSwitch, StartSwitch
  <2>5. QED
    BY <2>1, <2>2, <2>3, <2>4 DEF Next, Command
<1>2. QED
  BY <1>1 DEF Unanswered

\* Every step keeps it.
LEMMA UnansweredStep == Unanswered /\ [Next]_vars => Unanswered'
<1> SUFFICES ASSUME Unanswered, [Next]_vars PROVE Unanswered'
  OBVIOUS
<1>1. CASE Next
  <2>1. Answer => request' = NoRequest
    BY DEF Answer
  <2>2. request' # NoRequest => answer' = "none"
    BY <1>1, <2>1, AnswerSteps DEF Unanswered
  <2>3. QED
    BY <1>1, <2>2, BudgetSteps DEF Unanswered
<1>2. CASE UNCHANGED vars
  BY <1>2 DEF Unanswered, vars
<1>3. QED
  BY <1>1, <1>2

\* A request that is answered "ok" is done, unless a failure was hidden.
THEOREM AnswersAreTrue == Spec => AnsweredIsDone
<1>1. Init => Unanswered
  BY DEF Init, Unanswered
<1>2. PortsInv /\ Unanswered /\ [Next]_vars =>
        [request # NoRequest /\ answer' = "ok" /\ ~hidden => Achieved(request)]_vars
  <2>1. SUFFICES ASSUME PortsInv, Unanswered, Next,
                        request # NoRequest, answer' = "ok", ~hidden
                 PROVE  Achieved(request)
    OBVIOUS
  <2>2. Answer
    BY <2>1, AnswerSteps DEF Unanswered
  <2>3. request.todo = <<>>
    BY <2>2 DEF Answer
  <2>4. QED
    BY <2>1, <2>3, AtEndAchieved
<1>3. QED
  BY <1>1, <1>2, PortsInit, PortsStep, UnansweredStep, PTL DEF Spec, AnsweredIsDone

\* A handler gives up because a command failed, because the database has no
\* room for a tag, trunks or an interface number that nothing has looked at, or
\* because the link it made before has been moved: for no other reason.
THEOREM ErrorsHaveCause == Spec => ErrorHasCause
<1> DEFINE Cause ==
             \/ budget' # budget
             \/ /\ request.op = "add_interface"
                /\ place[request.name] = "vrr" \/ OwnTag(request.name) > MaxTag
             \/ /\ request.op = "add_vlan"
                /\ request.tag > MaxTag \/ request.trunks \in BadTrunks
<1>1. Init => Unanswered
  BY DEF Init, Unanswered
<1>2. PortsInv /\ Unanswered /\ [Next]_vars =>
        [request # NoRequest /\ answer' = "error" => Cause]_vars
  <2>1. SUFFICES ASSUME PortsInv, Unanswered, Next, request # NoRequest, answer' = "error"
                 PROVE  Cause
    OBVIOUS
  <2>2. /\ request.op \in Ops /\ request.name \in Names
        /\ place[request.name] \in {"none", "root", "vrr"}
    BY <2>1, RequestTyped DEF PortsInv, Types, TypeOK
  <2>3. LinkGone \/ \E c \in CommandNames : Fail(c) \/ Refuse(c)
    BY <2>1, AnswerSteps DEF Unanswered, Answer
  <2>4. ASSUME NEW c \in CommandNames, Refuse(c) PROVE Cause
    <3>1. Busy(c) /\ Refused(c)
      BY <2>4 DEF Refuse
    <3>2. CASE c = "set_tag"
      <4>1. request.tag > MaxTag
        BY <3>1, <3>2 DEF Refused
      <4>2. request.op = "add_vlan"
        BY <2>1, <2>2, <3>1, <3>2, DelVlanBusy, InterfaceBusy DEF Ops
      <4>3. QED
        BY <4>1, <4>2
    <3>3. CASE c = "set_trunks"
      <4>1. request.trunks \in BadTrunks
        BY <3>1, <3>3 DEF Refused
      <4>2. request.op = "add_vlan"
        BY <2>1, <2>2, <3>1, <3>3, DelVlanBusy, InterfaceBusy DEF Ops
      <4>3. QED
        BY <4>1, <4>2
    <3>4. CASE c \in {"add_internal", "set_own_tag"}
      <4>1. OwnTag(request.name) > MaxTag
        <5>1. OwnTag(request.name) \in Nat
          BY <2>2, Numbered
        <5>2. CASE c = "add_internal"
          <6>1. OwnPort(request.name) > MaxOfport
            BY <3>1, <5>2 DEF Refused
          <6>2. QED
            BY <5>1, <6>1 DEF OwnPort, MaxOfport, MaxTag
        <5>3. CASE c = "set_own_tag"
          BY <3>1, <5>3 DEF Refused
        <5>4. QED
          BY <3>4, <5>2, <5>3
      <4>2. request.op = "add_interface"
        BY <2>1, <2>2, <3>1, <3>4, AddVlanBusy, DelVlanBusy, InterfaceBusy DEF Ops
      <4>3. QED
        BY <4>1, <4>2
    <3>5. QED
      BY <3>1, <3>2, <3>3, <3>4 DEF Refused
  <2>5. CASE LinkGone
    <3>1. Busy("move") /\ place[request.name] # "root"
      BY <2>5 DEF LinkGone
    <3>2. /\ request.op = "add_interface" /\ Made(request.name)
          /\ OwnTag(request.name) > 0
      BY <2>1, <2>2, <3>1, AddVlanBusy, DelVlanBusy, InterfaceBusy DEF Ops
    <3>3. request.name \in Vlans
      BY <2>2, <3>2, Numbered
    <3>4. QED
      BY <2>2, <3>1, <3>2, <3>3 DEF Made
  <2>6. ASSUME NEW c \in CommandNames, Fail(c) PROVE Cause
    <3>1. Fault
      BY <2>6 DEF Fail
    <3>2. budget' # budget
      BY <2>1, <3>1 DEF Fault, Unanswered
    <3>3. QED
      BY <3>2
  <2>7. QED
    BY <2>3, <2>4, <2>5, <2>6
<1>3. QED
  BY <1>1, <1>2, PortsInit, PortsStep, UnansweredStep, PTL DEF Spec, ErrorHasCause
==============================================================================
