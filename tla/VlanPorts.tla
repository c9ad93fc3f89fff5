------------------------------ MODULE VlanPorts ------------------------------
(***************************************************************************)
(* The ports of the bridge: AddInterface and DelInterface create and       *)
(* destroy the router's own vlan interfaces, AddVlan and DelVlan configure *)
(* the tag and the trunks of any port.  A handler holds the gateway's      *)
(* mutex and issues one ovs-vsctl command after the other; a command may   *)
(* fail, the process may crash between two of them, and a command waits    *)
(* for ovs-vswitchd, which runs in a container that is not restarted.      *)
(*                                                                         *)
(* A handler is the sequence of the commands it has left.                  *)
(***************************************************************************)
EXTENDS Integers, Sequences, FiniteSets

CONSTANTS Nics,        \* names of devices of the host
          Vlans,       \* names vlanN of interfaces the router makes
          VlanId,      \* VlanId[v]: the N of vlanN, any number a request names
          Tags,        \* tags AddVlan requests name, 0 for none
          Trunks,      \* trunks AddVlan requests name, NoTrunks for none
          NoTrunks,
          BadTrunks,   \* those ovs-vsctl does not take for vlan ids: text, "all"
          NoPort,      \* no port of that name on the bridge
          MaxFaults,   \* bound: failing commands
          MaxCrashes,  \* bound: crashes
          MaxRequests, \* bound: requests
          MaxStops     \* bound: times ovs-vswitchd stops

Names == Nics \cup Vlans

ASSUME VlanAssumption ==
    /\ Nics \cap Vlans = {}
    /\ VlanId \in [Vlans -> Nat]
    /\ Tags \subseteq Nat /\ 0 \in Tags
    /\ BadTrunks \subseteq Trunks /\ NoTrunks \in Trunks \ BadTrunks
    /\ NoPort \notin [tag : 0..4095, trunks : Trunks]

VARIABLES
    ports,    \* the bridge's ports: NoPort, or [tag, trunks], 0 and NoTrunks if clear
    internal, \* ports whose interface has type internal: the switch makes the link
    place,    \* the namespace a link is in: "none", "root" or "vrr"
    running,  \* ovs-vswitchd is there
    waiting,  \* the command in progress has changed the database and waits for it
    request,  \* the handler that holds the mutex: what was asked, commands left
    answer,   \* what the last handler returned: "none", "ok" or "error"
    budget

\* What the properties need to know about the past.
VARIABLES
    retagged, \* vlan interfaces whose tag a vlan request has set or cleared
    hidden    \* a command failed and the handler went on as if it had not

bridge  == <<ports, internal, place>>
past    == <<retagged, hidden>>
vars    == <<bridge, running, waiting, request, answer, budget, past>>

MaxTag    == 4095  \* the columns of the database are bounded: tag,
MaxOfport == 65279 \* and ofport_request
Port == [tag : 0..MaxTag, trunks : Trunks \ BadTrunks]
Clear == [tag |-> 0, trunks |-> NoTrunks]

\* The commands, in the order the handlers issue them.
TagCommands(tag)       == IF tag > 0 THEN <<"attach", "set_tag">> ELSE <<>>
TrunkCommands(trunks)  == IF trunks # NoTrunks THEN <<"attach", "set_trunks">> ELSE <<>>
AddVlanCommands(tag, trunks) == TagCommands(tag) \o TrunkCommands(trunks)
DelVlanCommands(tag, trunks) ==
    (IF tag = 4095 THEN <<"clear_tag">> ELSE <<>>)
    \o (IF trunks = "all" THEN <<"clear_trunks">> ELSE <<>>)
\* Mutants of AddInterfaceCommands: a port that is not internal, and a link
\* that is moved before it is tagged.
PlainPort == <<"attach", "set_own_tag", "move">>
MoveFirst == <<"add_internal", "set_interface", "move", "set_own_tag">>
AddInterfaceCommands == <<"add_internal", "set_interface", "set_own_tag", "move">>

CommandNames == {"attach", "set_tag", "set_trunks", "clear_tag", "clear_trunks",
                 "add_internal", "set_interface", "set_own_tag", "move", "delete"}

NoRequest == [op |-> "none", name |-> "none", tag |-> 0, trunks |-> NoTrunks, todo |-> <<>>]

\* The types; a tag is one 802.1Q has, whatever a handler computes.
TypeOK ==
    /\ ports \in [Names -> Port \cup {NoPort}]
    /\ internal \subseteq Names
    /\ place \in [Names -> {"none", "root", "vrr"}]
    /\ running \in BOOLEAN
    /\ waiting \in BOOLEAN
    /\ request.op \in {"none", "add_vlan", "del_vlan", "add_interface", "del_interface"}
    /\ request # NoRequest => /\ request.name \in Names
                              /\ \A i \in DOMAIN request.todo : request.todo[i] \in CommandNames
    /\ answer \in {"none", "ok", "error"}
    /\ retagged \subseteq Vlans

Init ==
    /\ ports = [n \in Names |-> NoPort]
    /\ internal = {}
    /\ place = [n \in Names |-> IF n \in Nics THEN "root" ELSE "none"]
    /\ running = TRUE
    /\ waiting = FALSE
    /\ request = NoRequest
    /\ answer = "none"
    /\ budget = [faults |-> 0, crashes |-> 0, requests |-> 0, stops |-> 0]
    /\ retagged = {}
    /\ hidden = FALSE

-----------------------------------------------------------------------------
(* Requests *)

Accept(op, name, tag, trunks, todo) ==
    /\ request = NoRequest
    /\ budget.requests < MaxRequests
    /\ budget' = [budget EXCEPT !.requests = @ + 1]
    /\ request' = [op |-> op, name |-> name, tag |-> tag, trunks |-> trunks, todo |-> todo]
    /\ answer' = "none"
    /\ hidden' = FALSE
    /\ UNCHANGED <<bridge, running, waiting, retagged>>

AddVlan(name, tag, trunks) ==
    Accept("add_vlan", name, tag, trunks, AddVlanCommands(tag, trunks))

\* The tag is cleared for 4095 only, the trunks for "all" only.
DelVlan(name, tag, trunks) ==
    Accept("del_vlan", name, tag, trunks, DelVlanCommands(tag, trunks))

AddInterface(name) == Accept("add_interface", name, 0, NoTrunks, AddInterfaceCommands)

DelInterface(name) == Accept("del_interface", name, 0, NoTrunks, <<"delete">>)

-----------------------------------------------------------------------------
(* Commands *)

Fault == /\ budget.faults < MaxFaults
         /\ budget' = [budget EXCEPT !.faults = @ + 1]

Busy(command) == /\ request # NoRequest
                 /\ ~waiting
                 /\ request.todo # <<>>
                 /\ Head(request.todo) = command

\* The next command is due.
Done == request' = [request EXCEPT !.todo = Tail(@)] /\ UNCHANGED answer

\* The handler returns an error: no later command is issued.
GiveUp == request' = NoRequest /\ answer' = "error"

OnBridge(n) == ports[n] # NoPort

\* findVlanId and findPortId: any number, 0 for a name that is not vlanN.
OwnTag(n)  == IF n \in Vlans THEN VlanId[n] ELSE 0
OwnPort(n) == OwnTag(n) + 32768

\* A command that changes the database of a port that is there.
Write(n, row) ==
    /\ ports' = [ports EXCEPT ![n] = row]
    /\ waiting' = TRUE
    /\ Done

\* ovs-vsctl returns once ovs-vswitchd has taken the change over.
Return ==
    /\ waiting
    /\ running
    /\ waiting' = FALSE
    /\ UNCHANGED <<bridge, running, request, answer, budget, past>>

\* A command fails (of a move, the LinkByName before it).  Without a number
\* there is no own tag to set.
Fail(command) ==
    /\ Busy(command)
    /\ command = "set_own_tag" => OwnTag(request.name) > 0
    /\ Fault
    /\ GiveUp
    /\ UNCHANGED <<bridge, running, waiting, retagged, hidden>>

\* hasPort, then AddPort if the port is not listed.  A failed listing counts
\* as "not there", which --may-exist makes harmless.
Attach ==
    /\ Busy("attach")
    /\ LET n == request.name
       IN IF OnBridge(n)
          THEN Done /\ UNCHANGED <<ports, waiting>>
          ELSE Write(n, Clear)
    /\ UNCHANGED <<internal, place, running, budget, past>>

\* No handler looks at the tag, the trunks or the number of a request; the
\* columns of the database do.  What the earlier commands did stays: the port
\* of a refused tag, the tag of refused trunks, the link of a refused own tag.
Refused(command) ==
    CASE command = "set_tag"      -> request.tag > MaxTag
      [] command = "set_trunks"   -> request.trunks \in BadTrunks
      [] command = "add_internal" -> request.name \in Vlans /\ OwnPort(request.name) > MaxOfport
      [] command = "set_own_tag"  -> OwnTag(request.name) > MaxTag
      [] OTHER -> FALSE

Refuse(command) ==
    /\ Busy(command)
    /\ Refused(command)
    /\ GiveUp
    /\ UNCHANGED <<bridge, running, waiting, budget, retagged, hidden>>

SetTag ==
    /\ Busy("set_tag")
    /\ ~Refused("set_tag")
    /\ Write(request.name, [ports[request.name] EXCEPT !.tag = request.tag])
    /\ retagged' = retagged \cup ({request.name} \cap Vlans)
    /\ UNCHANGED <<internal, place, running, budget, hidden>>

\* Mutant of SetTrunks: the tag is lost.
SetTrunksOnly ==
    /\ Busy("set_trunks")
    /\ ~Refused("set_trunks")
    /\ Write(request.name, [Clear EXCEPT !.trunks = request.trunks])
    /\ UNCHANGED <<internal, place, running, budget, past>>
SetTrunks ==
    /\ Busy("set_trunks")
    /\ ~Refused("set_trunks")
    /\ Write(request.name, [ports[request.name] EXCEPT !.trunks = request.trunks])
    /\ UNCHANGED <<internal, place, running, budget, past>>

\* delVlanTag and delVlanTrunks look for the port first.  Not found, or not
\* listed because the command failed: nothing to clear, and no error.
NothingToClear(command) ==
    /\ Busy(command)
    /\ command \in {"clear_tag", "clear_trunks"}
    /\ \/ ~OnBridge(request.name) /\ UNCHANGED <<budget, hidden>>
       \/ Fault /\ hidden' = TRUE
    /\ Done
    /\ UNCHANGED <<bridge, running, waiting, retagged>>

ClearTag ==
    /\ Busy("clear_tag")
    /\ OnBridge(request.name)
    /\ Write(request.name, [ports[request.name] EXCEPT !.tag = 0])
    /\ retagged' = retagged \cup ({request.name} \cap Vlans)
    /\ UNCHANGED <<internal, place, running, budget, hidden>>

ClearTrunks ==
    /\ Busy("clear_trunks")
    /\ OnBridge(request.name)
    /\ Write(request.name, [ports[request.name] EXCEPT !.trunks = NoTrunks])
    /\ UNCHANGED <<internal, place, running, budget, past>>

\* The switch makes the link of an internal port that has none.
MakeLink(n) == place' = [place EXCEPT ![n] = IF @ = "none" THEN "root" ELSE @]

\* AddPortWith: --may-exist add-port -- set interface, in one transaction.
AddInternal ==
    /\ Busy("add_internal")
    /\ ~Refused("add_internal")
    /\ LET n == request.name
       IN /\ Write(n, IF OnBridge(n) THEN ports[n] ELSE Clear)
          /\ internal' = internal \cup {n}
          /\ MakeLink(n)
    /\ UNCHANGED <<running, budget, past>>

\* Set.Interface, the same options once more.
SetInterface ==
    /\ Busy("set_interface")
    /\ Write(request.name, ports[request.name])
    /\ UNCHANGED <<internal, place, running, budget, past>>

\* Mutant of SetOwnTag: the OpenFlow port of vlanN instead of its N.
SetPortId ==
    /\ Busy("set_own_tag")
    /\ request.name \in Vlans
    /\ Write(request.name, [ports[request.name] EXCEPT !.tag = OwnPort(request.name)])
    /\ UNCHANGED <<internal, place, running, budget, past>>

\* Set.Port with the N of vlanN; without one, or with 0, it all ends here.
SetOwnTag ==
    /\ Busy("set_own_tag")
    /\ ~Refused("set_own_tag")
    /\ LET n == request.name
       IN IF OwnTag(n) > 0
          THEN /\ Write(n, [ports[n] EXCEPT !.tag = OwnTag(n)])
               /\ retagged' = retagged \ {n}
          ELSE /\ request' = [request EXCEPT !.todo = <<>>]
               /\ UNCHANGED <<ports, waiting, answer, retagged>>
    /\ UNCHANGED <<internal, place, running, budget, hidden>>

\* LinkByName looks in the namespace of the process: a link that is not there,
\* because it has been moved before, is an error.
LinkGone ==
    /\ Busy("move")
    /\ place[request.name] # "root"
    /\ GiveUp
    /\ UNCHANGED <<bridge, running, waiting, budget, retagged, hidden>>

\* LinkSetNsFd, whose error is logged and not returned.
Move ==
    /\ Busy("move")
    /\ place[request.name] = "root"
    /\ \/ place' = [place EXCEPT ![request.name] = "vrr"] /\ UNCHANGED <<budget, hidden>>
       \/ Fault /\ hidden' = TRUE /\ UNCHANGED place
    /\ Done
    /\ UNCHANGED <<ports, internal, running, waiting, retagged>>

\* delPort: --if-exists del-port.  The switch destroys the link of an internal
\* port, whatever namespace it is in; a device of the host stays.
Delete ==
    /\ Busy("delete")
    /\ LET n == request.name
       IN /\ Write(n, NoPort)
          /\ internal' = internal \ {n}
          /\ place' = IF n \in Vlans THEN [place EXCEPT ![n] = "none"] ELSE place
          /\ retagged' = retagged \ {n}
    /\ UNCHANGED <<running, budget, hidden>>

\* Mutant of Answer: the mutex is not given back.
AnswerLocked ==
    /\ request # NoRequest
    /\ ~waiting
    /\ request.todo = <<>>
    /\ answer' = "ok"
    /\ UNCHANGED <<bridge, running, waiting, request, budget, past>>

\* No command is left: the handler returns nil and gives the mutex back.
Answer ==
    /\ request # NoRequest
    /\ ~waiting
    /\ request.todo = <<>>
    /\ request' = NoRequest
    /\ answer' = "ok"
    /\ UNCHANGED <<bridge, running, waiting, budget, past>>

-----------------------------------------------------------------------------
\* The process dies and is started again; the command it was waiting for ends.
Crash ==
    /\ budget.crashes < MaxCrashes
    /\ budget' = [budget EXCEPT !.crashes = @ + 1]
    /\ request # NoRequest
    /\ request' = NoRequest
    /\ waiting' = FALSE
    /\ answer' = "none"
    /\ UNCHANGED <<bridge, running, past>>

StopSwitch ==
    /\ running
    /\ budget.stops < MaxStops
    /\ budget' = [budget EXCEPT !.stops = @ + 1]
    /\ running' = FALSE
    /\ UNCHANGED <<bridge, waiting, request, answer, past>>

StartSwitch ==
    /\ ~running
    /\ running' = TRUE
    /\ UNCHANGED <<bridge, waiting, request, answer, budget, past>>

Command ==
    \/ \E c \in CommandNames : Fail(c) \/ Refuse(c) \/ NothingToClear(c)
    \/ Attach \/ SetTag \/ SetTrunks \/ ClearTag \/ ClearTrunks
    \/ AddInternal \/ SetInterface \/ SetOwnTag \/ LinkGone \/ Move \/ Delete
    \/ Return
    \/ Answer

Rest == \E n \in Names :
    \/ \E tag \in Tags, trunks \in Trunks : AddVlan(n, tag, trunks)
    \/ \E tag \in {0, 4095}, trunks \in {NoTrunks, "all"} : DelVlan(n, tag, trunks)
    \/ AddInterface(n)
    \/ DelInterface(n)

Next == Rest \/ Command \/ Crash \/ StopSwitch \/ StartSwitch

\* The handler goes on; nobody promises that ovs-vswitchd comes back.
Spec == Init /\ [][Next]_vars /\ WF_vars(Command)

-----------------------------------------------------------------------------
(* Properties *)

\* A link reaches the router's namespace on its own vlan only: whatever fails
\* or crashes, it is on the bridge and tagged before it is moved, and keeps
\* that tag until a vlan request changes it.
MovedIsTagged ==
    \A v \in Vlans : place[v] = "vrr" =>
        /\ OnBridge(v)
        /\ v \in internal
        /\ v \notin retagged => ports[v].tag = VlanId[v]
        /\ VlanId[v] > 0

\* What the request asked for is so.
Achieved(r) ==
    LET n == r.name
    IN CASE r.op = "add_vlan" -> /\ r.tag > 0 => OnBridge(n) /\ ports[n].tag = r.tag
                                 /\ r.trunks # NoTrunks => OnBridge(n) /\ ports[n].trunks = r.trunks
         [] r.op = "del_vlan" -> /\ OnBridge(n) /\ r.tag = 4095 => ports[n].tag = 0
                                 /\ OnBridge(n) /\ r.trunks = "all" => ports[n].trunks = NoTrunks
         [] r.op = "add_interface" ->
                /\ OnBridge(n)
                /\ OwnTag(n) > 0 => ports[n].tag = OwnTag(n) /\ place[n] = "vrr"
         [] r.op = "del_interface" -> ~OnBridge(n) /\ (n \in Vlans => place[n] = "none")

\* A request that is answered "ok" is done, unless a command failed whose
\* failure the handler does not see (hasPort) or only logs (LinkSetNsFd).  Of an
\* interface without a number from 1 on (eth1, vlan0) only the port is made: it
\* is not moved to the router, and that is no error.
AnsweredIsDone ==
    [][request # NoRequest /\ answer' = "ok" /\ ~hidden => Achieved(request)]_vars

\* A request is answered with an error only if a command failed, or if it asks
\* for an interface the router has already, or for a tag, an interface number or
\* trunks that the database has no room for.  Anything else can be repeated.
ErrorHasCause ==
    [][request # NoRequest /\ answer' = "error"
          => \/ budget' # budget
             \/ /\ request.op = "add_interface"
                /\ place[request.name] = "vrr" \/ OwnTag(request.name) > MaxTag
             \/ /\ request.op = "add_vlan"
                /\ request.tag > MaxTag \/ request.trunks \in BadTrunks]_vars

\* A handler gives the mutex back, unless ovs-vswitchd stays away: then its
\* command waits, and with it everyone who needs the mutex.
HandlersReturn ==
    (request # NoRequest /\ []<>running) ~> (request = NoRequest)
=============================================================================
