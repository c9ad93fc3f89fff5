# OpenVRR in TLA+

OpenVRR is a virtual router: it watches the routing state of the Linux kernel
through netlink, adds NAT rules and VLAN ports of its own, and programs the
result into the OpenFlow tables of an Open vSwitch bridge by running
`ovs-ofctl` and `ovs-vsctl`. These modules model what that process does, TLC
checks them on small instances, and TLAPS proves most of their safety properties
for every instance.

## 1. The system

| component | code | state | operations |
|---|---|---|---|
| **Gateway** | `pkg/vrr/gateway.go` | `forward` (IPForwards: prefix or host -> next hop, MAC, interface), `linkAttrs` cache, one mutex | `Init`, `Start`, REST callbacks, `OnNeighbor`, `OnRoute`, `OnAddress` |
| **Composer** | `pkg/vrr/switch.go` | flows of the bridge (in Open vSwitch), `other_config` of the bridge (in OVSDB, the only state that survives), `others` (its copy in memory) | `Init` (flush, base flows), `Start` (restore), `Add/Del` of routes, hosts, local addresses, SNAT, DNAT, ports |
| **KernelRegister** | `pkg/vrr/kernel.go` | three watchers: neighbours, routes, addresses | `Start` = list in main, then subscribe in a goroutine |
| **REST and HTTP** | `pkg/vrr/http.go`, `pkg/rest` | token | one handler per request, each ends in a Gateway callback |
| **ovs client** | `pkg/ovs/client.go`, `openflow.go`, `vswitch.go` | none | one process per command; flow bundles through pipes |
| **flow, match, action text** | `pkg/ovs/flow.go`, `match.go`, `action.go`, `matchflow.go`, parsers | none | marshal and parse |
| **port ranges** | `pkg/ovs/portrange.go` | none | `BitwiseMatch` |
| **datapath** | `pkg/ovs/datapath.go` | none (conntrack limits live in the switch) | get, set and delete conntrack limits |
| **statistics, traces** | `pkg/ovs/portstats.go`, `flowstats.go`, `table.go`, `proto_trace.go`, `app.go` | none | parse printed output |
| **command line** | `cmd/sub` | none | one HTTP request per command |
| **images** | `docker`, `dist` | containers ovsdb-server, ovs-vswitchd, frr, vrr | `restart: always` for frr and vrr only |

How they interact. netlink events, REST requests and start-up all end in the
Composer, which runs one command after the other. Events and requests hold the
Gateway's mutex; start-up does not. A command is atomic for Open vSwitch, an
operation of several commands is not: packets, crashes and start-up see the
states between them. The kernel and Open vSwitch wait for nobody.

What is hard here:

- *Every delete is loose.* `DelFlows` without `--strict` removes every flow
  whose match is at least as narrow as the one given, so an operation can
  reach flows of other operations. Whether it does is a question about sets of
  packets, and the answer differs per operation.
- *Three copies of a NAT rule*: flows, `other_config`, `others`. They are
  written by different commands, each of which may fail or never come, and
  some failures are ignored.
- *List, then subscribe*: what the kernel does in between is not learnt; a
  socket nobody reads in time overruns; list and events are handled by
  different goroutines.
- *Start-up races*: `Composer.Start` restores rules without the mutex while
  address events already arrive.
- *Commands that wait*: `ovs-vsctl` waits for `ovs-vswitchd`, which is not
  restarted, and holds the mutex meanwhile.
- *Text in the middle*: flows reach Open vSwitch as text and come back as other
  text. The writer knows more types than the reader, fields are cut to their
  width while reading, and the printed line is laid out differently. NAT rules
  survive a restart only as text in `other_config`; a reply holds stderr too,
  so that a warning can be any line of it.
- *Nobody is told*: when ovs-vswitchd is started again its tables are empty,
  and no part of the gateway notices.

What makes each component correct is stated in section 3, next to its runs;
the hazards behind the properties are listed line by line in `PROJECT.json`.

## 2. The modules

| module | models | extends |
|---|---|---|
| `FlowTable` | a flow table, a match as the set of packets it admits, `add-flow`, loose `del-flows`, lookup | |
| `Pipeline` | the tables 0, 10, 12, 19, 20, 30, the nine base flows, and for every operation the flow it adds and the match it deletes by | `FlowTable` |
| `RuleStore` | the promise: rules kept, listed and acting, one request at a time | |
| `Composer` | NAT rules, router addresses, start-up, storage, failures, crashes of the process, restarts of the switch; `INSTANCE RuleStore` | `Pipeline` |
| `KernelRegister` | the kernel's tables, netlink, the three watchers | `Pipeline` |
| `Gateway` | the event handlers, `forward`, `linkAttrs`, restarts | `KernelRegister` |
| `VlanPorts` | VLAN and interface requests as sequences of commands, the links and their namespaces, a switch that stops | |
| `FlowBundle` | `FlowTransaction`, `AddFlowBundle`, `shellPipe`, the child process and its pipes | |
| `PortRange` | `PortRange.BitwiseMatch` | |
| `MatchText`, `ActionText` | what each type of match and action is written as, and what a written one is read as | ; `MatchText` |
| `FlowText` | `AddFlow`, `DumpFlows`, `UnmarshalText`, `MatchFlow` and `DelFlows` on text, step by step | `ActionText` |
| `StatsText` | the readers of statistics, traces, conntrack limits and port records | |
| `RuleText` | NAT rules as keys and values, `other_config` printed and parsed, and back | |
| `Replies` | what the commands print while the switch changes, queries, listings in several commands, add, delete, list and restore of rules as text | `StatsText`, `RuleText` |
| `PipelineProofs` | lemmas about flows, matches and deletes | `Pipeline` |
| `ComposerProofs` | theorems about the Composer; that it implements `RuleStore`, and what follows | `Composer`, `PipelineProofs` |
| `RuleStoreProofs` | what `RuleStore` promises | `RuleStore` |
| `GatewayProofs` | theorems about the Gateway's tables and the kernel | `Gateway`, `PipelineProofs` |
| `VlanPortsProofs`, `FlowBundleProofs`, `PortRangeProofs`, `FlowTextProofs` | theorems about each | `VlanPorts`; `FlowBundle`; `PortRange`; `FlowText` |
| `MCComposer`, `MCGateway`, `MCVlanPorts`, `MCFlowText`, `MCReplies` | values for TLC | |

**FlowTable and Pipeline.** A match is a function from eight packet fields to
sets of values, the whole set where the code gives no match; a prefix, a
`ct_state` and a wildcard are all sets. "Covers", which decides a loose delete,
is then set inclusion in every field. The five connection states are the
classes the code's `+trk+new`, `+trk+est` and `+trk+rpl` tell apart.
Priorities, tables and actions are the code's. Adding a flow overwrites one
with the same table, priority and match. Flow text is left to `FlowText`.

**Composer.** One action is one command. `Boot`, `Flush`, `AddBase`,
`ListLocal`, `ReadConfig`, `PickKey`, `RestoreFlow` and `Serve` are
`Gateway.Init` and `Gateway.Start` in order; `Accept` is a handler taking the
mutex (`request` says which, and `pc` the command that is due); `FlowCommand`
is `addFlow` or `delFlows`; `Persist` is the last `ovs-vsctl` command together
with the assignment to `others`. `request # NoRequest` is the mutex. A command
that fails leaves the tables alone; what the code then does (answers an error,
or ignores it) is the second disjunct of each action. `Crash` forgets `others`
and the request, and keeps flows and `other_config`. `flushed`, `missing`,
`errored`, `touched` and `stale` are history: nothing but properties reads them.
`stale` holds the hairpin flows that are there without a redirection for reasons
the code has: a rule was given another target, which adds flows and removes
none; a rule was being added while its address was lost or the switch restarted.
`SwitchRestart` empties the tables at any moment and tells nobody.

**RuleStore** has no flows, tables, commands or start-up code. A key has an
effect (translate to this address, redirect to that one) that is kept, that is
listed for redirections, and that acts. `Begin`, `Work`, `End` and `GiveUp` are
a request; `Sweep` is everything else that may take effects away, but never
start one; `Crash`, `ComeUp` and `Serve` are a process that dies and comes up.
A key is in `doubt` once a command for it failed: then only what is kept is
certain. `Composer` maps to it by `Effect`, `Actor` and `Serving`: kept is what
`other_config` has, listed what `others` has, acting the first flow of a rule,
in doubt are `errored` and, until a flush succeeded, every key. Each of its
steps is a step of `RuleStore` or a stutter: the command that adds or removes
the first flow is `Work`, `Persist` is `End` (or `GiveUp` if ovs-vsctl failed),
a failing `FlowCommand` is `GiveUp`, an address that is lost and a switch that
restarts are `Sweep`, start-up is `ComeUp` until it is `Serve`.

**KernelRegister and Gateway.** `List` reads a table, `TakeListed` hands over
one entry, `Spawn` and `Subscribe` are two steps with the kernel running in
between. The kernel's changes are actions of their own and publish one event
each, as netlink does (a replaced route one for the new route only); but
`LinkDown` flushes the IPv4 routes through an interface and publishes nothing,
so that the watcher has missed them (the gateway watches no links). A full
socket makes the watcher deaf, as the closed channel of the library does.
A handler holds the mutex and runs one command, so it is one step. `lost`,
`faulted`, `shared`, `swept` and `moved` are history.

**VlanPorts.** A request is the sequence of the commands its handler has left.
A command that changes the database waits (`waiting`) for ovs-vswitchd.
`hasPort` is part of the command it guards, its failure included. No handler
looks at the tag, the trunks or the number in a name before it issues the
command; the database does, and `Refuse` is its answer to a tag beyond 4095, to
trunks that are no list of vlan ids, and to an OpenFlow port out of range. What
the earlier commands did stays (`Refused`). A name without a number has no tag
of its own, and its link is not moved.

**FlowBundle.** The callback may call `Add`, `Delete`, `Commit` and `Discard`
in any order. The process copies bytes: `Begin` is the moment at which some of a
line is in the pipe, `Copy` the one at which all of it is. The child reads
lines, executes at the end of its input, prints errors, exits; every pipe has a
capacity. The end of the input ends a line too: if the process dies between
`Begin` and `Copy`, the child reads what is there of the line (`ReadPart`),
whole, as another line (`whole` is false), or as none it understands.

**PortRange.** The recursion is a list of calls to make and blocks to append,
worked off from its head; `Width` is 16 in the code.

**MatchText, ActionText and FlowText.** Text is tokens: a number keeps the base it
is written in, since the parsers tell decimal from `0x`; an address is what
`net.ParseMAC`, `ParseIP` and `ParseCIDR` take it for; parentheses, commas and
arrows stay, for the parser of actions counts the first and its regular expressions
look for the others. `Marshals`, `FlowMarshals` and `ActionMarshals` are what
`MarshalText` refuses not; `Parses`, `MatcherReads` and `ParseAction` what the
parsers refuse not (`parseTCPFlags` a text whose length is no multiple of four,
`Characters`); `Wrapped` is the conversion to the field's type. White space is a
token (`Space`), for the regular expressions of actions take `\S+` and no more
(`Run`, `Farthest`). `FlowText` reads a line matcher by matcher (`ReadMatcher`) and
token by token (`ReadToken`, `EndAction`, `EndLine`), with the stack of
`actionParser` as `depth`. An entry of the bridge remembers in `means` the flow it
was written for; lines of others have one only if it is certain. `PrintedLine` is
how `ovs-ofctl` prints an entry (as quoted in `flow_test.go:778`), which moves the
table, the cookie and the timeout to the front, omits the default priority, and puts
a space after each comma there. `Names` is the set of words that are left words: all
of them, for the theorems. `Constructed` and `ConstructedAction` say what the
constructors of `match.go` and `action.go` can have made, which is what a caller can
ask for (`AskedAssumption`); lines of others (`Foreign`) are any sequences of tokens
at all. `Join` (`strings.Join`) and `Among` (what is at some places) are recursive
functions. `Selects` is the loose delete of ovs-ofctl: an entry goes if it is at
least as narrow in every field that is named (`Narrower`: an address in a network, a
value under a mask, more flags), where a protocol is the fields it is short for
(`InFull`: `tcp` is narrower than `ip`). Flags without a sign, and fields of
different names that share bits, are compared as they are written. `Places` and
`Where` are the regular expressions of `parseAction`, which are not anchored and
find the first place in the text.

**StatsText, RuleText and Replies.** A reply is a sequence of lines, a line a
sequence of fields, a field a word or a key with a value; where `parseEach`
appends two lines the fields that touch become one. A reader returns `Ok`, an
`Error` with what it had read, or `Panic` where the code indexes past the end.
`Replies` has four topics that share nothing but `client.exec`: *statistics*
(a query of a switch that holds one of many scenes), *limits* (`SetCTLimits`,
`DelCTLimits` and `GetCTLimits`), *interfaces* (`listPorts`, two commands a port,
while others set and remove ports) and *rules* (`AddRule`, `DelRule`, the
listings and `Restart`, where `rules` is the Nat table as slots and targets).
`Noisy` puts a warning before any line of a reply, or after the last one.
`Stride` is the number of lines `parseEach` takes for an entry. `ToKey`,
`SplitSNAT`, `SplitDNAT` and `ParseBind` work on the separators of a rule's text
as the code does; `ParseMap` gives up at the first piece without "=".
`held`, `wanted` and `fresh` are history. `TraceTruth` is what the documentation
says a trace's input flow is, the flow it begins with (`proto_trace.go:31` and
74); the code overwrites it with that of every later pass, which
`Recirculates` names as an exception. The versions of OpenFlow in the scenes are
1.0, 1.2, 1.3 and 1.4: the switch prints a port's duration from 1.3 on, `parseEach`
expects one from 1.1 on, so that a reply of 1.2 is cut in the wrong places.

## 3. What TLC checks

| run | instance | states | what it shows |
|---|---|---|---|
| `composer` | 3 addresses, 2 nested sources, a tcp and an icmp rule and a text without a port on one address, 2 targets; 1 fault or restart of the switch, 1 crash, 3 requests or events | 513 000 | below |
| `gateway_hosts` | a host on 2 vlans and another interface, 2 MACs, a router address; 3 kernel changes, 1 fault, 1 restart | 570 000 | below |
| `gateway_routes` | default route and a subnet, 2 gateways, main and local table, a vlan and another interface; 3 kernel changes, 1 fault, no restart | 728 000 | below |
| `vlan_ports` | a device and three vlans with numbers that are a tag, only a port, and neither; no tag, a good one and one out of range, good and malformed trunks; 3 requests, 1 fault, 1 crash, 1 stop of the switch | 474 000 | below |
| `flow_bundle` | 2 flows and a bad one, 2 calls of up to 2 flows, pipes of 1 line and a part of one more, up to 2 error lines, 1 death | 144 000 | below |
| `port_range` | all pairs of 5-bit ports | 8 000 | below |
| `flow_text` | a flow for every match type at both sides of its limits and for every action type, pairs of both, 192 flows with other fields, pairs of 24 flows and of 18 nested ones (protocols, networks, masks, flags) for deletes, 54 lines of others alone and between two good ones; read as written and as printed | 51 000 | below |
| `replies` | up to 3 ports, 3 tables and 3 passes of a trace, a warning in every place; 2 zones, 2 port names, 10 rules of every kind of text; 3 changes or requests | 7 000 | below |

`composer`:
`SkeletonKept` (no delete reaches a base flow), `ImplementsRuleStore` (the
refinement: no translation without its rule, no redirecting flow without its rule
or to an outdated target, what runs and what is listed is what a restart would
bring back, and no step but a request's own or a start makes a rule act; it looks
at the first flow of a rule, so that the hairpin and the un-SNAT flow of an
outdated target, which stay, are not its subject), `HairpinHasRedirect` (a hairpin
flow stands beside the redirection to its own target, in every state between
the commands of a rule, after every error and crash, except for those of
`stale`), `RestoredExactly` (a start without errors leaves exactly the
flows the configuration calls for, whatever an earlier process left),
`RedirectLossHasCause` (a step that removes a redirection is one of five kinds),
`EndsUpServing` (whatever fails, a process that stops crashing ends up serving, if
the commands of start-up return). That a request gives the mutex back is not
claimed: an `ovs-vsctl` may wait for ever (`HandlersReturn`, below).

`gateway_hosts` and `gateway_routes`:
`FibIsListed` and `RibIsListed` (tables and listing agree in every state),
`LongestPrefixWins` (priorities implement the kernel's lookup), `InSync` (a
watcher that has missed nothing and has handled everything agrees with the
kernel), `EventuallyInSync` (that agreement is reached and lasts when the kernel
rests, unless a command failed or an event was lost), `SkeletonKept`.

`vlan_ports`: `MovedIsTagged` (a link reaches the router's namespace on its own vlan
only), `AnsweredIsDone` (success means done, unless a failure was hidden by
`hasPort` or only logged), `ErrorHasCause` (a command failed, the link was not
there, or the database refused a number or trunks nobody had looked at),
`HandlersReturn` (the mutex comes back if ovs-vswitchd does).

`flow_bundle`: `AppliedIsAsked` (all of what the callback asked for, or
nothing), `AppliedIsCommitted` (only the first lines of what was committed are
executed; a process that dies in mid-copy may leave the last of them cut off,
which ovs-ofctl executes as it stands), `OkIsApplied`, `Returns` (the one way not to
return is a child that prints more than a pipe holds).

`port_range`: `Tiled` (at every point of the recursion the pairs and the work
left tile the range), `MatchesRange`, `Shortest` (no shorter list exists),
`Ends`.

`flow_text`: `RoundTrip` (a flow read is the flow meant, and a line with a
meaning neither fails nor panics), `SplitsAtTop` (the parser of actions splits
at commas outside of parentheses and nowhere else, and panics only at a
parenthesis that closes nothing), `DeletesWhatWasRead` (the `MatchFlow` of a flow
that was read deletes its entry, and besides it exactly the entries that are at
least as narrow in every field).

`replies`: `OkIsTruth` (what a query returns without an error is what the switch
held when the command printed it, what comes with an error is a first part of
it, a reply without a warning is read, only `GetCTLimits` panics, and only on a
warning; and a listing has every port that was there all the while once, with
what was so since it began), `RestoredIsAsked` (a new process has the rules that
were asked for and no others), `ListedIsDeletable` (what a client reads in a
listing it can delete in the same words).

**Exceptions in the properties.** Several properties are about keys without a failed
command (`errored`), watchers that missed nothing (`lost`), prefixes and hosts that
never had two entries at once (`shared`), prefixes whose flows a wider delete swept
away (`swept`), prefixes whose route was replaced by one off the vlans, or on a vlan
interface that was gone before it was ever looked up (`moved`), hairpin flows of an
earlier target, or of a rule that was being added while its address was lost or the
switch restarted (`stale`), flows without a match or action that is misread
(`Readable`: types the parsers do not know or take for others, numbers above an
`int`, no flags, the TCP flag `ns` with its sign, the text of a `ct` with white
space or its own parentheses unmatched, an argument of `load`, `set_field` or `move`
with white space, a comma, a parenthesis or an action in it), rules whose value has
a comma or whose redirection is of a prefix (`HasComma`, `Prefixed`), the line a
warning adds to a trace, and the input flow of a trace that recirculates
(`Excepting`). `Replies` calls a reply clear, that is, owed to be read, unless it is
of OpenFlow 1.1 or 1.2 or mixes ports with and without custom statistics (`Alike`),
has a warning, or holds what the readers do not know (`Known`). These are exactly
the cases in which the code does not do what one would want; each was found by TLC
as a counterexample to the property without it, and is among the hazards in
`PROJECT.json`.

**Bounds.** One fault and one crash reach every place where a fault or crash
can happen, since both may come at any command; effects of two faults in one
rule are the same as of the first, which ends the rule. Three requests suffice
for add, re-point and delete of one rule, or for two overlapping rules and a
delete. Three kernel changes make add-replace-delete and the nested-prefix
cases; a socket of two events overruns within them. All bounds are constants of
the modules; the theorems do not use them. Five bits give the recursion of
`BitwiseMatch` up to eight blocks. In `flow_text` 2^32 and 2^64 are 2^29 and
2^30, above every other limit in the code; lines are read one by one, so that
three lines show what an error does to those before and after it. In `replies`
three steps make two rules and a delete, or a port set, removed and set again
during a listing; a query reads one reply, so that every scene is one step.
`gateway_routes` has no restart, which would treble its states and put the
liveness property out of reach of a short run; `gateway_hosts` has one, and a
restart runs the same code for the three watchers.

**Fairness.** `Composer`: start-up alone. Compose restarts the container
(`restart: always`), and start-up's commands return, failed or not. That is a
premise and not the code's doing: the client has no timeout, and the first
`ovs-vsctl` of `NewComposer` waits for an ovs-vswitchd that must be there. Nothing
is assumed of the commands of a request. `Gateway`: main and
each of the three goroutines is scheduled; the kernel owes nothing.
`VlanPorts`: the handler goes on; `HandlersReturn` takes the return of
ovs-vswitchd as a premise, for compose does not restart it. `FlowBundle`:
process and child run, the callback owes nothing. `PortRange`: a sequential
program. `FlowText`, `Replies` and `RuleStore` state none.

**Where the code departs from its documentation.** Four runs expect a
violation; TLC's counterexample is the shortest scenario.

- `listed_redirects`: `README.md:73` says a DNAT rule redirects all traffic for
  its address. When the router loses that address, `DelLocal`
  (`switch.go:810`) removes the rule's flows too; the rule stays listed and
  stored, and the address's return does not bring it back.
- `stored_translates`: `README.md:69`. Removing a SNAT rule for a wide source
  removes the flows of narrower rules (`switch.go:491`).
- `translations_listed`: `cmd/sub/nat.go:84`, "List all snats". `AddSNAT` does
  not write the map `ListSNAT` reads (`switch.go:480`).
- `listed_programmed`: `README.md:14` and `cmd/sub/forward.go:36`. Deleting a
  wide route sweeps the narrower ones' flows (`switch.go:444`).

## 4. What TLAPS proves

Every theorem holds for all values of the constants that meet the assumptions,
of which none bounds a set or a counter: for every network, every set of rules,
requests and flows, any number of faults, crashes and restarts, any length of a
socket or a pipe, any width of a port.

| assumption | module | says | because |
|---|---|---|---|
| `AddrAssumption`, `PortAssumption` | `FlowTable` | there are two addresses and a port | a match of one address is narrower than one of all |
| `TextAssumption`, `NoneAssumption` | `Composer` | sources, targets and texts are made of addresses and ports; the null values are no keys, values or bindings | they are parsed; `nil` is none of them |
| `KernelAssumption`, `PrefixAssumption` | `KernelRegister` | vlan interfaces are interfaces, hosts are addresses, no MAC is no MAC; prefixes are nested or disjoint, the longer in the shorter | so are CIDR blocks |
| `ListingAssumption` | `Gateway` | the null value is no entry | `nil` is none |
| `VlanAssumption` | `VlanPorts` | devices and vlans differ in name; tags, and the N of a vlan's name, are naturals, in no range; some trunks are malformed, none at all are not | `findVlanId` looks for `vlanN`; nothing else is looked at |
| `BundleAssumption` | `FlowBundle` | a pipe holds a line, a flow that does not marshal is none that does | pipes have a capacity |
| `WidthAssumption` | `PortRange` | a port has a bit | 16 in the code |
| `WideAssumption` | `MatchText` | 2^20 < 2^32 < 2^64, whatever they are | the limit of an IPv6 label fits 32 bits |
| `NamesAssumption`, `ActionNamesAssumption`, `FieldNamesAssumption` | `MatchText`, `ActionText`, `FlowText` | the words the code itself writes are words | `Names` may hold any others |
| `AskedAssumption`, `ForeignAssumption` | `FlowText` | flows are made by the constructors, with a word for a protocol and an unsigned cookie; lines are lines | nothing else implements `Match` and `Action`; anyone may fill the bridge |

**Composer** (`ComposerProofs`).

- `TypeCorrect`: `Spec => []TypeOK`. `TypeOK` includes what start-up and a
  request have in hand (`BootOK`, `RequestOK`), which makes it inductive and
  gives the other proofs the shape of every rule in progress.
- `SkeletonStays`: `Spec => []SkeletonKept`, inductive together with `TypeOK`.
  The argument is about matches: a SNAT delete needs `+new` only, and a base
  flow admits other states; a DNAT delete names one protocol; an address delete
  names one address, and there are others (`SnatSparesBase`, `DnatSparesBase`,
  `LocalSparesBase` in `PipelineProofs`).
- `HairpinNeverAlone`: `Spec => []HairpinHasRedirect`. Before the hairpin flow is
  added the redirection must already be there: `HairpinInv` adds `Progress`,
  that between the first and the last flow of a rule, whoever adds them, the
  redirection to the target in hand is in the table, or its hairpin flow is in
  `stale`. Adding a flow takes no redirection, because they are in other slots
  (`AddKeepsRedirect`), but for the first flow of a rule, which takes those of the
  same rule to other targets; a hairpin flow is of one rule and one target
  (`OneHairpin`). A delete that reaches a redirection reaches its hairpin flows,
  because these match less (`DeleteTakesHairpin`).

**The refinement** (`RuleStoreProofs`, `ComposerProofs`).

- `ComposerImplements`: `Spec => ImplementsRuleStore`. Every initial state maps to
  an initial state of `RuleStore`, and every step to one of its steps or a
  stutter, action by action. The invariant is `RuleInv`: after the flush of a
  start only what is kept acts (`OnlyKeptActs`), what start-up has restored so
  far is listed and nothing is before (`ListedSoFar`, `NothingListed`), and from
  its first flow on a request leaves only its effect to act (`RequestActs`).
- `RulesKept` of `RuleStore`, without any assumption on its constants but that
  the null key is no key: outside of a request for it, a rule nothing failed for
  is listed as it is kept and does nothing else than what is kept. The invariant
  adds that while the process is not up nobody works on a rule.
- `OnlyConfiguredActs`: `Spec => []Rules!Kept`, from the two: that promise holds of
  the Composer's rules in every instance. It bounds what a rule does from above
  only: a rule may be listed and do nothing (`ListedRedirects`, `StoredTranslates`).
- `LossHasCause`: the action property `RedirectLossHasCause`, step by step from
  `TypeOK`: which deletes can cover a redirection is a question about matches.
- `StartRestores`: `Spec => []RestoredExactly`. The invariant `RestoreInv` says, for
  a start in which nothing failed so far, what the tables are at each of its
  stages, to the flow; flows that are wanted never share a slot (`WantedShare`),
  so that adding one replaces none.

**Gateway** (`GatewayProofs`), about three watchers whose events interleave freely.

- `TypeCorrect` (with `EventsOK`: a watcher's events are its own),
  `SkeletonStays`, `FibStaysListed`, `RibStaysListed`. The handlers are first shown to
  be one of six changes of the tables (`HandlerStep`), so that each invariant
  is proved over those.
- `LongestPrefixIsUsed`: `Spec => []LongestPrefixWins`, from `RibIsListed` and that
  route flows are of known prefixes; of two prefixes that hold an address the
  longer is within the shorter, hence higher.
- `StaysInSync`: `Spec => []InSync`. The property speaks of a watcher with nothing
  left to handle; the invariant has to say what the listing is before that.
  `WatcherInv` does so for every stage of a watcher: while it lists, the listing
  represents the entries handed over; once it watches, there is a sequence of
  tables, from the one the listing represents to the kernel's, of which each
  event in the socket tells one change (`Lags`). A handled event drops the first
  table, a new one adds the last; handlers of other watchers leave all as it is.
  The attempt showed that `moved` was stated too narrowly: a route replaced by
  one on a vlan interface that is gone before it was looked up is not handled
  either, and stays programmed. The model names that case now (`MovedOff`).

**VlanPorts** (`VlanPortsProofs`). The invariant `PortsInv` says, by the commands
a handler has left, what those before them have achieved (`AddVlanAt`,
`DelVlanAt`, `AddInterfaceAt`, `DelInterfaceAt`), unless a failure was hidden.

- `PortsTyped`, `MovedStaysTagged` (`Spec => []MovedIsTagged`), and the action
  properties `AnswersAreTrue` (`AnsweredIsDone`) and `ErrorsHaveCause`
  (`ErrorHasCause`), with `Unanswered`: a handler at work has not answered. The
  numbers and the trunks of requests are any at all, so that a refusal by the
  database is one of the causes, with what was refused.

**FlowBundle** (`FlowBundleProofs`).

- `BundleTyped`, `AppliesWhatIsAsked`, `AppliesWhatIsCommitted`, `OkMeansApplied`: the
  three safety properties. `BundleInv` says where process and child can be at the
  same time (`Together`), and that what the child has read, what is in the pipe
  and what is left to copy are what was committed, in this order (`Underway`).

**PortRange** (`PortRangeProofs`).

- `RangeTyped`, `StaysTiled` (`Tiled`), `MatchesExactly` (`MatchesRange`),
  `IsShortest` (`Shortest`), and `RefusesOnlyInvalid`: the safety half of `Ends`.
- The invariant `RangeInv`: the parts are a chain from end to end of the range;
  only the head may be a call, and then nothing has been returned and it still
  begins where the range does; every block is a longest window; of the windows
  that fit the call, every longer one than `size` has been tried and does not
  end at its end (`Tried`). From the last, the window found is a longest one
  (`LastWindow`): one that held it and were longer would end later, which the
  block to the right, longest itself, excludes. Two windows that share a port
  are one in the other (`Nested`), so that the result is the set of all longest.
- `Pow2` is a recursive function. That there is one that satisfies its
  equation is proved (`Pow2IsDefined`), by the smallest `n` up to which there is
  none; no induction theorem is needed.

**FlowText** (`FlowTextProofs`), about lines of any length, whoever wrote them.

- `TypeCorrect`: `Spec => []TypeOK`, that every number read fits the field it is
  kept in. `Types` is inductive: lines, flows read and the bridge are what they
  should be, which asks of every operator of the three modules where its values
  lie (`ReadValueFits`, `WithMatcherType`, `ParseActionType`, `FlowTextType`,
  `PrintedLineType`). Flows that were read and flows that were constructed are
  different sets (`ReadFlows`, `Asks`): a parser keeps values, a tag of any size
  and no flags at all among them, that no constructor makes.
- `SplitsOnlyAtTop`: `Spec => []SplitsAtTop`. The invariant `Splits` has four parts
  besides the types. `Lined`: the line being read is of the entry after those
  that were read, and the lines left are those of the entries after it. `Fresh`:
  nothing is read of the actions before the matchers are done. `Split`: what was
  read so far, a comma, the action being read and what is left make the text
  (`SplitAs`, in three cases: no action ended yet; one did, at a comma; one did,
  with the text, so that there is no comma). `Deep`: `depth` is the height of the
  action being read, every action that ended has height 0 and commas only
  inside, and a panic means a closing parenthesis at depth 0. A token moves from
  the left to the action being read (`SplitToken`), a comma at depth 0 ends it
  (`SplitAtComma`), the text ends the last one (`SplitAtEnd`).
- `RoundTripHolds` and `DeletesWhatWasReadHolds`: under `Faithful`,
  `Spec => []RoundTrip` and `Spec => DeletesWhatWasRead`. `Faithful` is about
  `means`, the label that says what a line of others is known to mean and that no
  action looks at: a line that has it says what `AddFlow` would have written for
  the flow, which marshals and was made by the constructors. Any text may stand
  between such lines, without the label. So the theorems are about every flow
  that this code writes, in any number, among lines of any kind; that other
  spellings of a value (a mask in decimal, `0xfff` for a VLAN, states without a
  sign, `normal`) are read as what they mean stays with the run.
  The inductive invariant is `Round` with `Placed`: besides `Splits`, entries say
  what they mean (`Meant`); nothing is read before a dump (`Unread`); the matches
  read are the first of those meant, what is left of the line has the rest, in
  order, between matchers that say what the other fields are, and each field is
  read or still to be said (`MatchersAre`), and the actions read are the first of
  those meant (`ActionsRead`, both in `OnTrack`); flows that were read are those
  that were meant but for how a value is spelled (`FlowsRead`, `SameFlow`); no
  entry with a meaning fails (`Succeeds`); a flow was read from an entry
  (`Placed`).
  It rests on two results. `MatchReread`: a match that marshals and is none of
  `MisreadMatch` is parsed without an error as itself, class of keys by class of
  keys (`DecimalReread`, `VlanReread`, `MaskedReread`, `PortReread`, `TypeReread`,
  `WordReread`, `FlagReread`), numbers over `DecAsHex` and `Wrapped` included.
  `ActionReread`: the text of an action that marshals and is none of
  `MisreadAction` is balanced, has commas only inside and is found again by the
  scan that is tried first, for each kind of action. `PrintedLineAre` and
  `WrittenLine` then say that a line as ovs-ofctl prints it, or as `MarshalText`
  wrote it, begins such a reading; `MatcherIsRead` and `ActionIsRead` that it goes
  on; `EndsAsMeant` that a comma, the end of the text or a closing parenthesis is
  met where the actions that were meant have it, and nowhere else. A delete
  follows because flows that agree are matched by the same matchers
  (`SameMatchFlow`), of which none has anything to trim (`MatchFlowIs`,
  `DeleteTextIs`), and an entry is at least as narrow as itself (`SelectsItself`).
- `Join`, `Among` and `DecAsHex` are recursive functions. That there are functions
  that satisfy their equations is shown by counting (`CountTo`, from the first
  number of a set, as for `Pow2`) in `Computed` and `ReadingsExist`; from then on
  `JoinOfMore` and `AmongIsTaken` are all that is used of them.

TLC agrees with the inductive invariants on the instances of section 3, except
`Round`, which quantifies over all places of a line and which it was not asked
for; with `SyncInv`, of which `Lags` quantifies over sequences of tables, on two smaller
ones (a host and an address, or a route, on a vlan and another interface).

Only model-checked, and why:

- liveness (`EndsUpServing`, `EventuallyInSync`, `HandlersReturn`,
  `Returns`, `Ends`): fairness and ENABLED are out of the prover's reach;
- `RoundTrip` of `FlowText` for lines that others spelled otherwise than
  `MarshalText` does: what each such spelling means is a table (`ForeignEntries`),
  not a rule that could be proved.
- the properties of `Replies`: they are about searches in and folds over
  sequences of lines, and what a fold computes for every sequence is an
  induction over data.

## 5. Not modelled

- The command line (`cmd/sub`): one HTTP request per command and the printing
  of its answer. HTTP routing, JSON and the token; the server's write timeout.
- Single commands without a result and that nothing in the gateway uses:
  `ModPort`, the commands for data paths, controllers and fail modes; the option
  lists of interfaces and bridges; `GoString` of matches and actions.
- Images and scripts beyond their restart policy, vendored libraries beyond the
  netlink behaviour `kernel.go` relies on.
- In the models: packets in flight and connection-tracking entries (flows are
  judged by what they match); netlink handles, of which `findLinkAttr` leaks one
  for every new interface (`gateway.go:206`).

## 6. Plan

1. *Core (done)*: `FlowTable`, `Pipeline`, `Composer`; `KernelRegister`,
   `Gateway`; `VlanPorts`; `FlowBundle`; `PortRange`; `FlowText`; types, skeleton and
   hairpin theorems.
2. *Extend (done)*: `RuleStore` and the refinement; a restart of ovs-vswitchd;
   `StatsText`, `RuleText`, `Replies`.
3. *Prove (done)*: the refinement and what follows from it; every safety
   property of `Composer`, `Gateway`, `VlanPorts`, `FlowBundle` and `PortRange`;
   every property of `FlowText`.
4. *Left*: other spellings in `RoundTrip`; an abstract specification of the Gateway
(the kernel's routes, delayed) that `InSync` is a consequence of.
