# TLA+ specification of miniupnp

This directory holds a formal model of the miniupnp repository: the gateway daemon
`miniupnpd` (port mappings with their firewall backends, lease files and
permissions; SOAP, NAT-PMP and PCP; IPv6 pinholes; GENA eventing; HTTP; SSDP), the
SSDP listener `minissdpd`, and the client library `miniupnpc` (search, HTTP and SOAP,
choice of a gateway). TLC checks small instances; TLAPS proves the main safety
properties of the eventing, the port mappings, the PCP epoch, the pinholes and the
choice of a gateway for every value of the constants.

## The system

All programs are single threaded; the daemons turn around one `select()` loop. What
makes them hard is not shared memory but *interleaving of handlers with state
kept between two turns of the loop*, the *partial failure* of operations that touch
several stores (kernel tables, lists in memory, files), *timeouts* derived from
cached minima, *streams and datagrams* that are cut, delayed or lost, and
*restarts*.

| Part | State | Operations | Interacts with | What makes it correct |
|---|---|---|---|---|
| Port mapping core (`upnpredirect.c`) | lease file, `nextruletoclean_timestamp`, counter snapshot | add, update, delete, both sweeps, reload | backend below; SOAP, NAT-PMP, PCP above; eventing | one owner per port, leases end, what was promised is there, restarts lose nothing |
| Permissions (`upnppermissions.c`) | none | first matching line, bitmap of ports | core, SOAP | every mapping is one the rules allow |
| iptables backend (`netfilter/iptcrdr.c`) | nat, filter, mangle chains, `rdr_desc_list` | add, delete, update; PEER and DSCP rules | kernel tables, each committed on its own | the stores agree after any failure |
| Other backends (`pf`, `netfilter_nft`, `ipf`, `ipfw`) | rules, own lists, cache (nftables) | the functions of `commonrdr.h`, pinholes | kernel | each is the table `commonrdr.h` describes |
| SOAP actions (`upnpsoap.c`), NAT-PMP (`natpmp.c`) | none of their own | map, unmap, ranges | core, pinholes | the answer says what happened |
| PCP (`pcpserver.c`) | nonces in descriptions, epoch | MAP, PEER, SADSCP, ANNOUNCE | core, pinholes | ownership by nonce, retries are harmless, clients notice a loss of state |
| Pinholes (`upnppinhole.c`, `iptpinhole.c`) | list with uid and expiry, lease file, chain | add, update, delete, find, clean, reload | SOAP, PCP | unique ids, rules match the list, leases last and end |
| Eventing (`upnpevents.c`) | subscriber and notification lists, mutual pointers | subscribe, renew, unsubscribe, notify | HTTP server, core, sockets | no dangling pointer, consecutive SEQ, everything is reclaimed |
| HTTP server (`upnphttp.c`) | buffer and state per connection | read, parse, answer, send | SOAP, eventing | an action runs once, on the whole body; connections are given back |
| SSDP (`minissdp.c`), delayed datagrams (`asyncsendto.c`) | send queue, timer | announce, answer, schedule, retry | sockets, clients | a running daemon does not expire, searches find it |
| `minissdpd` | devices, services, clients with output buffers | SSDP in, requests and notifications on a Unix socket | `miniupnpd`, clients | streams stay well formed, followers know the lists, nothing waits for ever |
| Client library (`miniupnpc`) | one call at a time | search, download, command, choice of a gateway | gateways | a call ends, returns what it received, reports what happened, leaks nothing |

## Modules

**Port mappings**

* `IptcRdr`: the iptables backend as operators on a record of chains and
  `rdr_desc_list`. Every operation takes the set of steps that fail during the call,
  because the code opens, changes and commits each table separately and does not roll
  back; a deletion and the addition after it fail separately. Operators have the names
  of the C functions, here and everywhere.
* `Permissions`: the permission lines (`upnppermlist`), the first match, and the bitmap
  by which `AddAnyPortMapping` searches, in words of `WordBits` ports.
* `UpnpRedirect` (extends both): `upnpredirect.c`, the four SOAP actions and the NAT-PMP
  requests that change mappings, both sweeps, the lease file and restarts. `fw` is the
  firewall, `lease` the lines of the lease file, `next` is `nextruletoclean_timestamp`.
  A handler that deletes several mappings puts them in `todo` and `DeleteNext` takes
  them one by one: time, traffic and a crash can come in between, other handlers cannot.
  `granted` (history) is what the last answer told the client about a key; `used`
  records traffic.
* `PcpServer` (extends `UpnpRedirect`): every PCP request with its checks and options,
  the answers with their epoch, the announcements, restarts and changes of the external
  address. `holder` and `believed` (history) are what the clients know: the nonce each
  key was granted with, and the epoch of the last answer.
* `Firewall`, `PfRdr`, `NftRdr`, `IpfRdr`, `IpfwRdr`: the other backends as operators on
  one record of rules, lists and cache. The nftables rules are the lists of expressions
  that are sent to the kernel and decoded when read back. A pass rule carries the remote
  host of its mapping and, as its label, the description; a pinhole is recognised by its
  label (`Labels` are the descriptions that read as one). `Backends` is the daemon on
  any of them, with changes the kernel refuses, rules that cannot be read (`Searches`;
  "find" is the search of `upnp_redirect`) and restarts. `RdrTable` is the abstract
  specification: one row per key, a request touches its own row only and its answer is
  true. `Backends` shows that the four implement it (`ImplementsTable`): the row of a
  key is what the kernel does with its packets, with the description and expiry the
  daemon would report.

**Pinholes, eventing**

* `Pinholes`: pinhole list, `next_uid`, the chain, the lease file with its
  rewriting functions, SOAP actions, PCP MAP requests of IPv6 clients, sweep, restart.
  `granted` (history) is never reset: a restart keeps what clients were told. `saved` are
  the flows whose line in the lease file is still their own, `owed` those a restart must
  bring back.
  `pc` tells a process that serves from one that reloads, hangs or died of a null
  pointer.
* `UpnpEvents`: `upnpevents.c` in the `select()` loop. Memory is the status of
  each structure, so a dangling pointer is a reachable state rather than undefined
  behaviour. The outcome of each socket call is chosen freely.

**Discovery**

* `AsyncSendto`: the queue of delayed datagrams as operators on a list, shared by
  the next two.
* `MiniSSDPd`: `minissdpd` with its clients: `miniupnpd` submitting its
  services, programs that look up, programs that follow notifications; reads and
  writes of any size, announcements, expiry, failing allocations. A write to a client
  that has left raises `SIGPIPE`, which ends the daemon.
* `MiniSSDP`: NOTIFY sets with copies and timer, byebye, answers to M-SEARCH with
  their delays. `Discovery` composes it with a control point that keeps what it hears
  and with `ssdpDiscoverDevices()` of the client library. All times are relative,
  so that the states are finite without a bound on the clock.

**HTTP and the client library**

* `UpnpHttp`: a connection of the daemon: `struct upnphttp` and its handlers.
  `MiniWget`: the response reader of the client. `UpnpCommands`: what each
  command reports for a response. `HttpExchange` composes them over a TCP stream
  that may be cut anywhere, with daemons, gateways and control points of another make.
* `ValidIGD`: `UPNP_GetValidIGD()` and `UPNP_GetIGDFromUrl()`: each question to a
  device is a step, may stay without answer, and what the device would answer may
  change before the next. `told` (history) is what each service answered.

**Proofs**

* `Lists`: a recursive function, `Sublist`, for the lists that handlers filter;
  `ListLemmas`: what it, concatenation, removal and replacement do to the elements and to
  how often each occurs.
* `UpnpEventsProofs`, `UpnpRedirectProofs` (with the epoch of `PcpServer`),
  `PinholesProofs`, `BackendsProofs`, `MiniSSDPdProofs`, `ValidIGDProofs`:
  the theorems of these modules, see below. `UpnpRedirectProofs` starts with what each
  operation of `IptcRdr` does to the chains and to `rdr_desc_list`, whichever of its steps
  fails; `NftRdrProofs` does the same for `NftRdr` and its cache, and `BackendsProofs`,
  which extends it, for `PfRdr`, `IpfwRdr` and `IpfRdr`.

The `MC` modules give the constants their values for TLC. Operators with a suffix
(`del_redirect_desc_None`) are deliberate slips of the operator they precede;
no specification uses them, each shows that a property notices the mistake.

## Runs

| Run | What it shows |
|---|---|
| `events` | two subscribers, two notification cells, failing allocations: pointers are consistent, SEQ is consecutive; lapsed subscribers and all notifications are reclaimed, each subscriber gets its first event |
| `redirect_safety` | two clients, two ports, SOAP and NAT-PMP, expiry, one request in which an addition fails, or a deletion that takes its nat rule away or says that it failed: one rule per port, no stale description |
| `redirect_grants` | no table fails, but the daemon may die between requests and come back, with or without the chains; four permission lines: clients have exactly what they were told and nothing the rules refuse, ACCEPT rules match redirections, lease lines have a rule |
| `redirect_expiry` | NAT-PMP leases with renewals, deletions, traffic and changes of the external address: every lease ends |
| `redirect_renewal` | *violated*: `upnp_redirect` renews a mapping without lowering `nextruletoclean_timestamp`; a permanent mapping that gets a duration is never removed |
| `pcp` | two clients with MAP, PEER, ANNOUNCE and malformed requests, NAT-PMP beside them, and a flow or two upsets, each a restart or a change of the address: a mapping stays with its nonce for its lifetime unless a PEER flow was given its port or its client was told that it is gone, a repeated request keeps its port, and every client whose mappings were lost learns it from the epoch |
| `pinholes` | two clients, SOAP and PCP, a refused ip6tables call, a restart, two ids so that `next_uid` wraps: the chain has exactly the rules of the list, a pinhole lasts as long as its client was told, over the restart too if its line is still its own, expired ones are closed |
| `backends` | on each of four backends: refinement of `RdrTable`, pass rules follow redirections, the nftables cache is the kernel's rules, listings agree, pinholes and mappings stay apart |
| `minissdpd` | whole messages in order on every connection, followers know the lists, buffers drain, datagrams leave |
| `discovery` | a running daemon never expires for a control point, whatever three of its datagrams suffer; an undisturbed search finds it; searches end in time, each repeated answer counted, and return no device twice |
| `http` | every query command, eight kinds of request of other control points, four kinds of response, cut at any byte: buffers are not overrun, bodies are intact, no failure is reported as success, no action runs early or twice, every connection is given back |
| `valid_igd` | two devices of any kind with none to three services: the best gateway is chosen when nothing goes wrong, a value of 1 speaks of one service only, no URL is leaked |

**Bounds.** *Redirections*: two clients and two ports are the least with which requests
conflict and a search for another port succeeds; two internal ports let a mapping move.
Durations 0 and 1 with a clock up to 2 (to 1 for grants; 1, 2 and 3 for expiry) let
leases expire, be renewed and outlive each other; `MaxLease` bounds the end of the
leases asked for, so that each can end before the clock stops. One failing call
(`MaxFaults`) breaks two stores apart, and the handlers after it run on what it left.
`Week` stands for the 604800 seconds of a SOAP lease of 0 over `AddAnyPortMapping`; it
is one of the durations. *PCP*: three ports, of which one is reserved and any may be
that of a flow; two upsets (`MaxUpsets`) or one PEER rule (`MaxPeers`), not both in one
behaviour (`CONSTRAINT FlowsOrUpset`); the answer just sent is left out of the state's
identity (`VIEW`), which is sound as it is read by the action property of the step that
writes it only. *Pinholes*: two flows and two ids are the least for which a wrapped id
can collide. *Events*: two cells let an orphaned notification coexist with another;
`MaxVersion` bounds the changes of the variables. *Backends*: two ports, four mappings
to two hosts, one failing request, one restart. *minissdpd*: a
device with locations of two lengths, sockets and reads of one to three units, so that
every message is cut. *Discovery*: intervals of 3 units against copies after 1 keep the
order of the real ones; `MaxRepeats` bounds the repeated answers, as each one prolongs a
search. *HTTP*: request buffers that grow by doubling below `DoubleLimit` and by a step
above it, answers longer than the socket takes, two addresses of which the first may
fail. *ValidIGD*: two devices and two services make every round and the swap happen, a
third service (`MaxServices`) is the first that the parser overwrites; two upsets let a
device change its mind between two rounds.

**Fairness.** `UpnpRedirect`: each turn of the loop looks at
`nextruletoclean_timestamp` before it serves requests, so `CleanExpiredRules` is
strongly fair; a loop of deletions and the reload run to their end, and time passes.
`UpnpEvents`: the loop turns for ever and `select()` has a finite timeout. That
each connection in the end delivers or fails is an assumption about the *peers*,
not about the code: there is no receive timeout. `Pinholes`: the process reads its
lease file to the end and the loop comes back to the sweep. `MiniSSDPd`: the
loop writes what `select()` reports as writable, clients read. `HttpExchange`:
the client and the loop make their next step, control points of another make
leave in the end.

**Clock.** `unsigned int` timestamps wrap at `Word`; the runs choose it beyond the
clock. With `Word = 4` and `MaxTime = 2` in `RedirectGrants.cfg` TLC violates `GrantHonoured`.

**Type invariants** are run for the modules in which they say more than types
(`UpnpEvents`, `UpnpRedirect`; `Discovery`: no device twice in a list; `HttpExchange`:
no buffer overrun). Those of `Pinholes`, `MiniSSDPd`, `Backends` and `PcpServer` hold in
their runs too; the types the proofs of `Pinholes`, `MiniSSDPd` and `ValidIGD` need are in
their inductive invariants.

## Known deviations

Properties that comments or documents of the repository state and the code does not
have, and limits of what the runs claim. The first is the run `redirect_renewal`; where a
configuration is given for the others it yields TLC's counterexample, with the change
given if there is one. `RedirectReplace.cfg`, `RedirectAccept.cfg`, `BackendsRemote.cfg`
and `DiscoveryByebye.cfg` are kept for that only.

| Property | Configuration | What happens |
|---|---|---|
| `LeaseEnds` | `RedirectRenewal.cfg` | see the run |
| `UsedRulesKept` | `RedirectGrants.cfg`, `MaxPkts = 1` | the unused sweep compares with the counters of whatever rule has the port now; a renewal has reset them (`upnpredirect.c:713`, "remove the rule if no traffic has used it") |
| `EveryChangeNotified` | `Events.cfg`, `Subs = {s1}` | a change during a NOTIFY already printed is never sent (`upnpevents.c:236`, "notifies all subscriber") |
| `SpaceExhaustedAnswered` | `PinholesSafety.cfg`, `MaxUid = 1` | the search for a free id does not end (`upnppinhole.c:623`, "-1 Pinhole space exhausted") |
| `RemovedForGood` | `PinholesSafety.cfg` | `lease_file6_update` gives every line one id; a pinhole deleted later comes back at the next start (`upnpsoap.c:2273`, "successfully removed") |
| `EpochTells` | `Pcp.cfg`, `SysUptime = TRUE` | with `system_uptime=yes` the epoch goes on over a restart (`natpmp.c:249`) |
| `SubmittedRegistered` | `MinissdpdSafety.cfg`, `Services = {"s1", "s2"}`, `Known <- TwoServices` | a request cut by the buffer closes the connection, the remaining services are lost (`minissdp.c:1556`, "register services") |
| `GoneAfterShutdown` | `Discovery.cfg` | copies of `ssdp:alive` leave after `ssdp:byebye` (`minissdp.c:1470`, "UPnP is going down") |
| `OneRulePerPort` | `RedirectReplace.cfg` | NAT-PMP deletes its mapping and adds it again (`natpmp.c:384`, "remove and then add again"); a deletion that leaves the nat rule and reports success (`iptcrdr.c:888`, `1054`) gives the port two rules |
| `OwnAcceptRule` | `RedirectAccept.cfg` | of two mappings to one endpoint for different remote hosts, deleting one may take the ACCEPT rule of the other (`iptcrdr.c:907`; `896`, "we must find the right index for the filter rule") |
| `RulesPaired` | `BackendsRemote.cfg` | the same on pf and nftables: the pass rule is found by its endpoint (`obsdrdr.c:1377`, `nftnlrdr.c:348`), although it carries the remote host (`nftnlrdr.c:309`, "Clear all rules corresponding eport/proto") |
| `ByebyeFirst` | `DiscoveryByebye.cfg` | a byebye of the start-up that the socket refuses with `EAGAIN` is queued (`asyncsendto.c:113`) and leaves after the first `ssdp:alive` (`miniupnpd.c:2582`, "MUST broadcast an ssdp:byebye before sending the initial ssdp:alive") |
| `ImplementsTable` | `Backends.cfg`, "find" among `Faults` | a search that cannot read the rules answers "not found", and `upnp_redirect` adds a second rule for the port (`nftnlrdr.c:608`, `obsdrdr.c:1007`, `ipfwrdr.c:249`) |
| `PinholesApart`, `RulesPaired` | `Backends.cfg`, `Labels <- OneLabel`, `Wants <- LabelledWants` | a mapping described as `pinhole-1 ts-1: x` has a pass rule that is swept, or deleted, as a pinhole (`pfpinhole.c:578`, `nftpinhole.c:466`) |
| (table of IPFilter) | `Untracked`, `literal` | deleting one IPFilter description loses those in front of it (`ipfrdr.c:129`), so the table takes descriptions and expiries for unknown; a mapping open to all remote hosts is shown with the address 0.0.0.0 (`ipfrdr.c:384`), so that its renewal is answered -2 |
| (`MapHonoured`) | | the deletion of a PEER flow removes the redirection of its external port, whoever has it (`pcpserver.c:918`); a renewal while forwarding is disabled deletes the mapping, of which the client hears NO_RESOURCES (`pcpserver.c:1021`) |
| (`PermittedOnly`, `GrantHonoured`) | | NAT-PMP asks permission for "NAT-PMP" (`natpmp.c:354`) and stores "NAT-PMP port proto" (`natpmp.c:397`), which the reload asks with: a line whose expression tells the two apart refuses at the restart what it had allowed |
| (`GrantsHonoured`) | | a lease does not survive a restart when a renewal, or an addition whose line has the same prefix, has rewritten its line in the lease file (`upnppinhole.c:298`, `338`): it is not in `owed` then |
| (`SearchInTime`) | | a repeated answer goes back to `receivedata()` without a look at the clock (`minissdpc.c:978`): a device that repeats itself for ever keeps the search for ever; the bound is per repeated answer |
| (`GatewayChosen`) | | of the connection services of a description the parser keeps the first and the last (`igd_desc_parse.c:56`); those between are never asked |
| (`minissdpd`) | | a client that leaves before its answer or a notification is written ends the daemon for everybody: `SIGPIPE` is not ignored (`minissdpd.c:1392`) |
| `SuccessMeansDone` | `HttpExchange.cfg`, `Scenarios <- UpdateCommands` | commands without out argument report success for an error page or a cut fault (`upnpcommands.h:29`) |
| `ContentIntact` | `HttpExchange.cfg`, `Scenarios <- ChunkExtensions` | a cut inside a chunk extension changes the size of the chunk |

Two configurations hold where the runs do not look. `RedirectDescs.cfg`: `NoStaleDesc` with
every failure of a deletion, as proved. `BackendsSearches.cfg`: the rules cannot be read,
twice, the search of `upnp_redirect` included, and a description is a pinhole's label;
`CacheFresh` still holds, and no request touches the redirections of another port
(`KeepsOthers`).

Further experiments with the constants are in the notes of the hazards in
`PROJECT.json`.

## Proofs

Every theorem is about the specification TLC runs, for any finite or infinite sets of
clients, ports and devices, any number of failures and restarts, and any length of
time. The runs show the same properties on the bounds above.

| Theorem | Property | Hypothesis |
|---|---|---|
| `UpnpEventsProofs!TypeCorrect` | `TypeOK` | |
| `UpnpEventsProofs!NoDanglingPointer` | `PointersConsistent` | |
| `UpnpEventsProofs!NumbersConsecutive` | `SeqConsecutive` | |
| `UpnpRedirectProofs!TypeCorrect` | `TypeOK` | |
| `UpnpRedirectProofs!OneRuleAlways` | `OneRulePerPort` | `LookupsWork`, `RemovalsWork` |
| `UpnpRedirectProofs!DescsNeverStale` | `NoStaleDesc` | `LookupsWork` |
| `UpnpRedirectProofs!LeaseLinesBacked` | `LeaseLineHasRule` | `LeaseFileWorks` |
| `UpnpRedirectProofs!RulesAreGranted` | `OnlyGranted` | `NoFaults` |
| `UpnpRedirectProofs!RulesArePermitted` | `PermittedOnly` | `NoRegex` |
| `UpnpRedirectProofs!AcceptRulesMatch` | `AcceptPerRule` | `NoFaults` |
| `UpnpRedirectProofs!GrantsKept` | `GrantHonoured` | `Benign` |
| `UpnpRedirectProofs!EpochCorrect` | `EpochTells` | `~SysUptime` |
| `PinholesProofs!ListAndChainAgree` | `ListMatchesChain` | `"calloc" \notin Failures` |
| `PinholesProofs!GrantsAlwaysHonoured` | `GrantsHonoured` | |
| `BackendsProofs!BackendsImplementTable` | `ImplementsTable` | `FindsWork`, `PlainDescs` |
| `BackendsProofs!CacheIsFresh` | `CacheFresh` | `FindsWork`, `PlainDescs` |
| `BackendsProofs!PinholesAreApart` | `PinholesApart` | `FindsWork`, `PlainDescs` |
| `BackendsProofs!Inductive` | | `FindsWork`, `PlainDescs` |
| `BackendsProofs!RulesArePaired` | `RulesPaired` | `FindsWork`, `PlainDescs`, `OneRemote` |
| `BackendsProofs!ListingsTrue` | `ListingsAgree` | `FindsWork`, `PlainDescs` |
| `BackendsProofs!QuietInductive` | | `FindsWork`, `PlainDescs` |
| `MiniSSDPdProofs!FramesNeverTorn` | `FramesIntact` | `"buffer" \notin Failing` |
| `MiniSSDPdProofs!FollowersAlwaysKnow` | `FollowersKnow` | `"buffer" \notin Failing` |
| `ValidIGDProofs!BestGatewayChosen` | `GatewayChosen` | |
| `ValidIGDProofs!UrlsNeverLeak` | `UrlsFreed` | |

**Hypotheses.** Beside the named assumptions of the modules, which TLC evaluates, a
theorem has the hypothesis the code needs.
`LookupsWork`: `get_redirect_rule()` answers -1 both for a free port and for a
table it cannot open, so a failing search leads to a second rule. `RemovalsWork`: where
NAT-PMP replaces a mapping, a deletion that leaves the nat rule does not say that it
succeeded (`RedirectReplace.cfg` has one that does). `LeaseFileWorks`:
a line that cannot be removed stays. `NoFaults`: a half-done addition or deletion
leaves a rule nobody was told of, or one without ACCEPT rule. `NoRegex`: the
property judges a rule by the description it has now, and the chains outlive a
restart while `rdr_desc_list` does not; a line that looks at descriptions may then
refuse what it accepted.
`Benign`: `NoFaults`; no WAN change (a NAT-PMP renewal while forwarding is
disabled deletes the mapping); no second crash before the reload is finished (the old
lease file is unlinked first); the clock does not wrap in the lease file
(`NoWrap`); and no permission line tells the word NAT-PMP asks with from the
description it stores (`NatpmpAlike`). `FindsWork`: `upnp_redirect()` can read the rules;
all other searches may fail. `PlainDescs`: no description asked for reads as the label of
a pinhole. `OneRemote`: the mappings asked for to one internal endpoint have one remote
host. The deviations above show what happens without. `~SysUptime`: with `system_uptime=yes` the epoch goes on over a
restart. `"calloc" \notin Failures`: `add_pinhole` commits the rule before it
allocates the entry. `"buffer" \notin Failing`: when the buffer of a connection cannot
be allocated `sendNotifications` drops the end of the notification and keeps the
connection, so that the stream is torn.

**Eventing.** `PointersConsistent` is inductive together with `TypeOK`. Its two halves
(the notification's subscriber points back, the subscriber's notification points
back) need each other: a removal follows one pointer to cut the other. The argument
reduces each step to what it does to a single pair (`PointersCellwise`): a step that
frees a cell also clears the pointer of its subscriber, a step that frees a
subscriber clears that of its cell, and a creation uses free cells injectively
(`AllotmentFacts`, `CreatedFacts`, `PointersCreate`). `SeqConsecutive` needs `SeqInv`
in addition: what a cell is about to send is the number its subscriber expects
(`SendingNext`), and no two cells print for one subscriber (`OneBufferEach`).

**Port mappings.** `StepKinds` reduces the whole next-state relation to a few kinds of
step: some operations of the backend with the lines they add or remove, one deletion of a
list, one line of the reload, a restart, and steps of the environment. The invariants are
proved over the kinds, from what each operation does under each set of failures:
`TidyInv` (unique keys in the nat chain and in `rdr_desc_list`, each entry with a rule);
`LineInv` (the lines have rules; with half-failed additions this does not need one rule
per port); `KnownInv` (rules, lease lines and lines still to be reloaded belong to
clients that were told); `AllowedInv` (each rule passes the permission lines, whatever
its description); `BalanceInv` (redirections and ACCEPT rules to an endpoint are
equally many, a counting argument over sequences: an operation removes *an* ACCEPT rule
of the endpoint, not its own); `GrantInv` (for every promise there is a line that keeps
it: the rule with its target now, and the line in the lease file, or among those still
to be read, with an end no earlier than promised, also in the unsigned arithmetic of the
file).

**PCP.** `EpochInv`: the origin a client computes from the last epoch it heard is no
earlier than the last loss of state it could have heard of.

**Pinholes.** `PinholesInv`: identifiers and flows are distinct and each pinhole has a
rule (`Sound`, whatever fails); each rule has a pinhole (`Exact`, unless `calloc()`
failed or the search for an identifier hangs); what is owed and not ended is open
(`Kept`), also between two lines of the reload (`Due`): for that the line of every saved
flow says when its lease ends (`Written`) and has the id of its pinhole (`OwnUids`),
without which a deletion or an update of another pinhole would change it. `owed` is all
that was granted until a restart, and then what was saved, read and accepted.
`ListMatchesChain` exempts the state in which the daemon hangs, in which a rule may
already be committed.

**Firewall backends.** `Good` says what each backend keeps whatever the kernel refuses,
as long as `upnp_redirect()` can read the rules. pf and ipfw: one redirection for a key,
one entry of the daemon's list for a key, and no entry without a redirection
(`ListGood`), without which a new mapping would take over the expiry of an old one.
IPFilter: one redirection for a key and pass rules only (`IpfOk`). nftables: a cache
that is invalid or what reading the rules back gives (`CacheOk`), and one host for the
rules of a key (`SameAddr`); a key may have two rules there, as `update_portmapping()`
does not notice that the old one stayed. `CacheOk` rests on what `table_cb` makes of the
expressions of a rule (`DnatReadBack`, `FilterReads`), an induction over the expression
list with the registers as state. The refinement of `RdrTable` goes backend by backend:
what a request does to the first rule and the first entry of its own key (`RedirectRow`,
`DeleteRow`), that those of every other key stay (`Keeps`), and that a pinhole rule is
never taken for a pass rule (`PinholeStepOk`, and `Pins` unchanged: mappings go to IPv4
hosts, pinholes to IPv6 hosts, and the searches of pf and nftables compare addresses; no
label of a mapping reads as a pinhole's). `Steps` puts the four together. The attempt to
prove the refinement showed that a second failure on nftables leaves the old rule with
the new expiry and the answer -1, which one failure in a behaviour, the bound of the
run, does not reach: `RdrTable` says so since (`Stayed`).

`RulesPaired` and `ListingsAgree` need more than `Good` as long as nothing was refused
(`Quiet`, with `Unrefused`): one rule for a key on nftables, so that the newest rule,
which the daemon reads, is the only one; and `Paired`. On pf and nftables a pass rule is
found by the internal endpoint only, so that a deletion removes *a* rule of the
endpoint, equal to its own if the endpoint has one remote host: what is kept is that the
redirections to an endpoint are as many as its pass rules (`Balanced`), and a request
adds or removes one of both, or moves one of both between two endpoints. Pinholes, in
the same chain, count for no endpoint. On IPFilter a pass rule names the mapped port and
belongs to its redirection. `ListingsAgree` holds on pf, ipfw and IPFilter whatever is
refused: with one redirection for a key the number of keys is the number of rules
(`KeyNumber`), which the counts and the indices of the code go by.

**minissdpd.** `MiniSSDPdInv` says of each connection that the socket and then the
buffer hold what its client should still read (`Frames`; only a beginning of it once
the daemon has closed), that a slot nobody connected to is empty, and what a follower
knows (`Follows`); of the two lists that ids are unique, without which a removal would
leave the id listed. It is shown for `write_buffer`, `write_or_buffer` and
`sendNotifications` on one connection, then for each operation on the lists, then for
the requests of one `read()` by induction over them (`ServeOK`).

**Gateway.** `ValidIGDInv` says of a call where it is (`Placed`, `OnService`), what is
allocated (`Held`), that what it knows of an address comes from one service
(`OneService`), and, as long as nothing fails or changes, that every device before the
present one, in the order of the four rounds, was refused rightly (`Progress`, with
`Passed`), so that the result is the first that does (`Chosen`). `Advance` shows that
the loops skip no candidate and that the last round always finds one.

Recursive functions (`Sublist`, `Serve`, `parserootdesc`) are used where the code loops, as no
theorem can rest on a `RECURSIVE` operator; induction over a list is by a least
counterexample (`LeastElement`), as the induction theorems of the library cannot be
instantiated by the provers.

**Only model-checked**: liveness (outside the prover's fragment); `MapHonoured` and
`RetrySamePort` of PCP, whose search for a port is a fold with an operator for parameter
(and the first holds only where no flow of a PEER request was given the external port of
the mapping); `KeepsOthers` of the backends; `Discovery`, in which the datagrams of a
step are handled by such folds too; `HttpExchange`, whose reader of responses is a
`RECURSIVE` operator.

## Not modelled

* Text: XML, HTTP, SSDP and SOAP messages, descriptions, configuration lines. Where
  a conversion matters it is modelled by what it does (chunk sizes, nftables
  expressions, lease lines matched by prefix, byte order of ports).
* Start-up, options, privileges, the control socket, interface and route
  discovery, statistics, STUN: input and output without state of their own. Their
  results are constants (`InUse`) or free choices (`disable_port_forwarding`).
* Queries of the SOAP services: they read state that is modelled, and change none.
* `miniupnpc-async`, `-libevent`, `-libuv`, the command line tools and language
  bindings.
* Of the backends: statistics, the masquerade rules of `netfilter`, and outside
  `IptcRdr` the PEER and DSCP rules; pf built with `PF_NEWSTYLE`, whose count and index of
  redirections run over all the rules of the anchor (`obsdrdr.c:943`, `1478`); a dump of
  nftables that breaks off after some rules.
* In `Pinholes` the init scripts empty the chain before a start; source ports and
  failures of the lease file's own I/O are left out.
* TLS: the same connection over other read and write calls.

## Plan

1. Done: the modules above, their runs, the theorems above.
2. Theorems left: `MapHonoured`, with the hypothesis that flows have ports of their own;
   `TypeOK` and `NeverExpires` of `Discovery`.
3. Further composition: `PcpServer` with `Pinholes` over one lease clock;
   `Discovery` followed by `ValidIGD`.
