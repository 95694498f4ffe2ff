---------------------------- MODULE UpnpRedirect ----------------------------
(***************************************************************************)
(* The port mappings of miniupnpd: the firewall-independent code of        *)
(* upnpredirect.c on the netfilter backend (module IptcRdr), the SOAP      *)
(* actions of upnpsoap.c and the NAT-PMP requests of natpmp.c that reach   *)
(* it, the sweeps of the main loop (expired leases, unused rules), and the *)
(* lease file that carries the mappings over a restart of the daemon.  The *)
(* build has no IGD_V2: AddPortMapping makes permanent mappings.           *)
(*                                                                         *)
(* The daemon is single-threaded: one request or one sweep at a time.      *)
(* Sweeps and multiple deletions take one step per deletion, so that time, *)
(* traffic and a crash of the daemon can come in between; no other handler *)
(* can.                                                                    *)
(***************************************************************************)
EXTENDS IptcRdr, Permissions, Lists, FiniteSets

CONSTANTS
  Protos,      \* transport protocols
  MaxPort,     \* external ports are 1..MaxPort (65535 in the code)
  Clients,     \* internal addresses
  Iports,      \* internal ports
  Rhosts,      \* remote hosts a mapping may be restricted to
  AnyHost,         \* the wildcard remote host
  Strs,        \* descriptions a SOAP client may give
  PcpDescs,    \* descriptions PCP gives, "PCP MAP <nonce>" or "PCP PEER <nonce>"
  Durations,   \* lease durations asked for; 0 stands for a permanent mapping
  Week,        \* what AddAnyPortMapping makes of 0, 604800 in the code
  InUse,       \* keys in use by a local service (CHECK_PORTINUSE)
  EnableUpnp,  \* ENABLEUPNPMASK
  EnableNatpmp,\* ENABLENATPMPMASK
  Threshold,   \* clean_ruleset_threshold
  CleanUnused, \* clean_ruleset_interval is set
  Faults,      \* sets of steps that may fail together in one call
  WanChanges,  \* the external address may become unusable and back
  MayCrash,    \* when the daemon may die: "never", "serving" or "always"
  Word,        \* 2^32 in the code: unsigned int timestamps wrap
  UnixOffset,  \* time(NULL) - upnp_time()
  MaxTime,     \* bound on the clock
  MaxLease,    \* bound on the end of the leases asked for
  MaxPkts,     \* bound on the packet counters
  MaxFaults,   \* bound on the calls in which a step fails
  NULL

Keys == Protos \X (1..MaxPort)

ASSUME RedirectAssumption ==
  /\ MaxPort \in Nat /\ MaxTime \in Nat /\ MaxLease \in Nat
  /\ MaxPkts \in Nat /\ MaxFaults \in Nat
  /\ Threshold \in Nat /\ UnixOffset \in Nat /\ Word \in Nat \ {0}
  /\ Durations \subseteq Nat /\ Week \in Nat \ {0}
  /\ AnyHost \in Rhosts
  /\ Clients \subseteq DOMAIN AddressBits
  /\ InUse \subseteq Keys
  /\ Faults \subseteq SUBSET (FirewallSteps \cup {"lease"})
  /\ MayCrash \in {"never", "serving", "always"}
  /\ NULL \notin [iaddr : Clients, iport : Iports, until : Nat]

VARIABLES
  fw,        \* nat and filter chains, rdr_desc_list
  lease,     \* lines of the lease file
  next,      \* nextruletoclean_timestamp
  rule_list, \* snapshot of the packet counters, see remove_unused_rules
  todo,      \* deletions the running handler has still to make, and why
  reload,    \* lines still to be read by reload_from_lease_file
  announced, \* PortMappingNumberOfEntries at the last event notification
  disabled,  \* disable_port_forwarding
  now,       \* upnp_time()
  granted,   \* history: what the clients were last told about each key
  used,      \* history: keys with traffic since the counters were listed
  faulty     \* number of calls in which a step failed

vars == <<fw, lease, next, rule_list, todo, reload, announced, disabled, now,
          granted, used, faulty>>

(* NAT-PMP looks for permission with the first, and describes its mapping   *)
(* with the second, "NAT-PMP %hu %s" for the port and the protocol.         *)
NatpmpName == "NAT-PMP"
NatpmpDesc == "NAT-PMP port proto"

Mappings == [key : Keys, iaddr : Clients, iport : Iports, rhost : Rhosts,
             str : Strs \cup PcpDescs \cup {NatpmpDesc}]

Idle == [why |-> "idle", entries |-> <<>>]

(* The daemon is in select(), ready for the next request *)
Serving == todo = Idle /\ reload = <<>>

TypeOK ==
  /\ fw \in [nat    : Seq([key : Keys, iaddr : Clients, iport : Iports,
                           rhost : Rhosts, pcnt : Nat]),
             filter : Seq([proto : Protos, iaddr : Clients, iport : Iports,
                           rhost : Rhosts]),
             desc   : Seq([key : Keys, str : Strs \cup PcpDescs \cup {NatpmpDesc},
                           timestamp : Nat]),
             peer   : Seq([key : Keys, iaddr : Clients, iport : Iports,
                           rhost : Rhosts, rport : Iports]),
             mangle : Seq([proto : Protos, src : Clients \cup Rhosts, sport : Iports,
                           dst : Clients \cup Rhosts, dport : Iports, dscp : Nat])]
  /\ lease \in Seq([map : Mappings, timestamp : Nat])
  /\ reload \in Seq([map : Mappings, timestamp : Nat])
  /\ next \in Nat /\ now \in Nat /\ announced \in Nat
  /\ rule_list \in Seq([key : Keys, pcnt : Nat])
  /\ todo \in [why : {"idle", "expired", "unused", "range", "natpmp"},
               entries : Seq([key : Keys, pcnt : Nat])]
  /\ disabled \in BOOLEAN
  /\ granted \in [Keys -> [iaddr : Clients, iport : Iports, until : Nat]
                          \cup {NULL}]
  /\ used \subseteq Keys
  /\ faulty \in Nat

Init ==
  /\ fw = EmptyFirewall
  /\ lease = <<>> /\ reload = <<>> /\ rule_list = <<>>
  /\ next = 0 /\ announced = 0 /\ now = 1
  /\ todo = Idle
  /\ disabled = FALSE
  /\ granted = [k \in Keys |-> NULL]
  /\ used = {}
  /\ faulty = 0

-----------------------------------------------------------------------------
(* Operators named X_Slip are faulty versions of the operator X they        *)
(* precede; the specification never uses them.                              *)

(* The lease file *)

(* unsigned int arithmetic *)
Timestamp(leaseduration) ==
  IF leaseduration > 0 THEN (now + leaseduration) % Word ELSE 0

ToUnix_Same(timestamp) == timestamp

ToUnix_Backwards(timestamp) == IF timestamp = 0 THEN 0 ELSE timestamp - UnixOffset

ToUnix(timestamp) ==
  IF timestamp = 0 THEN 0 ELSE (timestamp + UnixOffset) % Word

lease_file_add(file, m, timestamp, fails) ==
  IF "lease" \in fails THEN file
  ELSE Append(file, [map |-> m, timestamp |-> ToUnix(timestamp)])

lease_file_remove_Keeps(file, key, fails) == file

lease_file_remove(file, key, fails) ==
  IF "lease" \in fails THEN file
  ELSE Sublist(file, {line \in ToSet(file) : line.map.key # key})

-----------------------------------------------------------------------------
(* upnpredirect.c.  A daemon is [fw, lease, next, announced]; an operation *)
(* maps it to [d, r], the daemon it leaves and the value it returns.        *)

Daemon == [fw |-> fw, lease |-> lease, next |-> next, announced |-> announced]

Result(d, r) == [d |-> d, r |-> r]

Becomes(d) ==
  /\ fw' = d.fw
  /\ lease' = d.lease
  /\ next' = d.next
  /\ announced' = d.announced

(* On Linux the nat rule stays when the filter rule cannot be added.  The   *)
(* event notification carries the number of port mappings.                  *)
upnp_redirect_internal(d, m, timestamp, fails) ==
  LET rdr == add_redirect_rule2(d.fw, m, timestamp, fails)
      acc == add_filter_rule2(rdr.fw, m, fails)
      file == lease_file_add(d.lease, m, timestamp, fails)
  IN IF disabled \/ rdr.r < 0 THEN Result(d, -1)
     ELSE IF acc.r < 0
     THEN Result([fw |-> rdr.fw, lease |-> file, next |-> d.next,
                  announced |-> d.announced], -1)
     ELSE Result([fw |-> acc.fw, lease |-> file,
                  next |-> IF timestamp > 0 /\ (d.next = 0 \/ timestamp < d.next)
                           THEN timestamp ELSE d.next,
                  announced |-> Len(acc.fw.nat)], 0)

(* The mapping exists for the same client and remote host: its internal     *)
(* port, description and lease are overwritten.                             *)
UpdateExisting(d, m, timestamp, fails) ==
  LET u == IF m.iport # RuleOf(d.fw, m.key).iport
           THEN update_portmapping(d.fw, m.key, m.iport, m.str, timestamp, fails)
           ELSE update_portmapping_desc_timestamp(d.fw, m.key, m.str, timestamp)
      removed == lease_file_remove(d.lease, m.key, fails)
  IN Result([fw |-> u.fw, next |-> d.next, announced |-> d.announced,
             lease |-> IF u.r = 0 THEN lease_file_add(removed, m, timestamp, fails)
                                  ELSE d.lease], u.r)

Permitted(m) ==
  check_upnp_rule_against_permissions(Eport(m.key), m.iaddr, m.iport, m.str)

upnp_redirect_AddsForOther(d, m, leaseduration, fails) ==
  LET old == RuleOf(d.fw, m.key)
  IN IF ~Permitted(m) THEN Result(d, -3)
     ELSE IF get_redirect_rule(d.fw, m.key, fails) = 0 /\ old.iaddr = m.iaddr
     THEN UpdateExisting(d, m, Timestamp(leaseduration), fails)
     ELSE IF m.key \in InUse THEN Result(d, -4)
     ELSE upnp_redirect_internal(d, m, Timestamp(leaseduration), fails)

upnp_redirect_ChecksNewOnly(d, m, leaseduration, fails) ==
  LET old == RuleOf(d.fw, m.key)
  IN IF get_redirect_rule(d.fw, m.key, fails) = 0
     THEN IF old.iaddr = m.iaddr /\ old.rhost = m.rhost
          THEN UpdateExisting(d, m, Timestamp(leaseduration), fails)
          ELSE Result(d, -2)
     ELSE IF ~Permitted(m) THEN Result(d, -3)
     ELSE IF m.key \in InUse THEN Result(d, -4)
     ELSE upnp_redirect_internal(d, m, Timestamp(leaseduration), fails)

(* 0 done, -1 failed, -2 already redirected, -3 not permitted, -4 in use *)
upnp_redirect(d, m, leaseduration, fails) ==
  LET old == RuleOf(d.fw, m.key)
  IN IF ~Permitted(m) THEN Result(d, -3)
     ELSE IF get_redirect_rule(d.fw, m.key, fails) = 0
     THEN IF old.iaddr = m.iaddr /\ old.rhost = m.rhost
          THEN UpdateExisting(d, m, Timestamp(leaseduration), fails)
          ELSE Result(d, -2)
     ELSE IF m.key \in InUse THEN Result(d, -4)
     ELSE upnp_redirect_internal(d, m, Timestamp(leaseduration), fails)

_upnp_delete_redir(d, key, fails) ==
  LET del == delete_redirect_and_filter_rules(d.fw, key, fails)
  IN Result([fw |-> del.fw, lease |-> lease_file_remove(d.lease, key, fails),
             next |-> d.next, announced |-> Len(del.fw.nat)], del.r)

-----------------------------------------------------------------------------
(* SOAP actions *)

Granted(m, leaseduration) ==
  [iaddr |-> m.iaddr, iport |-> m.iport,
   until |-> IF leaseduration = 0 THEN 0 ELSE now + leaseduration]

(* The client that asked for m is told that it has it, or gets an error *)
Replied(res, m, leaseduration) ==
  /\ Becomes(res.d)
  /\ granted' = IF res.r = 0
                THEN [granted EXCEPT ![m.key] = Granted(m, leaseduration)]
                ELSE granted

Requests == [key : Keys, iaddr : Clients, iport : Iports, rhost : Rhosts, str : Strs]

AddPortMapping(m, leaseduration, fails) ==
  /\ EnableUpnp /\ Serving
  /\ Replied(upnp_redirect(Daemon, m, leaseduration, fails), m, leaseduration)
  /\ UNCHANGED <<rule_list, todo, reload, disabled, now, used>>

allowed_eports ==
  [c \in Clients, i \in Iports |-> get_permitted_ext_ports(0..MaxPort, c, i)]

(* +1, -1, +2, -2, ... *)
SearchRank(wanted, eport) ==
  IF eport > wanted THEN 2 * (eport - wanted) - 1 ELSE 2 * (wanted - eport)

AddAnyPortMapping_RepliesAskedPort(m, leaseduration, fails) ==
  /\ EnableUpnp /\ Serving
  /\ \E e \in 1..MaxPort :
       /\ upnp_redirect(Daemon, [m EXCEPT !.key = <<Proto(m.key), e>>],
                        leaseduration, fails).r = 0
       /\ Replied(upnp_redirect(Daemon, [m EXCEPT !.key = <<Proto(m.key), e>>],
                                leaseduration, fails), m, leaseduration)
  /\ UNCHANGED <<rule_list, todo, reload, disabled, now, used>>

(* There is no permanent mapping to be had *)
AnyLease(leaseduration) == IF leaseduration = 0 THEN Week ELSE leaseduration

AddAnyPortMapping(m, leaseduration, fails) ==
  LET asked(e) == [m EXCEPT !.key = <<Proto(m.key), e>>]
      try(e) == upnp_redirect(Daemon, asked(e), AnyLease(leaseduration), fails)
      stops == {e \in 1..MaxPort : /\ e = Eport(m.key) \/ e \in allowed_eports[m.iaddr, m.iport]
                                   /\ try(e).r \in {0, -1}}
      e == CHOOSE e \in stops : \A o \in stops :
             SearchRank(Eport(m.key), e) <= SearchRank(Eport(m.key), o)
  IN /\ EnableUpnp /\ Serving
     /\ stops # {}                       \* else 728 NoPortMapsAvailable
     /\ Replied(try(e), asked(e), AnyLease(leaseduration))
     /\ UNCHANGED <<rule_list, todo, reload, disabled, now, used>>

(* 714 NoSuchEntryInArray is answered only for a negative result *)
DeletePortMapping(key, fails) ==
  /\ EnableUpnp /\ Serving
  /\ \E res \in {_upnp_delete_redir(Daemon, key, fails)} :
       /\ Becomes(res.d)
       /\ granted' = IF res.r < 0 THEN granted ELSE [granted EXCEPT ![key] = NULL]
  /\ UNCHANGED <<rule_list, todo, reload, disabled, now, used>>

Entries(nat) == [i \in DOMAIN nat |-> [key |-> nat[i].key, pcnt |-> nat[i].pcnt]]

(* Those of the rules listed whose key is one of keys *)
EntriesOf(entries, keys) == Sublist(entries, {e \in ToSet(entries) : e.key \in keys})

(* The handler goes on with deleting these *)
Deleting(why, entries) ==
  todo' = IF entries = <<>> THEN Idle ELSE [why |-> why, entries |-> entries]

DeletePortMappingRange(proto, startport, endport) ==
  /\ EnableUpnp /\ Serving
  /\ Deleting("range", EntriesOf(Entries(fw.nat), {proto} \X (startport..endport)))
  /\ UNCHANGED <<fw, lease, next, announced, rule_list, reload, disabled, now, granted, used>>

-----------------------------------------------------------------------------
(* NAT-PMP requests *)

(* lifetime 0: all the mappings of the client with this internal port       *)
(* (every port for 0) and protocol that NAT-PMP made                        *)
NatpmpMade(f) ==
  {r \in ToSet(f.nat) : get_redirect_desc(f, r.key).str = NatpmpDesc}

NatpmpDelete(client, proto, iport) ==
  LET mine == {r.key : r \in {r \in NatpmpMade(fw) :
                 Proto(r.key) = proto /\ r.iaddr = client /\ iport \in {0, r.iport}}}
  IN /\ EnableNatpmp /\ Serving
     /\ Deleting("natpmp", EntriesOf(Entries(fw.nat), mine))
     /\ UNCHANGED <<fw, lease, next, announced, rule_list, reload, disabled, now, granted, used>>

(* The port searched next is the one above, MaxPort is followed by 1 *)
PortAfter(eport, n) == ((eport - 1 + n) % MaxPort) + 1

(* A port is taken when its mapping is for another internal endpoint; the   *)
(* client's own mapping is replaced: removed, then added again.             *)
NatpmpMap(client, proto, iport, suggested, lifetime, fails) ==
  LET m(e) == [key |-> <<proto, e>>, iaddr |-> client, iport |-> iport,
               rhost |-> AnyHost, str |-> NatpmpDesc]
      taken(e) == get_redirect_rule(fw, <<proto, e>>, fails) = 0
      mine(e) == /\ RuleOf(fw, <<proto, e>>).iaddr = client
                 /\ RuleOf(fw, <<proto, e>>).iport = iport
      usable == {n \in 0..(MaxPort - 1) :
                   LET e == PortAfter(suggested, n)
                   IN /\ Permitted([m(e) EXCEPT !.str = NatpmpName])
                      /\ <<proto, e>> \notin InUse
                      /\ taken(e) => mine(e)}
      replace(del, e) ==
        IF del.r < 0 THEN Result(del.d, 0)             \* answers success
        ELSE upnp_redirect_internal(del.d, m(e), Timestamp(lifetime), fails)
      map(e) ==
        IF ~taken(e)
        THEN upnp_redirect_internal(Daemon, m(e), Timestamp(lifetime), fails)
        ELSE IF get_redirect_desc(fw, <<proto, e>>).str \in PcpDescs
        THEN Result(Daemon, -1)
        ELSE replace(_upnp_delete_redir(Daemon, <<proto, e>>, fails), e)
  IN /\ EnableNatpmp /\ Serving
     /\ usable # {}                      \* else refused or out of resources
     /\ \E e \in {PortAfter(suggested, CHOOSE n \in usable : \A o \in usable : n <= o)} :
          Replied(map(e), m(e), lifetime)
     /\ UNCHANGED <<rule_list, todo, reload, disabled, now, used>>

-----------------------------------------------------------------------------
(* The sweeps of the main loop *)

TimestampOf(key) == get_redirect_desc(fw, key).timestamp
ExpiredKeys == {k \in Keys : TimestampOf(k) > 0 /\ TimestampOf(k) <= now}

(* The rules as get_upnp_rules_state_list() lists them: last one first *)
RulesState(fails) ==
  IF "lookup" \in fails THEN <<>> ELSE Reverse(Entries(fw.nat))

get_upnp_rules_state_list_NoRearm(fails) ==
  /\ next' = 0
  /\ Deleting("expired", EntriesOf(RulesState(fails), ExpiredKeys))

(* get_upnp_rules_state_list(): nextruletoclean_timestamp becomes the       *)
(* earliest expiry to come, and what has expired is deleted.                *)
get_upnp_rules_state_list(fails) ==
  LET rules == RulesState(fails)
      later == {TimestampOf(rules[i].key) : i \in DOMAIN rules} \ 0..now
  IN /\ next' = IF later = {} THEN 0
                ELSE CHOOSE t \in later : \A u \in later : t <= u
     /\ Deleting("expired", EntriesOf(rules, ExpiredKeys))

(* the list it returns: the counters of the rules kept, if there are more   *)
(* than max_rules_number_target                                             *)
KeptRules(max_rules_number_target, fails) ==
  LET kept == EntriesOf(RulesState(fails), Keys \ ExpiredKeys)
  IN IF Len(kept) <= max_rules_number_target THEN <<>> ELSE kept

(* every clean_ruleset_interval seconds: a snapshot, or what to do with it  *)
CleanUnusedRules(fails) ==
  /\ CleanUnused /\ Serving
  /\ IF rule_list # <<>>
     THEN /\ Deleting("unused", rule_list)
          /\ rule_list' = <<>>
          /\ UNCHANGED <<next, used>>
     ELSE /\ get_upnp_rules_state_list(fails)
          /\ rule_list' = KeptRules(Threshold, fails)
          /\ used' = {}
  /\ UNCHANGED <<fw, lease, announced, reload, disabled, now, granted>>

(* here the list returned is not used *)
CleanExpiredRules(fails) ==
  /\ Serving
  /\ next # 0 /\ now >= next
  /\ get_upnp_rules_state_list(fails)
  /\ UNCHANGED <<fw, lease, announced, rule_list, reload, disabled, now, granted, used>>

(* remove_unused_rules() compares the counters of the key's present rule    *)
StillUnused(entry, fails) ==
  /\ get_redirect_rule(fw, entry.key, fails) = 0
  /\ RuleOf(fw, entry.key).pcnt = entry.pcnt

(* One turn of the loop that deletes, in whichever handler.  That of        *)
(* NAT-PMP stops at the first failure, and looks at the same index again    *)
(* after a success: at the same rule if it is still there, which it takes   *)
(* for one of NAT-PMP as long as it is described as such.                   *)
DeleteNext(fails) ==
  LET entry == Head(todo.entries)
      skip == todo.why = "unused" /\ ~StillUnused(entry, fails)
      over(r) == /\ todo.why = "expired" => /\ granted[entry.key] # NULL
                                            /\ granted[entry.key].until \in 1..now
                 /\ todo.why = "natpmp" => r >= 0
  IN /\ todo.entries # <<>>
     /\ \E res \in {IF skip THEN Result(Daemon, 0)
                    ELSE _upnp_delete_redir(Daemon, entry.key, fails)} :
          /\ Becomes(res.d)
          /\ granted' = IF ~skip /\ over(res.r) THEN [granted EXCEPT ![entry.key] = NULL]
                                                ELSE granted
          /\ Deleting(todo.why,
                      IF todo.why # "natpmp" THEN Tail(todo.entries)
                      ELSE IF res.r < 0 THEN <<>>
                      ELSE EntriesOf(todo.entries, {r.key : r \in NatpmpMade(res.d.fw)}))
     /\ UNCHANGED <<rule_list, reload, disabled, now, used>>

-----------------------------------------------------------------------------
(* Restart *)

UnixNow == (now + UnixOffset) % Word

(* The daemon dies and is started again.  The chains stay in the kernel, or *)
(* the scripts around the daemon flush them.  reload_from_lease_file()      *)
(* opens the lease file and unlinks it at once.                             *)
Restart(flushed) ==
  /\ MayCrash = "always" \/ (MayCrash = "serving" /\ reload = <<>>)
  /\ fw' = IF flushed THEN EmptyFirewall ELSE [fw EXCEPT !.desc = <<>>]
  /\ reload' = lease
  /\ lease' = <<>>
  /\ next' = 0 /\ rule_list' = <<>> /\ todo' = Idle /\ disabled' = FALSE
  /\ announced' = Len(fw'.nat)
  /\ UNCHANGED <<now, granted, used>>

(* One line of the lease file *)
reload_from_lease_file(fails) ==
  LET line == Head(reload)
      leaseduration == IF line.timestamp = 0 THEN 0 ELSE line.timestamp - UnixNow
      res == upnp_redirect(Daemon, line.map, leaseduration, fails)
      again == [res.d EXCEPT !.lease =
                  lease_file_add(@, line.map, Timestamp(leaseduration), fails)]
  IN /\ reload # <<>>
     /\ reload' = Tail(reload)
     /\ IF line.timestamp > 0 /\ line.timestamp <= UnixNow
        THEN UNCHANGED <<fw, lease, next, announced>>     \* already expired
        ELSE Becomes(IF res.r = -2 THEN again ELSE res.d)
     /\ UNCHANGED <<rule_list, todo, disabled, now, granted, used>>

-----------------------------------------------------------------------------
(* The environment *)

(* update_disable_port_forwarding() after a change of the external address *)
update_disable_port_forwarding ==
  /\ WanChanges /\ Serving
  /\ disabled' = ~disabled
  /\ UNCHANGED <<fw, lease, next, announced, rule_list, todo, reload, now, granted, used>>

(* A packet matches a nat rule *)
Traffic(i) ==
  /\ fw.nat[i].pcnt < MaxPkts
  /\ fw' = [fw EXCEPT !.nat[i].pcnt = @ + 1]
  /\ used' = used \cup {fw.nat[i].key}
  /\ UNCHANGED <<lease, next, announced, rule_list, todo, reload, disabled, now, granted>>

Tick ==
  /\ now < MaxTime
  /\ now' = now + 1
  /\ UNCHANGED <<fw, lease, next, announced, rule_list, todo, reload, disabled, granted, used>>

-----------------------------------------------------------------------------

(* The durations of the requests made now *)
Leases == {t \in Durations : now + t <= MaxLease}

Soap(fails) ==
  \/ \E m \in Requests, t \in Leases : AddPortMapping(m, t, fails)
  \/ \E m \in Requests, t \in {t \in Leases : now + AnyLease(t) <= MaxLease} :
       AddAnyPortMapping(m, t, fails)
  \/ \E k \in Keys : DeletePortMapping(k, fails)
  \/ \E p \in Protos : \E lo, hi \in 1..MaxPort : DeletePortMappingRange(p, lo, hi)

Natpmp(fails) ==
  \E c \in Clients, p \in Protos :
    \/ \E i \in Iports \cup {0} : NatpmpDelete(c, p, i)
    \/ \E i \in Iports, e \in 1..MaxPort, t \in Leases \ {0} :
         NatpmpMap(c, p, i, e, t, fails)

Sweep(fails) == CleanUnusedRules(fails) \/ CleanExpiredRules(fails) \/ DeleteNext(fails)

(* At most MaxFaults calls meet a failure *)
Counted(fails) ==
  IF fails = {} THEN UNCHANGED faulty
  ELSE faulty < MaxFaults /\ faulty' = faulty + 1

Environment ==
  \/ \E flushed \in BOOLEAN : Restart(flushed)
  \/ update_disable_port_forwarding
  \/ \E i \in DOMAIN fw.nat : Traffic(i)
  \/ Tick

Next ==
  \/ \E fails \in Faults :
       /\ Counted(fails)
       /\ \/ Soap(fails) \/ Natpmp(fails) \/ Sweep(fails)
          \/ reload_from_lease_file(fails)
  \/ Environment /\ UNCHANGED faulty

Spec == Init /\ [][Next]_vars

(* Time passes, and the main loop turns for ever: every turn looks at       *)
(* nextruletoclean_timestamp before it serves a request, however many come, *)
(* hence strong fairness; a loop of deletions runs to its end.              *)
LoopFairness ==
  /\ SF_vars(CleanExpiredRules({}) /\ UNCHANGED faulty)
  /\ WF_vars(DeleteNext({}) /\ UNCHANGED faulty)
  /\ WF_vars(reload_from_lease_file({}) /\ UNCHANGED faulty)
  /\ WF_vars(Tick /\ UNCHANGED faulty)

FairSpec == Spec /\ LoopFairness

-----------------------------------------------------------------------------
(* Properties *)

Rules == {fw.nat[i] : i \in DOMAIN fw.nat}

(* At most one redirection per protocol and external port: upnp_redirect(), *)
(* the reload and NAT-PMP all look before they add, but each decides on its *)
(* own whose port it is, and failed calls leave halves behind.  A NAT-PMP   *)
(* client's own mapping it is to "remove and then add again": the addition  *)
(* must not come on top of a rule whose removal failed.                     *)
OneRulePerPort ==
  \A i, j \in DOMAIN fw.nat : fw.nat[i].key = fw.nat[j].key => i = j

(* rdr_desc_list never keeps the description and expiry of a mapping that   *)
(* is gone, which the next mapping of the port would inherit: whatever step *)
(* of an addition or of delete_redirect_and_filter_rules() failed.          *)
NoStaleDesc ==
  /\ \A i \in DOMAIN fw.desc : \E r \in Rules : r.key = fw.desc[i].key
  /\ \A i, j \in DOMAIN fw.desc : fw.desc[i].key = fw.desc[j].key => i = j

(* Every line of the lease file stands for a redirection that is there, so  *)
(* that a restart brings nothing back that was deleted or had expired: the  *)
(* file is written by lease_file_add() and lease_file_remove() apart from   *)
(* the chains.                                                              *)
LeaseLineHasRule ==
  reload = <<>> => \A i \in DOMAIN lease : \E r \in Rules : r.key = lease[i].map.key

(* An internal endpoint has as many ACCEPT rules as redirections lead to    *)
(* it, so that the last one closes it and none of the others does: deletion *)
(* and update find the ACCEPT rule by the target of the nat rule, which     *)
(* several redirections may share.  Whom the rules accept is not compared,  *)
(* see OwnAcceptRule.                                                       *)
AcceptPerRule ==
  \A p \in Protos, a \in Clients, q \in Iports :
    Cardinality({i \in DOMAIN fw.nat :
        Proto(fw.nat[i].key) = p /\ fw.nat[i].iaddr = a /\ fw.nat[i].iport = q})
    = Cardinality({i \in DOMAIN fw.filter :
        fw.filter[i].proto = p /\ fw.filter[i].iaddr = a /\ fw.filter[i].iport = q})

(* "we must find the right index for the filter rule": as long as there is  *)
(* a redirection, there is an ACCEPT rule for its target and for the remote *)
(* host it was made for, whichever other redirections were deleted.         *)
OwnAcceptRule ==
  \A r \in Rules : \E i \in DOMAIN fw.filter :
    fw.filter[i] = [proto |-> Proto(r.key), iaddr |-> r.iaddr, iport |-> r.iport,
                    rhost |-> r.rhost]

(* What the answer to AddPortMapping, AddAnyPortMapping or a NAT-PMP        *)
(* request said a client has, it has until the time it was told or until it *)
(* is deleted, over requests of others, sweeps and restarts.                *)
GrantHonoured ==
  reload = <<>> =>
    \A k \in Keys : (granted[k] # NULL /\ (granted[k].until = 0 \/ now < granted[k].until))
      => \E r \in Rules : r.key = k /\ r.iaddr = granted[k].iaddr
                                   /\ r.iport = granted[k].iport

(* Every redirection is one that the permission lines accept, with the      *)
(* internal port and the description it has now: over the renewals of       *)
(* UpdateExisting, which change both, the search of AddAnyPortMapping and   *)
(* the lines that reload_from_lease_file() reads.  For what NAT-PMP made    *)
(* the word NAT-PMP counts, and not the description that it stores, which   *)
(* is looked at by the reload only.                                         *)
CheckedAs(str) == IF str = NatpmpDesc THEN NatpmpName ELSE str

PermittedOnly ==
  \A r \in Rules : check_upnp_rule_against_permissions(
                      Eport(r.key), r.iaddr, r.iport, CheckedAs(get_redirect_desc(fw, r.key).str))

(* No redirection that no answer told of, or whose deletion was confirmed   *)
OnlyGranted == \A r \in Rules : granted[r.key] # NULL

(* "remove the rule if no traffic has used it": a mapping with traffic      *)
(* since its counters were listed is not removed as unused.                 *)
UsedRulesKept ==
  [][\A k \in used : (todo.why = "unused" /\ \E r \in Rules : r.key = k)
                       => (\E r \in Rules : r.key = k)']_vars

(* "Remove expired port mappings, based on UPnP IGD LeaseDuration or        *)
(* NAT-PMP lifetime" (main loop): no lease lasts for ever.                  *)
LeaseEnds ==
  \A k \in Keys : (\E r \in Rules : r.key = k /\ TimestampOf(k) > 0)
                    ~> ~(\E r \in Rules : r.key = k /\ TimestampOf(k) > 0)

=============================================================================
