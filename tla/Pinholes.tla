------------------------------ MODULE Pinholes ------------------------------
(***************************************************************************)
(* The IPv6 pinholes of miniupnpd: the list and the ip6tables rules of     *)
(* netfilter/iptpinhole.c, the lease file and the operations of            *)
(* upnppinhole.c, the WANIPv6FirewallControl actions of upnpsoap.c and the *)
(* PCP MAP requests of pcpserver.c that reach them, and the sweep that     *)
(* the main loop makes before every select().                              *)
(*                                                                         *)
(* Between two sweeps the loop may serve any number of requests; each runs *)
(* to its end before the next one.                                         *)
(***************************************************************************)
EXTENDS Integers, SequencesExt, FiniteSetsExt, Lists

CONSTANTS
  Protos,         \* transport protocols
  Raddrs,         \* remote addresses a pinhole may be restricted to
  AnyHost,        \* the wildcard remote address
  Clients,        \* internal addresses
  Iports,         \* internal ports
  PortDigits,     \* digits of the port that fit in str[32], by client
  Nonces,         \* descriptions of PCP mappings ("PCP MAP <nonce>")
  LeaseTimes,     \* lease times a client may ask for
  InboundAllowed, \* neither IPV6FCFWDISABLED nor IPV6FCINBOUNDDISALLOWED
  MaxUid,         \* 65535 in the code
  UnixOffset,     \* time(NULL) - upnp_time()
  Failures,       \* the calls to ip6tc or calloc that may fail
  MaxFaults,      \* bound on the requests and sweeps with a failure
  MaxRestarts,    \* bound on the restarts of the daemon
  MaxTime,        \* bound on the clock
  MaxLease        \* bound on the end of the leases asked for

(* What a pinhole lets in.  Source ports are left out: they are compared   *)
(* and stored exactly like the remote address.                             *)
Flows == [proto : Protos, raddr : Raddrs, iaddr : Clients, iport : Iports]

IGD2 == "IGD2 pinhole"
Descs == Nonces \cup {IGD2}
Uids == 1..MaxUid
Pinhole == [flow : Flows, uid : Uids, timestamp : Nat, desc : Descs]

(* A line of the lease file without any field *)
Blank == <<>>

ASSUME PortsAssumption == \A p \in Iports : p \in Nat /\ 1 <= p /\ p <= 65535

ASSUME PinholesAssumption ==
  /\ AnyHost \in Raddrs
  /\ PortDigits \in [Clients -> 0..5]
  /\ LeaseTimes \subseteq Nat \ {0}
  /\ InboundAllowed \in BOOLEAN
  /\ MaxUid \in Nat \ {0} /\ UnixOffset \in Nat
  /\ Failures \subseteq {"append", "calloc", "delete"}
  /\ MaxFaults \in Nat /\ MaxRestarts \in Nat
  /\ MaxTime \in Nat /\ MaxLease \in Nat

VARIABLES
  d,        \* the daemon: [list, next_uid], ip6tables: chain, lease_file6: file
  pc,       \* what the process does
  reload,   \* lines still to be read by reload_from_lease_file6
  now,      \* upnp_time()
  granted,  \* history: end of the lease last granted to each flow, 0: closed
  saved,    \* history: flows whose line of the lease file no later request
            \* has rewritten
  owed,     \* history: flows granted by this process, or by an earlier one
            \* and saved when it ended
  faulty,   \* number of requests and sweeps in which a call failed
  restarts  \* number of restarts

vars == <<d, pc, reload, now, granted, saved, owed, faulty, restarts>>

TypeOK ==
  /\ d \in [list     : Seq(Pinhole),
            next_uid : Uids,
            chain    : [Flows -> Nat],
            file     : Seq(Pinhole \cup {Blank})]
  /\ pc \in {"reload", "sweep", "loop", "hung", "dead"}
  /\ reload \in Seq(Pinhole \cup {Blank})
  /\ granted \in [Flows -> Nat] /\ saved \subseteq Flows /\ owed \subseteq Flows
  /\ now \in Nat /\ faulty \in 0..MaxFaults /\ restarts \in 0..MaxRestarts

Init ==
  /\ d = [list |-> <<>>, next_uid |-> 1, chain |-> [f \in Flows |-> 0],
          file |-> <<>>]
  /\ pc = "sweep" /\ reload = <<>>
  /\ granted = [f \in Flows |-> 0] /\ saved = {} /\ owed = {}
  /\ now = 1 /\ faulty = 0 /\ restarts = 0

-----------------------------------------------------------------------------
(* Operators named X_Slip are faulty versions of the operator X they        *)
(* precede; the specification never uses them.                              *)

(* netfilter/iptpinhole.c.  Operations map a daemon to [d, r], the daemon   *)
(* they leave and the value they return.                                    *)

Result(e, r) == [d |-> e, r |-> r]

(* "Values" of a call that does not return *)
Hang == -100
Crash == -101

(* The index of the pinhole in the list, 0 when there is none *)
get_pinhole(e, uid) == SelectInSeq(e.list, LAMBDA p : p.uid = uid)

UsedUids(e) == {p.uid : p \in ToSet(e.list)}

Increment(uid) == IF uid = MaxUid THEN 1 ELSE uid + 1

NextFreeUid_Next(e) == e.next_uid

(* The loop over get_pinhole(next_uid): the first unused uid, cyclically *)
NextFreeUid(e) ==
  LET free == Uids \ UsedUids(e)
      Steps(uid) == (uid - e.next_uid) % MaxUid
  IN CHOOSE uid \in free : \A u \in free : Steps(uid) <= Steps(u)

(* The loop does not end when every uid is in use: r is Hang *)
add_to_pinhole_list(e, flow, desc, timestamp) ==
  IF Uids \subseteq UsedUids(e) THEN Result(e, Hang)
  ELSE LET uid == NextFreeUid(e)
           p == [flow |-> flow, uid |-> uid, timestamp |-> timestamp,
                 desc |-> desc]
       IN Result([e EXCEPT !.list = <<p>> \o @, !.next_uid = Increment(uid)], uid)

(* When calloc fails the rule that was just committed stays *)
add_pinhole(e, flow, desc, timestamp, fails) ==
  LET ruled == [e EXCEPT !.chain[flow] = @ + 1]
  IN CASE "append" \in fails -> Result(e, -1)
       [] "calloc" \in fails /\ "append" \notin fails -> Result(ruled, -1)
       [] OTHER -> add_to_pinhole_list(ruled, flow, desc, timestamp)

find_pinhole(e, flow) ==
  LET i == SelectInSeq(e.list, LAMBDA p : p.flow = flow)
  IN IF i = 0 THEN -2 ELSE e.list[i].uid

(* Rules of one flow differ only in their counters: the chain counts them *)
delete_pinhole(e, uid, fails) ==
  LET i == get_pinhole(e, uid)
      unlisted == [e EXCEPT !.list = RemoveAt(@, i)]
      flow == e.list[i].flow
  IN CASE i = 0 -> Result(e, -2)
       [] i # 0 /\ "delete" \in fails -> Result(e, -1)
       [] i # 0 /\ "delete" \notin fails /\ e.chain[flow] = 0 ->
            Result(unlisted, -2)
       [] OTHER -> Result([unlisted EXCEPT !.chain[flow] = @ - 1], 0)

update_pinhole(e, uid, timestamp) ==
  LET i == get_pinhole(e, uid)
  IN IF i = 0 THEN Result(e, -2)
     ELSE Result([e EXCEPT !.list[i].timestamp = timestamp], 0)

Expired(p) == p.timestamp <= now

clean_pinhole_list_HeadOnly(e, failing) ==
  IF e.list # <<>> /\ Expired(Head(e.list))
  THEN delete_pinhole(e, Head(e.list).uid,
                      IF failing = 1 THEN {"delete"} ELSE {}).d
  ELSE e

(* Deletes the expired pinholes from the head of the list on, up to the    *)
(* first deletion that does not return 0: the one that ip6tc refuses (at    *)
(* position failing; 0 when it refuses none) or one that finds no rule,     *)
(* which still leaves the list.                                             *)
clean_pinhole_list(e, failing) ==
  LET expired == {i \in DOMAIN e.list : Expired(e.list[i])}
      stops == {i \in expired : i = failing \/ e.chain[e.list[i].flow] = 0}
      deleted == {i \in expired : \A j \in stops : i < j}
      ruleless == {i \in stops \ {failing} : \A j \in stops : i <= j}
      gone == {e.list[i] : i \in deleted \cup ruleless}
  IN [e EXCEPT !.list = Sublist(@, ToSet(@) \ gone),
               !.chain = [f \in Flows |-> IF \E i \in deleted : e.list[i].flow = f
                                         THEN @[f] - 1 ELSE @[f]]]

-----------------------------------------------------------------------------
(* upnppinhole.c *)

ToUnix(timestamp) == timestamp + UnixOffset

lease_file6_add(file, flow, uid, desc, timestamp) ==
  Append(file, [flow |-> flow, uid |-> uid, timestamp |-> ToUnix(timestamp),
                desc |-> desc])

(* Every line is printed with the uid of the pinhole being updated, and     *)
(* with the end of line that fgets left in its description before the one   *)
(* of the format: a blank line follows.                                     *)
lease_file6_update(file, uid, timestamp) ==
  LET lines == Sublist(file, ToSet(file) \ {Blank})
      Updated(l) == [l EXCEPT !.uid = uid,
                              !.timestamp = IF l.uid = uid THEN ToUnix(timestamp)
                                            ELSE @]
  IN [i \in 1..(2 * Len(lines)) |->
        IF i % 2 = 1 THEN Updated(lines[(i + 1) \div 2]) ELSE Blank]

DigitCount(port) == CHOOSE n \in 1..5 : 10^(n - 1) <= port /\ port < 10^n

FirstDigits(port, n) ==
  IF n >= DigitCount(port) THEN port ELSE port \div 10^(DigitCount(port) - n)

(* The line starts with "proto;iaddr;port", cut to the size of str *)
SamePrefix(other, flow) ==
  LET n == Min({PortDigits[flow.iaddr], DigitCount(flow.iport)})
  IN /\ other.proto = flow.proto /\ other.iaddr = flow.iaddr
     /\ FirstDigits(other.iport, n) = FirstDigits(flow.iport, n)

(* lease_file6_remove(iaddr, iport, proto, -1) *)
lease_file6_remove(file, flow) ==
  Sublist(file, {l \in ToSet(file) : l = Blank \/ ~SamePrefix(l.flow, flow)})

(* lease_file6_remove("*", 0, 0, uid) *)
lease_file6_remove_uid(file, uid) ==
  Sublist(file, {l \in ToSet(file) : l = Blank \/ l.uid # uid})

(* With a uid the function follows the ';' of every line without checking   *)
(* that there is one.  On a blank line it reads what the previous line left *)
(* in buf2, where every ';' is gone; on a first line, an uninitialised buf2.*)
NullPointer(file) ==
  \E i, j \in DOMAIN file : i < j /\ file[i] # Blank /\ file[j] = Blank
Uninitialised(file) == file # <<>> /\ file[1] = Blank

lease_file6_expire_Twice(file) ==
  Sublist(file, {l \in ToSet(file) : l # Blank /\ l.timestamp > ToUnix(ToUnix(now))})

lease_file6_expire(file) ==
  Sublist(file, {l \in ToSet(file) : l # Blank /\ l.timestamp > ToUnix(now)})

upnp_find_inboundpinhole(e, flow) == find_pinhole(e, flow)

upnp_update_inboundpinhole(e, uid, leasetime) ==
  LET timestamp == now + leasetime
      up == update_pinhole(e, uid, timestamp)
  IN IF up.r # 0 THEN up
     ELSE Result([up.d EXCEPT !.file = lease_file6_update(@, uid, timestamp)], 0)

(* The line of the flow is written again: r is the uid *)
Recorded(e, flow, uid, desc, timestamp) ==
  Result([e EXCEPT !.file = lease_file6_add(lease_file6_remove(@, flow),
                                            flow, uid, desc, timestamp)], uid)

upnp_add_inboundpinhole(e, flow, desc, leasetime, fails) ==
  LET uid == upnp_find_inboundpinhole(e, flow)
      up == upnp_update_inboundpinhole(e, uid, leasetime)
      new == add_pinhole(e, flow, desc, now + leasetime, fails)
  IN CASE uid >= 0 -> Recorded(up.d, flow, uid, desc, now + leasetime)
       [] uid < 0 /\ new.r \in Uids ->
            Recorded(new.d, flow, new.r, desc, now + leasetime)
       [] OTHER -> new

(* r is Crash when lease_file6_remove follows a null pointer *)
upnp_delete_inboundpinhole(e, uid, fails) ==
  LET del == delete_pinhole(e, uid, fails)
      removed == [del.d EXCEPT !.file = lease_file6_remove_uid(@, uid)]
  IN CASE del.r # 0 -> {del}
       [] del.r = 0 /\ NullPointer(del.d.file) -> {Result(del.d, Crash)}
       [] del.r = 0 /\ ~NullPointer(del.d.file) /\ Uninitialised(del.d.file) ->
            {Result(del.d, Crash), Result(removed, 0)}
       [] OTHER -> {Result(removed, 0)}

upnp_clean_expired_pinholes(e, failing) ==
  LET cleaned == clean_pinhole_list(e, failing)
  IN [cleaned EXCEPT !.file = lease_file6_expire(@)]

-----------------------------------------------------------------------------
(* upnpsoap.c, pcpserver.c *)

(* The sets of failures of one handler *)
MayFail(kinds) ==
  {fails \in SUBSET (Failures \cap kinds) :
     Cardinality(fails) <= 1 /\ (fails # {} => faulty < MaxFaults)}

Failed(fails) == faulty' = faulty + Cardinality(fails)

(* How a handler ends: it answers, or the process hangs or dies *)
Ended(r) == pc' = CASE r = Hang -> "hung" [] r = Crash -> "dead"
                    [] OTHER -> "loop"

(* A client may only use pinholes to itself, on an unprivileged port *)
PinholeVerification(client, flow) ==
  /\ flow.iaddr = client
  /\ flow.iport >= 1024

(* 1..86400 in the code *)
LeaseTimeOK(leasetime) == now + leasetime <= MaxLease

Grant(flow, leasetime) ==
  /\ granted' = [granted EXCEPT ![flow] = now + leasetime]
  /\ owed' = owed \cup {flow}

(* The flows whose lines are still their own after upnp_add_inboundpinhole  *)
(* answered r: a renewal writes its uid into every line, an addition takes  *)
(* away the lines with the same prefix, and both end with the flow's line.  *)
SavedBy(flow, r) ==
  IF r \notin Uids THEN saved
  ELSE IF upnp_find_inboundpinhole(d, flow) >= 0 THEN {flow}
  ELSE {f \in saved : ~SamePrefix(f, flow)} \cup {flow}

AddPinhole(client, flow, leasetime, fails) ==
  /\ pc = "loop" /\ InboundAllowed
  /\ PinholeVerification(client, flow) /\ LeaseTimeOK(leasetime)
  /\ LET add == upnp_add_inboundpinhole(d, flow, IGD2, leasetime, fails)
     IN /\ d' = add.d
        /\ Ended(add.r)
        /\ IF add.r \in Uids THEN Grant(flow, leasetime) ELSE UNCHANGED <<granted, owed>>
        /\ saved' = SavedBy(flow, add.r)
  /\ Failed(fails)
  /\ UNCHANGED <<reload, now, restarts>>

UpdatePinhole_AnyClient(client, uid, leasetime) ==
  /\ pc = "loop" /\ InboundAllowed
  /\ uid \in UsedUids(d) /\ LeaseTimeOK(leasetime)
  /\ LET flow == d.list[get_pinhole(d, uid)].flow
         up == upnp_update_inboundpinhole(d, uid, leasetime)
     IN /\ d' = up.d
        /\ IF flow.iaddr = client THEN Grant(flow, leasetime)
           ELSE UNCHANGED <<granted, owed>>
  /\ saved' = {}
  /\ UNCHANGED <<pc, reload, now, faulty, restarts>>

UpdatePinhole(client, uid, leasetime) ==
  /\ pc = "loop" /\ InboundAllowed
  /\ uid \in UsedUids(d) /\ LeaseTimeOK(leasetime)
  /\ LET flow == d.list[get_pinhole(d, uid)].flow
         up == upnp_update_inboundpinhole(d, uid, leasetime)
     IN /\ PinholeVerification(client, flow)
        /\ d' = up.d
        /\ IF up.r = 0 THEN Grant(flow, leasetime) ELSE UNCHANGED <<granted, owed>>
  /\ saved' = {}
  /\ UNCHANGED <<pc, reload, now, faulty, restarts>>

(* The end of DeletePinhole and of DeletePCPMap *)
Delete(uid, fails) ==
  LET flow == d.list[get_pinhole(d, uid)].flow
  IN /\ \E del \in upnp_delete_inboundpinhole(d, uid, fails) :
          /\ d' = del.d
          /\ Ended(del.r)
          /\ granted' = IF del.r = 0 THEN [granted EXCEPT ![flow] = 0] ELSE granted
     /\ Failed(fails)
     /\ UNCHANGED <<reload, now, saved, owed, restarts>>

DeletePinhole(client, uid, fails) ==
  /\ pc = "loop" /\ InboundAllowed
  /\ uid \in UsedUids(d)
  /\ PinholeVerification(client, d.list[get_pinhole(d, uid)].flow)
  /\ Delete(uid, fails)

(* PCP maps any remote host, and any internal port *)
CreatePCPMap_FW(flow, nonce, lifetime, fails) ==
  LET uid == upnp_find_inboundpinhole(d, flow)
  IN /\ pc = "loop"
     /\ flow.raddr = AnyHost /\ LeaseTimeOK(lifetime)
     /\ \/ /\ uid >= 0
           /\ d.list[get_pinhole(d, uid)].desc = nonce
           /\ d' = upnp_update_inboundpinhole(d, uid, lifetime).d
           /\ Grant(flow, lifetime)
           /\ saved' = {}
           /\ fails = {}
           /\ UNCHANGED pc
        \/ /\ uid < 0
           /\ LET add == upnp_add_inboundpinhole(d, flow, nonce, lifetime, fails)
              IN /\ d' = add.d
                 /\ Ended(add.r)
                 /\ IF add.r \in Uids THEN Grant(flow, lifetime)
                    ELSE UNCHANGED <<granted, owed>>
                 /\ saved' = SavedBy(flow, add.r)
     /\ Failed(fails)
     /\ UNCHANGED <<reload, now, restarts>>

DeletePCPMap(flow, nonce, fails) ==
  LET uid == upnp_find_inboundpinhole(d, flow)
  IN /\ pc = "loop"
     /\ flow.raddr = AnyHost /\ uid >= 0
     /\ d.list[get_pinhole(d, uid)].desc = nonce
     /\ Delete(uid, fails)

-----------------------------------------------------------------------------
(* The process *)

(* Before every select() *)
CleanExpiredPinholes(failing) ==
  /\ pc \in {"sweep", "loop"}
  /\ failing > 0 => /\ "delete" \in Failures /\ faulty < MaxFaults
                    /\ Expired(d.list[failing])
  /\ UNCHANGED <<reload, now, granted, saved, owed, restarts>>
  /\ pc' = "loop"
  /\ faulty' = faulty + (IF failing > 0 THEN 1 ELSE 0)
  /\ d' = upnp_clean_expired_pinholes(d, failing)

(* The process ends, or is ended, and starts again with an empty list.  The *)
(* init scripts have emptied the chain.  reload_from_lease_file6 opens the  *)
(* lease file and unlinks it.  Lines of privileged ports, which PCP grants, *)
(* will be skipped.                                                         *)
Restart ==
  /\ restarts < MaxRestarts
  /\ restarts' = restarts + 1
  /\ d' = [list |-> <<>>, next_uid |-> 1, chain |-> [f \in Flows |-> 0],
           file |-> <<>>]
  /\ reload' = d.file
  /\ pc' = "reload"
  /\ owed' = {f \in owed \cap saved : f.iport >= 1024}
  /\ saved' = {}
  /\ UNCHANGED <<now, granted, faulty>>

(* reload_from_lease_file6 treats one line *)
ReloadLine(fails) ==
  /\ pc = "reload" /\ reload # <<>>
  /\ reload' = Tail(reload)
  /\ LET l == Head(reload)
     IN IF \/ l = Blank
           \/ l # Blank /\ (l.flow.iport < 1024 \/ l.timestamp <= ToUnix(now))
        THEN fails = {} /\ UNCHANGED <<d, pc, saved, owed>>
        ELSE LET leaseduration == l.timestamp - ToUnix(now)
                 add == upnp_add_inboundpinhole(d, l.flow, l.desc,
                                                leaseduration, fails)
             IN /\ d' = add.d
                /\ pc' = IF add.r = Hang THEN "hung" ELSE pc
                /\ saved' = SavedBy(l.flow, add.r)
                /\ owed' = IF add.r \in Uids THEN owed ELSE owed \ {l.flow}
  /\ Failed(fails)
  /\ UNCHANGED <<now, granted, restarts>>

Reloaded ==
  /\ pc = "reload" /\ reload = <<>>
  /\ pc' = "sweep"
  /\ UNCHANGED <<d, reload, now, granted, saved, owed, faulty, restarts>>

Tick ==
  /\ now < MaxTime
  /\ now' = now + 1
  /\ UNCHANGED <<d, pc, reload, granted, saved, owed, faulty, restarts>>

(* The process runs: it reads the lease file to its end, and the loop comes *)
(* back to the sweep, since select() has a timeout.                         *)
Turn ==
  \/ \E failing \in 0..Len(d.list) : CleanExpiredPinholes(failing)
  \/ \E fails \in MayFail({"append", "calloc"}) : ReloadLine(fails)
  \/ Reloaded

Next ==
  \/ \E client \in Clients, flow \in Flows, leasetime \in LeaseTimes,
        fails \in MayFail({"append", "calloc"}) :
       AddPinhole(client, flow, leasetime, fails)
  \/ \E client \in Clients, uid \in Uids, leasetime \in LeaseTimes :
       UpdatePinhole(client, uid, leasetime)
  \/ \E client \in Clients, uid \in Uids, fails \in MayFail({"delete"}) :
       DeletePinhole(client, uid, fails)
  \/ \E flow \in Flows, nonce \in Nonces, lifetime \in LeaseTimes,
        fails \in MayFail({"append", "calloc"}) :
       CreatePCPMap_FW(flow, nonce, lifetime, fails)
  \/ \E flow \in Flows, nonce \in Nonces, fails \in MayFail({"delete"}) :
       DeletePCPMap(flow, nonce, fails)
  \/ Turn
  \/ Restart
  \/ Tick

Spec == Init /\ [][Next]_vars

LiveSpec == Spec /\ WF_vars(Turn)

-----------------------------------------------------------------------------
(* Properties *)

(* No two pinholes have the same UniqueID or let in the same flow, and the  *)
(* chain holds one rule for every pinhole and no other, unless the search   *)
(* for a unique id hangs with the rule already committed: whatever the      *)
(* order of additions, renewals, deletions, expiry, refused ip6tables       *)
(* calls, restarts and turns of next_uid past 65535.                        *)
ListMatchesChain ==
  /\ \A i, j \in DOMAIN d.list :
       i # j => d.list[i].uid # d.list[j].uid /\ d.list[i].flow # d.list[j].flow
  /\ pc # "hung" => \A f \in Flows :
       d.chain[f] = Cardinality({i \in DOMAIN d.list : d.list[i].flow = f})

(* A pinhole stays open until the end of the lease its client was last told *)
(* of, unless it is deleted: a renewal counts, nobody else's request ends   *)
(* it, the sweep does not take it early (clean_pinhole_list), and it is     *)
(* there again with the same end once the lease file has been read after a  *)
(* restart.  The last is not claimed of a pinhole whose line another        *)
(* request rewrote (any renewal: lease_file6_update; an addition with the   *)
(* same first 31 characters: lease_file6_remove), which was not read yet    *)
(* when the process ended once more, which ip6tables then refused, or of a  *)
(* privileged port: the code loses these, or changes their end.             *)
GrantsHonoured ==
  pc \in {"sweep", "loop"} =>
    \A f \in owed : granted[f] > now =>
      /\ d.chain[f] > 0
      /\ \E p \in ToSet(d.list) : p.flow = f /\ p.timestamp = granted[f]

(* The sweep closes an expired pinhole in the end, unless it is renewed:    *)
(* also when ip6tables refuses a deletion, which ends the sweep early and   *)
(* leaves the expired pinholes behind it to the next one.                   *)
ExpiredClosed ==
  \A f \in Flows :
    (\E p \in ToSet(d.list) : p.flow = f /\ Expired(p))
      ~> \/ d.chain[f] = 0
         \/ \E p \in ToSet(d.list) : p.flow = f /\ ~Expired(p)
         \/ pc = "dead"

(* upnp_add_inboundpinhole answers -1 when the pinhole space is exhausted:  *)
(* the search for a unique id ends.                                         *)
SpaceExhaustedAnswered == pc # "hung"

(* A pinhole that was "successfully removed" is not opened again until a    *)
(* client asks for it, restarts included.                                   *)
RemovedForGood == \A f \in Flows : d.chain[f] > 0 => granted[f] # 0
=============================================================================
