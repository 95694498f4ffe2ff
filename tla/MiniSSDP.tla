------------------------------ MODULE MiniSSDP ------------------------------
(***************************************************************************)
(* SSDP in miniupnpd (minissdp.c and its part of the main loop): NOTIFY    *)
(* ssdp:alive sets, each datagram sent twice, repeated before they expire, *)
(* delayed answers to M-SEARCH, ssdp:byebye at start-up and at shutdown.   *)
(*                                                                         *)
(* Every time is relative to the present: Tick, in the module that         *)
(* composes this one with the network, counts all of them down.            *)
(***************************************************************************)
EXTENDS AsyncSendto

CONSTANTS
  Known,          \* known_service_types: [s, ver, uuid, device]
  Uuids,          \* uuidvalue_igd, uuidvalue_wan, uuidvalue_wcd
  Dests,          \* destinations of each notify socket: the IPv4 group, or
                  \* the IPv6 groups, or <<>> for a socket that is not open
  Setups,         \* [strict, delayed, failing, faults, searches]: UPNP_STRICT
                  \* and DELAY_MSEARCH_RESPONSE of config.h; what may go wrong
                  \* and how often (a bound); what clients search for
  NotifyInterval, \* notify_interval
  JitterMax,      \* the largest random() & 0x3f: 63
  RepeatDelay,    \* 250 ms
  AnswerDelay,    \* 50 ms
  Second          \* one second, in the unit of the others

ASSUME MiniSSDPAssumption ==
  /\ NotifyInterval \in Nat /\ JitterMax \in Nat
  /\ RepeatDelay \in 1..NotifyInterval /\ AnswerDelay \in Nat
  /\ Second \in Nat \ {0}
  /\ \A b \in Setups : b.faults \in Nat /\ b.failing \subseteq {"again", "intr", "error"}

VARIABLES
  setup,
  up,          \* the main loop runs
  due,         \* time left until the next NOTIFY set
  send_list,   \* asyncsendto.c
  ssdpq,       \* packets in the receive buffers of sudp and sudpv6
  faults       \* datagrams delayed, refused or lost

Uuid(s) == [base |-> s, ver |-> 0]
NT(k) == [base |-> k.s, ver |-> k.ver]

(* The NT: headers of a set: each type and, for devices, also their uuid *)
Types ==
  FoldLeft(LAMBDA acc, k : acc \o IF k.device THEN <<NT(k), Uuid(k.uuid)>> ELSE <<NT(k)>>,
           <<>>, Known)

(* One message for each type, for each destination of each open socket *)
Set(kind, life) ==
  FoldLeft(LAMBDA acc, dest : acc \o [i \in DOMAIN Types |->
             [kind |-> kind, nt |-> Types[i], to |-> dest, life |-> life]],
           <<>>, FlattenSeq(Dests))

(* What sendto() answers for n datagrams.  One that is lost on the network *)
(* is like one that is refused ("error").                                  *)
Outcomes(n) ==
  {[i \in 1..n |-> IF i \in bad THEN how ELSE "sent"] :
     bad \in {B \in SUBSET (1..n) : Cardinality(B) <= setup.faults - faults},
     how \in setup.failing}
Bad(res) == Cardinality({i \in DOMAIN res : res[i] \notin {"sent", "later"}})

-----------------------------------------------------------------------------
(* NOTIFY *)

(* Mutant: announced for one interval only *)
Lifetime_Once == NotifyInterval

Lifetime == NotifyInterval * 2

gen_current_notify_interval ==
  IF NotifyInterval > JitterMax + 2
  THEN {NotifyInterval - 1 - r : r \in 0..JitterMax}
  ELSE {NotifyInterval}

(* acc is the list and the wire so far: the datagram now, and its copy *)
SendSSDPNotify(acc, m, res) ==
  LET first == sendto_schedule2(acc.list, m, 0, 0, res)
      second == sendto_schedule2(first.list, m, RepeatDelay, 0, "sent")
  IN  [list |-> second.list, wire |-> acc.wire \o first.wire]

SendSSDPbyebye(acc, m, res) ==
  LET r == sendto_schedule2(acc.list, m, 0, 0, res)
  IN  [list |-> r.list, wire |-> acc.wire \o r.wire]

SendSSDPNotifies2(list, res) ==
  LET set == Set("alive", Lifetime)
  IN  FoldLeft(LAMBDA acc, i : SendSSDPNotify(acc, set[i], res[i]),
               [list |-> list, wire |-> <<>>], [i \in DOMAIN set |-> i])

SendSSDPGoodbye(list, res) ==
  LET set == Set("byebye", 0)
  IN  FoldLeft(LAMBDA acc, i : SendSSDPbyebye(acc, set[i], res[i]),
               [list |-> list, wire |-> <<>>], [i \in DOMAIN set |-> i])

SetSize == Len(Set("byebye", 0))

-----------------------------------------------------------------------------
(* M-SEARCH *)

(* Strict builds want an MX header, the others replace a bad one *)
MX(m) == CASE m.mx > 5 -> 5
           [] m.mx <= 0 -> 1
           [] OTHER -> m.mx
Ignored(m) == ~m.lan \/ m.kind # "M-SEARCH" \/ (setup.strict /\ m.mx <= 0)

Random(m) == IF setup.delayed THEN 0..(MX(m) * Second - 1) ELSE {AnswerDelay}
Spread(m, i) ==
  AnswerDelay + IF setup.delayed THEN i * ((MX(m) * Second) \div 15) ELSE 0

SendSSDPResponse(list, m, st, uuid, delay) ==
  sendto_schedule2(list, [kind |-> "answer", nt |-> st, usn |-> uuid, to |-> m.from],
                   delay, 0, "sent")

(* The first type that the ST: header begins with answers with its version *)
Single(m) ==
  LET found == {i \in DOMAIN Known : /\ Known[i].s = m.st.base
                                     /\ setup.strict => m.st.ver <= Known[i].ver}
  IN  IF found = {} THEN <<>>
      ELSE << [nt |-> NT(Known[Min(found)]), usn |-> Known[Min(found)].uuid] >>
ByUuid(m) ==
  LET found == {i \in DOMAIN Uuids : Uuids[i] = m.st.base}
  IN  IF found = {} THEN <<>> ELSE << [nt |-> m.st, usn |-> m.st.base] >>
All == [i \in DOMAIN Known |-> [nt |-> NT(Known[i]), usn |-> Known[i].uuid]]
       \o [i \in DOMAIN Uuids |-> [nt |-> Uuid(Uuids[i]), usn |-> Uuids[i]]]

(* The lists that may result *)
ProcessSSDPData(list, m) ==
  CASE Ignored(m) -> {[list |-> list, wire |-> <<>>]}
    [] ~Ignored(m) /\ m.st.base = "ssdp:all" ->
         {FoldLeft(LAMBDA acc, i : LET r == SendSSDPResponse(acc.list, m, All[i].nt, All[i].usn,
                                                             Spread(m, i))
                                   IN  [list |-> r.list, wire |-> acc.wire \o r.wire],
                   [list |-> list, wire |-> <<>>], [i \in DOMAIN All |-> i])}
    [] OTHER ->
         LET a == Single(m) \o ByUuid(m)
         IN  IF a = <<>> THEN {[list |-> list, wire |-> <<>>]}
             ELSE {SendSSDPResponse(list, m, a[1].nt, a[1].usn, t) : t \in Random(m)}

-----------------------------------------------------------------------------
(* The daemon.  Its steps that send are in Discovery, beside what becomes  *)
(* of the datagrams.                                                       *)

(* Since the clock counts from boot and lasttimeofday from 0, the first    *)
(* set waits until the host has been up for an interval                    *)
DaemonInit ==
  /\ setup \in Setups
  /\ up = FALSE
  /\ due = 0
  /\ send_list = <<>>
  /\ ssdpq = <<>>
  /\ faults = 0

(* select() would not sleep *)
DaemonBusy ==
  up /\ (due = 0 \/ ssdpq # <<>> \/ \E i \in DOMAIN send_list : send_list[i].ts <= 0)

DaemonTick ==
  /\ ~DaemonBusy
  /\ due' = Max({due - 1, 0})
  /\ send_list' = [i \in DOMAIN send_list |-> [send_list[i] EXCEPT !.ts = Max({@ - 1, 0})]]
  /\ UNCHANGED <<setup, up, ssdpq, faults>>
=============================================================================
