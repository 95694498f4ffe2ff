----------------------------- MODULE Discovery -----------------------------
(***************************************************************************)
(* miniupnpd announcing itself (MiniSSDP), a control point that keeps what *)
(* it hears, and a program that searches with ssdpDiscoverDevices() of     *)
(* libminiupnpc.  The steps of the programs are short against the clock:   *)
(* time passes only when all of them wait.                                 *)
(***************************************************************************)
EXTENDS MiniSSDP

CONSTANTS
  Delays,        \* the delay it may give
  Families,      \* TRUE for a search over IPv6
  Strays,        \* other packets that reach the SSDP port
  MaxRepeats     \* answers that reach a search once more (a bound)

ASSUME RepeatsAssumption == MaxRepeats \in Nat

VARIABLES
  heard,     \* the control point: time left for each NT at each group, or -1
  ever,      \* history: what the daemon has announced to it since it started,
             \* unless a byebye came later
  client     \* the call of ssdpDiscoverDevices()

vars == <<setup, up, due, send_list, ssdpq, faults, heard, ever, client>>

Groups == Range(FlattenSeq(Dests))
Heard == [to : Groups, nt : Range(Types)]
Client == "client"

Idle == [pc |-> "idle", types |-> <<>>, all |-> FALSE, ipv6 |-> FALSE, delay |-> 0,
         mx |-> 1, idx |-> 1, linklocal |-> FALSE, left |-> 0,
         elapsed |-> 0, total |-> 0, repeats |-> 0, sock |-> <<>>, devlist |-> <<>>, clean |-> FALSE]

Init ==
  /\ DaemonInit
  /\ heard = [h \in Heard |-> -1]
  /\ ever = {}
  /\ client = Idle

-----------------------------------------------------------------------------
(* The network *)

Take(h, wire) ==
  FoldLeft(LAMBDA acc, m : IF m.kind = "answer" THEN acc
                           ELSE [acc EXCEPT ![[to |-> m.to, nt |-> m.nt]] =
                                              IF m.kind = "alive" THEN m.life ELSE -1],
           h, wire)
Answers(wire) == SelectSeq(wire, LAMBDA m : m.kind = "answer" /\ m.to = Client)
Announced(known, wire) ==
  FoldLeft(LAMBDA acc, m : CASE m.kind = "alive" -> acc \cup {[to |-> m.to, nt |-> m.nt]}
                             [] m.kind = "byebye" -> acc \ {[to |-> m.to, nt |-> m.nt]}
                             [] OTHER -> acc,
           known, wire)

Waiting == client.pc \in {"send", "wait"}

Hear(wire) ==
  /\ heard' = Take(heard, wire)
  /\ ever' = IF up' THEN Announced(ever, wire) ELSE {}
  /\ client' = IF Waiting
               THEN [client EXCEPT !.sock = @ \o Answers(wire),
                                   !.clean = @ /\ up' /\ faults' = faults]
               ELSE client

-----------------------------------------------------------------------------
(* The steps of the daemon *)

Start(res) ==
  LET bye == SendSSDPGoodbye(<<>>, res)
  IN  /\ ~up
      /\ up' = TRUE
      /\ due' \in 0..NotifyInterval
      /\ ssdpq' = <<>>
      /\ UNCHANGED setup
      /\ \/ /\ setup.strict
            /\ send_list' = bye.list
            /\ faults' = faults + Bad(res)
            /\ Hear(bye.wire)
         \/ /\ ~setup.strict /\ Bad(res) = 0
            /\ send_list' = <<>>
            /\ UNCHANGED faults
            /\ Hear(<<>>)

Notify(res) ==
  LET r == SendSSDPNotifies2(send_list, res)
  IN  /\ up /\ due = 0
      /\ send_list' = r.list
      /\ due' \in gen_current_notify_interval
      /\ faults' = faults + Bad(res)
      /\ UNCHANGED <<setup, up, ssdpq>>
      /\ Hear(r.wire)

(* Errors are logged *)
TrySendto(res) ==
  LET list == get_sendto_fds(send_list, 0)
      r == try_sendto(list, res)
  IN  /\ up /\ \E i \in DOMAIN list : list[i].state # "ESCHEDULED"
      /\ send_list' = r.list
      /\ faults' = faults + Bad(res) /\ faults' <= setup.faults
      /\ UNCHANGED <<setup, up, due, ssdpq>>
      /\ Hear(r.wire)

ProcessSSDPRequest ==
  /\ up /\ ssdpq # <<>>
  /\ ssdpq' = Tail(ssdpq)
  /\ UNCHANGED <<setup, up, due, faults>>
  /\ \E r \in ProcessSSDPData(send_list, Head(ssdpq)) :
       send_list' = r.list /\ Hear(r.wire)

(* byebye, then everything that still waits *)
Shutdown(res) ==
  LET bye == SendSSDPGoodbye(send_list, res)
      rest == finalize_sendto(bye.list, [i \in DOMAIN bye.list |-> "sent"])
  IN  /\ up
      /\ up' = FALSE
      /\ send_list' = <<>> /\ ssdpq' = <<>> /\ due' = 0
      /\ faults' = faults + Bad(res)
      /\ UNCHANGED setup
      /\ Hear(bye.wire \o rest)

-----------------------------------------------------------------------------
(* ssdpDiscoverDevices() *)

Unheard == UNCHANGED <<heard, ever>>
NoDaemon == UNCHANGED <<setup, up, due, send_list>>

(* Mutant: a delay below one second is kept *)
WaitTime_AsGiven(delay) == [delay |-> delay, mx |-> Max({delay \div Second, 1})]

WaitTime(delay) ==
  IF delay \div Second = 0 THEN [delay |-> Second, mx |-> 1]
  ELSE [delay |-> delay, mx |-> delay \div Second]

ssdpDiscoverDevices ==
  /\ client.pc = "idle"
  /\ \E types \in setup.searches, delay \in Delays, ipv6 \in Families, all \in BOOLEAN :
       client' = [Idle EXCEPT !.pc = "send", !.types = types, !.ipv6 = ipv6, !.all = all,
                              !.delay = WaitTime(delay).delay, !.mx = WaitTime(delay).mx,
                              !.clean = up]
  /\ UNCHANGED <<ssdpq, faults>> /\ NoDaemon /\ Unheard

(* The socket cannot be opened, configured or bound *)
OpenError ==
  /\ client.pc = "send" /\ client.idx = 1 /\ client.total = 0 /\ ~client.linklocal
  /\ faults < setup.faults
  /\ faults' = faults + 1
  /\ client' = [client EXCEPT !.pc = "done", !.clean = FALSE]
  /\ UNCHANGED ssdpq /\ NoDaemon /\ Unheard

LastType(c) == c.idx = Len(c.types)

(* Mutant: linklocal is never switched back *)
NextType_LinkLocal(c) ==
  LET idx == IF c.ipv6 THEN c.idx ELSE c.idx + 1
  IN  IF idx > Len(c.types) THEN [c EXCEPT !.pc = "done"]
      ELSE [c EXCEPT !.pc = "send", !.idx = idx, !.linklocal = c.ipv6]

(* The end of an iteration of the loop over the types *)
NextType(c) ==
  LET again == c.ipv6 /\ ~c.linklocal
      idx == IF again THEN c.idx ELSE c.idx + 1
  IN  IF idx > Len(c.types) THEN [c EXCEPT !.pc = "done"]
      ELSE [c EXCEPT !.pc = "send", !.idx = idx, !.linklocal = again]

(* The loop that waits is entered for each type, or after the last one *)
Sent(c, ok) ==
  IF (ok /\ ~c.all) \/ LastType(c)
  THEN [c EXCEPT !.pc = "wait", !.left = c.delay, !.elapsed = 0]
  ELSE NextType(c)

SendMSearch ==
  LET m == [kind |-> "M-SEARCH", st |-> client.types[client.idx], mx |-> client.mx,
            from |-> Client, lan |-> TRUE]
  IN  /\ client.pc = "send"
      /\ \/ /\ client' = Sent(client, TRUE)
            /\ ssdpq' = IF up THEN Append(ssdpq, m) ELSE ssdpq
            /\ UNCHANGED faults
         \/ /\ faults < setup.faults /\ faults' = faults + 1
            /\ \E ok \in BOOLEAN : client' = [Sent(client, ok) EXCEPT !.clean = FALSE]
            /\ UNCHANGED ssdpq
      /\ NoDaemon /\ Unheard

Entry(m) == [nt |-> m.nt, usn |-> m.usn]

(* Mutant: duplicates are kept *)
Add_Always(c, m) ==
  LET added == [c EXCEPT !.devlist = <<Entry(m)>> \o @]
  IN  IF c.elapsed > c.delay THEN NextType(added) ELSE [added EXCEPT !.left = c.delay]

(* A duplicate goes back to receivedata() without a look at the clock *)
Add(c, m) ==
  LET added == [c EXCEPT !.devlist = <<Entry(m)>> \o @]
  IN  CASE Entry(m) \in Range(c.devlist) -> [c EXCEPT !.left = c.delay]
        [] Entry(m) \notin Range(c.devlist) /\ c.elapsed > c.delay -> NextType(added)
        [] OTHER -> [added EXCEPT !.left = c.delay]

ReceiveReply ==
  /\ client.pc = "wait" /\ client.sock # <<>>
  /\ client' = Add([client EXCEPT !.sock = Tail(@)], Head(client.sock))
  /\ UNCHANGED <<ssdpq, faults>> /\ NoDaemon /\ Unheard

(* receivedata() times out *)
ReceiveTimeout ==
  /\ client.pc = "wait" /\ client.sock = <<>> /\ client.left = 0
  /\ client' = IF client.devlist # <<>> /\ ~client.all
               THEN [client EXCEPT !.pc = "done"] ELSE NextType(client)
  /\ UNCHANGED <<ssdpq, faults>> /\ NoDaemon /\ Unheard

(* recvfrom() or malloc() fails *)
ReceiveError ==
  /\ client.pc = "wait" /\ faults < setup.faults
  /\ faults' = faults + 1
  /\ client' = [client EXCEPT !.pc = "done", !.clean = FALSE]
  /\ UNCHANGED ssdpq /\ NoDaemon /\ Unheard

(* The caller has the list *)
Return ==
  /\ client.pc = "done"
  /\ client' = Idle
  /\ UNCHANGED <<ssdpq, faults>> /\ NoDaemon /\ Unheard

ClientStep ==
  Return \/ ssdpDiscoverDevices \/ OpenError \/ SendMSearch
  \/ ReceiveReply \/ ReceiveTimeout \/ ReceiveError

-----------------------------------------------------------------------------
Stray ==
  /\ up /\ ssdpq = <<>>
  /\ \E m \in Strays : ssdpq' = <<m>>
  /\ UNCHANGED <<faults, client>> /\ NoDaemon /\ Unheard

(* A device, or the network, repeats an answer that the search has had *)
Repeat ==
  /\ client.pc = "wait" /\ client.sock = <<>> /\ client.repeats < MaxRepeats
  /\ \E e \in Range(client.devlist) :
       client' = [client EXCEPT !.sock = <<e>>, !.repeats = @ + 1]
  /\ UNCHANGED <<ssdpq, faults>> /\ NoDaemon /\ Unheard

(* History: total is the time the call has taken, counted up to the limit  *)
(* of a search that repeated answers prolong the most                      *)
TimeLimit == Len(client.types) * (IF client.ipv6 THEN 2 ELSE 1) * 2 * client.delay
LastLimit == TimeLimit + MaxRepeats * client.delay

Tick ==
  /\ DaemonTick
  /\ \/ client.pc = "idle"
     \/ client.pc = "wait" /\ client.sock = <<>> /\ client.left > 0
  /\ heard' = [h \in Heard |-> Max({heard[h] - 1, -1})]
  /\ client' = IF client.pc = "wait"
               THEN [client EXCEPT !.left = @ - 1,
                                   !.elapsed = Min({@ + 1, client.delay + 1}),
                                   !.total = Min({@ + 1, LastLimit + 1})]
               ELSE client
  /\ UNCHANGED ever

Next ==
  \/ \E res \in Outcomes(SetSize) : Notify(res)
  \/ \E res \in TryResults(get_sendto_fds(send_list, 0), {"sent"} \cup setup.failing) :
       TrySendto(res)
  \/ ProcessSSDPRequest
  \/ \E res \in Outcomes(SetSize) : Start(res) \/ Shutdown(res)
  \/ ClientStep \/ Stray \/ Repeat \/ Tick

Spec == Init /\ [][Next]_vars

-----------------------------------------------------------------------------
TypeOK ==
  /\ faults \in 0..setup.faults
  /\ \A h \in Heard : heard[h] \in -1..Lifetime
  /\ \A i, j \in DOMAIN client.devlist :
       client.devlist[i] = client.devlist[j] => i = j

(* While the daemon runs, a control point that was told of a type and has  *)
(* had no byebye since never sees it expire, whichever three datagrams are *)
(* delayed or lost: the copies and twice the interval in max-age are       *)
(* enough.                                                                 *)
NeverExpires == up => \A h \in ever : heard[h] >= 0

(* What a running daemon announced stays announced: the byebye of the      *)
(* start-up comes before the first alive.                                  *)
ByebyeFirst == [][up /\ up' => ever \subseteq ever']_vars

(* After the shutdown the control point knows of nothing any more.         *)
GoneAfterShutdown == ~up /\ faults = 0 => \A h \in Heard : heard[h] = -1

(* A search that nothing disturbed finds the daemon if it offers one of    *)
(* the types, and every one of them that it offers when all are asked for. *)
Offered(st) == \/ st.base = "ssdp:all" \/ st.base \in Range(Uuids)
               \/ \E k \in Range(Known) : /\ k.s = st.base
                                          /\ setup.strict => st.ver <= k.ver
Found(st) == \/ st.base = "ssdp:all"
             \/ \E e \in Range(client.devlist) : e.nt.base = st.base
SearchFinds ==
  client.pc = "done" /\ client.clean =>
    LET offered == {st \in Range(client.types) : Offered(st)}
    IN  /\ offered # {} => client.devlist # <<>>
        /\ client.all => \A st \in offered : Found(st)

(* A search waits at most twice the delay for each of its datagrams, late  *)
(* answers included, and once more for every answer that is repeated: a    *)
(* duplicate goes back to receivedata() without a look at the clock.       *)
SearchInTime ==
  client.pc # "idle" => client.total <= TimeLimit + client.repeats * client.delay
=============================================================================
