---------------------------- MODULE AsyncSendto ----------------------------
(***************************************************************************)
(* The queue of datagrams of miniupnpd and minissdpd (asyncsendto.c, the   *)
(* same file in both): a datagram is sent at once if the socket takes it,  *)
(* otherwise, or when a delay is asked for, it waits in send_list for the  *)
(* main loop.  The operators below are functions of the list; the modules  *)
(* that keep a send_list apply them.  What sendto() and malloc() answer is *)
(* an argument: "sent", "again" (EAGAIN), "intr" (EINTR), "error", and     *)
(* "nomem" when malloc() fails.                                            *)
(***************************************************************************)
EXTENDS Integers, SequencesExt, FiniteSetsExt

SendResults == {"sent", "again", "intr", "error", "nomem"}

(* The elements of the list whose mark, in the sequence marks, is in R *)
Marked(list, marks, R) ==
  LET pairs == [i \in DOMAIN list |-> [e |-> list[i], m |-> marks[i]]]
      chosen == SelectSeq(pairs, LAMBDA x : x.m \in R)
  IN  [i \in DOMAIN chosen |-> chosen[i].e]

(* The datagram m asked for at the time now: the list afterwards, and the  *)
(* datagrams that went out                                                 *)
sendto_schedule2(list, m, delay, now, res) ==
  LET state == CASE delay > 0     -> "ESCHEDULED"
                 [] res = "again" -> "EWAITREADY"
                 [] OTHER         -> "ESENDNOW"
      queued == [ts |-> now + delay, state |-> state, msg |-> m]
      atOnce == delay = 0 /\ res = "sent"
      lost == res = "nomem" \/ (delay = 0 /\ res = "error")
  IN  [list |-> IF atOnce \/ lost THEN list ELSE <<queued>> \o list,
       wire |-> IF atOnce THEN <<m>> ELSE <<>>]

get_next_scheduled_send(list) == Min({list[i].ts : i \in DOMAIN list})

(* Before select(): what is due becomes ESENDNOW *)
get_sendto_fds(list, now) ==
  [i \in DOMAIN list |->
     IF list[i].state # "EWAITREADY" /\ list[i].ts <= now
     THEN [list[i] EXCEPT !.state = "ESENDNOW"]
     ELSE list[i]]

(* The answers try_sendto() may get for the elements of list, in which     *)
(* "later" stands for the elements it leaves alone                         *)
TryResults(list, results) ==
  {res \in [DOMAIN list -> (results \ {"nomem"}) \cup {"later"}] :
     \A i \in DOMAIN list :
        CASE list[i].state = "ESENDNOW"   -> res[i] # "later"
          [] list[i].state = "ESCHEDULED" -> res[i] = "later"
          [] OTHER                        -> TRUE}

(* Mutant: what was sent stays in the list *)
try_sendto_Keep(list, res) ==
  LET sent == Marked(list, res, {"sent"})
  IN  [list |-> Marked(list, res, {"sent", "again", "intr", "later"}),
       wire |-> [i \in DOMAIN sent |-> sent[i].msg],
       ret  |-> - Cardinality({i \in DOMAIN list : res[i] = "error"})]

(* After select(): the list afterwards, the datagrams sent in the order of *)
(* the list, and the value returned                                        *)
try_sendto(list, res) ==
  LET after == [i \in DOMAIN list |->
                  CASE res[i] = "again" -> [list[i] EXCEPT !.state = "EWAITREADY"]
                    [] res[i] = "intr"  -> [list[i] EXCEPT !.state = "ESENDNOW"]
                    [] OTHER            -> list[i]]
      sent == Marked(list, res, {"sent"})
  IN  [list |-> Marked(after, res, {"again", "intr", "later"}),
       wire |-> [i \in DOMAIN sent |-> sent[i].msg],
       ret  |-> - Cardinality({i \in DOMAIN list : res[i] = "error"})]

(* At exit every datagram is tried, the delayed ones too: in the order of  *)
(* the list, then those that got EAGAIN, of which some still wait when     *)
(* FINALIZE_SENDTO_DELAY is over                                           *)
finalize_sendto(list, res) ==
  LET sent == Marked(list, res, {"sent"}) \o Marked(list, res, {"again"})
  IN  [i \in DOMAIN sent |-> sent[i].msg]
=============================================================================
