----------------------------- MODULE UpnpEvents -----------------------------
(***************************************************************************)
(* GENA eventing of miniupnpd (miniupnpd/upnpevents.c) inside the          *)
(* single-threaded select() loop of miniupnpd/miniupnpd.c.                 *)
(*                                                                         *)
(* Two linked lists point at each other: a subscriber holds the            *)
(* notification being sent to it (sub->notify), a notification holds its   *)
(* subscriber (obj->sub).  Control points subscribe, renew and unsubscribe *)
(* while notifications are at any stage of their connect / send / receive  *)
(* state machine.  Memory is modelled by the status of each structure, so  *)
(* that a dangling pointer is a state and not undefined behaviour.         *)
(***************************************************************************)
EXTENDS Naturals, FiniteSets

CONSTANTS
  Subs,        \* identities (uuid) of struct subscriber, never reused
  Notifs,      \* memory cells for struct upnp_event_notify
  Services,    \* enum subscriber_service_enum
  NULL,        \* the null pointer
  Timeouts,    \* subscription durations asked for, 0 stands for infinite
  MaxTime,     \* bound on the clock
  MaxVersion,  \* bound on the changes of the evented variables
  UpnpStrict,  \* compiled with UPNP_STRICT
  MayFail      \* calloc(), socket() and fcntl() may fail

ASSUME EventsAssumption ==
  /\ NULL \notin Subs \cup Notifs
  /\ Timeouts \subseteq Nat
  /\ MaxTime \in Nat /\ MaxVersion \in Nat
  /\ UpnpStrict \in BOOLEAN /\ MayFail \in BOOLEAN

VARIABLES
  subs,      \* subscriberlist: the struct subscriber of each identity
  notifs,    \* notifylist: the content of each cell
  version,   \* value of the evented variables, as a change count
  got,       \* what each control point has received so far
  watched,   \* notifications whose socket is in the fd_sets given to select()
  loop,      \* where the main loop is: running handlers or inside select()
  now        \* upnp_time()

vars == <<subs, notifs, version, got, watched, loop, now>>

(* Once prepared, a notification carries the SID, the SEQ and the          *)
(* variables' value that upnp_event_prepare() printed into its buffer.     *)
Messages == [sid : Subs, seq : Nat, ver : Nat]

NotifyStates == {"ECreated", "EConnecting", "ESending",
                 "EWaitingForResponse", "EFinished", "EError"}

FreeNotify == [state |-> "free", sub |-> NULL, msg |-> NULL]

Listed == {s \in Subs : subs[s].status = "listed"}
Allocated == {n \in Notifs : notifs[n].state # "free"}

TypeOK ==
  /\ subs \in [Subs -> [status  : {"unborn", "listed", "freed"},
                        service : Services,
                        timeout : Nat,
                        seq     : Nat,
                        notify  : Notifs \cup {NULL}]]
  /\ notifs \in [Notifs -> [state : NotifyStates \cup {"free"},
                            sub   : Subs \cup {NULL},
                            msg   : Messages \cup {NULL}]]
  /\ version \in [Services -> Nat]
  /\ got \in [Subs -> [count : Nat, seq : Nat, ver : Nat]]
  /\ watched \in SUBSET Notifs
  /\ loop \in {"handlers", "select"}
  /\ now \in Nat

Init ==
  /\ \E svc \in [Subs -> Services] :
       subs = [s \in Subs |-> [status |-> "unborn", service |-> svc[s],
                               timeout |-> 0, seq |-> 0, notify |-> NULL]]
  /\ notifs = [n \in Notifs |-> FreeNotify]
  /\ version = [v \in Services |-> 0]
  /\ got = [s \in Subs |-> [count |-> 0, seq |-> 0, ver |-> 0]]
  /\ watched = {}
  /\ loop = "handlers"
  /\ now = 0

-----------------------------------------------------------------------------
(* Handlers.  They run between two calls of select().                      *)

(* Operators named X_Slip are faulty versions of the operator X they precede:*)
(* what a plausible slip in the C function would do.  The specification     *)
(* never uses them; they show which slips the properties notice.            *)

Deadline_WrongSign(timeout) == IF timeout = 0 THEN 0 ELSE now - timeout

(* timeout field for a requested duration; 0 never expires *)
Deadline(timeout) == IF timeout = 0 THEN 0 ELSE now + timeout

(* upnp_event_create_notify() for every subscriber of `pending`: allot is  *)
(* an injection into free cells, defined on those whose allocation worked. *)
Allotments(pending) ==
  {allot \in UNION {[S -> Notifs \ Allocated] : S \in SUBSET pending} :
     /\ \A s, t \in DOMAIN allot : allot[s] = allot[t] => s = t
     /\ MayFail \/ DOMAIN allot = pending}

Created(allot) ==
  [n \in Notifs |-> IF \E s \in DOMAIN allot : allot[s] = n
                    THEN [state |-> "ECreated", msg |-> NULL,
                          sub |-> CHOOSE s \in DOMAIN allot : allot[s] = n]
                    ELSE notifs[n]]

(* SUBSCRIBE with a Callback: header; the callback URL itself is abstracted *)
(* to the outcome of connecting to it.                                      *)
upnpevents_addSubscriber(s, timeout) ==
  /\ loop = "handlers"
  /\ subs[s].status = "unborn"
  /\ \E allot \in Allotments({s}) :
       /\ notifs' = Created(allot)
       /\ subs' = [subs EXCEPT ![s] =
                     [status |-> "listed", service |-> @.service,
                      timeout |-> Deadline(timeout), seq |-> 0,
                      notify |-> IF s \in DOMAIN allot THEN allot[s] ELSE NULL]]
  /\ UNCHANGED <<version, got, watched, loop, now>>

Expired(s) == subs[s].timeout # 0 /\ now > subs[s].timeout

(* SUBSCRIBE with a SID: header *)
upnpevents_renewSubscription(s, timeout) ==
  /\ loop = "handlers"
  /\ s \in Listed
  /\ ~(UpnpStrict /\ Expired(s))
  /\ subs' = [subs EXCEPT ![s].timeout = Deadline(timeout)]
  /\ UNCHANGED <<notifs, version, got, watched, loop, now>>

(* LIST_REMOVE() and free(): nothing may be read from the structure again *)
Freed(sub) ==
  [status |-> "freed", service |-> sub.service, timeout |-> 0, seq |-> 0,
   notify |-> NULL]

upnpevents_removeSubscriber_KeepsBackPointer(s) ==
  /\ loop = "handlers"
  /\ s \in Listed
  /\ subs' = [subs EXCEPT ![s] = Freed(@)]
  /\ UNCHANGED <<notifs, version, got, watched, loop, now>>

(* UNSUBSCRIBE *)
upnpevents_removeSubscriber(s) ==
  /\ loop = "handlers"
  /\ s \in Listed
  /\ notifs' = IF subs[s].notify = NULL THEN notifs
               ELSE [notifs EXCEPT ![subs[s].notify].sub = NULL]
  /\ subs' = [subs EXCEPT ![s] = Freed(@)]
  /\ UNCHANGED <<version, got, watched, loop, now>>

ToNotify_EvenIfBusy(service) == {s \in Listed : subs[s].service = service}

ToNotify(service) ==
  {s \in Listed : subs[s].service = service /\ subs[s].notify = NULL}

(* A handler changes an evented variable of the service (a port mapping is *)
(* added or removed, the external address moves) and reports it.           *)
upnp_event_var_change_notify(service) ==
  /\ loop = "handlers"
  /\ version[service] < MaxVersion
  /\ version' = [version EXCEPT ![service] = @ + 1]
  /\ \E allot \in Allotments(ToNotify(service)) :
       /\ notifs' = Created(allot)
       /\ subs' = [s \in Subs |-> IF s \in DOMAIN allot
                                  THEN [subs[s] EXCEPT !.notify = allot[s]]
                                  ELSE subs[s]]
  /\ UNCHANGED <<got, watched, loop, now>>

-----------------------------------------------------------------------------
(* The event part of one turn of the select() loop.                        *)

upnp_event_notify_connect_StateKept(obj, ok) ==
  IF obj.sub # NULL /\ ok THEN obj ELSE [obj EXCEPT !.state = "EError"]

(* upnp_event_notify_connect(): connect() is started, or fails at once (bad *)
(* URL included); without a subscriber there is nobody to connect to.       *)
upnp_event_notify_connect(obj, ok) ==
  [obj EXCEPT !.state = IF obj.sub # NULL /\ ok THEN "EConnecting"
                                                ELSE "EError"]

(* `reachable`: the cells whose connect() does not fail at once *)
upnpevents_selectfds(reachable) ==
  LET obj(n) == IF notifs[n].state = "ECreated"
                THEN upnp_event_notify_connect(notifs[n], n \in reachable)
                ELSE notifs[n]
  IN /\ loop = "handlers"
     /\ notifs' = [n \in Notifs |-> obj(n)]
     /\ watched' = {n \in Notifs : obj(n).state \in
                      {"EConnecting", "ESending", "EWaitingForResponse"}}
     /\ loop' = "select"
     /\ UNCHANGED <<subs, version, got, now>>

(* select() is interrupted by a signal: the loop starts again *)
SelectInterrupted ==
  /\ loop = "select"
  /\ loop' = "handlers"
  /\ watched' = {}
  /\ UNCHANGED <<subs, notifs, version, got, now>>

(* What the socket calls made for one ready notification answer: they      *)
(* fail, transfer only a part (EAGAIN, EINTR), or complete.                *)
Outcomes == {"fail", "again", "ok"}

(* The NOTIFY is printed into obj->buffer from the subscriber, which must  *)
(* still be there: obj->path points into its callback string.              *)
upnp_event_prepare(obj) ==
  IF obj.sub = NULL
  THEN [obj EXCEPT !.state = "EError"]
  ELSE [obj EXCEPT !.state = "ESending",
                   !.msg = [sid |-> obj.sub, seq |-> subs[obj.sub].seq,
                            ver |-> version[subs[obj.sub].service]]]

upnp_event_send(obj, outcome) ==
  [obj EXCEPT !.state = IF outcome = "fail" THEN "EError"
                        ELSE IF outcome = "again" THEN "ESending"
                        ELSE "EWaitingForResponse"]

upnp_event_recv(obj, outcome) ==
  [obj EXCEPT !.state = IF outcome = "fail" THEN "EError"
                        ELSE IF outcome = "again" THEN "EWaitingForResponse"
                        ELSE "EFinished"]

upnp_event_process_notify(obj, outcome) ==
  IF obj.state = "EConnecting" THEN
    IF outcome = "fail" THEN [obj EXCEPT !.state = "EError"]
    ELSE LET p == upnp_event_prepare(obj)
         IN IF p.state = "ESending" THEN upnp_event_send(p, outcome) ELSE p
  ELSE IF obj.state = "ESending" THEN upnp_event_send(obj, outcome)
  ELSE IF obj.state = "EWaitingForResponse" THEN upnp_event_recv(obj, outcome)
  ELSE obj                               \* "unknown state" is only logged

Over_OnlyFinished(obj) == obj.state = "EFinished"

Over(obj) == obj.state \in {"EError", "EFinished"}

Lapsed_Inverted(s, notify) ==
  subs[s].timeout # 0 /\ now < subs[s].timeout /\ notify = NULL

Lapsed(s, notify) == Expired(s) /\ notify = NULL

(* The first loop of upnpevents_processfds(): the ready notifications move *)
Processed(ready, outcome) ==
  [n \in Notifs |-> IF n \in ready
                    THEN upnp_event_process_notify(notifs[n], outcome[n])
                    ELSE notifs[n]]

(* The subscriber after the second and third loops: released from a        *)
(* finished notification, or removed because it failed or its time is over *)
Reaped(s, after, ready) ==
  LET mine == {n \in Notifs : after[n].sub = s}
      failed == \E n \in mine : after[n].state = "EError"
      acked == \E n \in mine \cap ready : after[n].state = "EFinished"
      notify == IF \E n \in mine : Over(after[n]) THEN NULL ELSE subs[s].notify
  IN IF s \in Listed /\ (failed \/ Lapsed(s, notify))
     THEN Freed(subs[s])
     ELSE [status |-> subs[s].status, service |-> subs[s].service,
           timeout |-> subs[s].timeout, notify |-> notify,
           seq |-> IF acked THEN subs[s].seq + 1 ELSE subs[s].seq]

(* A NOTIFY whose last byte has been sent reaches the control point *)
Received(s, after, ready) ==
  LET arrived(n) == /\ notifs[n].state # "EWaitingForResponse"
                    /\ after[n].state = "EWaitingForResponse"
                    /\ after[n].msg.sid = s
  IN IF \E n \in ready : arrived(n)
     THEN LET m == after[CHOOSE n \in ready : arrived(n)].msg
          IN [count |-> got[s].count + 1, seq |-> m.seq, ver |-> m.ver]
     ELSE got[s]

(* upnpevents_processfds(): process the ready notifications, then release  *)
(* the finished and failed ones (a failure also removes the subscriber),   *)
(* then remove the subscribers whose time is over.                         *)
upnpevents_processfds(ready, outcome) ==
  LET after == Processed(ready, outcome)
  IN /\ loop = "select"
     /\ subs' = [s \in Subs |-> Reaped(s, after, ready)]
     /\ notifs' = [n \in Notifs |-> IF Over(after[n]) THEN FreeNotify
                                                      ELSE after[n]]
     /\ got' = [s \in Subs |-> Received(s, after, ready)]
     /\ watched' = {}
     /\ loop' = "handlers"
     /\ UNCHANGED <<version, now>>

Tick ==
  /\ now < MaxTime
  /\ now' = now + 1
  /\ UNCHANGED <<subs, notifs, version, got, watched, loop>>

-----------------------------------------------------------------------------

Handler ==
  \/ \E s \in Subs, t \in Timeouts : upnpevents_addSubscriber(s, t)
  \/ \E s \in Subs, t \in Timeouts : upnpevents_renewSubscription(s, t)
  \/ \E s \in Subs : upnpevents_removeSubscriber(s)
  \/ \E v \in Services : upnp_event_var_change_notify(v)

SelectFds == \E reachable \in SUBSET Notifs : upnpevents_selectfds(reachable)

ProcessFds == \E ready \in SUBSET watched : \E outcome \in [ready -> Outcomes] :
                upnpevents_processfds(ready, outcome)

Next == Handler \/ SelectFds \/ SelectInterrupted \/ ProcessFds \/ Tick

Spec == Init /\ [][Next]_vars

(* The peer of notification n makes progress in this turn of the loop *)
PeerAnswers(n) ==
  \E ready \in SUBSET watched : \E outcome \in [ready -> Outcomes] :
    /\ n \in ready
    /\ outcome[n] # "again"
    /\ upnpevents_processfds(ready, outcome)

(* The loop turns for ever, select() always returns (its timeout is        *)
(* finite), and TCP eventually delivers or resets each connection.         *)
LoopFairness == WF_vars(SelectFds) /\ SF_vars(ProcessFds)
PeerFairness == \A n \in Notifs : SF_vars(PeerAnswers(n))

FairSpec == Spec /\ LoopFairness /\ PeerFairness

-----------------------------------------------------------------------------
(* Properties *)

(* No dangling pointer: sub->notify and obj->sub always designate live     *)
(* structures that point back at each other.  upnpevents_removeSubscriber, *)
(* the error path and the timeout path of upnpevents_processfds each free  *)
(* one side and must have cut the other.                                   *)
PointersConsistent ==
  /\ \A n \in Allocated :
       notifs[n].sub # NULL => /\ notifs[n].sub \in Listed
                               /\ subs[notifs[n].sub].notify = n
  /\ \A s \in Listed :
       subs[s].notify # NULL => /\ subs[s].notify \in Allocated
                                /\ notifs[subs[s].notify].sub = s

(* The NOTIFYs a control point receives are numbered 0, 1, 2, ... without  *)
(* gap or repetition: the SEQ printed by upnp_event_prepare() is only      *)
(* advanced by upnp_event_recv(), one notification later.                  *)
SeqConsecutive ==
  \A s \in Subs : got[s].count > 0 => got[s].seq + 1 = got[s].count

(* upnpevents_processfds() reclaims every subscriber whose time is over,   *)
(* unless it is renewed, although it skips those being notified.           *)
ExpiredRemoved ==
  \A s \in Subs : (s \in Listed /\ Expired(s)) ~> ~(s \in Listed /\ Expired(s))

(* No leak: every notification, orphaned ones included, is released.       *)
NotifyReleased == \A n \in Notifs : n \in Allocated ~> n \notin Allocated

(* upnpevents_addSubscriber() initiates the first NOTIFY: each subscriber  *)
(* gets an event or is dropped, unless the memory or the socket for it was *)
(* refused.                                                                *)
InitialEvent ==
  \A s \in Subs : (s \in Listed /\ subs[s].notify # NULL)
                     ~> (s \notin Listed \/ got[s].count > 0)

(* "notifies all subscriber of a number of port mapping change or external *)
(* ip address change" (comment of upnp_event_var_change_notify): every     *)
(* value of the variables reaches each subscriber, itself or a later one.  *)
EveryChangeNotified ==
  \A s \in Subs, v \in 1..MaxVersion :
    (s \in Listed /\ version[subs[s].service] = v)
      ~> (s \notin Listed \/ got[s].ver >= v)

=============================================================================
