-------------------------- MODULE UpnpEventsProofs --------------------------
(***************************************************************************)
(* Theorems about UpnpEvents, for any number of subscribers, notification  *)
(* cells and services.                                                     *)
(***************************************************************************)
EXTENDS UpnpEvents, TLAPS

(* A notification being sent or answered has its message in its buffer:    *)
(* needed for the typing of got.                                           *)
MessagePrepared ==
  \A n \in Notifs : notifs[n].state \in {"ESending", "EWaitingForResponse"}
                      => notifs[n].msg \in Messages

SubRecords == [status  : {"unborn", "listed", "freed"}, service : Services,
               timeout : Nat, seq : Nat, notify : Notifs \cup {NULL}]

NotifyRecords == [state : NotifyStates \cup {"free"}, sub : Subs \cup {NULL},
                  msg   : Messages \cup {NULL}]

(* Typing as an inductive invariant *)
TypeInv == TypeOK /\ MessagePrepared

(* What an allotment of cells to subscribers is *)
LEMMA AllotmentFacts ==
  ASSUME NEW pending \in SUBSET Subs, NEW allot \in Allotments(pending)
  PROVE  /\ DOMAIN allot \subseteq pending
         /\ allot \in [DOMAIN allot -> Notifs]
         /\ \A s \in DOMAIN allot : allot[s] \in Notifs /\ allot[s] \notin Allocated
         /\ \A s, t \in DOMAIN allot : allot[s] = allot[t] => s = t
<1>1. PICK S \in SUBSET pending : allot \in [S -> Notifs \ Allocated]
  BY DEF Allotments
<1>2. DOMAIN allot = S
  BY <1>1
<1>3. QED
  BY <1>1, <1>2 DEF Allotments

(* The notification list after upnp_event_create_notify() *)
LEMMA CreatedFacts ==
  ASSUME TypeOK, NEW pending \in SUBSET Subs, NEW allot \in Allotments(pending)
  PROVE  /\ Created(allot) \in [Notifs -> NotifyRecords]
         /\ \A s \in DOMAIN allot :
              Created(allot)[allot[s]].state = "ECreated" /\ Created(allot)[allot[s]].sub = s
         /\ \A n \in Notifs : (\A s \in DOMAIN allot : allot[s] # n)
              => Created(allot)[n] = notifs[n]
         /\ \A n \in Notifs : Created(allot)[n] = notifs[n]
                              \/ Created(allot)[n].state = "ECreated"
<1>1. ASSUME NEW s \in DOMAIN allot
      PROVE  (CHOOSE t \in DOMAIN allot : allot[t] = allot[s]) = s
  BY AllotmentFacts
<1>2. ASSUME NEW n \in Notifs, \E s \in DOMAIN allot : allot[s] = n
      PROVE  (CHOOSE s \in DOMAIN allot : allot[s] = n) \in Subs
  BY <1>2, AllotmentFacts
<1>3. \A s \in DOMAIN allot : allot[s] \in Notifs
  BY AllotmentFacts
<1>4. Created(allot) \in [Notifs -> NotifyRecords]
  <2>1. notifs \in [Notifs -> NotifyRecords]
    BY DEF TypeOK, NotifyRecords
  <2>2. ASSUME NEW n \in Notifs PROVE Created(allot)[n] \in NotifyRecords
    <3>1. CASE \E s \in DOMAIN allot : allot[s] = n
      BY <3>1, <1>2 DEF Created, NotifyRecords, NotifyStates
    <3>2. CASE ~\E s \in DOMAIN allot : allot[s] = n
      BY <3>2, <2>1 DEF Created
    <3>3. QED BY <3>1, <3>2
  <2>3. QED BY <2>2 DEF Created
<1>5. QED
  BY <1>1, <1>3, <1>4 DEF Created

(* What one turn of the state machine of a notification yields *)
LEMMA ProcessNotifyFacts ==
  ASSUME TypeInv, NEW n \in Notifs, NEW o \in Outcomes
  PROVE  LET p == upnp_event_process_notify(notifs[n], o)
         IN /\ p \in NotifyRecords
            /\ p.sub = notifs[n].sub
            /\ p.state = "free" <=> notifs[n].state = "free"
            /\ p.state \in {"ESending", "EWaitingForResponse"} => p.msg \in Messages
<1>1. notifs[n] \in NotifyRecords
  BY DEF TypeInv, TypeOK, NotifyRecords
<1>2. notifs[n].sub # NULL => [sid |-> notifs[n].sub, seq |-> subs[notifs[n].sub].seq,
                               ver |-> version[subs[notifs[n].sub].service]] \in Messages
  BY <1>1 DEF TypeInv, TypeOK, NotifyRecords, Messages
<1>3. CASE notifs[n].state = "EConnecting"
  <2>1. CASE o = "fail" \/ notifs[n].sub = NULL
    BY <1>1, <1>3, <2>1 DEF upnp_event_process_notify, upnp_event_prepare, NotifyRecords, NotifyStates
  <2>2. CASE o # "fail" /\ notifs[n].sub # NULL
    BY <1>1, <1>2, <1>3, <2>2 DEF upnp_event_process_notify, upnp_event_prepare, upnp_event_send,
       NotifyRecords, NotifyStates, Outcomes
  <2>3. QED BY <2>1, <2>2
<1>4. CASE notifs[n].state = "ESending"
  BY <1>1, <1>4 DEF upnp_event_process_notify, upnp_event_send, NotifyRecords, NotifyStates, Outcomes, TypeInv, MessagePrepared
<1>5. CASE notifs[n].state = "EWaitingForResponse"
  BY <1>1, <1>5 DEF upnp_event_process_notify, upnp_event_recv, NotifyRecords, NotifyStates, Outcomes, TypeInv, MessagePrepared
<1>6. CASE notifs[n].state \notin {"EConnecting", "ESending", "EWaitingForResponse"}
  BY <1>1, <1>6 DEF upnp_event_process_notify, TypeInv, MessagePrepared
<1>7. QED BY <1>3, <1>4, <1>5, <1>6

(* What upnpevents_selectfds() makes of one notification *)
LEMMA ConnectFacts ==
  ASSUME NEW obj \in NotifyRecords, NEW ok
  PROVE  LET c == upnp_event_notify_connect(obj, ok)
         IN /\ c \in NotifyRecords
            /\ c.sub = obj.sub
            /\ c.state \in {"EConnecting", "EError"}
<1>1. CASE obj.sub # NULL /\ ok
  BY <1>1 DEF upnp_event_notify_connect, NotifyRecords, NotifyStates
<1>2. CASE ~(obj.sub # NULL /\ ok)
  BY <1>2 DEF upnp_event_notify_connect, NotifyRecords, NotifyStates
<1>3. QED BY <1>1, <1>2

(* The handlers and the select() loop keep every structure well formed *)
LEMMA TypeStep == TypeInv /\ [Next]_vars => TypeInv'
<1> SUFFICES ASSUME TypeInv, [Next]_vars PROVE TypeInv'
  OBVIOUS
<1> USE EventsAssumption
<1>a. /\ subs \in [Subs -> SubRecords]
      /\ notifs \in [Notifs -> NotifyRecords]
  BY DEF TypeInv, TypeOK, SubRecords, NotifyRecords
<1>b. \A n \in Notifs : notifs[n].state \in {"ESending", "EWaitingForResponse"}
                           => notifs[n].msg \in Messages
  BY DEF TypeInv, MessagePrepared
<1>c. now \in Nat /\ version \in [Services -> Nat] /\ watched \in SUBSET Notifs
  BY DEF TypeInv, TypeOK
<1>d. \A t \in Timeouts : Deadline(t) \in Nat
  BY <1>c DEF Deadline
<1>1. ASSUME NEW s \in Subs, NEW t \in Timeouts, upnpevents_addSubscriber(s, t)
      PROVE  TypeInv'
  <2>1. PICK allot \in Allotments({s}) :
          /\ notifs' = Created(allot)
          /\ subs' = [subs EXCEPT ![s] =
                        [status |-> "listed", service |-> @.service,
                         timeout |-> Deadline(t), seq |-> 0,
                         notify |-> IF s \in DOMAIN allot THEN allot[s] ELSE NULL]]
    BY <1>1 DEF upnpevents_addSubscriber
  <2>2. notifs' \in [Notifs -> NotifyRecords]
    BY <2>1, CreatedFacts DEF TypeInv
  <2>3. MessagePrepared'
    BY <2>1, <1>b, CreatedFacts DEF TypeInv, MessagePrepared
  <2>4. (IF s \in DOMAIN allot THEN allot[s] ELSE NULL) \in Notifs \cup {NULL}
    BY AllotmentFacts
  <2>5. subs' \in [Subs -> SubRecords]
    BY <2>1, <2>4, <1>a, <1>d DEF SubRecords
  <2>6. QED
    BY <1>1, <2>2, <2>3, <2>5
    DEF TypeInv, TypeOK, upnpevents_addSubscriber, SubRecords, NotifyRecords
<1>2. ASSUME NEW s \in Subs, NEW t \in Timeouts, upnpevents_renewSubscription(s, t)
      PROVE  TypeInv'
  <2>1. subs' \in [Subs -> SubRecords]
    BY <1>2, <1>a, <1>d DEF upnpevents_renewSubscription, SubRecords
  <2>2. QED
    BY <1>2, <2>1
    DEF TypeInv, TypeOK, MessagePrepared, upnpevents_renewSubscription, SubRecords
<1>3. ASSUME NEW s \in Subs, upnpevents_removeSubscriber(s)
      PROVE  TypeInv'
  <2>1. subs' \in [Subs -> SubRecords]
    BY <1>3, <1>a DEF upnpevents_removeSubscriber, SubRecords, Freed
  <2>2. /\ notifs' \in [Notifs -> NotifyRecords]
        /\ \A n \in Notifs : notifs'[n].state = notifs[n].state /\ notifs'[n].msg = notifs[n].msg
    <3>1. CASE subs[s].notify = NULL
      BY <1>3, <1>a, <3>1 DEF upnpevents_removeSubscriber
    <3>2. CASE subs[s].notify # NULL
      <4>1. subs[s].notify \in Notifs
        BY <1>a, <3>2 DEF SubRecords
      <4>2. notifs' = [notifs EXCEPT ![subs[s].notify].sub = NULL]
        BY <1>3, <3>2 DEF upnpevents_removeSubscriber
      <4>3. QED BY <4>1, <4>2, <1>a DEF NotifyRecords
    <3>3. QED BY <3>1, <3>2
  <2>3. MessagePrepared'
    BY <2>2, <1>b DEF MessagePrepared
  <2>4. QED
    BY <1>3, <2>1, <2>2, <2>3
    DEF TypeInv, TypeOK, upnpevents_removeSubscriber, SubRecords, NotifyRecords
<1>4. ASSUME NEW v \in Services, upnp_event_var_change_notify(v)
      PROVE  TypeInv'
  <2>1. PICK allot \in Allotments(ToNotify(v)) :
          /\ notifs' = Created(allot)
          /\ subs' = [s \in Subs |-> IF s \in DOMAIN allot
                                     THEN [subs[s] EXCEPT !.notify = allot[s]]
                                     ELSE subs[s]]
    BY <1>4 DEF upnp_event_var_change_notify
  <2>2. ToNotify(v) \in SUBSET Subs
    BY DEF ToNotify, Listed
  <2>3. notifs' \in [Notifs -> NotifyRecords]
    BY <2>1, <2>2, CreatedFacts DEF TypeInv
  <2>4. MessagePrepared'
    BY <2>1, <2>2, <1>b, CreatedFacts DEF TypeInv, MessagePrepared
  <2>5. \A s \in DOMAIN allot : allot[s] \in Notifs
    BY <2>2, AllotmentFacts
  <2>6. subs' \in [Subs -> SubRecords]
    BY <2>1, <2>5, <1>a DEF SubRecords
  <2>7. version' \in [Services -> Nat]
    BY <1>4, <1>c DEF upnp_event_var_change_notify
  <2>8. QED
    BY <1>4, <2>3, <2>4, <2>6, <2>7
    DEF TypeInv, TypeOK, upnp_event_var_change_notify, SubRecords, NotifyRecords
<1>5. ASSUME NEW reachable \in SUBSET Notifs, upnpevents_selectfds(reachable)
      PROVE  TypeInv'
  <2>1. ASSUME NEW n \in Notifs
        PROVE  /\ notifs'[n] \in NotifyRecords
               /\ notifs'[n].state \in {"ESending", "EWaitingForResponse"}
                    => notifs'[n].msg \in Messages
    <3>1. CASE notifs[n].state = "ECreated"
      <4>1. notifs'[n] = upnp_event_notify_connect(notifs[n], n \in reachable)
        BY <1>5, <3>1 DEF upnpevents_selectfds
      <4>2. QED BY <4>1, <1>a, ConnectFacts
    <3>2. CASE notifs[n].state # "ECreated"
      <4>1. notifs'[n] = notifs[n]
        BY <1>5, <3>2 DEF upnpevents_selectfds
      <4>2. QED BY <4>1, <1>a, <1>b
    <3>3. QED BY <3>1, <3>2
  <2>2. DOMAIN notifs' = Notifs /\ notifs' = [n \in Notifs |-> notifs'[n]]
    BY <1>5 DEF upnpevents_selectfds
  <2>3. notifs' \in [Notifs -> NotifyRecords]
    BY <2>1, <2>2
  <2>4. watched' \in SUBSET Notifs /\ loop' = "select"
    BY <1>5 DEF upnpevents_selectfds
  <2>5. QED
    BY <1>5, <2>1, <2>3, <2>4
    DEF TypeInv, TypeOK, MessagePrepared, upnpevents_selectfds, NotifyRecords
<1>6. CASE SelectInterrupted
  BY <1>6 DEF SelectInterrupted, TypeInv, TypeOK, MessagePrepared
<1>7. ASSUME NEW ready \in SUBSET watched, NEW outcome \in [ready -> Outcomes],
             upnpevents_processfds(ready, outcome)
      PROVE  TypeInv'
  <2> DEFINE after == Processed(ready, outcome)
  <2>1. ASSUME NEW n \in Notifs
        PROVE  /\ after[n] \in NotifyRecords
               /\ after[n].state \in {"ESending", "EWaitingForResponse"}
                    => after[n].msg \in Messages
    <3>1. CASE n \in ready
      <4>1. outcome[n] \in Outcomes
        BY <3>1
      <4>2. QED BY <3>1, <4>1, ProcessNotifyFacts DEF Processed
    <3>2. CASE n \notin ready
      BY <3>2, <1>a, <1>b DEF Processed
    <3>3. QED BY <3>1, <3>2
  <2>2. /\ notifs' \in [Notifs -> NotifyRecords]
        /\ MessagePrepared'
    <3>1. notifs' = [n \in Notifs |-> IF Over(after[n]) THEN FreeNotify ELSE after[n]]
      BY <1>7 DEF upnpevents_processfds
    <3>2. FreeNotify \in NotifyRecords /\ FreeNotify.state = "free"
      BY DEF FreeNotify, NotifyRecords
    <3>3. ASSUME NEW n \in Notifs
          PROVE  notifs'[n] = FreeNotify \/ notifs'[n] = after[n]
      BY <3>1
    <3> HIDE DEF after
    <3>4. notifs' \in [Notifs -> NotifyRecords]
      BY <2>1, <3>1, <3>2
    <3>5. QED BY <2>1, <3>2, <3>3, <3>4 DEF MessagePrepared
  <2>3. subs' \in [Subs -> SubRecords]
    <3>1. ASSUME NEW s \in Subs PROVE Reaped(s, after, ready) \in SubRecords
      <4>1. subs[s] \in SubRecords
        BY <1>a
      <4> HIDE DEF after
      <4>2. QED BY <4>1 DEF Reaped, Freed, SubRecords
    <3>2. subs' = [s \in Subs |-> Reaped(s, after, ready)]
      BY <1>7 DEF upnpevents_processfds
    <3> HIDE DEF after
    <3>3. QED BY <3>1, <3>2
  <2>4. got' \in [Subs -> [count : Nat, seq : Nat, ver : Nat]]
    <3>1. ASSUME NEW s \in Subs
          PROVE  Received(s, after, ready) \in [count : Nat, seq : Nat, ver : Nat]
      <4> HIDE DEF after
      <4>1. got[s] \in [count : Nat, seq : Nat, ver : Nat]
        BY DEF TypeInv, TypeOK
      <4>2. \A n \in ready : after[n].state = "EWaitingForResponse"
                               => after[n].msg.seq \in Nat /\ after[n].msg.ver \in Nat
        BY <2>1, <1>c DEF Messages
      <4>3. QED BY <4>1, <4>2 DEF Received
    <3>2. got' = [s \in Subs |-> Received(s, after, ready)]
      BY <1>7 DEF upnpevents_processfds
    <3> HIDE DEF after
    <3>3. QED BY <3>1, <3>2
  <2>5. QED
    BY <1>7, <2>2, <2>3, <2>4
    DEF TypeInv, TypeOK, upnpevents_processfds, SubRecords, NotifyRecords
<1>8. CASE Tick
  BY <1>8, <1>c DEF Tick, TypeInv, TypeOK, MessagePrepared
<1>9. CASE UNCHANGED vars
  BY <1>9 DEF vars, TypeInv, TypeOK, MessagePrepared
<1>10. QED
  BY <1>1, <1>2, <1>3, <1>4, <1>5, <1>6, <1>7, <1>8, <1>9
  DEF Next, Handler, SelectFds, ProcessFds

(* Theorem: every structure of the two lists stays well formed, whatever   *)
(* the number of subscribers and the order of requests and socket events.  *)
THEOREM TypeCorrect == Spec => []TypeOK
<1>1. Init => TypeInv
  <2> SUFFICES ASSUME Init PROVE TypeInv
    OBVIOUS
  <2>1. subs \in [Subs -> SubRecords]
    BY DEF Init, SubRecords
  <2>2. notifs \in [Notifs -> NotifyRecords] /\ \A n \in Notifs : notifs[n].state = "free"
    BY DEF Init, FreeNotify, NotifyRecords
  <2>3. QED
    BY <2>1, <2>2 DEF Init, TypeInv, TypeOK, MessagePrepared, SubRecords, NotifyRecords
<1>2. TypeInv => TypeOK
  BY DEF TypeInv
<1>3. QED
  BY <1>1, <1>2, TypeStep, PTL DEF Spec

-----------------------------------------------------------------------------
(* The two directions of the pointer invariant, spelt out cell by cell     *)

(* obj->sub of cell n *)
BackPointer(n) ==
  (notifs[n].state # "free" /\ notifs[n].sub # NULL)
    => /\ notifs[n].sub \in Subs
       /\ subs[notifs[n].sub].status = "listed"
       /\ subs[notifs[n].sub].notify = n

(* sub->notify of subscriber s *)
ForwardPointer(s) ==
  (subs[s].status = "listed" /\ subs[s].notify # NULL)
    => /\ subs[s].notify \in Notifs
       /\ notifs[subs[s].notify].state # "free"
       /\ notifs[subs[s].notify].sub = s

LEMMA PointersCellwise ==
  ASSUME TypeOK
  PROVE  PointersConsistent <=> /\ \A n \in Notifs : BackPointer(n)
                                /\ \A s \in Subs : ForwardPointer(s)
BY DEF TypeOK, PointersConsistent, BackPointer, ForwardPointer, Listed, Allocated

(* Creating notifications for subscribers that have none (those of allot,  *)
(* listed with the field given by allot) keeps both directions             *)
LEMMA PointersCreate ==
  ASSUME TypeInv, TypeInv', PointersConsistent,
         NEW pending \in SUBSET Subs, NEW allot \in Allotments(pending),
         notifs' = Created(allot),
         \A s \in pending : subs[s].status = "listed" => subs[s].notify = NULL,
         \A s \in Subs \ pending : subs'[s] = subs[s],
         \A s \in pending : subs'[s].notify = IF s \in DOMAIN allot THEN allot[s] ELSE NULL,
         \A s \in pending : subs'[s].status = "listed"
  PROVE  PointersConsistent'
<1> USE EventsAssumption
<1>a. /\ \A n \in Notifs : BackPointer(n)
      /\ \A s \in Subs : ForwardPointer(s)
  BY PointersCellwise DEF TypeInv
<1>b. /\ DOMAIN allot \subseteq pending
      /\ \A s \in DOMAIN allot : allot[s] \in Notifs /\ notifs[allot[s]].state = "free"
  BY AllotmentFacts DEF Allocated
<1>c. /\ \A s \in DOMAIN allot :
           notifs'[allot[s]].state = "ECreated" /\ notifs'[allot[s]].sub = s
      /\ \A n \in Notifs : (\A s \in DOMAIN allot : allot[s] # n) => notifs'[n] = notifs[n]
  BY CreatedFacts DEF TypeInv
<1>1. ASSUME NEW n \in Notifs PROVE BackPointer(n)'
  <2>1. CASE \E s \in DOMAIN allot : allot[s] = n
    <3>1. PICK s \in DOMAIN allot : allot[s] = n
      BY <2>1
    <3>2. notifs'[n].sub = s
      BY <3>1, <1>c
    <3>3. s \in pending /\ s \in Subs
      BY <1>b
    <3>4. subs'[s].status = "listed" /\ subs'[s].notify = n
      BY <3>1, <3>3
    <3>5. QED BY <3>2, <3>3, <3>4 DEF BackPointer
  <2>2. CASE \A s \in DOMAIN allot : allot[s] # n
    <3>1. notifs'[n] = notifs[n]
      BY <2>2, <1>c
    <3>2. SUFFICES ASSUME notifs[n].state # "free", notifs[n].sub # NULL
                   PROVE  /\ notifs[n].sub \in Subs
                          /\ subs'[notifs[n].sub].status = "listed"
                          /\ subs'[notifs[n].sub].notify = n
      BY <3>1 DEF BackPointer
    <3>3. /\ notifs[n].sub \in Subs
          /\ subs[notifs[n].sub].status = "listed"
          /\ subs[notifs[n].sub].notify = n
      BY <1>a, <3>2 DEF BackPointer
    <3>4. notifs[n].sub \notin pending
      BY <3>3
    <3>5. QED BY <3>3, <3>4
  <2>3. QED BY <2>1, <2>2
<1>2. ASSUME NEW s \in Subs PROVE ForwardPointer(s)'
  <2>1. CASE s \in pending
    <3>1. CASE s \in DOMAIN allot
      <4>1. subs'[s].notify = allot[s]
        BY <2>1, <3>1
      <4>2. /\ allot[s] \in Notifs
            /\ notifs'[allot[s]].state = "ECreated" /\ notifs'[allot[s]].sub = s
        BY <3>1, <1>b, <1>c
      <4>3. QED BY <4>1, <4>2 DEF ForwardPointer
    <3>2. CASE s \notin DOMAIN allot
      <4>1. subs'[s].notify = NULL
        BY <2>1, <3>2
      <4>2. QED BY <4>1 DEF ForwardPointer
    <3>3. QED BY <3>1, <3>2
  <2>2. CASE s \notin pending
    <3>1. subs'[s] = subs[s]
      BY <2>2
    <3>2. SUFFICES ASSUME subs[s].status = "listed", subs[s].notify # NULL
                   PROVE  /\ subs[s].notify \in Notifs
                          /\ notifs'[subs[s].notify].state # "free"
                          /\ notifs'[subs[s].notify].sub = s
      BY <3>1 DEF ForwardPointer
    <3>3. /\ subs[s].notify \in Notifs
          /\ notifs[subs[s].notify].state # "free"
          /\ notifs[subs[s].notify].sub = s
      BY <1>a, <3>2 DEF ForwardPointer
    <3>4. \A t \in DOMAIN allot : allot[t] # subs[s].notify
      BY <3>3, <1>b
    <3>5. QED BY <3>3, <3>4, <1>c
  <2>3. QED BY <2>1, <2>2
<1>3. QED
  BY <1>1, <1>2, PointersCellwise DEF TypeInv, PointersConsistent, BackPointer, ForwardPointer, Listed, Allocated

LEMMA PointersStep == TypeInv /\ TypeInv' /\ PointersConsistent /\ [Next]_vars => PointersConsistent'
<1> SUFFICES ASSUME TypeInv, TypeInv', PointersConsistent, [Next]_vars
             PROVE  PointersConsistent'
  OBVIOUS
<1> USE EventsAssumption
<1>a. /\ \A n \in Notifs : BackPointer(n)
      /\ \A s \in Subs : ForwardPointer(s)
  BY PointersCellwise DEF TypeInv
<1>b. (\A n \in Notifs : BackPointer(n)') /\ (\A s \in Subs : ForwardPointer(s)')
        => PointersConsistent'
  BY DEF TypeInv, TypeOK, PointersConsistent, BackPointer, ForwardPointer, Listed, Allocated
<1>c. /\ subs \in [Subs -> SubRecords] /\ notifs \in [Notifs -> NotifyRecords]
      /\ watched \in SUBSET Notifs
  BY DEF TypeInv, TypeOK, SubRecords, NotifyRecords
<1>1. ASSUME NEW s \in Subs, NEW t \in Timeouts, upnpevents_addSubscriber(s, t)
      PROVE  PointersConsistent'
  <2>1. PICK allot \in Allotments({s}) :
          /\ notifs' = Created(allot)
          /\ subs' = [subs EXCEPT ![s] =
                        [status |-> "listed", service |-> @.service,
                         timeout |-> Deadline(t), seq |-> 0,
                         notify |-> IF s \in DOMAIN allot THEN allot[s] ELSE NULL]]
    BY <1>1 DEF upnpevents_addSubscriber
  <2>2. /\ subs[s].status # "listed"
        /\ \A r \in Subs \ {s} : subs'[r] = subs[r]
        /\ subs'[s].status = "listed"
        /\ subs'[s].notify = IF s \in DOMAIN allot THEN allot[s] ELSE NULL
    BY <1>1, <1>c, <2>1 DEF upnpevents_addSubscriber
  <2> DEFINE pending == {s}
  <2>3. /\ pending \in SUBSET Subs /\ allot \in Allotments(pending)
        /\ \A r \in pending : subs[r].status = "listed" => subs[r].notify = NULL
        /\ \A r \in Subs \ pending : subs'[r] = subs[r]
        /\ \A r \in pending : subs'[r].notify = IF r \in DOMAIN allot THEN allot[r] ELSE NULL
        /\ \A r \in pending : subs'[r].status = "listed"
    BY <2>1, <2>2
  <2> HIDE DEF pending
  <2>4. QED BY <2>1, <2>3, PointersCreate
<1>2. ASSUME NEW s \in Subs, NEW t \in Timeouts, upnpevents_renewSubscription(s, t)
      PROVE  PointersConsistent'
  <2>1. /\ notifs' = notifs
        /\ \A r \in Subs : subs'[r].status = subs[r].status /\ subs'[r].notify = subs[r].notify
    BY <1>2, <1>c DEF upnpevents_renewSubscription, SubRecords
  <2>2. QED BY <2>1, <1>a, <1>b DEF BackPointer, ForwardPointer
<1>3. ASSUME NEW s \in Subs, upnpevents_removeSubscriber(s)
      PROVE  PointersConsistent'
  <2>1. /\ subs'[s].status = "freed"
        /\ \A r \in Subs \ {s} : subs'[r] = subs[r]
    BY <1>3, <1>c DEF upnpevents_removeSubscriber, Freed
  <2>2. /\ \A n \in Notifs : notifs'[n].state = notifs[n].state
        /\ \A n \in Notifs : n # subs[s].notify => notifs'[n].sub = notifs[n].sub
        /\ subs[s].notify # NULL => notifs'[subs[s].notify].sub = NULL
    <3>1. CASE subs[s].notify = NULL
      BY <1>3, <3>1 DEF upnpevents_removeSubscriber
    <3>2. CASE subs[s].notify # NULL
      <4>1. subs[s].notify \in Notifs
        BY <1>c, <3>2 DEF SubRecords
      <4>2. notifs' = [notifs EXCEPT ![subs[s].notify].sub = NULL]
        BY <1>3, <3>2 DEF upnpevents_removeSubscriber
      <4>3. QED BY <4>1, <4>2, <1>c DEF NotifyRecords
    <3>3. QED BY <3>1, <3>2
  <2>3. ASSUME NEW n \in Notifs PROVE BackPointer(n)'
    <3>1. CASE n = subs[s].notify
      BY <3>1, <2>2 DEF BackPointer
    <3>2. CASE n # subs[s].notify
      <4>1. notifs'[n].sub = notifs[n].sub /\ notifs'[n].state = notifs[n].state
        BY <2>2, <3>2
      <4>2. (notifs[n].state # "free" /\ notifs[n].sub # NULL)
              => notifs[n].sub \in Subs \ {s}
        BY <1>a, <3>2 DEF BackPointer
      <4>3. QED BY <4>1, <4>2, <2>1, <1>a DEF BackPointer
    <3>3. QED BY <3>1, <3>2
  <2>4. ASSUME NEW r \in Subs PROVE ForwardPointer(r)'
    <3>1. CASE r = s
      BY <3>1, <2>1 DEF ForwardPointer
    <3>2. CASE r # s
      <4>1. subs'[r] = subs[r]
        BY <2>1, <3>2
      <4>2. (subs[r].status = "listed" /\ subs[r].notify # NULL)
              => /\ subs[r].notify \in Notifs
                 /\ notifs[subs[r].notify].state # "free"
                 /\ notifs[subs[r].notify].sub = r
        BY <1>a DEF ForwardPointer
      <4>3. (subs[r].status = "listed" /\ subs[r].notify # NULL)
              => subs[r].notify # subs[s].notify
        BY <4>2, <1>3, <1>a, <3>2 DEF ForwardPointer, upnpevents_removeSubscriber, Listed
      <4>4. QED BY <4>1, <4>2, <4>3, <2>2 DEF ForwardPointer
    <3>3. QED BY <3>1, <3>2
  <2>5. QED BY <2>3, <2>4, <1>b
<1>4. ASSUME NEW v \in Services, upnp_event_var_change_notify(v)
      PROVE  PointersConsistent'
  <2>1. PICK allot \in Allotments(ToNotify(v)) :
          /\ notifs' = Created(allot)
          /\ subs' = [s \in Subs |-> IF s \in DOMAIN allot
                                     THEN [subs[s] EXCEPT !.notify = allot[s]]
                                     ELSE subs[s]]
    BY <1>4 DEF upnp_event_var_change_notify
  <2>2. /\ ToNotify(v) \in SUBSET Subs
        /\ \A s \in ToNotify(v) : subs[s].status = "listed" /\ subs[s].notify = NULL
    BY DEF ToNotify, Listed
  <2>3. DOMAIN allot \subseteq ToNotify(v)
    BY <2>2, AllotmentFacts
  <2>4. /\ \A s \in Subs \ ToNotify(v) : subs'[s] = subs[s]
        /\ \A s \in ToNotify(v) : subs'[s].status = "listed"
        /\ \A s \in ToNotify(v) : subs'[s].notify = IF s \in DOMAIN allot THEN allot[s] ELSE NULL
    BY <2>1, <2>2, <2>3, <1>c DEF SubRecords
  <2>5. QED BY <2>1, <2>2, <2>4, PointersCreate
<1>5. ASSUME NEW reachable \in SUBSET Notifs, upnpevents_selectfds(reachable)
      PROVE  PointersConsistent'
  <2>1. ASSUME NEW n \in Notifs
        PROVE  notifs'[n].sub = notifs[n].sub /\ (notifs'[n].state = "free" <=> notifs[n].state = "free")
    <3>1. CASE notifs[n].state = "ECreated"
      <4>1. notifs'[n] = upnp_event_notify_connect(notifs[n], n \in reachable)
        BY <1>5, <3>1 DEF upnpevents_selectfds
      <4>2. QED BY <3>1, <4>1, <1>c, ConnectFacts
    <3>2. CASE notifs[n].state # "ECreated"
      BY <1>5, <3>2 DEF upnpevents_selectfds
    <3>3. QED BY <3>1, <3>2
  <2>2. subs' = subs
    BY <1>5 DEF upnpevents_selectfds
  <2>3. QED BY <2>1, <2>2, <1>a, <1>b DEF BackPointer, ForwardPointer
<1>6. CASE SelectInterrupted
  BY <1>6, <1>a, <1>b DEF SelectInterrupted, BackPointer, ForwardPointer
<1>7. ASSUME NEW ready \in SUBSET watched, NEW outcome \in [ready -> Outcomes],
             upnpevents_processfds(ready, outcome)
      PROVE  PointersConsistent'
  <2> DEFINE after == Processed(ready, outcome)
  <2>1. ASSUME NEW n \in Notifs
        PROVE  after[n].sub = notifs[n].sub /\ (after[n].state = "free" <=> notifs[n].state = "free")
    <3>1. CASE n \in ready
      <4>1. outcome[n] \in Outcomes
        BY <3>1
      <4>2. QED BY <3>1, <4>1, ProcessNotifyFacts DEF Processed
    <3>2. CASE n \notin ready
      BY <3>2 DEF Processed
    <3>3. QED BY <3>1, <3>2
  <2>2. /\ \A s \in Subs : subs'[s] = Reaped(s, after, ready)
        /\ \A n \in Notifs : Over(after[n]) => notifs'[n] = FreeNotify
        /\ \A n \in Notifs : ~Over(after[n]) => notifs'[n] = after[n]
    BY <1>7 DEF upnpevents_processfds
  <2> HIDE DEF after
  \* a listed subscriber and its notification decide about each other only
  <2>3. ASSUME NEW s \in Subs, subs[s].status = "listed", NEW n \in Notifs,
               after[n].sub = s, after[n].state # "free"
        PROVE  subs[s].notify = n
    BY <2>1, <2>3, <1>a DEF BackPointer
  <2>4. ASSUME NEW n \in Notifs PROVE BackPointer(n)'
    <3>1. CASE Over(after[n])
      BY <2>2, <3>1 DEF BackPointer, FreeNotify
    <3>2. CASE ~Over(after[n])
      <4>1. notifs'[n] = after[n]
        BY <2>2, <3>2
      <4>2. SUFFICES ASSUME after[n].state # "free", after[n].sub # NULL
                     PROVE  /\ after[n].sub \in Subs
                            /\ subs'[after[n].sub].status = "listed"
                            /\ subs'[after[n].sub].notify = n
        BY <4>1 DEF BackPointer
      <4>3. PICK s \in Subs : s = after[n].sub /\ subs[s].status = "listed" /\ subs[s].notify = n
        BY <4>2, <2>1, <1>a DEF BackPointer
      <4>4. \A m \in Notifs : after[m].sub = s => ~Over(after[m])
        BY <4>3, <2>3, <3>2 DEF Over
      <4>5. ~\E m \in Notifs : after[m].sub = s /\ after[m].state = "EError"
        BY <4>4 DEF Over
      <4>6. ~Lapsed(s, n)
        BY DEF Lapsed
      <4>7. Reaped(s, after, ready).status = "listed" /\ Reaped(s, after, ready).notify = n
        BY <4>3, <4>4, <4>5, <4>6 DEF Reaped
      <4>8. QED BY <4>3, <4>7, <2>2
    <3>3. QED BY <3>1, <3>2
  <2>5. ASSUME NEW s \in Subs PROVE ForwardPointer(s)'
    <3>1. SUFFICES ASSUME Reaped(s, after, ready).status = "listed",
                          Reaped(s, after, ready).notify # NULL
                   PROVE  /\ Reaped(s, after, ready).notify \in Notifs
                          /\ notifs'[Reaped(s, after, ready).notify].state # "free"
                          /\ notifs'[Reaped(s, after, ready).notify].sub = s
      BY <2>2 DEF ForwardPointer
    <3>2. /\ subs[s].status = "listed"
          /\ Reaped(s, after, ready).notify = subs[s].notify
          /\ \A m \in Notifs : after[m].sub = s => ~Over(after[m])
      BY <3>1 DEF Reaped, Freed, Listed
    <3>3. /\ subs[s].notify \in Notifs
          /\ notifs[subs[s].notify].state # "free"
          /\ notifs[subs[s].notify].sub = s
      BY <3>1, <3>2, <1>a DEF ForwardPointer
    <3>4. notifs'[subs[s].notify] = after[subs[s].notify]
      BY <3>2, <3>3, <2>1, <2>2
    <3>5. QED BY <3>2, <3>3, <3>4, <2>1
  <2>6. QED BY <2>4, <2>5, <1>b
<1>8. CASE Tick
  BY <1>8, <1>a, <1>b DEF Tick, BackPointer, ForwardPointer
<1>9. CASE UNCHANGED vars
  BY <1>9, <1>a, <1>b DEF vars, BackPointer, ForwardPointer
<1>10. QED
  BY <1>1, <1>2, <1>3, <1>4, <1>5, <1>6, <1>7, <1>8, <1>9
  DEF Next, Handler, SelectFds, ProcessFds

(* Theorem: neither UNSUBSCRIBE nor the error and timeout paths of          *)
(* upnpevents_processfds() ever leave a dangling pointer between the        *)
(* subscriber list and the notification list.                               *)
THEOREM NoDanglingPointer == Spec => []PointersConsistent
<1> DEFINE IInv == TypeInv /\ PointersConsistent
<1>1. Init => IInv
  <2> SUFFICES ASSUME Init PROVE IInv
    OBVIOUS
  <2>1. subs \in [Subs -> SubRecords] /\ \A s \in Subs : subs[s].status = "unborn"
    BY DEF Init, SubRecords
  <2>2. notifs \in [Notifs -> NotifyRecords] /\ \A n \in Notifs : notifs[n].state = "free"
    BY DEF Init, FreeNotify, NotifyRecords
  <2>3. TypeInv
    BY <2>1, <2>2 DEF Init, TypeInv, TypeOK, MessagePrepared, SubRecords, NotifyRecords
  <2>4. QED
    BY <2>1, <2>2, <2>3 DEF PointersConsistent, Listed, Allocated
<1>2. IInv /\ [Next]_vars => IInv'
  BY TypeStep, PointersStep
<1>3. IInv => PointersConsistent
  OBVIOUS
<1>4. QED
  BY <1>1, <1>2, <1>3, PTL DEF Spec

-----------------------------------------------------------------------------
(* SEQ numbers.  SeqConsecutive is not inductive: it needs to know where    *)
(* the next number is at every stage, in sub->seq or already in a buffer.   *)

(* A notification still being sent carries the number its control point     *)
(* waits for, whether or not its subscriber is still there *)
SendingNext(n) ==
  notifs[n].state = "ESending" =>
    /\ notifs[n].msg.sid \in Subs
    /\ notifs[n].msg.seq = got[notifs[n].msg.sid].count
    /\ \/ notifs[n].sub = notifs[n].msg.sid
       \/ notifs[n].sub = NULL /\ subs[notifs[n].msg.sid].status = "freed"

(* Two buffers never hold messages for the same control point *)
OneBufferEach ==
  \A n, m \in Notifs :
    (notifs[n].state = "ESending" /\ notifs[m].state = "ESending"
      /\ notifs[n].msg.sid = notifs[m].msg.sid) => n = m

(* sub->seq is what was received, one less while the answer is awaited *)
SeqKept(s) ==
  /\ subs[s].status = "unborn" => got[s].count = 0
  /\ (subs[s].status = "listed" /\ subs[s].notify = NULL) => subs[s].seq = got[s].count
  /\ (subs[s].status = "listed" /\ subs[s].notify # NULL) =>
       /\ notifs[subs[s].notify].state \in {"ECreated", "EConnecting", "ESending"}
            => subs[s].seq = got[s].count
       /\ notifs[subs[s].notify].state = "EWaitingForResponse"
            => subs[s].seq + 1 = got[s].count

(* No finished notification stays in the list *)
NoneFinished == \A n \in Notifs : notifs[n].state # "EFinished"

SeqInv ==
  /\ \A n \in Notifs : SendingNext(n)
  /\ OneBufferEach
  /\ \A s \in Subs : SeqKept(s)
  /\ NoneFinished
  /\ SeqConsecutive

(* The message m is in the buffer of n, or upnp_event_prepare() prints it   *)
(* there now *)
Buffered(n, m) ==
  \/ notifs[n].state = "ESending" /\ m = notifs[n].msg
  \/ /\ notifs[n].state = "EConnecting" /\ notifs[n].sub # NULL
     /\ m.sid = notifs[n].sub /\ m.seq = subs[notifs[n].sub].seq

LEMMA ProcessSeqFacts ==
  ASSUME TypeInv, NEW n \in Notifs, NEW o \in Outcomes
  PROVE  LET p == upnp_event_process_notify(notifs[n], o)
         IN /\ p.state = "ESending" => Buffered(n, p.msg)
            /\ p.state = "EWaitingForResponse"
                 => \/ notifs[n].state = "EWaitingForResponse"
                    \/ Buffered(n, p.msg)
            /\ p.state = "EFinished"
                 => notifs[n].state \in {"EWaitingForResponse", "EFinished"}
            /\ p.state \in {"ECreated", "EConnecting"} => p = notifs[n]
<1>1. notifs[n] \in NotifyRecords
  BY DEF TypeInv, TypeOK, NotifyRecords
<1>3. CASE notifs[n].state = "EConnecting"
  <2>1. CASE o = "fail" \/ notifs[n].sub = NULL
    BY <1>1, <1>3, <2>1 DEF upnp_event_process_notify, upnp_event_prepare, NotifyRecords
  <2>2. CASE o # "fail" /\ notifs[n].sub # NULL
    BY <1>1, <1>3, <2>2 DEF upnp_event_process_notify, upnp_event_prepare, upnp_event_send,
       NotifyRecords, Outcomes, Buffered
  <2>3. QED BY <2>1, <2>2
<1>4. CASE notifs[n].state = "ESending"
  BY <1>1, <1>4 DEF upnp_event_process_notify, upnp_event_send, NotifyRecords, Outcomes, Buffered
<1>5. CASE notifs[n].state = "EWaitingForResponse"
  BY <1>1, <1>5 DEF upnp_event_process_notify, upnp_event_recv, NotifyRecords, Outcomes
<1>6. CASE notifs[n].state \notin {"EConnecting", "ESending", "EWaitingForResponse"}
  BY <1>1, <1>6 DEF upnp_event_process_notify
<1>7. QED BY <1>3, <1>4, <1>5, <1>6

(* A buffered message has the number its control point waits for, and its   *)
(* notification either belongs to the listed subscriber or is an orphan     *)
LEMMA BufferedFacts ==
  ASSUME TypeInv, PointersConsistent, SeqInv, NEW n \in Notifs, NEW m, Buffered(n, m)
  PROVE  /\ m.sid \in Subs
         /\ m.seq = got[m.sid].count
         /\ \/ /\ notifs[n].sub = m.sid /\ subs[m.sid].status = "listed"
               /\ subs[m.sid].notify = n /\ subs[m.sid].seq = got[m.sid].count
            \/ /\ notifs[n].sub = NULL /\ subs[m.sid].status = "freed"
               /\ notifs[n].state = "ESending"
<1> USE EventsAssumption
<1>1. /\ \A k \in Notifs : BackPointer(k)
      /\ \A s \in Subs : ForwardPointer(s)
  BY PointersCellwise DEF TypeInv
<1>2. notifs[n].sub \in Subs \cup {NULL}
  BY DEF TypeInv, TypeOK
<1>3. CASE notifs[n].state = "ESending" /\ m = notifs[n].msg
  BY <1>1, <1>2, <1>3 DEF SeqInv, SendingNext, SeqKept, BackPointer
<1>4. CASE notifs[n].state = "EConnecting" /\ notifs[n].sub # NULL
             /\ m.sid = notifs[n].sub /\ m.seq = subs[notifs[n].sub].seq
  BY <1>1, <1>2, <1>4 DEF SeqInv, SeqKept, BackPointer
<1>5. QED BY <1>3, <1>4 DEF Buffered

LEMMA BufferedOnce ==
  ASSUME TypeInv, PointersConsistent, SeqInv,
         NEW n \in Notifs, NEW m, Buffered(n, m),
         NEW k \in Notifs, NEW l, Buffered(k, l), m.sid = l.sid
  PROVE  n = k
<1>1. CASE subs[m.sid].status = "listed"
  <2>1. subs[m.sid].notify = n
    BY <1>1, BufferedFacts
  <2>2. subs[m.sid].notify = k
    BY <1>1, BufferedFacts
  <2>3. QED BY <2>1, <2>2
<1>2. CASE subs[m.sid].status # "listed"
  <2>1. notifs[n].state = "ESending" /\ notifs[k].state = "ESending"
    BY <1>2, BufferedFacts
  <2>2. m = notifs[n].msg /\ l = notifs[k].msg
    BY <2>1 DEF Buffered
  <2>3. QED BY <2>1, <2>2 DEF SeqInv, OneBufferEach
<1>3. QED BY <1>1, <1>2

LEMMA SeqStep ==
  TypeInv /\ TypeInv' /\ PointersConsistent /\ SeqInv /\ [Next]_vars => SeqInv'
<1> SUFFICES ASSUME TypeInv, TypeInv', PointersConsistent, SeqInv, [Next]_vars
             PROVE  SeqInv'
  OBVIOUS
<1> USE EventsAssumption
<1>a. /\ \A n \in Notifs : BackPointer(n)
      /\ \A s \in Subs : ForwardPointer(s)
  BY PointersCellwise DEF TypeInv
<1>b. /\ subs \in [Subs -> SubRecords] /\ notifs \in [Notifs -> NotifyRecords]
      /\ watched \in SUBSET Notifs
      /\ got \in [Subs -> [count : Nat, seq : Nat, ver : Nat]]
  BY DEF TypeInv, TypeOK, SubRecords, NotifyRecords
<1>c. /\ \A n \in Notifs : SendingNext(n)
      /\ \A s \in Subs : SeqKept(s)
  BY DEF SeqInv
\* creating notifications for subscribers without one
<1>d. ASSUME NEW pending \in SUBSET Subs, NEW allot \in Allotments(pending),
             notifs' = Created(allot), got' = got,
             \A s \in pending : subs[s].status = "unborn"
                                \/ (subs[s].status = "listed" /\ subs[s].notify = NULL),
             \A s \in Subs \ pending : subs'[s] = subs[s],
             \A s \in pending : subs'[s].notify = IF s \in DOMAIN allot THEN allot[s] ELSE NULL,
             \A s \in pending : subs'[s].status = "listed" /\ subs'[s].seq = got[s].count
      PROVE  SeqInv'
  <2>1. /\ \A n \in Notifs : notifs'[n] = notifs[n] \/ notifs'[n].state = "ECreated"
        /\ \A n \in Notifs : notifs[n].state # "free" => notifs'[n] = notifs[n]
    BY <1>d, CreatedFacts, AllotmentFacts DEF TypeInv, Allocated
  <2>2. ASSUME NEW n \in Notifs PROVE SendingNext(n)'
    <3>1. SUFFICES ASSUME notifs'[n].state = "ESending" PROVE SendingNext(n)'
      BY DEF SendingNext
    <3>2. notifs'[n] = notifs[n]
      BY <2>1, <3>1
    <3>3. SendingNext(n)
      BY <1>c
    <3>4. subs[notifs[n].msg.sid].status = "freed"
            => subs'[notifs[n].msg.sid] = subs[notifs[n].msg.sid]
      BY <3>1, <3>2, <3>3, <1>d DEF SendingNext
    <3>5. QED BY <3>1, <3>2, <3>3, <3>4, <1>d DEF SendingNext
  <2>3. OneBufferEach'
    BY <2>1 DEF SeqInv, OneBufferEach
  <2>4. ASSUME NEW s \in Subs PROVE SeqKept(s)'
    <3>1. CASE s \in pending
      <4>1. s \in DOMAIN allot => notifs'[allot[s]].state = "ECreated"
        BY <1>d, CreatedFacts DEF TypeInv
      <4>2. QED BY <3>1, <4>1, <1>d DEF SeqKept
    <3>2. CASE s \notin pending
      <4>1. subs'[s] = subs[s] /\ got'[s] = got[s] /\ SeqKept(s)
        BY <3>2, <1>c, <1>d
      <4>2. (subs[s].status = "listed" /\ subs[s].notify # NULL)
              => notifs'[subs[s].notify] = notifs[subs[s].notify]
        BY <1>a, <2>1 DEF ForwardPointer
      <4>3. QED BY <4>1, <4>2 DEF SeqKept
    <3>3. QED BY <3>1, <3>2
  <2>5. NoneFinished'
    BY <2>1 DEF SeqInv, NoneFinished
  <2>6. SeqConsecutive'
    BY <1>d DEF SeqInv, SeqConsecutive
  <2>7. QED BY <2>2, <2>3, <2>4, <2>5, <2>6 DEF SeqInv
<1>1. ASSUME NEW s \in Subs, NEW t \in Timeouts, upnpevents_addSubscriber(s, t)
      PROVE  SeqInv'
  <2>1. PICK allot \in Allotments({s}) :
          /\ notifs' = Created(allot)
          /\ subs' = [subs EXCEPT ![s] =
                        [status |-> "listed", service |-> @.service,
                         timeout |-> Deadline(t), seq |-> 0,
                         notify |-> IF s \in DOMAIN allot THEN allot[s] ELSE NULL]]
    BY <1>1 DEF upnpevents_addSubscriber
  <2>2. /\ subs[s].status = "unborn" /\ got[s].count = 0
        /\ \A r \in Subs \ {s} : subs'[r] = subs[r]
        /\ subs'[s].status = "listed" /\ subs'[s].seq = 0
        /\ subs'[s].notify = IF s \in DOMAIN allot THEN allot[s] ELSE NULL
        /\ got' = got
    BY <1>1, <1>b, <1>c, <2>1 DEF upnpevents_addSubscriber, SeqKept
  <2> DEFINE pending == {s}
  <2>3. /\ pending \in SUBSET Subs /\ allot \in Allotments(pending)
        /\ \A r \in pending : subs[r].status = "unborn"
        /\ \A r \in Subs \ pending : subs'[r] = subs[r]
        /\ \A r \in pending : subs'[r].notify = IF r \in DOMAIN allot THEN allot[r] ELSE NULL
        /\ \A r \in pending : subs'[r].status = "listed" /\ subs'[r].seq = got[r].count
    BY <2>1, <2>2
  <2> HIDE DEF pending
  <2>4. QED BY <2>1, <2>2, <2>3, <1>d
<1>2. ASSUME NEW s \in Subs, NEW t \in Timeouts, upnpevents_renewSubscription(s, t)
      PROVE  SeqInv'
  <2>1. /\ notifs' = notifs /\ got' = got
        /\ \A r \in Subs : /\ subs'[r].status = subs[r].status
                            /\ subs'[r].notify = subs[r].notify
                            /\ subs'[r].seq = subs[r].seq
    BY <1>2, <1>b DEF upnpevents_renewSubscription, SubRecords
  <2>2. QED
    BY <2>1, <1>c DEF SeqInv, SendingNext, OneBufferEach, SeqKept, NoneFinished, SeqConsecutive
<1>3. ASSUME NEW s \in Subs, upnpevents_removeSubscriber(s)
      PROVE  SeqInv'
  <2>1. /\ subs'[s].status = "freed" /\ subs[s].status = "listed" /\ got' = got
        /\ \A r \in Subs \ {s} : subs'[r] = subs[r]
    BY <1>3, <1>b DEF upnpevents_removeSubscriber, Freed, Listed
  <2>2. /\ \A n \in Notifs : notifs'[n].state = notifs[n].state /\ notifs'[n].msg = notifs[n].msg
        /\ \A n \in Notifs : n # subs[s].notify => notifs'[n].sub = notifs[n].sub
        /\ subs[s].notify # NULL => notifs'[subs[s].notify].sub = NULL
    <3>1. CASE subs[s].notify = NULL
      BY <1>3, <3>1 DEF upnpevents_removeSubscriber
    <3>2. CASE subs[s].notify # NULL
      <4>1. subs[s].notify \in Notifs
        BY <1>b, <3>2 DEF SubRecords
      <4>2. notifs' = [notifs EXCEPT ![subs[s].notify].sub = NULL]
        BY <1>3, <3>2 DEF upnpevents_removeSubscriber
      <4>3. QED BY <4>1, <4>2, <1>b DEF NotifyRecords
    <3>3. QED BY <3>1, <3>2
  <2>3. ASSUME NEW n \in Notifs PROVE SendingNext(n)'
    <3>1. SUFFICES ASSUME notifs[n].state = "ESending" PROVE SendingNext(n)'
      BY <2>2 DEF SendingNext
    <3>2. /\ notifs[n].msg.sid \in Subs
          /\ notifs[n].msg.seq = got[notifs[n].msg.sid].count
          /\ \/ notifs[n].sub = notifs[n].msg.sid
             \/ notifs[n].sub = NULL /\ subs[notifs[n].msg.sid].status = "freed"
      BY <1>c, <3>1 DEF SendingNext
    <3>3. CASE n = subs[s].notify
      <4>1. notifs[n].sub = s /\ n # NULL
        BY <1>a, <2>1, <3>3 DEF ForwardPointer
      <4>2. notifs[n].msg.sid = s
        BY <3>2, <4>1
      <4>3. QED BY <2>1, <2>2, <3>2, <3>3, <4>1, <4>2 DEF SendingNext
    <3>4. CASE n # subs[s].notify
      <4>1. notifs[n].msg.sid # s
        BY <1>a, <2>1, <3>1, <3>2, <3>4 DEF BackPointer
      <4>2. QED BY <2>1, <2>2, <3>2, <3>4, <4>1 DEF SendingNext
    <3>5. QED BY <3>3, <3>4
  <2>4. ASSUME NEW r \in Subs PROVE SeqKept(r)'
    <3>1. CASE r = s
      BY <3>1, <2>1 DEF SeqKept
    <3>2. CASE r # s
      <4>1. subs'[r] = subs[r] /\ SeqKept(r)
        BY <3>2, <2>1, <1>c
      <4>2. (subs[r].status = "listed" /\ subs[r].notify # NULL) => subs[r].notify \in Notifs
        BY <1>a DEF ForwardPointer
      <4>3. QED BY <4>1, <4>2, <2>1, <2>2 DEF SeqKept
    <3>3. QED BY <3>1, <3>2
  <2>5. OneBufferEach' /\ NoneFinished' /\ SeqConsecutive'
    BY <2>1, <2>2 DEF SeqInv, OneBufferEach, NoneFinished, SeqConsecutive
  <2>6. QED BY <2>3, <2>4, <2>5 DEF SeqInv
<1>4. ASSUME NEW v \in Services, upnp_event_var_change_notify(v)
      PROVE  SeqInv'
  <2>1. PICK allot \in Allotments(ToNotify(v)) :
          /\ notifs' = Created(allot)
          /\ subs' = [s \in Subs |-> IF s \in DOMAIN allot
                                     THEN [subs[s] EXCEPT !.notify = allot[s]]
                                     ELSE subs[s]]
    BY <1>4 DEF upnp_event_var_change_notify
  <2>2. /\ ToNotify(v) \in SUBSET Subs
        /\ \A s \in ToNotify(v) : subs[s].status = "listed" /\ subs[s].notify = NULL
    BY DEF ToNotify, Listed
  <2>3. DOMAIN allot \subseteq ToNotify(v)
    BY <2>2, AllotmentFacts
  <2>4. /\ \A s \in Subs \ ToNotify(v) : subs'[s] = subs[s]
        /\ \A s \in ToNotify(v) : subs'[s].status = "listed"
        /\ \A s \in ToNotify(v) : subs'[s].seq = subs[s].seq
        /\ \A s \in ToNotify(v) : subs'[s].notify = IF s \in DOMAIN allot THEN allot[s] ELSE NULL
    BY <2>1, <2>2, <2>3, <1>b DEF SubRecords
  <2>5. \A s \in ToNotify(v) : subs[s].seq = got[s].count
    BY <2>2, <1>c DEF SeqKept
  <2>6. got' = got
    BY <1>4 DEF upnp_event_var_change_notify
  <2>7. QED BY <2>1, <2>2, <2>4, <2>5, <2>6, <1>d
<1>5. ASSUME NEW reachable \in SUBSET Notifs, upnpevents_selectfds(reachable)
      PROVE  SeqInv'
  <2>1. ASSUME NEW n \in Notifs
        PROVE  \/ notifs'[n] = notifs[n]
               \/ /\ notifs[n].state = "ECreated"
                  /\ notifs'[n].state \in {"EConnecting", "EError"}
    <3>1. CASE notifs[n].state = "ECreated"
      <4>1. notifs'[n] = upnp_event_notify_connect(notifs[n], n \in reachable)
        BY <1>5, <3>1 DEF upnpevents_selectfds
      <4>2. QED BY <3>1, <4>1, <1>b, ConnectFacts
    <3>2. CASE notifs[n].state # "ECreated"
      BY <1>5, <3>2 DEF upnpevents_selectfds
    <3>3. QED BY <3>1, <3>2
  <2>2. subs' = subs /\ got' = got
    BY <1>5 DEF upnpevents_selectfds
  <2>3. \A s \in Subs : SeqKept(s)'
    BY <2>1, <2>2, <1>a, <1>c DEF SeqKept, ForwardPointer
  <2>4. \A n \in Notifs : SendingNext(n)'
    BY <2>1, <2>2, <1>c DEF SendingNext
  <2>5. OneBufferEach' /\ NoneFinished' /\ SeqConsecutive'
    BY <2>1, <2>2 DEF SeqInv, OneBufferEach, NoneFinished, SeqConsecutive
  <2>6. QED BY <2>3, <2>4, <2>5 DEF SeqInv
<1>6. CASE SelectInterrupted
  BY <1>6, <1>c DEF SelectInterrupted, SeqInv, SendingNext, OneBufferEach, SeqKept,
     NoneFinished, SeqConsecutive
<1>7. ASSUME NEW ready \in SUBSET watched, NEW outcome \in [ready -> Outcomes],
             upnpevents_processfds(ready, outcome)
      PROVE  SeqInv'
  <2> DEFINE after == Processed(ready, outcome)
  <2>1. ASSUME NEW n \in Notifs
        PROVE  /\ after[n].sub = notifs[n].sub
               /\ after[n].state = "free" <=> notifs[n].state = "free"
               /\ after[n].state = "ESending" => Buffered(n, after[n].msg)
               /\ after[n].state = "EWaitingForResponse"
                    => \/ notifs[n].state = "EWaitingForResponse"
                       \/ n \in ready /\ Buffered(n, after[n].msg)
               /\ after[n].state = "EFinished"
                    => n \in ready /\ notifs[n].state = "EWaitingForResponse"
               /\ after[n].state \in {"ECreated", "EConnecting"} => after[n] = notifs[n]
    <3>1. CASE n \in ready
      <4>1. outcome[n] \in Outcomes
        BY <3>1
      <4>2. after[n] = upnp_event_process_notify(notifs[n], outcome[n])
        BY <3>1 DEF Processed
      <4>3. notifs[n].state # "EFinished"
        BY DEF SeqInv, NoneFinished
      <4> HIDE DEF after
      <4>4. QED BY <3>1, <4>1, <4>2, <4>3, ProcessNotifyFacts, ProcessSeqFacts
    <3>2. CASE n \notin ready
      <4>1. after[n] = notifs[n]
        BY <3>2 DEF Processed
      <4> HIDE DEF after
      <4>2. QED BY <3>2, <4>1 DEF Buffered, SeqInv, NoneFinished
    <3>3. QED BY <3>1, <3>2
  <2>2. /\ \A s \in Subs : subs'[s] = Reaped(s, after, ready)
        /\ \A s \in Subs : got'[s] = Received(s, after, ready)
        /\ \A n \in Notifs : Over(after[n]) => notifs'[n] = FreeNotify
        /\ \A n \in Notifs : ~Over(after[n]) => notifs'[n] = after[n]
    BY <1>7 DEF upnpevents_processfds
  <2>z. \A s \in Subs : got[s].count \in Nat /\ got[s].seq \in Nat /\ subs[s].seq \in Nat
    BY <1>b DEF SubRecords
  <2>r. ready \subseteq Notifs
    BY <1>b
  <2> HIDE DEF after
  <2> DEFINE arrived(n, s) == /\ notifs[n].state # "EWaitingForResponse"
                              /\ after[n].state = "EWaitingForResponse"
                              /\ after[n].msg.sid = s
  \* at most one message arrives at each control point, with its next number
  <2>3. ASSUME NEW s \in Subs, NEW n \in ready, arrived(n, s)
        PROVE  /\ Buffered(n, after[n].msg)
               /\ got'[s].count = got[s].count + 1 /\ got'[s].seq = got[s].count
    <3>1. ASSUME NEW k \in ready, arrived(k, s)
          PROVE  Buffered(k, after[k].msg) /\ after[k].msg.seq = got[s].count
      <4>1. Buffered(k, after[k].msg)
        BY <2>1, <2>r, <3>1
      <4>2. QED BY <4>1, <2>r, <3>1, BufferedFacts
    <3>2. \A k \in ready : arrived(k, s) => k = n
      BY <2>3, <2>r, <3>1, BufferedOnce
    <3>3. (CHOOSE k \in ready : arrived(k, s)) = n
      BY <2>3, <3>2
    <3>4. Received(s, after, ready)
            = [count |-> got[s].count + 1, seq |-> after[n].msg.seq, ver |-> after[n].msg.ver]
      BY <2>3, <3>3 DEF Received
    <3>5. QED BY <2>2, <2>3, <3>1, <3>4
  <2>4. ASSUME NEW s \in Subs, ~\E n \in ready : arrived(n, s)
        PROVE  got'[s] = got[s]
    BY <2>2, <2>4 DEF Received
  \* whoever has a message in the buffer afterwards received none now
  <2>5. ASSUME NEW n \in Notifs, after[n].state = "ESending"
        PROVE  /\ Buffered(n, after[n].msg) /\ after[n].msg.sid \in Subs
               /\ got'[after[n].msg.sid] = got[after[n].msg.sid]
    <3>1. Buffered(n, after[n].msg)
      BY <2>1, <2>5
    <3>2. after[n].msg.sid \in Subs
      BY <3>1, BufferedFacts
    <3>3. ASSUME NEW k \in ready, arrived(k, after[n].msg.sid) PROVE FALSE
      <4>1. Buffered(k, after[k].msg)
        BY <2>3, <3>2, <3>3
      <4>2. k = n
        BY <2>r, <3>1, <3>3, <4>1, BufferedOnce
      <4>3. QED BY <2>5, <3>3, <4>2
    <3>4. QED BY <2>4, <3>1, <3>2, <3>3
  <2>6. ASSUME NEW s \in Subs, subs'[s].status = "listed"
        PROVE  /\ subs[s].status = "listed"
               /\ \A n \in Notifs : after[n].sub = s => after[n].state # "EError"
               /\ subs'[s].notify = IF \E n \in Notifs : after[n].sub = s /\ Over(after[n])
                                    THEN NULL ELSE subs[s].notify
               /\ subs'[s].seq = IF \E n \in ready : after[n].sub = s /\ after[n].state = "EFinished"
                                 THEN subs[s].seq + 1 ELSE subs[s].seq
    <3> DEFINE mine == {n \in Notifs : after[n].sub = s}
               failed == \E n \in mine : after[n].state = "EError"
               acked == \E n \in mine \cap ready : after[n].state = "EFinished"
               notify == IF \E n \in mine : Over(after[n]) THEN NULL ELSE subs[s].notify
    <3>1. subs'[s] = IF s \in Listed /\ (failed \/ Lapsed(s, notify)) THEN Freed(subs[s])
                     ELSE [status |-> subs[s].status, service |-> subs[s].service,
                           timeout |-> subs[s].timeout, notify |-> notify,
                           seq |-> IF acked THEN subs[s].seq + 1 ELSE subs[s].seq]
      BY <2>2 DEF Reaped
    <3>2. ~(s \in Listed /\ (failed \/ Lapsed(s, notify)))
      BY <2>6, <3>1 DEF Freed
    <3>3. /\ subs'[s].status = subs[s].status /\ subs'[s].notify = notify
          /\ subs'[s].seq = IF acked THEN subs[s].seq + 1 ELSE subs[s].seq
      BY <3>1, <3>2
    <3>4. ~failed
      BY <3>2, <3>3, <2>6 DEF Listed
    <3>5. acked <=> \E n \in ready : after[n].sub = s /\ after[n].state = "EFinished"
      BY <2>r
    <3>6. QED BY <3>3, <3>4, <3>5, <2>6
  <2>s. ASSUME NEW s \in Subs, ~(subs[s].status = "listed")
        PROVE  subs'[s].status = subs[s].status
    <3>1. s \notin Listed
      BY <2>s DEF Listed
    <3>2. Reaped(s, after, ready).status = subs[s].status
      BY <3>1 DEF Reaped
    <3>3. QED BY <2>2, <3>2
  <2>7. ASSUME NEW s \in Subs, subs[s].status = "freed" PROVE subs'[s].status = "freed"
    BY <2>7, <2>s
  <2>8. ASSUME NEW s \in Subs, subs'[s].status = "unborn" PROVE subs[s].status = "unborn"
    <3>1. Reaped(s, after, ready).status \in {"freed", subs[s].status}
      BY DEF Reaped, Freed
    <3>2. QED BY <2>2, <2>8, <3>1
  \* the notification of a listed subscriber and no other points at it
  <2>9. ASSUME NEW s \in Subs, subs[s].status = "listed", NEW n \in Notifs,
               after[n].sub = s, after[n].state # "free"
        PROVE  subs[s].notify = n
    BY <2>1, <2>9, <1>a DEF BackPointer
  <2>10. ASSUME NEW n \in Notifs PROVE SendingNext(n)'
    <3>1. SUFFICES ASSUME notifs'[n].state = "ESending" PROVE SendingNext(n)'
      BY DEF SendingNext
    <3>2. notifs'[n] = after[n]
      BY <2>2, <3>1 DEF FreeNotify
    <3> DEFINE s == after[n].msg.sid
    <3>3. Buffered(n, after[n].msg) /\ s \in Subs /\ got'[s] = got[s]
      BY <2>5, <3>1, <3>2
    <3>4. /\ after[n].msg.seq = got[s].count
          /\ \/ notifs[n].sub = s
             \/ notifs[n].sub = NULL /\ subs[s].status = "freed"
      BY <3>3, BufferedFacts
    <3>5. QED
      BY <3>1, <3>2, <3>3, <3>4, <2>1, <2>7 DEF SendingNext
  <2>11. OneBufferEach'
    <3>1. SUFFICES ASSUME NEW n \in Notifs, NEW k \in Notifs,
                          notifs'[n].state = "ESending", notifs'[k].state = "ESending",
                          notifs'[n].msg.sid = notifs'[k].msg.sid
                   PROVE  n = k
      BY DEF OneBufferEach
    <3>2. notifs'[n] = after[n] /\ notifs'[k] = after[k]
      BY <2>2, <3>1 DEF FreeNotify
    <3>3. Buffered(n, after[n].msg) /\ Buffered(k, after[k].msg)
      BY <2>5, <3>1, <3>2
    <3>4. QED BY <3>1, <3>2, <3>3, BufferedOnce
  <2>12. ASSUME NEW s \in Subs PROVE SeqKept(s)'
    <3>1. subs'[s].status = "unborn" => got'[s].count = 0
      <4>1. SUFFICES ASSUME subs'[s].status = "unborn" PROVE got'[s].count = 0
        OBVIOUS
      <4>2. subs[s].status = "unborn" /\ got[s].count = 0
        BY <4>1, <2>8, <1>c DEF SeqKept
      <4>3. ASSUME NEW n \in ready, arrived(n, s) PROVE FALSE
        <5>1. Buffered(n, after[n].msg) /\ after[n].msg.sid = s
          BY <2>3, <4>3
        <5>2. QED BY <5>1, <4>2, <2>r, BufferedFacts
      <4>4. QED BY <4>2, <4>3, <2>4
    <3>2. ASSUME subs'[s].status = "listed", subs'[s].notify = NULL
          PROVE  subs'[s].seq = got'[s].count
      <4>1. subs[s].status = "listed"
        BY <2>6, <3>2
      <4>2. CASE subs[s].notify = NULL
        <5>1. \A n \in Notifs : after[n].sub = s => after[n].state = "free"
          BY <4>1, <4>2, <2>9
        <5>2. subs'[s].seq = subs[s].seq
          BY <5>1, <2>6, <2>r, <3>2
        <5>3. ASSUME NEW n \in ready, arrived(n, s) PROVE FALSE
          <6>1. Buffered(n, after[n].msg) /\ after[n].msg.sid = s
            BY <2>3, <5>3
          <6>2. notifs[n].sub = s
            BY <6>1, <4>1, <2>r, BufferedFacts
          <6>3. QED BY <6>2, <5>1, <5>3, <2>1, <2>r
        <5>4. QED BY <5>2, <5>3, <2>4, <4>1, <4>2, <1>c DEF SeqKept
      <4>3. CASE subs[s].notify # NULL
        <5>1. PICK n \in Notifs : after[n].sub = s /\ Over(after[n])
          BY <2>6, <3>2, <4>3
        <5>2. after[n].state = "EFinished"
          BY <5>1, <2>6, <3>2 DEF Over
        <5>3. n \in ready /\ notifs[n].state = "EWaitingForResponse"
          BY <5>2, <2>1
        <5>4. subs[s].notify = n
          BY <5>1, <5>2, <4>1, <2>9
        <5>5. subs'[s].seq = subs[s].seq + 1 /\ subs[s].seq + 1 = got[s].count
          BY <5>1, <5>2, <5>3, <5>4, <2>6, <3>2, <4>1, <4>3, <1>c DEF SeqKept
        <5>6. ASSUME NEW k \in ready, arrived(k, s) PROVE FALSE
          <6>1. Buffered(k, after[k].msg) /\ after[k].msg.sid = s
            BY <2>3, <5>6
          <6>2. subs[s].notify = k
            BY <6>1, <4>1, <2>r, BufferedFacts
          <6>3. QED BY <6>2, <5>3, <5>4, <5>6
        <5>7. QED BY <5>5, <5>6, <2>4
      <4>4. QED BY <4>2, <4>3
    <3>3. ASSUME subs'[s].status = "listed", subs'[s].notify # NULL
          PROVE  /\ notifs'[subs'[s].notify].state \in {"ECreated", "EConnecting", "ESending"}
                      => subs'[s].seq = got'[s].count
                 /\ notifs'[subs'[s].notify].state = "EWaitingForResponse"
                      => subs'[s].seq + 1 = got'[s].count
      <4> DEFINE n == subs[s].notify
      <4>1. /\ subs[s].status = "listed" /\ subs'[s].notify = n
            /\ \A k \in Notifs : after[k].sub = s => ~Over(after[k])
        BY <2>6, <3>3
      <4>2. n \in Notifs /\ notifs[n].state # "free" /\ notifs[n].sub = s
        BY <3>3, <4>1, <1>a DEF ForwardPointer
      <4>3. after[n].sub = s /\ ~Over(after[n]) /\ notifs'[n] = after[n]
        BY <4>1, <4>2, <2>1, <2>2
      <4>4. subs'[s].seq = subs[s].seq
        BY <4>1, <2>6, <2>r, <3>3 DEF Over
      <4>5. \A k \in ready : arrived(k, s) => k = n
        <5>1. SUFFICES ASSUME NEW k \in ready, arrived(k, s) PROVE k = n
          OBVIOUS
        <5>2. Buffered(k, after[k].msg) /\ after[k].msg.sid = s
          BY <2>3, <5>1
        <5>3. QED BY <5>2, <4>1, <2>r, BufferedFacts
      <4>k. SeqKept(s) /\ n # NULL
        BY <1>c, <3>3, <4>1
      <4> HIDE DEF n
      <4>6. CASE after[n].state \in {"ECreated", "EConnecting", "ESending"}
        <5>1. got'[s] = got[s]
          BY <4>5, <4>6, <2>4
        <5>2. notifs[n].state \in {"ECreated", "EConnecting", "ESending"}
          BY <4>2, <4>6, <2>1 DEF Buffered
        <5>3. subs[s].seq = got[s].count
          BY <5>2, <4>1, <4>k DEF SeqKept, n
        <5>4. QED BY <5>1, <5>3, <4>1, <4>3, <4>4, <4>6
      <4>7. CASE after[n].state = "EWaitingForResponse"
        <5>1. CASE notifs[n].state = "EWaitingForResponse"
          <6>1. got'[s] = got[s]
            BY <5>1, <4>5, <2>4
          <6>2. subs[s].seq + 1 = got[s].count
            BY <5>1, <4>1, <4>k DEF SeqKept, n
          <6>3. QED BY <6>1, <6>2, <4>1, <4>3, <4>4, <4>7
        <5>2. CASE notifs[n].state # "EWaitingForResponse"
          <6>1. n \in ready /\ Buffered(n, after[n].msg)
            BY <5>2, <4>2, <4>7, <2>1
          <6>2. after[n].msg.sid = s
            BY <6>1, <4>2, BufferedFacts
          <6>3. got'[s].count = got[s].count + 1
            BY <5>2, <4>7, <6>1, <6>2, <2>3
          <6>4. subs[s].seq = got[s].count
            BY <6>1, <6>2, <4>1, <4>2, BufferedFacts
          <6>5. QED BY <6>3, <6>4, <4>1, <4>3, <4>4, <4>7, <2>z
        <5>3. QED BY <5>1, <5>2
      <4>8. CASE after[n].state \notin {"ECreated", "EConnecting", "ESending", "EWaitingForResponse"}
        BY <4>1, <4>3, <4>8
      <4>9. QED BY <4>6, <4>7, <4>8
    <3>4. QED BY <3>1, <3>2, <3>3 DEF SeqKept
  <2>13. NoneFinished'
    BY <2>2 DEF NoneFinished, Over, FreeNotify
  <2>14. SeqConsecutive'
    <3>1. SUFFICES ASSUME NEW s \in Subs, got'[s].count > 0
                   PROVE  got'[s].seq + 1 = got'[s].count
      BY DEF SeqConsecutive
    <3>2. CASE \E n \in ready : arrived(n, s)
      BY <3>2, <2>3, <2>z
    <3>3. CASE ~\E n \in ready : arrived(n, s)
      BY <3>1, <3>3, <2>4 DEF SeqInv, SeqConsecutive
    <3>4. QED BY <3>2, <3>3
  <2>15. QED BY <2>10, <2>11, <2>12, <2>13, <2>14 DEF SeqInv
<1>8. CASE Tick
  BY <1>8, <1>c DEF Tick, SeqInv, SendingNext, OneBufferEach, SeqKept, NoneFinished, SeqConsecutive
<1>9. CASE UNCHANGED vars
  BY <1>9, <1>c DEF vars, SeqInv, SendingNext, OneBufferEach, SeqKept, NoneFinished, SeqConsecutive
<1>10. QED
  BY <1>1, <1>2, <1>3, <1>4, <1>5, <1>6, <1>7, <1>8, <1>9
  DEF Next, Handler, SelectFds, ProcessFds

(* Theorem: the control point of every subscriber receives the numbers 0,   *)
(* 1, 2, ... in order, whatever notifications are cut short, orphaned by an *)
(* UNSUBSCRIBE while being sent, or skipped because one is under way.       *)
THEOREM NumbersConsecutive == Spec => []SeqConsecutive
<1> DEFINE IInv == TypeInv /\ PointersConsistent /\ SeqInv
<1>1. Init => IInv
  <2> SUFFICES ASSUME Init PROVE IInv
    OBVIOUS
  <2>1. subs \in [Subs -> SubRecords] /\ \A s \in Subs : subs[s].status = "unborn"
    BY DEF Init, SubRecords
  <2>2. notifs \in [Notifs -> NotifyRecords] /\ \A n \in Notifs : notifs[n].state = "free"
    BY DEF Init, FreeNotify, NotifyRecords
  <2>3. TypeInv
    BY <2>1, <2>2 DEF Init, TypeInv, TypeOK, MessagePrepared, SubRecords, NotifyRecords
  <2>4. PointersConsistent
    BY <2>1, <2>2 DEF PointersConsistent, Listed, Allocated
  <2>5. SeqInv
    BY <2>1, <2>2 DEF Init, SeqInv, SendingNext, OneBufferEach, SeqKept, NoneFinished, SeqConsecutive
  <2>6. QED BY <2>3, <2>4, <2>5
<1>2. IInv /\ [Next]_vars => IInv'
  BY TypeStep, PointersStep, SeqStep
<1>3. IInv => SeqConsecutive
  BY DEF SeqInv
<1>4. QED
  BY <1>1, <1>2, <1>3, PTL DEF Spec

=============================================================================
