------------------------------ MODULE ValidIGD ------------------------------
(***************************************************************************)
(* A program of libminiupnpc that has a list of devices (from a search, or *)
(* a URL it was given) and looks for a gateway it can use (miniupnpc.c,    *)
(* igd_desc_parse.c, addr_is_reserved.c).  Every question to a device is a *)
(* step: it may stay without answer, and what the device would answer may  *)
(* change before the next question.                                        *)
(*                                                                         *)
(* A description is what IGDendelt() keeps of it: whether there is a       *)
(* WANCommonInterfaceConfig service, and the connection services in the    *)
(* order of the document.  A service is its number in that order.          *)
(***************************************************************************)
EXTENDS Integers, Sequences

CONSTANTS
  Devices,
  Descriptions,   \* the descriptions a device may have
  MaxServices,    \* bound on the connection services of a description
  Lines,          \* the states a connection service may be in
  DevLists,       \* the device lists the program may have
  MaxUpsets       \* changes of lines, failed downloads, answers and allocations, together

NoService == 0
NoUrls == [dev |-> "none", service |-> NoService]

ASSUME ValidIGDAssumption ==
  /\ "none" \notin Devices
  /\ Lines \subseteq {"down", "noaddr", "private", "public"}
  /\ \A d \in Descriptions : d.cif \in BOOLEAN /\ d.services \in 0..MaxServices
  /\ \A l \in DevLists : l \in Seq(Devices)
  /\ MaxServices \in Nat /\ MaxUpsets \in Nat

VARIABLES
  description,    \* of each device, fixed
  line,           \* the state of each connection service
  upsets,
  call,           \* the call in progress, or the last one
  urls,           \* struct UPNPUrls of the caller: the service it leads to
  data,           \* struct IGDdatas of the caller: the services first and second
  live,           \* URL structures allocated and not freed
  told            \* history: what each service answered during this call

vars == <<description, line, upsets, call, urls, data, live, told>>

Services == Devices \X (1..MaxServices)
Silent == [connected |-> FALSE, addr |-> "none"]
NoData == [first |-> NoService, second |-> NoService]
NoDesc == [xml |-> FALSE, is_igd |-> FALSE, wanaddr |-> "none"]

Idle == [pc |-> "idle", devlist |-> <<>>, desc |-> <<>>, state |-> 0, i |-> 0,
         result |-> 0, wanaddr |-> "none", quiet |-> TRUE]

Init ==
  /\ description \in [Devices -> Descriptions]
  /\ line \in [Services -> Lines]
  /\ \A d \in Devices, s \in 1..MaxServices :
       s > description[d].services => line[<<d, s>>] = "down"
  /\ upsets = 0
  /\ call = Idle
  /\ urls = NoUrls /\ data = NoData /\ live = 0
  /\ told = [s \in Services |-> Silent]

-----------------------------------------------------------------------------
(* Descriptions and URLs *)

\* The first connection service of the document, then the last of the others.
IGDendelt(dt, s) ==
  IF dt.first = NoService THEN [dt EXCEPT !.first = s] ELSE [dt EXCEPT !.second = s]
parserootdesc(d) ==
  LET after[s \in 0..description[d].services] ==
        IF s = 0 THEN NoData ELSE IGDendelt(after[s - 1], s)
  IN  after[description[d].services]

addr_is_reserved(addr) == addr # "public"

Swapped(dt) == [first |-> dt.second, second |-> dt.first]

\* The URLs lead to data->first of the device.  One that cannot be allocated is
\* NULL: a question to it has no answer, and to free it does nothing.
GetUPNPUrls(d, dt) ==
  /\ urls' = [dev |-> d, service |-> dt.first]
  /\ data' = dt
  /\ live' = live + 1

FreeUPNPUrls_Forgets(dt) == urls' = NoUrls /\ data' = dt /\ live' = live
FreeUPNPUrls(dt) == urls' = NoUrls /\ data' = dt /\ live' = live - 1

-----------------------------------------------------------------------------
(* UPNP_GetValidIGD() *)

\* Where the two loops stop next, from device i of round state on: at a
\* device to look at, or at the end of the last round.
Candidate(desc, state, i) == desc[i].xml /\ (desc[i].is_igd \/ state >= 4)

Stops(c, state, i) ==
  {p \in (state..4) \X (1..Len(c.devlist)) :
     (p[1] = state => p[2] >= i) /\ Candidate(c.desc, p[1], p[2])}
Before(p, q) == p[1] < q[1] \/ (p[1] = q[1] /\ p[2] < q[2])
NextStop(c, state, i) ==
  LET s == Stops(c, state, i)
  IN  IF s = {} THEN <<0, 0>> ELSE CHOOSE p \in s : \A q \in s \ {p} : Before(p, q)

\* free_and_return, with the urls and data as they are.
Returned(c, state, i) ==
  [c EXCEPT !.pc = "done", !.state = state, !.i = i, !.result = state,
            !.wanaddr = IF state > 0 THEN c.desc[i].wanaddr ELSE @]

\* The loops go on from device i of round state.  They end without result
\* only if there was no description at all.
Continue(c, state, i) ==
  LET p == NextStop(c, state, i)
      d == c.devlist[p[2]]
  IN  \/ /\ p[1] = 0
         /\ call' = Returned(c, 0, 0)
         /\ UNCHANGED <<urls, data, live>>
      \/ /\ p[1] \in 1..2
         /\ call' = [c EXCEPT !.pc = "status", !.state = p[1], !.i = p[2]]
         /\ GetUPNPUrls(d, parserootdesc(d))
      \/ /\ p[1] \in 3..4
         /\ call' = Returned(c, p[1], p[2])
         /\ GetUPNPUrls(d, parserootdesc(d))

Dev == call.devlist[call.i]
Asked == <<Dev, data.first>>
Frame == UNCHANGED <<description, line>>

\* The program calls; an empty list and a failed calloc() are answered at once.
UPNP_GetValidIGD(devlist) ==
  /\ call.pc = "idle"
  /\ \/ /\ devlist # <<>>
        /\ call' = [Idle EXCEPT !.pc = "download", !.devlist = devlist, !.i = 1,
                                !.desc = [i \in 1..Len(devlist) |-> NoDesc]]
        /\ UNCHANGED upsets
     \/ /\ devlist = <<>>
        /\ call' = [Idle EXCEPT !.pc = "done"]
        /\ UNCHANGED upsets
     \/ /\ devlist # <<>> /\ upsets < MaxUpsets
        /\ call' = [Idle EXCEPT !.pc = "done", !.result = -1]
        /\ upsets' = upsets + 1
  /\ Frame /\ UNCHANGED <<urls, data, live, told>>

\* Step 1: the description of device i arrives, or not.
Download(ok) ==
  LET d == Dev
      c == [call EXCEPT !.desc[call.i] = [@ EXCEPT !.xml = ok,
                                                   !.is_igd = ok /\ description[d].cif],
                        !.i = @ + 1,
                        !.quiet = @ /\ ok]
  IN  /\ call.pc = "download"
      /\ ok \/ upsets < MaxUpsets
      /\ upsets' = IF ok THEN upsets ELSE upsets + 1
      /\ IF call.i < Len(call.devlist)
         THEN call' = c /\ data' = (IF ok THEN parserootdesc(d) ELSE data)
                        /\ UNCHANGED <<urls, live>>
         ELSE Continue(c, 1, 1)
      /\ Frame /\ UNCHANGED told

\* This service does not do: the next one of the device, or the next device.
\* After the second one data is swapped.
TryNext_Once(c) ==
  call' = [c EXCEPT !.pc = "next"] /\ FreeUPNPUrls(NoData)
TryNext(c) ==
  IF data.first = 1 /\ data.second # NoService
  THEN call' = [c EXCEPT !.pc = "second"] /\ FreeUPNPUrls(Swapped(data))
  ELSE call' = [c EXCEPT !.pc = "next"] /\ FreeUPNPUrls(NoData)

\* UPNPIGD_IsConnected(): without an answer the status is empty.
UPNPIGD_IsConnected(answered) ==
  /\ call.pc = "status"
  /\ answered \/ upsets < MaxUpsets
  /\ upsets' = IF answered THEN upsets ELSE upsets + 1
  /\ LET is_connected == answered /\ data.first # NoService /\ line[Asked] # "down"
         c == [call EXCEPT !.quiet = @ /\ answered]
     IN  /\ told' = IF data.first = NoService THEN told
                    ELSE [told EXCEPT ![Asked].connected = is_connected]
         /\ \/ /\ is_connected /\ call.state >= 2
               /\ call' = Returned(c, call.state, call.i)
               /\ UNCHANGED <<urls, data, live>>
            \/ /\ is_connected /\ call.state = 1
               /\ call' = [c EXCEPT !.pc = "address"]
               /\ UNCHANGED <<urls, data, live>>
            \/ ~is_connected /\ TryNext(c)
  /\ Frame

\* UPNP_GetExternalIPAddress(): without an answer desc[i].wanaddr stays.
GetExternalIPAddress(answered) ==
  /\ call.pc = "address"
  /\ answered \/ upsets < MaxUpsets
  /\ upsets' = IF answered THEN upsets ELSE upsets + 1
  /\ LET addr == IF line[Asked] \in {"private", "public"} THEN line[Asked] ELSE "none"
         c == IF answered THEN [call EXCEPT !.desc[call.i].wanaddr = addr]
              ELSE [call EXCEPT !.quiet = FALSE]
     IN  /\ told' = IF answered THEN [told EXCEPT ![Asked].addr = addr] ELSE told
         /\ IF answered /\ ~addr_is_reserved(addr)
            THEN call' = Returned(c, call.state, call.i) /\ UNCHANGED <<urls, data, live>>
            ELSE TryNext(c)
  /\ Frame

\* The URLs of the other service of the device.
SecondService ==
  /\ call.pc = "second"
  /\ call' = [call EXCEPT !.pc = "status"]
  /\ GetUPNPUrls(Dev, data)
  /\ Frame /\ UNCHANGED <<upsets, told>>

NextDevice ==
  /\ call.pc = "next"
  /\ Continue(call, call.state, call.i + 1)
  /\ Frame /\ UNCHANGED <<upsets, told>>

\* A program that was given the URL of the description.
UPNP_GetIGDFromUrl(d, ok) ==
  /\ call.pc = "idle"
  /\ ok \/ upsets < MaxUpsets
  /\ upsets' = IF ok THEN upsets ELSE upsets + 1
  /\ call' = [Idle EXCEPT !.pc = "done", !.result = IF ok THEN 1 ELSE 0,
                          !.quiet = FALSE]
  /\ IF ok THEN GetUPNPUrls(d, parserootdesc(d)) ELSE UNCHANGED <<urls, data, live>>
  /\ Frame /\ UNCHANGED told

\* The program is done with the gateway; it frees the URLs of a result.
ProgramDone ==
  /\ call.pc = "done"
  /\ call' = Idle
  /\ IF call.result > 0 THEN FreeUPNPUrls(data) ELSE UNCHANGED <<urls, data, live>>
  /\ told' = [s \in Services |-> Silent]
  /\ Frame /\ UNCHANGED upsets

\* A line goes up or down, or gets another address.
LineChanges(d, s, l) ==
  /\ upsets < MaxUpsets
  /\ s <= description[d].services /\ line[<<d, s>>] # l
  /\ line' = [line EXCEPT ![<<d, s>>] = l]
  /\ upsets' = upsets + 1
  /\ call' = [call EXCEPT !.quiet = FALSE]
  /\ UNCHANGED <<description, urls, data, live, told>>

Next ==
  \/ \E l \in DevLists : UPNP_GetValidIGD(l)
  \/ \E ok \in BOOLEAN : Download(ok)
  \/ \E ok \in BOOLEAN : UPNPIGD_IsConnected(ok)
  \/ \E ok \in BOOLEAN : GetExternalIPAddress(ok)
  \/ SecondService
  \/ NextDevice
  \/ \E d \in Devices, ok \in BOOLEAN : UPNP_GetIGDFromUrl(d, ok)
  \/ ProgramDone
  \/ \E d \in Devices, s \in 1..MaxServices, l \in Lines : LineChanges(d, s, l)

Spec == Init /\ [][Next]_vars

-----------------------------------------------------------------------------
(* Properties *)

\* What the value of the call means for a device: 1 connected with a public
\* address, 2 connected, 3 a gateway, 4 anything else.  Of the connection
\* services those count that the parser kept, the first and the last of the
\* document: of three or more the ones in the middle are never asked.
Kept(d) == {parserootdesc(d).first, parserootdesc(d).second} \ {NoService}
Having(d, ls) == {s \in Kept(d) : line[<<d, s>>] \in ls}
Rank(d) ==
  IF ~description[d].cif THEN 4
  ELSE IF Having(d, {"public"}) # {} THEN 1
  ELSE IF Having(d, Lines \ {"down"}) # {} THEN 2
  ELSE 3
First(S) == CHOOSE s \in S : \A t \in S : s <= t
BestService(d) ==
  CASE Rank(d) = 1 -> First(Having(d, {"public"}))
    [] Rank(d) = 2 -> First(Having(d, Lines \ {"down"}))
    [] OTHER       -> parserootdesc(d).first

\* UPNP_GetValidIGD() finds the best gateway: as long as nothing fails or
\* changes during the call, its value is the best rank of a device of the
\* list, urls and data are those of the first device that has it and of the
\* first service that has it, of the two the parser kept.  And whatever fails
\* or changes, a value of 1 is not pieced together from several services: the
\* service that urls and data lead to is the one that said it is connected and
\* gave the public address that is returned.
GatewayChosen ==
  (call.pc = "done" /\ call.devlist # <<>>) =>
    /\ call.quiet =>
         LET ranks == {Rank(call.devlist[i]) : i \in 1..Len(call.devlist)}
             best == First(ranks)
             d == call.devlist[First({i \in 1..Len(call.devlist) : Rank(call.devlist[i]) = best})]
         IN  /\ call.result = best
             /\ urls = [dev |-> d, service |-> BestService(d)]
             /\ data.first = BestService(d)
    /\ call.result = 1 =>
         /\ urls.service = data.first
         /\ told[<<urls.dev, data.first>>] = [connected |-> TRUE, addr |-> "public"]
         /\ call.wanaddr = "public"

\* "In any positive non zero return case, the urls and data structures passed
\* as parameters are set.  Don't forget to call FreeUPNPUrls(urls)": of all
\* the URLs built on the way, exactly those of a result are left for the
\* caller to free, and none of a call without result.
UrlsFreed ==
  /\ live <= 1
  /\ (live = 1) <=> (urls # NoUrls)
  /\ call.pc = "idle" => live = 0
  /\ call.pc = "done" => (live = 1 <=> call.result > 0)
=============================================================================
