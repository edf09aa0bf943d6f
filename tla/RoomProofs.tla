----------------------------- MODULE RoomProofs -----------------------------
(***************************************************************************)
(* Theorems about module Room, for any number of hubs and events.          *)
(***************************************************************************)
EXTENDS Room, TLAPS

-----------------------------------------------------------------------------
(***************************************************************************)
(* Ends and copies.                                                        *)
(***************************************************************************)

\* Both ends of a link are at its hubs.
LEMMA EndTypes ==
  ASSUME NEW end \in End
  PROVE  /\ HubAt(end) \in Hubs
         /\ OtherEnd(end) \in End
         /\ OtherEnd(end)[1] = end[1]
         /\ HubAt(end) \in {end[1][1], end[1][2]}
         /\ HubAt(OtherEnd(end)) \in {end[1][1], end[1][2]}
<1>1. end[1] \in Hubs \X Hubs /\ end[2] \in {1, 2}
  BY DEF End, Link
<1>2. end[1][1] \in Hubs /\ end[1][2] \in Hubs
  BY <1>1
<1>3. CASE end[2] = 1
  <2>1. OtherEnd(end) = <<end[1], 2>> BY <1>3 DEF OtherEnd
  <2> QED BY <1>1, <1>2, <1>3, <2>1 DEF HubAt, End, Link
<1>4. CASE end[2] = 2
  <2>1. OtherEnd(end) = <<end[1], 1>> BY <1>4 DEF OtherEnd
  <2> QED BY <1>1, <1>2, <1>4, <2>1 DEF HubAt, End, Link
<1> QED BY <1>1, <1>3, <1>4

\* What a hub forwards is on its way to the other ends of its links.
LEMMA ForwardTypes ==
  ASSUME RoomTypeOK, NEW x \in pending, NEW y \in Forward(x)
  PROVE  /\ y \in Arrival
         /\ y.hub \in running
         /\ y.event = x.event
         /\ y.source = "hub"
         /\ x.source = "messenger"
         /\ \E end \in Ends(x.hub) :
              y.via = OtherEnd(end) /\ y.hub = HubAt(OtherEnd(end))
<1>1. PICK end \in Ends(x.hub) :
        y = Copy(x.event, OtherEnd(end)) /\ x.source = "messenger"
  BY DEF Forward
<1>2. end \in up \X {1, 2} /\ end \in End /\ end[1] \in up
  BY DEF Ends, RoomTypeOK, End
<1>3. x.event \in Messages
  BY DEF RoomTypeOK, Arrival
<1>4. HubAt(OtherEnd(end)) \in Hubs /\ OtherEnd(end) \in End
  BY <1>2, EndTypes
<1>5. y \in Arrival
  BY <1>1, <1>3, <1>4 DEF Copy, Arrival
<1>6. HubAt(OtherEnd(end)) \in running
  BY <1>2, EndTypes DEF RoomTypeOK
<1> QED BY <1>1, <1>5, <1>6 DEF Copy

-----------------------------------------------------------------------------
(***************************************************************************)
(* Types.                                                                  *)
(***************************************************************************)

\* Every step keeps the types.
LEMMA RoomTypeStep ==
  ASSUME RoomTypeOK, [RoomNext]_roomVars
  PROVE  RoomTypeOK'
<1> USE DEF RoomTypeOK
<1>1. CASE UNCHANGED roomVars BY <1>1 DEF roomVars
<1>2. ASSUME NEW h \in Hubs, Start(h) PROVE RoomTypeOK'
  BY <1>2 DEF Start
<1>3. ASSUME NEW h \in Hubs, Crash(h) PROVE RoomTypeOK'
  BY <1>3 DEF Crash
<1>4. ASSUME NEW h \in Hubs, NEW g \in Hubs, Dial(h, g) PROVE RoomTypeOK'
  BY <1>4 DEF Dial, Link
<1>5. ASSUME NEW l \in up, Break(l) PROVE RoomTypeOK'
  BY <1>5 DEF Break
<1>6. ASSUME NEW h \in Hubs, NEW e \in Messages, NEW source \in Client,
             Send(h, e, source)
      PROVE  RoomTypeOK'
  <2>1. [hub |-> h, event |-> e, source |-> source, via |-> <<>>] \in Arrival
    BY DEF Arrival
  <2> QED BY <1>6, <2>1 DEF Send
<1>7. ASSUME NEW x \in pending, Route(x) PROVE RoomTypeOK'
  <2>1. x.hub \in Hubs /\ x.event \in Messages
    BY DEF Arrival
  <2>2. \A y \in Forward(x) : y \in Arrival /\ y.hub \in running
    BY ForwardTypes
  <2>3. pending' \in SUBSET Arrival /\ \A y \in pending' : y.hub \in running
    BY <1>7, <2>2 DEF Route
  <2>4. routed' \in [Hubs -> [Messages -> Nat]]
    BY <1>7, <2>1 DEF Route
  <2>5. outside' \in [Messages -> Nat]
    BY <1>7, <2>1 DEF Route
  <2> QED BY <1>7, <2>3, <2>4, <2>5 DEF Route
<1>8. ASSUME NEW x \in pending, Lose(x) PROVE RoomTypeOK'
  BY <1>8 DEF Lose
<1> QED BY <1>1, <1>2, <1>3, <1>4, <1>5, <1>6, <1>7, <1>8 DEF RoomNext

\* The state of the room keeps its types; links join hubs that run.
THEOREM RoomTypeCorrect == RoomSpec => []RoomTypeOK
<1>1. RoomInit => RoomTypeOK
  BY DEF RoomInit, RoomTypeOK
<1> QED BY <1>1, RoomTypeStep, PTL DEF RoomSpec

-----------------------------------------------------------------------------
(***************************************************************************)
(* Links.                                                                  *)
(***************************************************************************)

\* In production a link rises: its number grows from the first hub to the
\* second.
LinksRise ==
  Production =>
    \A l \in up : /\ l[1] \in Numbered /\ l[2] \in Numbered
                  /\ Number[l[1]] < Number[l[2]]

\* A hub dials hubs with greater numbers.
LEMMA DialsUp ==
  ASSUME Production, NEW h \in Hubs, NEW g \in GetHubAddresses(h)
  PROVE  h \in Numbered /\ g \in Numbered /\ Number[h] < Number[g]
<1>1. h \in Numbered /\ g \in Numbered /\ g # h /\ Number[g] >= Number[h]
  BY DEF Production, GetHubAddresses
<1>2. Number[h] \in Nat /\ Number[g] \in Nat
  BY <1>1, RoomAssumption
<1>3. Number[h] # Number[g]
  BY <1>1 DEF Production
<1> QED BY <1>1, <1>2, <1>3

\* Every step keeps the links rising.
LEMMA LinksRiseStep ==
  ASSUME LinksRise, [RoomNext]_roomVars
  PROVE  LinksRise'
<1>1. SUFFICES ASSUME Production
               PROVE  \A l \in up' : /\ l[1] \in Numbered /\ l[2] \in Numbered
                                     /\ Number[l[1]] < Number[l[2]]
  BY DEF LinksRise, Production
<1>2. ASSUME NEW h \in Hubs, NEW g \in Hubs, Dial(h, g)
      PROVE  \A l \in up' : /\ l[1] \in Numbered /\ l[2] \in Numbered
                            /\ Number[l[1]] < Number[l[2]]
  <2>1. g \in GetHubAddresses(h) /\ up' = up \cup {<<h, g>>}
    BY <1>2 DEF Dial
  <2> QED BY <1>1, <2>1, DialsUp DEF LinksRise
<1>3. ASSUME NEW h \in Hubs, Crash(h) PROVE up' \subseteq up
  BY <1>3 DEF Crash
<1>4. ASSUME NEW l \in up, Break(l) PROVE up' \subseteq up
  BY <1>4 DEF Break
<1>5. ASSUME NEW h \in Hubs, Start(h) PROVE up' = up
  BY <1>5 DEF Start
<1>6. ASSUME NEW h \in Hubs, NEW e \in Messages, NEW source \in Client,
             Send(h, e, source)
      PROVE  up' = up
  BY <1>6 DEF Send
<1>7. ASSUME NEW x \in pending, Route(x) \/ Lose(x) PROVE up' = up
  BY <1>7 DEF Route, Lose
<1>8. UNCHANGED roomVars => up' = up BY DEF roomVars
<1> QED BY <1>1, <1>2, <1>3, <1>4, <1>5, <1>6, <1>7, <1>8 DEF RoomNext, LinksRise

\* Links that rise are one for a pair.
LEMMA RisingIsOne ==
  ASSUME RoomTypeOK, LinksRise
  PROVE  OneLinkPerPair
<1> SUFFICES ASSUME Production, NEW l \in up
             PROVE  l[1] # l[2] /\ <<l[2], l[1]>> \notin up
  BY DEF OneLinkPerPair
<1>1. /\ l[1] \in Numbered /\ l[2] \in Numbered
      /\ Number[l[1]] < Number[l[2]]
  BY DEF LinksRise
<1>2. Number[l[1]] \in Nat /\ Number[l[2]] \in Nat
  BY <1>1, RoomAssumption
<1>3. ASSUME <<l[2], l[1]>> \in up PROVE FALSE
  <2>1. Number[l[2]] < Number[l[1]]
    BY <1>3 DEF LinksRise
  <2> QED BY <1>1, <1>2, <2>1
<1> QED BY <1>1, <1>2, <1>3

\* Whenever hubs start, crash and lose links, no two of them have two links and
\* none has one to itself, if no two have the same number.
THEOREM OneLinkCorrect == RoomSpec => []OneLinkPerPair
<1>1. RoomInit => LinksRise
  BY DEF RoomInit, LinksRise
<1>2. RoomTypeOK /\ LinksRise => OneLinkPerPair
  BY RisingIsOne
<1> QED BY <1>1, <1>2, LinksRiseStep, RoomTypeCorrect, PTL DEF RoomSpec

-----------------------------------------------------------------------------
(***************************************************************************)
(* Events.                                                                 *)
(***************************************************************************)

\* What has not been sent has left no trace.
SentOnly ==
  /\ \A x \in pending : x.event \in sent
  /\ \A e \in Messages \ sent :
       outside[e] = 0 /\ \A h \in Hubs : routed[h][e] = 0

\* An event that its first hub has not routed is nowhere else.
FirstHubFirst ==
  \A x \in pending :
    x.source \in Client =>
      /\ \A y \in pending : y.event = x.event => y = x
      /\ outside[x.event] = 0
      /\ \A h \in Hubs : routed[h][x.event] = 0

\* An event is at most once on its way to a hub, and only before it has been
\* routed there.
OnceOnItsWay ==
  Production =>
    /\ \A x, y \in pending : x.hub = y.hub /\ x.event = y.event => x = y
    /\ \A x \in pending : routed[x.hub][x.event] = 0

EventInv == SentOnly /\ FirstHubFirst /\ OnceOnItsWay /\ OncePerHub /\ OneWayOut

\* A hub has at most one link to each other hub, and none to itself.
LEMMA OneEndPerHub ==
  ASSUME RoomTypeOK, OneLinkPerPair, Production,
         NEW h \in Hubs, NEW m \in Ends(h), NEW n \in Ends(h)
  PROVE  /\ HubAt(OtherEnd(m)) # h
         /\ HubAt(OtherEnd(m)) = HubAt(OtherEnd(n)) => m = n
<1> DEFINE FromTo(end, g) ==
      \/ end = <<<<h, g>>, 1>> /\ <<h, g>> \in up
      \/ end = <<<<g, h>>, 2>> /\ <<g, h>> \in up
<1>1. ASSUME NEW end \in Ends(h)
      PROVE  /\ HubAt(OtherEnd(end)) # h
             /\ FromTo(end, HubAt(OtherEnd(end)))
  <2>1. end \in up \X {1, 2} /\ end[1] \in up /\ HubAt(end) = h
    BY DEF Ends
  <2>2. end[1] \in Hubs \X Hubs /\ end[1][1] # end[1][2]
    BY <2>1 DEF RoomTypeOK, Link, OneLinkPerPair
  <2>3. CASE end[2] = 1
    <3>1. OtherEnd(end) = <<end[1], 2>> BY <2>3 DEF OtherEnd
    <3>2. h = end[1][1] /\ HubAt(OtherEnd(end)) = end[1][2]
      BY <2>1, <2>3, <3>1 DEF HubAt
    <3> QED BY <2>1, <2>2, <2>3, <3>2
  <2>4. CASE end[2] = 2
    <3>1. OtherEnd(end) = <<end[1], 1>> BY <2>4 DEF OtherEnd
    <3>2. h = end[1][2] /\ HubAt(OtherEnd(end)) = end[1][1]
      BY <2>1, <2>4, <3>1 DEF HubAt
    <3> QED BY <2>1, <2>2, <2>4, <3>2
  <2> QED BY <2>1, <2>3, <2>4
<1>2. ASSUME HubAt(OtherEnd(m)) = HubAt(OtherEnd(n)) PROVE m = n
  <2> DEFINE g == HubAt(OtherEnd(m))
  <2>1. FromTo(m, g) /\ FromTo(n, g)
    BY <1>1, <1>2
  <2>2. ~(<<h, g>> \in up /\ <<g, h>> \in up)
    BY DEF OneLinkPerPair
  <2> QED BY <2>1, <2>2
<1> QED BY <1>1, <1>2

\* Fewer arrivals do no harm.
LEMMA FewerArrivals ==
  ASSUME EventInv, pending' \subseteq pending, UNCHANGED <<sent, routed, outside>>
  PROVE  EventInv'
BY DEF EventInv, SentOnly, FirstHubFirst, OnceOnItsWay, OncePerHub, OneWayOut,
       Production

\* A new event is nowhere yet.
LEMMA SendKeepsEventInv ==
  ASSUME RoomTypeOK, EventInv, NEW h \in Hubs, NEW e \in Messages,
         NEW source \in Client, Send(h, e, source)
  PROVE  EventInv'
<1> DEFINE x == [hub |-> h, event |-> e, source |-> source, via |-> <<>>]
<1>1. /\ e \notin sent /\ sent' = sent \cup {e}
      /\ pending' = pending \cup {x}
      /\ UNCHANGED <<routed, outside>>
  BY DEF Send
<1>2. \A y \in pending : y.event # e
  BY <1>1 DEF EventInv, SentOnly
<1>3. outside[e] = 0 /\ \A g \in Hubs : routed[g][e] = 0
  BY <1>1 DEF EventInv, SentOnly
<1>4. x.hub = h /\ x.event = e
  OBVIOUS
<1> HIDE DEF x
<1>5. SentOnly'
  BY <1>1, <1>4 DEF EventInv, SentOnly
<1>6. FirstHubFirst'
  BY <1>1, <1>2, <1>3, <1>4 DEF EventInv, FirstHubFirst
<1>7. OnceOnItsWay'
  BY <1>1, <1>2, <1>3, <1>4 DEF EventInv, OnceOnItsWay, Production
<1>8. OncePerHub' /\ OneWayOut'
  BY <1>1 DEF EventInv, OncePerHub, OneWayOut, Production
<1> QED BY <1>5, <1>6, <1>7, <1>8 DEF EventInv

\* The routing of an event counts once, and its copies go where it has not
\* been.
LEMMA RouteKeepsEventInv ==
  ASSUME RoomTypeOK, OneLinkPerPair, EventInv, NEW x \in pending, Route(x)
  PROVE  EventInv'
<1> DEFINE e == x.event
           h == x.hub
<1>1. /\ pending' = (pending \ {x}) \cup Forward(x)
      /\ routed' = [routed EXCEPT ![h][e] = @ + 1]
      /\ sent' = sent
  BY DEF Route
<1>2. h \in Hubs /\ e \in Messages /\ e \in sent
  BY DEF RoomTypeOK, Arrival, EventInv, SentOnly
<1>3. /\ \A g \in Hubs, f \in Messages :
           routed'[g][f] = IF g = h /\ f = e THEN routed[g][f] + 1
                                             ELSE routed[g][f]
      /\ \A g \in Hubs, f \in Messages : routed[g][f] \in Nat
  BY <1>1, <1>2 DEF RoomTypeOK
<1>4. \A y \in Forward(x) :
        /\ y.hub \in Hubs
        /\ y.event = e
        /\ y.source = "hub"
        /\ x.source = "messenger"
        /\ \E end \in Ends(h) :
             y.via = OtherEnd(end) /\ y.hub = HubAt(OtherEnd(end))
  BY ForwardTypes DEF Arrival
<1>5. \A y \in pending : y.hub \in Hubs /\ y.event \in Messages
  BY DEF RoomTypeOK, Arrival
<1>6. Forward(x) # {} =>
        /\ \A y \in pending : y.event = e => y = x
        /\ outside[e] = 0
        /\ \A g \in Hubs : routed[g][e] = 0
  BY <1>4 DEF EventInv, FirstHubFirst, Client
<1>7. /\ \A f \in Messages : f # e => outside'[f] = outside[f]
      /\ x.source # "messenger" => outside' = outside
      /\ outside'[e] \in {outside[e], outside[e] + 1}
  BY <1>2 DEF Route, RoomTypeOK
<1>8. SentOnly'
  <2>1. \A y \in pending' : y.event \in sent
    BY <1>1, <1>2, <1>4 DEF EventInv, SentOnly
  <2>2. \A f \in Messages \ sent :
          outside'[f] = 0 /\ \A g \in Hubs : routed'[g][f] = 0
    BY <1>2, <1>3, <1>7 DEF EventInv, SentOnly
  <2> QED BY <1>1, <2>1, <2>2 DEF SentOnly
<1>9. FirstHubFirst'
  <2> SUFFICES ASSUME NEW y \in pending', y.source \in Client
               PROVE  /\ \A z \in pending' : z.event = y.event => z = y
                      /\ outside'[y.event] = 0
                      /\ \A g \in Hubs : routed'[g][y.event] = 0
    BY DEF FirstHubFirst
  <2>1. y \in pending /\ y # x
    BY <1>1, <1>4 DEF Client
  <2>2. y.event # e
    BY <2>1 DEF EventInv, FirstHubFirst
  <2>3. \A z \in pending' : z.event = y.event => z \in pending
    BY <1>1, <1>4, <2>2
  <2> QED BY <1>3, <1>5, <1>7, <2>1, <2>2, <2>3 DEF EventInv, FirstHubFirst
<1>10. OnceOnItsWay'
  <2> SUFFICES ASSUME Production
               PROVE  /\ \A y, z \in pending' :
                           y.hub = z.hub /\ y.event = z.event => y = z
                      /\ \A y \in pending' : routed'[y.hub][y.event] = 0
    BY DEF OnceOnItsWay, Production
  <2>1. ASSUME NEW y \in Forward(x)
        PROVE  y.hub # h /\ routed[y.hub][e] = 0
    BY <1>2, <1>4, <1>6, <2>1, OneEndPerHub
  <2>2. ASSUME NEW y \in Forward(x), NEW z \in Forward(x), y.hub = z.hub
        PROVE  y = z
    <3>1. PICK m \in Ends(h) : y = Copy(e, OtherEnd(m))
      BY DEF Forward
    <3>2. PICK n \in Ends(h) : z = Copy(e, OtherEnd(n))
      BY DEF Forward
    <3>3. HubAt(OtherEnd(m)) = HubAt(OtherEnd(n))
      BY <2>2, <3>1, <3>2 DEF Copy
    <3>4. m = n BY <1>2, <3>3, OneEndPerHub
    <3> QED BY <3>1, <3>2, <3>4
  <2>3. ASSUME NEW y \in Forward(x), NEW z \in pending \ {x}
        PROVE  y.event # z.event
    BY <1>4, <1>6, <2>3
  <2>4. \A y, z \in pending' : y.hub = z.hub /\ y.event = z.event => y = z
    BY <1>1, <2>2, <2>3 DEF EventInv, OnceOnItsWay
  <2>5. \A y \in pending \ {x} : ~(y.hub = h /\ y.event = e)
    BY DEF EventInv, OnceOnItsWay
  <2>6. \A y \in pending' : routed'[y.hub][y.event] = 0
    BY <1>1, <1>2, <1>3, <1>4, <1>5, <2>1, <2>5 DEF EventInv, OnceOnItsWay
  <2> QED BY <2>4, <2>6
<1>11. OncePerHub'
  <2> SUFFICES ASSUME Production, NEW g \in Hubs, NEW f \in Messages
               PROVE  routed'[g][f] <= 1
    BY DEF OncePerHub, Production
  <2>1. routed[h][e] = 0
    BY DEF EventInv, OnceOnItsWay
  <2> QED BY <1>3, <2>1 DEF EventInv, OncePerHub
<1>12. OneWayOut'
  <2>1. x.source = "messenger" => outside[e] = 0
    BY DEF EventInv, FirstHubFirst, Client
  <2>2. \A f \in Messages : outside[f] \in Nat
    BY DEF RoomTypeOK
  <2> QED BY <1>2, <1>7, <2>1, <2>2 DEF EventInv, OneWayOut
<1> QED BY <1>8, <1>9, <1>10, <1>11, <1>12 DEF EventInv

\* Every step keeps the five.
LEMMA EventInvStep ==
  ASSUME RoomTypeOK, OneLinkPerPair, EventInv, [RoomNext]_roomVars
  PROVE  EventInv'
<1>1. ASSUME NEW h \in Hubs, Start(h) PROVE EventInv'
  BY <1>1, FewerArrivals DEF Start
<1>2. ASSUME NEW h \in Hubs, Crash(h) PROVE EventInv'
  <2>1. pending' \subseteq pending /\ UNCHANGED <<sent, routed, outside>>
    BY <1>2 DEF Crash
  <2> QED BY <2>1, FewerArrivals
<1>3. ASSUME NEW h \in Hubs, NEW g \in Hubs, Dial(h, g) PROVE EventInv'
  BY <1>3, FewerArrivals DEF Dial
<1>4. ASSUME NEW l \in up, Break(l) PROVE EventInv'
  BY <1>4, FewerArrivals DEF Break
<1>5. ASSUME NEW x \in pending, Lose(x) PROVE EventInv'
  <2>1. pending' \subseteq pending /\ UNCHANGED <<sent, routed, outside>>
    BY <1>5 DEF Lose
  <2> QED BY <2>1, FewerArrivals
<1>6. UNCHANGED roomVars => EventInv'
  BY FewerArrivals DEF roomVars
<1> QED BY <1>1, <1>2, <1>3, <1>4, <1>5, <1>6, SendKeepsEventInv,
           RouteKeepsEventInv DEF RoomNext

\* The invariant holds in every reachable state.
LEMMA EventInvCorrect == RoomSpec => []EventInv
<1>1. RoomInit => EventInv
  BY DEF RoomInit, EventInv, SentOnly, FirstHubFirst, OnceOnItsWay, OncePerHub,
         OneWayOut
<1> QED BY <1>1, EventInvStep, RoomTypeCorrect, OneLinkCorrect, PTL DEF RoomSpec

\* However hubs start, crash, dial and lose links, no hub of a room in
\* production routes an event twice.
THEOREM OncePerHubCorrect == RoomSpec => []OncePerHub
<1>1. EventInv => OncePerHub BY DEF EventInv
<1> QED BY <1>1, EventInvCorrect, PTL

\* Of all the hubs an event passes, at most one gives it to a repeater, and that
\* one once, whatever the hubs' numbers.
THEOREM OneWayOutCorrect == RoomSpec => []OneWayOut
<1>1. EventInv => OneWayOut BY DEF EventInv
<1> QED BY <1>1, EventInvCorrect, PTL
=============================================================================
