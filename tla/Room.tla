-------------------------------- MODULE Room --------------------------------
(***************************************************************************)
(* The hubs of one room: who dials whom (hub/hub.go, hub/server.go), and   *)
(* what becomes of an event among them.                                    *)
(*                                                                         *)
(* A hub handles an event in one step here, and a neighbour gets at most   *)
(* one copy.  Who gets one is as in module EventRouting; that it is one is *)
(* the router's code, for a hub is registered once and a hub in a room     *)
(* sends to it once.  All that is between the routers of two linked hubs   *)
(* (write channel, socket, read pump, incomingChannel) is one place that   *)
(* keeps no order and may lose what it holds: channels are full,           *)
(* connections break.  One hub never dials another twice at a time.        *)
(***************************************************************************)
EXTENDS Naturals, FiniteSets

CONSTANTS
  Hubs,       \* the devices of the room that route events
  Numbered,   \* those whose name ends in a number
  Number,     \* the number
  Dev,        \* the hubs started with DEV_HUB
  Messages    \* events, each sent once

ASSUME RoomAssumption ==
  /\ Numbered \subseteq Hubs
  /\ Number \in [Numbered -> Nat]
  /\ Dev \subseteq Hubs

\* A link has been dialled by its first hub; a hub knows it by its end.
Link == Hubs \X Hubs
End == Link \X {1, 2}
HubAt(end) == end[1][end[2]]
OtherEnd(end) == <<end[1], 3 - end[2]>>

\* An event at the router of a hub, or on its way there.
Client == {"messenger", "repeater"}
Arrival == [hub : Hubs, event : Messages, source : Client \cup {"hub"},
            via : End \cup {<<>>}]

VARIABLES
  running,   \* the hubs that run
  devices,   \* hub -> what it has read in the database
  up,        \* the links there are
  sent,      \* the events ever sent
  pending,   \* arrivals not yet routed
  routed,    \* hub -> event -> how often it has been routed there
  outside    \* event -> how many repeaters got it

roomVars == <<running, devices, up, sent, pending, routed, outside>>

RoomInit ==
  /\ running = {}
  /\ devices = [h \in Hubs |-> {}]
  /\ up = {}
  /\ sent = {}
  /\ pending = {}
  /\ routed = [h \in Hubs |-> [e \in Messages |-> 0]]
  /\ outside = [e \in Messages |-> 0]

-----------------------------------------------------------------------------
\* Mutant: a hub dials the others whatever their number.
DialEverybody(h) ==
  {g \in devices[h] :
     h \in Numbered /\ (h \in Dev \/ (g # h /\ g \in Numbered))}

\* Mutant: all retry loops share the loop's last address.
DialTheLast(h) ==
  {g \in DialEverybody(h) :
     \A f \in DialEverybody(h) : Number[g] >= Number[f] /\ Number[g] > Number[h]}

\* The hubs h dials: in production the others with a number not below its own.
GetHubAddresses(h) ==
  {g \in devices[h] :
     /\ h \in Numbered
     /\ \/ h \in Dev
        \/ g # h /\ g \in Numbered /\ Number[g] >= Number[h]}

\* The hub waits for devices to appear in the database, of which not all may
\* have been replicated, and reads them once.
Start(h) ==
  /\ h \notin running
  /\ running' = running \cup {h}
  /\ \E found \in SUBSET Hubs \ {{}} : devices' = [devices EXCEPT ![h] = found]
  /\ UNCHANGED <<up, sent, pending, routed, outside>>

\* The connection is lost; what was on its way may still arrive.
Break(l) ==
  /\ l \in up
  /\ up' = up \ {l}
  /\ UNCHANGED <<running, devices, sent, pending, routed, outside>>

\* OpenConnectionWithRetry gets through.
Dial(h, g) ==
  /\ {h, g} \subseteq running
  /\ g \in GetHubAddresses(h)
  /\ <<h, g>> \notin up
  /\ up' = up \cup {<<h, g>>}
  /\ UNCHANGED <<running, devices, sent, pending, routed, outside>>

\* Mutant: its links are thought to stay.
CrashUnnoticed(h) ==
  /\ h \in running
  /\ running' = running \ {h}
  /\ devices' = [devices EXCEPT ![h] = {}]
  /\ pending' = {x \in pending : x.hub # h}
  /\ UNCHANGED <<up, sent, routed, outside>>

\* A hub goes down with all it has.
Crash(h) ==
  /\ h \in running
  /\ running' = running \ {h}
  /\ devices' = [devices EXCEPT ![h] = {}]
  /\ up' = {l \in up : h \notin {l[1], l[2]}}
  /\ pending' = {x \in pending : x.hub # h}
  /\ UNCHANGED <<sent, routed, outside>>

-----------------------------------------------------------------------------
\* A messenger of hub h, or a repeater connected to it, sends an event.
Send(h, e, source) ==
  /\ h \in running
  /\ e \notin sent
  /\ sent' = sent \cup {e}
  /\ pending' = pending \cup {[hub |-> h, event |-> e, source |-> source,
                              via |-> <<>>]}
  /\ UNCHANGED <<running, devices, up, routed, outside>>

\* The ends hub h has of its links.
Ends(h) == {end \in up \X {1, 2} : HubAt(end) = h}

Copy(e, end) == [hub |-> HubAt(end), event |-> e, source |-> "hub", via |-> end]

\* Mutant: events of hubs go on to the other hubs.
ForwardAll(x) ==
  {Copy(x.event, OtherEnd(end)) : end \in Ends(x.hub) \ {x.via}}

\* In a room only the events of messengers go on to other hubs.
Forward(x) ==
  {Copy(x.event, OtherEnd(end)) :
     end \in {n \in Ends(x.hub) : x.source = "messenger"}}

\* Mutant: the repeaters of every hub get it.
RouteOutside(x) ==
  /\ x \in pending
  /\ pending' = (pending \ {x}) \cup Forward(x)
  /\ routed' = [routed EXCEPT ![x.hub][x.event] = @ + 1]
  /\ outside' \in {outside, [outside EXCEPT ![x.event] = @ + 1]}
  /\ UNCHANGED <<running, devices, up, sent>>

\* One repeater gets the event of a messenger, if there is one with room.
Route(x) ==
  /\ x \in pending
  /\ pending' = (pending \ {x}) \cup Forward(x)
  /\ routed' = [routed EXCEPT ![x.hub][x.event] = @ + 1]
  /\ outside' \in
       {outside} \cup (IF x.source = "messenger"
                       THEN {[outside EXCEPT ![x.event] = @ + 1]} ELSE {})
  /\ UNCHANGED <<running, devices, up, sent>>

\* Lost in a full channel or with a connection.
Lose(x) ==
  /\ x \in pending
  /\ x.source = "hub"
  /\ pending' = pending \ {x}
  /\ UNCHANGED <<running, devices, up, sent, routed, outside>>

-----------------------------------------------------------------------------
RoomNext ==
  \/ \E h \in Hubs : Start(h) \/ Crash(h)
  \/ \E h, g \in Hubs : Dial(h, g)
  \/ \E l \in up : Break(l)
  \/ \E h \in Hubs, e \in Messages, source \in Client :
       Send(h, e, source)
  \/ \E x \in pending : Route(x) \/ Lose(x)

RoomSpec == RoomInit /\ [][RoomNext]_roomVars

\* The retry loops go on until they get through.
RoomFairness == \A h \in Hubs : WF_roomVars(\E g \in Hubs : Dial(h, g))

-----------------------------------------------------------------------------
(***************************************************************************)
(* Properties.                                                             *)
(***************************************************************************)

\* The types of the room's state; links join hubs that run, and an event is on
\* its way to such hubs only.
RoomTypeOK ==
  /\ running \in SUBSET Hubs
  /\ devices \in [Hubs -> SUBSET Hubs]
  /\ up \in SUBSET Link
  /\ sent \in SUBSET Messages
  /\ pending \in SUBSET Arrival
  /\ routed \in [Hubs -> [Messages -> Nat]]
  /\ outside \in [Messages -> Nat]
  /\ \A l \in up : {l[1], l[2]} \subseteq running
  /\ \A x \in pending : x.hub \in running

\* No hub was started with DEV_HUB, and no two have the same number.
Production ==
  /\ Dev = {}
  /\ \A h, g \in Numbered : Number[h] = Number[g] => h = g

\* Each hub decides on its own whom to dial, yet no two hubs have two links
\* and none has one to itself, also after crashes and reconnections.
OneLinkPerPair ==
  Production =>
    \A l \in up : l[1] # l[2] /\ <<l[2], l[1]>> \notin up

\* An event reaches no hub twice: not over two links, not over a third hub and
\* not back where it came from, while links come and go; so a messenger
\* subscribed to a room once gets each of its events at most once.
OncePerHub ==
  Production => \A h \in Hubs, e \in Messages : routed[h][e] <= 1

\* "At most one repeater": of all hubs an event passes, one sends it outside.
OneWayOut == \A e \in Messages : outside[e] <= 1

Acquainted(h, g) ==
  h # g /\ {h, g} \subseteq running /\ g \in devices[h] /\ h \in devices[g]

\* Hubs that have found each other in the database get a link, whichever of the
\* two is to dial, and again after crashes and losses: at no time has the room
\* for ever a pair without.  (With finitely many faults: all pairs at a time.)
HubsMeet ==
  []<>(\A h, g \in Numbered :
         Acquainted(h, g) => <<h, g>> \in up \/ <<g, h>> \in up)
=============================================================================
