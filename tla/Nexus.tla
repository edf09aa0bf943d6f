------------------------------- MODULE Nexus -------------------------------
(***************************************************************************)
(* The hub's router, hub/nexus/nexus.go.                                   *)
(*                                                                         *)
(* One goroutine (Nexus.start) owns the registries.  It alternates between *)
(* two buffered channels: incomingChannel holds the events to route,       *)
(* registrationChannel the registration changes to apply.  Every other     *)
(* goroutine reaches it through SubmitRegistrationChange, RegisterConnec-  *)
(* tion, DeregisterConnection and Submit, which block while the channel is *)
(* full, and by receiving from the write channel it registered.            *)
(*                                                                         *)
(* The environment of this module is the most general one: any connection  *)
(* calls any of these operations at any time.  Module Hub replaces it by   *)
(* the pumps of hub/hubconn.                                               *)
(*                                                                         *)
(* A loop of the goroutine takes one step per iteration, so that the write *)
(* pumps run between two sends of one event.  A Go map entry that is       *)
(* missing and one that holds an empty slice behave alike in every         *)
(* operation here; both are <<>>.                                          *)
(***************************************************************************)
EXTENDS Slices

CONSTANTS
  Rooms,            \* room IDs, the routing tag of an event
  Star,             \* the "*" subscription: every room
  ConnID,           \* registration IDs: remote address + connection type
  Chan,             \* write channels, one for each connection object
  NoChan,           \* the nil channel of a deregistration
  IdOf,             \* Chan -> ConnID: the ID a channel is registered under
  KindOf,           \* ConnID -> Kind: the type, which is part of the ID
  Payload,          \* event bodies, opaque to the hub
  RoomLists,        \* the lists of rooms subscription changes carry
  RegistrationCap,  \* cap(registrationChannel), 100 in the code
  IncomingCap,      \* cap(incomingChannel), 5000 in the code
  WriteCap,         \* cap(WriteChannel) of a connection, 1000 in the code
  RoomNexus         \* TRUE when ROOM_SYSTEM is set

Messenger == "messenger"
Repeater  == "repeater"
Hub       == "hub"
Kind      == {Messenger, Repeater, Hub}

Topics == Rooms \cup {Star}

ASSUME NexusAssumption ==
  /\ Star \notin Rooms
  /\ NoChan \notin Chan
  /\ IdOf \in [Chan -> ConnID]
  /\ KindOf \in [ConnID -> Kind]
  /\ RoomLists \subseteq Seq(Topics)
  /\ RegistrationCap \in Nat \ {0}
  /\ IncomingCap \in Nat \ {0}
  /\ WriteCap \in Nat \ {0}
  /\ RoomNexus \in BOOLEAN

EventWrapper == [room : Rooms, event : Payload]

HubEventWrapper ==
  [room : Rooms, event : Payload, source : Kind, sourceID : ConnID]

Registration == [id : ConnID, chan : Chan]

\* A deregistration needs no channel; a registration does.
RegistrationChange ==
  {r \in [type : Kind, id : ConnID, chan : Chan \cup {NoChan},
          create : BOOLEAN, rooms : Seq(Topics)] : r.create => r.chan # NoChan}

\* One send the router still owes the event in hand.  A guarded send is
\* skipped when the channel is full; an unguarded one waits.
Attempt == [reg : Registration, e : HubEventWrapper, guarded : BOOLEAN]

\* A messenger's registration change being applied, room by room.  `shared`
\* says that rooms is the very slice roomMessengerIndex holds.
Job ==
  {j \in [id : ConnID, chan : Chan \cup {NoChan}, create : BOOLEAN,
          rooms : Seq(Topics), at : Nat \ {0}, shared : BOOLEAN] :
     /\ j.create => j.chan # NoChan
     /\ j.at <= Len(j.rooms)}

VARIABLES
  messengerRegistry,    \* topic -> registrations
  roomMessengerIndex,   \* ID -> the topics it is registered for
  hubRegistry,
  repeaterRegistry,
  curRepeater,          \* round-robin cursor, 0-based
  registrationChannel,
  incomingChannel,
  writeChannel,         \* channel -> events its write pump has not taken yet
  attempts,             \* sends still owed to the event in hand
  admitted,             \* the head attempt has passed its len < cap check
  jobs                  \* <<>>, or the change being applied

registries == <<messengerRegistry, roomMessengerIndex, hubRegistry,
                repeaterRegistry>>
dispatch   == <<attempts, admitted>>
vars == <<messengerRegistry, roomMessengerIndex, hubRegistry,
          repeaterRegistry, curRepeater, registrationChannel,
          incomingChannel, writeChannel, attempts, admitted, jobs>>

Init ==
  /\ messengerRegistry = [t \in Topics |-> <<>>]
  /\ roomMessengerIndex = [i \in ConnID |-> <<>>]
  /\ hubRegistry = <<>>
  /\ repeaterRegistry = <<>>
  /\ curRepeater = 0
  /\ registrationChannel = <<>>
  /\ incomingChannel = <<>>
  /\ writeChannel = [c \in Chan |-> <<>>]
  /\ attempts = <<>>
  /\ admitted = FALSE
  /\ jobs = <<>>

\* The IDs of a slice of registrations.
IDs(regs) == [k \in 1 .. Len(regs) |-> regs[k].id]

-----------------------------------------------------------------------------
(***************************************************************************)
(* The operations other goroutines call.                                   *)
(***************************************************************************)

\* Mutant: the capacity is passed by one.
SubmitBeyondCapacity(r) ==
  /\ Len(registrationChannel) <= RegistrationCap
  /\ registrationChannel' = Append(registrationChannel, r)
  /\ UNCHANGED <<registries, curRepeater, incomingChannel, writeChannel,
                 dispatch, jobs>>

SubmitRegistrationChange(r) ==
  /\ Len(registrationChannel) < RegistrationCap
  /\ registrationChannel' = Append(registrationChannel, r)
  /\ UNCHANGED <<registries, curRepeater, incomingChannel, writeChannel,
                 dispatch, jobs>>

RegisterConnection(c) ==
  SubmitRegistrationChange(
    [type |-> KindOf[IdOf[c]], id |-> IdOf[c], chan |-> c, create |-> TRUE,
     rooms |-> <<>>])

DeregisterConnection(i) ==
  SubmitRegistrationChange(
    [type |-> KindOf[i], id |-> i, chan |-> NoChan, create |-> FALSE,
     rooms |-> <<>>])

\* A subscription message of the messenger connected through channel c.
ChangeSubscription(c, rooms, create) ==
  /\ KindOf[IdOf[c]] = Messenger
  /\ SubmitRegistrationChange(
       [type |-> Messenger, id |-> IdOf[c], chan |-> c, create |-> create,
        rooms |-> rooms])

Submit(e, i) ==
  /\ Len(incomingChannel) < IncomingCap
  /\ incomingChannel' =
       Append(incomingChannel,
              [room |-> e.room, event |-> e.event, source |-> KindOf[i],
               sourceID |-> i])
  /\ UNCHANGED <<registries, curRepeater, registrationChannel, writeChannel,
                 dispatch, jobs>>

\* The write pump of channel c takes the oldest event.
Receive(c) ==
  /\ writeChannel[c] # <<>>
  /\ writeChannel' = [writeChannel EXCEPT ![c] = Tail(@)]
  /\ UNCHANGED <<registries, curRepeater, registrationChannel,
                 incomingChannel, dispatch, jobs>>

-----------------------------------------------------------------------------
(***************************************************************************)
(* Routing an event.                                                       *)
(***************************************************************************)

\* The goroutine is at its select.
AtSelect == attempts = <<>> /\ jobs = <<>>

Guarded(regs, e) ==
  [k \in 1 .. Len(regs) |-> [reg |-> regs[k], e |-> e, guarded |-> TRUE]]

\* For an event of a repeater each hub is sent to twice: once without looking
\* at the channel, once if there is room.
Twice(regs, e) ==
  [k \in 1 .. 2 * Len(regs) |->
     [reg |-> regs[(k + 1) \div 2], e |-> e, guarded |-> k % 2 = 0]]

NextRepeater == (curRepeater + 1) % Len(repeaterRegistry)

\* Mutant: every repeater gets the event.
AllRepeaters(e) == Guarded(repeaterRegistry, e)

OneRepeater(e) ==
  IF repeaterRegistry = <<>>
  THEN <<>>
  ELSE <<[reg |-> repeaterRegistry[NextRepeater + 1], e |-> e,
          guarded |-> TRUE]>>

\* Mutant: no split horizon, an event of a hub goes on to the other hubs.
OutwardFloods(e) ==
  CASE e.source = Repeater /\ ~RoomNexus -> Twice(hubRegistry, e)
    [] e.source = Messenger -> Guarded(hubRegistry, e) \o OneRepeater(e)
    [] OTHER -> Guarded(hubRegistry, e)

\* Where an event goes besides the messengers.
Outward(e) ==
  CASE e.source = Repeater /\ ~RoomNexus -> Twice(hubRegistry, e)
    [] e.source = Messenger -> Guarded(hubRegistry, e) \o OneRepeater(e)
    [] OTHER -> <<>>

Route(e) ==
  Guarded(messengerRegistry[e.room], e)
    \o Guarded(messengerRegistry[Star], e)
    \o Outward(e)

\* Mutant: a second goroutine routes while sends of the first are owed.
RouteEventConcurrently ==
  /\ jobs = <<>>
  /\ ~admitted
  /\ incomingChannel # <<>>
  /\ attempts' = Route(Head(incomingChannel)) \o attempts
  /\ incomingChannel' = Tail(incomingChannel)
  /\ UNCHANGED <<registries, curRepeater, registrationChannel, writeChannel,
                 admitted, jobs>>

RouteEvent ==
  /\ AtSelect
  /\ incomingChannel # <<>>
  /\ LET e == Head(incomingChannel) IN
       /\ attempts' = Route(e)
       /\ curRepeater' = IF e.source = Messenger /\ repeaterRegistry # <<>>
                         THEN NextRepeater
                         ELSE curRepeater
  /\ incomingChannel' = Tail(incomingChannel)
  /\ UNCHANGED <<registries, registrationChannel, writeChannel, admitted,
                 jobs>>

\* A messenger never gets its own event back.
Echo(a) ==
  /\ KindOf[a.reg.id] = Messenger
  /\ a.e.source = Messenger
  /\ a.reg.id = a.e.sourceID

HasRoom(c) == WriteCap > Len(writeChannel[c])

\* Mutant: the check lets a full channel through.
AdmitWhenFull ==
  /\ attempts # <<>>
  /\ ~admitted
  /\ LET a == Head(attempts) IN
       a.guarded /\ ~Echo(a) /\ WriteCap >= Len(writeChannel[a.reg.chan])
  /\ admitted' = TRUE
  /\ UNCHANGED <<registries, curRepeater, registrationChannel,
                 incomingChannel, writeChannel, attempts, jobs>>

\* Mutant: a full channel ends the loop, not the iteration.
AbandonEvent ==
  /\ attempts # <<>>
  /\ ~admitted
  /\ LET a == Head(attempts) IN
       Echo(a) \/ (a.guarded /\ ~HasRoom(a.reg.chan))
  /\ attempts' = IF Echo(Head(attempts)) THEN Tail(attempts) ELSE <<>>
  /\ UNCHANGED <<registries, curRepeater, registrationChannel,
                 incomingChannel, writeChannel, admitted, jobs>>

\* The two ways an attempt ends without a send.
SkipAttempt ==
  /\ attempts # <<>>
  /\ ~admitted
  /\ LET a == Head(attempts) IN
       Echo(a) \/ (a.guarded /\ ~HasRoom(a.reg.chan))
  /\ attempts' = Tail(attempts)
  /\ UNCHANGED <<registries, curRepeater, registrationChannel,
                 incomingChannel, writeChannel, admitted, jobs>>

\* cap(Channel) > len(Channel), evaluated before the send and apart from it.
AdmitAttempt ==
  /\ attempts # <<>>
  /\ ~admitted
  /\ LET a == Head(attempts) IN
       a.guarded /\ ~Echo(a) /\ HasRoom(a.reg.chan)
  /\ admitted' = TRUE
  /\ UNCHANGED <<registries, curRepeater, registrationChannel,
                 incomingChannel, writeChannel, attempts, jobs>>

\* The send itself: Go blocks it while the channel is full.
SendAttempt ==
  /\ attempts # <<>>
  /\ LET a == Head(attempts) IN
       /\ a.guarded => admitted
       /\ HasRoom(a.reg.chan)
       /\ writeChannel' =
            [writeChannel EXCEPT ![a.reg.chan] =
               Append(@, [room |-> a.e.room, event |-> a.e.event])]
  /\ attempts' = Tail(attempts)
  /\ admitted' = FALSE
  /\ UNCHANGED <<registries, curRepeater, registrationChannel,
                 incomingChannel, jobs>>

-----------------------------------------------------------------------------
(***************************************************************************)
(* Applying a registration change.                                         *)
(***************************************************************************)

addToRegistration(r, registry) ==
  IF Hits(IDs(registry), r.id) # {}
  THEN registry
  ELSE Append(registry, [id |-> r.id, chan |-> r.chan])

removeFromRegistration(r, registry) ==
  IF Hits(IDs(registry), r.id) = {}
  THEN registry
  ELSE SwapRemove(registry, FirstHit(IDs(registry), r.id))

Apply(r, registry) ==
  IF r.create THEN addToRegistration(r, registry)
              ELSE removeFromRegistration(r, registry)

\* A hub's or a repeater's change is applied at once.
ChangePeer ==
  /\ AtSelect
  /\ registrationChannel # <<>>
  /\ LET r == Head(registrationChannel) IN
       /\ r.type # Messenger
       /\ hubRegistry' = IF r.type = Hub THEN Apply(r, hubRegistry)
                                         ELSE hubRegistry
       /\ repeaterRegistry' = IF r.type = Repeater
                              THEN Apply(r, repeaterRegistry)
                              ELSE repeaterRegistry
  /\ registrationChannel' = Tail(registrationChannel)
  /\ UNCHANGED <<messengerRegistry, roomMessengerIndex, curRepeater,
                 incomingChannel, writeChannel, dispatch, jobs>>

\* A deregistration without rooms walks the index of the messenger itself:
\* the slice the loop ranges over is the one its body edits.
StartJob ==
  /\ AtSelect
  /\ registrationChannel # <<>>
  /\ LET r == Head(registrationChannel)
         whole == ~r.create /\ r.rooms = <<>>
         rooms == IF whole THEN roomMessengerIndex[r.id] ELSE r.rooms
     IN  /\ r.type = Messenger
         /\ jobs' = IF rooms = <<>>
                    THEN <<>>
                    ELSE <<[id |-> r.id, chan |-> r.chan,
                            create |-> r.create, rooms |-> rooms, at |-> 1,
                            shared |-> whole]>>
  /\ registrationChannel' = Tail(registrationChannel)
  /\ UNCHANGED <<registries, curRepeater, incomingChannel, writeChannel,
                 dispatch>>

\* The job after one more iteration, its slice now holding rooms.
Advance(job, rooms) ==
  IF job.at = Len(rooms)
  THEN <<>>
  ELSE <<[job EXCEPT !.rooms = rooms, !.at = @ + 1]>>

\* Mutant: a room that already has registrations is left out of the index.
registerWithoutIndex ==
  /\ jobs # <<>>
  /\ LET job == Head(jobs)
         cur == job.rooms[job.at]
     IN  /\ job.create
         /\ messengerRegistry' =
              [messengerRegistry EXCEPT ![cur] =
                 Append(@, [id |-> job.id, chan |-> job.chan])]
         /\ roomMessengerIndex' =
              IF messengerRegistry[cur] = <<>>
              THEN [roomMessengerIndex EXCEPT ![job.id] = Append(@, cur)]
              ELSE roomMessengerIndex
         /\ jobs' = Advance(job, job.rooms)
  /\ UNCHANGED <<hubRegistry, repeaterRegistry, curRepeater,
                 registrationChannel, incomingChannel, writeChannel,
                 dispatch>>

\* The scan for a duplicate ends in a continue of the scan, not of the loop
\* over the rooms, so the registration is appended in every case.
registerMessenger ==
  /\ jobs # <<>>
  /\ LET job == Head(jobs)
         cur == job.rooms[job.at]
     IN  /\ job.create
         /\ messengerRegistry' =
              [messengerRegistry EXCEPT ![cur] =
                 Append(@, [id |-> job.id, chan |-> job.chan])]
         /\ roomMessengerIndex' =
              [roomMessengerIndex EXCEPT ![job.id] = Append(@, cur)]
         /\ jobs' = Advance(job, job.rooms)
  /\ UNCHANGED <<hubRegistry, repeaterRegistry, curRepeater,
                 registrationChannel, incomingChannel, writeChannel,
                 dispatch>>

\* Mutant: append(index[:j], index[j+1:]...), which moves what is not yet
\* walked down to where the walk has been.
ThroughShift(rooms, index, j) ==
  [k \in 1 .. Len(rooms) |-> IF j <= k /\ k < Len(index) THEN rooms[k + 1]
                             ELSE rooms[k]]

\* What the walk sees after index[j] = index[len(index)-1].
Through(rooms, index, j) == [rooms EXCEPT ![j] = index[Len(index)]]

deregisterMessenger ==
  /\ jobs # <<>>
  /\ LET job   == Head(jobs)
         cur   == job.rooms[job.at]
         v     == messengerRegistry[cur]
         index == roomMessengerIndex[job.id]
         known == Hits(IDs(v), job.id) # {}
         j     == FirstHit(index, cur)
         found == known /\ Hits(index, cur) # {}
     IN  /\ ~job.create
         /\ messengerRegistry' =
              IF known
              THEN [messengerRegistry EXCEPT ![cur] =
                      SwapRemove(v, FirstHit(IDs(v), job.id))]
              ELSE messengerRegistry
         /\ roomMessengerIndex' =
              [roomMessengerIndex EXCEPT ![job.id] =
                 IF found THEN SwapRemove(index, j)
                 ELSE IF known /\ Len(index) <= 1 THEN <<>>
                 ELSE index]
         /\ jobs' = Advance(job,
                      IF found /\ job.shared THEN Through(job.rooms, index, j)
                                            ELSE job.rooms)
  /\ UNCHANGED <<hubRegistry, repeaterRegistry, curRepeater,
                 registrationChannel, incomingChannel, writeChannel,
                 dispatch>>

-----------------------------------------------------------------------------
(***************************************************************************)
(* The specification.                                                      *)
(***************************************************************************)

Environment ==
  \/ \E c \in Chan : RegisterConnection(c)
  \/ \E c \in Chan : DeregisterConnection(IdOf[c])
  \/ \E c \in Chan, rooms \in RoomLists, create \in BOOLEAN :
       ChangeSubscription(c, rooms, create)
  \/ \E e \in EventWrapper, i \in ConnID : Submit(e, i)
  \/ \E c \in Chan : Receive(c)

Dispatch ==
  \/ RouteEvent
  \/ SkipAttempt
  \/ AdmitAttempt
  \/ SendAttempt

Reregister ==
  \/ ChangePeer
  \/ StartJob
  \/ registerMessenger
  \/ deregisterMessenger

Next == Environment \/ Dispatch \/ Reregister

Spec == Init /\ [][Next]_vars

-----------------------------------------------------------------------------
(***************************************************************************)
(* Properties.                                                             *)
(***************************************************************************)

Bounded(s, T, n) == s \in Seq(T) /\ Len(s) <= n

\* The types of the router's state; no channel holds more than its capacity,
\* and the change in hand stands at a room of its list.
TypeOK ==
  /\ messengerRegistry \in [Topics -> Seq(Registration)]
  /\ roomMessengerIndex \in [ConnID -> Seq(Topics)]
  /\ hubRegistry \in Seq(Registration)
  /\ repeaterRegistry \in Seq(Registration)
  /\ curRepeater \in Nat
  /\ Bounded(registrationChannel, RegistrationChange, RegistrationCap)
  /\ Bounded(incomingChannel, HubEventWrapper, IncomingCap)
  /\ writeChannel \in [Chan -> Seq(EventWrapper)]
  /\ \A c \in Chan : Len(writeChannel[c]) <= WriteCap
  /\ attempts \in Seq(Attempt)
  /\ admitted \in BOOLEAN
  /\ Bounded(jobs, Job, 1)

\* roomMessengerIndex is the inverse of messengerRegistry, counting copies, at
\* every moment, between two iterations of a change as well: what a
\* deregistration without rooms walks is what there is to remove.
IndexMatchesRegistry ==
  \A i \in ConnID, t \in Topics :
    Copies(IDs(messengerRegistry[t]), i) = Copies(roomMessengerIndex[i], t)

\* A send that passed its len < cap check never waits: registrations and
\* write pumps move on between the check and the send, and only this
\* goroutine adds to a write channel.
AdmittedSendNeverBlocks ==
  admitted => attempts # <<>> /\ HasRoom(Head(attempts).reg.chan)

Registered(i, regs) == Hits(IDs(regs), i) # {}

\* The rooms a change has still to walk that are room t.
Remaining(job, t) ==
  {k \in job.at .. Len(job.rooms) : job.rooms[k] = t}

\* A deregistration without rooms walks the slice its body edits.  Still, the
\* index is what is left at the front of that slice, and the rooms it has yet
\* to walk at the back are those the index holds, copies counted.
WalkMatchesIndex ==
  jobs # <<>> /\ Head(jobs).shared =>
    LET job   == Head(jobs)
        index == roomMessengerIndex[job.id]
    IN  /\ ~job.create
        /\ Len(index) = Len(job.rooms) - job.at + 1
        /\ \A k \in 1 .. Len(index) : index[k] = job.rooms[k]
        /\ \A t \in Topics : Cardinality(Remaining(job, t)) = Copies(index, t)

\* When a deregistration without rooms ends, no topic holds a registration of
\* that messenger, although the loop edited the slice it was walking and the
\* messenger may have subscribed to one room several times.
FullDeregistrationClears ==
  [][\A i \in ConnID :
       /\ jobs # <<>> /\ Head(jobs).shared /\ Head(jobs).id = i
       /\ jobs' = <<>>
       => \A t \in Topics : ~Registered(i, messengerRegistry'[t])]_vars
=============================================================================
