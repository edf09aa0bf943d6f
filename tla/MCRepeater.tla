----------------------------- MODULE MCRepeater -----------------------------
(***************************************************************************)
(* Bounded instances of module Repeater: the hub sends MaxEvents events,   *)
(* and MaxInputs other things happen: HTTP clients post, devices dial or   *)
(* send, the network fails, time passes.                                   *)
(***************************************************************************)
EXTENDS Repeater, SendList

CONSTANTS MaxEvents, MaxInputs, d, w, r1, r2

VARIABLES
  events,    \* events of the hub so far
  inputs,    \* other inputs so far
  rivals     \* stations that have shared their name with another at one time

mcVars == <<vars, events, inputs, rivals>>

\* A repeater in room r2.  The database knows a device d of room r1 and
\* others, one of them in its own room and one with an ID that names no room.
MCSendMap ==
  BuildSendList(<<[id |-> w, room |-> r2, parts |-> 3],
                  [id |-> d, room |-> r1, parts |-> 3],
                  [id |-> w, room |-> r1, parts |-> 2]>>,
                Rooms, r2, Star, <<w>>)

MCInit == Init /\ events = 0 /\ inputs = 0 /\ rivals = {}

\* A dialled station has its name until runRepeater has registered it, even
\* if it ends before.
Bears(s) ==
  \/ Running(s)
  \/ distributor.step = "registering" /\ distributor.station = s

Rivals ==
  {s \in DOMAIN stations :
     Bears(s) /\ \E t \in DOMAIN stations \ {s} :
                   Bears(t) /\ stations[s].name = stations[t].name}

Event ==
  /\ events < MaxEvents
  /\ events' = events + 1
  /\ \E room \in Rooms : TakeEvent(room)
  /\ UNCHANGED inputs

Input ==
  /\ inputs < MaxInputs
  /\ inputs' = inputs + 1
  /\ \/ fireEvent
     \/ \E id \in Visitors : handleConnection(id)
     \/ \E s \in DOMAIN stations : ReadMessage(s) \/ Timeout(s) \/ Break(s)
  /\ UNCHANGED events

Work ==
  /\ \/ Distribute \/ Translate \/ SendToHub \/ Post
     \/ \E s \in DOMAIN stations : Run(s) \/ ReadsClosed(s)
  /\ UNCHANGED <<events, inputs>>

MCNext == (Event \/ Input \/ Work) /\ rivals' = rivals \cup Rivals'

MCSpec == MCInit /\ [][MCNext]_mcVars

FairMCSpec == MCSpec /\ WorkFairness /\ MessengerSends

-----------------------------------------------------------------------------
\* A station at work is in the table, or about to be put there.  It can lose
\* its place only to a station that has its name at the same time: one that
\* looked the name up before this one was in the table, or the other way
\* round.  What an earlier station of that name does when it ends, fails or is
\* registered late harms nobody else.
RunningStationIsListed ==
  \A s \in DOMAIN stations \ rivals :
    stations[s].pumper \in {"selecting", "writing", "forwarding"}
    => \/ connections[stations[s].name] = s
       \/ distributor.step = "registering" /\ distributor.station = s
=============================================================================
