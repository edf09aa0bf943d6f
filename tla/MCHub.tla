------------------------------- MODULE MCHub -------------------------------
(***************************************************************************)
(* Bounded instances of module Hub: MaxConns of the connections are made,  *)
(* MaxFrames events and MaxChanges subscription changes are read.  An      *)
(* event carries the connection it was read from and its number.           *)
(***************************************************************************)
EXTENDS Hub

CONSTANTS MaxConns, MaxFrames, MaxChanges, m1, h1, p1, o1, o2, peer, post, r1

MCPayload == [from : Chan \cup PostID, n : 1 .. MaxFrames]

\* An event tells who sent it: no HTTP client is called like a connection.
ASSUME MCHubAssumption ==
  /\ MaxFrames \in Nat
  /\ MCPayload \subseteq Payload
  /\ Chan \cap PostID = {}

VARIABLES frames, changes

mcVars == <<hubVars, frames, changes>>

\* o1 and o2 are two connections to the same peer.
MCIdOf == [c \in Chan |-> IF c \in {o1, o2} THEN peer ELSE c]
MCKindOf ==
  [i \in ConnID |-> IF i \in {h1, peer} THEN Hub
                    ELSE IF i = p1 THEN Repeater ELSE Messenger]
MCRoomLists == {<<r1>>, <<r1, Star>>}
StarOnly == {<<Star>>}

MCInit == HubInit /\ frames = 0 /\ changes = 0

Frame ==
  /\ frames < MaxFrames
  /\ frames' = frames + 1
  /\ UNCHANGED changes
  /\ \E r \in Rooms :
       \/ \E c \in Chan :
            ReadEvent(c, [room |-> r, event |-> [from |-> c, n |-> frames']])
       \/ \E i \in PostID :
            Event([room |-> r, event |-> [from |-> i, n |-> frames']], i)

Subscribe ==
  /\ changes < MaxChanges
  /\ changes' = changes + 1
  /\ UNCHANGED frames
  /\ \E c \in Chan, s \in Subscription : ReadChange(c, s)

Join ==
  /\ Cardinality({c \in Chan : reader[c] # "unused"}) < MaxConns
  /\ \E c \in Chan : Connect(c)

Step == Join \/ \E c \in Chan : Fail(c) \/ Pump(c)

MCNext ==
  \/ Frame
  \/ Subscribe
  \/ (Step \/ Router) /\ UNCHANGED <<frames, changes>>

MCSpec == MCInit /\ [][MCNext]_mcVars

FairMCSpec == MCSpec /\ HubFairness

-----------------------------------------------------------------------------
\* The hub keeps the order of each source: on its way out to any one
\* connection, an event read earlier from a connection is not behind one
\* read later from it.
PerSourceOrder ==
  \A d \in Chan : \A j, k \in 1 .. Len(writeChannel[d]) :
    /\ j < k
    /\ writeChannel[d][j].event.from = writeChannel[d][k].event.from
    => writeChannel[d][j].event.n <= writeChannel[d][k].event.n
=============================================================================
