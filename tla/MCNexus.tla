------------------------------ MODULE MCNexus ------------------------------
(***************************************************************************)
(* Bounded instances of module Nexus: MaxChanges registration changes and  *)
(* MaxEvents events, each event with a payload of its own that names the   *)
(* connection it came from.  `taken` remembers what the write pumps took.  *)
(***************************************************************************)
EXTENDS NexusRefinement, TLC

CONSTANTS MaxChanges, MaxEvents, m1, m2, h1, p1, p2, r1, r2

VARIABLES changes, sent, taken

mcVars == <<vars, changes, sent, taken>>

Sender == {m1, m2, h1, p1, p2} \cap ConnID

\* A connection object stands for its channel and for its ID.
MCIdOf == [c \in Chan |-> c]
MCKindOf ==
  [i \in ConnID |-> IF i \in {m1, m2} THEN Messenger
                    ELSE IF i = h1 THEN Hub ELSE Repeater]
MCPayload == [from : Sender, n : 1 .. MaxEvents]

ASSUME MCNexusAssumption == MaxEvents \in Nat /\ MCPayload \subseteq Payload

\* Lists that make an index of three, a repeated room and a partial change.
ManyLists == {<<>>, <<r1>>, <<r1, r2, Star>>, <<r2, r2>>}
FewLists == {<<r1>>, <<r1, Star>>}

\* The two repeaters are interchangeable.
RepeaterSymmetry == Permutations({p1, p2})

MCInit == Init /\ changes = 0 /\ sent = 0 /\ taken = [c \in Chan |-> <<>>]

Change ==
  /\ changes < MaxChanges
  /\ changes' = changes + 1
  /\ \E c \in Chan :
       \/ RegisterConnection(c)
       \/ DeregisterConnection(IdOf[c])
       \/ \E rooms \in RoomLists, create \in BOOLEAN :
            ChangeSubscription(c, rooms, create)
  /\ UNCHANGED <<sent, taken>>

Event ==
  /\ sent < MaxEvents
  /\ sent' = sent + 1
  /\ \E i \in Sender, r \in Rooms :
       Submit([room |-> r, event |-> [from |-> i, n |-> sent']], i)
  /\ UNCHANGED <<changes, taken>>

Take ==
  /\ \E c \in Chan :
       /\ Receive(c)
       /\ taken' = [taken EXCEPT ![c] = Append(@, Head(writeChannel[c]).event)]
  /\ UNCHANGED <<changes, sent>>

Router == (Dispatch \/ Reregister) /\ UNCHANGED <<changes, sent, taken>>

MCNext == Change \/ Event \/ Take \/ Router

MCSpec == MCInit /\ [][MCNext]_mcVars

-----------------------------------------------------------------------------
\* Everything that ever entered channel c, oldest first.
Delivered(c) ==
  taken[c] \o [k \in 1 .. Len(writeChannel[c]) |-> writeChannel[c][k].event]

\* The kinds of connection an event of a given source may reach.
Reaches(kind) ==
  CASE kind = Messenger -> Kind
    [] kind = Repeater  -> IF RoomNexus THEN {Messenger} ELSE {Messenger, Hub}
    [] kind = Hub       -> {Messenger}

\* An event only moves away from where it came from: hub events stop at the
\* messengers, repeater events never reach a repeater, and no connection gets
\* its own messenger event back, whatever was registered meanwhile.
SplitHorizon ==
  \A c \in Chan : \A k \in 1 .. Len(Delivered(c)) :
    LET from == Delivered(c)[k].from IN
      /\ KindOf[IdOf[c]] \in Reaches(KindOf[from])
      /\ KindOf[from] = Messenger => IdOf[c] # from

\* An event leaves for the outside at most once: over all repeaters and for
\* ever, at most one copy of it enters a channel.
AtMostOneRepeater ==
  \A n \in 1 .. sent :
    Cardinality(UNION {{<<c, k>> : k \in {j \in 1 .. Len(Delivered(c)) :
                                         Delivered(c)[j].n = n}} :
                       c \in {d \in Chan : KindOf[IdOf[d]] = Repeater}}) <= 1
=============================================================================
