---------------------------- MODULE EventRouting ----------------------------
(***************************************************************************)
(* What the hub promises of an event, without saying how.                  *)
(*                                                                         *)
(* Events are taken from the queue one after the other.  When an event is  *)
(* taken, its audience is fixed: the messengers subscribed to its room or  *)
(* to every room, except the one it came from; the hubs, if it came from a *)
(* messenger, or from a repeater to a hub that is not in a room; exactly   *)
(* one repeater, if it came from a messenger and there is one.  Everyone   *)
(* in the audience gets it unless their mailbox is full at the moment it   *)
(* is their turn.  Until all have been served nothing is registered or     *)
(* deregistered and no other event is taken, so events keep their order.   *)
(*                                                                         *)
(* A messenger or a hub may get an event more than once, a repeater not.   *)
(***************************************************************************)
EXTENDS Naturals, Sequences, FiniteSets

CONSTANTS Rooms, Star, Chan, IdOf, ConnID, KindOf, Payload, RoomNexus,
          QueueCap, MailboxCap

VARIABLES
  queue,        \* events of anybody, oldest first
  owed,         \* <<channel, event>>: who is still to be served the event
  subscribed,   \* messenger channel -> rooms and Star
  peers,        \* the channels of the hubs and repeaters
  mailbox       \* channel -> events not yet taken, oldest first

routingVars == <<queue, owed, subscribed, peers, mailbox>>

Event == [room : Rooms, event : Payload,
          source : {"messenger", "repeater", "hub"}, sourceID : ConnID]

Of(kind) == {c \in Chan : KindOf[IdOf[c]] = kind}

Init ==
  /\ queue = <<>>
  /\ owed = {}
  /\ subscribed = [c \in Chan |-> {}]
  /\ peers = {}
  /\ mailbox = [c \in Chan |-> <<>>]

Subscribers(e) ==
  {c \in Of("messenger") :
     /\ e.room \in subscribed[c] \/ Star \in subscribed[c]
     /\ ~(e.source = "messenger" /\ e.sourceID = IdOf[c])}

HubsFor(e) ==
  IF e.source = "messenger" \/ (e.source = "repeater" /\ ~RoomNexus)
  THEN peers \cap Of("hub") ELSE {}

\* The choices of a repeater.
RepeatersFor(e) ==
  IF e.source = "messenger" /\ peers \cap Of("repeater") # {}
  THEN {{c} : c \in peers \cap Of("repeater")} ELSE {{}}

Accept ==
  /\ Len(queue) < QueueCap
  /\ \E e \in Event : queue' = Append(queue, e)
  /\ UNCHANGED <<owed, subscribed, peers, mailbox>>

Begin ==
  /\ owed = {}
  /\ queue # <<>>
  /\ queue' = Tail(queue)
  /\ LET e == Head(queue) IN
       \E out \in RepeatersFor(e) :
         owed' = (Subscribers(e) \cup HubsFor(e) \cup out) \X {e}
  /\ UNCHANGED <<subscribed, peers, mailbox>>

Serve(c, e) ==
  /\ <<c, e>> \in owed
  /\ Len(mailbox[c]) < MailboxCap
  /\ mailbox' = [mailbox EXCEPT
       ![c] = Append(@, [room |-> e.room, event |-> e.event])]
  /\ \/ owed' = owed \ {<<c, e>>}
     \/ c \notin Of("repeater") /\ owed' = owed
  /\ UNCHANGED <<queue, subscribed, peers>>

Drop(c, e) ==
  /\ <<c, e>> \in owed
  /\ Len(mailbox[c]) = MailboxCap
  /\ owed' = owed \ {<<c, e>>}
  /\ UNCHANGED <<queue, subscribed, peers, mailbox>>

Take(c) ==
  /\ mailbox[c] # <<>>
  /\ mailbox' = [mailbox EXCEPT ![c] = Tail(@)]
  /\ UNCHANGED <<queue, owed, subscribed, peers>>

\* One connection's registrations change.
Change(i) ==
  /\ owed = {}
  /\ subscribed' \in [Chan -> SUBSET (Rooms \cup {Star})]
  /\ peers' \in SUBSET Chan
  /\ \A c \in Chan : IdOf[c] # i =>
       subscribed'[c] = subscribed[c] /\ (c \in peers' <=> c \in peers)
  /\ UNCHANGED <<queue, owed, mailbox>>

Next ==
  \/ Accept
  \/ Begin
  \/ \E x \in owed : Serve(x[1], x[2]) \/ Drop(x[1], x[2])
  \/ \E c \in Chan : Take(c)
  \/ \E i \in ConnID : Change(i)

Spec == Init /\ [][Next]_routingVars
=============================================================================
