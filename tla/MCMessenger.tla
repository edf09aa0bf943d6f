---------------------------- MODULE MCMessenger ----------------------------
(***************************************************************************)
(* Bounded instances of module Messenger: the program sends MaxSends       *)
(* events, numbered, and makes MaxCalls subscription calls, one after the  *)
(* other; the hub sends MaxFrames events; the network breaks MaxBreaks     *)
(* connections.                                                            *)
(***************************************************************************)
EXTENDS Messenger

CONSTANTS MaxSends, MaxCalls, MaxFrames, MaxBreaks, MayKill, r1, r2

VARIABLES
  sent, calls, frames, breaks,
  wanted,   \* the rooms the program has asked for, by its last call on each
  got       \* the events the hub got

mcVars == <<vars, sent, calls, frames, breaks, wanted, got>>

MCPayload == 1 .. (MaxSends + MaxFrames)

ASSUME MCMessengerAssumption ==
  /\ MaxSends \in Nat
  /\ MaxFrames \in Nat
  /\ MCPayload \subseteq Payload

MCInit ==
  /\ Init
  /\ sent = 0 /\ calls = 0 /\ frames = 0 /\ breaks = 0
  /\ wanted = {}
  /\ got = <<>>

Sending ==
  /\ sent < MaxSends
  /\ sent' = sent + 1
  /\ Send(sent')
  /\ UNCHANGED <<calls, frames, breaks, wanted, got>>

Calling ==
  /\ calls < MaxCalls
  /\ calls' = calls + 1
  /\ \E rooms \in SUBSET Rooms :
       \/ SubscribeToRooms(rooms) /\ wanted' = wanted \cup rooms
       \/ UnsubscribeFromRooms(rooms) /\ wanted' = wanted \ rooms
  /\ UNCHANGED <<sent, frames, breaks, got>>

Reading ==
  /\ frames < MaxFrames
  /\ frames' = frames + 1
  /\ ReadEvent(MaxSends + frames') \/ SkipMessage
  /\ UNCHANGED <<sent, calls, breaks, wanted, got>>

Breaking ==
  /\ Break
  /\ open => breaks < MaxBreaks
  /\ breaks' = IF open THEN breaks + 1 ELSE breaks
  /\ UNCHANGED <<sent, calls, frames, wanted, got>>

Writing ==
  /\ WritePump
  /\ got' = IF eventOut' = <<>> THEN got \o eventOut ELSE got
  /\ UNCHANGED <<sent, calls, frames, breaks, wanted>>

Other ==
  /\ ReadPump \/ retryConnection \/ Receive \/ SendChange \/ (MayKill /\ Kill)
  /\ UNCHANGED <<sent, calls, frames, breaks, wanted, got>>

MCNext == Sending \/ Calling \/ Reading \/ Breaking \/ Writing \/ Other

MCSpec == MCInit /\ [][MCNext]_mcVars

FairMCSpec == MCSpec /\ PumpFairness /\ AppReceives

FairHubMCSpec == FairMCSpec /\ HubReturns

-----------------------------------------------------------------------------
\* The hub gets the program's events in the order they were sent and none of
\* them twice, over any number of connections.
EventsInOrder == \A j, k \in 1 .. Len(got) : j < k => got[j] < got[k]

\* "We need to resubscribe": once things settle, every room the program wants
\* is subscribed at the hub, whatever was lost with earlier connections.
SubscribedRoomsAreHeld ==
  Settled => \A r \in wanted : held[r] > 0

\* "If False means to deregister": once things settle, no room is subscribed
\* at the hub that the program has given up.
UnsubscribedRoomsAreFree ==
  Settled => \A r \in Rooms \ wanted : held[r] = 0
=============================================================================
