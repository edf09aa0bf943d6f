---------------------------- MODULE RepeaterFlow ----------------------------
(***************************************************************************)
(* The repeater with its messenger: modules Repeater and Messenger         *)
(* composed, as server.go puts them together.                              *)
(*                                                                         *)
(* runRepeater receives from the messenger and runRepeaterTranslator sends *)
(* to it; each of these steps is one of both modules.  All other steps of  *)
(* either leave the other's state alone.  The variables of the messenger   *)
(* have the names of module Messenger.  An event is its room.  A repeater  *)
(* neither subscribes to rooms nor kills its messenger.                    *)
(***************************************************************************)
EXTENDS Repeater

CONSTANTS
  BufferSize,       \* the messenger's buffers, 1000 in server.go
  SubscriptionCap,
  MaxResubs

VARIABLES
  writeChannel, subscriptionChannel, readChannel, subscriptionList, appCall,
  resubs, reader, inHand, writer, eventOut, changeOut, readDone, writeDone,
  retry, killed, open, held

M == INSTANCE Messenger WITH Payload <- Rooms

messengerVars == <<writeChannel, subscriptionChannel, readChannel,
  subscriptionList, appCall, resubs, reader, inHand, writer, eventOut,
  changeOut, readDone, writeDone, retry, killed, open, held>>
flowVars == <<vars, messengerVars>>

FlowInit == Init /\ M!Init

TakeFromMessenger ==
  /\ readChannel # <<>>
  /\ TakeEvent(Head(readChannel))
  /\ M!Receive

SendToMessenger ==
  /\ SendToHub
  /\ \E room \in Rooms : M!Send(room)

\* Steps of the repeater alone, the network and the devices included.
StationStep(s) == Run(s) \/ ReadMessage(s) \/ Timeout(s) \/ Break(s)
RepeaterStep ==
  \/ Distribute \/ Translate \/ Post \/ fireEvent
  \/ \E id \in Visitors : handleConnection(id)
  \/ \E s \in DOMAIN stations : StationStep(s)

MessengerStep == M!Pumps \/ \E room \in Rooms : M!ReadEvent(room)

FlowNext ==
  \/ TakeFromMessenger
  \/ SendToMessenger
  \/ RepeaterStep /\ UNCHANGED messengerVars
  \/ MessengerStep /\ UNCHANGED vars

FlowSpec == FlowInit /\ [][FlowNext]_flowVars

\* What the two modules assume of each other, AppReceives and MessengerSends,
\* is replaced by what the other does.
FlowFairness ==
  /\ WorkFairness
  /\ WF_flowVars(TakeFromMessenger)
  /\ WF_flowVars(SendToMessenger)
  /\ M!PumpFairness
  /\ M!HubReturns

\* "Try to reconnect": the messenger of a repeater makes a lost connection
\* again, as it does for a program that goes on receiving.
RepeaterComesBack == M!ConnectionComesBack
=============================================================================
