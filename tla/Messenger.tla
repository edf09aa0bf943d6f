----------------------------- MODULE Messenger -----------------------------
(***************************************************************************)
(* The messenger package, messenger/connection.go: one connection to a hub *)
(* that a program keeps, and that reconnects by itself.                    *)
(*                                                                         *)
(* A read pump and a write pump run while there is a connection.  Each     *)
(* ends with a token in readDone or writeDone; the write pump goes on as   *)
(* retryConnection, which waits for both tokens, dials until it gets a     *)
(* connection, starts the pumps and subscribes again.  That last call can  *)
(* wait for room in subscriptionChannel while the new connection is        *)
(* already lost and the next retryConnection runs: `resubs` holds every    *)
(* such call.                                                              *)
(*                                                                         *)
(* The network is the environment: a read or a write may fail at any time, *)
(* and does once this side has closed the socket; frames that had come by  *)
(* then may still be read.  A pump's step reaches to its next call that    *)
(* can block.  A missed ping is a read that fails.  A write has no         *)
(* deadline: while the hub does not read and the socket is full it blocks, *)
(* and the write pump looks at nothing else.                               *)
(***************************************************************************)
EXTENDS Slices

CONSTANTS
  Rooms,            \* room IDs and "*"
  Payload,          \* events
  BufferSize,       \* cap(writeChannel) and cap(readChannel)
  SubscriptionCap,  \* cap(subscriptionChannel), 100 in the code
  MaxResubs         \* bound on the calls in resubs; the code has none

ASSUME MessengerAssumption ==
  /\ BufferSize \in Nat \ {0}
  /\ SubscriptionCap \in Nat \ {0}
  /\ MaxResubs \in Nat \ {0}

SubscriptionChange == [rooms : SUBSET Rooms, create : BOOLEAN]

ReaderState == {"polling", "reading", "delivering", "signalling", "stopped"}

\* "signalling" ends in retryConnection, "closing" does not: Kill was seen.
WriterState == {"selecting", "writing", "puttingBack", "signalling",
                "closing", "stopped"}

RetryState == {"idle", "waitRead", "waitWrite", "dialing"}

\* A retryConnection that has started the pumps: about to list the rooms,
\* about to put them into subscriptionList, or waiting to send the change.
Resub == [at : {"listing", "adding", "sending"}, rooms : SUBSET Rooms]

VARIABLES
  writeChannel, subscriptionChannel, readChannel,
  subscriptionList,
  appCall,          \* the change the program's call waits to send, or <<>>
  resubs,
  reader,
  inHand,           \* the event the read pump holds while delivering
  writer,
  eventOut,         \* the event the write pump is writing, or <<>>
  changeOut,        \* the change it is writing, or <<>>
  readDone, writeDone,   \* the token is in the channel
  retry,
  killed,           \* killChan is closed
  open,             \* this side has not closed the socket
  held              \* at the hub: room -> registrations of this connection

events == <<writeChannel, readChannel, inHand>>
subs   == <<subscriptionChannel, subscriptionList, appCall, resubs>>
tokens == <<readDone, writeDone>>
out    == <<eventOut, changeOut>>
pump   == <<writer, out>>
vars   == <<writeChannel, subscriptionChannel, readChannel, subscriptionList,
            appCall, resubs, reader, inHand, writer, eventOut, changeOut,
            readDone, writeDone, retry, killed, open, held>>

Nothing == [r \in Rooms |-> 0]

\* BuildMessenger: connected, or failed and retrying, in which case both
\* tokens are there from the start.
Init ==
  /\ writeChannel = <<>> /\ subscriptionChannel = <<>> /\ readChannel = <<>>
  /\ subscriptionList = {}
  /\ appCall = <<>> /\ resubs = <<>> /\ inHand = <<>>
  /\ eventOut = <<>> /\ changeOut = <<>>
  /\ killed = FALSE
  /\ held = Nothing
  /\ \/ /\ open = TRUE
        /\ reader = "polling" /\ writer = "selecting"
        /\ readDone = FALSE /\ writeDone = FALSE
        /\ retry = "idle"
     \/ /\ open = FALSE
        /\ reader = "stopped" /\ writer = "stopped"
        /\ readDone = TRUE /\ writeDone = TRUE
        /\ retry = "waitRead"

-----------------------------------------------------------------------------
(***************************************************************************)
(* What the program calls.                                                 *)
(***************************************************************************)

Send(e) ==
  /\ Len(writeChannel) < BufferSize
  /\ writeChannel' = Append(writeChannel, e)
  /\ UNCHANGED <<subs, readChannel, reader, inHand, pump, tokens, retry,
                 killed, open, held>>

Receive ==
  /\ readChannel # <<>>
  /\ readChannel' = Tail(readChannel)
  /\ UNCHANGED <<subs, writeChannel, reader, inHand, pump, tokens, retry,
                 killed, open, held>>

\* The list changes at once, the call returns when the change is sent.
SubscribeToRooms(rooms) ==
  /\ appCall = <<>>
  /\ rooms # {}
  /\ subscriptionList' = subscriptionList \cup rooms
  /\ appCall' = <<[rooms |-> rooms, create |-> TRUE]>>
  /\ UNCHANGED <<events, subscriptionChannel, resubs, reader, pump, tokens,
                 retry, killed, open, held>>

UnsubscribeFromRooms(rooms) ==
  /\ appCall = <<>>
  /\ rooms # {}
  /\ subscriptionList' = subscriptionList \ rooms
  /\ appCall' = <<[rooms |-> rooms, create |-> FALSE]>>
  /\ UNCHANGED <<events, subscriptionChannel, resubs, reader, pump, tokens,
                 retry, killed, open, held>>

\* Mutant: the capacity is passed by one.
SendChangeBeyondCapacity ==
  /\ appCall # <<>>
  /\ Len(subscriptionChannel) <= SubscriptionCap
  /\ subscriptionChannel' = Append(subscriptionChannel, Head(appCall))
  /\ appCall' = <<>>
  /\ UNCHANGED <<events, subscriptionList, resubs, reader, pump, tokens,
                 retry, killed, open, held>>

SendChange ==
  /\ appCall # <<>>
  /\ Len(subscriptionChannel) < SubscriptionCap
  /\ subscriptionChannel' = Append(subscriptionChannel, Head(appCall))
  /\ appCall' = <<>>
  /\ UNCHANGED <<events, subscriptionList, resubs, reader, pump, tokens,
                 retry, killed, open, held>>

\* A second call panics: the channel is closed already.
Kill ==
  /\ ~killed
  /\ killed' = TRUE
  /\ UNCHANGED <<events, subs, reader, pump, tokens, retry, open, held>>

-----------------------------------------------------------------------------
(***************************************************************************)
(* The read pump.                                                          *)
(***************************************************************************)

ReaderOnly == UNCHANGED <<subs, writeChannel, pump, tokens, retry, killed,
                          held>>

\* killChan is looked at between two messages only.
PollKill ==
  /\ reader = "polling"
  /\ reader' = IF killed THEN "signalling" ELSE "reading"
  /\ open' = (open /\ ~killed)
  /\ UNCHANGED <<readChannel, inHand>>
  /\ ReaderOnly

ReadEvent(e) ==
  /\ reader = "reading"
  /\ reader' = "delivering"
  /\ inHand' = <<e>>
  /\ UNCHANGED <<readChannel, open>>
  /\ ReaderOnly

\* A message that is not binary or does not parse.
SkipMessage ==
  /\ reader = "reading"
  /\ reader' = "polling"
  /\ UNCHANGED <<readChannel, inHand, open>>
  /\ ReaderOnly

Deliver ==
  /\ reader = "delivering"
  /\ Len(readChannel) < BufferSize
  /\ readChannel' = Append(readChannel, Head(inHand))
  /\ inHand' = <<>>
  /\ reader' = "polling"
  /\ UNCHANGED open
  /\ ReaderOnly

ReadFails ==
  /\ reader = "reading"
  /\ reader' = "signalling"
  /\ open' = FALSE
  /\ UNCHANGED <<readChannel, inHand>>
  /\ ReaderOnly

SignalRead ==
  /\ reader = "signalling"
  /\ ~readDone
  /\ readDone' = TRUE
  /\ reader' = "stopped"
  /\ UNCHANGED <<events, subs, pump, writeDone, retry, killed, open, held>>

-----------------------------------------------------------------------------
(***************************************************************************)
(* The write pump.                                                         *)
(***************************************************************************)

WriterOnly == UNCHANGED <<readChannel, subscriptionList, appCall, resubs,
                          reader, inHand, writeDone, retry, killed>>

TakeEvent ==
  /\ writer = "selecting"
  /\ writeChannel # <<>>
  /\ writeChannel' = Tail(writeChannel)
  /\ eventOut' = <<Head(writeChannel)>>
  /\ writer' = "writing"
  /\ UNCHANGED <<subscriptionChannel, changeOut, readDone, open, held>>
  /\ WriterOnly

WriteEvent ==
  /\ eventOut # <<>>
  /\ open
  /\ eventOut' = <<>>
  /\ writer' = "selecting"
  /\ UNCHANGED <<writeChannel, subscriptionChannel, changeOut, readDone, open,
                 held>>
  /\ WriterOnly

\* Mutant: the event is queued again, behind those sent since.
WriteEventFailsRequeues ==
  /\ eventOut # <<>>
  /\ writeChannel' = writeChannel \o eventOut
  /\ eventOut' = <<>>
  /\ writer' = "signalling"
  /\ open' = FALSE
  /\ UNCHANGED <<subscriptionChannel, changeOut, readDone, held>>
  /\ WriterOnly

\* The event taken from the channel is lost with the connection.
WriteEventFails ==
  /\ eventOut # <<>>
  /\ eventOut' = <<>>
  /\ writer' = "signalling"
  /\ open' = FALSE
  /\ UNCHANGED <<writeChannel, subscriptionChannel, changeOut, readDone, held>>
  /\ WriterOnly

TakeChange ==
  /\ writer = "selecting"
  /\ subscriptionChannel # <<>>
  /\ subscriptionChannel' = Tail(subscriptionChannel)
  /\ changeOut' = <<Head(subscriptionChannel)>>
  /\ writer' = "writing"
  /\ UNCHANGED <<writeChannel, eventOut, readDone, open, held>>
  /\ WriterOnly

\* What a change does to this connection's registrations at the hub, which
\* adds without looking and removes one.
Held(s) ==
  [r \in Rooms |-> IF r \notin s.rooms THEN held[r]
                   ELSE IF s.create THEN held[r] + 1
                   ELSE IF held[r] > 0 THEN held[r] - 1 ELSE 0]

WriteChange ==
  /\ changeOut # <<>>
  /\ open
  /\ held' = Held(Head(changeOut))
  /\ changeOut' = <<>>
  /\ writer' = "selecting"
  /\ UNCHANGED <<writeChannel, subscriptionChannel, eventOut, readDone, open>>
  /\ WriterOnly

WriteChangeFails ==
  /\ changeOut # <<>>
  /\ changeOut' = <<>>
  /\ writer' = "signalling"
  /\ open' = FALSE
  /\ UNCHANGED <<writeChannel, subscriptionChannel, eventOut, readDone, held>>
  /\ WriterOnly

\* The read pump has ended: its token is for retryConnection and goes back.
TakeReadDone ==
  /\ writer = "selecting"
  /\ readDone
  /\ readDone' = FALSE
  /\ writer' = "puttingBack"
  /\ UNCHANGED <<writeChannel, subscriptionChannel, out, open, held>>
  /\ WriterOnly

\* Mutant: the token is not put back.
KeepReadDone ==
  /\ writer = "puttingBack"
  /\ writer' = "signalling"
  /\ open' = FALSE
  /\ UNCHANGED <<writeChannel, subscriptionChannel, out, readDone, held>>
  /\ WriterOnly

PutBackReadDone ==
  /\ writer = "puttingBack"
  /\ ~readDone
  /\ readDone' = TRUE
  /\ writer' = "signalling"
  /\ open' = FALSE
  /\ UNCHANGED <<writeChannel, subscriptionChannel, out, held>>
  /\ WriterOnly

\* Mutant: closed is not set, so the pump reconnects.
TakeKillAndRetry ==
  /\ writer = "selecting"
  /\ killed
  /\ writer' = "signalling"
  /\ open' = FALSE
  /\ UNCHANGED <<writeChannel, subscriptionChannel, out, readDone, held>>
  /\ WriterOnly

TakeKill ==
  /\ writer = "selecting"
  /\ killed
  /\ writer' = "closing"
  /\ open' = FALSE
  /\ UNCHANGED <<writeChannel, subscriptionChannel, out, readDone, held>>
  /\ WriterOnly

SignalWrite ==
  /\ writer \in {"signalling", "closing"}
  /\ ~writeDone
  /\ writeDone' = TRUE
  /\ retry' = IF writer = "signalling" THEN "waitRead" ELSE retry
  /\ writer' = "stopped"
  /\ UNCHANGED <<events, subs, out, reader, readDone, killed, open, held>>

-----------------------------------------------------------------------------
(***************************************************************************)
(* retryConnection.                                                        *)
(***************************************************************************)

WaitRead ==
  /\ retry = "waitRead"
  /\ readDone
  /\ readDone' = FALSE
  /\ retry' = "waitWrite"
  /\ UNCHANGED <<events, subs, reader, pump, writeDone, killed, open, held>>

WaitWrite ==
  /\ retry = "waitWrite"
  /\ writeDone
  /\ writeDone' = FALSE
  /\ retry' = "dialing"
  /\ UNCHANGED <<events, subs, reader, pump, readDone, killed, open, held>>

\* Mutant: reconnecting does not subscribe again.
ConnectOnly ==
  /\ retry = "dialing"
  /\ retry' = "idle"
  /\ open' = TRUE
  /\ held' = Nothing
  /\ reader' = "polling"
  /\ writer' = "selecting"
  /\ UNCHANGED <<events, subs, out, tokens, killed>>

\* openConnection succeeds, after any number of failures; the pumps start.
\* The hub knows the new connection by a new ID.
Connect ==
  /\ retry = "dialing"
  /\ Len(resubs) < MaxResubs
  /\ retry' = "idle"
  /\ open' = TRUE
  /\ held' = Nothing
  /\ reader' = "polling"
  /\ writer' = "selecting"
  /\ resubs' = Append(resubs, [at |-> "listing", rooms |-> {}])
  /\ UNCHANGED <<events, subscriptionChannel, subscriptionList, appCall,
                 out, tokens, killed>>

ResubOnly == UNCHANGED <<events, appCall, reader, pump, tokens, retry,
                         killed, open, held>>

\* getSubList; a call without rooms returns at once.
ListRooms(k) ==
  /\ resubs[k].at = "listing"
  /\ resubs' = IF subscriptionList = {} THEN SwapRemove(resubs, k)
               ELSE [resubs EXCEPT ![k] = [at |-> "adding",
                                           rooms |-> subscriptionList]]
  /\ UNCHANGED <<subscriptionChannel, subscriptionList>>
  /\ ResubOnly

AddRooms(k) ==
  /\ resubs[k].at = "adding"
  /\ subscriptionList' = subscriptionList \cup resubs[k].rooms
  /\ resubs' = [resubs EXCEPT ![k].at = "sending"]
  /\ UNCHANGED subscriptionChannel
  /\ ResubOnly

SendRooms(k) ==
  /\ resubs[k].at = "sending"
  /\ Len(subscriptionChannel) < SubscriptionCap
  /\ subscriptionChannel' =
       Append(subscriptionChannel, [rooms |-> resubs[k].rooms, create |-> TRUE])
  /\ resubs' = SwapRemove(resubs, k)
  /\ UNCHANGED subscriptionList
  /\ ResubOnly

-----------------------------------------------------------------------------
ReadPump == PollKill \/ Deliver \/ SignalRead

WritePump ==
  \/ TakeEvent \/ WriteEvent \/ TakeChange \/ WriteChange
  \/ TakeReadDone \/ PutBackReadDone \/ TakeKill \/ SignalWrite

Break == ReadFails \/ WriteEventFails \/ WriteChangeFails

retryConnection ==
  \/ WaitRead \/ WaitWrite \/ Connect
  \/ \E k \in 1 .. Len(resubs) : ListRooms(k) \/ AddRooms(k) \/ SendRooms(k)

Pumps == ReadPump \/ WritePump \/ Break \/ SkipMessage \/ retryConnection

Next ==
  \/ Pumps
  \/ \E e \in Payload : Send(e) \/ ReadEvent(e)
  \/ Receive \/ SendChange \/ Kill
  \/ \E rooms \in SUBSET Rooms :
       SubscribeToRooms(rooms) \/ UnsubscribeFromRooms(rooms)

Spec == Init /\ [][Next]_vars

(***************************************************************************)
(* Fairness.  Go runs every goroutine that can run.  A select with several *)
(* ready cases picks one at random, hence SF for the two ways out of the   *)
(* write pump, if it comes back to its select for ever.  That it does is   *)
(* not assumed: a write need not end while the socket is open.  A write to *)
(* a closed socket fails, and so does a read when the frames that had come *)
(* before are used up, of which there are finitely many: SF again.         *)
(* AppReceives is the program's part: it keeps receiving.  HubReturns is   *)
(* the hub's: it does not stay unreachable.                                *)
(***************************************************************************)
PumpFairness ==
  /\ WF_vars(ReadPump)
  /\ SF_vars(~open /\ ReadFails)
  /\ WF_vars(~open /\ (WriteEventFails \/ WriteChangeFails))
  /\ SF_vars(TakeReadDone)
  /\ SF_vars(TakeKill)
  /\ WF_vars(PutBackReadDone \/ SignalWrite)
  /\ WF_vars(WaitRead \/ WaitWrite)
  /\ WF_vars(\E k \in 1 .. Len(resubs) :
               ListRooms(k) \/ AddRooms(k) \/ SendRooms(k))

AppReceives == WF_vars(Receive)

HubReturns == SF_vars(Connect)

FairSpec == Spec /\ PumpFairness /\ AppReceives

-----------------------------------------------------------------------------
(***************************************************************************)
(* Properties.                                                             *)
(***************************************************************************)

TypeOK ==
  /\ writeChannel \in Seq(Payload) /\ Len(writeChannel) <= BufferSize
  /\ readChannel \in Seq(Payload) /\ Len(readChannel) <= BufferSize
  /\ subscriptionChannel \in Seq(SubscriptionChange)
  /\ Len(subscriptionChannel) <= SubscriptionCap
  /\ subscriptionList \in SUBSET Rooms
  /\ appCall \in Seq(SubscriptionChange) /\ Len(appCall) <= 1
  /\ resubs \in Seq(Resub)
  /\ reader \in ReaderState
  /\ inHand \in Seq(Payload)
  /\ inHand # <<>> <=> reader = "delivering"
  /\ writer \in WriterState
  /\ eventOut \in Seq(Payload) /\ changeOut \in Seq(SubscriptionChange)
  /\ Len(eventOut) + Len(changeOut) = IF writer = "writing" THEN 1 ELSE 0
  /\ readDone \in BOOLEAN /\ writeDone \in BOOLEAN
  /\ retry \in RetryState
  /\ killed \in BOOLEAN /\ open \in BOOLEAN
  /\ held \in [Rooms -> Nat]
\* The two tokens say exactly which pumps have ended, but for the moments
\* where one is in the hands of the write pump or of retryConnection.  So no
\* pump ever waits to leave its token, no token is lost, and retryConnection
\* dials when both pumps have ended and the old socket is closed.
TokensMatchPumps ==
  /\ readDone <=> /\ reader = "stopped"
                  /\ writer # "puttingBack"
                  /\ retry \notin {"waitWrite", "dialing"}
  /\ writeDone <=> writer = "stopped" /\ retry # "dialing"
  /\ retry # "idle" => writer = "stopped"
  /\ retry \in {"waitWrite", "dialing"} => reader = "stopped"
  /\ writer = "puttingBack" => reader = "stopped"
  /\ open => /\ retry = "idle"
             /\ reader # "signalling"
             /\ writer \in {"selecting", "writing", "puttingBack"}

\* Connected, with nothing under way but events.
Settled ==
  /\ open
  /\ reader \in {"polling", "reading", "delivering"}
  /\ writer = "selecting"
  /\ subscriptionChannel = <<>>
  /\ appCall = <<>>
  /\ resubs = <<>>

Dead == reader = "stopped" /\ writer = "stopped" /\ retry = "idle"

\* A lost connection is made again: no pump waits for the other for ever.
ConnectionComesBack == ~open ~> open \/ killed

\* Nothing bounds a write, and pings of the hub keep a read from failing.
Hung ==
  /\ open
  /\ writer = "writing"
  /\ reader = "reading"

\* "Kill kills a messenger": both pumps end and nothing dials again.  Only a
\* hub that stays connected and neither reads nor writes anything but pings
\* can prevent it: then one pump waits in WriteMessage, the other in
\* ReadMessage, and neither looks at killChan.
KillTakesEffect == killed ~> (Dead \/ []Hung)
=============================================================================
