-------------------------------- MODULE Hub --------------------------------
(***************************************************************************)
(* One hub: the nexus and the websocket connections around it,             *)
(* hub/hubconn/connection.go and hub/server.go.                            *)
(*                                                                         *)
(* A connection object has a read pump and a write pump, each a goroutine. *)
(* It is named by its write channel: Chan is the set of connection objects *)
(* the hub ever makes.  An inbound object has an ID of its own, the remote *)
(* address and port it came from; that a peer comes from a port again      *)
(* while the hub still deregisters it is left out.  An outbound one has    *)
(* the address it dialled, so every reconnection to a peer uses the ID of  *)
(* the last one.                                                           *)
(*                                                                         *)
(* The network is the environment: a read or a write may fail at any time, *)
(* and does when this side has closed the socket.  Pings and pongs that    *)
(* succeed change nothing here; a missed one is a failure.  What a pump    *)
(* does after its loop (its deferred calls) up to the next call that can   *)
(* block is one step: nothing it touches is looked at in between.          *)
(***************************************************************************)
EXTENDS Nexus

CONSTANTS
  Outbound,   \* IDs this hub dials: OpenConnectionWithRetry
  PostID      \* IDs of HTTP clients that post events and never connect

ASSUME HubAssumption ==
  /\ Outbound \subseteq ConnID
  /\ PostID \subseteq ConnID
  /\ \A i \in Outbound : KindOf[i] = Hub
  /\ \A i \in PostID : KindOf[i] = Messenger
  /\ \A c \in Chan : IdOf[c] \notin PostID
  /\ \A c, d \in Chan : IdOf[c] = IdOf[d] /\ IdOf[c] \notin Outbound => c = d
  /\ Outbound # {} => RoomNexus

Inbound == {c \in Chan : IdOf[c] \notin Outbound}

\* The control points of a connection's read pump.  "registering" is before
\* it starts: the connection object waits in RegisterConnection.
ReaderState == {"unused", "registering", "reading", "submitting", "changing",
                "deregistering", "stopped"}

\* The write pump; "off" until the connection object is registered.
WriterState == {"off", "selecting", "stopped"}

VARIABLES
  reader,     \* where each read pump stands
  event,      \* the event it holds while submitting, <<>> otherwise
  change,     \* the subscription change it holds, <<>> otherwise
  writer,     \* where each write pump stands
  exitChan,   \* the read pump's exit signal is waiting
  open,       \* this side has not closed the socket
  dialing     \* outbound ID -> OpenConnectionWithRetry goroutines

conns   == <<reader, event, change, writer, exitChan, open, dialing>>
hubVars == <<vars, conns>>

Subscription == [rooms : RoomLists, create : BOOLEAN]

HubInit ==
  /\ Init
  /\ reader = [c \in Chan |-> "unused"]
  /\ event = [c \in Chan |-> <<>>]
  /\ change = [c \in Chan |-> <<>>]
  /\ writer = [c \in Chan |-> "off"]
  /\ exitChan = [c \in Chan |-> FALSE]
  /\ open = [c \in Chan |-> FALSE]
  /\ dialing = [i \in Outbound |-> 1]

-----------------------------------------------------------------------------
(***************************************************************************)
(* Making a connection.                                                    *)
(***************************************************************************)

\* CreateConnection: a peer's request is upgraded to a websocket.
Accept(c) ==
  /\ c \in Inbound
  /\ reader[c] = "unused"
  /\ reader' = [reader EXCEPT ![c] = "registering"]
  /\ open' = [open EXCEPT ![c] = TRUE]
  /\ UNCHANGED <<vars, event, change, writer, exitChan, dialing>>

\* OpenConnection succeeds; the retry loop ends.  A dial that fails leaves
\* the loop where it was, one backoff later.
Dial(c) ==
  /\ c \in Chan \ Inbound
  /\ reader[c] = "unused"
  /\ dialing[IdOf[c]] > 0
  /\ dialing' = [dialing EXCEPT ![IdOf[c]] = @ - 1]
  /\ reader' = [reader EXCEPT ![c] = "registering"]
  /\ open' = [open EXCEPT ![c] = TRUE]
  /\ UNCHANGED <<vars, event, change, writer, exitChan>>

\* Mutant: the pumps start first, the registration comes with the first read.
StartUnregistered(c) ==
  /\ reader[c] = "registering"
  /\ reader' = [reader EXCEPT ![c] = "reading"]
  /\ writer' = [writer EXCEPT ![c] = "selecting"]
  /\ UNCHANGED <<vars, event, change, exitChan, open, dialing>>

\* The common end of both: register, then start the pumps.
Start(c) ==
  /\ reader[c] = "registering"
  /\ RegisterConnection(c)
  /\ reader' = [reader EXCEPT ![c] = "reading"]
  /\ writer' = [writer EXCEPT ![c] = "selecting"]
  /\ UNCHANGED <<event, change, exitChan, open, dialing>>

-----------------------------------------------------------------------------
(***************************************************************************)
(* The read pump.                                                          *)
(***************************************************************************)

\* A frame that holds an event.  Frames the hub cannot parse are dropped.
ReadEvent(c, e) ==
  /\ reader[c] = "reading"
  /\ reader' = [reader EXCEPT ![c] = "submitting"]
  /\ event' = [event EXCEPT ![c] = <<e>>]
  /\ UNCHANGED <<vars, change, writer, exitChan, open, dialing>>

ingestMessage(c) ==
  /\ reader[c] = "submitting"
  /\ Submit(Head(event[c]), IdOf[c])
  /\ reader' = [reader EXCEPT ![c] = "reading"]
  /\ event' = [event EXCEPT ![c] = <<>>]
  /\ UNCHANGED <<change, writer, exitChan, open, dialing>>

\* A text message of a messenger: a subscription change.
ReadChange(c, s) ==
  /\ reader[c] = "reading"
  /\ KindOf[IdOf[c]] = Messenger
  /\ reader' = [reader EXCEPT ![c] = "changing"]
  /\ change' = [change EXCEPT ![c] = <<s>>]
  /\ UNCHANGED <<vars, event, writer, exitChan, open, dialing>>

SubmitChange(c) ==
  /\ reader[c] = "changing"
  /\ LET s == Head(change[c]) IN ChangeSubscription(c, s.rooms, s.create)
  /\ reader' = [reader EXCEPT ![c] = "reading"]
  /\ change' = [change EXCEPT ![c] = <<>>]
  /\ UNCHANGED <<event, writer, exitChan, open, dialing>>

\* The socket was closed on either side, or nothing came for PongWait.
ReadFails(c) ==
  /\ reader[c] = "reading"
  /\ reader' = [reader EXCEPT ![c] = "deregistering"]
  /\ UNCHANGED <<vars, event, change, writer, exitChan, open, dialing>>

\* Mutant: the read pump just ends and leaves its registration behind.
StopRegistered(c) ==
  /\ reader[c] = "deregistering"
  /\ reader' = [reader EXCEPT ![c] = "stopped"]
  /\ exitChan' = [exitChan EXCEPT ![c] = TRUE]
  /\ open' = [open EXCEPT ![c] = FALSE]
  /\ UNCHANGED <<vars, event, change, writer, dialing>>

\* The deferred calls: deregister, signal the write pump, close the socket.
\* exitChan has room for two signals and gets one.
StopReading(c) ==
  /\ reader[c] = "deregistering"
  /\ DeregisterConnection(IdOf[c])
  /\ reader' = [reader EXCEPT ![c] = "stopped"]
  /\ exitChan' = [exitChan EXCEPT ![c] = TRUE]
  /\ open' = [open EXCEPT ![c] = FALSE]
  /\ UNCHANGED <<event, change, writer, dialing>>

-----------------------------------------------------------------------------
(***************************************************************************)
(* The write pump.                                                         *)
(***************************************************************************)

\* Mutant: the exit signal starts a second retry loop.
TakeExitAndRedial(c) ==
  /\ writer[c] = "selecting"
  /\ exitChan[c]
  /\ exitChan' = [exitChan EXCEPT ![c] = FALSE]
  /\ writer' = [writer EXCEPT ![c] = "stopped"]
  /\ open' = [open EXCEPT ![c] = FALSE]
  /\ dialing' = [i \in Outbound |->
                   IF i = IdOf[c] THEN dialing[i] + 2 ELSE dialing[i]]
  /\ UNCHANGED <<vars, reader, event, change>>

\* The deferred calls: close the socket and, on an outbound connection,
\* start dialling again.
StopWriting(c) ==
  /\ writer' = [writer EXCEPT ![c] = "stopped"]
  /\ open' = [open EXCEPT ![c] = FALSE]
  /\ dialing' = [i \in Outbound |->
                   IF i = IdOf[c] THEN dialing[i] + 1 ELSE dialing[i]]
  /\ UNCHANGED <<reader, event, change>>

\* Mutant: a failed write puts the message back for the next connection.
WriteFailsPutsBack(c) ==
  /\ writer[c] = "selecting"
  /\ writeChannel[c] # <<>>
  /\ writeChannel' = [writeChannel EXCEPT ![c] = Tail(@) \o <<Head(@)>>]
  /\ UNCHANGED <<registries, curRepeater, registrationChannel,
                 incomingChannel, dispatch, jobs>>
  /\ StopWriting(c)
  /\ UNCHANGED exitChan

WriteMessage(c) ==
  /\ writer[c] = "selecting"
  /\ open[c]
  /\ Receive(c)
  /\ UNCHANGED conns

\* The message taken from the channel is lost with the connection.
WriteFails(c) ==
  /\ writer[c] = "selecting"
  /\ Receive(c)
  /\ StopWriting(c)
  /\ UNCHANGED exitChan

PingFails(c) ==
  /\ writer[c] = "selecting"
  /\ StopWriting(c)
  /\ UNCHANGED <<vars, exitChan>>

TakeExit(c) ==
  /\ writer[c] = "selecting"
  /\ exitChan[c]
  /\ exitChan' = [exitChan EXCEPT ![c] = FALSE]
  /\ StopWriting(c)
  /\ UNCHANGED vars

-----------------------------------------------------------------------------
(***************************************************************************)
(* The hub.                                                                *)
(***************************************************************************)

\* POST /event.
Event(e, i) ==
  /\ i \in PostID
  /\ Submit(e, i)
  /\ UNCHANGED conns

\* What the outside decides.
Connect(c) == Accept(c) \/ Dial(c)

Fail(c) == ReadFails(c) \/ WriteFails(c) \/ PingFails(c)

\* The calls of the read pump that wait for the nexus.
CallNexus(c) ==
  Start(c) \/ ingestMessage(c) \/ SubmitChange(c) \/ StopReading(c)

\* What a connection does by itself.
Pump(c) ==
  \/ CallNexus(c)
  \/ WriteMessage(c)
  \/ TakeExit(c)

Router == (Dispatch \/ Reregister) /\ UNCHANGED conns

HubNext ==
  \/ \E c \in Chan : Connect(c) \/ Fail(c) \/ Pump(c)
  \/ \E c \in Chan, e \in EventWrapper : ReadEvent(c, e)
  \/ \E c \in Chan, s \in Subscription : ReadChange(c, s)
  \/ \E e \in EventWrapper, i \in PostID : Event(e, i)
  \/ Router

-----------------------------------------------------------------------------
(***************************************************************************)
(* Fairness.  Go runs every goroutine that can run.  The goroutines that   *)
(* wait for a full channel are served first come first served, and a       *)
(* select with several ready cases picks one at random: both give strong   *)
(* fairness.  A write ends, well or badly, within WriteWait; a ping of a   *)
(* closed socket fails, and so does a read once the frames that had come   *)
(* before are used up.  Nothing is assumed of the outside.                 *)
(***************************************************************************)

PumpFairness(c) ==
  /\ SF_hubVars(CallNexus(c))
  /\ WF_hubVars(~open[c] /\ ReadFails(c))
  /\ WF_hubVars(WriteMessage(c) \/ WriteFails(c))
  /\ WF_hubVars(~open[c] /\ PingFails(c))

RouterFairness ==
  /\ SF_hubVars(RouteEvent /\ UNCHANGED conns)
  /\ SF_hubVars((ChangePeer \/ StartJob) /\ UNCHANGED conns)
  /\ WF_hubVars((SkipAttempt \/ AdmitAttempt \/ SendAttempt) /\ UNCHANGED conns)
  /\ WF_hubVars((registerMessenger \/ deregisterMessenger) /\ UNCHANGED conns)

HubFairness == RouterFairness /\ \A c \in Chan : PumpFairness(c)

HubSpec == HubInit /\ [][HubNext]_hubVars

FairHubSpec == HubSpec /\ HubFairness

-----------------------------------------------------------------------------
(***************************************************************************)
(* Properties.                                                             *)
(***************************************************************************)

\* The types of the connections' state; a pump holds a message exactly while
\* it is submitting it.
ConnTypeOK ==
  /\ reader \in [Chan -> ReaderState]
  /\ writer \in [Chan -> WriterState]
  /\ exitChan \in [Chan -> BOOLEAN]
  /\ open \in [Chan -> BOOLEAN]
  /\ dialing \in [Outbound -> Nat]
  /\ event \in [Chan -> Seq(EventWrapper)]
  /\ change \in [Chan -> Seq(Subscription)]
  /\ \A c \in Chan :
       /\ event[c] # <<>> <=> reader[c] = "submitting"
       /\ change[c] # <<>> <=> reader[c] = "changing"

HubTypeOK == TypeOK /\ ConnTypeOK

\* No registration change of ID i is waiting or being applied.
Quiet(i) ==
  /\ \A k \in 1 .. Len(registrationChannel) : registrationChannel[k].id # i
  /\ jobs # <<>> => Head(jobs).id # i

Entry(c) == [id |-> IdOf[c], chan |-> c]

Peers(i) == IF KindOf[i] = Hub THEN hubRegistry ELSE repeaterRegistry

\* A hub or a repeater that is connected is registered exactly once, under
\* its own channel, from the moment its registration is applied until its own
\* read pump takes it back.
InboundStaysRegistered ==
  \A c \in Inbound :
    /\ KindOf[IdOf[c]] # Messenger
    /\ reader[c] \in {"reading", "submitting", "deregistering"}
    /\ Quiet(IdOf[c])
    => Copies(Peers(IdOf[c]), Entry(c)) = 1

\* Channel c is nobody's target.
Unregistered(c) ==
  /\ Hits(hubRegistry, Entry(c)) = {}
  /\ Hits(repeaterRegistry, Entry(c)) = {}
  /\ \A t \in Topics : Hits(messengerRegistry[t], Entry(c)) = {}

\* Once the deregistration of a stopped read pump is applied, nothing routes
\* to its channel any more: the subscriptions it sent before are ahead of it
\* in the channel, and a whole deregistration leaves none behind.
NoDeadRegistration ==
  \A c \in Chan : reader[c] = "stopped" /\ Quiet(IdOf[c]) => Unregistered(c)

\* Retries never pile up: for each dialled peer there is one retry loop, or
\* one connection whose write pump will start the next.
OneLinkPerPeer ==
  \A i \in Outbound :
    dialing[i] + Cardinality({c \in Chan : /\ IdOf[c] = i
                                           /\ \/ reader[c] = "registering"
                                              \/ writer[c] = "selecting"}) = 1

\* OpenConnectionWithRetry "establishes a websocket with it, and then
\* registers it with the nexus": the live connection to a dialled peer is a
\* target of the router once its registration is applied.
LiveLinkIsRegistered ==
  \A c \in Chan \ Inbound :
    /\ reader[c] = "reading" /\ writer[c] = "selecting" /\ open[c]
    /\ Quiet(IdOf[c])
    => Hits(hubRegistry, Entry(c)) # {}

\* On a hub in a room, a connection whose socket this side closed ends: both
\* pumps stop and the router forgets its channel, although events wait for the
\* router and channels are full.  A hub that is in no room promises less: its
\* router may wait for ever at line 145 of nexus.go.
ClosedConnectionIsReaped ==
  RoomNexus =>
    \A c \in Chan :
      (reader[c] # "unused" /\ ~open[c])
        ~> (reader[c] = "stopped" /\ writer[c] = "stopped" /\ Unregistered(c))

\* DeregisterConnection "will deregister the provided connection": the
\* registration of a read pump that ends goes away.
DeregistrationCompletes ==
  \A c \in Chan : (reader[c] = "deregistering") ~> Unregistered(c)
=============================================================================
