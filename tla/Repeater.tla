------------------------------ MODULE Repeater ------------------------------
(***************************************************************************)
(* The repeater: repeater/repeater.go, pumphouse.go, httpbuffer/http.go.   *)
(*                                                                         *)
(* One goroutine (runRepeater) takes the events of the hub and hands each  *)
(* to the devices and services its room is sent to, over a pumping station *)
(* for each websocket or through the HTTP buffer.  It dials a device that  *)
(* is not in the table of connections; devices dial the repeater too.      *)
(*                                                                         *)
(* A station is four goroutines: the pumper, in whose hands it is (it      *)
(* starts as start or as handleConnection), the two pumps and, if the      *)
(* repeater dialled, the pings.  They share three channels of events, one  *)
(* of errors and three signals of the pumper to the others.  No property   *)
(* tells events apart: a channel of events is the number it holds.         *)
(*                                                                         *)
(* The network is the environment: a dial, a read, a write or a ping may   *)
(* fail at any time, and five seconds may pass without traffic.            *)
(***************************************************************************)
EXTENDS Naturals, Sequences

CONSTANTS
  Rooms, Star,      \* the rooms of events, the key for every room
  Targets,          \* device IDs and addresses events are sent to
  Web,              \* the targets that begin with "http"
  SendMap,          \* what BuildSendList returns: room or Star -> targets
  Visitors,         \* the IDs under which devices dial the repeater
  BufferCap,        \* cap of a station's channels of events, 1024 in the code
  HubCap,           \* cap(HubSendBuffer), 1000 in the code
  HTTPCap,          \* cap(incomingBuffer), 1000 in the code
  MaxStations       \* bound on the stations ever built; the code has none

ASSUME RepeaterAssumption ==
  /\ SendMap \in [Rooms \cup {Star} -> Seq(Targets)]
  /\ BufferCap \in Nat \ {0}
  /\ HubCap \in Nat \ {0}
  /\ HTTPCap \in Nat \ {0}
  /\ MaxStations \in Nat \ {0}

\* An ID and the number of times RegisterConnection has changed it.
Name == (Targets \cup Visitors) \X (0 .. MaxStations)

PumperState == {"starting", "looking", "adding", "selecting", "writing",
                "forwarding", "confirming", "ended"}

Station ==
  [name : Name, dialled : BOOLEAN, pumper : PumperState,
   reader : {"off", "reading", "delivering", "ended"},
   writer : {"off", "selecting", "writing", "ended"},
   ping : BOOLEAN,          \* the pings are running
   send : 0 .. BufferCap,   \* SendChannel, from runRepeater to the pumper
   write : 0 .. BufferCap,  \* writeChannel, from the pumper to the write pump
   read : 0 .. BufferCap,   \* readChannel, from the read pump to the pumper
   errors : Nat,            \* errorChan
   signals : SUBSET {"writeExit", "pingExit", "timeout"}]

\* A station is named by its place in `stations`; 0 is none.
VARIABLES
  stations,
  connections,      \* name -> station
  distributor,      \* where runRepeater stands
  hubSendBuffer,
  translating,      \* runRepeaterTranslator has an event for the messenger
  httpBuffer

vars == <<stations, connections, distributor, hubSendBuffer, translating,
          httpBuffer>>
toHub == <<hubSendBuffer, translating>>

\* runRepeater with the targets it has still to serve.
NextTarget(todo) ==
  [step |-> IF todo = <<>> THEN "receiving" ELSE "looking",
   todo |-> todo, station |-> 0]

Init ==
  /\ stations = <<>>
  /\ connections = [n \in Name |-> 0]
  /\ distributor = NextTarget(<<>>)
  /\ hubSendBuffer = 0
  /\ translating = FALSE
  /\ httpBuffer = 0

\* cap(errorChan).
ErrorCap(st) == IF st.dialled THEN 6 ELSE 2

-----------------------------------------------------------------------------
(***************************************************************************)
(* runRepeater.                                                            *)
(***************************************************************************)

\* The target served next; it is dialled under its own name.
Target == Head(distributor.todo)
Serve == distributor' = NextTarget(Tail(distributor.todo))

TakeEvent(room) ==
  /\ distributor.step = "receiving"
  /\ distributor' = NextTarget(SendMap[room] \o SendMap[Star])
  /\ UNCHANGED <<stations, connections, toHub, httpBuffer>>

BufferHTTP ==
  /\ distributor.step = "looking"
  /\ Target \in Web
  /\ httpBuffer < HTTPCap
  /\ httpBuffer' = httpBuffer + 1
  /\ Serve
  /\ UNCHANGED <<stations, connections, toHub>>

FindConnection ==
  /\ distributor.step = "looking"
  /\ Target \notin Web
  /\ connections[<<Target, 0>>] # 0
  /\ distributor' = [distributor EXCEPT
       !.step = "sending", !.station = connections[<<Target, 0>>]]
  /\ UNCHANGED <<stations, connections, toHub, httpBuffer>>

\* The send blocks while the channel is full, whoever is at the other end.
SendEvent ==
  /\ distributor.step = "sending"
  /\ stations[distributor.station].send < BufferCap
  /\ stations' = [stations EXCEPT ![distributor.station].send = @ + 1]
  /\ Serve
  /\ UNCHANGED <<connections, toHub, httpBuffer>>

\* The new station starts on its own, with the event in its channel, before
\* runRepeater has the lock to put it into the table.
StartConnection ==
  /\ distributor.step = "looking"
  /\ Target \notin Web
  /\ connections[<<Target, 0>>] = 0
  /\ Len(stations) < MaxStations
  /\ stations' = Append(stations,
       [name |-> <<Target, 0>>, dialled |-> TRUE, pumper |-> "starting",
        reader |-> "off", writer |-> "off", ping |-> FALSE,
        send |-> 1, write |-> 0, read |-> 0, errors |-> 0, signals |-> {}])
  /\ distributor' = [distributor EXCEPT
       !.step = "registering", !.station = Len(stations')]
  /\ UNCHANGED <<connections, toHub, httpBuffer>>

\* Whatever the table holds by now.
Register ==
  /\ distributor.step = "registering"
  /\ connections' =
       [connections EXCEPT ![<<Target, 0>>] = distributor.station]
  /\ Serve
  /\ UNCHANGED <<stations, toHub, httpBuffer>>

-----------------------------------------------------------------------------
(***************************************************************************)
(* The way to the hub, and the HTTP buffer.                                *)
(***************************************************************************)

fireEvent ==
  /\ hubSendBuffer < HubCap
  /\ hubSendBuffer' = hubSendBuffer + 1
  /\ UNCHANGED <<stations, connections, distributor, translating, httpBuffer>>

Translate ==
  /\ ~translating
  /\ hubSendBuffer > 0
  /\ hubSendBuffer' = hubSendBuffer - 1
  /\ translating' = TRUE
  /\ UNCHANGED <<stations, connections, distributor, httpBuffer>>

\* messenger.Send returns.
SendToHub ==
  /\ translating
  /\ translating' = FALSE
  /\ UNCHANGED <<stations, connections, distributor, hubSendBuffer, httpBuffer>>

\* A request ends, answered or not, within two seconds.
Post ==
  /\ httpBuffer > 0
  /\ httpBuffer' = httpBuffer - 1
  /\ UNCHANGED <<stations, connections, distributor, toHub>>

-----------------------------------------------------------------------------
(***************************************************************************)
(* The beginning and the end of a station.                                 *)
(***************************************************************************)

StationOnly == UNCHANGED <<connections, distributor, toHub, httpBuffer>>

\* delete(connections, c.ID), whichever station is there.
Unregister(s) == connections' = [connections EXCEPT ![stations[s].name] = 0]

\* The database or the dial fails.
StartFails(s) ==
  /\ stations[s].pumper = "starting"
  /\ stations' = [stations EXCEPT ![s].pumper = "ended"]
  /\ Unregister(s)
  /\ UNCHANGED <<distributor, toHub, httpBuffer>>

\* Mutant: the write pump is not started.
OpenConnWithoutWriter(s) ==
  /\ stations[s].pumper = "starting"
  /\ stations' = [stations EXCEPT
       ![s].pumper = "selecting", ![s].reader = "reading", ![s].ping = TRUE]
  /\ StationOnly

OpenConn(s) ==
  /\ stations[s].pumper = "starting"
  /\ stations' = [stations EXCEPT
       ![s].pumper = "selecting", ![s].reader = "reading",
       ![s].writer = "selecting", ![s].ping = TRUE]
  /\ StationOnly

\* A device has dialled: its pumps start before its ID is known to be free.
Accept(id, pings) ==
  /\ Len(stations) < MaxStations
  /\ stations' = Append(stations,
       [name |-> <<id, 0>>, dialled |-> FALSE, pumper |-> "looking",
        reader |-> "reading", writer |-> "selecting", ping |-> pings,
        send |-> 0, write |-> 0, read |-> 0, errors |-> 0, signals |-> {}])
  /\ StationOnly

\* Mutant: the pings run on these connections as well.
AcceptAndPing(id) == Accept(id, TRUE)

handleConnection(id) == Accept(id, FALSE)

\* One look at the table; a name that is taken is changed.
LookUpName(s) ==
  /\ stations[s].pumper = "looking"
  /\ \/ /\ connections[stations[s].name] = 0
        /\ stations' = [stations EXCEPT ![s].pumper = "adding"]
     \/ /\ connections[stations[s].name] # 0
        /\ stations[s].name[2] < MaxStations
        /\ stations' = [stations EXCEPT ![s].name = <<@[1], @[2] + 1>>]
  /\ StationOnly

\* The name was free when it was looked up.
AddConnection(s) ==
  /\ stations[s].pumper = "adding"
  /\ stations' = [stations EXCEPT ![s].pumper = "selecting"]
  /\ connections' = [connections EXCEPT ![stations[s].name] = s]
  /\ UNCHANGED <<distributor, toHub, httpBuffer>>

\* A signal to a goroutine that has ended stays in its channel for ever; the
\* model leaves it out.
ToWriter == {"writeExit", "timeout"}
Heard(st) == (IF st.writer = "ended" THEN {} ELSE ToWriter)
               \cup (IF st.ping THEN {"pingExit"} ELSE {})

\* The deferred function up to its wait: the station leaves the table and
\* tells the others.  Nobody looks at readExit.
Leave(s, st, signals) ==
  /\ stations' = [stations EXCEPT
       ![s] = [st EXCEPT !.pumper = "confirming",
                         !.signals = signals \cap Heard(st)]]
  /\ Unregister(s)
  /\ UNCHANGED <<distributor, toHub, httpBuffer>>

\* Mutant: the write pump is not told.
TakeErrorSilently(s) ==
  /\ stations[s].pumper = "selecting"
  /\ stations[s].errors > 0
  /\ Leave(s, [stations[s] EXCEPT !.errors = @ - 1], {"pingExit"})

TakeError(s) ==
  /\ stations[s].pumper = "selecting"
  /\ stations[s].errors > 0
  /\ Leave(s, [stations[s] EXCEPT !.errors = @ - 1], {"writeExit", "pingExit"})

\* Five seconds without an event either way; only a dialled one has a ticker.
Timeout(s) ==
  /\ stations[s].pumper = "selecting"
  /\ stations[s].dialled
  /\ Leave(s, stations[s], {"timeout", "writeExit", "pingExit"})

\* Mutant: the station is taken out of the table once more.
CloseAndUnregister(s) ==
  /\ stations[s].pumper = "confirming"
  /\ stations[s].writer = "ended"
  /\ stations' = [stations EXCEPT ![s].pumper = "ended"]
  /\ Unregister(s)
  /\ UNCHANGED <<distributor, toHub, httpBuffer>>

\* writeConfirm is there when the write pump has ended.
Close(s) ==
  /\ stations[s].pumper = "confirming"
  /\ stations[s].writer = "ended"
  /\ stations' = [stations EXCEPT ![s].pumper = "ended"]
  /\ StationOnly

-----------------------------------------------------------------------------
(***************************************************************************)
(* The pumper at work.                                                     *)
(***************************************************************************)

TakeSend(s) ==
  /\ stations[s].pumper = "selecting"
  /\ stations[s].send > 0
  /\ stations' = [stations EXCEPT ![s].pumper = "writing", ![s].send = @ - 1]
  /\ StationOnly

\* The send blocks while the channel is full, and looks at nothing else.
PutWrite(s) ==
  /\ stations[s].pumper = "writing"
  /\ stations[s].write < BufferCap
  /\ stations' =
       [stations EXCEPT ![s].pumper = "selecting", ![s].write = @ + 1]
  /\ StationOnly

TakeRead(s) ==
  /\ stations[s].pumper = "selecting"
  /\ stations[s].read > 0
  /\ stations' = [stations EXCEPT ![s].pumper = "forwarding", ![s].read = @ - 1]
  /\ StationOnly

PutHub(s) ==
  /\ stations[s].pumper = "forwarding"
  /\ hubSendBuffer < HubCap
  /\ stations' = [stations EXCEPT ![s].pumper = "selecting"]
  /\ hubSendBuffer' = hubSendBuffer + 1
  /\ UNCHANGED <<connections, distributor, translating, httpBuffer>>

-----------------------------------------------------------------------------
(***************************************************************************)
(* The pumps and the pings.                                                *)
(***************************************************************************)

\* A message that does not parse goes on as an empty event.
ReadMessage(s) ==
  /\ stations[s].reader = "reading"
  /\ stations' = [stations EXCEPT ![s].reader = "delivering"]
  /\ StationOnly

\* Mutant: the capacity is passed by one.
DeliverBeyondCapacity(s) ==
  /\ stations[s].reader = "delivering"
  /\ stations[s].read <= BufferCap
  /\ stations' = [stations EXCEPT ![s].reader = "reading", ![s].read = @ + 1]
  /\ StationOnly

Deliver(s) ==
  /\ stations[s].reader = "delivering"
  /\ stations[s].read < BufferCap
  /\ stations' = [stations EXCEPT ![s].reader = "reading", ![s].read = @ + 1]
  /\ StationOnly

ReadFails(s) ==
  /\ stations[s].reader = "reading"
  /\ stations[s].errors < ErrorCap(stations[s])
  /\ stations' = [stations EXCEPT ![s].reader = "ended", ![s].errors = @ + 1]
  /\ StationOnly

TakeWrite(s) ==
  /\ stations[s].writer = "selecting"
  /\ stations[s].write > 0
  /\ stations' = [stations EXCEPT ![s].writer = "writing", ![s].write = @ - 1]
  /\ StationOnly

Written(s) ==
  /\ stations[s].writer = "writing"
  /\ stations' = [stations EXCEPT ![s].writer = "selecting"]
  /\ StationOnly

WriteFails(s) ==
  /\ stations[s].writer = "writing"
  /\ stations[s].errors < ErrorCap(stations[s])
  /\ stations' = [stations EXCEPT
       ![s].writer = "ended", ![s].signals = @ \ ToWriter, ![s].errors = @ + 1]
  /\ StationOnly

\* writeExit, or a timeout and the close message got through.
TakeExit(s) ==
  /\ stations[s].writer = "selecting"
  /\ stations[s].signals \cap ToWriter # {}
  /\ stations' = [stations EXCEPT
       ![s].writer = "ended", ![s].signals = @ \ ToWriter]
  /\ StationOnly

\* The close message cannot be written.
TimeoutWriteFails(s) ==
  /\ stations[s].writer = "selecting"
  /\ "timeout" \in stations[s].signals
  /\ stations[s].errors < ErrorCap(stations[s])
  /\ stations' = [stations EXCEPT
       ![s].writer = "ended", ![s].signals = @ \ ToWriter, ![s].errors = @ + 1]
  /\ StationOnly

PingFails(s) ==
  /\ stations[s].ping
  /\ stations[s].errors < ErrorCap(stations[s])
  /\ stations' = [stations EXCEPT
       ![s].ping = FALSE, ![s].signals = @ \ {"pingExit"}, ![s].errors = @ + 1]
  /\ StationOnly

TakePingExit(s) ==
  /\ stations[s].ping
  /\ "pingExit" \in stations[s].signals
  /\ stations' = [stations EXCEPT
       ![s].ping = FALSE, ![s].signals = @ \ {"pingExit"}]
  /\ StationOnly

-----------------------------------------------------------------------------
(***************************************************************************)
(* The specification.                                                      *)
(***************************************************************************)

Distribute == BufferHTTP \/ FindConnection \/ SendEvent \/ StartConnection
              \/ Register

Pumper(s) == LookUpName(s) \/ AddConnection(s) \/ OpenConn(s) \/ TakeSend(s)
             \/ PutWrite(s) \/ TakeRead(s) \/ PutHub(s) \/ TakeError(s)
             \/ Close(s)

WritePump(s) == TakeWrite(s) \/ Written(s) \/ TakeExit(s)

\* What the network does to a station.
Break(s) == StartFails(s) \/ ReadFails(s) \/ WriteFails(s) \/ PingFails(s)
            \/ TimeoutWriteFails(s)

Run(s) == Pumper(s) \/ WritePump(s) \/ Deliver(s) \/ TakePingExit(s)

Next ==
  \/ \E room \in Rooms : TakeEvent(room)
  \/ Distribute \/ Translate \/ SendToHub \/ Post \/ fireEvent
  \/ \E id \in Visitors : handleConnection(id)
  \/ \E s \in DOMAIN stations :
       Run(s) \/ ReadMessage(s) \/ Timeout(s) \/ Break(s)

Spec == Init /\ [][Next]_vars

(***************************************************************************)
(* Fairness.  Go runs every goroutine that can run.  A dial, a write and a *)
(* request end within their time limits, a read of a closed socket fails   *)
(* when what had come before is used up, and the messenger takes events    *)
(* (module RepeaterFlow is about when it does not).  Nothing is assumed    *)
(* about devices: they may be silent for ever.  With finitely many inputs  *)
(* it is enough that one of the stations that can goes on.                 *)
(***************************************************************************)
ReadsClosed(s) == stations[s].pumper = "ended" /\ ReadFails(s)

WorkFairness ==
  /\ WF_vars(Distribute)
  /\ WF_vars(Translate)
  /\ WF_vars(Post)
  /\ WF_vars(\E s \in DOMAIN stations : Run(s) \/ ReadsClosed(s))

MessengerSends == WF_vars(SendToHub)

FairSpec == Spec /\ WorkFairness /\ MessengerSends

-----------------------------------------------------------------------------
(***************************************************************************)
(* Properties.                                                             *)
(***************************************************************************)

Distributor ==
  [step : {"receiving", "looking", "sending", "registering"},
   todo : Seq(Targets), station : 0 .. MaxStations]

\* The types of the repeater's state; no channel holds more than its capacity
\* and runRepeater has a station when it sends to or registers one.
RepeaterTypeOK ==
  /\ stations \in Seq(Station) /\ Len(stations) <= MaxStations
  /\ connections \in [Name -> 0 .. Len(stations)]
  /\ distributor \in Distributor
  /\ distributor.todo = <<>> <=> distributor.step = "receiving"
  /\ distributor.station <= Len(stations)
  /\ distributor.station # 0 <=> distributor.step \in {"sending", "registering"}
  /\ hubSendBuffer \in 0 .. HubCap
  /\ translating \in BOOLEAN
  /\ httpBuffer \in 0 .. HTTPCap

\* The goroutines of a station that may still report an error, each once.
Reporters(st) ==
  (IF st.reader = "ended" THEN 0 ELSE 1)
    + (IF st.writer = "ended" THEN 0 ELSE 1)
    + (IF st.ping THEN 1 ELSE 0)

\* Nobody ever waits to report an error: errorChan has a place for each of the
\* goroutines that may, also when the pumper has gone and reads none of them.
ErrorsNeverBlock ==
  \A s \in DOMAIN stations :
    stations[s].errors + Reporters(stations[s]) <= ErrorCap(stations[s])

\* The pumper on its way out waits only for whom it has told: until the write
\* pump and the pings have ended, by that signal or by a failure of their own,
\* the signal is there for them.  Nobody is told while the station works.
HasTold(st) ==
  LET left == st.pumper \in {"confirming", "ended"} IN
    /\ st.pumper = "confirming" /\ st.writer # "ended"
         => "writeExit" \in st.signals
    /\ left /\ st.ping => "pingExit" \in st.signals
    /\ st.signals # {} => left

LeavingIsHeard == \A s \in DOMAIN stations : HasTold(stations[s])

Running(s) ==
  stations[s].pumper \in {"starting", "adding", "selecting", "writing",
                          "forwarding"}

\* A device is dialled once: two stations of one name run only if a device
\* has dialled the repeater under that name.
OneStationPerDevice ==
  \A s, t \in DOMAIN stations :
    /\ s # t /\ Running(s) /\ Running(t)
    /\ stations[s].name = stations[t].name
    => \E u \in DOMAIN stations :
         ~stations[u].dialled /\ stations[u].name = stations[s].name

\* The pumper waits for room that nobody makes.
Stuck(s) ==
  /\ stations[s].pumper = "writing"
  /\ stations[s].writer = "ended"
  /\ stations[s].write = BufferCap

GoroutinesEnded(s) ==
  /\ stations[s].pumper = "ended"
  /\ stations[s].writer = "ended"
  /\ ~stations[s].ping
  /\ \/ stations[s].reader = "ended"
     \/ stations[s].reader = "delivering" /\ stations[s].read = BufferCap

\* A station that has failed and has not come apart.
Failing(s) == stations[s].errors > 0 /\ ~GoroutinesEnded(s) /\ ~Stuck(s)

\* Failed stations end: their goroutines wait for each other's signals but not
\* in a circle.  There are two exceptions, and no others: a pumper that has an
\* event for the write pump that has gone, and a read pump that has one for
\* the pumper.  (All of them at one time, as finitely many stations fail.)
FailedStationEnds ==
  (\E s \in DOMAIN stations : Failing(s))
    ~> (\A s \in DOMAIN stations : ~Failing(s))

\* runRepeater waits for room in the channel of a station that takes nothing.
HeldUp ==
  /\ distributor.step = "sending"
  /\ stations[distributor.station].send = BufferCap
  /\ \/ stations[distributor.station].pumper = "ended"
     \/ Stuck(distributor.station)

\* runRepeater comes back for the next event unless the station it sends to
\* has ended or is stuck: it waits for nothing else for ever.
OnlyTheDeadHoldUp ==
  distributor.step # "receiving" ~> distributor.step = "receiving" \/ HeldUp
=============================================================================
