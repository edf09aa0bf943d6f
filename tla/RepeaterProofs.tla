--------------------------- MODULE RepeaterProofs ---------------------------
(***************************************************************************)
(* Theorems about module Repeater, for any targets, visitors, send lists   *)
(* and capacities; and who is in the table of the bounded instances of     *)
(* MCRepeater, for every bound.                                            *)
(***************************************************************************)
EXTENDS MCRepeater, SequenceTheorems, TLAPS

\* What is true of every station at any time.  A station that is dialled has
\* pings once it has started; another never has.
StationOK(st) ==
  /\ st \in Station
  /\ st.errors + Reporters(st) <=
       IF st.dialled /\ st.pumper # "starting" THEN 3 ELSE 2
  /\ ~st.dialled => st.pumper # "starting" /\ ~st.ping
  /\ st.pumper = "starting" => st.reader = "off" /\ st.writer = "off"
  /\ st.dialled => st.pumper \notin {"looking", "adding"}

StationsOK == \A s \in DOMAIN stations : StationOK(stations[s])

\* Steps of one station.
Step(s) == Run(s) \/ ReadMessage(s) \/ Timeout(s) \/ Break(s)

-----------------------------------------------------------------------------
(***************************************************************************)
(* One station.                                                            *)
(***************************************************************************)

\* The pumper's comings and goings leave its station in order.
LEMMA PumperKeepsStationOK ==
  ASSUME NEW s \in DOMAIN stations, StationOK(stations[s]),
         \/ LookUpName(s) \/ AddConnection(s) \/ OpenConn(s) \/ TakeSend(s)
         \/ PutWrite(s) \/ TakeRead(s) \/ PutHub(s) \/ TakeError(s)
         \/ Close(s) \/ Timeout(s) \/ StartFails(s)
  PROVE  \E st : StationOK(st) /\ stations' = [stations EXCEPT ![s] = st]
<1>1. CASE LookUpName(s)
  <2>1. CASE stations' = [stations EXCEPT ![s].pumper = "adding"]
    <3>1. StationOK([stations[s] EXCEPT !.pumper = "adding"])
      BY <1>1, RepeaterAssumption
      DEF LookUpName, StationOK, Station, PumperState, Reporters
    <3> QED BY <2>1, <3>1
  <2>2. CASE /\ stations[s].name[2] < MaxStations
             /\ stations' = [stations EXCEPT ![s].name = <<@[1], @[2] + 1>>]
    <3>1. <<stations[s].name[1], stations[s].name[2] + 1>> \in Name
      BY <2>2, RepeaterAssumption
      DEF Name, StationOK, Station, PumperState, Reporters
    <3>2. StationOK([stations[s] EXCEPT
                       !.name = <<stations[s].name[1], stations[s].name[2] + 1>>])
      BY <3>1, RepeaterAssumption DEF StationOK, Station, PumperState, Reporters
    <3> QED BY <2>2, <3>2
  <2> QED BY <1>1, <2>1, <2>2 DEF LookUpName
<1>2. CASE AddConnection(s)
  <2>1. StationOK([stations[s] EXCEPT !.pumper = "selecting"])
    BY <1>2, RepeaterAssumption
    DEF AddConnection, StationOK, Station, PumperState, Reporters
  <2> QED BY <1>2, <2>1 DEF AddConnection
<1>3. CASE OpenConn(s)
  <2> DEFINE st == [stations[s] EXCEPT
            !.pumper = "selecting", !.reader = "reading",
            !.writer = "selecting", !.ping = TRUE]
  <2>1. StationOK(st)
    <3>1. st \in Station
      BY <1>3, RepeaterAssumption
      DEF OpenConn, StationOK, Station, PumperState
    <3> QED BY <1>3, <3>1 DEF OpenConn, StationOK, Station, PumperState, Reporters
  <2>2. stations' = [stations EXCEPT ![s] = st]
    BY <1>3 DEF OpenConn
  <2> QED BY <2>1, <2>2
<1>4. CASE TakeSend(s)
  <2> DEFINE st == [stations[s] EXCEPT
            !.pumper = "writing", !.send = stations[s].send - 1]
  <2>1. StationOK(st)
    <3>1. st \in Station
      BY <1>4, RepeaterAssumption
      DEF TakeSend, StationOK, Station, PumperState
    <3> QED BY <1>4, <3>1 DEF TakeSend, StationOK, Station, PumperState, Reporters
  <2>2. stations' = [stations EXCEPT ![s] = st]
    BY <1>4 DEF TakeSend
  <2> QED BY <2>1, <2>2
<1>5. CASE PutWrite(s)
  <2> DEFINE st == [stations[s] EXCEPT
            !.pumper = "selecting", !.write = stations[s].write + 1]
  <2>1. StationOK(st)
    <3>1. st \in Station
      BY <1>5, RepeaterAssumption
      DEF PutWrite, StationOK, Station, PumperState
    <3> QED BY <1>5, <3>1 DEF PutWrite, StationOK, Station, PumperState, Reporters
  <2>2. stations' = [stations EXCEPT ![s] = st]
    BY <1>5 DEF PutWrite
  <2> QED BY <2>1, <2>2
<1>6. CASE TakeRead(s)
  <2> DEFINE st == [stations[s] EXCEPT
            !.pumper = "forwarding", !.read = stations[s].read - 1]
  <2>1. StationOK(st)
    <3>1. st \in Station
      BY <1>6, RepeaterAssumption
      DEF TakeRead, StationOK, Station, PumperState
    <3> QED BY <1>6, <3>1 DEF TakeRead, StationOK, Station, PumperState, Reporters
  <2>2. stations' = [stations EXCEPT ![s] = st]
    BY <1>6 DEF TakeRead
  <2> QED BY <2>1, <2>2
<1>7. CASE PutHub(s)
  <2>1. StationOK([stations[s] EXCEPT !.pumper = "selecting"])
    BY <1>7, RepeaterAssumption
    DEF PutHub, StationOK, Station, PumperState, Reporters
  <2> QED BY <1>7, <2>1 DEF PutHub
<1>8. CASE TakeError(s)
  <2> DEFINE st == [stations[s] EXCEPT
            !.errors = stations[s].errors - 1, !.pumper = "confirming",
            !.signals = {"writeExit", "pingExit"}
              \cap Heard([stations[s] EXCEPT !.errors = @ - 1])]
  <2>1. StationOK(st)
    <3>1. /\ stations[s] \in Station
          /\ stations[s].errors - 1 \in Nat
      BY <1>8 DEF TakeError, StationOK, Station
    <3>2. st.signals \in SUBSET {"writeExit", "pingExit", "timeout"}
      OBVIOUS
    <3>3. st \in Station
      BY <3>1, <3>2 DEF Station, PumperState
    <3> QED BY <1>8, <3>3 DEF TakeError, StationOK, Station, PumperState, Reporters
  <2>2. stations' = [stations EXCEPT ![s] = st]
    BY <1>8 DEF TakeError, Leave
  <2> QED BY <2>1, <2>2
<1>9. CASE Close(s)
  <2>1. StationOK([stations[s] EXCEPT !.pumper = "ended"])
    BY <1>9, RepeaterAssumption
    DEF Close, StationOK, Station, PumperState, Reporters
  <2> QED BY <1>9, <2>1 DEF Close
<1>10. CASE Timeout(s)
  <2> DEFINE st == [stations[s] EXCEPT
            !.pumper = "confirming",
            !.signals = {"timeout", "writeExit", "pingExit"}
                          \cap Heard(stations[s])]
  <2>1. StationOK(st)
    <3>1. st \in Station
      BY <1>10, RepeaterAssumption
      DEF Timeout, StationOK, Station, PumperState
    <3> QED BY <1>10, <3>1 DEF Timeout, StationOK, Station, PumperState, Reporters
  <2>2. stations' = [stations EXCEPT ![s] = st]
    BY <1>10 DEF Timeout, Leave
  <2> QED BY <2>1, <2>2
<1>11. CASE StartFails(s)
  <2>1. StationOK([stations[s] EXCEPT !.pumper = "ended"])
    BY <1>11, RepeaterAssumption
    DEF StartFails, StationOK, Station, PumperState, Reporters
  <2> QED BY <1>11, <2>1 DEF StartFails
<1> QED BY <1>1, <1>2, <1>3, <1>4, <1>5, <1>6, <1>7, <1>8, <1>9, <1>10, <1>11

\* So do the pumps and the pings.
LEMMA PumpsKeepStationOK ==
  ASSUME NEW s \in DOMAIN stations, StationOK(stations[s]),
         \/ WritePump(s) \/ Deliver(s) \/ TakePingExit(s) \/ ReadMessage(s)
         \/ ReadFails(s) \/ WriteFails(s) \/ PingFails(s)
         \/ TimeoutWriteFails(s)
  PROVE  \E st : StationOK(st) /\ stations' = [stations EXCEPT ![s] = st]
<1>1. CASE TakeWrite(s)
  <2> DEFINE st == [stations[s] EXCEPT
            !.writer = "writing", !.write = stations[s].write - 1]
  <2>1. StationOK(st)
    <3>1. st \in Station
      BY <1>1, RepeaterAssumption
      DEF TakeWrite, StationOK, Station, PumperState
    <3> QED BY <1>1, <3>1 DEF TakeWrite, StationOK, Station, PumperState, Reporters
  <2>2. stations' = [stations EXCEPT ![s] = st]
    BY <1>1 DEF TakeWrite
  <2> QED BY <2>1, <2>2
<1>2. CASE Written(s)
  <2>1. StationOK([stations[s] EXCEPT !.writer = "selecting"])
    BY <1>2, RepeaterAssumption
    DEF Written, StationOK, Station, PumperState, Reporters
  <2> QED BY <1>2, <2>1 DEF Written
<1>3. CASE TakeExit(s)
  <2> DEFINE st == [stations[s] EXCEPT
            !.writer = "ended", !.signals = stations[s].signals \ ToWriter]
  <2>1. StationOK(st)
    <3>1. st \in Station
      BY <1>3, RepeaterAssumption
      DEF TakeExit, StationOK, Station, PumperState
    <3> QED BY <1>3, <3>1 DEF TakeExit, StationOK, Station, PumperState, Reporters
  <2>2. stations' = [stations EXCEPT ![s] = st]
    BY <1>3 DEF TakeExit
  <2> QED BY <2>1, <2>2
<1>4. CASE Deliver(s)
  <2> DEFINE st == [stations[s] EXCEPT
            !.reader = "reading", !.read = stations[s].read + 1]
  <2>1. StationOK(st)
    <3>1. st \in Station
      BY <1>4, RepeaterAssumption
      DEF Deliver, StationOK, Station, PumperState
    <3> QED BY <1>4, <3>1 DEF Deliver, StationOK, Station, PumperState, Reporters
  <2>2. stations' = [stations EXCEPT ![s] = st]
    BY <1>4 DEF Deliver
  <2> QED BY <2>1, <2>2
<1>5. CASE TakePingExit(s)
  <2> DEFINE st == [stations[s] EXCEPT
            !.ping = FALSE, !.signals = stations[s].signals \ {"pingExit"}]
  <2>1. StationOK(st)
    <3>1. st \in Station
      BY <1>5, RepeaterAssumption
      DEF TakePingExit, StationOK, Station, PumperState
    <3> QED BY <1>5, <3>1 DEF TakePingExit, StationOK, Station, PumperState, Reporters
  <2>2. stations' = [stations EXCEPT ![s] = st]
    BY <1>5 DEF TakePingExit
  <2> QED BY <2>1, <2>2
<1>6. CASE ReadMessage(s)
  <2>1. StationOK([stations[s] EXCEPT !.reader = "delivering"])
    BY <1>6, RepeaterAssumption
    DEF ReadMessage, StationOK, Station, PumperState, Reporters
  <2> QED BY <1>6, <2>1 DEF ReadMessage
<1>7. CASE ReadFails(s)
  <2> DEFINE st == [stations[s] EXCEPT
            !.reader = "ended", !.errors = stations[s].errors + 1]
  <2>1. StationOK(st)
    <3>1. st \in Station
      BY <1>7, RepeaterAssumption
      DEF ReadFails, StationOK, Station, PumperState
    <3> QED BY <1>7, <3>1 DEF ReadFails, StationOK, Station, PumperState, Reporters
  <2>2. stations' = [stations EXCEPT ![s] = st]
    BY <1>7 DEF ReadFails
  <2> QED BY <2>1, <2>2
<1>8. CASE WriteFails(s) \/ TimeoutWriteFails(s)
  <2> DEFINE st == [stations[s] EXCEPT
            !.writer = "ended", !.signals = stations[s].signals \ ToWriter,
            !.errors = stations[s].errors + 1]
  <2>1. StationOK(st)
    <3>1. st \in Station
      BY <1>8, RepeaterAssumption
      DEF WriteFails, TimeoutWriteFails, StationOK, Station, PumperState
    <3> QED BY <1>8, <3>1 DEF WriteFails, TimeoutWriteFails, StationOK, Station, PumperState, Reporters
  <2>2. stations' = [stations EXCEPT ![s] = st]
    BY <1>8 DEF WriteFails, TimeoutWriteFails
  <2> QED BY <2>1, <2>2
<1>9. CASE PingFails(s)
  <2> DEFINE st == [stations[s] EXCEPT
            !.ping = FALSE, !.signals = stations[s].signals \ {"pingExit"},
            !.errors = stations[s].errors + 1]
  <2>1. StationOK(st)
    <3>1. /\ stations[s] \in Station
          /\ stations[s].errors + 1 \in Nat
          /\ stations[s].signals \ {"pingExit"}
               \in SUBSET {"writeExit", "pingExit", "timeout"}
      BY <1>9 DEF PingFails, StationOK, Station
    <3>2. st \in Station
      BY <3>1 DEF Station
    <3> QED BY <1>9, <3>2 DEF PingFails, StationOK, Station, PumperState, Reporters
  <2>2. stations' = [stations EXCEPT ![s] = st]
    BY <1>9 DEF PingFails
  <2> QED BY <2>1, <2>2
<1> QED BY <1>1, <1>2, <1>3, <1>4, <1>5, <1>6, <1>7, <1>8, <1>9 DEF WritePump

\* In place of a station comes one in order, or a station is added.
LEMMA StationReplaced ==
  ASSUME stations \in Seq(Station), StationsOK, NEW s \in DOMAIN stations,
         NEW st, StationOK(st), stations' = [stations EXCEPT ![s] = st]
  PROVE  /\ stations' \in Seq(Station)
         /\ Len(stations') = Len(stations)
         /\ DOMAIN stations' = DOMAIN stations
         /\ StationsOK'
<1>1. st \in Station
  BY DEF StationOK
<1>2. /\ s \in 1 .. Len(stations)
      /\ stations' \in Seq(Station)
      /\ Len(stations') = Len(stations)
  BY <1>1, ExceptSeq
<1>3. DOMAIN stations' = DOMAIN stations
  OBVIOUS
<1>4. ASSUME NEW t \in DOMAIN stations' PROVE StationOK(stations'[t])
  BY <1>3 DEF StationsOK
<1> QED BY <1>2, <1>3, <1>4 DEF StationsOK, StationOK, Reporters

\* A station in order that is added leaves all of them in order.
LEMMA StationAdded ==
  ASSUME stations \in Seq(Station), StationsOK,
         NEW st, StationOK(st), stations' = Append(stations, st)
  PROVE  /\ stations' \in Seq(Station)
         /\ Len(stations') = Len(stations) + 1
         /\ StationsOK'
<1>1. st \in Station
  BY DEF StationOK
<1>2. /\ stations' \in Seq(Station)
      /\ Len(stations') = Len(stations) + 1
  BY <1>1, AppendProperties
<1>3. ASSUME NEW t \in DOMAIN stations' PROVE StationOK(stations'[t])
  <2>1. t \in 1 .. Len(stations) + 1
    BY <1>2
  <2>2. CASE t = Len(stations) + 1
    BY <2>2, AppendProperties, <1>1
  <2>3. CASE t \in 1 .. Len(stations)
    BY <2>3, AppendProperties, <1>1 DEF StationsOK
  <2> QED BY <2>1, <2>2, <2>3
<1> QED BY <1>2, <1>3 DEF StationsOK, StationOK, Reporters

-----------------------------------------------------------------------------
(***************************************************************************)
(* Types and the channel of errors.                                        *)
(***************************************************************************)

TypeInv == RepeaterTypeOK /\ StationsOK

\* Every step of a station replaces it and leaves runRepeater where it is; the
\* table changes at most at the station's name.
LEMMA StepReplaces ==
  ASSUME TypeInv, NEW s \in DOMAIN stations, Step(s)
  PROVE  /\ \E st : StationOK(st) /\ stations' = [stations EXCEPT ![s] = st]
         /\ \/ connections' = connections
            \/ Unregister(s)
            \/ AddConnection(s)
         /\ distributor' = distributor
         /\ hubSendBuffer' \in {hubSendBuffer, hubSendBuffer + 1}
         /\ hubSendBuffer' # hubSendBuffer => hubSendBuffer < HubCap
         /\ UNCHANGED <<translating, httpBuffer>>
<1>1. StationOK(stations[s])
  BY DEF TypeInv, StationsOK
<1>2. CASE \/ LookUpName(s) \/ AddConnection(s) \/ OpenConn(s) \/ TakeSend(s)
           \/ PutWrite(s) \/ TakeRead(s) \/ PutHub(s) \/ TakeError(s)
           \/ Close(s) \/ Timeout(s) \/ StartFails(s)
  <2>1. \E st : StationOK(st) /\ stations' = [stations EXCEPT ![s] = st]
    BY <1>1, <1>2, PumperKeepsStationOK
  <2>2. CASE \/ LookUpName(s) \/ OpenConn(s) \/ TakeSend(s) \/ PutWrite(s)
             \/ TakeRead(s) \/ Close(s)
    BY <2>1, <2>2
    DEF LookUpName, OpenConn, TakeSend, PutWrite, TakeRead, Close, StationOnly,
        toHub
  <2>3. CASE TakeError(s) \/ Timeout(s) \/ StartFails(s)
    BY <2>1, <2>3 DEF TakeError, Timeout, StartFails, Leave, toHub
  <2>4. CASE AddConnection(s)
    BY <2>1, <2>4 DEF AddConnection, toHub
  <2>5. CASE PutHub(s)
    BY <2>1, <2>5 DEF PutHub
  <2> QED BY <1>2, <2>2, <2>3, <2>4, <2>5
<1>3. CASE \/ WritePump(s) \/ Deliver(s) \/ TakePingExit(s) \/ ReadMessage(s)
           \/ ReadFails(s) \/ WriteFails(s) \/ PingFails(s)
           \/ TimeoutWriteFails(s)
  <2>1. \E st : StationOK(st) /\ stations' = [stations EXCEPT ![s] = st]
    BY <1>1, <1>3, PumpsKeepStationOK
  <2>2. StationOnly
    BY <1>3 DEF WritePump, TakeWrite, Written, TakeExit, Deliver, TakePingExit,
                ReadMessage, ReadFails, WriteFails, PingFails,
                TimeoutWriteFails
  <2> QED BY <2>1, <2>2 DEF StationOnly, toHub
<1> QED BY <1>2, <1>3 DEF Step, Run, Pumper, Break

\* Steps of stations keep the types.
LEMMA StepKeepsTypes ==
  ASSUME TypeInv, NEW s \in DOMAIN stations, Step(s)
  PROVE  TypeInv'
<1>1. PICK st : StationOK(st) /\ stations' = [stations EXCEPT ![s] = st]
  BY StepReplaces
<1>2. /\ stations' \in Seq(Station)
      /\ Len(stations') = Len(stations)
      /\ StationsOK'
  BY <1>1, StationReplaced DEF TypeInv, RepeaterTypeOK
<1>3. connections' \in [Name -> 0 .. Len(stations')]
  <2>1. /\ connections \in [Name -> 0 .. Len(stations)]
        /\ Len(stations) \in Nat
        /\ s \in 1 .. Len(stations)
        /\ 0 \in 0 .. Len(stations) /\ s \in 0 .. Len(stations)
    BY DEF TypeInv, RepeaterTypeOK
  <2>2. CASE Unregister(s)
    <3>1. connections' = [connections EXCEPT ![stations[s].name] = 0]
      BY <2>2 DEF Unregister
    <3> QED BY <1>2, <2>1, <3>1
  <2>3. CASE AddConnection(s)
    <3>1. connections' = [connections EXCEPT ![stations[s].name] = s]
      BY <2>3 DEF AddConnection
    <3> QED BY <1>2, <2>1, <3>1
  <2> QED BY <1>2, <2>1, <2>2, <2>3, StepReplaces
<1>4. hubSendBuffer' \in 0 .. HubCap
  BY StepReplaces, RepeaterAssumption DEF TypeInv, RepeaterTypeOK
<1>5. UNCHANGED <<distributor, translating, httpBuffer>>
  BY StepReplaces
<1> QED BY <1>2, <1>3, <1>4, <1>5 DEF TypeInv, RepeaterTypeOK

\* runRepeater with fewer targets is in order.
LEMMA NextTargetOK ==
  ASSUME NEW todo \in Seq(Targets)
  PROVE  /\ NextTarget(todo) \in Distributor
         /\ NextTarget(todo).todo = <<>>
              <=> NextTarget(todo).step = "receiving"
         /\ NextTarget(todo).station = 0
         /\ NextTarget(todo).step \in {"receiving", "looking"}
BY RepeaterAssumption DEF NextTarget, Distributor

\* While runRepeater is serving there is a target to serve.
LEMMA ServeOK ==
  ASSUME TypeInv, distributor.step # "receiving"
  PROVE  Target \in Targets /\ Tail(distributor.todo) \in Seq(Targets)
<1>1. distributor.todo \in Seq(Targets) /\ distributor.todo # <<>>
  BY DEF TypeInv, RepeaterTypeOK, Distributor
<1> QED BY <1>1 DEF Target

\* runRepeater has served a target.
LEMMA ServedOK ==
  ASSUME TypeInv, distributor.step # "receiving", Serve
  PROVE  /\ distributor' \in Distributor
         /\ distributor'.todo = <<>> <=> distributor'.step = "receiving"
         /\ distributor'.station = 0
         /\ distributor'.step \in {"receiving", "looking"}
BY ServeOK, NextTargetOK DEF Serve

\* So do the steps of runRepeater.
LEMMA DistributeKeepsTypes ==
  ASSUME TypeInv, Distribute \/ \E room \in Rooms : TakeEvent(room)
  PROVE  TypeInv'
<1> USE DEF TypeInv
<1>1. CASE \E room \in Rooms : TakeEvent(room)
  <2>1. PICK room \in Rooms : TakeEvent(room)
    BY <1>1
  <2>2. SendMap[room] \o SendMap[Star] \in Seq(Targets)
    BY RepeaterAssumption
  <2> QED BY <2>1, <2>2, NextTargetOK
          DEF TakeEvent, RepeaterTypeOK, StationsOK, StationOK, Reporters, toHub
<1>2. CASE BufferHTTP
  <2>1. Tail(distributor.todo) \in Seq(Targets)
    BY <1>2, ServeOK DEF BufferHTTP
  <2>2. httpBuffer' \in 0 .. HTTPCap
    BY <1>2, RepeaterAssumption DEF BufferHTTP, RepeaterTypeOK
  <2> QED BY <1>2, <2>1, <2>2, NextTargetOK
          DEF BufferHTTP, Serve, RepeaterTypeOK, StationsOK, StationOK,
              Reporters, toHub
<1>3. CASE FindConnection
  <2>1. connections[<<Target, 0>>] \in 0 .. Len(stations)
    BY <1>3, ServeOK, RepeaterAssumption
    DEF FindConnection, RepeaterTypeOK, Name
  <2>2. /\ distributor' \in Distributor
        /\ distributor'.todo = distributor.todo
        /\ distributor'.step = "sending"
        /\ distributor'.station \in 1 .. Len(stations)
    <3>1. /\ distributor \in Distributor
          /\ Len(stations) \in Nat
          /\ connections[<<Target, 0>>] \in 1 .. Len(stations)
          /\ connections[<<Target, 0>>] \in 0 .. MaxStations
      BY <1>3, <2>1, RepeaterAssumption DEF FindConnection, RepeaterTypeOK
    <3> QED BY <1>3, <3>1 DEF FindConnection, Distributor
  <2>3. distributor.todo # <<>>
    BY <1>3 DEF FindConnection, RepeaterTypeOK
  <2> QED BY <1>3, <2>2, <2>3
          DEF FindConnection, RepeaterTypeOK, StationsOK, StationOK, Reporters,
              toHub
<1>4. CASE SendEvent
  <2> DEFINE t == distributor.station
             st == [stations[t] EXCEPT !.send = stations[t].send + 1]
  <2>1. t \in DOMAIN stations
    BY <1>4 DEF SendEvent, RepeaterTypeOK, Distributor
  <2>2. StationOK(st)
    <3>1. /\ StationOK(stations[t])
          /\ stations[t] \in Station
          /\ stations[t].send + 1 \in 0 .. BufferCap
      BY <1>4, <2>1, RepeaterAssumption
      DEF SendEvent, StationsOK, StationOK, Station
    <3>2. st \in Station
      BY <3>1 DEF Station
    <3> QED BY <3>1, <3>2 DEF StationOK, Station, Reporters
  <2>3. stations' = [stations EXCEPT ![t] = st]
    BY <1>4 DEF SendEvent
  <2>4. /\ stations' \in Seq(Station)
        /\ Len(stations') = Len(stations)
        /\ StationsOK'
    BY <2>1, <2>2, <2>3, StationReplaced DEF RepeaterTypeOK
  <2>5. /\ distributor' \in Distributor
        /\ distributor'.todo = <<>> <=> distributor'.step = "receiving"
        /\ distributor'.station = 0
        /\ distributor'.step \in {"receiving", "looking"}
    BY <1>4, ServedOK DEF SendEvent
  <2>6. UNCHANGED <<connections, hubSendBuffer, translating, httpBuffer>>
    BY <1>4 DEF SendEvent, toHub
  <2>7. Len(stations) \in Nat
    BY DEF RepeaterTypeOK
  <2> QED BY <2>4, <2>5, <2>6, <2>7 DEF RepeaterTypeOK
<1>5. CASE StartConnection
  <2> DEFINE st == [name |-> <<Target, 0>>, dialled |-> TRUE,
                    pumper |-> "starting", reader |-> "off",
                    writer |-> "off", ping |-> FALSE, send |-> 1,
                    write |-> 0, read |-> 0, errors |-> 0, signals |-> {}]
  <2>1. <<Target, 0>> \in Name
    BY <1>5, ServeOK, RepeaterAssumption DEF StartConnection, Name
  <2>2. StationOK(st)
    BY <2>1, RepeaterAssumption
    DEF StationOK, Station, PumperState, Reporters
  <2>3. stations' = Append(stations, st)
    BY <1>5 DEF StartConnection
  <2>4. /\ stations' \in Seq(Station)
        /\ Len(stations') = Len(stations) + 1
        /\ StationsOK'
    BY <2>2, <2>3, StationAdded DEF RepeaterTypeOK
  <2>5. /\ Len(stations) \in Nat
        /\ Len(stations') \in 1 .. MaxStations
    BY <1>5, <2>4, RepeaterAssumption DEF StartConnection, RepeaterTypeOK
  <2>6. /\ distributor' \in Distributor
        /\ distributor'.todo = distributor.todo
        /\ distributor'.step = "registering"
        /\ distributor'.station = Len(stations')
    <3>1. distributor \in Distributor /\ Len(stations') \in 0 .. MaxStations
      BY <2>5 DEF RepeaterTypeOK
    <3> QED BY <1>5, <3>1 DEF StartConnection, Distributor
  <2>7. distributor.todo # <<>>
    BY <1>5 DEF StartConnection, RepeaterTypeOK
  <2>8. connections' \in [Name -> 0 .. Len(stations')]
    BY <1>5, <2>4, <2>5 DEF StartConnection, RepeaterTypeOK
  <2> QED BY <1>5, <2>4, <2>5, <2>6, <2>7, <2>8
          DEF StartConnection, RepeaterTypeOK, toHub
<1>6. CASE Register
  <2>1. /\ Tail(distributor.todo) \in Seq(Targets)
        /\ <<Target, 0>> \in Name
    BY <1>6, ServeOK, RepeaterAssumption DEF Register, Name
  <2>2. connections' \in [Name -> 0 .. Len(stations)]
    BY <1>6, <2>1 DEF Register, RepeaterTypeOK, Distributor
  <2>3. /\ distributor' \in Distributor
        /\ distributor'.todo = <<>> <=> distributor'.step = "receiving"
        /\ distributor'.station = 0
        /\ distributor'.step \in {"receiving", "looking"}
        /\ Len(stations) \in Nat
    BY <1>6, ServedOK DEF Register, RepeaterTypeOK
  <2>4. UNCHANGED <<stations, hubSendBuffer, translating, httpBuffer>>
    BY <1>6 DEF Register, toHub
  <2>5. RepeaterTypeOK'
    BY <2>2, <2>3, <2>4 DEF RepeaterTypeOK
  <2> QED BY <2>4, <2>5 DEF StationsOK, StationOK, Reporters
<1> QED BY <1>1, <1>2, <1>3, <1>4, <1>5, <1>6 DEF Distribute

\* The way to the hub and the HTTP buffer keep the types, and touch no station.
LEMMA BuffersKeepTypes ==
  ASSUME TypeInv, fireEvent \/ Translate \/ SendToHub \/ Post
  PROVE  /\ TypeInv'
         /\ UNCHANGED <<stations, connections, distributor>>
<1>1. UNCHANGED <<stations, connections, distributor>>
  BY DEF fireEvent, Translate, SendToHub, Post, toHub
<1>2. /\ hubSendBuffer' \in 0 .. HubCap
      /\ translating' \in BOOLEAN
      /\ httpBuffer' \in 0 .. HTTPCap
  <2> USE RepeaterAssumption DEF TypeInv, RepeaterTypeOK, toHub
  <2>1. CASE fireEvent
    BY <2>1 DEF fireEvent
  <2>2. CASE Translate
    BY <2>2 DEF Translate
  <2>3. CASE SendToHub
    BY <2>3 DEF SendToHub
  <2>4. CASE Post
    BY <2>4 DEF Post
  <2> QED BY <2>1, <2>2, <2>3, <2>4
<1> QED BY <1>1, <1>2
        DEF TypeInv, RepeaterTypeOK, StationsOK, StationOK, Reporters

\* So does a device that dials.
LEMMA AcceptKeepsTypes ==
  ASSUME TypeInv, NEW id \in Visitors, handleConnection(id)
  PROVE  TypeInv'
<1> DEFINE st == [name |-> <<id, 0>>, dialled |-> FALSE, pumper |-> "looking",
                  reader |-> "reading", writer |-> "selecting",
                  ping |-> FALSE, send |-> 0, write |-> 0, read |-> 0,
                  errors |-> 0, signals |-> {}]
<1>1. <<id, 0>> \in Name
  BY RepeaterAssumption DEF Name
<1>2. StationOK(st)
  BY <1>1, RepeaterAssumption DEF StationOK, Station, PumperState, Reporters
<1>3. stations' = Append(stations, st)
  BY DEF handleConnection, Accept
<1>4. /\ stations' \in Seq(Station)
      /\ Len(stations') = Len(stations) + 1
      /\ StationsOK'
  BY <1>2, <1>3, StationAdded DEF TypeInv, RepeaterTypeOK
<1>5. Len(stations) \in Nat /\ Len(stations') <= MaxStations
  BY <1>4, RepeaterAssumption
  DEF handleConnection, Accept, TypeInv, RepeaterTypeOK
<1>6. UNCHANGED <<connections, distributor, hubSendBuffer, translating,
                  httpBuffer>>
  BY DEF handleConnection, Accept, StationOnly, toHub
<1>7. connections' \in [Name -> 0 .. Len(stations')]
  BY <1>4, <1>5, <1>6 DEF TypeInv, RepeaterTypeOK
<1>8. /\ distributor' \in Distributor
      /\ distributor'.station <= Len(stations')
  BY <1>4, <1>5, <1>6 DEF TypeInv, RepeaterTypeOK, Distributor
<1> QED BY <1>4, <1>5, <1>6, <1>7, <1>8 DEF TypeInv, RepeaterTypeOK

\* The types at the start.
LEMMA TypesAtFirst == ASSUME Init PROVE TypeInv
<1>1. <<>> \in Seq(Targets) /\ stations \in Seq(Station)
  BY DEF Init
<1>2. StationsOK
  BY DEF Init, StationsOK
<1>3. /\ distributor \in Distributor
      /\ distributor.todo = <<>> <=> distributor.step = "receiving"
      /\ distributor.station = 0
      /\ distributor.step = "receiving"
  BY <1>1, NextTargetOK DEF Init, NextTarget
<1>4. connections \in [Name -> 0 .. Len(stations)]
  BY DEF Init
<1>5. Len(stations) = 0
  BY DEF Init
<1>6. /\ hubSendBuffer \in 0 .. HubCap
      /\ httpBuffer \in 0 .. HTTPCap
  <2>1. hubSendBuffer = 0 /\ httpBuffer = 0
    BY DEF Init
  <2> QED BY <2>1, RepeaterAssumption
<1>7. translating \in BOOLEAN
  BY DEF Init
<1>8. Len(stations) <= MaxStations
  BY <1>5, RepeaterAssumption
<1>9. /\ distributor.station <= Len(stations)
      /\ distributor.station # 0
           <=> distributor.step \in {"sending", "registering"}
  BY <1>3, <1>5
<1> QED BY <1>1, <1>2, <1>3, <1>4, <1>6, <1>7, <1>8, <1>9
        DEF TypeInv, RepeaterTypeOK

\* Every step of the repeater keeps the types.
LEMMA NextKeepsTypes == ASSUME TypeInv, [Next]_vars PROVE TypeInv'
<1>1. CASE Distribute \/ \E room \in Rooms : TakeEvent(room)
  BY <1>1, DistributeKeepsTypes
<1>2. CASE fireEvent \/ Translate \/ SendToHub \/ Post
  BY <1>2, BuffersKeepTypes
<1>3. CASE \E id \in Visitors : handleConnection(id)
  BY <1>3, AcceptKeepsTypes
<1>4. CASE \E s \in DOMAIN stations : Step(s)
  BY <1>4, StepKeepsTypes
<1>5. CASE UNCHANGED vars
  BY <1>5 DEF vars, TypeInv, RepeaterTypeOK, StationsOK, StationOK, Reporters
<1>6. CASE Next
  <2>1. CASE \E s \in DOMAIN stations :
               Run(s) \/ ReadMessage(s) \/ Timeout(s) \/ Break(s)
    BY <1>4, <2>1 DEF Step
  <2> QED BY <1>1, <1>2, <1>3, <1>6, <2>1 DEF Next
<1> QED BY <1>5, <1>6

\* The types, and what StationOK says of each station, hold at any time of any
\* execution of the repeater.
THEOREM TypesAlways == Spec => []TypeInv
<1>1. Init => TypeInv
  BY TypesAtFirst
<1>2. TypeInv /\ [Next]_vars => TypeInv'
  BY NextKeepsTypes
<1> QED BY <1>1, <1>2, PTL DEF Spec

\* The repeater's state always has its types: no channel of a station and no
\* buffer holds more than its capacity, whatever the stations do.
THEOREM RepeaterTypeCorrect == Spec => []RepeaterTypeOK
<1>1. TypeInv => RepeaterTypeOK
  BY DEF TypeInv
<1> QED BY <1>1, TypesAlways, PTL

\* No goroutine of a station ever waits to report an error, for any number of
\* stations and any course of their ends.
THEOREM ErrorsCorrect == Spec => []ErrorsNeverBlock
<1>1. ASSUME TypeInv, NEW s \in DOMAIN stations
      PROVE  stations[s].errors + Reporters(stations[s])
               <= ErrorCap(stations[s])
  <2>1. StationOK(stations[s])
    BY <1>1 DEF TypeInv, StationsOK
  <2>2. stations[s].errors + Reporters(stations[s]) \in Nat
    BY <2>1 DEF StationOK, Station, Reporters
  <2> QED BY <2>1, <2>2 DEF StationOK, ErrorCap
<1>2. TypeInv => ErrorsNeverBlock
  BY <1>1 DEF ErrorsNeverBlock
<1> QED BY <1>2, TypesAlways, PTL

-----------------------------------------------------------------------------
(***************************************************************************)
(* The signals of a pumper that leaves.                                    *)
(***************************************************************************)

\* What a new station leaves as it was.
LEMMA OthersStay ==
  ASSUME TypeInv, NEW st, stations' = Append(stations, st), st \in Station
  PROVE  /\ DOMAIN stations' = DOMAIN stations \cup {Len(stations) + 1}
         /\ Len(stations) + 1 \notin DOMAIN stations
         /\ \A u \in DOMAIN stations : stations'[u] = stations[u]
         /\ stations'[Len(stations) + 1] = st
         /\ Len(stations') = Len(stations) + 1
<1>1. stations \in Seq(Station)
  BY DEF TypeInv, RepeaterTypeOK
<1>2. DOMAIN stations = 1 .. Len(stations) /\ Len(stations) \in Nat
  BY <1>1
<1>3. /\ stations' \in Seq(Station)
      /\ Len(stations') = Len(stations) + 1
      /\ \A u \in 1 .. Len(stations) : stations'[u] = stations[u]
      /\ stations'[Len(stations) + 1] = st
  BY <1>1, AppendProperties
<1>4. DOMAIN stations' = 1 .. Len(stations) + 1
  BY <1>3
<1> QED BY <1>2, <1>3, <1>4

\* The pumper tells the others when it leaves, and them only.
LEMMA PumperTells ==
  ASSUME NEW s \in DOMAIN stations, StationOK(stations[s]),
         HasTold(stations[s]),
         \/ LookUpName(s) \/ AddConnection(s) \/ OpenConn(s) \/ TakeSend(s)
         \/ PutWrite(s) \/ TakeRead(s) \/ PutHub(s) \/ TakeError(s)
         \/ Close(s) \/ Timeout(s) \/ StartFails(s)
  PROVE  HasTold(stations'[s])
<1> DEFINE old == stations[s]
<1>1. old \in Station /\ old.ping \in BOOLEAN
  BY DEF StationOK, Station
<1>2. CASE \/ LookUpName(s) \/ AddConnection(s) \/ OpenConn(s) \/ TakeSend(s)
           \/ PutWrite(s) \/ TakeRead(s) \/ PutHub(s)
  BY <1>1, <1>2
  DEF LookUpName, AddConnection, OpenConn, TakeSend, PutWrite, TakeRead,
      PutHub, HasTold, Station
<1>3. ASSUME NEW st \in Station,
             NEW signals \in SUBSET {"writeExit", "pingExit", "timeout"},
             {"writeExit", "pingExit"} \subseteq signals,
             Leave(s, st, signals)
      PROVE  HasTold(stations'[s])
  <2>1. stations'[s] = [st EXCEPT !.pumper = "confirming",
                                  !.signals = signals \cap Heard(st)]
    BY <1>3 DEF Leave
  <2>2. /\ stations'[s].pumper = "confirming"
        /\ stations'[s].writer = st.writer /\ stations'[s].ping = st.ping
        /\ stations'[s].signals = signals \cap Heard(st)
    BY <2>1 DEF Station
  <2>3. st.writer # "ended" => "writeExit" \in Heard(st)
    BY DEF Heard, ToWriter
  <2>4. st.ping => "pingExit" \in Heard(st)
    BY DEF Heard
  <2> QED BY <1>3, <2>2, <2>3, <2>4 DEF HasTold
<1>4. CASE TakeError(s)
  <2>1. [old EXCEPT !.errors = @ - 1] \in Station
    BY <1>1, <1>4 DEF TakeError, Station
  <2> QED BY <1>3, <1>4, <2>1 DEF TakeError
<1>5. CASE Timeout(s)
  BY <1>1, <1>3, <1>5 DEF Timeout
<1>6. CASE StartFails(s)
  <2>1. /\ old.pumper = "starting" /\ ~old.ping /\ old.signals = {}
    <3>1. old.reader = "off" /\ old.writer = "off" /\ old.pumper = "starting"
      BY <1>6 DEF StartFails, StationOK
    <3>2. old.errors \in Nat /\ old.errors + Reporters(old) <= 2
      BY <1>1, <3>1 DEF StationOK, Station
    <3>3. ~old.ping
      BY <3>1, <3>2 DEF Reporters
    <3> QED BY <3>1, <3>3 DEF HasTold
  <2>2. /\ stations'[s].pumper = "ended" /\ stations'[s].ping = old.ping
        /\ stations'[s].signals = old.signals
    BY <1>1, <1>6 DEF StartFails, Station
  <2> QED BY <2>1, <2>2 DEF HasTold
<1>7. CASE Close(s)
  BY <1>1, <1>7 DEF Close, HasTold, Station
<1> QED BY <1>2, <1>4, <1>5, <1>6, <1>7

\* A signal is taken by the one it is for, who ends; the others keep theirs.
LEMMA PumpsHear ==
  ASSUME NEW s \in DOMAIN stations, StationOK(stations[s]),
         HasTold(stations[s]),
         \/ WritePump(s) \/ Deliver(s) \/ TakePingExit(s) \/ ReadMessage(s)
         \/ ReadFails(s) \/ WriteFails(s) \/ PingFails(s)
         \/ TimeoutWriteFails(s)
  PROVE  HasTold(stations'[s])
<1>1. stations[s] \in Station
  BY DEF StationOK
<1>2. CASE TakeWrite(s) \/ Written(s) \/ Deliver(s) \/ ReadMessage(s)
           \/ ReadFails(s)
  BY <1>1, <1>2
  DEF TakeWrite, Written, Deliver, ReadMessage, ReadFails, HasTold, Station
<1>3. CASE TakeExit(s) \/ WriteFails(s) \/ TimeoutWriteFails(s)
  BY <1>1, <1>3
  DEF TakeExit, WriteFails, TimeoutWriteFails, ToWriter, HasTold, Station
<1>4. CASE TakePingExit(s) \/ PingFails(s)
  BY <1>1, <1>4 DEF TakePingExit, PingFails, HasTold, Station
<1> QED BY <1>2, <1>3, <1>4 DEF WritePump

\* Every step of the repeater keeps the signals where they are waited for.
LEMMA NextKeepsTold ==
  ASSUME TypeInv, LeavingIsHeard, [Next]_vars
  PROVE  LeavingIsHeard'
<1>1. ASSUME NEW s \in DOMAIN stations, Step(s) PROVE LeavingIsHeard'
  <2>1. StationOK(stations[s]) /\ HasTold(stations[s])
    BY DEF TypeInv, StationsOK, LeavingIsHeard
  <2>2. HasTold(stations'[s])
    BY <1>1, <2>1, PumperTells, PumpsHear DEF Step, Run, Pumper, Break
  <2>3. /\ DOMAIN stations' = DOMAIN stations
        /\ \A u \in DOMAIN stations \ {s} : stations'[u] = stations[u]
    BY <1>1, StepReplaces
  <2> QED BY <2>2, <2>3 DEF LeavingIsHeard
<1>2. ASSUME NEW st \in Station, stations' = Append(stations, st),
             HasTold(st)
      PROVE  LeavingIsHeard'
  BY <1>2, OthersStay DEF LeavingIsHeard
<1>3. ASSUME NEW id \in Visitors, handleConnection(id) PROVE LeavingIsHeard'
  <2> DEFINE st == [name |-> <<id, 0>>, dialled |-> FALSE,
                    pumper |-> "looking", reader |-> "reading",
                    writer |-> "selecting", ping |-> FALSE, send |-> 0,
                    write |-> 0, read |-> 0, errors |-> 0, signals |-> {}]
  <2>1. st \in Station /\ HasTold(st)
    BY RepeaterAssumption DEF Name, Station, PumperState, HasTold
  <2>2. stations' = Append(stations, st)
    BY <1>3 DEF handleConnection, Accept
  <2> HIDE DEF st
  <2> QED BY <1>2, <2>1, <2>2
<1>4. CASE StartConnection
  <2> DEFINE st == [name |-> <<Target, 0>>, dialled |-> TRUE,
                    pumper |-> "starting", reader |-> "off", writer |-> "off",
                    ping |-> FALSE, send |-> 1, write |-> 0, read |-> 0,
                    errors |-> 0, signals |-> {}]
  <2>1. <<Target, 0>> \in Name
    BY <1>4, ServeOK, RepeaterAssumption DEF StartConnection, Name
  <2>2. st \in Station /\ HasTold(st)
    BY <2>1, RepeaterAssumption DEF Station, PumperState, HasTold
  <2>3. stations' = Append(stations, st)
    BY <1>4 DEF StartConnection
  <2> HIDE DEF st
  <2> QED BY <1>2, <2>2, <2>3
<1>5. CASE SendEvent
  <2> DEFINE t == distributor.station
  <2>1. t \in DOMAIN stations /\ stations[t] \in Station
    BY <1>5
    DEF SendEvent, TypeInv, RepeaterTypeOK, StationsOK, StationOK, Distributor
  <2>2. /\ DOMAIN stations' = DOMAIN stations
        /\ \A u \in DOMAIN stations \ {t} : stations'[u] = stations[u]
        /\ stations'[t] = [stations[t] EXCEPT !.send = @ + 1]
    BY <1>5, <2>1 DEF SendEvent
  <2> HIDE DEF t
  <2>3. HasTold(stations'[t])
    BY <2>1, <2>2 DEF LeavingIsHeard, HasTold, Station
  <2> QED BY <2>2, <2>3 DEF LeavingIsHeard
<1>6. CASE UNCHANGED stations
  BY <1>6 DEF LeavingIsHeard
<1>7. CASE Distribute \/ \E room \in Rooms : TakeEvent(room)
  BY <1>4, <1>5, <1>6, <1>7
  DEF Distribute, TakeEvent, BufferHTTP, FindConnection, Register
<1>8. CASE fireEvent \/ Translate \/ SendToHub \/ Post \/ UNCHANGED vars
  BY <1>6, <1>8 DEF fireEvent, Translate, SendToHub, Post, vars
<1> QED BY <1>1, <1>3, <1>7, <1>8 DEF Next, Step

\* However a station leaves, and whatever fails meanwhile, its pumper waits for
\* nobody who has not been told: its wait for the confirmation is no circle.
THEOREM LeavingCorrect == Spec => []LeavingIsHeard
<1>1. Init => LeavingIsHeard
  BY DEF Init, LeavingIsHeard
<1>2. TypeInv /\ LeavingIsHeard /\ [Next]_vars => LeavingIsHeard'
  BY NextKeepsTold
<1> QED BY <1>1, <1>2, TypesAlways, PTL DEF Spec

-----------------------------------------------------------------------------
(***************************************************************************)
(* One station for each device.                                            *)
(***************************************************************************)

\* A device has dialled under this name and has been let in.
Claimed(n) ==
  \E u \in DOMAIN stations :
    /\ ~stations[u].dialled
    /\ stations[u].pumper # "looking"
    /\ stations[u].name = n

Registering(s) ==
  distributor.step = "registering" /\ distributor.station = s

\* A running station is in the table under its name, or runRepeater is about to
\* put it there, unless a device came under the name.
RunningListed ==
  \A s \in DOMAIN stations :
    Running(s) /\ ~Claimed(stations[s].name)
    => connections[stations[s].name] = s \/ Registering(s)

\* The station runRepeater is about to register has the name of the target, and
\* nobody else runs under it.
NewIsAlone ==
  \A s \in DOMAIN stations :
    Registering(s) =>
      /\ stations[s].name = <<Target, 0>>
      /\ stations[s].dialled
      /\ \A t \in DOMAIN stations :
           Running(t) /\ stations[t].name = stations[s].name
             /\ ~Claimed(stations[s].name)
           => t = s

OneInv == RunningListed /\ NewIsAlone

\* Of the stations of an unclaimed name one runs at most.
LEMMA OnlyOneRuns ==
  ASSUME OneInv, NEW s \in DOMAIN stations, NEW t \in DOMAIN stations,
         Running(s), Running(t), stations[s].name = stations[t].name,
         ~Claimed(stations[s].name)
  PROVE  s = t
<1>1. CASE Registering(s)
  BY <1>1 DEF OneInv, NewIsAlone
<1>2. CASE Registering(t)
  BY <1>2 DEF OneInv, NewIsAlone
<1>3. CASE ~Registering(s) /\ ~Registering(t)
  BY <1>3 DEF OneInv, RunningListed
<1> QED BY <1>1, <1>2, <1>3

\* A step in which no station comes to run, takes a name or claims one.
LEMMA NobodyNew ==
  ASSUME OneInv,
         DOMAIN stations' = DOMAIN stations,
         \A u \in DOMAIN stations :
           /\ stations'[u].name = stations[u].name
           /\ stations'[u].dialled = stations[u].dialled
           /\ stations'[u].pumper = "looking" <=> stations[u].pumper = "looking"
           /\ Running(u)' => Running(u),
         \/ distributor' = distributor
         \/ distributor.step # "registering" /\ distributor'.step # "registering",
         \A u \in DOMAIN stations :
           Running(u)' /\ ~Claimed(stations[u].name)
             /\ connections[stations[u].name] = u
           => connections'[stations[u].name] = u
  PROVE  OneInv'
<1>1. ASSUME NEW n PROVE Claimed(n)' <=> Claimed(n)
  BY DEF Claimed
<1>2. ASSUME NEW s \in DOMAIN stations PROVE Registering(s)' <=> Registering(s)
  BY DEF Registering
<1>3. RunningListed'
  <2> SUFFICES ASSUME NEW s \in DOMAIN stations,
                      Running(s)', ~Claimed(stations[s].name)
               PROVE  connections'[stations[s].name] = s \/ Registering(s)
    BY <1>1, <1>2 DEF RunningListed
  <2> QED BY DEF OneInv, RunningListed
<1>4. NewIsAlone'
  <2> SUFFICES ASSUME NEW s \in DOMAIN stations, Registering(s)
               PROVE  /\ stations[s].name = <<Target, 0>>'
                      /\ stations[s].dialled
                      /\ \A t \in DOMAIN stations :
                           Running(t)' /\ stations[t].name = stations[s].name
                             /\ ~Claimed(stations[s].name)
                           => t = s
    BY <1>1, <1>2 DEF NewIsAlone
  <2>1. <<Target, 0>>' = <<Target, 0>>
    BY DEF Registering, Target
  <2> QED BY <2>1 DEF OneInv, NewIsAlone
<1> QED BY <1>3, <1>4 DEF OneInv

\* Most steps of a station are of that kind.
LEMMA SameStation ==
  ASSUME TypeInv, NEW s \in DOMAIN stations, Step(s),
         ~LookUpName(s), ~AddConnection(s)
  PROVE  /\ stations'[s].name = stations[s].name
         /\ stations'[s].dialled = stations[s].dialled
         /\ stations'[s].pumper = "looking" <=> stations[s].pumper = "looking"
         /\ Running(s)' => Running(s)
<1>1. stations[s] \in Station
  BY DEF TypeInv, StationsOK, StationOK
<1>2. CASE \/ OpenConn(s) \/ TakeSend(s) \/ PutWrite(s) \/ TakeRead(s)
           \/ PutHub(s) \/ Close(s) \/ StartFails(s)
  BY <1>1, <1>2 DEF OpenConn, TakeSend, PutWrite, TakeRead, PutHub, Close,
                    StartFails, Running, Station
<1>3. CASE TakeError(s)
  BY <1>1, <1>3 DEF TakeError, Leave, Running, Station
<1>4. CASE Timeout(s)
  BY <1>1, <1>4 DEF Timeout, Leave, Running, Station
<1>5. CASE WritePump(s) \/ Deliver(s) \/ TakePingExit(s) \/ ReadMessage(s)
  BY <1>1, <1>5 DEF WritePump, TakeWrite, Written, TakeExit, Deliver,
                    TakePingExit, ReadMessage, Running, Station
<1>6. CASE \/ ReadFails(s) \/ WriteFails(s) \/ PingFails(s)
           \/ TimeoutWriteFails(s)
  BY <1>1, <1>6 DEF ReadFails, WriteFails, PingFails, TimeoutWriteFails,
                    Running, Station
<1> QED BY <1>2, <1>3, <1>4, <1>5, <1>6 DEF Step, Run, Pumper, Break

\* A station that takes a name out of the table stops running.
LEMMA UnregisterStops ==
  ASSUME TypeInv, NEW s \in DOMAIN stations, Step(s),
         ~LookUpName(s), ~AddConnection(s), connections' # connections
  PROVE  Unregister(s) /\ Running(s) /\ ~Running(s)'
<1>1. Unregister(s)
  BY StepReplaces
<1>2. StartFails(s) \/ TakeError(s) \/ Timeout(s)
  BY DEF Step, Run, Pumper, Break, WritePump, OpenConn, TakeSend,
       PutWrite, TakeRead, PutHub, Close, TakeWrite, Written, TakeExit,
       Deliver, TakePingExit, ReadMessage, ReadFails, WriteFails,
       PingFails, TimeoutWriteFails, StationOnly
<1>3. stations[s] \in Station
  BY DEF TypeInv, StationsOK, StationOK
<1>4. CASE StartFails(s)
  BY <1>1, <1>3, <1>4 DEF StartFails, Running, Station
<1>5. CASE TakeError(s)
  BY <1>1, <1>3, <1>5 DEF TakeError, Leave, Running, Station
<1>6. CASE Timeout(s)
  BY <1>1, <1>3, <1>6 DEF Timeout, Leave, Running, Station
<1> QED BY <1>2, <1>4, <1>5, <1>6

\* Whoever stops running harms nobody else who runs unclaimed.
LEMMA StepKeepsOne ==
  ASSUME TypeInv, OneInv, NEW s \in DOMAIN stations, Step(s),
         ~LookUpName(s), ~AddConnection(s)
  PROVE  OneInv'
<1>1. PICK st : stations' = [stations EXCEPT ![s] = st]
  BY StepReplaces
<1>2. /\ DOMAIN stations' = DOMAIN stations
      /\ \A u \in DOMAIN stations \ {s} : stations'[u] = stations[u]
  BY <1>1
<1>3. \A u \in DOMAIN stations :
        /\ stations'[u].name = stations[u].name
        /\ stations'[u].dialled = stations[u].dialled
        /\ stations'[u].pumper = "looking" <=> stations[u].pumper = "looking"
        /\ Running(u)' => Running(u)
  BY <1>2, SameStation DEF Running
<1>4. ASSUME NEW u \in DOMAIN stations, Running(u)',
             ~Claimed(stations[u].name), connections[stations[u].name] = u
      PROVE  connections'[stations[u].name] = u
  <2>1. CASE connections' = connections
    BY <1>4, <2>1
  <2>2. CASE connections' # connections
    <3>1. Unregister(s)
      BY <2>2, UnregisterStops
    <3>2. Running(s) /\ ~Running(s)'
      BY <2>2, UnregisterStops
    <3>3. stations[u].name # stations[s].name
      BY <1>3, <1>4, <3>2, OnlyOneRuns
    <3> QED BY <1>4, <3>1, <3>3 DEF Unregister
  <2> QED BY <2>1, <2>2
<1>5. distributor' = distributor
  BY StepReplaces
<1> QED BY <1>2, <1>3, <1>4, <1>5, NobodyNew

\* A device that is let in claims its name, and nothing else changes.
LEMMA AddingKeepsOne ==
  ASSUME TypeInv, OneInv, NEW s \in DOMAIN stations, AddConnection(s)
  PROVE  OneInv'
<1>1. /\ ~stations[s].dialled
      /\ stations[s] \in Station
  BY DEF AddConnection, TypeInv, StationsOK, StationOK
<1>2. /\ DOMAIN stations' = DOMAIN stations
      /\ \A u \in DOMAIN stations \ {s} : stations'[u] = stations[u]
      /\ stations'[s].name = stations[s].name
      /\ stations'[s].dialled = stations[s].dialled
      /\ stations[s].pumper = "adding" /\ stations'[s].pumper = "selecting"
      /\ connections' = [connections EXCEPT ![stations[s].name] = s]
      /\ distributor' = distributor
  BY <1>1 DEF AddConnection, Station
<1>3. Claimed(stations[s].name)
  BY <1>1, <1>2 DEF Claimed
<1>4. ASSUME NEW u \in DOMAIN stations, ~Claimed(stations[u].name),
             connections[stations[u].name] = u
      PROVE  connections'[stations[u].name] = u
  BY <1>2, <1>3, <1>4
<1>5. \A u \in DOMAIN stations :
        /\ stations'[u].name = stations[u].name
        /\ stations'[u].dialled = stations[u].dialled
        /\ stations'[u].pumper = "looking" <=> stations[u].pumper = "looking"
        /\ Running(u)' => Running(u)
  BY <1>2 DEF Running
<1> QED BY <1>2, <1>4, <1>5, NobodyNew

\* A device that looks its name up claims it when it has found it free.
LEMMA LookingKeepsOne ==
  ASSUME TypeInv, OneInv, NEW s \in DOMAIN stations, LookUpName(s)
  PROVE  OneInv'
<1>1. /\ ~stations[s].dialled
      /\ stations[s] \in Station
  BY DEF LookUpName, TypeInv, StationsOK, StationOK
<1>2. /\ DOMAIN stations' = DOMAIN stations
      /\ \A u \in DOMAIN stations \ {s} : stations'[u] = stations[u]
      /\ stations[s].pumper = "looking"
      /\ connections' = connections
      /\ distributor' = distributor
  BY DEF LookUpName, StationOnly
<1>3. /\ stations'[s].dialled = stations[s].dialled
      /\ \/ /\ stations'[s].pumper = "adding"
            /\ stations'[s].name = stations[s].name
         \/ stations'[s].pumper = "looking"
  BY <1>1 DEF LookUpName, Station
<1>4. ~Running(s)
  BY <1>2 DEF Running
<1>5. ASSUME NEW n, Claimed(n) PROVE Claimed(n)'
  <2>1. PICK u \in DOMAIN stations : /\ ~stations[u].dialled
                                     /\ stations[u].pumper # "looking"
                                     /\ stations[u].name = n
    BY <1>5 DEF Claimed
  <2>2. u # s
    BY <2>1, <1>2
  <2> QED BY <2>1, <2>2, <1>2 DEF Claimed
<1>6. Running(s)' => Claimed(stations[s].name)'
  BY <1>1, <1>2, <1>3 DEF Running, Claimed
<1>7. ASSUME NEW u \in DOMAIN stations, Running(u)',
             ~Claimed(stations[u].name)'
      PROVE  /\ u # s /\ Running(u)
             /\ stations'[u] = stations[u]
             /\ ~Claimed(stations[u].name)
  <2>1. u # s
    BY <1>6, <1>7
  <2>2. stations'[u] = stations[u]
    BY <1>2, <2>1
  <2> QED BY <1>5, <1>7, <2>1, <2>2 DEF Running
<1>8. RunningListed'
  BY <1>2, <1>7 DEF OneInv, RunningListed, Registering
<1>9. NewIsAlone'
  <2> SUFFICES ASSUME NEW r \in DOMAIN stations, Registering(r)
               PROVE  /\ stations'[r].name = <<Target, 0>>
                      /\ stations'[r].dialled
                      /\ \A t \in DOMAIN stations :
                           Running(t)' /\ stations'[t].name = stations'[r].name
                             /\ ~Claimed(stations[r].name)'
                           => t = r
    BY <1>2 DEF NewIsAlone, Registering, Target
  <2>1. r # s
    BY <1>1 DEF OneInv, NewIsAlone
  <2>2. stations'[r] = stations[r]
    BY <1>2, <2>1
  <2>3. ASSUME NEW t \in DOMAIN stations, Running(t)',
               stations'[t].name = stations'[r].name,
               ~Claimed(stations[r].name)'
        PROVE  t = r
    <3>1. /\ Running(t) /\ stations'[t] = stations[t]
          /\ ~Claimed(stations[t].name)
      BY <1>7, <2>3
    <3> QED BY <2>2, <2>3, <3>1 DEF OneInv, NewIsAlone
  <2> QED BY <2>2, <2>3 DEF OneInv, NewIsAlone
<1> QED BY <1>8, <1>9 DEF OneInv

\* A device that dials claims nothing yet.
LEMMA AcceptKeepsOne ==
  ASSUME TypeInv, OneInv, NEW id \in Visitors, handleConnection(id)
  PROVE  OneInv'
<1> DEFINE st == [name |-> <<id, 0>>, dialled |-> FALSE, pumper |-> "looking",
                  reader |-> "reading", writer |-> "selecting",
                  ping |-> FALSE, send |-> 0, write |-> 0, read |-> 0,
                  errors |-> 0, signals |-> {}]
<1>1. st \in Station
  BY RepeaterAssumption DEF Name, Station, PumperState
<1>2. stations' = Append(stations, st)
  BY DEF handleConnection, Accept
<1>3. PICK k :
        /\ DOMAIN stations' = DOMAIN stations \cup {k}
        /\ \A u \in DOMAIN stations : stations'[u] = stations[u]
        /\ stations'[k] = st /\ k \notin DOMAIN stations
  BY <1>1, <1>2, OthersStay
<1>4. UNCHANGED <<connections, distributor>>
  BY DEF handleConnection, Accept, StationOnly
<1>5. stations'[k].pumper = "looking" /\ ~Running(k)'
  <2>1. stations'[k].pumper = "looking"
    BY <1>3
  <2> QED BY <2>1 DEF Running
<1> HIDE DEF st
<1>6. \A u \in DOMAIN stations : Running(u)' <=> Running(u)
  BY <1>3 DEF Running
<1>7. ASSUME NEW n PROVE Claimed(n)' <=> Claimed(n)
  BY <1>3, <1>5 DEF Claimed
<1>8. RunningListed'
  <2> SUFFICES ASSUME NEW s \in DOMAIN stations', Running(s)',
                      ~Claimed(stations[s].name)'
               PROVE  connections[stations'[s].name] = s \/ Registering(s)
    BY <1>4 DEF RunningListed, Registering
  <2>1. s \in DOMAIN stations
    BY <1>3, <1>5
  <2> QED BY <2>1, <1>3, <1>6, <1>7 DEF OneInv, RunningListed
<1>9. NewIsAlone'
  <2> SUFFICES ASSUME NEW r \in DOMAIN stations', Registering(r)
               PROVE  /\ stations'[r].name = <<Target, 0>>
                      /\ stations'[r].dialled
                      /\ \A t \in DOMAIN stations' :
                           Running(t)' /\ stations'[t].name = stations'[r].name
                             /\ ~Claimed(stations[r].name)'
                           => t = r
    BY <1>4 DEF NewIsAlone, Registering, Target
  <2>1. r \in DOMAIN stations
    BY DEF Registering, TypeInv, RepeaterTypeOK, Distributor
  <2> QED BY <2>1, <1>3, <1>5, <1>6, <1>7 DEF OneInv, NewIsAlone
<1> QED BY <1>8, <1>9 DEF OneInv

\* runRepeater dials only who is not in the table: nobody unclaimed runs under
\* the name then.
LEMMA StartKeepsOne ==
  ASSUME TypeInv, OneInv, StartConnection
  PROVE  OneInv'
<1> DEFINE st == [name |-> <<Target, 0>>, dialled |-> TRUE,
                  pumper |-> "starting", reader |-> "off", writer |-> "off",
                  ping |-> FALSE, send |-> 1, write |-> 0, read |-> 0,
                  errors |-> 0, signals |-> {}]
<1>1. st \in Station
  <2>1. <<Target, 0>> \in Name
    BY ServeOK, RepeaterAssumption DEF StartConnection, Name
  <2> QED BY <2>1, RepeaterAssumption DEF Station, PumperState
<1>2. stations' = Append(stations, st)
  BY DEF StartConnection
<1>3. PICK k :
        /\ DOMAIN stations' = DOMAIN stations \cup {k}
        /\ \A u \in DOMAIN stations : stations'[u] = stations[u]
        /\ stations'[k] = st /\ k \notin DOMAIN stations
        /\ k = Len(stations')
  BY <1>1, <1>2, OthersStay
<1>4. /\ connections' = connections
      /\ distributor' = [distributor EXCEPT !.step = "registering",
                                            !.station = k]
      /\ connections[<<Target, 0>>] = 0
      /\ distributor.step = "looking"
  BY <1>3 DEF StartConnection
<1>5. /\ stations'[k].name = <<Target, 0>>
      /\ stations'[k].dialled
      /\ Target' = Target
      /\ \A s : Registering(s)' <=> s = k
  <2>1. distributor \in Distributor
    BY DEF TypeInv, RepeaterTypeOK
  <2> QED BY <1>3, <1>4, <2>1 DEF Registering, Target, Distributor
<1> HIDE DEF st
<1>6. \A u \in DOMAIN stations : Running(u)' <=> Running(u)
  BY <1>3 DEF Running
<1>7. ASSUME NEW n PROVE Claimed(n)' <=> Claimed(n)
  BY <1>3, <1>5 DEF Claimed
<1>8. ASSUME NEW s \in DOMAIN stations, Running(s),
             ~Claimed(stations[s].name)
      PROVE  /\ connections[stations[s].name] = s
             /\ stations[s].name # <<Target, 0>>
  <2>1. connections[stations[s].name] = s
    BY <1>4, <1>8 DEF OneInv, RunningListed, Registering
  <2>2. s # 0
    BY DEF TypeInv, RepeaterTypeOK
  <2> QED BY <1>4, <2>1, <2>2
<1>9. RunningListed'
  <2> SUFFICES ASSUME NEW s \in DOMAIN stations', Running(s)',
                      ~Claimed(stations[s].name)'
               PROVE  connections[stations'[s].name] = s \/ Registering(s)'
    BY <1>4 DEF RunningListed
  <2>1. CASE s = k
    BY <2>1, <1>5
  <2>2. CASE s \in DOMAIN stations
    BY <2>2, <1>3, <1>6, <1>7, <1>8
  <2> QED BY <2>1, <2>2, <1>3
<1>10. NewIsAlone'
  <2> SUFFICES ASSUME NEW t \in DOMAIN stations', Running(t)',
                      stations'[t].name = <<Target, 0>>,
                      ~Claimed(stations[k].name)'
               PROVE  t = k
    BY <1>5 DEF NewIsAlone
  <2>1. CASE t \in DOMAIN stations
    <3>1. ~Claimed(stations[t].name)
      BY <2>1, <1>3, <1>5, <1>7
    <3> QED BY <2>1, <3>1, <1>3, <1>6, <1>8
  <2> QED BY <2>1, <1>3
<1> QED BY <1>9, <1>10 DEF OneInv

\* The station runRepeater registers has nobody to push out who is unclaimed.
LEMMA RegisterKeepsOne ==
  ASSUME TypeInv, OneInv, Register
  PROVE  OneInv'
<1> DEFINE k == distributor.station
<1>1. /\ Registering(k)
      /\ k \in DOMAIN stations
      /\ stations' = stations
      /\ connections' = [connections EXCEPT ![<<Target, 0>>] = k]
      /\ distributor'.step # "registering"
  <2>1. distributor'.step \in {"receiving", "looking"}
    BY ServedOK DEF Register
  <2>2. k \in DOMAIN stations
    BY DEF Register, TypeInv, RepeaterTypeOK, Distributor
  <2> QED BY <2>1, <2>2 DEF Register, Registering
<1>2. <<Target, 0>> \in DOMAIN connections
  BY ServeOK, RepeaterAssumption
  DEF Register, TypeInv, RepeaterTypeOK, Name
<1>3. ASSUME NEW s \in DOMAIN stations, Running(s),
             ~Claimed(stations[s].name)
      PROVE  connections'[stations[s].name] = s
  <2>1. CASE stations[s].name = <<Target, 0>>
    <3>1. s = k
      BY <1>1, <1>3, <2>1 DEF OneInv, NewIsAlone
    <3> QED BY <1>1, <1>2, <2>1, <3>1
  <2>2. CASE stations[s].name # <<Target, 0>>
    <3>1. ~Registering(s)
      BY <2>2 DEF OneInv, NewIsAlone
    <3> QED BY <1>1, <1>3, <2>2, <3>1 DEF OneInv, RunningListed
  <2> QED BY <2>1, <2>2
<1>4. RunningListed'
  BY <1>1, <1>3 DEF RunningListed, Running, Claimed
<1>5. NewIsAlone'
  BY <1>1 DEF NewIsAlone, Registering
<1> QED BY <1>4, <1>5 DEF OneInv

\* Every step of the repeater keeps OneInv.
LEMMA NextKeepsOne ==
  ASSUME TypeInv, OneInv, [Next]_vars
  PROVE  OneInv'
<1>1. CASE \E s \in DOMAIN stations : Step(s)
  BY <1>1, StepKeepsOne, AddingKeepsOne, LookingKeepsOne
<1>2. CASE \E id \in Visitors : handleConnection(id)
  BY <1>2, AcceptKeepsOne
<1>3. CASE StartConnection
  BY <1>3, StartKeepsOne
<1>4. CASE Register
  BY <1>4, RegisterKeepsOne
<1>5. CASE \/ fireEvent \/ Translate \/ SendToHub \/ Post
           \/ UNCHANGED vars
  <2>1. UNCHANGED <<stations, connections, distributor>>
    BY <1>5, BuffersKeepTypes DEF vars
  <2> QED BY <2>1 DEF OneInv, RunningListed, NewIsAlone, Registering, Claimed,
                      Running, Target
<1>6. CASE \/ \E room \in Rooms : TakeEvent(room)
           \/ BufferHTTP \/ FindConnection
  <2>1. /\ UNCHANGED <<stations, connections>>
        /\ distributor.step \in {"receiving", "looking"}
    BY <1>6 DEF TakeEvent, BufferHTTP, FindConnection
  <2>2. distributor'.step # "registering"
    <3>1. CASE \E room \in Rooms : TakeEvent(room)
      BY <3>1 DEF TakeEvent, NextTarget
    <3>2. CASE BufferHTTP
      BY <3>2 DEF BufferHTTP, Serve, NextTarget
    <3>3. CASE FindConnection
      BY <3>3 DEF FindConnection, TypeInv, RepeaterTypeOK, Distributor
    <3> QED BY <1>6, <3>1, <3>2, <3>3
  <2> QED BY <2>1, <2>2, NobodyNew DEF Running
<1>7. CASE SendEvent
  <2> DEFINE t == distributor.station
  <2>1. /\ t \in DOMAIN stations
        /\ stations[t] \in Station
    BY <1>7
    DEF SendEvent, TypeInv, RepeaterTypeOK, StationsOK, StationOK, Distributor
  <2>2. /\ DOMAIN stations' = DOMAIN stations
        /\ \A u \in DOMAIN stations \ {t} : stations'[u] = stations[u]
        /\ stations'[t].name = stations[t].name
        /\ stations'[t].dialled = stations[t].dialled
        /\ stations'[t].pumper = stations[t].pumper
        /\ connections' = connections
    BY <1>7, <2>1 DEF SendEvent, Station
  <2>3. \A u \in DOMAIN stations :
          /\ stations'[u].name = stations[u].name
          /\ stations'[u].dialled = stations[u].dialled
          /\ stations'[u].pumper = stations[u].pumper
    BY <2>2
  <2>4. /\ distributor.step # "registering"
        /\ distributor'.step # "registering"
    BY <1>7 DEF SendEvent, Serve, NextTarget
  <2> QED BY <2>2, <2>3, <2>4, NobodyNew DEF Running
<1>8. CASE Next
  <2>1. CASE \E s \in DOMAIN stations :
               Run(s) \/ ReadMessage(s) \/ Timeout(s) \/ Break(s)
    BY <1>1, <2>1 DEF Step
  <2>2. CASE Distribute
    BY <2>2, <1>3, <1>4, <1>6, <1>7 DEF Distribute
  <2> QED BY <1>2, <1>5, <1>6, <1>8, <2>1, <2>2 DEF Next
<1> QED BY <1>5, <1>8

\* The repeater never has two stations at work under the ID of one device unless
\* a device dialled in under that ID, although a station starts before it is in
\* the table and leaves it by name.
THEOREM OneStationCorrect == Spec => []OneStationPerDevice
<1>1. Init => OneInv
  BY DEF Init, OneInv, RunningListed, NewIsAlone
<1>2. TypeInv /\ OneInv /\ [Next]_vars => OneInv'
  BY NextKeepsOne
<1>3. OneInv => OneStationPerDevice
  <2> SUFFICES ASSUME OneInv, NEW s \in DOMAIN stations,
                      NEW t \in DOMAIN stations,
                      s # t, Running(s), Running(t),
                      stations[s].name = stations[t].name
               PROVE  \E u \in DOMAIN stations :
                        /\ ~stations[u].dialled
                        /\ stations[u].name = stations[s].name
    BY DEF OneStationPerDevice
  <2>1. Claimed(stations[s].name)
    BY OnlyOneRuns
  <2> QED BY <2>1 DEF Claimed
<1> QED BY <1>1, <1>2, <1>3, TypesAlways, PTL DEF Spec

-----------------------------------------------------------------------------
(***************************************************************************)
(* Who is in the table.                                                    *)
(***************************************************************************)

\* Everything a bounded instance does, the repeater may do.
LEMMA MCStepIsStep ==
  ASSUME TypeInv, [MCNext]_mcVars
  PROVE  [Next]_vars
<1>1. CASE UNCHANGED mcVars
  BY <1>1 DEF mcVars
<1>2. CASE Event
  BY <1>2 DEF Event, Next
<1>3. CASE Input
  BY <1>3 DEF Input, Next
<1>4. CASE Work
  BY <1>4 DEF Work, ReadsClosed, Next, Break
<1> QED BY <1>1, <1>2, <1>3, <1>4 DEF MCNext

\* So what holds of every execution of the repeater holds of these.
LEMMA MCAlways == MCSpec => [](TypeInv /\ OneInv)
<1>1. MCInit => TypeInv /\ OneInv
  <2> SUFFICES ASSUME MCInit PROVE TypeInv /\ OneInv
    OBVIOUS
  <2>1. Init
    BY DEF MCInit
  <2>2. OneInv
    BY <2>1 DEF Init, OneInv, RunningListed, NewIsAlone
  <2> QED BY <2>1, <2>2, TypesAtFirst
<1>2. TypeInv /\ OneInv /\ [MCNext]_mcVars => TypeInv' /\ OneInv'
  BY MCStepIsStep, NextKeepsTypes, NextKeepsOne
<1> QED BY <1>1, <1>2, PTL DEF MCSpec

\* A station that has started and has not begun to leave.
Started(s) ==
  stations[s].pumper \in {"starting", "selecting", "writing", "forwarding"}

\* A started station that never shared its name is in the table, or about to be.
LonersListed ==
  \A s \in DOMAIN stations \ rivals :
    Started(s) => connections[stations[s].name] = s \/ Registering(s)

ListedInv == Rivals \subseteq rivals /\ LonersListed

\* Two stations that bear one name at one time are both rivals.
LEMMA BearersAreRivals ==
  ASSUME ListedInv, NEW s \in DOMAIN stations, NEW t \in DOMAIN stations,
         s # t, Bears(s), Bears(t), stations[s].name = stations[t].name
  PROVE  s \in rivals
BY DEF ListedInv, Rivals

\* A step after which a loner that has started had started before, and has kept
\* its place.
LEMMA LonersStay ==
  ASSUME ListedInv, rivals \subseteq rivals',
         \A s \in DOMAIN stations' \ rivals' :
           Started(s)' =>
             \/ /\ s \in DOMAIN stations /\ Started(s)
                /\ stations'[s].name = stations[s].name
                /\ connections[stations[s].name] = s
                     => connections'[stations[s].name] = s
                /\ Registering(s) =>
                     Registering(s)' \/ connections'[stations[s].name] = s
             \/ connections'[stations'[s].name] = s
             \/ Registering(s)'
  PROVE  LonersListed'
BY DEF ListedInv, LonersListed

\* Only a station that has looked its name up or is new comes to start.
LEMMA StartedBefore ==
  ASSUME TypeInv, NEW s \in DOMAIN stations, Step(s),
         ~LookUpName(s), ~AddConnection(s), Started(s)'
  PROVE  Started(s)
<1>1. stations[s] \in Station
  BY DEF TypeInv, StationsOK, StationOK
<1>2. Running(s)' /\ Running(s)
  BY SameStation DEF Started, Running
<1>3. stations[s].pumper # "adding"
  BY <1>1 DEF Step, Run, Pumper, Break, WritePump, OpenConn, TakeSend,
       PutWrite, TakeRead, PutHub, Close, TakeWrite, Written, TakeExit,
       Deliver, TakePingExit, ReadMessage, ReadFails, WriteFails,
       PingFails, TimeoutWriteFails, StartFails, TakeError, Timeout, Leave,
       Started, Station
<1> QED BY <1>2, <1>3 DEF Started, Running

\* A station that enters or leaves the table does so in its own name, which a
\* loner does not share.
LEMMA StepKeepsLoners ==
  ASSUME TypeInv, OneInv, ListedInv, rivals \subseteq rivals',
         NEW s \in DOMAIN stations, Step(s)
  PROVE  LonersListed'
<1>1. PICK st : stations' = [stations EXCEPT ![s] = st]
  BY StepReplaces
<1>2. /\ DOMAIN stations' = DOMAIN stations
      /\ \A u \in DOMAIN stations \ {s} : stations'[u] = stations[u]
  BY <1>1
<1>3. /\ distributor' = distributor
      /\ \A u : Registering(u)' <=> Registering(u)
  BY StepReplaces DEF Registering
<1>4. /\ stations[s] \in Station
      /\ stations[s].name \in DOMAIN connections
  BY DEF TypeInv, StationsOK, StationOK, Station, RepeaterTypeOK
<1>5. CASE LookUpName(s)
  <2>1. connections' = connections /\ ~Started(s)'
    BY <1>4, <1>5 DEF LookUpName, StationOnly, Started, Station
  <2> QED BY <1>2, <1>3, <2>1, LonersStay DEF Started
<1>6. CASE AddConnection(s)
  <2>1. /\ connections' = [connections EXCEPT ![stations[s].name] = s]
        /\ stations'[s].name = stations[s].name
        /\ Bears(s)
    BY <1>4, <1>6 DEF AddConnection, Bears, Running, Station
  <2>2. connections'[stations'[s].name] = s
    BY <1>4, <2>1
  <2>3. ASSUME NEW u \in DOMAIN stations \ {s}, u \notin rivals, Started(u)
        PROVE  stations[u].name # stations[s].name
    BY <2>1, <2>3, BearersAreRivals DEF Started, Bears, Running
  <2> QED BY <1>2, <1>3, <2>1, <2>2, <2>3, LonersStay DEF Started
<1>7. CASE ~LookUpName(s) /\ ~AddConnection(s)
  <2>1. stations'[s].name = stations[s].name
    BY <1>7, SameStation
  <2>2. Started(s)' => Started(s)
    BY <1>4, <1>7, StartedBefore
  <2>3. CASE connections' = connections
    BY <1>2, <1>3, <2>1, <2>2, <2>3, LonersStay DEF Started
  <2>4. CASE connections' # connections
    <3>1. /\ Unregister(s)
          /\ Running(s) /\ ~Running(s)'
      BY <1>7, <2>4, UnregisterStops
    <3>2. ~Started(s)'
      BY <3>1 DEF Started, Running
    <3>3. ASSUME NEW u \in DOMAIN stations \ {s}, u \notin rivals, Started(u)
          PROVE  stations[u].name # stations[s].name
      BY <3>1, <3>3, BearersAreRivals DEF Started, Bears, Running
    <3> QED BY <1>2, <1>3, <3>1, <3>2, <3>3, LonersStay DEF Started, Unregister
  <2> QED BY <2>3, <2>4
<1> QED BY <1>5, <1>6, <1>7

\* runRepeater puts a station into the table in place of nobody but a rival.
LEMMA RegisterKeepsLoners ==
  ASSUME TypeInv, OneInv, ListedInv, rivals \subseteq rivals', Register
  PROVE  LonersListed'
<1> DEFINE k == distributor.station
<1>1. /\ k \in DOMAIN stations
      /\ Registering(k)
      /\ stations' = stations
      /\ connections' = [connections EXCEPT ![<<Target, 0>>] = k]
  BY DEF Register, Registering, TypeInv, RepeaterTypeOK, Distributor
<1>2. stations[k].name = <<Target, 0>>
  BY <1>1 DEF OneInv, NewIsAlone
<1>3. <<Target, 0>> \in DOMAIN connections
  BY ServeOK, RepeaterAssumption
  DEF Register, TypeInv, RepeaterTypeOK, Name
<1>4. ASSUME NEW u \in DOMAIN stations \ {k}, u \notin rivals, Started(u)
      PROVE  stations[u].name # <<Target, 0>> /\ ~Registering(u)
  BY <1>1, <1>2, <1>4, BearersAreRivals
  DEF Started, Bears, Running, Registering
<1>5. connections'[stations'[k].name] = k
  BY <1>1, <1>2, <1>3
<1> HIDE DEF k
<1> QED BY <1>1, <1>4, <1>5, LonersStay DEF Started

\* A station that runRepeater starts is about to be registered; one that a device
\* starts has yet to look its name up.
LEMMA NewKeepLoners ==
  ASSUME TypeInv, ListedInv, rivals \subseteq rivals',
         StartConnection \/ \E id \in Visitors : handleConnection(id)
  PROVE  LonersListed'
<1>1. \E k :
        /\ DOMAIN stations' = DOMAIN stations \cup {k}
        /\ \A u \in DOMAIN stations : stations'[u] = stations[u]
        /\ Registering(k)' \/ ~Started(k)'
  <2>1. CASE StartConnection
    <3> DEFINE st == [name |-> <<Target, 0>>, dialled |-> TRUE,
                      pumper |-> "starting", reader |-> "off",
                      writer |-> "off", ping |-> FALSE, send |-> 1,
                      write |-> 0, read |-> 0, errors |-> 0, signals |-> {}]
    <3>1. <<Target, 0>> \in Name
      BY <2>1, ServeOK, RepeaterAssumption DEF StartConnection, Name
    <3>2. st \in Station
      BY <3>1, RepeaterAssumption DEF Station, PumperState
    <3>3. stations' = Append(stations, st)
      BY <2>1 DEF StartConnection
    <3>4. /\ distributor'.step = "registering"
          /\ distributor'.station = Len(stations')
      BY <2>1 DEF StartConnection, TypeInv, RepeaterTypeOK, Distributor
    <3> HIDE DEF st
    <3>5. PICK k : k = Len(stations) + 1
      OBVIOUS
    <3>6. Registering(k)'
      BY <3>2, <3>3, <3>4, <3>5, OthersStay DEF Registering
    <3> QED BY <3>2, <3>3, <3>5, <3>6, OthersStay
  <2>2. ASSUME NEW id \in Visitors, handleConnection(id)
        PROVE  \E k :
                 /\ DOMAIN stations' = DOMAIN stations \cup {k}
                 /\ \A u \in DOMAIN stations : stations'[u] = stations[u]
                 /\ ~Started(k)'
    <3> DEFINE st == [name |-> <<id, 0>>, dialled |-> FALSE,
                      pumper |-> "looking", reader |-> "reading",
                      writer |-> "selecting", ping |-> FALSE, send |-> 0,
                      write |-> 0, read |-> 0, errors |-> 0, signals |-> {}]
    <3>1. st \in Station /\ st.pumper = "looking"
      BY RepeaterAssumption DEF Name, Station, PumperState
    <3>2. stations' = Append(stations, st)
      BY <2>2 DEF handleConnection, Accept
    <3> HIDE DEF st
    <3>3. PICK k : k = Len(stations) + 1
      OBVIOUS
    <3>4. stations'[k].pumper = "looking"
      BY <3>1, <3>2, <3>3, OthersStay
    <3>5. ~Started(k)'
      BY <3>4 DEF Started
    <3> QED BY <3>1, <3>2, <3>3, <3>5, OthersStay
  <2> QED BY <2>1, <2>2
<1>2. UNCHANGED connections
  BY DEF StartConnection, handleConnection, Accept, StationOnly
<1>3. \A u : ~Registering(u) \/ Registering(u)'
  BY DEF StartConnection, handleConnection, Accept, StationOnly, Registering
<1> QED BY <1>1, <1>2, <1>3, LonersStay DEF Started

\* Serving a station, or moving on, takes nobody out of the table.
LEMMA ServingKeepsLoners ==
  ASSUME TypeInv, ListedInv, rivals \subseteq rivals',
         \/ \E room \in Rooms : TakeEvent(room)
         \/ BufferHTTP \/ FindConnection \/ SendEvent
  PROVE  LonersListed'
<1>1. UNCHANGED connections /\ \A u : ~Registering(u)
  BY DEF TakeEvent, BufferHTTP, FindConnection, SendEvent, Registering
<1>2. /\ DOMAIN stations' = DOMAIN stations
      /\ \A u \in DOMAIN stations :
           /\ stations'[u].name = stations[u].name
           /\ stations'[u].pumper = stations[u].pumper
  <2>1. CASE UNCHANGED stations
    BY <2>1
  <2>2. CASE SendEvent
    <3> DEFINE t == distributor.station
    <3>1. /\ t \in DOMAIN stations
          /\ stations[t] \in Station
      BY <2>2
      DEF SendEvent, TypeInv, RepeaterTypeOK, StationsOK, StationOK, Distributor
    <3>2. /\ DOMAIN stations' = DOMAIN stations
          /\ \A u \in DOMAIN stations \ {t} : stations'[u] = stations[u]
          /\ stations'[t].name = stations[t].name
          /\ stations'[t].pumper = stations[t].pumper
      BY <2>2, <3>1 DEF SendEvent, Station
    <3> QED BY <3>2
  <2> QED BY <2>1, <2>2 DEF TakeEvent, BufferHTTP, FindConnection
<1> QED BY <1>1, <1>2, LonersStay DEF Started

\* Every step of a bounded instance keeps loners in the table.
LEMMA NextKeepsListed ==
  ASSUME TypeInv, OneInv, ListedInv, [MCNext]_mcVars
  PROVE  ListedInv'
<1>1. CASE UNCHANGED mcVars
  <2>1. UNCHANGED <<stations, connections, distributor, rivals>>
    BY <1>1 DEF mcVars, vars
  <2> QED BY <2>1 DEF ListedInv, LonersListed, Rivals, Bears, Running, Started,
                      Registering
<1>2. CASE MCNext
  <2>1. rivals \subseteq rivals' /\ Rivals' \subseteq rivals'
    BY <1>2 DEF MCNext
  <2>2. CASE \E s \in DOMAIN stations : Step(s)
    BY <2>1, <2>2, StepKeepsLoners DEF ListedInv
  <2>3. CASE Register
    BY <2>1, <2>3, RegisterKeepsLoners DEF ListedInv
  <2>4. CASE StartConnection \/ \E id \in Visitors : handleConnection(id)
    BY <2>1, <2>4, NewKeepLoners DEF ListedInv
  <2>5. CASE \/ \E room \in Rooms : TakeEvent(room)
             \/ BufferHTTP \/ FindConnection \/ SendEvent
    BY <2>1, <2>5, ServingKeepsLoners DEF ListedInv
  <2>6. CASE \/ fireEvent \/ Translate \/ SendToHub \/ Post
             \/ UNCHANGED vars
    <3>1. UNCHANGED <<stations, connections, distributor>>
      BY <2>6 DEF fireEvent, Translate, SendToHub, Post, vars
    <3>2. LonersListed'
      BY <2>1, <3>1, LonersStay DEF Started, Registering
    <3> QED BY <2>1, <3>2 DEF ListedInv
  <2>7. CASE Next
    <3>1. CASE \E s \in DOMAIN stations :
                 Run(s) \/ ReadMessage(s) \/ Timeout(s) \/ Break(s)
      BY <2>2, <3>1 DEF Step
    <3>2. CASE Distribute
      BY <2>3, <2>4, <2>5, <3>2 DEF Distribute
    <3> QED BY <2>4, <2>5, <2>6, <2>7, <3>1, <3>2 DEF Next
  <2> QED BY <1>2, <2>6, <2>7, MCStepIsStep
<1> QED BY <1>1, <1>2

\* A station at work can be found under its name unless another has had the name
\* at the same time: nobody's start, end or late registration harms a station of
\* another name, and stations of one name harm each other only while both live.
THEOREM ListedCorrect == MCSpec => []RunningStationIsListed
<1>1. MCInit => ListedInv
  BY DEF MCInit, Init, ListedInv, LonersListed, Rivals
<1>2. TypeInv /\ OneInv /\ ListedInv /\ [MCNext]_mcVars => ListedInv'
  BY NextKeepsListed
<1>3. ListedInv => RunningStationIsListed
  BY DEF ListedInv, LonersListed, RunningStationIsListed, Started, Registering
<1> QED BY <1>1, <1>2, <1>3, MCAlways, PTL DEF MCSpec
=============================================================================
