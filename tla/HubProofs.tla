----------------------------- MODULE HubProofs -----------------------------
(***************************************************************************)
(* The hub implements the nexus with an open environment: whatever its     *)
(* connections do, the router sees calls its specification allows.  Every  *)
(* theorem about module Nexus is therefore one about the hub.  Then what   *)
(* the pumps keep of the connections: one link for each dialled peer, the  *)
(* registration of a connection for as long as it lasts, and the order of  *)
(* the events of each source in the bounded instances of MCHub, for every  *)
(* bound.                                                                  *)
(***************************************************************************)
EXTENDS MCHub, NexusProofs

\* What the pumps hold is what they may submit, in every reachable state.
LEMMA ConnTypeStep ==
  ASSUME ConnTypeOK, [HubNext]_hubVars
  PROVE  ConnTypeOK'
<1> USE DEF ConnTypeOK, ReaderState, WriterState, Inbound
<1>1. CASE UNCHANGED conns BY <1>1 DEF conns
<1>2. ASSUME NEW c \in Chan, Accept(c) PROVE ConnTypeOK' BY <1>2 DEF Accept
<1>3. ASSUME NEW c \in Chan, Dial(c) PROVE ConnTypeOK'
  BY <1>3, HubAssumption DEF Dial
<1>4. ASSUME NEW c \in Chan, Start(c) PROVE ConnTypeOK' BY <1>4 DEF Start
<1>5. ASSUME NEW c \in Chan, NEW e \in EventWrapper, ReadEvent(c, e)
      PROVE  ConnTypeOK'
  BY <1>5 DEF ReadEvent
<1>6. ASSUME NEW c \in Chan, ingestMessage(c) PROVE ConnTypeOK'
  BY <1>6 DEF ingestMessage
<1>7. ASSUME NEW c \in Chan, NEW s \in Subscription, ReadChange(c, s)
      PROVE  ConnTypeOK'
  BY <1>7 DEF ReadChange
<1>8. ASSUME NEW c \in Chan, SubmitChange(c) PROVE ConnTypeOK'
  BY <1>8 DEF SubmitChange
<1>9. ASSUME NEW c \in Chan, ReadFails(c) PROVE ConnTypeOK'
  BY <1>9 DEF ReadFails
<1>10. ASSUME NEW c \in Chan, StopReading(c) PROVE ConnTypeOK'
  BY <1>10 DEF StopReading
<1>11. ASSUME NEW c \in Chan, StopWriting(c),
              exitChan' \in [Chan -> BOOLEAN]
       PROVE  ConnTypeOK'
  BY <1>11 DEF StopWriting
<1>12. ASSUME NEW c \in Chan, WriteFails(c) \/ PingFails(c) \/ TakeExit(c)
       PROVE  ConnTypeOK'
  BY <1>11, <1>12 DEF WriteFails, PingFails, TakeExit
<1>13. ASSUME NEW c \in Chan, WriteMessage(c) PROVE UNCHANGED conns
  BY <1>13 DEF WriteMessage
<1>14. Router \/ UNCHANGED hubVars => UNCHANGED conns BY DEF Router, hubVars
<1>15. ASSUME NEW e \in EventWrapper, NEW i \in PostID, Event(e, i)
       PROVE  UNCHANGED conns
  BY <1>15 DEF Event
<1> QED BY <1>1, <1>2, <1>3, <1>4, <1>5, <1>6, <1>7, <1>8, <1>9, <1>10, <1>12,
           <1>13, <1>14, <1>15
        DEF HubNext, Connect, Fail, Pump, CallNexus

\* Every step of the hub is a step of the nexus or leaves it alone.
LEMMA HubStepIsNexusStep ==
  ASSUME ConnTypeOK, [HubNext]_hubVars
  PROVE  [Next]_vars
<1>1. ASSUME NEW c \in Chan, Start(c) PROVE Next
  BY <1>1 DEF Start, Next, Environment
<1>2. ASSUME NEW c \in Chan, ingestMessage(c) PROVE Next
  <2>1. Head(event[c]) \in EventWrapper
    <3>1. event[c] \in Seq(EventWrapper) /\ event[c] # <<>>
      BY <1>2 DEF ConnTypeOK, ingestMessage
    <3> QED BY <3>1, HeadTailProperties
  <2>2. IdOf[c] \in ConnID BY NexusAssumption
  <2> QED BY <1>2, <2>1, <2>2 DEF ingestMessage, Next, Environment
<1>3. ASSUME NEW c \in Chan, SubmitChange(c) PROVE Next
  <2>1. Head(change[c]) \in Subscription
    <3>1. change[c] \in Seq(Subscription) /\ change[c] # <<>>
      BY <1>3 DEF ConnTypeOK, SubmitChange
    <3> QED BY <3>1, HeadTailProperties
  <2>2. /\ Head(change[c]).rooms \in RoomLists
        /\ Head(change[c]).create \in BOOLEAN
    BY <2>1 DEF Subscription
  <2> QED BY <1>3, <2>2 DEF SubmitChange, Next, Environment
<1>4. ASSUME NEW c \in Chan, StopReading(c) PROVE Next
  BY <1>4 DEF StopReading, Next, Environment
<1>5. ASSUME NEW c \in Chan, WriteMessage(c) \/ WriteFails(c) PROVE Next
  BY <1>5 DEF WriteMessage, WriteFails, Next, Environment
<1>6. ASSUME NEW e \in EventWrapper, NEW i \in PostID, Event(e, i) PROVE Next
  <2>1. i \in ConnID BY HubAssumption
  <2> QED BY <1>6, <2>1 DEF Event, Next, Environment
<1>7. ASSUME Router PROVE Next BY <1>7 DEF Router, Next
<1>8. ASSUME NEW c \in Chan,
             \/ Connect(c) \/ ReadFails(c) \/ PingFails(c) \/ TakeExit(c)
      PROVE  UNCHANGED vars
  BY <1>8 DEF Connect, Accept, Dial, ReadFails, PingFails, TakeExit
<1>9. ASSUME NEW c \in Chan, NEW e, ReadEvent(c, e) PROVE UNCHANGED vars
  BY <1>9 DEF ReadEvent
<1>10. ASSUME NEW c \in Chan, NEW s, ReadChange(c, s) PROVE UNCHANGED vars
  BY <1>10 DEF ReadChange
<1>11. UNCHANGED hubVars => UNCHANGED vars BY DEF hubVars
<1> QED BY <1>1, <1>2, <1>3, <1>4, <1>5, <1>6, <1>7, <1>8, <1>9, <1>10, <1>11
        DEF HubNext, Fail, Pump, CallNexus

\* The pumps' state keeps its types: a pump holds a message exactly while it
\* submits it.
LEMMA ConnTypeCorrect == HubSpec => []ConnTypeOK
<1>1. HubInit => ConnTypeOK
  BY DEF HubInit, ConnTypeOK, ReaderState, WriterState
<1> QED BY <1>1, ConnTypeStep, PTL DEF HubSpec

\* The hub implements the nexus.
THEOREM HubImplementsNexus == HubSpec => Spec
<1>1. HubInit => Init BY DEF HubInit
<1> QED BY <1>1, HubStepIsNexusStep, ConnTypeCorrect, PTL DEF HubSpec, Spec

\* The router's invariants and its promise about whole deregistrations hold in
\* the hub, and its connections keep their types.
THEOREM HubSafety ==
  HubSpec => /\ []HubTypeOK
             /\ []IndexMatchesRegistry
             /\ []AdmittedSendNeverBlocks
             /\ FullDeregistrationClears
<1>1. HubTypeOK <=> TypeOK /\ ConnTypeOK BY DEF HubTypeOK
<1> QED BY <1>1, HubImplementsNexus, ConnTypeCorrect, TypeCorrect,
           IndexCorrect, AdmittedNeverBlocks, DeregistrationClears, PTL

-----------------------------------------------------------------------------
(***************************************************************************)
(* One link for each dialled peer.  A retry loop that succeeds becomes a   *)
(* connection object whose write pump is going to start; a write pump that *)
(* ends becomes a retry loop.                                              *)
(***************************************************************************)

\* The connection objects that owe peer i a retry loop.
Links(i) == {c \in Chan : /\ IdOf[c] = i
                          /\ \/ reader[c] = "registering"
                             \/ writer[c] = "selecting"}

\* A write pump starts when its read pump does.
PumpsStartTogether ==
  \A c \in Chan : reader[c] \in {"unused", "registering"} => writer[c] = "off"

LinksInv ==
  /\ PumpsStartTogether
  /\ \A i \in Outbound :
       \/ dialing[i] = 1 /\ Links(i) = {}
       \/ dialing[i] = 0 /\ \E c \in Chan : Links(i) = {c}

\* What the end of a write pump does to the links of its peer.
LEMMA StopWritingKeepsLinks ==
  ASSUME ConnTypeOK, LinksInv, NEW c \in Chan,
         writer[c] = "selecting", StopWriting(c)
  PROVE  LinksInv'
<1>1. /\ writer' = [writer EXCEPT ![c] = "stopped"] /\ reader' = reader
      /\ dialing' = [i \in Outbound |-> IF i = IdOf[c] THEN dialing[i] + 1
                                                       ELSE dialing[i]]
  BY DEF StopWriting
<1>2. reader[c] # "registering" BY DEF LinksInv, PumpsStartTogether
<1>3. PumpsStartTogether'
  BY <1>1 DEF LinksInv, PumpsStartTogether, ConnTypeOK
<1>4. ASSUME NEW i \in Outbound
      PROVE  \/ dialing'[i] = 1 /\ Links(i)' = {}
             \/ dialing'[i] = 0 /\ \E d \in Chan : Links(i)' = {d}
  <2>1. Links(i)' = Links(i) \ {c}
    BY <1>1, <1>2 DEF Links, ConnTypeOK
  <2>2. CASE i = IdOf[c]
    <3>1. c \in Links(i) BY <2>2 DEF Links
    <3>2. dialing[i] = 0 /\ Links(i) = {c} BY <3>1 DEF LinksInv
    <3> QED BY <1>1, <2>1, <2>2, <3>2
  <2>3. CASE i # IdOf[c]
    <3>1. c \notin Links(i) BY <2>3 DEF Links
    <3> QED BY <1>1, <2>1, <2>3, <3>1 DEF LinksInv
  <2> QED BY <2>2, <2>3
<1> QED BY <1>3, <1>4 DEF LinksInv

\* Every step keeps one link for each dialled peer.
LEMMA LinksStep ==
  ASSUME ConnTypeOK, LinksInv, [HubNext]_hubVars
  PROVE  LinksInv'
<1>1. CASE UNCHANGED <<reader, writer, dialing>>
  BY <1>1 DEF LinksInv, PumpsStartTogether, Links
<1>2. ASSUME NEW c \in Chan, Accept(c) PROVE LinksInv'
  <2>1. /\ reader' = [reader EXCEPT ![c] = "registering"]
        /\ UNCHANGED <<writer, dialing>> /\ c \in Inbound /\ reader[c] = "unused"
    BY <1>2 DEF Accept
  <2>2. PumpsStartTogether'
    BY <2>1 DEF LinksInv, PumpsStartTogether, ConnTypeOK
  <2>3. \A i \in Outbound : Links(i)' = Links(i)
    BY <2>1 DEF Links, ConnTypeOK, Inbound
  <2> QED BY <2>1, <2>2, <2>3 DEF LinksInv
<1>3. ASSUME NEW c \in Chan, Dial(c) PROVE LinksInv'
  <2>1. /\ reader' = [reader EXCEPT ![c] = "registering"]
        /\ dialing' = [dialing EXCEPT ![IdOf[c]] = @ - 1]
        /\ UNCHANGED writer /\ reader[c] = "unused" /\ dialing[IdOf[c]] > 0
        /\ IdOf[c] \in Outbound
    BY <1>3 DEF Dial, Inbound
  <2>2. PumpsStartTogether'
    BY <2>1 DEF LinksInv, PumpsStartTogether, ConnTypeOK
  <2>3. ASSUME NEW i \in Outbound
        PROVE  \/ dialing'[i] = 1 /\ Links(i)' = {}
               \/ dialing'[i] = 0 /\ \E d \in Chan : Links(i)' = {d}
    <3>1. CASE i = IdOf[c]
      <4>1. dialing[i] = 1 /\ Links(i) = {} BY <2>1, <3>1 DEF LinksInv
      <4>2. Links(i)' = {c} BY <2>1, <3>1, <4>1 DEF Links, ConnTypeOK
      <4> QED BY <2>1, <3>1, <4>1, <4>2 DEF ConnTypeOK
    <3>2. CASE i # IdOf[c]
      <4>1. Links(i)' = Links(i) BY <2>1, <3>2 DEF Links, ConnTypeOK
      <4> QED BY <2>1, <3>2, <4>1 DEF LinksInv, ConnTypeOK
    <3> QED BY <3>1, <3>2
  <2> QED BY <2>2, <2>3 DEF LinksInv
<1>4. ASSUME NEW c \in Chan, Start(c) PROVE LinksInv'
  <2>1. /\ reader' = [reader EXCEPT ![c] = "reading"]
        /\ writer' = [writer EXCEPT ![c] = "selecting"]
        /\ UNCHANGED dialing /\ reader[c] = "registering"
    BY <1>4 DEF Start
  <2>2. PumpsStartTogether'
    BY <2>1 DEF LinksInv, PumpsStartTogether, ConnTypeOK
  <2>3. \A i \in Outbound : Links(i)' = Links(i)
    BY <2>1 DEF Links, ConnTypeOK
  <2> QED BY <2>1, <2>2, <2>3 DEF LinksInv
<1>5. ASSUME NEW c \in Chan, UNCHANGED <<writer, dialing>>,
             reader[c] \notin {"unused", "registering"},
             \E st \in ReaderState \ {"unused", "registering"} :
               reader' = [reader EXCEPT ![c] = st]
      PROVE  LinksInv'
  <2>1. PumpsStartTogether'
    BY <1>5 DEF LinksInv, PumpsStartTogether, ConnTypeOK
  <2>2. \A i \in Outbound : Links(i)' = Links(i)
    BY <1>5 DEF Links, ConnTypeOK
  <2> QED BY <1>5, <2>1, <2>2 DEF LinksInv
<1>6. ASSUME NEW c \in Chan,
             \/ ingestMessage(c) \/ SubmitChange(c) \/ ReadFails(c)
             \/ StopReading(c)
             \/ \E e \in EventWrapper : ReadEvent(c, e)
             \/ \E s \in Subscription : ReadChange(c, s)
      PROVE  LinksInv'
  BY <1>5, <1>6 DEF ingestMessage, SubmitChange, ReadFails, StopReading,
                    ReadEvent, ReadChange, ReaderState
<1>7. ASSUME NEW c \in Chan, WriteFails(c) \/ PingFails(c) \/ TakeExit(c)
      PROVE  LinksInv'
  BY <1>7, StopWritingKeepsLinks DEF WriteFails, PingFails, TakeExit
<1>8. ASSUME \/ Router \/ UNCHANGED hubVars
             \/ \E c \in Chan : WriteMessage(c)
             \/ \E e \in EventWrapper, i \in PostID : Event(e, i)
      PROVE  UNCHANGED <<reader, writer, dialing>>
  BY <1>8 DEF Router, hubVars, conns, WriteMessage, Event
<1> QED BY <1>1, <1>2, <1>3, <1>4, <1>6, <1>7, <1>8
        DEF HubNext, Connect, Fail, Pump, CallNexus

\* Retries never pile up, however often the connections to a peer end.
THEOREM OneLinkCorrect == HubSpec => []OneLinkPerPeer
<1>1. HubInit => LinksInv
  BY DEF HubInit, LinksInv, PumpsStartTogether, Links
<1>2. LinksInv => OneLinkPerPeer
  <2> SUFFICES ASSUME LinksInv, NEW i \in Outbound
               PROVE  dialing[i] + Cardinality(Links(i)) = 1
    BY DEF OneLinkPerPeer, Links
  <2>1. CASE dialing[i] = 1 /\ Links(i) = {}
    BY <2>1, FS_EmptySet
  <2>2. ASSUME NEW c \in Chan, dialing[i] = 0, Links(i) = {c}
        PROVE  dialing[i] + Cardinality(Links(i)) = 1
    <3>1. Cardinality({c}) = 1 BY FS_Singleton
    <3> QED BY <2>2, <3>1
  <2> QED BY <2>1, <2>2 DEF LinksInv
<1> QED BY <1>1, <1>2, LinksStep, ConnTypeCorrect, PTL DEF HubSpec

-----------------------------------------------------------------------------
(***************************************************************************)
(* The registrations of the connections.  A connection object submits its  *)
(* registration before anything else and its deregistration after          *)
(* everything else, and registrationChannel keeps that order.              *)
(***************************************************************************)

\* A pump submits what it may submit.
LEMMA SubmitChangeCalls ==
  ASSUME ConnTypeOK, NEW c \in Chan, SubmitChange(c)
  PROVE  \E rooms \in RoomLists, create \in BOOLEAN :
           ChangeSubscription(c, rooms, create)
<1>1. change[c] \in Seq(Subscription) /\ change[c] # <<>>
  BY DEF ConnTypeOK, SubmitChange
<1>2. Head(change[c]) \in Subscription BY <1>1, HeadTailProperties
<1>3. /\ Head(change[c]).rooms \in RoomLists
      /\ Head(change[c]).create \in BOOLEAN
  BY <1>2 DEF Subscription
<1> QED BY <1>3 DEF SubmitChange

\* What a step of the hub may do to the registrations: nothing, while every
\* reader keeps its phase; submit one change; or apply one.
Phase(c) ==
  CASE reader[c] \in {"unused", "registering"} -> "before"
    [] reader[c] = "stopped" -> "after"
    [] OTHER -> "between"

\* The router's registries and all changes on their way to them.
registration == <<registries, registrationChannel, jobs>>

\* Only three calls of the pumps and the router itself touch a registration, and
\* a connection object changes its phase only with such a call.
LEMMA RegistrationStep ==
  ASSUME ConnTypeOK, [HubNext]_hubVars
  PROVE  \/ UNCHANGED registration /\ \A c \in Chan : Phase(c)' = Phase(c)
         \/ \E c \in Chan : Start(c) \/ SubmitChange(c) \/ StopReading(c)
         \/ /\ ChangePeer \/ StartJob \/ registerMessenger \/ deregisterMessenger
            /\ UNCHANGED conns
<1> USE DEF registration, registries, ConnTypeOK, ReaderState
<1>1. ASSUME NEW c \in Chan, Connect(c)
      PROVE  UNCHANGED registration /\ \A d \in Chan : Phase(d)' = Phase(d)
  BY <1>1 DEF Connect, Accept, Dial, Phase, vars
<1>2. ASSUME NEW c \in Chan, ReadFails(c) \/ ingestMessage(c)
      PROVE  UNCHANGED registration /\ \A d \in Chan : Phase(d)' = Phase(d)
  BY <1>2 DEF ReadFails, ingestMessage, Submit, Phase, vars
<1>3. ASSUME NEW c \in Chan,
             WriteMessage(c) \/ WriteFails(c) \/ PingFails(c) \/ TakeExit(c)
      PROVE  UNCHANGED registration /\ \A d \in Chan : Phase(d)' = Phase(d)
  BY <1>3 DEF WriteMessage, WriteFails, PingFails, TakeExit, StopWriting,
              Receive, Phase, vars, conns
<1>4. ASSUME NEW c \in Chan, NEW e \in EventWrapper, ReadEvent(c, e)
      PROVE  UNCHANGED registration /\ \A d \in Chan : Phase(d)' = Phase(d)
  BY <1>4 DEF ReadEvent, Phase, vars
<1>5. ASSUME NEW c \in Chan, NEW s \in Subscription, ReadChange(c, s)
      PROVE  UNCHANGED registration /\ \A d \in Chan : Phase(d)' = Phase(d)
  BY <1>5 DEF ReadChange, Phase, vars
<1>6. ASSUME NEW e \in EventWrapper, NEW i \in PostID, Event(e, i)
      PROVE  UNCHANGED registration /\ \A d \in Chan : Phase(d)' = Phase(d)
  BY <1>6 DEF Event, Submit, Phase, conns
<1>7. ASSUME Router
      PROVE  \/ UNCHANGED registration /\ \A d \in Chan : Phase(d)' = Phase(d)
             \/ /\ \/ ChangePeer \/ StartJob
                   \/ registerMessenger \/ deregisterMessenger
                /\ UNCHANGED conns
  <2>1. CASE Dispatch
    BY <1>7, <2>1 DEF Router, Dispatch, RouteEvent, SkipAttempt, AdmitAttempt,
                      SendAttempt, Phase, conns
  <2> QED BY <1>7, <2>1 DEF Router, Reregister
<1>8. UNCHANGED hubVars
        => UNCHANGED registration /\ \A d \in Chan : Phase(d)' = Phase(d)
  BY DEF hubVars, vars, conns, Phase
<1> QED BY <1>1, <1>2, <1>3, <1>4, <1>5, <1>6, <1>7, <1>8
        DEF HubNext, Fail, Pump, CallNexus

-----------------------------------------------------------------------------
\* The one registration of a hub or a repeater that dialled this hub is
\* submitted before its frames are read and taken back after them: until then
\* it is on its way or applied.
PeerRegistered ==
  \A c \in Inbound :
    KindOf[IdOf[c]] # Messenger =>
      /\ Phase(c) = "before" =>
           \A r \in Range(registrationChannel) : r.id # IdOf[c]
      /\ Phase(c) = "between" =>
           /\ \A r \in Range(registrationChannel) : r.id = IdOf[c] => r.create
           /\ \/ \E r \in Range(registrationChannel) : r.id = IdOf[c]
              \/ \E x \in Range(Peers(IdOf[c])) : x.id = IdOf[c]

\* An inbound connection has an ID of its own.
LEMMA InboundOwnsID ==
  ASSUME NEW c \in Inbound, NEW d \in Chan, IdOf[d] = IdOf[c]
  PROVE  d = c
BY HubAssumption DEF Inbound

\* A step of a connection keeps the registrations of the peers.
LEMMA ConnectionKeepsPeers ==
  ASSUME TypeOK, ConnTypeOK, PeerRegistered, NEW d \in Chan,
         Start(d) \/ SubmitChange(d) \/ StopReading(d)
  PROVE  PeerRegistered'
<1> SUFFICES ASSUME NEW c \in Inbound, KindOf[IdOf[c]] # Messenger
             PROVE  /\ Phase(c)' = "before" =>
                         \A r \in Range(registrationChannel') : r.id # IdOf[c]
                    /\ Phase(c)' = "between" =>
                         /\ \A r \in Range(registrationChannel') :
                              r.id = IdOf[c] => r.create
                         /\ \/ \E r \in Range(registrationChannel') :
                                 r.id = IdOf[c]
                            \/ \E x \in Range(Peers(IdOf[c])') : x.id = IdOf[c]
  BY DEF PeerRegistered
<1>1. c \in Chan /\ (IdOf[d] = IdOf[c] => d = c) BY InboundOwnsID DEF Inbound
<1>2. d # c => Phase(c)' = Phase(c)
  BY <1>1 DEF Start, SubmitChange, StopReading, Phase, ConnTypeOK
<1>3. ASSUME NEW r \in RegistrationChange, SubmitRegistrationChange(r)
      PROVE  /\ Range(registrationChannel') = Range(registrationChannel) \cup {r}
             /\ Peers(IdOf[c])' = Peers(IdOf[c])
  BY <1>3, ChannelAfterSubmit DEF SubmitRegistrationChange, registries, Peers
<1>4. CASE Start(d)
  <2>1. PICK r \in RegistrationChange :
          SubmitRegistrationChange(r) /\ r.id = IdOf[d] /\ r.create
    BY <1>4, RegisterSubmits DEF Start
  <2>2. d = c => Phase(c) = "before" /\ Phase(c)' = "between"
    BY <1>4 DEF Start, Phase, ConnTypeOK
  <2> QED BY <1>1, <1>2, <1>3, <2>1, <2>2 DEF PeerRegistered
<1>5. CASE SubmitChange(d)
  <2>1. PICK r \in RegistrationChange :
          /\ SubmitRegistrationChange(r) /\ r.id = IdOf[d]
          /\ r.type = KindOf[r.id] /\ r.type = Messenger
    BY <1>5, SubmitChangeCalls, SubscriptionSubmits
  <2>2. d # c BY <2>1
  <2> QED BY <1>1, <1>2, <1>3, <2>1, <2>2 DEF PeerRegistered
<1>6. CASE StopReading(d)
  <2>1. PICK r \in RegistrationChange :
          SubmitRegistrationChange(r) /\ r.id = IdOf[d]
    <3>1. IdOf[d] \in ConnID BY NexusAssumption
    <3> QED BY <1>6, <3>1, DeregisterSubmits DEF StopReading
  <2>2. d = c => Phase(c)' = "after"
    BY <1>6 DEF StopReading, Phase, ConnTypeOK
  <2> QED BY <1>1, <1>2, <1>3, <2>1, <2>2 DEF PeerRegistered
<1> QED BY <1>4, <1>5, <1>6

\* So does a step of the router.
LEMMA RouterKeepsPeers ==
  ASSUME TypeOK, WellNamed, PeerRegistered, UNCHANGED conns,
         ChangePeer \/ StartJob \/ registerMessenger \/ deregisterMessenger
  PROVE  PeerRegistered'
<1>1. \A c \in Chan : Phase(c)' = Phase(c) BY DEF conns, Phase
<1>2. CASE registerMessenger \/ deregisterMessenger
  BY <1>1, <1>2
     DEF registerMessenger, deregisterMessenger, PeerRegistered, Peers, Inbound
<1>3. CASE ChangePeer \/ StartJob
  <2> DEFINE r == Head(registrationChannel)
  <2>1. /\ registrationChannel # <<>>
        /\ registrationChannel' = Tail(registrationChannel)
    BY <1>3 DEF ChangePeer, StartJob
  <2>2. /\ r \in RegistrationChange
        /\ Range(registrationChannel) = {r} \cup Range(registrationChannel')
    BY <2>1, ChannelAfterTake
  <2>3. r.type = KindOf[r.id] BY <2>1, HeadIsProper DEF Proper
  <2>4. ChangePeer =>
          /\ hubRegistry' = IF r.type = Hub THEN Apply(r, hubRegistry)
                                            ELSE hubRegistry
          /\ repeaterRegistry' = IF r.type = Repeater
                                 THEN Apply(r, repeaterRegistry)
                                 ELSE repeaterRegistry
    BY DEF ChangePeer
  <2>5. StartJob => /\ r.type = Messenger
                    /\ UNCHANGED <<hubRegistry, repeaterRegistry>>
    BY DEF StartJob, registries
  <2> HIDE DEF r
  <2>6. ASSUME NEW c \in Inbound, KindOf[IdOf[c]] # Messenger,
               Phase(c) = "between"
        PROVE  \/ \E q \in Range(registrationChannel') : q.id = IdOf[c]
               \/ \E x \in Range(Peers(IdOf[c])') : x.id = IdOf[c]
    <3> DEFINE i == IdOf[c]
               regs == Peers(i)
    <3>1. i \in ConnID /\ KindOf[i] \in {Hub, Repeater}
      BY <2>6, NexusAssumption DEF Inbound, Kind
    <3>2. regs \in Seq(Registration) /\ Distinct(regs)
      BY DEF TypeOK, WellNamed, Peers
    <3>3. regs' = IF ChangePeer /\ r.type = KindOf[i] THEN Apply(r, regs)
                                                      ELSE regs
      BY <1>3, <2>4, <2>5, <3>1 DEF Peers, Hub, Repeater
    <3>4. CASE r.id = i
      <4>1. r.create BY <2>2, <2>6, <3>4 DEF PeerRegistered
      <4>2. ChangePeer /\ r.type = KindOf[i] BY <1>3, <2>3, <2>5, <2>6, <3>4
      <4>3. \E x \in Range(Apply(r, regs)) : x.id = i
        <5> HIDE DEF regs, i
        <5>1. Range(Apply(r, regs)) =
                IF \E x \in Range(regs) : x.id = r.id
                THEN Range(regs)
                ELSE Range(regs) \cup {[id |-> r.id, chan |-> r.chan]}
          BY <2>2, <3>2, <4>1, ApplyEffect
        <5>2. [id |-> r.id, chan |-> r.chan].id = i BY <3>4
        <5>3. CASE \E x \in Range(regs) : x.id = r.id BY <3>4, <5>1, <5>3
        <5>4. CASE ~ \E x \in Range(regs) : x.id = r.id
          <6>1. [id |-> r.id, chan |-> r.chan] \in Range(Apply(r, regs))
            BY <5>1, <5>4
          <6> QED BY <5>2, <6>1
        <5> QED BY <5>3, <5>4
      <4> QED BY <3>3, <4>2, <4>3
    <3>5. CASE r.id # i
      <4>1. \/ \E q \in Range(registrationChannel') : q.id = i
            \/ \E x \in Range(regs) : x.id = i
        BY <2>2, <2>6, <3>5 DEF PeerRegistered
      <4>2. ASSUME NEW x \in Range(regs), x.id = i PROVE x \in Range(regs')
        <5>1. x \in Range(Apply(r, regs))
          <6> HIDE DEF regs, i
          <6>1. r.create \in BOOLEAN BY <2>2 DEF RegistrationChange
          <6> QED BY <2>2, <3>2, <3>5, <4>2, <6>1, ApplyEffect
        <5> QED BY <3>3, <5>1
      <4> QED BY <4>1, <4>2
    <3> QED BY <3>4, <3>5
  <2>7. ASSUME NEW c \in Inbound PROVE Phase(c)' = Phase(c)
    BY <1>1 DEF Inbound
  <2> QED BY <2>2, <2>6, <2>7 DEF PeerRegistered
<1> QED BY <1>2, <1>3

\* A hub or a repeater that is connected stays registered, exactly once.
THEOREM InboundCorrect == HubSpec => []InboundStaysRegistered
<1>1. HubInit => PeerRegistered
  <2> SUFFICES ASSUME HubInit PROVE PeerRegistered OBVIOUS
  <2>1. \A c \in Chan : Phase(c) = "before" BY DEF HubInit, Phase
  <2>2. registrationChannel = <<>> BY DEF HubInit, Init
  <2>3. Range(<<>>) = {} BY DEF Range
  <2> QED BY <2>1, <2>2, <2>3 DEF PeerRegistered, Inbound
<1>2. TypeOK /\ WellNamed /\ ConnTypeOK /\ PeerRegistered /\ [HubNext]_hubVars
        => PeerRegistered'
  <2> SUFFICES ASSUME TypeOK, WellNamed, ConnTypeOK, PeerRegistered,
                      [HubNext]_hubVars
               PROVE  PeerRegistered'
    OBVIOUS
  <2>1. CASE UNCHANGED registration /\ \A c \in Chan : Phase(c)' = Phase(c)
    BY <2>1 DEF PeerRegistered, Peers, registration, registries, Inbound
  <2> QED BY <2>1, RegistrationStep, ConnectionKeepsPeers, RouterKeepsPeers
<1>3. TypeOK /\ WellNamed /\ ConnTypeOK /\ PeerRegistered
        => InboundStaysRegistered
  <2> SUFFICES ASSUME TypeOK, WellNamed, PeerRegistered, NEW c \in Inbound,
                      KindOf[IdOf[c]] # Messenger,
                      reader[c] \in {"reading", "submitting", "deregistering"},
                      Quiet(IdOf[c])
               PROVE  Copies(Peers(IdOf[c]), Entry(c)) = 1
    BY DEF InboundStaysRegistered
  <2> DEFINE regs == Peers(IdOf[c])
  <2>1. regs \in Seq(Registration) /\ Distinct(regs)
        /\ \A x \in Range(regs) : x.id = IdOf[x.chan]
    BY DEF TypeOK, WellNamed, OfKind, Peers
  <2>2. Phase(c) = "between" BY DEF Phase
  <2>3. \A r \in Range(registrationChannel) : r.id # IdOf[c]
    <3>1. registrationChannel \in Seq(RegistrationChange)
      BY DEF TypeOK, Bounded
    <3> QED BY <3>1, RangeEquality DEF Quiet
  <2>4. PICK x \in Range(regs) : x.id = IdOf[c]
    BY <2>2, <2>3 DEF PeerRegistered
  <2> HIDE DEF regs
  <2>5. x \in Registration BY <2>1, <2>4, RangeOfSeq
  <2>6. x.chan = c
    BY <2>1, <2>4, <2>5, InboundOwnsID DEF Registration
  <2>7. x = Entry(c) BY <2>4, <2>5, <2>6 DEF Registration, Entry
  <2>8. PICK k \in 1 .. Len(regs) : regs[k] = x BY <2>1, RangeEquality
  <2>9. Hits(regs, Entry(c)) = {k} BY <2>1, <2>7, <2>8 DEF Hits, Distinct
  <2>10. Cardinality({k}) = 1 BY FS_Singleton
  <2> QED BY <2>9, <2>10 DEF Copies, regs
<1> QED BY <1>1, <1>2, <1>3, ConnTypeCorrect, HubImplementsNexus, TypeCorrect,
           NamesCorrect, PTL DEF HubSpec

-----------------------------------------------------------------------------
\* No registration of channel c is on its way.
NoneWaits(c) ==
  \A r \in Range(registrationChannel) : ~(r.create /\ r.chan = c)

\* The deregistration of channel c waits at place k, behind every one of its
\* registrations.
LeavesAt(k, c) ==
  /\ registrationChannel[k].id = IdOf[c]
  /\ ~registrationChannel[k].create /\ registrationChannel[k].rooms = <<>>
  /\ \A j \in 1 .. Len(registrationChannel) :
       registrationChannel[j].create /\ registrationChannel[j].chan = c => j < k

\* Nobody registers channel c, now or later.
Gone(c) ==
  /\ NoneWaits(c)
  /\ jobs # <<>> => ~(Head(jobs).create /\ Head(jobs).chan = c)
  /\ Unregistered(c)

\* The deregistration of channel c is being applied.
Leaving(c) ==
  /\ NoneWaits(c)
  /\ jobs # <<>>
  /\ Head(jobs).shared /\ Head(jobs).id = IdOf[c]

\* The connection of a stopped read pump is to be deregistered, or it is gone.
StoppedLeaves ==
  \A c \in Chan : Phase(c) = "after" =>
    \/ \E k \in 1 .. Len(registrationChannel) : LeavesAt(k, c)
    \/ Leaving(c)
    \/ Gone(c)

\* A channel is registered iff a registry holds its registration.
LEMMA UnregisteredInRange ==
  ASSUME TypeOK, NEW c \in Chan
  PROVE  Unregistered(c) <=>
           /\ Entry(c) \notin Range(hubRegistry)
           /\ Entry(c) \notin Range(repeaterRegistry)
           /\ \A t \in Topics : Entry(c) \notin Range(messengerRegistry[t])
<1>1. /\ hubRegistry \in Seq(Registration)
      /\ repeaterRegistry \in Seq(Registration)
      /\ \A t \in Topics : messengerRegistry[t] \in Seq(Registration)
  BY DEF TypeOK
<1> QED BY <1>1, HitsInRange DEF Unregistered

\* The same, of the registries after a step.
LEMMA UnregisteredNext ==
  ASSUME TypeOK', NEW c \in Chan,
         Entry(c) \notin Range(hubRegistry'),
         Entry(c) \notin Range(repeaterRegistry'),
         \A t \in Topics : Entry(c) \notin Range(messengerRegistry'[t])
  PROVE  Unregistered(c)'
<1>1. /\ hubRegistry' \in Seq(Registration)
      /\ repeaterRegistry' \in Seq(Registration)
      /\ \A t \in Topics : messengerRegistry'[t] \in Seq(Registration)
  BY DEF TypeOK
<1>2. Entry(c)' = Entry(c) BY DEF Entry
<1> QED BY <1>1, <1>2, HitsInRange DEF Unregistered

\* A change submitted by another connection does not bring a stopped one back.
LEMMA SubmitKeepsStopped ==
  ASSUME TypeOK, StoppedLeaves, NEW c \in Chan, Phase(c) = "after",
         NEW r \in RegistrationChange, SubmitRegistrationChange(r),
         ~(r.create /\ r.chan = c)
  PROVE  \/ \E k \in 1 .. Len(registrationChannel') : LeavesAt(k, c)'
         \/ Leaving(c)'
         \/ Gone(c)'
<1>1. /\ registrationChannel \in Seq(RegistrationChange)
      /\ registrationChannel' = Append(registrationChannel, r)
      /\ UNCHANGED <<registries, jobs>>
  BY DEF TypeOK, Bounded, SubmitRegistrationChange
<1>2. /\ Len(registrationChannel) \in Nat
      /\ Len(registrationChannel') = Len(registrationChannel) + 1
      /\ \A k \in 1 .. Len(registrationChannel) :
           registrationChannel'[k] = registrationChannel[k]
      /\ registrationChannel'[Len(registrationChannel) + 1] = r
  BY <1>1, LenProperties, AppendProperties
<1>3. NoneWaits(c) => NoneWaits(c)' BY ChannelAfterSubmit DEF NoneWaits
<1>4. ASSUME NEW k \in 1 .. Len(registrationChannel), LeavesAt(k, c)
      PROVE  k \in 1 .. Len(registrationChannel') /\ LeavesAt(k, c)'
  BY <1>2, <1>4 DEF LeavesAt
<1>5. Leaving(c) => Leaving(c)' BY <1>1, <1>3 DEF Leaving
<1>6. Gone(c) => Gone(c)' BY <1>1, <1>3 DEF Gone, Unregistered, registries
<1> QED BY <1>4, <1>5, <1>6 DEF StoppedLeaves

\* The deregistration that a read pump submits at its end is behind all of
\* its registrations.
LEMMA StopReadingLeaves ==
  ASSUME TypeOK, NEW c \in Chan, StopReading(c)
  PROVE  \E k \in 1 .. Len(registrationChannel') : LeavesAt(k, c)'
<1>1. PICK r \in RegistrationChange :
        /\ SubmitRegistrationChange(r) /\ r.id = IdOf[c]
        /\ ~r.create /\ r.rooms = <<>>
  <2>1. IdOf[c] \in ConnID BY NexusAssumption
  <2> QED BY <2>1, DeregisterSubmits DEF StopReading
<1>2. /\ registrationChannel \in Seq(RegistrationChange)
      /\ registrationChannel' = Append(registrationChannel, r)
  BY <1>1 DEF TypeOK, Bounded, SubmitRegistrationChange
<1>3. PICK n \in Nat : n = Len(registrationChannel) BY <1>2, LenProperties
<1>4. /\ Len(registrationChannel') = n + 1
      /\ registrationChannel'[n + 1] = r
  BY <1>2, <1>3, AppendProperties
<1>5. LeavesAt(n + 1, c)'
  <2>1. ASSUME NEW j \in 1 .. n + 1, registrationChannel'[j].create
        PROVE  j < n + 1
    BY <1>1, <1>4, <2>1
  <2> QED BY <1>1, <1>4, <2>1 DEF LeavesAt
<1> QED BY <1>4, <1>5

\* When the router takes a change, one that waits further back moves up.
LEMMA TakeMovesUp ==
  ASSUME TypeOK, registrationChannel # <<>>,
         registrationChannel' = Tail(registrationChannel),
         NEW c \in Chan, NEW k \in 1 .. Len(registrationChannel),
         LeavesAt(k, c), k # 1
  PROVE  \E h \in 1 .. Len(registrationChannel') : LeavesAt(h, c)'
<1>1. registrationChannel \in Seq(RegistrationChange) BY DEF TypeOK, Bounded
<1> DEFINE n == Len(registrationChannel)
<1>2. /\ n \in Nat /\ Len(registrationChannel') = n - 1
      /\ \A h \in 1 .. n - 1 : registrationChannel'[h] = registrationChannel[h + 1]
  BY <1>1, RangeTail
<1> HIDE DEF n
<1>3. k - 1 \in 1 .. n - 1 /\ (k - 1) + 1 = k BY <1>2 DEF n
<1>4. registrationChannel'[k - 1] = registrationChannel[k] BY <1>2, <1>3
<1>5. ASSUME NEW j \in 1 .. n - 1,
             registrationChannel'[j].create, registrationChannel'[j].chan = c
      PROVE  j < k - 1
  <2>1. j + 1 \in 1 .. n /\ registrationChannel'[j] = registrationChannel[j + 1]
    BY <1>2
  <2>2. j + 1 < k BY <1>5, <2>1 DEF LeavesAt, n
  <2> QED BY <1>2, <2>2 DEF n
<1>6. LeavesAt(k - 1, c)' BY <1>2, <1>4, <1>5 DEF LeavesAt
<1> QED BY <1>2, <1>3, <1>6

\* When it takes the deregistration itself, no registration waits any more.
LEMMA TakenLeaves ==
  ASSUME TypeOK, registrationChannel # <<>>,
         registrationChannel' = Tail(registrationChannel),
         NEW c \in Chan, LeavesAt(1, c)
  PROVE  /\ NoneWaits(c)'
         /\ Head(registrationChannel).id = IdOf[c]
         /\ ~Head(registrationChannel).create
         /\ Head(registrationChannel).rooms = <<>>
<1>1. registrationChannel \in Seq(RegistrationChange) BY DEF TypeOK, Bounded
<1>2. Head(registrationChannel) = registrationChannel[1]
      /\ Range(registrationChannel') \subseteq Range(registrationChannel)
  BY <1>1, RangeTail
<1>3. Range(registrationChannel) =
        {registrationChannel[j] : j \in 1 .. Len(registrationChannel)}
  BY <1>1, RangeEquality
<1>4. NoneWaits(c)'
  <2> SUFFICES ASSUME NEW r \in Range(registrationChannel),
                      r.create, r.chan = c
               PROVE  FALSE
    BY <1>2 DEF NoneWaits
  <2>1. PICK j \in 1 .. Len(registrationChannel) : r = registrationChannel[j]
    BY <1>3
  <2>2. j < 1 BY <2>1 DEF LeavesAt
  <2> QED BY <2>2
<1> QED BY <1>2, <1>4 DEF LeavesAt

\* A step of a connection leaves the stopped ones on their way out.
LEMMA ConnectionKeepsStopped ==
  ASSUME TypeOK, ConnTypeOK, StoppedLeaves, NEW d \in Chan,
         Start(d) \/ SubmitChange(d) \/ StopReading(d)
  PROVE  StoppedLeaves'
<1> SUFFICES ASSUME NEW c \in Chan, Phase(c)' = "after"
             PROVE  \/ \E k \in 1 .. Len(registrationChannel') : LeavesAt(k, c)'
                    \/ Leaving(c)'
                    \/ Gone(c)'
  BY DEF StoppedLeaves
<1>1. Start(d) \/ SubmitChange(d) => c # d /\ Phase(c) = "after"
  BY DEF Start, SubmitChange, Phase, ConnTypeOK
<1>2. StopReading(d) /\ c # d => Phase(c) = "after"
  BY DEF StopReading, Phase, ConnTypeOK
<1>3. CASE Start(d)
  <2>1. \E r \in RegistrationChange : SubmitRegistrationChange(r) /\ r.chan = d
    BY <1>3, RegisterSubmits DEF Start
  <2> QED BY <1>1, <1>3, <2>1, SubmitKeepsStopped
<1>4. CASE SubmitChange(d)
  <2>1. \E r \in RegistrationChange : SubmitRegistrationChange(r) /\ r.chan = d
    BY <1>4, SubmitChangeCalls, SubscriptionSubmits
  <2> QED BY <1>1, <1>4, <2>1, SubmitKeepsStopped
<1>5. CASE StopReading(d) /\ c # d
  <2>1. \E r \in RegistrationChange : SubmitRegistrationChange(r) /\ ~r.create
    <3>1. IdOf[d] \in ConnID BY NexusAssumption
    <3> QED BY <1>5, <3>1, DeregisterSubmits DEF StopReading
  <2> QED BY <1>2, <1>5, <2>1, SubmitKeepsStopped
<1>6. CASE StopReading(d) /\ c = d BY <1>6, StopReadingLeaves
<1> QED BY <1>3, <1>4, <1>5, <1>6

\* A hub's or a repeater's deregistration, once applied, leaves its channel
\* unregistered; nothing else that is applied at once registers it again.
LEMMA ChangePeerKeepsStopped ==
  ASSUME TypeOK, TypeOK', WellNamed, StoppedLeaves, ChangePeer,
         NEW c \in Chan, Phase(c) = "after"
  PROVE  \/ \E k \in 1 .. Len(registrationChannel') : LeavesAt(k, c)'
         \/ Gone(c)'
<1> DEFINE r == Head(registrationChannel)
<1>1. /\ registrationChannel # <<>>
      /\ registrationChannel' = Tail(registrationChannel)
      /\ jobs = <<>> /\ jobs' = <<>> /\ r.type # Messenger
      /\ hubRegistry' = IF r.type = Hub THEN Apply(r, hubRegistry)
                                        ELSE hubRegistry
      /\ repeaterRegistry' = IF r.type = Repeater
                             THEN Apply(r, repeaterRegistry)
                             ELSE repeaterRegistry
      /\ messengerRegistry' = messengerRegistry
  BY DEF ChangePeer, AtSelect
<1>2. /\ r \in RegistrationChange /\ r.type = KindOf[r.id]
      /\ r.create \in BOOLEAN /\ r.type \in {Hub, Repeater}
      /\ Range(registrationChannel) = {r} \cup Range(registrationChannel')
  <2>1. r \in RegistrationChange
        /\ Range(registrationChannel) = {r} \cup Range(registrationChannel')
    BY <1>1, ChannelAfterTake
  <2>2. r.type = KindOf[r.id] BY <1>1, HeadIsProper DEF Proper
  <2> HIDE DEF r
  <2> QED BY <1>1, <2>1, <2>2 DEF RegistrationChange, Kind
<1>3. /\ hubRegistry \in Seq(Registration) /\ Distinct(hubRegistry)
      /\ repeaterRegistry \in Seq(Registration) /\ Distinct(repeaterRegistry)
      /\ OfKind(hubRegistry, Hub) /\ OfKind(repeaterRegistry, Repeater)
      /\ \A t \in Topics : OfKind(messengerRegistry[t], Messenger)
  BY DEF TypeOK, WellNamed
<1>4. Entry(c).id = IdOf[c] /\ Entry(c).chan = c BY DEF Entry
<1>5. CASE Gone(c)
  <2>1. NoneWaits(c)' /\ ~(r.create /\ r.chan = c)
    BY <1>2, <1>5 DEF Gone, NoneWaits
  <2>2. /\ Entry(c) \notin Range(hubRegistry)
        /\ Entry(c) \notin Range(repeaterRegistry)
        /\ \A t \in Topics : Entry(c) \notin Range(messengerRegistry[t])
    BY <1>5, UnregisteredInRange DEF Gone
  <2> HIDE DEF r
  <2>3. ASSUME NEW regs \in Seq(Registration), Distinct(regs),
               Entry(c) \notin Range(regs)
        PROVE  Entry(c) \notin Range(Apply(r, regs))
    <3>1. [id |-> r.id, chan |-> r.chan].chan = r.chan OBVIOUS
    <3>2. r.create => Range(Apply(r, regs)) \subseteq
                        Range(regs) \cup {[id |-> r.id, chan |-> r.chan]}
      BY <1>2, <2>3, ApplyEffect
    <3>3. ~r.create => Range(Apply(r, regs)) \subseteq Range(regs)
      BY <1>2, <2>3, ApplyEffect
    <3> QED BY <1>2, <1>4, <2>1, <2>3, <3>1, <3>2, <3>3
  <2>4. /\ Entry(c) \notin Range(hubRegistry')
        /\ Entry(c) \notin Range(repeaterRegistry')
        /\ \A t \in Topics : Entry(c) \notin Range(messengerRegistry'[t])
    BY <1>1, <1>3, <2>2, <2>3
  <2>5. Unregistered(c)'
    BY <2>4, UnregisteredNext
  <2> QED BY <1>1, <2>1, <2>5 DEF Gone
<1>6. ASSUME LeavesAt(1, c) PROVE Gone(c)'
  <2>1. /\ NoneWaits(c)' /\ r.id = IdOf[c] /\ ~r.create
    BY <1>1, <1>6, TakenLeaves
  <2> HIDE DEF r
  <2>2. ASSUME NEW regs \in Seq(Registration), Distinct(regs)
        PROVE  Entry(c) \notin Range(Apply(r, regs))
    BY <1>2, <1>4, <2>1, <2>2, ApplyEffect
  <2>3. /\ r.type # Hub => Entry(c) \notin Range(hubRegistry)
        /\ r.type # Repeater => Entry(c) \notin Range(repeaterRegistry)
        /\ \A t \in Topics : Entry(c) \notin Range(messengerRegistry[t])
    BY <1>1, <1>2, <1>3, <1>4, <2>1 DEF OfKind
  <2>4. /\ Entry(c) \notin Range(hubRegistry')
        /\ Entry(c) \notin Range(repeaterRegistry')
        /\ \A t \in Topics : Entry(c) \notin Range(messengerRegistry'[t])
    BY <1>1, <1>3, <2>2, <2>3
  <2>5. Unregistered(c)'
    BY <2>4, UnregisteredNext
  <2> QED BY <1>1, <2>1, <2>5 DEF Gone
<1>7. ~Leaving(c) BY <1>1 DEF Leaving
<1>8. ASSUME NEW k \in 1 .. Len(registrationChannel), LeavesAt(k, c), k # 1
      PROVE  \E h \in 1 .. Len(registrationChannel') : LeavesAt(h, c)'
  BY <1>1, <1>8, TakeMovesUp
<1> QED BY <1>5, <1>6, <1>7, <1>8 DEF StoppedLeaves

\* A messenger's deregistration becomes the job that clears it, or finds
\* nothing to clear.
LEMMA StartJobKeepsStopped ==
  ASSUME TypeOK, WellNamed, IndexMatchesRegistry, StoppedLeaves, StartJob,
         NEW c \in Chan, Phase(c) = "after"
  PROVE  \/ \E k \in 1 .. Len(registrationChannel') : LeavesAt(k, c)'
         \/ Leaving(c)'
         \/ Gone(c)'
<1> DEFINE r == Head(registrationChannel)
           whole == ~r.create /\ r.rooms = <<>>
           rooms == IF whole THEN roomMessengerIndex[r.id] ELSE r.rooms
<1>1. /\ registrationChannel # <<>>
      /\ registrationChannel' = Tail(registrationChannel)
      /\ jobs = <<>> /\ r.type = Messenger
      /\ UNCHANGED registries
  BY DEF StartJob, AtSelect
<1>2. /\ rooms = <<>> => jobs' = <<>>
      /\ jobs' # <<>> => /\ Head(jobs').id = r.id /\ Head(jobs').chan = r.chan
                         /\ Head(jobs').create = r.create
                         /\ Head(jobs').shared = whole
      /\ rooms # <<>> => jobs' # <<>>
  BY DEF StartJob
<1>3. /\ r \in RegistrationChange /\ r.type = KindOf[r.id]
      /\ Range(registrationChannel) = {r} \cup Range(registrationChannel')
  BY <1>1, ChannelAfterTake, HeadIsProper DEF Proper
<1>4. CASE Gone(c)
  <2>1. NoneWaits(c)' /\ ~(r.create /\ r.chan = c)
    BY <1>3, <1>4 DEF Gone, NoneWaits
  <2>2. Unregistered(c)' BY <1>1, <1>4 DEF Gone, Unregistered, registries
  <2> HIDE DEF r
  <2> QED BY <1>2, <2>1, <2>2 DEF Gone
<1>5. ASSUME LeavesAt(1, c) PROVE Leaving(c)' \/ Gone(c)'
  <2>1. /\ NoneWaits(c)' /\ r.id = IdOf[c] /\ whole
    BY <1>1, <1>5, TakenLeaves
  <2>2. CASE jobs' # <<>>
    <3> HIDE DEF r, whole
    <3> QED BY <1>2, <2>1, <2>2 DEF Leaving
  <2>3. CASE jobs' = <<>>
    <3>1. roomMessengerIndex[IdOf[c]] = <<>>
      <4>1. rooms = <<>> BY <1>2, <2>3
      <4>2. rooms = roomMessengerIndex[r.id] BY <2>1
      <4> QED BY <2>1, <4>1, <4>2
    <3>2. IdOf[c] \in ConnID BY NexusAssumption
    <3>3. ASSUME NEW t \in Topics PROVE Entry(c) \notin Range(messengerRegistry[t])
      <4>1. Copies(<<>>, t) = 0
        <5>1. Hits(<<>>, t) = {} BY DEF Hits
        <5> QED BY <5>1, FS_EmptySet DEF Copies
      <4>2. Copies(IDs(messengerRegistry[t]), IdOf[c]) = 0
        BY <3>1, <3>2, <4>1 DEF IndexMatchesRegistry
      <4>3. messengerRegistry[t] \in Seq(Registration) BY DEF TypeOK
      <4>4. IDs(messengerRegistry[t]) \in Seq(ConnID) BY <4>3, IDsType
      <4>5. Hits(IDs(messengerRegistry[t]), IdOf[c]) = {}
        BY <4>2, <4>4, CopiesZero
      <4>6. Entry(c).id = IdOf[c] BY DEF Entry
      <4> QED BY <4>3, <4>5, <4>6, RegisteredInRange
    <3>4. KindOf[Entry(c).id] = Messenger
      BY <1>1, <1>3, <2>1 DEF Entry
    <3>5. /\ Entry(c) \notin Range(hubRegistry)
          /\ Entry(c) \notin Range(repeaterRegistry)
      BY <3>4 DEF WellNamed, OfKind, Messenger, Hub, Repeater
    <3>6. Unregistered(c) BY <3>3, <3>5, UnregisteredInRange
    <3>7. Unregistered(c)' BY <1>1, <3>6 DEF Unregistered, registries
    <3> QED BY <2>1, <2>3, <3>7 DEF Gone
  <2> QED BY <2>2, <2>3
<1>6. ~Leaving(c) BY <1>1 DEF Leaving
<1>7. ASSUME NEW k \in 1 .. Len(registrationChannel), LeavesAt(k, c), k # 1
      PROVE  \E h \in 1 .. Len(registrationChannel') : LeavesAt(h, c)'
  BY <1>1, <1>7, TakeMovesUp
<1> QED BY <1>4, <1>5, <1>6, <1>7 DEF StoppedLeaves

\* The iterations of a change: a registration is not of a stopped connection,
\* and a whole deregistration ends when nothing of its messenger is left.
LEMMA IterationKeepsStopped ==
  ASSUME TypeOK, TypeOK', WellNamed, WellNamed', IndexMatchesRegistry,
         WalkMatchesIndex, StoppedLeaves,
         registerMessenger \/ deregisterMessenger,
         NEW c \in Chan, Phase(c) = "after"
  PROVE  \/ \E k \in 1 .. Len(registrationChannel') : LeavesAt(k, c)'
         \/ Leaving(c)'
         \/ Gone(c)'
<1>1. /\ jobs # <<>>
      /\ UNCHANGED <<hubRegistry, repeaterRegistry, registrationChannel>>
  BY DEF registerMessenger, deregisterMessenger
<1>2. jobs' # <<>> =>
        /\ Head(jobs').id = Head(jobs).id
        /\ Head(jobs').chan = Head(jobs).chan
        /\ Head(jobs').create = Head(jobs).create
        /\ Head(jobs').shared = Head(jobs).shared
  BY IterationKeepsJob
<1>3. NoneWaits(c) => NoneWaits(c)' BY <1>1 DEF NoneWaits
<1>4. ASSUME NEW k \in 1 .. Len(registrationChannel), LeavesAt(k, c)
      PROVE  k \in 1 .. Len(registrationChannel') /\ LeavesAt(k, c)'
  BY <1>1, <1>4 DEF LeavesAt
<1>5. Head(jobs).create \in BOOLEAN
  <2>1. Head(jobs) \in Job
    BY HeadJobType DEF registerMessenger, deregisterMessenger
  <2> QED BY <2>1 DEF Job
<1>6. CASE Gone(c)
  <2>1. /\ Entry(c) \notin Range(hubRegistry)
        /\ Entry(c) \notin Range(repeaterRegistry)
        /\ \A t \in Topics : Entry(c) \notin Range(messengerRegistry[t])
    BY <1>6, UnregisteredInRange DEF Gone
  <2>2. ~(Head(jobs).create /\ Head(jobs).chan = c) BY <1>1, <1>6 DEF Gone
  <2>3. Entry(c).chan = c BY DEF Entry
  <2>4. ASSUME NEW t \in Topics
        PROVE  Entry(c) \notin Range(messengerRegistry'[t])
    <3>1. [id |-> Head(jobs).id, chan |-> Head(jobs).chan].chan
            = Head(jobs).chan
      OBVIOUS
    <3> QED BY <1>5, <2>1, <2>2, <2>3, <3>1, IterationEffect
  <2>5. Unregistered(c)'
    BY <1>1, <2>1, <2>4, UnregisteredNext
  <2> QED BY <1>2, <1>3, <1>6, <2>2, <2>5 DEF Gone
<1>7. CASE Leaving(c)
  <2>1. NoneWaits(c)' /\ Head(jobs).shared /\ Head(jobs).id = IdOf[c]
    BY <1>3, <1>7 DEF Leaving
  <2>2. CASE jobs' # <<>> BY <1>2, <2>1, <2>2 DEF Leaving
  <2>3. CASE jobs' = <<>>
    <3>1. [Next]_vars BY DEF Next, Reregister
    <3>2. \A t \in Topics : ~Registered(IdOf[c], messengerRegistry'[t])
      BY <1>1, <2>1, <2>3, <3>1, WholeEndsClear
    <3>3. ASSUME NEW t \in Topics
          PROVE  Entry(c) \notin Range(messengerRegistry'[t])
      <4>1. messengerRegistry'[t] \in Seq(Registration) BY DEF TypeOK
      <4>2. Hits(IDs(messengerRegistry'[t]), IdOf[c]) = {}
        BY <3>2 DEF Registered
      <4>3. Entry(c).id = IdOf[c] BY DEF Entry
      <4> QED BY <4>1, <4>2, <4>3, RegisteredInRange
    <3>4. KindOf[Entry(c).id] = Messenger
      BY <1>1, <2>1 DEF WellNamed, Entry
    <3>5. /\ Entry(c) \notin Range(hubRegistry')
          /\ Entry(c) \notin Range(repeaterRegistry')
      BY <3>4 DEF WellNamed, OfKind, Messenger, Hub, Repeater
    <3>6. Unregistered(c)'
      BY <3>3, <3>5, UnregisteredNext
    <3> QED BY <2>1, <2>3, <3>6 DEF Gone
  <2> QED BY <2>2, <2>3
<1> QED BY <1>4, <1>6, <1>7 DEF StoppedLeaves

\* Every step leaves the stopped connections on their way out.
LEMMA StoppedStep ==
  ASSUME TypeOK, TypeOK', WellNamed, WellNamed', ConnTypeOK,
         IndexMatchesRegistry, WalkMatchesIndex, StoppedLeaves,
         [HubNext]_hubVars
  PROVE  StoppedLeaves'
<1>1. CASE UNCHANGED registration /\ \A c \in Chan : Phase(c)' = Phase(c)
  BY <1>1 DEF StoppedLeaves, LeavesAt, Leaving, Gone, NoneWaits,
              Unregistered, registration, registries
<1>2. CASE /\ ChangePeer \/ StartJob \/ registerMessenger \/ deregisterMessenger
           /\ UNCHANGED conns
  <2>1. \A c \in Chan : Phase(c)' = Phase(c) BY <1>2 DEF conns, Phase
  <2> QED BY <1>2, <2>1, ChangePeerKeepsStopped, StartJobKeepsStopped,
             IterationKeepsStopped DEF StoppedLeaves
<1> QED BY <1>1, <1>2, RegistrationStep, ConnectionKeepsStopped

\* Once its deregistration is applied, nothing routes to the channel of a
\* connection that has stopped.
THEOREM NoDeadRegistrationCorrect == HubSpec => []NoDeadRegistration
<1>1. HubInit => StoppedLeaves BY DEF HubInit, StoppedLeaves, Phase
<1>2. TypeOK /\ StoppedLeaves => NoDeadRegistration
  <2> SUFFICES ASSUME TypeOK, StoppedLeaves, NEW c \in Chan,
                      reader[c] = "stopped", Quiet(IdOf[c])
               PROVE  Unregistered(c)
    BY DEF NoDeadRegistration
  <2>1. Phase(c) = "after" BY DEF Phase
  <2>2. ~Leaving(c) BY DEF Leaving, Quiet
  <2>3. \A k \in 1 .. Len(registrationChannel) : ~LeavesAt(k, c)
    BY DEF LeavesAt, Quiet
  <2> QED BY <2>1, <2>2, <2>3 DEF StoppedLeaves, Gone
<1> QED BY <1>1, <1>2, StoppedStep, ConnTypeCorrect, HubImplementsNexus, TypeCorrect,
           NamesCorrect, IndexCorrect, WalkCorrect, PTL DEF HubSpec

-----------------------------------------------------------------------------
(***************************************************************************)
(* The order of the events of one source.  An event goes from the hand of  *)
(* a read pump to incomingChannel, into the sends of the router and to the *)
(* write channels; nothing overtakes anything on that way.                 *)
(***************************************************************************)

\* Of one source, nothing in A is later than anything in B.
Precede(A, B) ==
  \A x \in A, y \in B :
    x.event.from = y.event.from => x.event.n <= y.event.n

\* A channel holds the events of each source in their order.
InOrder(s) ==
  \A j, k \in 1 .. Len(s) :
    j < k /\ s[j].event.from = s[k].event.from
    => s[j].event.n <= s[k].event.n

\* n events so far: H in the hands of read pumps, R being routed, q waiting
\* and w on the way out.
Ranked(n, H, R, q, w) ==
  /\ n \in Nat
  /\ \A x \in H \cup R \cup Range(q) : x.event.n \in 0 .. n
  /\ InOrder(q) /\ Precede(Range(q), H)
  /\ Precede(R, R \cup Range(q) \cup H)
  /\ \A d \in Chan :
       /\ \A x \in Range(w[d]) : x.event.n \in 0 .. n
       /\ InOrder(w[d])
       /\ Precede(Range(w[d]), R \cup Range(q) \cup H)

Held == {Head(event[c]) : c \in {x \in Chan : event[x] # <<>>}}
Routed == {a.e : a \in Range(attempts)}

\* A read pump holds an event of its own connection.
HoldsItsOwn ==
  \A c \in Chan : event[c] # <<>> => Head(event[c]).event.from = c

OrderInv ==
  /\ HoldsItsOwn
  /\ Ranked(frames, Held, Routed, incomingChannel, writeChannel)

\* A channel keeps the order when the latest event is added at its end.
LEMMA AppendInOrder ==
  ASSUME NEW S, NEW s \in Seq(S), NEW x \in S, InOrder(s),
         Precede(Range(s), {x})
  PROVE  InOrder(Append(s, x))
<1> DEFINE t == Append(s, x)
           n == Len(s)
<1>1. /\ n \in Nat /\ Len(t) = n + 1
      /\ (\A k \in 1 .. n : t[k] = s[k]) /\ t[n + 1] = x
  BY LenProperties, AppendProperties
<1>2. \A k \in 1 .. n : s[k] \in Range(s)
  BY RangeEquality
<1> HIDE DEF t
<1> SUFFICES ASSUME NEW j \in 1 .. Len(t), NEW k \in 1 .. Len(t), j < k,
                    t[j].event.from = t[k].event.from
             PROVE  t[j].event.n <= t[k].event.n
  BY DEF InOrder, t
<1>3. j \in 1 .. n /\ t[j] = s[j]
  BY <1>1
<1>4. CASE k = n + 1
  BY <1>1, <1>2, <1>3, <1>4 DEF Precede
<1>5. CASE k \in 1 .. n
  BY <1>1, <1>3, <1>5 DEF InOrder
<1> QED BY <1>1, <1>4, <1>5

\* What is left when the first is taken is in order, and not earlier than it.
LEMMA TailInOrder ==
  ASSUME NEW S, NEW s \in Seq(S), s # <<>>, InOrder(s)
  PROVE  InOrder(Tail(s)) /\ Precede({Head(s)}, Range(Tail(s)))
<1> DEFINE t == Tail(s)
           n == Len(s)
<1>1. /\ Head(s) = s[1] /\ t \in Seq(S) /\ n \in Nat /\ n >= 1
      /\ Len(t) = n - 1 /\ \A k \in 1 .. n - 1 : t[k] = s[k + 1]
  BY RangeTail
<1>2. Range(t) = {t[k] : k \in 1 .. n - 1}
  BY <1>1, RangeEquality
<1> HIDE DEF t
<1>3. InOrder(t)
  <2> SUFFICES ASSUME NEW j \in 1 .. Len(t), NEW k \in 1 .. Len(t), j < k,
                      t[j].event.from = t[k].event.from
               PROVE  t[j].event.n <= t[k].event.n
    BY DEF InOrder
  <2>1. j + 1 \in 1 .. n /\ k + 1 \in 1 .. n /\ j + 1 < k + 1
    BY <1>1
  <2>2. t[j] = s[j + 1] /\ t[k] = s[k + 1]
    BY <1>1
  <2> QED BY <2>1, <2>2 DEF InOrder
<1>4. Precede({Head(s)}, Range(t))
  <2> SUFFICES ASSUME NEW k \in 1 .. n - 1,
                      s[1].event.from = t[k].event.from
               PROVE  s[1].event.n <= t[k].event.n
    BY <1>1, <1>2 DEF Precede
  <2>1. k + 1 \in 1 .. n /\ 1 \in 1 .. n /\ 1 < k + 1 /\ t[k] = s[k + 1]
    BY <1>1
  <2> QED BY <2>1 DEF InOrder
<1> QED BY <1>3, <1>4 DEF t

\* The latest event of all comes after everything.
LEMMA LatestComesLast ==
  ASSUME NEW n \in Nat, NEW A, \A x \in A : x.event.n \in 0 .. n,
         NEW y, y.event.n = n + 1
  PROVE  Precede(A, {y})
BY DEF Precede

\* A read pump takes the next event.
LEMMA RankedTake ==
  ASSUME NEW n, NEW H, NEW R, NEW q, NEW w, Ranked(n, H, R, q, w),
         NEW y, y.event.n = n + 1,
         NEW G, G \subseteq H \cup {y}
  PROVE  Ranked(n + 1, G, R, q, w)
<1>1. /\ Precede(Range(q), {y}) /\ Precede(R, {y})
      /\ \A d \in Chan : Precede(Range(w[d]), {y})
  BY LatestComesLast DEF Ranked
<1>2. /\ n \in Nat /\ n + 1 \in Nat
      /\ \A k \in 0 .. n : k \in 0 .. n + 1
      /\ n + 1 \in 0 .. n + 1
  BY DEF Ranked
<1>3. /\ Precede(Range(q), G) /\ Precede(R, R \cup Range(q) \cup G)
      /\ \A d \in Chan : Precede(Range(w[d]), R \cup Range(q) \cup G)
  BY <1>1 DEF Ranked, Precede
<1> QED BY <1>2, <1>3 DEF Ranked

\* An event joins incomingChannel that nothing before it is later than, and
\* nothing in a read pump's hand earlier.
LEMMA RankedSubmit ==
  ASSUME NEW n, NEW H, NEW R, NEW S, NEW q \in Seq(S), NEW w,
         Ranked(n, H, R, q, w),
         NEW x \in S, x.event.n \in 0 .. n,
         Precede(Range(q) \cup R, {x}),
         \A d \in Chan : Precede(Range(w[d]), {x}),
         NEW G, G \subseteq H, Precede({x}, G)
  PROVE  Ranked(n, G, R, Append(q, x), w)
<1>1. Range(Append(q, x)) = Range(q) \cup {x}
  BY RangeAppend
<1>2. InOrder(Append(q, x))
  <2>1. Precede(Range(q), {x}) BY DEF Precede
  <2> QED BY <2>1, AppendInOrder DEF Ranked
<1> DEFINE t == Append(q, x)
<1> HIDE DEF t
<1>3. /\ Precede(Range(t), G)
      /\ Precede(R, R \cup Range(t) \cup G)
      /\ \A d \in Chan : Precede(Range(w[d]), R \cup Range(t) \cup G)
  BY <1>1 DEF Ranked, Precede, t
<1>4. \A y \in G \cup R \cup Range(t) : y.event.n \in 0 .. n
  BY <1>1 DEF Ranked, t
<1> QED BY <1>2, <1>3, <1>4 DEF Ranked, t

\* The oldest event waiting is routed.
LEMMA RankedRoute ==
  ASSUME NEW n, NEW H, NEW S, NEW q \in Seq(S), NEW w, q # <<>>,
         NEW R, Ranked(n, H, R, q, w),
         NEW T, T \subseteq {Head(q)}
  PROVE  Ranked(n, H, T, Tail(q), w)
<1> DEFINE t == Tail(q)
           x == Head(q)
<1>1. Range(q) = {x} \cup Range(t)
  BY RangeTail
<1>2. InOrder(t) /\ Precede({x}, Range(t))
  BY TailInOrder DEF Ranked
<1> HIDE DEF t, x
<1>3. x.event.n \in Nat
  BY <1>1 DEF Ranked
<1>4. Precede({x}, {x})
  BY <1>3 DEF Precede
<1>5. T \subseteq {x} BY DEF x
<1>6. /\ Precede(Range(t), H)
      /\ Precede(T, T \cup Range(t) \cup H)
      /\ \A d \in Chan : Precede(Range(w[d]), T \cup Range(t) \cup H)
  BY <1>1, <1>2, <1>4, <1>5 DEF Ranked, Precede
<1>7. \A y \in H \cup T \cup Range(t) : y.event.n \in 0 .. n
  BY <1>1, <1>5 DEF Ranked
<1> QED BY <1>2, <1>6, <1>7 DEF Ranked, t

\* Sends are given up, and an event routed goes out over one channel.
LEMMA RankedSend ==
  ASSUME NEW n, NEW H, NEW R, NEW q, Ranked(n, H, R, q, writeChannel),
         NEW S, writeChannel \in [Chan -> Seq(S)],
         NEW c \in Chan, NEW x \in R, NEW y \in S, y.event = x.event,
         NEW T, T \subseteq R
  PROVE  Ranked(n, H, T, q,
                [writeChannel EXCEPT ![c] = Append(@, y)])
<1> DEFINE s == writeChannel[c]
           t == Append(s, y)
           w == [writeChannel EXCEPT ![c] = Append(@, y)]
<1>1. s \in Seq(S) /\ w[c] = t /\ \A d \in Chan \ {c} : w[d] = writeChannel[d]
  OBVIOUS
<1>2. Range(t) = Range(s) \cup {y}
  BY <1>1, RangeAppend
<1>3. Precede(Range(s), {y}) /\ Precede({y}, R \cup Range(q) \cup H)
  BY DEF Ranked, Precede
<1>4. InOrder(t)
  <2>1. InOrder(s) BY DEF Ranked
  <2> QED BY <1>1, <1>3, <2>1, AppendInOrder
<1>5. y.event.n \in 0 .. n /\ \A z \in Range(s) : z.event.n \in 0 .. n
  BY DEF Ranked
<1>6. /\ Precede(Range(s), R \cup Range(q) \cup H)
  BY DEF Ranked
<1> HIDE DEF s, t, w
<1>7. /\ Precede(Range(t), T \cup Range(q) \cup H)
      /\ \A z \in Range(t) : z.event.n \in 0 .. n
  BY <1>2, <1>3, <1>5, <1>6 DEF Precede
<1>8. ASSUME NEW d \in Chan
      PROVE  /\ \A z \in Range(w[d]) : z.event.n \in 0 .. n
             /\ InOrder(w[d])
             /\ Precede(Range(w[d]), T \cup Range(q) \cup H)
  <2>1. CASE d = c BY <1>1, <1>4, <1>7, <2>1
  <2>2. CASE d # c BY <1>1, <2>2 DEF Ranked, Precede
  <2> QED BY <2>1, <2>2
<1>9. Precede(T, T \cup Range(q) \cup H)
  BY DEF Ranked, Precede
<1> QED BY <1>8, <1>9 DEF Ranked, w

\* A send is given up.
LEMMA RankedSkip ==
  ASSUME NEW n, NEW H, NEW R, NEW q, NEW w, Ranked(n, H, R, q, w),
         NEW T, T \subseteq R
  PROVE  Ranked(n, H, T, q, w)
<1>1. /\ Precede(T, T \cup Range(q) \cup H)
      /\ \A d \in Chan : Precede(Range(w[d]), T \cup Range(q) \cup H)
  BY DEF Ranked, Precede
<1> QED BY <1>1 DEF Ranked

\* A write pump takes the oldest event of its channel.
LEMMA RankedReceive ==
  ASSUME NEW n, NEW H, NEW R, NEW q, Ranked(n, H, R, q, writeChannel),
         NEW S, writeChannel \in [Chan -> Seq(S)],
         NEW c \in Chan, writeChannel[c] # <<>>
  PROVE  Ranked(n, H, R, q, [writeChannel EXCEPT ![c] = Tail(@)])
<1> DEFINE s == writeChannel[c]
           w == [writeChannel EXCEPT ![c] = Tail(@)]
<1>1. w[c] = Tail(s) /\ \A d \in Chan \ {c} : w[d] = writeChannel[d]
  OBVIOUS
<1>2. Range(s) = {Head(s)} \cup Range(Tail(s)) /\ InOrder(Tail(s))
  <2>1. s \in Seq(S) /\ InOrder(s) BY DEF Ranked
  <2> QED BY <2>1, RangeTail, TailInOrder
<1>3. /\ Precede(Range(s), R \cup Range(q) \cup H)
      /\ \A z \in Range(s) : z.event.n \in 0 .. n
  BY DEF Ranked
<1> HIDE DEF s, w
<1>4. ASSUME NEW d \in Chan
      PROVE  /\ \A z \in Range(w[d]) : z.event.n \in 0 .. n
             /\ InOrder(w[d])
             /\ Precede(Range(w[d]), R \cup Range(q) \cup H)
  <2>1. CASE d = c BY <1>1, <1>2, <1>3, <2>1 DEF Precede
  <2>2. CASE d # c BY <1>1, <2>2 DEF Ranked
  <2> QED BY <2>1, <2>2
<1> QED BY <1>4 DEF Ranked, w

\* Every send that routing an event makes is one of that event.
LEMMA RouteCarries ==
  ASSUME TypeOK, NEW e \in HubEventWrapper
  PROVE  \A a \in Range(Route(e)) : a.e = e
<1> DEFINE A == Guarded(messengerRegistry[e.room], e)
           B == Guarded(messengerRegistry[Star], e)
           H == Guarded(hubRegistry, e)
           T == Twice(hubRegistry, e)
           R == OneRepeater(e)
           O == Outward(e)
           Carry(s) == s \in Seq(Attempt) /\ \A a \in Range(s) : a.e = e
<1>1. \A regs \in Seq(Registration) : Carry(Guarded(regs, e))
  BY GuardedType DEF Guarded, Range
<1>2. Carry(A) /\ Carry(B) /\ Carry(H)
  BY <1>1 DEF HubEventWrapper, Topics, TypeOK
<1>3. Carry(T)
  BY TwiceType DEF Twice, Range, TypeOK
<1>4. Carry(R)
  <2>1. CASE repeaterRegistry = <<>>
    BY <2>1 DEF OneRepeater, Range
  <2>2. CASE repeaterRegistry # <<>>
    <3> DEFINE r == repeaterRegistry[NextRepeater + 1]
               a == [reg |-> r, e |-> e, guarded |-> TRUE]
    <3>1. repeaterRegistry \in Seq(Registration) BY DEF TypeOK
    <3>2. r \in Registration BY <2>2, <3>1, NextRepeaterInRange, ElementOfSeq
    <3>3. a \in Attempt /\ a.e = e BY <3>2 DEF Attempt
    <3>4. R = <<a>> BY <2>2 DEF OneRepeater
    <3> HIDE DEF a, R
    <3>5. <<a>> \in Seq(Attempt) /\ Range(<<a>>) = {a} BY <3>3 DEF Range
    <3> QED BY <3>3, <3>4, <3>5
  <2> QED BY <2>1, <2>2
<1> HIDE DEF A, B, H, T, R
<1>5. ASSUME NEW s, NEW t, Carry(s), Carry(t) PROVE Carry(s \o t)
  <2>1. s \o t \in Seq(Attempt) BY <1>5, ConcatProperties
  <2>2. Range(s \o t) = Range(s) \cup Range(t) BY <1>5, RangeConcatenation
  <2> QED BY <1>5, <2>1, <2>2
<1>6. Carry(<<>>)
  BY DEF Range
<1>7. Carry(H \o R) BY <1>2, <1>4, <1>5
<1>8. Carry(O)
  BY <1>3, <1>6, <1>7 DEF Outward, H, T, R, Messenger, Repeater
<1> HIDE DEF O
<1>9. Carry((A \o B) \o O)
  <2> HIDE DEF Carry
  <2> QED BY <1>2, <1>5, <1>8
<1> QED BY <1>9 DEF Route, A, B, O

\* What a bounded instance sends is an event.
LEMMA FrameIsEvent ==
  ASSUME Frame, frames \in Nat, NEW r \in Rooms, NEW f \in Chan \cup PostID
  PROVE  [room |-> r, event |-> [from |-> f, n |-> frames']] \in EventWrapper
<1>1. frames' \in 1 .. MaxFrames
  BY MCHubAssumption DEF Frame
<1>2. [from |-> f, n |-> frames'] \in Payload
  BY <1>1, MCHubAssumption DEF MCPayload
<1> QED BY <1>2 DEF EventWrapper

\* Everything a bounded instance does, the hub may do.
LEMMA MCStepIsHubStep ==
  ASSUME frames \in Nat, [MCNext]_mcVars
  PROVE  [HubNext]_hubVars
<1>1. CASE UNCHANGED mcVars
  BY <1>1 DEF mcVars
<1>2. CASE Frame
  BY <1>2, FrameIsEvent DEF Frame, HubNext
<1>3. CASE Subscribe
  BY <1>3 DEF Subscribe, HubNext
<1>4. CASE Step \/ Router
  BY <1>4 DEF Step, Join, HubNext
<1> QED BY <1>1, <1>2, <1>3, <1>4 DEF MCNext

\* The bounded hubs are hubs.
LEMMA MCImpliesHub == MCSpec => HubSpec /\ [](frames \in Nat)
<1>1. MCInit => HubInit /\ frames \in Nat
  BY DEF MCInit
<1>2. frames \in Nat /\ [MCNext]_mcVars => (frames \in Nat)'
  BY DEF MCNext, Frame, Subscribe, mcVars
<1>3. frames \in Nat /\ [MCNext]_mcVars => [HubNext]_hubVars
  BY MCStepIsHubStep
<1> QED BY <1>1, <1>2, <1>3, PTL DEF MCSpec, HubSpec

-----------------------------------------------------------------------------
(***************************************************************************)
(* The steps that move events, and those that do not.                      *)
(***************************************************************************)

\* A frame is read, from a connection or from an HTTP client.
LEMMA FrameKeepsOrder ==
  ASSUME HubTypeOK, OrderInv, Frame
  PROVE  OrderInv'
<1>1. frames' = frames + 1 /\ frames \in Nat
  BY DEF Frame, OrderInv, Ranked
<1>2. ASSUME NEW r \in Rooms, NEW c \in Chan,
             ReadEvent(c, [room |-> r,
                           event |-> [from |-> c, n |-> frames']])
      PROVE  OrderInv'
  <2> DEFINE y == [room |-> r, event |-> [from |-> c, n |-> frames']]
  <2>1. y.event.n = frames + 1 /\ y.event.from = c
    BY <1>1
  <2>2. /\ event' = [event EXCEPT ![c] = <<y>>]
        /\ event \in [Chan -> Seq(EventWrapper)]
        /\ UNCHANGED <<attempts, incomingChannel, writeChannel>>
    BY <1>2 DEF ReadEvent, vars, HubTypeOK, ConnTypeOK
  <2> HIDE DEF y
  <2>3. Head(<<y>>) = y
    OBVIOUS
  <2>4. /\ \A d \in Chan \ {c} : event'[d] = event[d]
        /\ event'[c] = <<y>>
    BY <2>2
  <2>5. HoldsItsOwn'
    BY <2>1, <2>3, <2>4 DEF OrderInv, HoldsItsOwn
  <2>6. Held' \subseteq Held \cup {y}
    BY <2>3, <2>4 DEF Held
  <2>7. Routed' = Routed
    BY <2>2 DEF Routed
  <2>8. Ranked(frames + 1, Held', Routed, incomingChannel, writeChannel)
    BY <2>1, <2>6, RankedTake DEF OrderInv
  <2> QED BY <1>1, <2>2, <2>5, <2>7, <2>8 DEF OrderInv
<1>3. ASSUME NEW r \in Rooms, NEW i \in PostID,
             Event([room |-> r, event |-> [from |-> i, n |-> frames']], i)
      PROVE  OrderInv'
  <2> DEFINE x == [room |-> r, event |-> [from |-> i, n |-> frames'],
                   source |-> KindOf[i], sourceID |-> i]
  <2>1. x.event.n = frames + 1 /\ x.event.from = i
    BY <1>1
  <2>2. /\ incomingChannel' = Append(incomingChannel, x)
        /\ UNCHANGED <<event, attempts, writeChannel>>
    BY <1>3 DEF Event, Submit, conns, dispatch
  <2>3. x \in HubEventWrapper
    <3>1. [from |-> i, n |-> frames'] \in Payload
      BY <1>1, FrameIsEvent DEF EventWrapper
    <3>2. i \in ConnID /\ KindOf[i] \in Kind
      BY HubAssumption, NexusAssumption
    <3> QED BY <3>1, <3>2 DEF HubEventWrapper
  <2>4. incomingChannel \in Seq(HubEventWrapper)
    BY DEF HubTypeOK, TypeOK, Bounded
  <2> HIDE DEF x
  <2>5. Ranked(frames + 1, Held, Routed, incomingChannel, writeChannel)
    BY <2>1, RankedTake DEF OrderInv
  <2>6. /\ Precede(Range(incomingChannel) \cup Routed, {x})
        /\ \A d \in Chan : Precede(Range(writeChannel[d]), {x})
    BY <1>1, <2>1, LatestComesLast DEF OrderInv, Ranked
  <2>7. Precede({x}, Held)
    BY <2>1, MCHubAssumption DEF OrderInv, HoldsItsOwn, Held, Precede
  <2>8. x.event.n \in 0 .. frames + 1
    BY <1>1, <2>1
  <2>9. Ranked(frames + 1, Held, Routed, Append(incomingChannel, x),
               writeChannel)
    BY <2>3, <2>4, <2>5, <2>6, <2>7, <2>8, RankedSubmit
  <2>10. Held' = Held /\ Routed' = Routed /\ HoldsItsOwn'
    BY <2>2 DEF OrderInv, HoldsItsOwn, Held, Routed
  <2> QED BY <1>1, <2>2, <2>9, <2>10 DEF OrderInv
<1> QED BY <1>2, <1>3 DEF Frame

\* A read pump hands its event to the router.
LEMMA IngestKeepsOrder ==
  ASSUME HubTypeOK, OrderInv, NEW c \in Chan, ingestMessage(c),
         frames' = frames
  PROVE  OrderInv'
<1> DEFINE h == Head(event[c])
           x == [room |-> h.room, event |-> h.event,
                 source |-> KindOf[IdOf[c]], sourceID |-> IdOf[c]]
<1>1. event \in [Chan -> Seq(EventWrapper)] /\ event[c] # <<>>
  BY DEF ingestMessage, HubTypeOK, ConnTypeOK
<1>2. h \in EventWrapper
  BY <1>1
<1>3. x \in HubEventWrapper
  BY <1>2, NexusAssumption DEF EventWrapper, HubEventWrapper
<1>4. /\ incomingChannel' = Append(incomingChannel, x)
      /\ event' = [event EXCEPT ![c] = <<>>]
      /\ UNCHANGED <<attempts, writeChannel>>
  BY DEF ingestMessage, Submit, dispatch
<1>5. incomingChannel \in Seq(HubEventWrapper)
  BY DEF HubTypeOK, TypeOK, Bounded
<1>6. h \in Held /\ h.event.from = c /\ x.event = h.event
  BY <1>1 DEF Held, OrderInv, HoldsItsOwn
<1> HIDE DEF h, x
<1>7. /\ Precede(Range(incomingChannel) \cup Routed, {x})
      /\ \A d \in Chan : Precede(Range(writeChannel[d]), {x})
      /\ x.event.n \in 0 .. frames
  BY <1>6 DEF OrderInv, Ranked, Precede
<1>8. Held' \subseteq Held /\ HoldsItsOwn'
  BY <1>1, <1>4 DEF Held, OrderInv, HoldsItsOwn
<1>9. Precede({x}, Held')
  <2>1. ASSUME NEW y \in Held' PROVE y.event.from # c
    <3>1. PICK d \in Chan : event'[d] # <<>> /\ y = Head(event'[d])
      BY <2>1 DEF Held
    <3>2. d # c
      BY <1>1, <1>4, <3>1
    <3> QED BY <1>8, <3>1, <3>2 DEF HoldsItsOwn
  <2> QED BY <1>6, <2>1 DEF Precede
<1>10. Ranked(frames, Held', Routed, Append(incomingChannel, x), writeChannel)
  BY <1>3, <1>5, <1>7, <1>8, <1>9, RankedSubmit DEF OrderInv
<1>11. Routed' = Routed
  BY <1>4 DEF Routed
<1> QED BY <1>4, <1>8, <1>10, <1>11 DEF OrderInv

\* The router takes the next event, gives up a send or makes one.
LEMMA DispatchKeepsOrder ==
  ASSUME HubTypeOK, OrderInv, Dispatch, UNCHANGED <<frames, event>>
  PROVE  OrderInv'
<1>1. /\ incomingChannel \in Seq(HubEventWrapper)
      /\ writeChannel \in [Chan -> Seq(EventWrapper)]
      /\ attempts \in Seq(Attempt)
      /\ TypeOK
  BY DEF HubTypeOK, TypeOK, Bounded
<1>2. Held' = Held /\ HoldsItsOwn'
  BY DEF Held, OrderInv, HoldsItsOwn
<1>3. CASE RouteEvent
  <2> PICK e : e = Head(incomingChannel)
    OBVIOUS
  <2>1. /\ incomingChannel # <<>>
        /\ attempts' = Route(e)
        /\ incomingChannel' = Tail(incomingChannel)
        /\ writeChannel' = writeChannel
    BY <1>3 DEF RouteEvent
  <2>2. e \in HubEventWrapper
    BY <1>1, <2>1
  <2>3. Routed' \subseteq {e}
    BY <1>1, <2>1, <2>2, RouteCarries DEF Routed
  <2>4. Ranked(frames, Held, Routed', Tail(incomingChannel), writeChannel)
    BY <1>1, <2>1, <2>3, RankedRoute DEF OrderInv
  <2> QED BY <1>2, <2>1, <2>4 DEF OrderInv
<1>4. CASE SkipAttempt
  <2>1. /\ attempts # <<>> /\ attempts' = Tail(attempts)
        /\ UNCHANGED <<incomingChannel, writeChannel>>
    BY <1>4 DEF SkipAttempt
  <2>2. Routed' \subseteq Routed
    BY <1>1, <2>1, RangeTail DEF Routed
  <2>3. Ranked(frames, Held, Routed', incomingChannel, writeChannel)
    BY <2>2, RankedSkip DEF OrderInv
  <2> QED BY <1>2, <2>1, <2>3 DEF OrderInv
<1>5. CASE AdmitAttempt
  BY <1>2, <1>5 DEF AdmitAttempt, OrderInv, Routed
<1>6. CASE SendAttempt
  <2> PICK a : a = Head(attempts)
    OBVIOUS
  <2> DEFINE c == a.reg.chan
             y == [room |-> a.e.room, event |-> a.e.event]
  <2>1. /\ attempts # <<>> /\ attempts' = Tail(attempts)
        /\ writeChannel' = [writeChannel EXCEPT ![c] = Append(@, y)]
        /\ incomingChannel' = incomingChannel
    BY <1>6 DEF SendAttempt
  <2>2. a \in Attempt /\ a \in Range(attempts)
        /\ Range(Tail(attempts)) \subseteq Range(attempts)
    BY <1>1, <2>1, RangeTail
  <2>3. /\ c \in Chan /\ y \in EventWrapper /\ y.event = a.e.event
    BY <2>2 DEF Attempt, Registration, HubEventWrapper, EventWrapper
  <2>4. a.e \in Routed /\ Routed' \subseteq Routed
    BY <2>1, <2>2 DEF Routed
  <2> HIDE DEF c, y
  <2>5. Ranked(frames, Held, Routed', incomingChannel, writeChannel')
    BY <1>1, <2>1, <2>3, <2>4, RankedSend DEF OrderInv
  <2> QED BY <1>2, <2>1, <2>5 DEF OrderInv
<1> QED BY <1>3, <1>4, <1>5, <1>6 DEF Dispatch

\* A write pump receives.
LEMMA ReceiveKeepsOrder ==
  ASSUME HubTypeOK, OrderInv, NEW c \in Chan, Receive(c),
         UNCHANGED <<frames, event>>
  PROVE  OrderInv'
<1>1. /\ writeChannel \in [Chan -> Seq(EventWrapper)]
      /\ writeChannel[c] # <<>>
      /\ writeChannel' = [writeChannel EXCEPT ![c] = Tail(@)]
      /\ UNCHANGED <<attempts, incomingChannel>>
  BY DEF Receive, HubTypeOK, TypeOK, dispatch
<1>2. Ranked(frames, Held, Routed, incomingChannel, writeChannel')
  BY <1>1, RankedReceive DEF OrderInv
<1>3. Held' = Held /\ Routed' = Routed /\ HoldsItsOwn'
  BY <1>1 DEF Held, Routed, OrderInv, HoldsItsOwn
<1> QED BY <1>1, <1>2, <1>3 DEF OrderInv

\* Every step of a bounded instance keeps the order.
LEMMA MCNextKeepsOrder ==
  ASSUME HubTypeOK, OrderInv, [MCNext]_mcVars
  PROVE  OrderInv'
<1>1. CASE UNCHANGED <<frames, event, attempts, incomingChannel, writeChannel>>
  BY <1>1 DEF OrderInv, HoldsItsOwn, Held, Routed
<1>2. CASE UNCHANGED mcVars
  BY <1>1, <1>2 DEF mcVars, hubVars, vars, conns
<1>3. CASE Frame
  BY <1>3, FrameKeepsOrder
<1>4. CASE Subscribe
  BY <1>1, <1>4 DEF Subscribe, ReadChange, vars
<1>5. ASSUME NEW c \in Chan, Connect(c) \/ Fail(c) \/ Pump(c),
             UNCHANGED frames
      PROVE  OrderInv'
  <2>1. CASE \/ Connect(c) \/ ReadFails(c) \/ PingFails(c) \/ TakeExit(c)
    BY <1>1, <1>5, <2>1
    DEF Connect, Accept, Dial, ReadFails, PingFails, TakeExit, StopWriting,
        vars
  <2>2. CASE Start(c) \/ SubmitChange(c) \/ StopReading(c)
    BY <1>1, <1>5, <2>2
    DEF Start, SubmitChange, StopReading, RegisterConnection,
        DeregisterConnection, ChangeSubscription, SubmitRegistrationChange,
        dispatch
  <2>3. CASE ingestMessage(c)
    BY <1>5, <2>3, IngestKeepsOrder
  <2>4. CASE WriteMessage(c) \/ WriteFails(c)
    BY <1>5, <2>4, ReceiveKeepsOrder
    DEF WriteMessage, WriteFails, StopWriting, conns
  <2> QED BY <1>5, <2>1, <2>2, <2>3, <2>4 DEF Fail, Pump, CallNexus
<1>6. CASE Router /\ UNCHANGED frames
  <2>1. CASE Dispatch
    BY <1>6, <2>1, DispatchKeepsOrder DEF Router, conns
  <2>2. CASE Reregister
    BY <1>1, <1>6, <2>2
    DEF Router, conns, Reregister, ChangePeer, StartJob, registerMessenger,
        deregisterMessenger, dispatch
  <2> QED BY <1>6, <2>1, <2>2 DEF Router
<1> QED BY <1>2, <1>3, <1>4, <1>5, <1>6 DEF MCNext, Step, Join

\* Whatever the connections and the router do, no connection gets two events of
\* one source in the wrong order: the channels keep it, a read pump holds one
\* event at a time, and the router has done with one before it takes the next.
THEOREM PerSourceOrderCorrect == MCSpec => []PerSourceOrder
<1>1. MCInit => OrderInv
  <2> SUFFICES ASSUME MCInit PROVE OrderInv
    OBVIOUS
  <2>1. /\ frames = 0 /\ attempts = <<>> /\ incomingChannel = <<>>
        /\ \A c \in Chan : event[c] = <<>> /\ writeChannel[c] = <<>>
    BY DEF MCInit, HubInit, Init
  <2>2. Range(<<>>) = {}
    BY DEF Range
  <2>3. Held = {} /\ Routed = {} /\ HoldsItsOwn
    BY <2>1, <2>2 DEF Held, Routed, HoldsItsOwn
  <2>4. InOrder(<<>>)
    BY DEF InOrder
  <2> QED BY <2>1, <2>2, <2>3, <2>4 DEF OrderInv, Ranked, Precede
<1>2. HubTypeOK /\ OrderInv /\ [MCNext]_mcVars => OrderInv'
  BY MCNextKeepsOrder
<1>3. OrderInv => PerSourceOrder
  BY DEF OrderInv, Ranked, InOrder, PerSourceOrder
<1> QED BY <1>1, <1>2, <1>3, MCImpliesHub, HubSafety, PTL DEF MCSpec
=============================================================================
