---------------------------- MODULE NexusProofs ----------------------------
(***************************************************************************)
(* Theorems about module Nexus, for every set of rooms and connections,    *)
(* every capacity and every client: the types, the registries and their    *)
(* index, a whole deregistration, admitted sends, and who is registered    *)
(* where.                                                                  *)
(***************************************************************************)
EXTENDS Nexus, SliceTheorems

-----------------------------------------------------------------------------
(***************************************************************************)
(* The types.                                                              *)
(***************************************************************************)

\* The slice of IDs of a registry, and what appending and removing do to it.
LEMMA IDsType ==
  ASSUME NEW regs \in Seq(Registration)
  PROVE  /\ IDs(regs) \in Seq(ConnID)
         /\ Len(IDs(regs)) = Len(regs)
         /\ \A k \in 1 .. Len(regs) : IDs(regs)[k] = regs[k].id
<1>1. Len(regs) \in Nat BY LenProperties
<1>2. \A k \in 1 .. Len(regs) : regs[k] \in Registration BY ElementOfSeq
<1>3. IDs(regs) \in [1 .. Len(regs) -> ConnID]
  BY <1>2 DEF IDs, Registration
<1>4. IDs(regs) \in Seq(ConnID) /\ Len(IDs(regs)) = Len(regs)
  BY <1>1, <1>3, FunctionIsSeq
<1> QED BY <1>4 DEF IDs

\* append(registry, r) appends r's ID to the IDs.
LEMMA IDsAppend ==
  ASSUME NEW regs \in Seq(Registration), NEW r \in Registration
  PROVE  IDs(Append(regs, r)) = Append(IDs(regs), r.id)
<1> DEFINE n == Len(regs)
<1>1. n \in Nat BY LenProperties
<1>2. Append(regs, r) \in Seq(Registration) BY AppendProperties
<1>3. /\ Len(Append(regs, r)) = n + 1
      /\ \A k \in 1 .. n : Append(regs, r)[k] = regs[k]
      /\ Append(regs, r)[n + 1] = r
  BY AppendProperties
<1>4. r.id \in ConnID BY DEF Registration
<1>5. IDs(regs) \in Seq(ConnID) /\ Len(IDs(regs)) = n
      /\ \A k \in 1 .. n : IDs(regs)[k] = regs[k].id
  BY IDsType
<1>6. /\ Append(IDs(regs), r.id) \in Seq(ConnID)
      /\ Len(Append(IDs(regs), r.id)) = n + 1
      /\ \A k \in 1 .. n : Append(IDs(regs), r.id)[k] = IDs(regs)[k]
      /\ Append(IDs(regs), r.id)[n + 1] = r.id
  BY <1>4, <1>5, AppendProperties
<1>7. /\ IDs(Append(regs, r)) \in Seq(ConnID)
      /\ Len(IDs(Append(regs, r))) = n + 1
      /\ \A k \in 1 .. n + 1 :
           IDs(Append(regs, r))[k] = Append(regs, r)[k].id
  BY <1>2, <1>3, IDsType
<1>8. \A k \in 1 .. n + 1 :
        IDs(Append(regs, r))[k] = Append(IDs(regs), r.id)[k]
  BY <1>1, <1>3, <1>5, <1>6, <1>7
<1> QED BY <1>6, <1>7, <1>8, SeqEqual

\* Removing a registration removes its ID in the same way.
LEMMA IDsSwapRemove ==
  ASSUME NEW regs \in Seq(Registration), NEW i \in 1 .. Len(regs)
  PROVE  IDs(SwapRemove(regs, i)) = SwapRemove(IDs(regs), i)
<1> DEFINE n == Len(regs)
           rest == SwapRemove(regs, i)
           ids == IDs(regs)
           left == SwapRemove(ids, i)
<1>1. n \in Nat /\ n >= 1 BY LenProperties
<1>2. /\ rest \in Seq(Registration)
      /\ Len(rest) = n - 1
      /\ \A k \in 1 .. n - 1 : rest[k] = IF k = i THEN regs[n] ELSE regs[k]
  BY SwapRemoveType
<1>3. /\ ids \in Seq(ConnID)
      /\ Len(ids) = n
      /\ \A k \in 1 .. n : ids[k] = regs[k].id
  BY IDsType
<1>4. i \in 1 .. Len(ids) BY <1>3
<1>5. /\ left \in Seq(ConnID)
      /\ Len(left) = Len(ids) - 1
      /\ \A k \in 1 .. Len(ids) - 1 :
           left[k] = IF k = i THEN ids[Len(ids)] ELSE ids[k]
  <2>1. ids \in Seq(ConnID) BY <1>3
  <2> HIDE DEF ids
  <2> QED BY <1>4, <2>1, SwapRemoveType
<1>6. /\ IDs(rest) \in Seq(ConnID)
      /\ Len(IDs(rest)) = Len(rest)
      /\ \A k \in 1 .. Len(rest) : IDs(rest)[k] = rest[k].id
  <2> HIDE DEF rest
  <2> QED BY <1>2, IDsType
<1>7. ASSUME NEW k \in 1 .. n - 1 PROVE IDs(rest)[k] = left[k]
  <2> HIDE DEF rest, ids, left
  <2>1. k \in 1 .. n /\ n \in 1 .. n BY <1>1
  <2>2. IDs(rest)[k] = rest[k].id BY <1>2, <1>6
  <2>3. left[k] = IF k = i THEN ids[n] ELSE ids[k] BY <1>3, <1>5
  <2> QED BY <1>2, <1>3, <2>1, <2>2, <2>3
<1>8. Len(IDs(rest)) = Len(left) /\ Len(left) = n - 1
  BY <1>2, <1>3, <1>5, <1>6
<1>9. /\ IDs(rest) \in Seq(ConnID) /\ left \in Seq(ConnID)
      /\ Len(IDs(rest)) = Len(left)
      /\ \A k \in 1 .. Len(IDs(rest)) : IDs(rest)[k] = left[k]
  <2> HIDE DEF rest, ids, left
  <2> QED BY <1>5, <1>6, <1>7, <1>8
<1>10. IDs(rest) = left
  <2> HIDE DEF rest, ids, left
  <2> QED BY <1>9, SeqEqual
<1> QED BY <1>10

-----------------------------------------------------------------------------
(***************************************************************************)
(* Type correctness.                                                       *)
(***************************************************************************)

\* A channel that has room stays within its capacity when a value is sent.
LEMMA BoundedAppend ==
  ASSUME NEW T, NEW n \in Nat, NEW s, Bounded(s, T, n), Len(s) < n,
         NEW e \in T
  PROVE  Bounded(Append(s, e), T, n)
<1>1. s \in Seq(T) BY DEF Bounded
<1>2. Append(s, e) \in Seq(T) /\ Len(Append(s, e)) = Len(s) + 1
  BY <1>1, AppendProperties
<1>3. Len(s) \in Nat BY <1>1, LenProperties
<1> QED BY <1>2, <1>3 DEF Bounded

\* A receive takes a value of the channel's type and leaves the rest.
LEMMA BoundedTail ==
  ASSUME NEW T, NEW n \in Nat, NEW s, Bounded(s, T, n), s # <<>>
  PROVE  Head(s) \in T /\ Bounded(Tail(s), T, n)
<1>1. s \in Seq(T) /\ Len(s) <= n BY DEF Bounded
<1>2. /\ Head(s) \in T
      /\ Tail(s) \in Seq(T)
      /\ Len(Tail(s)) = Len(s) - 1
  BY <1>1, HeadTailProperties
<1>3. Len(s) \in Nat BY <1>1, LenProperties
<1> QED BY <1>1, <1>2, <1>3 DEF Bounded

\* What a change leaves of a registry is a registry.
LEMMA ApplyType ==
  ASSUME NEW r \in RegistrationChange, NEW regs \in Seq(Registration)
  PROVE  Apply(r, regs) \in Seq(Registration)
<1>1. r.id \in ConnID /\ r.create \in BOOLEAN
      /\ (r.create => r.chan \in Chan)
  BY DEF RegistrationChange
<1>2. IDs(regs) \in Seq(ConnID) /\ Len(IDs(regs)) = Len(regs) BY IDsType
<1>3. CASE r.create
  <2>1. [id |-> r.id, chan |-> r.chan] \in Registration
    BY <1>1, <1>3 DEF Registration
  <2>2. Append(regs, [id |-> r.id, chan |-> r.chan]) \in Seq(Registration)
    BY <2>1, AppendProperties
  <2> QED BY <1>3, <2>2 DEF Apply, addToRegistration
<1>4. CASE ~r.create
  <2>1. CASE Hits(IDs(regs), r.id) # {}
    <3>1. FirstHit(IDs(regs), r.id) \in 1 .. Len(regs)
      BY <1>2, <2>1, FirstHitFinds
    <3>2. SwapRemove(regs, FirstHit(IDs(regs), r.id)) \in Seq(Registration)
      BY <3>1, SwapRemoveType
    <3> QED BY <1>4, <2>1, <3>2 DEF Apply, removeFromRegistration
  <2> QED BY <1>4, <2>1 DEF Apply, removeFromRegistration
<1> QED BY <1>1, <1>3, <1>4

\* The sends an event is routed to.
LEMMA GuardedType ==
  ASSUME NEW regs \in Seq(Registration), NEW e \in HubEventWrapper
  PROVE  Guarded(regs, e) \in Seq(Attempt)
<1>1. Len(regs) \in Nat BY LenProperties
<1>2. \A k \in 1 .. Len(regs) : regs[k] \in Registration BY ElementOfSeq
<1>3. Guarded(regs, e) \in [1 .. Len(regs) -> Attempt]
  BY <1>2 DEF Guarded, Attempt
<1> QED BY <1>1, <1>3, FunctionIsSeq

\* The two sends to each hub are attempts of the router.
LEMMA TwiceType ==
  ASSUME NEW regs \in Seq(Registration), NEW e \in HubEventWrapper
  PROVE  Twice(regs, e) \in Seq(Attempt)
<1>1. Len(regs) \in Nat /\ 2 * Len(regs) \in Nat BY LenProperties
<1>2. ASSUME NEW k \in 1 .. 2 * Len(regs)
      PROVE  [reg |-> regs[(k + 1) \div 2], e |-> e, guarded |-> k % 2 = 0]
               \in Attempt
  <2>1. (k + 1) \div 2 \in 1 .. Len(regs) BY <1>1
  <2>2. regs[(k + 1) \div 2] \in Registration BY <2>1, ElementOfSeq
  <2> QED BY <2>2 DEF Attempt
<1>3. Twice(regs, e) \in [1 .. 2 * Len(regs) -> Attempt]
  BY <1>2 DEF Twice
<1> QED BY <1>1, <1>3, FunctionIsSeq

\* The round-robin cursor, once moved, points into the repeaters' slice.
LEMMA NextRepeaterInRange ==
  ASSUME TypeOK, repeaterRegistry # <<>>
  PROVE  NextRepeater \in Nat /\ NextRepeater + 1 \in 1 .. Len(repeaterRegistry)
<1>1. curRepeater \in Nat /\ repeaterRegistry \in Seq(Registration)
  BY DEF TypeOK
<1>2. Len(repeaterRegistry) \in Nat \ {0} BY <1>1, EmptySeq
<1> QED BY <1>1, <1>2 DEF NextRepeater

\* What routing an event owes is a sequence of attempts.
LEMMA RouteType ==
  ASSUME TypeOK, NEW e \in HubEventWrapper
  PROVE  Route(e) \in Seq(Attempt)
<1>1. /\ messengerRegistry \in [Topics -> Seq(Registration)]
      /\ hubRegistry \in Seq(Registration)
      /\ repeaterRegistry \in Seq(Registration)
  BY DEF TypeOK
<1>2. e.room \in Topics /\ Star \in Topics BY DEF HubEventWrapper, Topics
<1>3. /\ Guarded(messengerRegistry[e.room], e) \in Seq(Attempt)
      /\ Guarded(messengerRegistry[Star], e) \in Seq(Attempt)
      /\ Guarded(hubRegistry, e) \in Seq(Attempt)
      /\ Twice(hubRegistry, e) \in Seq(Attempt)
  BY <1>1, <1>2, GuardedType, TwiceType
<1>4. OneRepeater(e) \in Seq(Attempt)
  <2>1. CASE repeaterRegistry = <<>>
    BY <2>1, EmptySeq DEF OneRepeater
  <2>2. CASE repeaterRegistry # <<>>
    <3>1. repeaterRegistry[NextRepeater + 1] \in Registration
      BY <1>1, <2>2, NextRepeaterInRange, ElementOfSeq
    <3>2. [reg |-> repeaterRegistry[NextRepeater + 1], e |-> e,
           guarded |-> TRUE] \in Attempt
      BY <3>1 DEF Attempt
    <3> QED BY <2>2, <3>2 DEF OneRepeater
  <2> QED BY <2>1, <2>2
<1>5. Guarded(hubRegistry, e) \o OneRepeater(e) \in Seq(Attempt)
  BY <1>3, <1>4, ConcatProperties
<1>6. Outward(e) \in Seq(Attempt)
  <2>1. <<>> \in Seq(Attempt) BY EmptySeq
  <2> QED BY <1>3, <1>5, <2>1 DEF Outward, Messenger, Repeater
<1>7. Guarded(messengerRegistry[e.room], e)
        \o Guarded(messengerRegistry[Star], e) \in Seq(Attempt)
  BY <1>3, ConcatProperties
<1> QED BY <1>6, <1>7, ConcatProperties DEF Route

\* The change in hand after one more iteration.
LEMMA AdvanceType ==
  ASSUME NEW job \in Job, NEW rooms \in Seq(Topics),
         Len(rooms) = Len(job.rooms)
  PROVE  Bounded(Advance(job, rooms), Job, 1)
<1>1. Len(rooms) \in Nat BY LenProperties
<1>2. /\ job.id \in ConnID /\ job.chan \in Chan \cup {NoChan}
      /\ job.create \in BOOLEAN /\ job.rooms \in Seq(Topics)
      /\ job.at \in Nat \ {0} /\ job.shared \in BOOLEAN
      /\ (job.create => job.chan # NoChan)
      /\ job.at <= Len(job.rooms)
  BY DEF Job
<1>3. CASE job.at = Len(rooms)
  BY <1>3, EmptySeq DEF Advance, Bounded
<1>4. CASE job.at # Len(rooms)
  <2> DEFINE next == [job EXCEPT !.rooms = rooms, !.at = @ + 1]
  <2>1. job.at + 1 <= Len(rooms) BY <1>1, <1>2, <1>4
  <2>2. next \in Job
    <3> DEFINE JobRecord ==
          [id : ConnID, chan : Chan \cup {NoChan}, create : BOOLEAN,
           rooms : Seq(Topics), at : Nat \ {0}, shared : BOOLEAN]
    <3>3. job \in JobRecord BY DEF Job
    <3>1. next \in JobRecord
      <4>1. job.at + 1 \in Nat \ {0} BY <1>2
      <4> QED BY <3>3, <4>1
    <3>2. /\ next.create = job.create /\ next.chan = job.chan
          /\ next.rooms = rooms /\ next.at = job.at + 1
      BY <3>3
    <3> HIDE DEF next
    <3> QED BY <1>2, <2>1, <3>1, <3>2 DEF Job
  <2>3. Advance(job, rooms) = <<next>> BY <1>4 DEF Advance
  <2> HIDE DEF next
  <2>4. <<next>> \in Seq(Job) /\ Len(<<next>>) = 1 BY <2>2
  <2> QED BY <2>3, <2>4 DEF Bounded
<1> QED BY <1>3, <1>4

\* A subscription change whose sender names the channel it registers is well
\* formed, and so is a deregistration.
LEMMA SubmitChangeType ==
  ASSUME TypeOK, NEW r \in RegistrationChange, SubmitRegistrationChange(r)
  PROVE  TypeOK'
<1>1. RegistrationCap \in Nat BY NexusAssumption
<1>2. Bounded(Append(registrationChannel, r), RegistrationChange,
              RegistrationCap)
  BY <1>1, BoundedAppend DEF TypeOK, SubmitRegistrationChange
<1> QED BY <1>2
  DEF TypeOK, SubmitRegistrationChange, registries, dispatch, Bounded

\* Every step of the environment keeps the types.
LEMMA EnvironmentType ==
  ASSUME TypeOK, Environment
  PROVE  TypeOK'
<1> USE NexusAssumption
<1>1. ASSUME NEW c \in Chan, RegisterConnection(c) PROVE TypeOK'
  <2> DEFINE r == [type |-> KindOf[IdOf[c]], id |-> IdOf[c], chan |-> c,
                   create |-> TRUE, rooms |-> <<>>]
  <2>1. <<>> \in Seq(Topics) BY EmptySeq
  <2>2. r \in RegistrationChange BY <2>1 DEF RegistrationChange
  <2>3. SubmitRegistrationChange(r) BY <1>1 DEF RegisterConnection
  <2> HIDE DEF r
  <2> QED BY <2>2, <2>3, SubmitChangeType
<1>2. ASSUME NEW c \in Chan, DeregisterConnection(IdOf[c]) PROVE TypeOK'
  <2> DEFINE r == [type |-> KindOf[IdOf[c]], id |-> IdOf[c], chan |-> NoChan,
                   create |-> FALSE, rooms |-> <<>>]
  <2>1. <<>> \in Seq(Topics) BY EmptySeq
  <2>2. r \in RegistrationChange BY <2>1 DEF RegistrationChange
  <2>3. SubmitRegistrationChange(r) BY <1>2 DEF DeregisterConnection
  <2> HIDE DEF r
  <2> QED BY <2>2, <2>3, SubmitChangeType
<1>3. ASSUME NEW c \in Chan, NEW rooms \in RoomLists, NEW create \in BOOLEAN,
             ChangeSubscription(c, rooms, create)
      PROVE  TypeOK'
  <2> DEFINE r == [type |-> Messenger, id |-> IdOf[c], chan |-> c,
                   create |-> create, rooms |-> rooms]
  <2>1. rooms \in Seq(Topics) OBVIOUS
  <2>2. r \in RegistrationChange BY <2>1 DEF RegistrationChange, Kind
  <2>3. SubmitRegistrationChange(r) BY <1>3 DEF ChangeSubscription
  <2> HIDE DEF r
  <2> QED BY <2>2, <2>3, SubmitChangeType
<1>4. ASSUME NEW e \in EventWrapper, NEW i \in ConnID, Submit(e, i)
      PROVE  TypeOK'
  <2> DEFINE w == [room |-> e.room, event |-> e.event, source |-> KindOf[i],
                   sourceID |-> i]
  <2>1. w \in HubEventWrapper BY DEF EventWrapper, HubEventWrapper
  <2>2. /\ Len(incomingChannel) < IncomingCap
        /\ incomingChannel' = Append(incomingChannel, w)
    BY <1>4 DEF Submit
  <2>3. IncomingCap \in Nat OBVIOUS
  <2>4. Bounded(incomingChannel', HubEventWrapper, IncomingCap)
    <3> HIDE DEF w
    <3> QED BY <2>1, <2>2, <2>3, BoundedAppend DEF TypeOK
  <2> QED BY <1>4, <2>4 DEF TypeOK, Submit, registries, dispatch, Bounded
<1>5. ASSUME NEW c \in Chan, Receive(c) PROVE TypeOK'
  <2>1. /\ writeChannel \in [Chan -> Seq(EventWrapper)]
        /\ Len(writeChannel[c]) <= WriteCap
        /\ writeChannel[c] # <<>>
    BY <1>5 DEF TypeOK, Receive
  <2>2. /\ Tail(writeChannel[c]) \in Seq(EventWrapper)
        /\ Len(Tail(writeChannel[c])) = Len(writeChannel[c]) - 1
    BY <2>1, HeadTailProperties
  <2>3. Len(writeChannel[c]) \in Nat BY <2>1, LenProperties
  <2>4. writeChannel' = [writeChannel EXCEPT ![c] = Tail(writeChannel[c])]
    BY <1>5 DEF Receive
  <2>5. /\ writeChannel' \in [Chan -> Seq(EventWrapper)]
        /\ \A d \in Chan : Len(writeChannel'[d]) <= WriteCap
    BY <2>1, <2>2, <2>3, <2>4 DEF TypeOK
  <2> QED BY <1>5, <2>5 DEF TypeOK, Receive, registries, dispatch, Bounded
<1> QED BY <1>1, <1>2, <1>3, <1>4, <1>5 DEF Environment

\* Every step of the dispatch of an event keeps the types.
LEMMA DispatchType ==
  ASSUME TypeOK, Dispatch
  PROVE  TypeOK'
<1> USE NexusAssumption
<1>1. CASE RouteEvent
  <2> DEFINE e == Head(incomingChannel)
  <2>1. IncomingCap \in Nat OBVIOUS
  <2>2. e \in HubEventWrapper
        /\ Bounded(incomingChannel', HubEventWrapper, IncomingCap)
    BY <1>1, <2>1, BoundedTail DEF TypeOK, RouteEvent
  <2>3. attempts' = Route(e) BY <1>1 DEF RouteEvent
  <2>4. Route(e) \in Seq(Attempt)
    <3> HIDE DEF e
    <3> QED BY <2>2, RouteType
  <2>5. curRepeater' \in Nat
    BY <1>1, NextRepeaterInRange DEF TypeOK, RouteEvent
  <2> QED BY <1>1, <2>2, <2>3, <2>4, <2>5
    DEF TypeOK, RouteEvent, registries, Bounded
<1>2. ASSUME attempts # <<>>
      PROVE  Head(attempts) \in Attempt /\ Tail(attempts) \in Seq(Attempt)
  BY <1>2, HeadTailProperties DEF TypeOK
<1>3. CASE SkipAttempt
  BY <1>2, <1>3 DEF TypeOK, SkipAttempt, registries, Bounded
<1>4. CASE AdmitAttempt
  BY <1>4 DEF TypeOK, AdmitAttempt, registries, Bounded
<1>5. CASE SendAttempt
  <2> DEFINE a == Head(attempts)
             c == a.reg.chan
             w == [room |-> a.e.room, event |-> a.e.event]
  <2>1. c \in Chan /\ w \in EventWrapper
    <3>1. a \in Attempt BY <1>2, <1>5 DEF SendAttempt
    <3>2. a.reg \in Registration /\ a.e \in HubEventWrapper
      BY <3>1 DEF Attempt
    <3> QED BY <3>2 DEF Registration, HubEventWrapper, EventWrapper
  <2>2. /\ WriteCap > Len(writeChannel[c])
        /\ writeChannel' = [writeChannel EXCEPT ![c] = Append(@, w)]
    BY <1>5 DEF SendAttempt, HasRoom
  <2>3. /\ attempts' \in Seq(Attempt) /\ admitted' \in BOOLEAN
        /\ UNCHANGED <<registries, curRepeater, registrationChannel,
                       incomingChannel, jobs>>
    BY <1>2, <1>5 DEF SendAttempt
  <2> HIDE DEF a, c, w
  <2>4. writeChannel[c] \in Seq(EventWrapper) BY <2>1 DEF TypeOK
  <2>5. /\ Append(writeChannel[c], w) \in Seq(EventWrapper)
        /\ Len(Append(writeChannel[c], w)) = Len(writeChannel[c]) + 1
    BY <2>1, <2>4, AppendProperties
  <2>6. Len(writeChannel[c]) \in Nat BY <2>4, LenProperties
  <2>7. /\ writeChannel' \in [Chan -> Seq(EventWrapper)]
        /\ \A d \in Chan : Len(writeChannel'[d]) <= WriteCap
    BY <2>1, <2>2, <2>5, <2>6 DEF TypeOK
  <2> QED BY <2>3, <2>7 DEF TypeOK, registries, Bounded
<1> QED BY <1>1, <1>3, <1>4, <1>5 DEF Dispatch

\* The change taken from the channel.
LEMMA HeadChangeType ==
  ASSUME TypeOK, registrationChannel # <<>>
  PROVE  /\ Head(registrationChannel) \in RegistrationChange
         /\ Bounded(Tail(registrationChannel), RegistrationChange,
                    RegistrationCap)
<1>1. RegistrationCap \in Nat BY NexusAssumption
<1> QED BY <1>1, BoundedTail DEF TypeOK

\* The job in hand and the room it stands at.
LEMMA HeadJobType ==
  ASSUME TypeOK, jobs # <<>>
  PROVE  /\ Head(jobs) \in Job
         /\ Head(jobs).rooms \in Seq(Topics)
         /\ Head(jobs).at \in 1 .. Len(Head(jobs).rooms)
         /\ Head(jobs).rooms[Head(jobs).at] \in Topics
         /\ Head(jobs).id \in ConnID
<1>1. Head(jobs) \in Job BY BoundedTail DEF TypeOK
<1>2. /\ Head(jobs).rooms \in Seq(Topics) /\ Head(jobs).id \in ConnID
      /\ Head(jobs).at \in Nat \ {0}
      /\ Head(jobs).at <= Len(Head(jobs).rooms)
  BY <1>1 DEF Job
<1>3. Len(Head(jobs).rooms) \in Nat BY <1>2, LenProperties
<1>4. Head(jobs).at \in 1 .. Len(Head(jobs).rooms) BY <1>2, <1>3
<1> QED BY <1>1, <1>2, <1>4, ElementOfSeq

\* A new job is well formed.
LEMMA StartJobType ==
  ASSUME TypeOK, StartJob
  PROVE  Bounded(jobs', Job, 1)
<1> DEFINE r == Head(registrationChannel)
           whole == ~r.create /\ r.rooms = <<>>
           rooms == IF whole THEN roomMessengerIndex[r.id] ELSE r.rooms
           job == [id |-> r.id, chan |-> r.chan, create |-> r.create,
                   rooms |-> rooms, at |-> 1, shared |-> whole]
<1>1. r \in RegistrationChange BY HeadChangeType DEF StartJob
<1>2. /\ r.id \in ConnID /\ r.chan \in Chan \cup {NoChan}
      /\ r.create \in BOOLEAN /\ r.rooms \in Seq(Topics)
      /\ (r.create => r.chan # NoChan)
  BY <1>1 DEF RegistrationChange
<1>3. rooms \in Seq(Topics) BY <1>2 DEF TypeOK
<1>4. jobs' = IF rooms = <<>> THEN <<>> ELSE <<job>> BY DEF StartJob
<1>5. CASE rooms = <<>>
  <2>1. jobs' = <<>> BY <1>4, <1>5
  <2> QED BY <2>1, EmptySeq DEF Bounded
<1>6. CASE rooms # <<>>
  <2>1. Len(rooms) \in Nat \ {0} BY <1>3, <1>6, EmptySeq
  <2>2. whole \in BOOLEAN OBVIOUS
  <2>3. job \in Job
    <3> HIDE DEF r, whole, rooms
    <3> QED BY <1>2, <1>3, <2>1, <2>2 DEF Job
  <2>4. jobs' = <<job>> BY <1>4, <1>6
  <2> HIDE DEF job
  <2> QED BY <2>3, <2>4 DEF Bounded
<1> QED BY <1>5, <1>6

\* What deregistering one room leaves of the registry, of the index and of
\* the slice the loop walks.
LEMMA DeregisterType ==
  ASSUME TypeOK, deregisterMessenger
  PROVE  /\ messengerRegistry' \in [Topics -> Seq(Registration)]
         /\ roomMessengerIndex' \in [ConnID -> Seq(Topics)]
         /\ Bounded(jobs', Job, 1)
<1> DEFINE job   == Head(jobs)
           cur   == job.rooms[job.at]
           v     == messengerRegistry[cur]
           index == roomMessengerIndex[job.id]
           known == Hits(IDs(v), job.id) # {}
           i     == FirstHit(IDs(v), job.id)
           j     == FirstHit(index, cur)
           found == known /\ Hits(index, cur) # {}
           walk  == IF found /\ job.shared THEN Through(job.rooms, index, j)
                                           ELSE job.rooms
<1>1. /\ job \in Job /\ job.rooms \in Seq(Topics) /\ cur \in Topics
      /\ job.id \in ConnID
  BY HeadJobType DEF deregisterMessenger
<1>2. /\ messengerRegistry' = IF known
                              THEN [messengerRegistry EXCEPT ![cur] =
                                      SwapRemove(v, i)]
                              ELSE messengerRegistry
      /\ roomMessengerIndex' = [roomMessengerIndex EXCEPT ![job.id] =
                                  IF found THEN SwapRemove(index, j)
                                  ELSE IF known /\ Len(index) <= 1 THEN <<>>
                                  ELSE index]
      /\ jobs' = Advance(job, walk)
  BY DEF deregisterMessenger
<1>3. v \in Seq(Registration) /\ index \in Seq(Topics) BY <1>1 DEF TypeOK
<1>4. IDs(v) \in Seq(ConnID) /\ Len(IDs(v)) = Len(v) BY <1>3, IDsType
<1> HIDE DEF job, cur, v, index
<1>5. known => SwapRemove(v, i) \in Seq(Registration)
  <2> SUFFICES ASSUME known PROVE SwapRemove(v, i) \in Seq(Registration)
    OBVIOUS
  <2>1. i \in 1 .. Len(v) BY <1>4, FirstHitFinds
  <2> HIDE DEF i
  <2> QED BY <1>3, <2>1, SwapRemoveType
<1>6. found => SwapRemove(index, j) \in Seq(Topics) /\ j \in 1 .. Len(index)
  <2> SUFFICES ASSUME found
               PROVE  /\ SwapRemove(index, j) \in Seq(Topics)
                      /\ j \in 1 .. Len(index)
    OBVIOUS
  <2>1. j \in 1 .. Len(index) BY <1>3, FirstHitFinds
  <2> HIDE DEF j
  <2> QED BY <1>3, <2>1, SwapRemoveType
<1>7. <<>> \in Seq(Topics) BY EmptySeq
<1>8. messengerRegistry' \in [Topics -> Seq(Registration)]
  <2> HIDE DEF known, i
  <2> QED BY <1>1, <1>2, <1>5 DEF TypeOK
<1>9. roomMessengerIndex' \in [ConnID -> Seq(Topics)]
  <2> HIDE DEF known, found, j
  <2> QED BY <1>1, <1>2, <1>3, <1>6, <1>7 DEF TypeOK
<1>10. walk \in Seq(Topics) /\ Len(walk) = Len(job.rooms)
  <2>1. CASE found /\ job.shared
    <3>1. j \in 1 .. Len(index) /\ Len(index) \in 1 .. Len(index)
      <4>1. Len(index) \in Nat BY <1>3, LenProperties
      <4>2. j \in 1 .. Len(index) BY <1>6, <2>1
      <4> HIDE DEF j
      <4> QED BY <4>1, <4>2
    <3>2. index[Len(index)] \in Topics BY <1>3, <3>1, ElementOfSeq
    <3>3. walk = [job.rooms EXCEPT ![j] = index[Len(index)]]
      BY <2>1 DEF Through
    <3>4. job.rooms \in [1 .. Len(job.rooms) -> Topics]
          /\ Len(job.rooms) \in Nat
      BY <1>1, LenProperties
    <3> HIDE DEF j, walk
    <3>5. walk \in [1 .. Len(job.rooms) -> Topics] BY <3>2, <3>3, <3>4
    <3> QED BY <3>4, <3>5, FunctionIsSeq
  <2>2. CASE ~(found /\ job.shared) BY <1>1, <2>2
  <2> QED BY <2>1, <2>2
<1>11. Bounded(jobs', Job, 1)
  <2> HIDE DEF walk
  <2> QED BY <1>1, <1>2, <1>10, AdvanceType
<1> QED BY <1>8, <1>9, <1>11

\* Every step of the registration half of the loop keeps the types.
LEMMA ReregisterType ==
  ASSUME TypeOK, Reregister
  PROVE  TypeOK'
<1> USE NexusAssumption
<1>1. CASE ChangePeer
  <2> DEFINE r == Head(registrationChannel)
  <2>1. r \in RegistrationChange
        /\ Bounded(registrationChannel', RegistrationChange, RegistrationCap)
    BY <1>1, HeadChangeType DEF ChangePeer
  <2>2. /\ Apply(r, hubRegistry) \in Seq(Registration)
        /\ Apply(r, repeaterRegistry) \in Seq(Registration)
    BY <2>1, ApplyType DEF TypeOK
  <2>3. /\ hubRegistry' \in Seq(Registration)
        /\ repeaterRegistry' \in Seq(Registration)
    BY <1>1, <2>2 DEF TypeOK, ChangePeer
  <2> QED BY <1>1, <2>1, <2>3 DEF TypeOK, ChangePeer, dispatch, Bounded
<1>2. CASE StartJob
  <2>1. Bounded(jobs', Job, 1) BY <1>2, StartJobType
  <2>2. Bounded(registrationChannel', RegistrationChange, RegistrationCap)
    BY <1>2, HeadChangeType DEF StartJob
  <2> QED BY <1>2, <2>1, <2>2
    DEF TypeOK, StartJob, dispatch, registries, Bounded
<1>3. CASE registerMessenger
  <2> DEFINE job == Head(jobs)
             cur == job.rooms[job.at]
             reg == [id |-> job.id, chan |-> job.chan]
  <2>1. /\ job \in Job /\ job.rooms \in Seq(Topics) /\ cur \in Topics
        /\ job.id \in ConnID
    BY <1>3, HeadJobType DEF registerMessenger
  <2>2. /\ job.create
        /\ messengerRegistry' =
             [messengerRegistry EXCEPT ![cur] =
                Append(messengerRegistry[cur], reg)]
        /\ roomMessengerIndex' =
             [roomMessengerIndex EXCEPT ![job.id] =
                Append(roomMessengerIndex[job.id], cur)]
        /\ jobs' = Advance(job, job.rooms)
    BY <1>3 DEF registerMessenger
  <2>3. reg \in Registration BY <2>1, <2>2 DEF Job, Registration
  <2> HIDE DEF job, cur, reg
  <2>4. Append(messengerRegistry[cur], reg) \in Seq(Registration)
    BY <2>1, <2>3, AppendProperties DEF TypeOK
  <2>5. Append(roomMessengerIndex[job.id], cur) \in Seq(Topics)
    BY <2>1, AppendProperties DEF TypeOK
  <2>6. Bounded(jobs', Job, 1) BY <2>1, <2>2, AdvanceType
  <2>7. /\ messengerRegistry' \in [Topics -> Seq(Registration)]
        /\ roomMessengerIndex' \in [ConnID -> Seq(Topics)]
    BY <2>1, <2>2, <2>4, <2>5 DEF TypeOK
  <2> QED BY <1>3, <2>6, <2>7
    DEF TypeOK, registerMessenger, dispatch, Bounded
<1>4. CASE deregisterMessenger
  BY <1>4, DeregisterType DEF TypeOK, deregisterMessenger, dispatch, Bounded
<1> QED BY <1>1, <1>2, <1>3, <1>4 DEF Reregister

\* No state the router reaches is outside its types: no channel exceeds its
\* capacity, the round-robin cursor and the walk of a deregistration stay
\* inside the slices they index.
THEOREM TypeCorrect == Spec => []TypeOK
<1>1. Init => TypeOK
  <2> SUFFICES ASSUME Init PROVE TypeOK OBVIOUS
  <2>1. /\ <<>> \in Seq(Registration) /\ <<>> \in Seq(Topics)
        /\ <<>> \in Seq(RegistrationChange) /\ <<>> \in Seq(HubEventWrapper)
        /\ <<>> \in Seq(EventWrapper) /\ <<>> \in Seq(Attempt)
        /\ <<>> \in Seq(Job)
    OBVIOUS
  <2>2. Len(<<>>) = 0 OBVIOUS
  <2>3. /\ 0 <= RegistrationCap /\ 0 <= IncomingCap /\ 0 <= WriteCap
    BY NexusAssumption
  <2>4. /\ messengerRegistry \in [Topics -> Seq(Registration)]
        /\ roomMessengerIndex \in [ConnID -> Seq(Topics)]
        /\ writeChannel \in [Chan -> Seq(EventWrapper)]
        /\ \A c \in Chan : Len(writeChannel[c]) <= WriteCap
    BY <2>1, <2>2, <2>3 DEF Init
  <2>5. /\ Bounded(registrationChannel, RegistrationChange, RegistrationCap)
        /\ Bounded(incomingChannel, HubEventWrapper, IncomingCap)
        /\ Bounded(jobs, Job, 1)
    BY <2>1, <2>2, <2>3 DEF Init, Bounded
  <2>6. admitted \in BOOLEAN BY Zenon DEF Init
  <2> QED BY <2>1, <2>4, <2>5, <2>6 DEF Init, TypeOK
<1>2. TypeOK /\ [Next]_vars => TypeOK'
  <2> SUFFICES ASSUME TypeOK, [Next]_vars PROVE TypeOK' OBVIOUS
  <2>1. CASE UNCHANGED vars BY <2>1 DEF TypeOK, vars, Bounded
  <2> QED BY <2>1, EnvironmentType, DispatchType, ReregisterType DEF Next
<1> QED BY <1>1, <1>2, PTL DEF Spec

-----------------------------------------------------------------------------
(***************************************************************************)
(* The registries: the index stays the inverse of the registry, a whole    *)
(* deregistration clears everything, and a send that was admitted never    *)
(* waits.                                                                  *)
(***************************************************************************)

\* A step that leaves the messenger registries and the job alone.
RegistriesUnchanged ==
  UNCHANGED <<messengerRegistry, roomMessengerIndex, jobs>>

\* Only the start of a change and its iterations touch the messengers'
\* registry, its index or the change in hand.
LEMMA OthersLeaveRegistries ==
  ASSUME [Next]_vars
  PROVE  \/ RegistriesUnchanged
         \/ StartJob
         \/ registerMessenger
         \/ deregisterMessenger
BY DEF Next, Environment, Dispatch, Reregister, RegistriesUnchanged, vars,
       registries, RegisterConnection, DeregisterConnection,
       ChangeSubscription, SubmitRegistrationChange, Submit, Receive,
       RouteEvent, SkipAttempt, AdmitAttempt, SendAttempt, ChangePeer

\* One iteration of a registration: the messenger gains one copy of the room
\* on both sides.
LEMMA RegisterKeepsIndex ==
  ASSUME TypeOK, IndexMatchesRegistry, registerMessenger
  PROVE  IndexMatchesRegistry'
<1> DEFINE job == Head(jobs)
           cur == job.rooms[job.at]
           reg == [id |-> job.id, chan |-> job.chan]
<1>1. job \in Job /\ cur \in Topics /\ job.id \in ConnID
  BY HeadJobType DEF registerMessenger
<1>2. /\ job.create
      /\ messengerRegistry' =
           [messengerRegistry EXCEPT ![cur] =
              Append(messengerRegistry[cur], reg)]
      /\ roomMessengerIndex' =
           [roomMessengerIndex EXCEPT ![job.id] =
              Append(roomMessengerIndex[job.id], cur)]
  BY DEF registerMessenger
<1>3. reg \in Registration BY <1>1, <1>2 DEF Job, Registration
<1>4. reg.id = job.id OBVIOUS
<1> HIDE DEF job, cur, reg
<1> SUFFICES ASSUME NEW i \in ConnID, NEW t \in Topics
             PROVE  Copies(IDs(messengerRegistry'[t]), i) =
                      Copies(roomMessengerIndex'[i], t)
  BY DEF IndexMatchesRegistry
<1> DEFINE v == messengerRegistry[cur]
           index == roomMessengerIndex[job.id]
<1>5. v \in Seq(Registration) /\ index \in Seq(Topics) BY <1>1 DEF TypeOK
<1>6. Copies(IDs(messengerRegistry[t]), i) = Copies(roomMessengerIndex[i], t)
  BY DEF IndexMatchesRegistry
<1>7. IDs(v) \in Seq(ConnID) BY <1>5, IDsType
<1>8. IDs(Append(v, reg)) = Append(IDs(v), job.id) BY <1>3, <1>4, <1>5, IDsAppend
<1>9. Copies(Append(IDs(v), job.id), i)
        = Copies(IDs(v), i) + (IF job.id = i THEN 1 ELSE 0)
  <2> HIDE DEF v
  <2> QED BY <1>1, <1>7, CopiesAppend
<1>10. Copies(Append(index, cur), t)
         = Copies(index, t) + (IF cur = t THEN 1 ELSE 0)
  <2> HIDE DEF index
  <2> QED BY <1>1, <1>5, CopiesAppend
<1>11. Copies(IDs(v), i) \in Nat /\ Copies(index, t) \in Nat
  BY <1>5, <1>7, HitsFinite
<1>12. messengerRegistry'[t] = IF t = cur THEN Append(v, reg)
                                          ELSE messengerRegistry[t]
  BY <1>1, <1>2 DEF TypeOK
<1>13. roomMessengerIndex'[i] = IF i = job.id THEN Append(index, cur)
                                              ELSE roomMessengerIndex[i]
  BY <1>1, <1>2 DEF TypeOK
<1>14. /\ t = cur => Copies(IDs(messengerRegistry[t]), i) = Copies(IDs(v), i)
       /\ i = job.id => Copies(roomMessengerIndex[i], t) = Copies(index, t)
  OBVIOUS
<1>15. Copies(IDs(messengerRegistry'[t]), i) =
         Copies(IDs(messengerRegistry[t]), i)
           + (IF t = cur /\ i = job.id THEN 1 ELSE 0)
  <2>1. CASE t = cur
    <3>1. Copies(IDs(messengerRegistry'[t]), i)
            = Copies(IDs(v), i) + (IF job.id = i THEN 1 ELSE 0)
      BY <1>8, <1>9, <1>12, <2>1
    <3> HIDE DEF v
    <3> QED BY <1>14, <2>1, <3>1
  <2>2. CASE t # cur
    <3>1. messengerRegistry[t] \in Seq(Registration) BY DEF TypeOK
    <3>2. IDs(messengerRegistry[t]) \in Seq(ConnID) BY <3>1, IDsType
    <3>3. Copies(IDs(messengerRegistry[t]), i) \in Nat BY <3>2, HitsFinite
    <3> QED BY <1>12, <2>2, <3>3
  <2> QED BY <2>1, <2>2
<1>16. Copies(roomMessengerIndex'[i], t) =
         Copies(roomMessengerIndex[i], t)
           + (IF t = cur /\ i = job.id THEN 1 ELSE 0)
  <2>1. CASE i = job.id
    <3>1. Copies(roomMessengerIndex'[i], t)
            = Copies(index, t) + (IF cur = t THEN 1 ELSE 0)
      BY <1>10, <1>13, <2>1
    <3> HIDE DEF index
    <3> QED BY <1>14, <2>1, <3>1
  <2>2. CASE i # job.id
    <3>1. roomMessengerIndex[i] \in Seq(Topics) BY DEF TypeOK
    <3>2. Copies(roomMessengerIndex[i], t) \in Nat BY <3>1, HitsFinite
    <3> QED BY <1>13, <2>2, <3>2
  <2> QED BY <2>1, <2>2
<1> QED BY <1>6, <1>15, <1>16

\* What one iteration of a deregistration does when the index matches: the
\* room is in the index iff the messenger is in the room, so either both lose
\* one copy or nothing happens.
LEMMA DeregisterEffect ==
  ASSUME TypeOK, IndexMatchesRegistry, deregisterMessenger,
         NEW job, job = Head(jobs),
         NEW cur, cur = job.rooms[job.at],
         NEW v, v = messengerRegistry[cur],
         NEW index, index = roomMessengerIndex[job.id]
  PROVE  /\ Hits(IDs(v), job.id) # {} <=> Hits(index, cur) # {}
         /\ messengerRegistry' =
              IF Hits(index, cur) # {}
              THEN [messengerRegistry EXCEPT ![cur] =
                      SwapRemove(v, FirstHit(IDs(v), job.id))]
              ELSE messengerRegistry
         /\ roomMessengerIndex' =
              IF Hits(index, cur) # {}
              THEN [roomMessengerIndex EXCEPT ![job.id] =
                      SwapRemove(index, FirstHit(index, cur))]
              ELSE roomMessengerIndex
         /\ jobs' =
              Advance(job, IF Hits(index, cur) # {} /\ job.shared
                           THEN Through(job.rooms, index, FirstHit(index, cur))
                           ELSE job.rooms)
<1>1. cur \in Topics /\ job.id \in ConnID
  BY HeadJobType DEF deregisterMessenger
<1>2. v \in Seq(Registration) /\ index \in Seq(Topics) BY <1>1 DEF TypeOK
<1>3. IDs(v) \in Seq(ConnID) BY <1>2, IDsType
<1>4. Copies(IDs(v), job.id) = Copies(index, cur)
  BY <1>1 DEF IndexMatchesRegistry
<1>5. Hits(IDs(v), job.id) # {} <=> Hits(index, cur) # {}
  BY <1>2, <1>3, <1>4, CopiesZero
<1>6. /\ messengerRegistry' =
           IF Hits(IDs(v), job.id) # {}
           THEN [messengerRegistry EXCEPT ![cur] =
                   SwapRemove(v, FirstHit(IDs(v), job.id))]
           ELSE messengerRegistry
      /\ roomMessengerIndex' =
           [roomMessengerIndex EXCEPT ![job.id] =
              IF Hits(IDs(v), job.id) # {} /\ Hits(index, cur) # {}
              THEN SwapRemove(index, FirstHit(index, cur))
              ELSE IF Hits(IDs(v), job.id) # {} /\ Len(index) <= 1 THEN <<>>
              ELSE index]
      /\ jobs' =
           Advance(job, IF /\ Hits(IDs(v), job.id) # {} /\ Hits(index, cur) # {}
                           /\ job.shared
                        THEN Through(job.rooms, index, FirstHit(index, cur))
                        ELSE job.rooms)
  BY DEF deregisterMessenger
<1>7. roomMessengerIndex = [roomMessengerIndex EXCEPT ![job.id] = index]
  BY <1>1 DEF TypeOK
<1> QED BY <1>5, <1>6, <1>7

\* One iteration of a deregistration keeps the index.
LEMMA DeregisterKeepsIndex ==
  ASSUME TypeOK, IndexMatchesRegistry, deregisterMessenger
  PROVE  IndexMatchesRegistry'
<1> DEFINE job == Head(jobs)
           cur == job.rooms[job.at]
           v == messengerRegistry[cur]
           index == roomMessengerIndex[job.id]
           f == FirstHit(IDs(v), job.id)
           j == FirstHit(index, cur)
<1>1. cur \in Topics /\ job.id \in ConnID
  BY HeadJobType DEF deregisterMessenger
<1>2. v \in Seq(Registration) /\ index \in Seq(Topics) BY <1>1 DEF TypeOK
<1>3. IDs(v) \in Seq(ConnID) /\ Len(IDs(v)) = Len(v) BY <1>2, IDsType
<1>4. /\ Hits(IDs(v), job.id) # {} <=> Hits(index, cur) # {}
      /\ messengerRegistry' = IF Hits(index, cur) # {}
           THEN [messengerRegistry EXCEPT ![cur] = SwapRemove(v, f)]
           ELSE messengerRegistry
      /\ roomMessengerIndex' = IF Hits(index, cur) # {}
           THEN [roomMessengerIndex EXCEPT ![job.id] = SwapRemove(index, j)]
           ELSE roomMessengerIndex
  BY DeregisterEffect
<1> HIDE DEF job, cur, v, index
<1>5. CASE Hits(index, cur) = {}
  BY <1>4, <1>5 DEF IndexMatchesRegistry
<1>6. CASE Hits(index, cur) # {}
  <2> SUFFICES ASSUME NEW i \in ConnID, NEW t \in Topics
               PROVE  Copies(IDs(messengerRegistry'[t]), i) =
                        Copies(roomMessengerIndex'[i], t)
    BY DEF IndexMatchesRegistry
  <2>1. f \in 1 .. Len(v) /\ f \in 1 .. Len(IDs(v)) /\ IDs(v)[f] = job.id
    BY <1>3, <1>4, <1>6, FirstHitFinds
  <2>2. j \in 1 .. Len(index) /\ index[j] = cur
    BY <1>2, <1>6, FirstHitFinds
  <2> HIDE DEF f, j
  <2>3. IDs(SwapRemove(v, f)) = SwapRemove(IDs(v), f)
    BY <1>2, <2>1, IDsSwapRemove
  <2>4. Copies(SwapRemove(IDs(v), f), i)
          = Copies(IDs(v), i) - (IF job.id = i THEN 1 ELSE 0)
    BY <1>3, <2>1, CopiesSwapRemove
  <2>5. Copies(SwapRemove(index, j), t)
          = Copies(index, t) - (IF cur = t THEN 1 ELSE 0)
    BY <1>2, <2>2, CopiesSwapRemove
  <2>6. Copies(IDs(v), i) \in Nat /\ Copies(index, t) \in Nat
    BY <1>2, <1>3, HitsFinite
  <2>7. Copies(IDs(messengerRegistry[t]), i) = Copies(roomMessengerIndex[i], t)
    BY DEF IndexMatchesRegistry
  <2>8. messengerRegistry'[t] = IF t = cur THEN SwapRemove(v, f)
                                           ELSE messengerRegistry[t]
    BY <1>1, <1>4, <1>6 DEF TypeOK
  <2>9. roomMessengerIndex'[i] = IF i = job.id THEN SwapRemove(index, j)
                                               ELSE roomMessengerIndex[i]
    BY <1>1, <1>4, <1>6 DEF TypeOK
  <2>10. (t = cur => messengerRegistry[t] = v)
         /\ (i = job.id => roomMessengerIndex[i] = index)
    BY DEF v, index
  <2>11. CASE t = cur /\ i = job.id
    BY <2>3, <2>4, <2>5, <2>7, <2>8, <2>9, <2>10, <2>11
  <2>12. CASE t = cur /\ i # job.id
    BY <2>3, <2>4, <2>6, <2>7, <2>8, <2>9, <2>10, <2>12
  <2>13. CASE t # cur /\ i = job.id
    BY <2>5, <2>6, <2>7, <2>8, <2>9, <2>10, <2>13
  <2>14. CASE t # cur /\ i # job.id
    BY <2>7, <2>8, <2>9, <2>14
  <2> QED BY <2>11, <2>12, <2>13, <2>14
<1> QED BY <1>5, <1>6

\* The index of rooms is the inverse of the registry, copies counted, in every
\* reachable state.
THEOREM IndexCorrect == Spec => []IndexMatchesRegistry
<1>1. Init => IndexMatchesRegistry
  <2> SUFFICES ASSUME Init, NEW i \in ConnID, NEW t \in Topics
               PROVE  Copies(IDs(messengerRegistry[t]), i) =
                        Copies(roomMessengerIndex[i], t)
    BY DEF IndexMatchesRegistry
  <2>1. messengerRegistry[t] = <<>> /\ roomMessengerIndex[i] = <<>>
    BY DEF Init
  <2>2. Hits(IDs(<<>>), i) = {} /\ Hits(<<>>, t) = {}
    BY DEF Hits, IDs
  <2> QED BY <2>1, <2>2 DEF Copies
<1>2. TypeOK /\ IndexMatchesRegistry /\ [Next]_vars => IndexMatchesRegistry'
  <2> SUFFICES ASSUME TypeOK, IndexMatchesRegistry, [Next]_vars
               PROVE  IndexMatchesRegistry'
    OBVIOUS
  <2>1. CASE RegistriesUnchanged
    BY <2>1 DEF IndexMatchesRegistry, RegistriesUnchanged
  <2>2. CASE StartJob
    BY <2>2 DEF IndexMatchesRegistry, StartJob, registries
  <2>3. CASE registerMessenger BY <2>3, RegisterKeepsIndex
  <2>4. CASE deregisterMessenger BY <2>4, DeregisterKeepsIndex
  <2> QED BY <2>1, <2>2, <2>3, <2>4, OthersLeaveRegistries
<1> QED BY <1>1, <1>2, TypeCorrect, PTL DEF Spec

-----------------------------------------------------------------------------
(***************************************************************************)
(* A deregistration without rooms, which edits the slice it walks.  The    *)
(* walk never meets an edited position again: the scan of the index finds  *)
(* the room at or before the place of the walk, so the write goes there,   *)
(* and what lies ahead is as it was.                                       *)
(***************************************************************************)

\* The walk starts with the whole index ahead of it.
LEMMA StartJobWalk ==
  ASSUME TypeOK, StartJob
  PROVE  WalkMatchesIndex'
<1> DEFINE r == Head(registrationChannel)
           whole == ~r.create /\ r.rooms = <<>>
           rooms == IF whole THEN roomMessengerIndex[r.id] ELSE r.rooms
           job == [id |-> r.id, chan |-> r.chan, create |-> r.create,
                   rooms |-> rooms, at |-> 1, shared |-> whole]
<1>1. /\ jobs' = IF rooms = <<>> THEN <<>> ELSE <<job>>
      /\ roomMessengerIndex' = roomMessengerIndex
  BY DEF StartJob, registries
<1> SUFFICES ASSUME jobs' # <<>>, Head(jobs').shared
             PROVE  /\ ~Head(jobs').create
                    /\ Len(roomMessengerIndex'[Head(jobs').id])
                         = Len(Head(jobs').rooms) - Head(jobs').at + 1
                    /\ \A k \in 1 .. Len(roomMessengerIndex'[Head(jobs').id]) :
                         roomMessengerIndex'[Head(jobs').id][k]
                           = Head(jobs').rooms[k]
                    /\ \A t \in Topics :
                         Cardinality(Remaining(Head(jobs'), t))
                           = Copies(roomMessengerIndex'[Head(jobs').id], t)
  BY DEF WalkMatchesIndex
<1>2. Head(jobs') = job BY <1>1
<1>3. whole /\ ~job.create /\ job.at = 1 /\ job.rooms = roomMessengerIndex[r.id]
      /\ job.id = r.id
  <2>1. job.shared BY <1>2
  <2>2. job.shared = whole OBVIOUS
  <2>3. whole BY <2>1, <2>2
  <2>4. rooms = roomMessengerIndex[r.id] BY <2>3
  <2>5. /\ job.create = r.create /\ job.at = 1 /\ job.rooms = rooms
        /\ job.id = r.id
    OBVIOUS
  <2> HIDE DEF job, rooms
  <2> QED BY <2>3, <2>4, <2>5
<1>4. r.id \in ConnID BY HeadChangeType DEF StartJob, RegistrationChange
<1>5. roomMessengerIndex[r.id] \in Seq(Topics) BY <1>4 DEF TypeOK
<1>6. Len(roomMessengerIndex[r.id]) \in Nat BY <1>5, LenProperties
<1>7. \A t \in Topics : Remaining(job, t) = Hits(roomMessengerIndex[r.id], t)
  BY <1>3 DEF Remaining, Hits
<1>8. /\ Head(jobs').id = r.id /\ ~Head(jobs').create /\ Head(jobs').at = 1
      /\ Head(jobs').rooms = roomMessengerIndex[r.id]
      /\ roomMessengerIndex'[Head(jobs').id] = roomMessengerIndex[r.id]
  BY <1>1, <1>2, <1>3
<1> HIDE DEF job, r
<1>9. Len(roomMessengerIndex'[Head(jobs').id])
        = Len(Head(jobs').rooms) - Head(jobs').at + 1
  BY <1>6, <1>8
<1>10. \A t \in Topics : Cardinality(Remaining(Head(jobs'), t))
                           = Copies(roomMessengerIndex'[Head(jobs').id], t)
  BY <1>2, <1>7, <1>8 DEF Copies
<1> QED BY <1>8, <1>9, <1>10

\* One iteration of the walk: the room is found in the index, at or before
\* the place of the walk, and both the index and what is ahead lose one copy.
LEMMA WalkStep ==
  ASSUME TypeOK, IndexMatchesRegistry, WalkMatchesIndex, deregisterMessenger,
         Head(jobs).shared,
         NEW job, job = Head(jobs),
         NEW index, index = roomMessengerIndex[job.id]
  PROVE  LET j     == FirstHit(index, job.rooms[job.at])
             left  == SwapRemove(index, j)
             rooms == Through(job.rooms, index, j)
         IN  /\ roomMessengerIndex'[job.id] = left
             /\ jobs' = Advance(job, rooms)
             /\ rooms \in Seq(Topics) /\ Len(rooms) = Len(job.rooms)
             /\ left \in Seq(Topics) /\ Len(left) = Len(job.rooms) - job.at
             /\ \A k \in 1 .. Len(left) : left[k] = rooms[k]
             /\ \A k \in job.at + 1 .. Len(rooms) : rooms[k] = job.rooms[k]
             /\ \A t \in Topics :
                  Cardinality(Remaining(job, t) \ {job.at}) = Copies(left, t)
<1> DEFINE cur   == job.rooms[job.at]
           j     == FirstHit(index, cur)
           left  == SwapRemove(index, j)
           rooms == Through(job.rooms, index, j)
           n     == Len(job.rooms)
<1>1. /\ jobs # <<>> /\ job \in Job /\ job.rooms \in Seq(Topics)
      /\ cur \in Topics /\ job.id \in ConnID /\ job.at \in 1 .. n
  BY HeadJobType DEF deregisterMessenger
<1>2. index \in Seq(Topics) BY <1>1 DEF TypeOK
<1>3. n \in Nat /\ Len(index) \in Nat BY <1>1, <1>2, LenProperties
<1>4. /\ Len(index) = n - job.at + 1
      /\ \A k \in 1 .. Len(index) : index[k] = job.rooms[k]
      /\ \A t \in Topics : Cardinality(Remaining(job, t)) = Copies(index, t)
  BY <1>1 DEF WalkMatchesIndex
<1>5. \A t \in Topics : IsFiniteSet(Remaining(job, t))
  <2> SUFFICES ASSUME NEW t \in Topics PROVE IsFiniteSet(Remaining(job, t))
    OBVIOUS
  <2>1. IsFiniteSet(job.at .. n)
    <3>1. job.at \in Int /\ n \in Int BY <1>1, <1>3
    <3> HIDE DEF n
    <3> QED BY <3>1, FS_Interval
  <2>2. Remaining(job, t) \in SUBSET (job.at .. n) BY DEF Remaining
  <2> QED BY <2>1, <2>2, FS_Subset
<1>6. Hits(index, cur) # {}
  <2>1. job.at \in Remaining(job, cur)
    <3>1. job.at \in job.at .. n
      <4> HIDE DEF n
      <4> QED BY <1>1, <1>3
    <3> QED BY <3>1 DEF Remaining
  <2>2. Cardinality(Remaining(job, cur)) # 0
    BY <1>1, <1>5, <2>1, FS_EmptySet
  <2>3. Copies(index, cur) # 0 BY <1>1, <1>4, <2>2
  <2> QED BY <1>2, <2>3, CopiesZero
<1>7. /\ roomMessengerIndex' = [roomMessengerIndex EXCEPT ![job.id] = left]
      /\ jobs' = Advance(job, rooms)
  BY <1>6, DeregisterEffect
<1>8. /\ j \in 1 .. Len(index) /\ index[j] = cur
      /\ \A h \in Hits(index, cur) : j <= h
  BY <1>2, <1>6, FirstHitFinds
<1>9. j <= job.at
  <2>1. CASE job.at <= Len(index)
    <3>1. job.at \in Hits(index, cur) BY <1>1, <1>3, <1>4, <2>1 DEF Hits
    <3> HIDE DEF j
    <3> QED BY <1>8, <3>1
  <2>2. CASE job.at > Len(index)
    <3> HIDE DEF j
    <3> QED BY <1>1, <1>3, <1>8, <2>2
  <2> QED BY <1>1, <1>3, <2>1, <2>2
<1>10. rooms = [job.rooms EXCEPT ![j] = index[Len(index)]] BY DEF Through
<1>11. left \in Seq(Topics) /\ Len(left) = Len(index) - 1
       /\ \A k \in 1 .. Len(index) - 1 :
            left[k] = IF k = j THEN index[Len(index)] ELSE index[k]
  <2>1. j \in 1 .. Len(index) BY <1>8
  <2> HIDE DEF j, cur, rooms, n
  <2>2. /\ SwapRemove(index, j) \in Seq(Topics)
        /\ Len(SwapRemove(index, j)) = Len(index) - 1
        /\ \A k \in 1 .. Len(index) - 1 :
             SwapRemove(index, j)[k] = IF k = j THEN index[Len(index)]
                                                ELSE index[k]
    <3> HIDE DEF left
    <3>1. /\ SwapRemove(index, j) \in Seq(Topics)
          /\ Len(SwapRemove(index, j)) = Len(index) - 1
      BY <1>2, <2>1, SwapRemoveType
    <3> QED BY <3>1 DEF SwapRemove
  <2> QED BY <2>2
<1>12. \A t \in Topics :
         Copies(left, t) = Copies(index, t) - (IF cur = t THEN 1 ELSE 0)
  <2> HIDE DEF j
  <2> QED BY <1>2, <1>8, CopiesSwapRemove
<1> HIDE DEF j, left, rooms
<1>13. index[Len(index)] \in Topics /\ j \in 1 .. n
  <2>1. Len(index) \in 1 .. Len(index) BY <1>3, <1>8
  <2>2. index[Len(index)] \in Topics BY <1>2, <2>1, ElementOfSeq
  <2>3. j \in 1 .. n
    <3> HIDE DEF n
    <3> QED BY <1>1, <1>3, <1>4, <1>8
  <2> QED BY <2>2, <2>3
<1>14. /\ rooms \in Seq(Topics) /\ Len(rooms) = n
       /\ \A k \in 1 .. n :
            rooms[k] = IF k = j THEN index[Len(index)] ELSE job.rooms[k]
  BY <1>1, <1>10, <1>13, ExceptSeq
<1>15. ASSUME NEW k \in 1 .. Len(left) PROVE left[k] = rooms[k]
  <2>1. k \in 1 .. Len(index) - 1 /\ k \in 1 .. Len(index) /\ k \in 1 .. n
    <3> HIDE DEF n
    <3> QED BY <1>1, <1>3, <1>4, <1>11
  <2>2. left[k] = IF k = j THEN index[Len(index)] ELSE index[k]
    BY <1>11, <2>1
  <2>3. rooms[k] = IF k = j THEN index[Len(index)] ELSE job.rooms[k]
    BY <1>14, <2>1
  <2> QED BY <1>4, <2>1, <2>2, <2>3
<1>16. \A k \in job.at + 1 .. Len(rooms) : rooms[k] = job.rooms[k]
  BY <1>1, <1>3, <1>8, <1>9, <1>14
<1>17. ASSUME NEW t \in Topics
       PROVE  Cardinality(Remaining(job, t) \ {job.at}) = Copies(left, t)
  <2>1. Cardinality(Remaining(job, t) \ {job.at}) =
          IF job.at \in Remaining(job, t)
          THEN Cardinality(Remaining(job, t)) - 1
          ELSE Cardinality(Remaining(job, t))
    BY <1>5, FS_RemoveElement
  <2>2. job.at \in Remaining(job, t) <=> cur = t
    BY <1>1, <1>3 DEF Remaining
  <2>3. Copies(index, t) \in Nat BY <1>2, HitsFinite
  <2> QED BY <1>4, <1>12, <2>1, <2>2, <2>3
<1>18. roomMessengerIndex'[job.id] = left BY <1>1, <1>7 DEF TypeOK
<1>19. Len(left) = n - job.at BY <1>1, <1>3, <1>4, <1>11
<1> QED BY <1>7, <1>11, <1>14, <1>15, <1>16, <1>17, <1>18, <1>19
      DEF j, left, rooms

\* What changes in a job from one iteration to the next.
LEMMA AdvanceFields ==
  ASSUME NEW job \in Job, NEW rooms, Advance(job, rooms) # <<>>
  PROVE  LET next == Head(Advance(job, rooms)) IN
           /\ next.rooms = rooms /\ next.at = job.at + 1
           /\ next.id = job.id /\ next.chan = job.chan
           /\ next.create = job.create
           /\ next.shared = job.shared
<1> DEFINE next == [job EXCEPT !.rooms = rooms, !.at = job.at + 1]
<1>1. Advance(job, rooms) = <<next>> BY DEF Advance
<1>2. job \in [id : ConnID, chan : Chan \cup {NoChan}, create : BOOLEAN,
               rooms : Seq(Topics), at : Nat \ {0}, shared : BOOLEAN]
  BY DEF Job
<1>3. /\ next.rooms = rooms /\ next.at = job.at + 1
      /\ next.id = job.id /\ next.chan = job.chan
      /\ next.create = job.create /\ next.shared = job.shared
  BY <1>2
<1> HIDE DEF next
<1>4. Head(Advance(job, rooms)) = next BY <1>1
<1> QED BY <1>3, <1>4

\* The walk of a whole deregistration stays in step with the index.
THEOREM WalkCorrect == Spec => []WalkMatchesIndex
<1>1. Init => WalkMatchesIndex BY DEF Init, WalkMatchesIndex
<1>2. TypeOK /\ IndexMatchesRegistry /\ WalkMatchesIndex /\ [Next]_vars
        => WalkMatchesIndex'
  <2> SUFFICES ASSUME TypeOK, IndexMatchesRegistry, WalkMatchesIndex,
                      [Next]_vars
               PROVE  WalkMatchesIndex'
    OBVIOUS
  <2>1. CASE RegistriesUnchanged
    BY <2>1 DEF WalkMatchesIndex, RegistriesUnchanged, Remaining
  <2>2. CASE StartJob BY <2>2, StartJobWalk
  <2>3. ASSUME NEW job \in Job, NEW rooms \in Seq(Topics),
               jobs' = Advance(job, rooms), jobs' # <<>>
        PROVE  LET next == Head(jobs') IN
                 /\ next.rooms = rooms /\ next.at = job.at + 1
                 /\ next.id = job.id /\ next.create = job.create
                 /\ next.shared = job.shared
    BY <2>3, AdvanceFields
  <2>4. CASE registerMessenger
    <3>1. /\ jobs # <<>> /\ Head(jobs) \in Job /\ Head(jobs).create
          /\ Head(jobs).rooms \in Seq(Topics)
          /\ jobs' = Advance(Head(jobs), Head(jobs).rooms)
      BY <2>4, HeadJobType DEF registerMessenger
    <3>2. ~Head(jobs).shared BY <3>1 DEF WalkMatchesIndex
    <3> QED BY <2>3, <3>1, <3>2 DEF WalkMatchesIndex
  <2>5. CASE deregisterMessenger
    <3> DEFINE job == Head(jobs)
               index == roomMessengerIndex[job.id]
               j == FirstHit(index, job.rooms[job.at])
               left == SwapRemove(index, j)
               rooms == Through(job.rooms, index, j)
               next == Head(jobs')
    <3>1. /\ jobs # <<>> /\ job \in Job /\ job.rooms \in Seq(Topics)
          /\ job.at \in 1 .. Len(job.rooms)
      BY <2>5, HeadJobType DEF deregisterMessenger
    <3>2. CASE ~job.shared
      <4>1. PICK walk \in Seq(Topics) : jobs' = Advance(job, walk)
        BY <2>5, <3>1, <3>2 DEF deregisterMessenger
      <4>2. jobs' # <<>> => ~next.shared BY <2>3, <3>1, <3>2, <4>1
      <4> QED BY <4>2 DEF WalkMatchesIndex
    <3>3. CASE job.shared
      <4> SUFFICES ASSUME jobs' # <<>> PROVE WalkMatchesIndex'
        BY DEF WalkMatchesIndex
      <4>1. /\ roomMessengerIndex'[job.id] = left
            /\ jobs' = Advance(job, rooms)
            /\ rooms \in Seq(Topics) /\ Len(rooms) = Len(job.rooms)
            /\ left \in Seq(Topics) /\ Len(left) = Len(job.rooms) - job.at
            /\ \A k \in 1 .. Len(left) : left[k] = rooms[k]
            /\ \A k \in job.at + 1 .. Len(rooms) : rooms[k] = job.rooms[k]
            /\ \A t \in Topics :
                 Cardinality(Remaining(job, t) \ {job.at}) = Copies(left, t)
        BY <2>5, <3>3, WalkStep
      <4> HIDE DEF left, rooms
      <4>2. /\ next.rooms = rooms /\ next.at = job.at + 1 /\ next.id = job.id
            /\ next.create = job.create
        BY <2>3, <3>1, <4>1
      <4>3. ~next.create BY <3>1, <3>3, <4>2 DEF WalkMatchesIndex
      <4> HIDE DEF next, job
      <4>4. Len(rooms) \in Nat BY <4>1, LenProperties
      <4>5. Len(left) = Len(next.rooms) - next.at + 1
        BY <3>1, <4>1, <4>2, <4>4
      <4>6. \A t \in Topics : Remaining(next, t) = Remaining(job, t) \ {job.at}
        BY <3>1, <4>1, <4>2, <4>4 DEF Remaining
      <4>7. roomMessengerIndex'[next.id] = left BY <4>1, <4>2
      <4>8. /\ ~next.create
            /\ Len(roomMessengerIndex'[next.id])
                 = Len(next.rooms) - next.at + 1
            /\ \A k \in 1 .. Len(roomMessengerIndex'[next.id]) :
                 roomMessengerIndex'[next.id][k] = next.rooms[k]
            /\ \A t \in Topics : Cardinality(Remaining(next, t))
                                 = Copies(roomMessengerIndex'[next.id], t)
        BY <4>1, <4>2, <4>3, <4>5, <4>6, <4>7
      <4> QED BY <4>8 DEF WalkMatchesIndex, next
    <3> QED BY <3>2, <3>3
  <2> QED BY <2>1, <2>2, <2>4, <2>5, OthersLeaveRegistries
<1> QED BY <1>1, <1>2, TypeCorrect, IndexCorrect, PTL DEF Spec

\* The iteration that ends a whole deregistration leaves no registration
\* behind: the index is empty then, and the registry is its inverse.
LEMMA WholeEndsClear ==
  ASSUME TypeOK, TypeOK', IndexMatchesRegistry, WalkMatchesIndex, [Next]_vars,
         jobs # <<>>, Head(jobs).shared, jobs' = <<>>, NEW t \in Topics
  PROVE  ~Registered(Head(jobs).id, messengerRegistry'[t])
<1> DEFINE job == Head(jobs)
           index == roomMessengerIndex[job.id]
           j == FirstHit(index, job.rooms[job.at])
           left == SwapRemove(index, j)
           rooms == Through(job.rooms, index, j)
<1>1. deregisterMessenger
  <2>1. ~RegistriesUnchanged BY DEF RegistriesUnchanged
  <2>2. ~StartJob BY DEF StartJob, AtSelect
  <2>3. ~registerMessenger BY DEF registerMessenger, WalkMatchesIndex
  <2> QED BY <2>1, <2>2, <2>3, OthersLeaveRegistries
<1>2. /\ job.id \in ConnID /\ job.rooms \in Seq(Topics)
      /\ job.at \in 1 .. Len(job.rooms)
  BY <1>1, HeadJobType DEF deregisterMessenger
<1>3. /\ roomMessengerIndex'[job.id] = left
      /\ jobs' = Advance(job, rooms)
      /\ Len(rooms) = Len(job.rooms)
      /\ Len(left) = Len(job.rooms) - job.at
  BY <1>1, WalkStep
<1> HIDE DEF left, rooms
<1>4. job.at = Len(rooms) BY <1>3 DEF Advance
<1> HIDE DEF job
<1>5. Len(left) = 0
  <2>1. Len(job.rooms) \in Nat BY <1>2, LenProperties
  <2> QED BY <1>3, <1>4, <2>1
<1>6. IndexMatchesRegistry' BY <1>1, DeregisterKeepsIndex
<1>7. Hits(left, t) = {} BY <1>5 DEF Hits
<1>8. Copies(left, t) = 0 BY <1>7, FS_EmptySet DEF Copies
<1>9. Copies(IDs(messengerRegistry'[t]), job.id) = 0
  BY <1>2, <1>3, <1>6, <1>8 DEF IndexMatchesRegistry
<1>10. messengerRegistry'[t] \in Seq(Registration) BY DEF TypeOK
<1>11. IDs(messengerRegistry'[t]) \in Seq(ConnID) BY <1>10, IDsType
<1>12. Hits(IDs(messengerRegistry'[t]), job.id) = {}
  BY <1>9, <1>11, CopiesZero
<1> QED BY <1>12 DEF Registered, job

\* When a whole deregistration ends, it has cleared its messenger from every
\* topic.
THEOREM DeregistrationClears == Spec => FullDeregistrationClears
<1> DEFINE Clears ==
      \A i \in ConnID :
        /\ jobs # <<>> /\ Head(jobs).shared /\ Head(jobs).id = i
        /\ jobs' = <<>>
        => \A t \in Topics : ~Registered(i, messengerRegistry'[t])
<1>1. TypeOK /\ TypeOK' /\ IndexMatchesRegistry /\ WalkMatchesIndex /\ [Next]_vars
        => [Clears]_vars
  BY WholeEndsClear
<1> QED BY <1>1, TypeCorrect, IndexCorrect, WalkCorrect, PTL
  DEF Spec, FullDeregistrationClears

-----------------------------------------------------------------------------
\* A send that passed the len < cap check finds room: until it is done the
\* goroutine does nothing else, and the pumps only take from the channels.
THEOREM AdmittedNeverBlocks == Spec => []AdmittedSendNeverBlocks
<1>1. Init => AdmittedSendNeverBlocks BY DEF Init, AdmittedSendNeverBlocks
<1>2. TypeOK /\ AdmittedSendNeverBlocks /\ [Next]_vars
        => AdmittedSendNeverBlocks'
  <2> SUFFICES ASSUME TypeOK, AdmittedSendNeverBlocks, [Next]_vars, admitted'
               PROVE  /\ attempts' # <<>>
                      /\ WriteCap > Len(writeChannel'[Head(attempts').reg.chan])
    BY DEF AdmittedSendNeverBlocks, HasRoom
  <2> USE DEF AdmittedSendNeverBlocks, HasRoom
  <2>1. CASE UNCHANGED <<attempts, admitted, writeChannel>>
    BY <2>1
  <2>2. ASSUME NEW c \in Chan, Receive(c)
        PROVE  /\ attempts' # <<>>
               /\ WriteCap > Len(writeChannel'[Head(attempts').reg.chan])
    <3> DEFINE d == Head(attempts).reg.chan
    <3>1. /\ UNCHANGED <<attempts, admitted>>
          /\ writeChannel[c] # <<>>
          /\ writeChannel' = [writeChannel EXCEPT ![c] = Tail(writeChannel[c])]
      BY <2>2 DEF Receive, dispatch
    <3>2. attempts # <<>> /\ WriteCap > Len(writeChannel[d]) BY <3>1
    <3>3. d \in Chan
      <4>1. attempts \in Seq(Attempt) BY DEF TypeOK
      <4>2. Head(attempts) \in Attempt BY <3>2, <4>1, HeadTailProperties
      <4>3. Head(attempts).reg \in Registration BY <4>2 DEF Attempt
      <4> QED BY <4>3 DEF Registration
    <3>4. writeChannel[c] \in Seq(EventWrapper) BY DEF TypeOK
    <3>5. Len(writeChannel[c]) \in Nat
          /\ Len(Tail(writeChannel[c])) = Len(writeChannel[c]) - 1
      BY <3>1, <3>4, LenProperties, HeadTailProperties
    <3>6. WriteCap \in Nat BY NexusAssumption
    <3> HIDE DEF d
    <3>7. WriteCap > Len(writeChannel'[d])
      <4>1. CASE d = c
        <5>1. writeChannel'[d] = Tail(writeChannel[c])
          BY <3>1, <3>3, <4>1 DEF TypeOK
        <5> QED BY <3>2, <3>5, <3>6, <4>1, <5>1
      <4>2. CASE d # c
        <5>1. writeChannel'[d] = writeChannel[d]
          BY <3>1, <3>3, <4>2 DEF TypeOK
        <5> QED BY <3>2, <5>1
      <4> QED BY <4>1, <4>2
    <3> QED BY <3>1, <3>2, <3>7 DEF d
  <2>3. CASE RouteEvent BY <2>3 DEF RouteEvent, AtSelect
  <2>4. CASE SkipAttempt BY <2>4 DEF SkipAttempt
  <2>5. CASE AdmitAttempt BY <2>5 DEF AdmitAttempt
  <2>6. CASE SendAttempt BY <2>6 DEF SendAttempt
  <2>7. \/ UNCHANGED <<attempts, admitted, writeChannel>>
        \/ \E c \in Chan : Receive(c)
        \/ RouteEvent \/ SkipAttempt \/ AdmitAttempt \/ SendAttempt
    BY DEF Next, Environment, Dispatch, Reregister, vars, dispatch,
           RegisterConnection, DeregisterConnection, ChangeSubscription,
           SubmitRegistrationChange, Submit, ChangePeer, StartJob,
           registerMessenger, deregisterMessenger
  <2> QED BY <2>1, <2>2, <2>3, <2>4, <2>5, <2>6, <2>7
<1> QED BY <1>1, <1>2, TypeCorrect, PTL DEF Spec

-----------------------------------------------------------------------------
(***************************************************************************)
(* Who is registered where.  The address of a connection carries its type, *)
(* so a registration is found only in the registries of its own kind, and  *)
(* only under the ID of the channel it names.                              *)
(***************************************************************************)

\* The registrations in regs are of connections of that kind, each under the
\* ID of its channel.
OfKind(regs, kind) ==
  \A x \in Range(regs) : KindOf[x.id] = kind /\ x.id = IdOf[x.chan]

\* No ID is registered twice.
Distinct(regs) ==
  \A j, k \in 1 .. Len(regs) : regs[j].id = regs[k].id => j = k

\* What may wait in registrationChannel.
Proper(r) == r.type = KindOf[r.id] /\ (r.create => r.id = IdOf[r.chan])

WellNamed ==
  /\ \A r \in Range(registrationChannel) : Proper(r)
  /\ jobs # <<>> =>
       LET job == Head(jobs) IN
         KindOf[job.id] = Messenger /\ (job.create => job.id = IdOf[job.chan])
  /\ OfKind(hubRegistry, Hub) /\ Distinct(hubRegistry)
  /\ OfKind(repeaterRegistry, Repeater) /\ Distinct(repeaterRegistry)
  /\ \A t \in Topics : OfKind(messengerRegistry[t], Messenger)

\* A registry holds an ID iff the scan finds it.
LEMMA RegisteredInRange ==
  ASSUME NEW regs \in Seq(Registration), NEW i
  PROVE  Hits(IDs(regs), i) # {} <=> \E x \in Range(regs) : x.id = i
<1>1. Range(regs) = {regs[k] : k \in 1 .. Len(regs)} BY RangeEquality
<1>2. /\ Len(IDs(regs)) = Len(regs)
      /\ \A k \in 1 .. Len(regs) : IDs(regs)[k] = regs[k].id
  BY IDsType
<1> QED BY <1>1, <1>2 DEF Hits

\* What a hub's or a repeater's change makes of its registry: a registration
\* of an ID that is there already is ignored, a deregistration leaves nothing
\* of its ID, and the others stay.
LEMMA ApplyEffect ==
  ASSUME NEW r \in RegistrationChange, NEW regs \in Seq(Registration),
         Distinct(regs)
  PROVE  /\ Distinct(Apply(r, regs))
         /\ r.create => Range(Apply(r, regs)) =
              IF \E x \in Range(regs) : x.id = r.id
              THEN Range(regs)
              ELSE Range(regs) \cup {[id |-> r.id, chan |-> r.chan]}
         /\ ~r.create => Range(Apply(r, regs)) =
                           {x \in Range(regs) : x.id # r.id}
<1> DEFINE n == Len(regs)
           new == [id |-> r.id, chan |-> r.chan]
<1>1. n \in Nat BY LenProperties
<1>2. Range(regs) = {regs[k] : k \in 1 .. n} BY RangeEquality
<1>3. Hits(IDs(regs), r.id) # {} <=> \E x \in Range(regs) : x.id = r.id
  BY RegisteredInRange
<1>4. CASE r.create
  <2>1. CASE \E x \in Range(regs) : x.id = r.id
    BY <1>3, <1>4, <2>1 DEF Apply, addToRegistration
  <2>2. CASE ~ \E x \in Range(regs) : x.id = r.id
    <3>1. Apply(r, regs) = Append(regs, new)
      BY <1>3, <1>4, <2>2 DEF Apply, addToRegistration
    <3>2. new \in Registration BY <1>4 DEF RegistrationChange, Registration
    <3>3. new.id = r.id OBVIOUS
    <3> HIDE DEF new
    <3>4. Range(Append(regs, new)) = Range(regs) \cup {new}
      BY <3>2, RangeAppend
    <3>5. /\ Len(Append(regs, new)) = n + 1
          /\ \A k \in 1 .. n : Append(regs, new)[k] = regs[k]
          /\ Append(regs, new)[n + 1] = new
      BY <3>2, AppendProperties
    <3>6. \A k \in 1 .. n : regs[k].id # r.id BY <1>2, <2>2
    <3>7. Distinct(Append(regs, new))
      <4> SUFFICES ASSUME NEW j \in 1 .. n + 1, NEW k \in 1 .. n + 1,
                          Append(regs, new)[j].id = Append(regs, new)[k].id
                   PROVE  j = k
        BY <3>5 DEF Distinct
      <4>1. CASE j \in 1 .. n /\ k \in 1 .. n
        BY <3>5, <4>1 DEF Distinct
      <4>2. CASE j = n + 1 /\ k \in 1 .. n BY <3>3, <3>5, <3>6, <4>2
      <4>3. CASE k = n + 1 /\ j \in 1 .. n BY <3>3, <3>5, <3>6, <4>3
      <4> QED BY <1>1, <4>1, <4>2, <4>3
    <3> QED BY <1>4, <2>2, <3>1, <3>4, <3>7 DEF new
  <2> QED BY <2>1, <2>2
<1>5. CASE ~r.create
  <2>1. CASE ~ \E x \in Range(regs) : x.id = r.id
    BY <1>3, <1>5, <2>1 DEF Apply, removeFromRegistration
  <2>2. CASE \E x \in Range(regs) : x.id = r.id
    <3> DEFINE f == FirstHit(IDs(regs), r.id)
               rest == SwapRemove(regs, f)
    <3>1. Apply(r, regs) = rest
      BY <1>3, <1>5, <2>2 DEF Apply, removeFromRegistration
    <3>2. /\ IDs(regs) \in Seq(ConnID) /\ Len(IDs(regs)) = n
          /\ \A k \in 1 .. n : IDs(regs)[k] = regs[k].id
      BY IDsType
    <3>3. f \in 1 .. n /\ regs[f].id = r.id
      <4>1. f \in 1 .. Len(IDs(regs)) /\ IDs(regs)[f] = r.id
        BY <1>3, <2>2, <3>2, FirstHitFinds
      <4> HIDE DEF f
      <4> QED BY <3>2, <4>1
    <3> HIDE DEF f
    <3>4. /\ rest \in Seq(Registration) /\ Len(rest) = n - 1
          /\ \A k \in 1 .. n - 1 : rest[k] = IF k = f THEN regs[n] ELSE regs[k]
      BY <3>3, SwapRemoveType
    <3>5. /\ Range(rest) \subseteq Range(regs)
          /\ Range(regs) \ {regs[f]} \subseteq Range(rest)
      BY <3>3, RangeSwapRemove
    <3>6. Range(rest) = {rest[k] : k \in 1 .. n - 1}
      <4> HIDE DEF rest
      <4> QED BY <3>4, RangeEquality
    <3> HIDE DEF rest
    <3>7. ASSUME NEW k \in 1 .. n - 1 PROVE rest[k].id # r.id
      <4>1. PICK h \in 1 .. n : rest[k] = regs[h] /\ h # f
        <5>1. CASE k = f
          <6>1. n \in 1 .. n /\ n # f BY <1>1, <3>3, <5>1
          <6> QED BY <3>4, <5>1, <6>1
        <5>2. CASE k # f
          <6>1. k \in 1 .. n BY <1>1
          <6> QED BY <3>4, <5>2, <6>1
        <5> QED BY <5>1, <5>2
      <4> QED BY <3>3, <4>1 DEF Distinct
    <3>8. Range(rest) = {x \in Range(regs) : x.id # r.id}
      BY <3>3, <3>5, <3>6, <3>7
    <3>9. Distinct(rest)
      <4> SUFFICES ASSUME NEW j \in 1 .. n - 1, NEW k \in 1 .. n - 1,
                          rest[j].id = rest[k].id
                   PROVE  j = k
        BY <3>4 DEF Distinct
      <4>1. j \in 1 .. n /\ k \in 1 .. n /\ n \in 1 .. n /\ n # j /\ n # k
        BY <1>1, <3>3
      <4>2. rest[j] = IF j = f THEN regs[n] ELSE regs[j] BY <3>4
      <4>3. rest[k] = IF k = f THEN regs[n] ELSE regs[k] BY <3>4
      <4> QED BY <4>1, <4>2, <4>3 DEF Distinct
    <3> QED BY <1>5, <3>1, <3>8, <3>9
  <2> QED BY <2>1, <2>2
<1> QED BY <1>4, <1>5

\* The changes the three operations submit.
LEMMA RegisterSubmits ==
  ASSUME NEW c \in Chan, RegisterConnection(c)
  PROVE  \E r \in RegistrationChange :
           /\ SubmitRegistrationChange(r)
           /\ r.type = KindOf[r.id] /\ r.id = IdOf[c] /\ r.chan = c /\ r.create
<1> DEFINE r == [type |-> KindOf[IdOf[c]], id |-> IdOf[c], chan |-> c,
                 create |-> TRUE, rooms |-> <<>>]
<1>1. <<>> \in Seq(Topics) /\ IdOf[c] \in ConnID /\ KindOf[IdOf[c]] \in Kind
  BY EmptySeq, NexusAssumption
<1>2. r \in RegistrationChange BY <1>1, NexusAssumption DEF RegistrationChange
<1>3. SubmitRegistrationChange(r) BY DEF RegisterConnection
<1>4. r.type = KindOf[r.id] /\ r.id = IdOf[c] /\ r.chan = c /\ r.create
  OBVIOUS
<1> HIDE DEF r
<1> QED BY <1>2, <1>3, <1>4

\* DeregisterConnection submits the deregistration of a whole connection.
LEMMA DeregisterSubmits ==
  ASSUME NEW i \in ConnID, DeregisterConnection(i)
  PROVE  \E r \in RegistrationChange :
           /\ SubmitRegistrationChange(r)
           /\ r.type = KindOf[r.id] /\ r.id = i /\ ~r.create /\ r.rooms = <<>>
<1> DEFINE r == [type |-> KindOf[i], id |-> i, chan |-> NoChan,
                 create |-> FALSE, rooms |-> <<>>]
<1>1. <<>> \in Seq(Topics) /\ KindOf[i] \in Kind
  BY EmptySeq, NexusAssumption
<1>2. r \in RegistrationChange BY <1>1, NexusAssumption DEF RegistrationChange
<1>3. SubmitRegistrationChange(r) BY DEF DeregisterConnection
<1>4. r.type = KindOf[r.id] /\ r.id = i /\ ~r.create /\ r.rooms = <<>>
  OBVIOUS
<1> HIDE DEF r
<1> QED BY <1>2, <1>3, <1>4

\* A subscription message submits a change of the messenger it came from.
LEMMA SubscriptionSubmits ==
  ASSUME NEW c \in Chan, NEW rooms \in RoomLists, NEW create \in BOOLEAN,
         ChangeSubscription(c, rooms, create)
  PROVE  \E r \in RegistrationChange :
           /\ SubmitRegistrationChange(r)
           /\ r.type = KindOf[r.id] /\ r.id = IdOf[c] /\ r.chan = c
           /\ r.type = Messenger
<1> DEFINE r == [type |-> Messenger, id |-> IdOf[c], chan |-> c,
                 create |-> create, rooms |-> rooms]
<1>1. rooms \in Seq(Topics) /\ IdOf[c] \in ConnID BY NexusAssumption
<1>2. r \in RegistrationChange
  BY <1>1, NexusAssumption DEF RegistrationChange, Kind
<1>3. SubmitRegistrationChange(r) BY DEF ChangeSubscription
<1>4. KindOf[IdOf[c]] = Messenger BY DEF ChangeSubscription
<1>5. r.type = KindOf[r.id] /\ r.id = IdOf[c] /\ r.chan = c /\ r.type = Messenger
  BY <1>4
<1> HIDE DEF r
<1> QED BY <1>2, <1>3, <1>5

\* What waits in registrationChannel after a change is submitted, and after
\* the router takes one.
LEMMA ChannelAfterSubmit ==
  ASSUME TypeOK, NEW r \in RegistrationChange, SubmitRegistrationChange(r)
  PROVE  Range(registrationChannel') = Range(registrationChannel) \cup {r}
<1>1. registrationChannel \in Seq(RegistrationChange) BY DEF TypeOK, Bounded
<1>2. registrationChannel' = Append(registrationChannel, r)
  BY DEF SubmitRegistrationChange
<1> QED BY <1>1, <1>2, RangeAppend

\* The router takes the oldest change and leaves the others.
LEMMA ChannelAfterTake ==
  ASSUME TypeOK, registrationChannel # <<>>,
         registrationChannel' = Tail(registrationChannel)
  PROVE  /\ Head(registrationChannel) \in RegistrationChange
         /\ Range(registrationChannel) =
              {Head(registrationChannel)} \cup Range(registrationChannel')
<1>1. registrationChannel \in Seq(RegistrationChange) BY DEF TypeOK, Bounded
<1> QED BY <1>1, RangeTail

\* Submitting a proper change leaves everything well named.
LEMMA SubmitNamed ==
  ASSUME TypeOK, WellNamed, NEW r \in RegistrationChange, Proper(r),
         SubmitRegistrationChange(r)
  PROVE  WellNamed'
<1>1. Range(registrationChannel') = Range(registrationChannel) \cup {r}
  BY ChannelAfterSubmit
<1>2. UNCHANGED <<registries, jobs>> BY DEF SubmitRegistrationChange
<1> QED BY <1>1, <1>2 DEF WellNamed, registries

\* What the router takes from registrationChannel is proper.
LEMMA HeadIsProper ==
  ASSUME TypeOK, WellNamed, registrationChannel # <<>>,
         registrationChannel' = Tail(registrationChannel)
  PROVE  /\ Proper(Head(registrationChannel))
         /\ \A r \in Range(registrationChannel') : Proper(r)
<1>1. Range(registrationChannel) =
        {Head(registrationChannel)} \cup Range(registrationChannel')
  BY ChannelAfterTake
<1> QED BY <1>1 DEF WellNamed

\* A hub's or a repeater's change keeps its registry well named.
LEMMA ApplyNamed ==
  ASSUME NEW r \in RegistrationChange, Proper(r),
         NEW regs \in Seq(Registration), OfKind(regs, r.type), Distinct(regs)
  PROVE  OfKind(Apply(r, regs), r.type) /\ Distinct(Apply(r, regs))
<1>1. r.create => Range(Apply(r, regs)) \subseteq
                    Range(regs) \cup {[id |-> r.id, chan |-> r.chan]}
  BY ApplyEffect
<1>2. ~r.create => Range(Apply(r, regs)) \subseteq Range(regs)
  BY ApplyEffect
<1>3. r.create \in BOOLEAN BY DEF RegistrationChange
<1> QED BY <1>1, <1>2, <1>3, ApplyEffect DEF OfKind, Proper

\* A hub's or a repeater's change keeps everything well named.
LEMMA ChangePeerNamed ==
  ASSUME TypeOK, WellNamed, ChangePeer
  PROVE  WellNamed'
<1> DEFINE r == Head(registrationChannel)
<1>1. /\ registrationChannel # <<>>
      /\ registrationChannel' = Tail(registrationChannel)
      /\ hubRegistry' = IF r.type = Hub THEN Apply(r, hubRegistry)
                                        ELSE hubRegistry
      /\ repeaterRegistry' = IF r.type = Repeater
                             THEN Apply(r, repeaterRegistry)
                             ELSE repeaterRegistry
      /\ UNCHANGED <<messengerRegistry, jobs>>
  BY DEF ChangePeer
<1>2. Proper(r) /\ \A q \in Range(registrationChannel') : Proper(q)
  BY <1>1, HeadIsProper
<1>3. r \in RegistrationChange BY <1>1, ChannelAfterTake
<1>4. hubRegistry \in Seq(Registration) /\ repeaterRegistry \in Seq(Registration)
  BY DEF TypeOK
<1> HIDE DEF r
<1>5. OfKind(hubRegistry', Hub) /\ Distinct(hubRegistry')
  BY <1>1, <1>2, <1>3, <1>4, ApplyNamed DEF WellNamed
<1>6. OfKind(repeaterRegistry', Repeater) /\ Distinct(repeaterRegistry')
  BY <1>1, <1>2, <1>3, <1>4, ApplyNamed DEF WellNamed
<1> QED BY <1>1, <1>2, <1>5, <1>6 DEF WellNamed

\* The start of a messenger's change hands its name on to the job.
LEMMA StartJobNamed ==
  ASSUME TypeOK, WellNamed, StartJob
  PROVE  WellNamed'
<1> DEFINE r == Head(registrationChannel)
<1>1. /\ registrationChannel # <<>>
      /\ registrationChannel' = Tail(registrationChannel)
      /\ r.type = Messenger
      /\ UNCHANGED registries
  BY DEF StartJob
<1>2. Proper(r) /\ \A q \in Range(registrationChannel') : Proper(q)
  BY <1>1, HeadIsProper
<1>3. jobs' # <<>> => /\ Head(jobs').id = r.id /\ Head(jobs').chan = r.chan
                      /\ Head(jobs').create = r.create
  BY DEF StartJob
<1> HIDE DEF r
<1> QED BY <1>1, <1>2, <1>3 DEF WellNamed, registries, Proper

\* A job keeps its name from one iteration to the next.
LEMMA IterationKeepsJob ==
  ASSUME TypeOK, registerMessenger \/ deregisterMessenger, jobs' # <<>>
  PROVE  /\ Head(jobs').id = Head(jobs).id
         /\ Head(jobs').chan = Head(jobs).chan
         /\ Head(jobs').create = Head(jobs).create
         /\ Head(jobs').shared = Head(jobs).shared
<1>1. jobs # <<>> /\ Head(jobs) \in Job
  BY HeadJobType DEF registerMessenger, deregisterMessenger
<1>2. PICK rooms : jobs' = Advance(Head(jobs), rooms)
  BY DEF registerMessenger, deregisterMessenger
<1> QED BY <1>1, <1>2, AdvanceFields

\* An iteration of a registration adds the registration of the job, one of a
\* deregistration adds none; neither touches other IDs.
LEMMA IterationEffect ==
  ASSUME TypeOK, registerMessenger \/ deregisterMessenger, NEW t \in Topics
  PROVE  /\ registerMessenger <=> Head(jobs).create
         /\ Head(jobs).create =>
              Range(messengerRegistry'[t]) \subseteq
                Range(messengerRegistry[t])
                  \cup {[id |-> Head(jobs).id, chan |-> Head(jobs).chan]}
         /\ ~Head(jobs).create =>
              Range(messengerRegistry'[t]) \subseteq Range(messengerRegistry[t])
         /\ \A x \in Range(messengerRegistry[t]) :
              x.id # Head(jobs).id => x \in Range(messengerRegistry'[t])
<1> DEFINE job == Head(jobs)
           cur == job.rooms[job.at]
           v == messengerRegistry[cur]
           reg == [id |-> job.id, chan |-> job.chan]
<1>1. jobs # <<>> /\ job \in Job /\ cur \in Topics /\ job.id \in ConnID
  BY HeadJobType DEF registerMessenger, deregisterMessenger
<1>2. v \in Seq(Registration) BY <1>1 DEF TypeOK
<1>3. messengerRegistry \in [Topics -> Seq(Registration)] BY DEF TypeOK
<1>4. CASE registerMessenger
  <2>1. /\ job.create
        /\ messengerRegistry' = [messengerRegistry EXCEPT ![cur] = Append(v, reg)]
    BY <1>4 DEF registerMessenger
  <2>2. reg \in Registration BY <1>1, <2>1 DEF Job, Registration
  <2> HIDE DEF reg, v, cur, job
  <2>3. Range(Append(v, reg)) = Range(v) \cup {reg}
    BY <1>2, <2>2, RangeAppend
  <2>4. /\ Range(messengerRegistry'[t]) \subseteq
             Range(messengerRegistry[t]) \cup {reg}
        /\ Range(messengerRegistry[t]) \subseteq Range(messengerRegistry'[t])
    BY <1>3, <2>1, <2>3 DEF v
  <2> QED BY <1>4, <2>1, <2>4 DEF reg, job
<1>5. CASE deregisterMessenger
  <2> DEFINE f == FirstHit(IDs(v), job.id)
  <2>1. /\ ~job.create
        /\ messengerRegistry' =
             IF Hits(IDs(v), job.id) # {}
             THEN [messengerRegistry EXCEPT ![cur] = SwapRemove(v, f)]
             ELSE messengerRegistry
    BY <1>5 DEF deregisterMessenger
  <2>2. Hits(IDs(v), job.id) # {} => f \in 1 .. Len(v) /\ v[f].id = job.id
    <3>1. /\ IDs(v) \in Seq(ConnID) /\ Len(IDs(v)) = Len(v)
          /\ \A k \in 1 .. Len(v) : IDs(v)[k] = v[k].id
      BY <1>2, IDsType
    <3>2. ASSUME Hits(IDs(v), job.id) # {}
          PROVE  f \in 1 .. Len(IDs(v)) /\ IDs(v)[f] = job.id
      <4> HIDE DEF v
      <4> QED BY <3>1, <3>2, FirstHitFinds
    <3> HIDE DEF f, v
    <3> QED BY <3>1, <3>2
  <2> HIDE DEF f, v, cur, job
  <2>3. Hits(IDs(v), job.id) # {} =>
          /\ Range(SwapRemove(v, f)) \subseteq Range(v)
          /\ \A x \in Range(v) : x.id # job.id => x \in Range(SwapRemove(v, f))
    BY <1>2, <2>2, RangeSwapRemove
  <2>4. /\ Range(messengerRegistry'[t]) \subseteq Range(messengerRegistry[t])
        /\ \A x \in Range(messengerRegistry[t]) :
             x.id # job.id => x \in Range(messengerRegistry'[t])
    BY <1>3, <2>1, <2>3 DEF v
  <2>5. ~registerMessenger BY <2>1 DEF registerMessenger, job
  <2> QED BY <2>1, <2>4, <2>5 DEF job
<1> QED BY <1>4, <1>5

\* An iteration of a messenger's change keeps everything well named.
LEMMA IterationNamed ==
  ASSUME TypeOK, WellNamed, registerMessenger \/ deregisterMessenger
  PROVE  WellNamed'
<1>1. jobs # <<>> BY DEF registerMessenger, deregisterMessenger
<1>2. UNCHANGED <<hubRegistry, repeaterRegistry, registrationChannel>>
  BY DEF registerMessenger, deregisterMessenger
<1>3. \A t \in Topics : OfKind(messengerRegistry'[t], Messenger)
  <2> SUFFICES ASSUME NEW t \in Topics, NEW x \in Range(messengerRegistry'[t])
               PROVE  KindOf[x.id] = Messenger /\ x.id = IdOf[x.chan]
    BY DEF OfKind
  <2>1. CASE x \in Range(messengerRegistry[t])
    BY <2>1 DEF WellNamed, OfKind
  <2>2. CASE x \notin Range(messengerRegistry[t])
    <3>1. /\ Head(jobs).create
          /\ x = [id |-> Head(jobs).id, chan |-> Head(jobs).chan]
      BY <2>2, IterationEffect
    <3> QED BY <1>1, <3>1 DEF WellNamed
  <2> QED BY <2>1, <2>2
<1>4. jobs' # <<>> =>
        /\ KindOf[Head(jobs').id] = Messenger
        /\ Head(jobs').create => Head(jobs').id = IdOf[Head(jobs').chan]
  BY <1>1, IterationKeepsJob DEF WellNamed
<1> QED BY <1>2, <1>3, <1>4 DEF WellNamed

\* Everything is well named in every reachable state.
LEMMA NamesCorrect == Spec => []WellNamed
<1>1. Init => WellNamed
  <2>1. Range(<<>>) = {} BY DEF Range
  <2> QED BY <2>1 DEF Init, WellNamed, OfKind, Distinct
<1>2. TypeOK /\ WellNamed /\ [Next]_vars => WellNamed'
  <2> SUFFICES ASSUME TypeOK, WellNamed, [Next]_vars PROVE WellNamed'
    OBVIOUS
  <2>1. CASE UNCHANGED <<registries, registrationChannel, jobs>>
    BY <2>1 DEF WellNamed, registries
  <2>2. ASSUME NEW c \in Chan, RegisterConnection(c) PROVE WellNamed'
    BY <2>2, RegisterSubmits, SubmitNamed DEF Proper
  <2>3. ASSUME NEW c \in Chan, DeregisterConnection(IdOf[c]) PROVE WellNamed'
    <3>1. IdOf[c] \in ConnID BY NexusAssumption
    <3> QED BY <2>3, <3>1, DeregisterSubmits, SubmitNamed DEF Proper
  <2>4. ASSUME NEW c \in Chan, NEW rooms \in RoomLists, NEW create \in BOOLEAN,
               ChangeSubscription(c, rooms, create)
        PROVE  WellNamed'
    BY <2>4, SubscriptionSubmits, SubmitNamed DEF Proper
  <2>5. CASE ChangePeer BY <2>5, ChangePeerNamed
  <2>6. CASE StartJob BY <2>6, StartJobNamed
  <2>7. CASE registerMessenger \/ deregisterMessenger
    BY <2>7, IterationNamed
  <2>8. \/ UNCHANGED <<registries, registrationChannel, jobs>>
        \/ \E c \in Chan : RegisterConnection(c)
        \/ \E c \in Chan : DeregisterConnection(IdOf[c])
        \/ \E c \in Chan, rooms \in RoomLists, create \in BOOLEAN :
             ChangeSubscription(c, rooms, create)
        \/ ChangePeer \/ StartJob \/ registerMessenger \/ deregisterMessenger
    BY DEF Next, Environment, Dispatch, Reregister, vars, registries, Submit,
           Receive, RouteEvent, SkipAttempt, AdmitAttempt, SendAttempt
  <2> QED BY <2>1, <2>2, <2>3, <2>4, <2>5, <2>6, <2>7, <2>8
<1> QED BY <1>1, <1>2, TypeCorrect, PTL DEF Spec
=============================================================================
