--------------------------- MODULE RoutingProofs ---------------------------
(***************************************************************************)
(* The router implements EventRouting, and what follows for the events     *)
(* that the write pumps get: theorems about modules NexusRefinement and    *)
(* MCNexus, for every bound.                                               *)
(***************************************************************************)
EXTENDS MCNexus, NexusProofs

-----------------------------------------------------------------------------
(***************************************************************************)
(* What an event is routed to.                                             *)
(***************************************************************************)

\* Where the sends of an event go.
LEMMA GuardedIs ==
  ASSUME NEW regs \in Seq(Registration), NEW e
  PROVE  /\ Len(Guarded(regs, e)) = Len(regs)
         /\ \A k \in 1 .. Len(regs) :
              Guarded(regs, e)[k] = [reg |-> regs[k], e |-> e, guarded |-> TRUE]
<1>1. Len(regs) \in Nat BY LenProperties
<1>2. Guarded(regs, e) \in
        [1 .. Len(regs) -> {[reg |-> regs[k], e |-> e, guarded |-> TRUE] :
                              k \in 1 .. Len(regs)}]
  BY DEF Guarded
<1>3. Len(Guarded(regs, e)) = Len(regs) BY <1>1, <1>2, FunctionIsSeq
<1> QED BY <1>3 DEF Guarded

\* The two sends to each hub.
LEMMA TwiceIs ==
  ASSUME NEW regs \in Seq(Registration), NEW e
  PROVE  /\ Len(Twice(regs, e)) = 2 * Len(regs)
         /\ \A k \in 1 .. 2 * Len(regs) :
              /\ (k + 1) \div 2 \in 1 .. Len(regs)
              /\ Twice(regs, e)[k].reg = regs[(k + 1) \div 2]
              /\ Twice(regs, e)[k].e = e
<1>1. Len(regs) \in Nat /\ 2 * Len(regs) \in Nat BY LenProperties
<1>2. Twice(regs, e) \in
        [1 .. 2 * Len(regs) ->
           {[reg |-> regs[(k + 1) \div 2], e |-> e, guarded |-> k % 2 = 0] :
              k \in 1 .. 2 * Len(regs)}]
  BY DEF Twice
<1>3. Len(Twice(regs, e)) = 2 * Len(regs) BY <1>1, <1>2, FunctionIsSeq
<1>4. \A k \in 1 .. 2 * Len(regs) : (k + 1) \div 2 \in 1 .. Len(regs)
  BY <1>1
<1> QED BY <1>3, <1>4 DEF Twice

\* The registrations that the sends in s go to.
Targets(s) == {a.reg : a \in Range(s)}

\* Guarded sends to every registration, of this event, looking first.
LEMMA GuardedTargets ==
  ASSUME NEW regs \in Seq(Registration), NEW e \in HubEventWrapper
  PROVE  /\ Targets(Guarded(regs, e)) = Range(regs)
         /\ \A a \in Range(Guarded(regs, e)) : a.e = e /\ a.guarded
<1>1. Guarded(regs, e) \in Seq(Attempt) BY GuardedType
<1>2. Range(Guarded(regs, e)) =
        {Guarded(regs, e)[k] : k \in 1 .. Len(Guarded(regs, e))}
  BY <1>1, RangeEquality
<1>3. Range(regs) = {regs[k] : k \in 1 .. Len(regs)} BY RangeEquality
<1>4. \A k \in 1 .. Len(regs) : /\ Guarded(regs, e)[k].reg = regs[k]
                                /\ Guarded(regs, e)[k].e = e
                                /\ Guarded(regs, e)[k].guarded
  <2> SUFFICES ASSUME NEW k \in 1 .. Len(regs)
               PROVE  /\ Guarded(regs, e)[k].reg = regs[k]
                      /\ Guarded(regs, e)[k].e = e
                      /\ Guarded(regs, e)[k].guarded
    OBVIOUS
  <2>1. Guarded(regs, e)[k] = [reg |-> regs[k], e |-> e, guarded |-> TRUE]
    BY GuardedIs
  <2> QED BY <2>1
<1>5. Len(Guarded(regs, e)) = Len(regs) BY GuardedIs
<1> QED BY <1>2, <1>3, <1>4, <1>5 DEF Targets

\* Sending twice is sending to every registration too.
LEMMA TwiceTargets ==
  ASSUME NEW regs \in Seq(Registration), NEW e \in HubEventWrapper
  PROVE  /\ Targets(Twice(regs, e)) = Range(regs)
         /\ \A a \in Range(Twice(regs, e)) : a.e = e
<1>1. Twice(regs, e) \in Seq(Attempt) BY TwiceType
<1>2. Len(regs) \in Nat BY LenProperties
<1>3. Range(Twice(regs, e)) = {Twice(regs, e)[k] : k \in 1 .. 2 * Len(regs)}
  BY <1>1, TwiceIs, RangeEquality
<1>4. Range(regs) = {regs[k] : k \in 1 .. Len(regs)} BY RangeEquality
<1>5. ASSUME NEW k \in 1 .. Len(regs)
      PROVE  /\ 2 * k \in 1 .. 2 * Len(regs)
             /\ Twice(regs, e)[2 * k].reg = regs[k]
  <2>1. 2 * k \in 1 .. 2 * Len(regs) /\ (2 * k + 1) \div 2 = k BY <1>2
  <2> QED BY <2>1, TwiceIs
<1>6. Range(regs) \subseteq Targets(Twice(regs, e))
  BY <1>3, <1>4, <1>5 DEF Targets
<1>7. Targets(Twice(regs, e)) \subseteq Range(regs)
      /\ \A a \in Range(Twice(regs, e)) : a.e = e
  BY <1>3, <1>4, TwiceIs DEF Targets
<1> QED BY <1>6, <1>7

\* One repeater is sent to if there is one.
LEMMA OneRepeaterTargets ==
  ASSUME TypeOK, NEW e \in HubEventWrapper
  PROVE  /\ OneRepeater(e) \in Seq(Attempt)
         /\ Len(OneRepeater(e)) \in {0, 1}
         /\ \A a \in Range(OneRepeater(e)) : a.e = e /\ a.guarded
         /\ IF repeaterRegistry = <<>>
            THEN Targets(OneRepeater(e)) = {}
            ELSE \E x \in Range(repeaterRegistry) :
                   Targets(OneRepeater(e)) = {x}
<1>1. CASE repeaterRegistry = <<>>
  <2>1. Range(<<>>) = {} BY DEF Range
  <2> QED BY <1>1, <2>1, EmptySeq DEF OneRepeater, Targets
<1>2. CASE repeaterRegistry # <<>>
  <2> DEFINE x == repeaterRegistry[NextRepeater + 1]
             a == [reg |-> x, e |-> e, guarded |-> TRUE]
  <2>1. repeaterRegistry \in Seq(Registration) BY DEF TypeOK
  <2>2. NextRepeater + 1 \in 1 .. Len(repeaterRegistry)
    BY <1>2, NextRepeaterInRange
  <2>3. x \in Range(repeaterRegistry) /\ x \in Registration
    BY <2>1, <2>2, RangeEquality, ElementOfSeq
  <2>4. OneRepeater(e) = <<a>> BY <1>2 DEF OneRepeater
  <2> HIDE DEF x
  <2>5. a \in Attempt /\ a.reg = x /\ a.e = e /\ a.guarded
    BY <2>3 DEF Attempt
  <2> HIDE DEF a
  <2>6. <<a>> \in Seq(Attempt) /\ Len(<<a>>) = 1 BY <2>5
  <2>7. Range(<<a>>) = {a} BY <2>6 DEF Range
  <2>8. Targets(<<a>>) = {x} BY <2>5, <2>7 DEF Targets
  <2> QED BY <1>2, <2>3, <2>4, <2>5, <2>6, <2>7, <2>8
<1> QED BY <1>1, <1>2

\* A registry is empty exactly if nothing is registered.
LEMMA RangeEmpty ==
  ASSUME NEW S, NEW s \in Seq(S)
  PROVE  s = <<>> <=> Range(s) = {}
<1>1. Range(<<>>) = {} BY DEF Range
<1>2. s # <<>> => Head(s) \in Range(s) BY RangeTail
<1> QED BY <1>1, <1>2

\* The targets of two lists of sends.
LEMMA ConcatTargets ==
  ASSUME NEW s \in Seq(Attempt), NEW t \in Seq(Attempt)
  PROVE  /\ s \o t \in Seq(Attempt)
         /\ Range(s \o t) = Range(s) \cup Range(t)
         /\ Targets(s \o t) = Targets(s) \cup Targets(t)
         /\ Len(s) \in Nat /\ Len(t) \in Nat
         /\ Len(s \o t) = Len(s) + Len(t)
         /\ \A k \in 1 .. Len(s \o t) :
              \/ k \in 1 .. Len(s) /\ (s \o t)[k] = s[k]
              \/ k - Len(s) \in 1 .. Len(t) /\ (s \o t)[k] = t[k - Len(s)]
<1>1. s \o t \in Seq(Attempt) /\ Len(s) \in Nat /\ Len(t) \in Nat
      /\ Len(s \o t) = Len(s) + Len(t)
      /\ \A k \in 1 .. Len(s) + Len(t) :
           (s \o t)[k] = IF k <= Len(s) THEN s[k] ELSE t[k - Len(s)]
  BY ConcatProperties, LenProperties
<1>2. Range(s \o t) = Range(s) \cup Range(t) BY RangeConcatenation
<1>3. Targets(s \o t) = Targets(s) \cup Targets(t) BY <1>2 DEF Targets
<1> QED BY <1>1, <1>2, <1>3

-----------------------------------------------------------------------------
\* The audience of an event, as registrations.
Audience(e) ==
  [messengers |-> Range(messengerRegistry[e.room])
                    \cup Range(messengerRegistry[Star]),
   hubs |-> IF e.source = Messenger \/ (e.source = Repeater /\ ~RoomNexus)
            THEN Range(hubRegistry) ELSE {},
   repeaters |-> IF e.source = Messenger THEN Range(repeaterRegistry) ELSE {}]

\* What may be said of one send owed to an event.
SendOK(a) ==
  /\ KindOf[a.reg.id] \in Reaches(a.e.source)
  /\ a.reg.id = IdOf[a.reg.chan]
  /\ ~a.guarded => KindOf[a.reg.id] = Hub

\* The sends owed: only the last can be to a repeater.
SendsOK(s) ==
  \A k \in 1 .. Len(s) :
    SendOK(s[k]) /\ (KindOf[s[k].reg.id] = Repeater => k = Len(s))

\* What is sent besides to the messengers.
LEMMA OutwardIs ==
  ASSUME TypeOK, WellNamed, NEW e \in HubEventWrapper
  PROVE  /\ Outward(e) \in Seq(Attempt)
         /\ \A a \in Range(Outward(e)) : a.e = e
         /\ SendsOK(Outward(e))
         /\ \E out : /\ Targets(Outward(e)) = Audience(e).hubs \cup out
                     /\ IF Audience(e).repeaters = {} THEN out = {}
                        ELSE \E x \in Audience(e).repeaters : out = {x}
<1> DEFINE H == Guarded(hubRegistry, e)
           T == Twice(hubRegistry, e)
           R == OneRepeater(e)
<1>1. /\ hubRegistry \in Seq(Registration)
      /\ repeaterRegistry \in Seq(Registration)
  BY DEF TypeOK
<1>2. /\ H \in Seq(Attempt) /\ Targets(H) = Range(hubRegistry)
      /\ \A a \in Range(H) : a.e = e /\ a.guarded
  BY <1>1, GuardedType, GuardedTargets
<1>3. /\ T \in Seq(Attempt) /\ Targets(T) = Range(hubRegistry)
      /\ \A a \in Range(T) : a.e = e
  BY <1>1, TwiceType, TwiceTargets
<1>4. /\ R \in Seq(Attempt) /\ Len(R) \in {0, 1}
      /\ \A a \in Range(R) : a.e = e /\ a.guarded
      /\ IF repeaterRegistry = <<>> THEN Targets(R) = {}
         ELSE \E x \in Range(repeaterRegistry) : Targets(R) = {x}
  BY OneRepeaterTargets
<1>5. repeaterRegistry = <<>> <=> Range(repeaterRegistry) = {}
  BY <1>1, RangeEmpty
<1>6. e.source \in Kind /\ e.source \in {Messenger, Repeater, Hub}
  BY DEF HubEventWrapper, Kind
<1> HIDE DEF H, T, R
<1>7. \A s \in Seq(Attempt) : \A k \in 1 .. Len(s) : s[k] \in Range(s)
  BY RangeEquality
<1>8. \A x \in Range(hubRegistry) : KindOf[x.id] = Hub /\ x.id = IdOf[x.chan]
  BY DEF WellNamed, OfKind
<1>9. \A x \in Range(repeaterRegistry) :
        KindOf[x.id] = Repeater /\ x.id = IdOf[x.chan]
  BY DEF WellNamed, OfKind
<1>10. CASE e.source = Repeater /\ ~RoomNexus
  <2>1. Outward(e) = T BY <1>10 DEF Outward, T, Messenger, Repeater
  <2>2. ASSUME NEW k \in 1 .. Len(T)
        PROVE  SendOK(T[k]) /\ KindOf[T[k].reg.id] # Repeater
    <3>1. T[k] \in Range(T) BY <1>3, <1>7
    <3>2. T[k].e = e /\ T[k].reg \in Range(hubRegistry)
      BY <1>3, <3>1 DEF Targets
    <3>3. Reaches(e.source) = {Messenger, Hub}
      BY <1>10 DEF Reaches, Messenger, Repeater, Hub
    <3> QED BY <1>8, <3>2, <3>3 DEF SendOK, Hub, Repeater
  <2>3. Audience(e).hubs = Range(hubRegistry) /\ Audience(e).repeaters = {}
    BY <1>10 DEF Audience, Messenger, Repeater
  <2> QED BY <1>3, <2>1, <2>2, <2>3 DEF SendsOK
<1>11. CASE e.source = Messenger
  <2>1. Outward(e) = H \o R
    BY <1>11 DEF Outward, H, R, Messenger, Repeater
  <2>2. /\ H \o R \in Seq(Attempt)
        /\ Range(H \o R) = Range(H) \cup Range(R)
        /\ Targets(H \o R) = Targets(H) \cup Targets(R)
        /\ Len(H) \in Nat /\ Len(H \o R) = Len(H) + Len(R)
        /\ \A k \in 1 .. Len(H \o R) :
              \/ k \in 1 .. Len(H) /\ (H \o R)[k] = H[k]
              \/ k - Len(H) \in 1 .. Len(R) /\ (H \o R)[k] = R[k - Len(H)]
    BY <1>2, <1>4, ConcatTargets
  <2>3. Reaches(e.source) = Kind BY <1>11 DEF Reaches, Messenger, Repeater, Hub
  <2>4. ASSUME NEW k \in 1 .. Len(H \o R)
        PROVE  /\ SendOK((H \o R)[k])
               /\ KindOf[(H \o R)[k].reg.id] = Repeater => k = Len(H \o R)
    <3>1. CASE k \in 1 .. Len(H) /\ (H \o R)[k] = H[k]
      <4>1. H[k] \in Range(H) BY <1>2, <1>7, <3>1
      <4>2. H[k].e = e /\ H[k].reg \in Range(hubRegistry)
        BY <1>2, <4>1 DEF Targets
      <4> QED BY <1>8, <2>3, <3>1, <4>2 DEF SendOK, Kind, Hub, Repeater
    <3>2. CASE k - Len(H) \in 1 .. Len(R) /\ (H \o R)[k] = R[k - Len(H)]
      <4> DEFINE j == k - Len(H)
      <4>1. R[j] \in Range(R) BY <1>4, <1>7, <3>2
      <4>2. R[j].e = e /\ R[j].reg \in Range(repeaterRegistry) /\ R[j].guarded
        BY <1>4, <4>1 DEF Targets
      <4>3. SendOK(R[j]) BY <1>9, <2>3, <4>2 DEF SendOK, Kind
      <4>4. k = Len(H \o R) BY <1>4, <2>2, <3>2
      <4> QED BY <3>2, <4>3, <4>4
    <3> QED BY <2>2, <3>1, <3>2
  <2>5. /\ Audience(e).hubs = Range(hubRegistry)
        /\ Audience(e).repeaters = Range(repeaterRegistry)
    BY <1>11 DEF Audience
  <2>6. SendsOK(H \o R) BY <2>4 DEF SendsOK
  <2>7. \A a \in Range(H \o R) : a.e = e BY <1>2, <1>4, <2>2
  <2>8. /\ Targets(H \o R) = Audience(e).hubs \cup Targets(R)
        /\ IF Audience(e).repeaters = {} THEN Targets(R) = {}
           ELSE \E x \in Audience(e).repeaters : Targets(R) = {x}
    BY <1>2, <1>4, <1>5, <2>2, <2>5
  <2> QED BY <2>1, <2>2, <2>6, <2>7, <2>8
<1>12. CASE e.source # Messenger /\ ~(e.source = Repeater /\ ~RoomNexus)
  <2>1. Outward(e) = <<>> BY <1>12 DEF Outward
  <2>2. Range(<<>>) = {} BY DEF Range
  <2>3. Audience(e).hubs = {} /\ Audience(e).repeaters = {}
    BY <1>12 DEF Audience
  <2>4. Targets(<<>>) = {} BY <2>2 DEF Targets
  <2>5. <<>> \in Seq(Attempt) /\ SendsOK(<<>>) BY DEF SendsOK
  <2> QED BY <2>1, <2>2, <2>3, <2>4, <2>5
<1> QED BY <1>10, <1>11, <1>12

\* Routing an event: to every messenger registered for its room or for all,
\* and to what is outward.
LEMMA RouteIs ==
  ASSUME TypeOK, WellNamed, NEW e \in HubEventWrapper
  PROVE  /\ Route(e) \in Seq(Attempt)
         /\ \A a \in Range(Route(e)) : a.e = e
         /\ SendsOK(Route(e))
         /\ \E out :
              /\ Targets(Route(e)) =
                   Audience(e).messengers \cup Audience(e).hubs \cup out
              /\ IF Audience(e).repeaters = {} THEN out = {}
                 ELSE \E x \in Audience(e).repeaters : out = {x}
<1> DEFINE A == Guarded(messengerRegistry[e.room], e)
           B == Guarded(messengerRegistry[Star], e)
           O == Outward(e)
           M == A \o B
<1>1. e.room \in Topics /\ Star \in Topics BY DEF HubEventWrapper, Topics
<1>2. /\ messengerRegistry[e.room] \in Seq(Registration)
      /\ messengerRegistry[Star] \in Seq(Registration)
  BY <1>1 DEF TypeOK
<1>3. /\ A \in Seq(Attempt) /\ Targets(A) = Range(messengerRegistry[e.room])
      /\ \A a \in Range(A) : a.e = e /\ a.guarded
  BY <1>2, GuardedType, GuardedTargets
<1>4. /\ B \in Seq(Attempt) /\ Targets(B) = Range(messengerRegistry[Star])
      /\ \A a \in Range(B) : a.e = e /\ a.guarded
  BY <1>2, GuardedType, GuardedTargets
<1>5. /\ O \in Seq(Attempt) /\ SendsOK(O)
      /\ \A a \in Range(O) : a.e = e
      /\ \E out : /\ Targets(O) = Audience(e).hubs \cup out
                  /\ IF Audience(e).repeaters = {} THEN out = {}
                     ELSE \E x \in Audience(e).repeaters : out = {x}
  BY OutwardIs
<1>6. Route(e) = M \o O BY DEF Route
<1> HIDE DEF A, B, O
<1>7. /\ M \in Seq(Attempt) /\ Range(M) = Range(A) \cup Range(B)
      /\ Targets(M) = Targets(A) \cup Targets(B)
  BY <1>3, <1>4, ConcatTargets
<1> HIDE DEF M
<1>8. /\ M \o O \in Seq(Attempt)
      /\ Range(M \o O) = Range(M) \cup Range(O)
      /\ Targets(M \o O) = Targets(M) \cup Targets(O)
      /\ Len(M) \in Nat /\ Len(O) \in Nat /\ Len(M \o O) = Len(M) + Len(O)
      /\ \A k \in 1 .. Len(M \o O) :
            \/ k \in 1 .. Len(M) /\ (M \o O)[k] = M[k]
            \/ k - Len(M) \in 1 .. Len(O) /\ (M \o O)[k] = O[k - Len(M)]
  BY <1>5, <1>7, ConcatTargets
<1>9. e.source \in Kind BY DEF HubEventWrapper
<1>10. Messenger \in Reaches(e.source)
  BY <1>9 DEF Reaches, Kind, Messenger, Repeater, Hub
<1>11. ASSUME NEW x \in Range(messengerRegistry[e.room])
                          \cup Range(messengerRegistry[Star])
       PROVE  KindOf[x.id] = Messenger /\ x.id = IdOf[x.chan]
  BY <1>1 DEF WellNamed, OfKind
<1>12. ASSUME NEW k \in 1 .. Len(M \o O)
       PROVE  /\ SendOK((M \o O)[k])
              /\ KindOf[(M \o O)[k].reg.id] = Repeater => k = Len(M \o O)
  <2>1. CASE k \in 1 .. Len(M) /\ (M \o O)[k] = M[k]
    <3>1. M[k] \in Range(M) BY <1>7, <2>1, RangeEquality
    <3>2. /\ M[k].e = e /\ M[k].guarded
          /\ M[k].reg \in Targets(A) \cup Targets(B)
      BY <1>3, <1>4, <1>7, <3>1 DEF Targets
    <3>3. KindOf[M[k].reg.id] = Messenger /\ M[k].reg.id = IdOf[M[k].reg.chan]
      BY <1>3, <1>4, <1>11, <3>2
    <3> QED BY <1>10, <2>1, <3>2, <3>3 DEF SendOK, Messenger, Repeater
  <2>2. CASE k - Len(M) \in 1 .. Len(O) /\ (M \o O)[k] = O[k - Len(M)]
    <3> DEFINE j == k - Len(M)
    <3>1. SendOK(O[j]) /\ (KindOf[O[j].reg.id] = Repeater => j = Len(O))
      BY <1>5, <2>2 DEF SendsOK
    <3>2. j = Len(O) => k = Len(M \o O) BY <1>8
    <3> QED BY <2>2, <3>1, <3>2
  <2> QED BY <1>8, <2>1, <2>2
<1>13. SendsOK(M \o O) BY <1>12 DEF SendsOK
<1>14. \A a \in Range(M \o O) : a.e = e BY <1>3, <1>4, <1>5, <1>7, <1>8
<1>15. Targets(M) = Audience(e).messengers BY <1>3, <1>4, <1>7 DEF Audience
<1>16. Targets(M \o O) = Audience(e).messengers \cup Targets(O)
  BY <1>8, <1>15
<1> QED BY <1>5, <1>6, <1>8, <1>13, <1>14, <1>16

-----------------------------------------------------------------------------
(***************************************************************************)
(* The sends owed, and what stays true of them while they are tried.       *)
(***************************************************************************)

\* Who the sends in s are still to serve.
OwedOf(s) ==
  {<<a.reg.chan, a.e>> : a \in {x \in Range(s) : ~Echo(x)}}

\* The channels of a slice, by what the slice holds.
LEMMA ChannelsIs ==
  ASSUME NEW regs \in Seq(Registration)
  PROVE  Channels(regs) = {x.chan : x \in Range(regs)}
<1>1. Range(regs) = {regs[k] : k \in 1 .. Len(regs)} BY RangeEquality
<1> QED BY <1>1 DEF Channels

\* Who is owed, by what the list of sends holds.
LEMMA OwedIs ==
  ASSUME NEW s \in Seq(Attempt)
  PROVE  {<<s[k].reg.chan, s[k].e>> :
            k \in {j \in 1 .. Len(s) : ~Echo(s[j])}} = OwedOf(s)
<1>1. Range(s) = {s[k] : k \in 1 .. Len(s)} BY RangeEquality
<1> QED BY <1>1 DEF OwedOf

\* One send less is one connection less to serve, or none.
LEMMA OwedTail ==
  ASSUME NEW s \in Seq(Attempt), s # <<>>
  PROVE  LET a == Head(s)
             x == <<a.reg.chan, a.e>>
         IN  /\ Echo(a) => OwedOf(Tail(s)) = OwedOf(s)
             /\ ~Echo(a) => x \in OwedOf(s)
             /\ OwedOf(Tail(s)) \in {OwedOf(s), OwedOf(s) \ {x}}
             /\ Tail(s) = <<>> => OwedOf(Tail(s)) = {}
<1> DEFINE a == Head(s)
           x == <<a.reg.chan, a.e>>
<1>1. Range(s) = {a} \cup Range(Tail(s)) BY RangeTail
<1>2. Range(<<>>) = {} BY DEF Range
<1> HIDE DEF a
<1>3. Echo(a) => OwedOf(Tail(s)) = OwedOf(s) BY <1>1 DEF OwedOf
<1>4. ~Echo(a) => OwedOf(s) = OwedOf(Tail(s)) \cup {x} BY <1>1 DEF OwedOf
<1>5. Tail(s) = <<>> => OwedOf(Tail(s)) = {} BY <1>2 DEF OwedOf
<1> HIDE DEF x
<1>6. OwedOf(Tail(s)) \in {OwedOf(s), OwedOf(s) \ {x}} BY <1>3, <1>4
<1> QED BY <1>3, <1>4, <1>5, <1>6 DEF a, x

\* The router has an event or a registration change in hand, never both; it
\* admitted only what it will send; and the sends owed are to whom the event
\* may go, one to a repeater being the last.
InHand ==
  /\ jobs # <<>> => attempts = <<>>
  /\ admitted => attempts # <<>> /\ ~Echo(Head(attempts))
  /\ SendsOK(attempts)

\* The sends left after the first one.
LEMMA SendsTail ==
  ASSUME NEW s \in Seq(Attempt), s # <<>>, SendsOK(s)
  PROVE  /\ Head(s) \in Attempt
         /\ Tail(s) \in Seq(Attempt)
         /\ SendOK(Head(s))
         /\ KindOf[Head(s).reg.id] = Repeater => Tail(s) = <<>>
         /\ SendsOK(Tail(s))
<1> DEFINE t == Tail(s)
           n == Len(s)
<1>1. /\ Head(s) \in Attempt /\ t \in Seq(Attempt)
      /\ Head(s) = s[1] /\ n \in Nat /\ n >= 1 /\ Len(t) = n - 1
      /\ \A k \in 1 .. n - 1 : t[k] = s[k + 1]
  BY RangeTail
<1>2. \A k \in 1 .. n :
        SendOK(s[k]) /\ (KindOf[s[k].reg.id] = Repeater => k = n)
  BY DEF SendsOK
<1> HIDE DEF t, n
<1>3. SendOK(s[1]) /\ (KindOf[s[1].reg.id] = Repeater => n = 1)
  <2>1. 1 \in 1 .. n BY <1>1
  <2> QED BY <1>2, <2>1
<1>4. n = 1 => t = <<>>
  <2>1. t # <<>> => Len(t) \in Nat \ {0} BY <1>1, EmptySeq
  <2> QED BY <1>1, <2>1
<1>5. ASSUME NEW k \in 1 .. Len(t)
      PROVE  SendOK(t[k]) /\ (KindOf[t[k].reg.id] = Repeater => k = Len(t))
  <2>1. k + 1 \in 1 .. n /\ t[k] = s[k + 1] BY <1>1
  <2>2. k + 1 = n => k = Len(t) BY <1>1
  <2> QED BY <1>2, <2>1, <2>2
<1>6. SendsOK(t) BY <1>5 DEF SendsOK
<1> QED BY <1>1, <1>3, <1>4, <1>6 DEF t

\* Every step keeps InHand.
LEMMA InHandStep ==
  ASSUME TypeOK, WellNamed, InHand, [Next]_vars
  PROVE  InHand'
<1>1. CASE UNCHANGED <<dispatch, jobs>>
  BY <1>1 DEF InHand, dispatch, SendsOK, SendOK
<1>2. CASE RouteEvent
  <2> DEFINE e == Head(incomingChannel)
  <2>1. e \in HubEventWrapper
    BY <1>2, NexusAssumption, BoundedTail DEF TypeOK, RouteEvent
  <2>2. /\ attempts' = Route(e) /\ jobs' = <<>>
        /\ admitted' = admitted /\ attempts = <<>>
    BY <1>2 DEF RouteEvent, AtSelect
  <2>3. SendsOK(Route(e)) BY <2>1, RouteIs
  <2> QED BY <2>2, <2>3 DEF InHand, SendsOK, SendOK
<1>3. CASE SkipAttempt \/ SendAttempt
  <2>1. /\ attempts # <<>> /\ attempts' = Tail(attempts)
        /\ admitted' = FALSE /\ jobs' = jobs
    BY <1>3 DEF SkipAttempt, SendAttempt, TypeOK
  <2>2. SendsOK(Tail(attempts)) BY <2>1, SendsTail DEF TypeOK, InHand
  <2> QED BY <2>1, <2>2 DEF InHand, SendsOK, SendOK
<1>4. CASE AdmitAttempt
  BY <1>4 DEF AdmitAttempt, InHand, SendsOK, SendOK
<1>5. CASE Reregister
  <2>1. attempts' = attempts /\ admitted' = admitted
    BY <1>5 DEF Reregister, ChangePeer, StartJob, registerMessenger,
                deregisterMessenger, dispatch
  <2>2. attempts = <<>>
    BY <1>5 DEF Reregister, ChangePeer, StartJob, registerMessenger,
                deregisterMessenger, AtSelect, InHand
  <2> QED BY <2>1, <2>2 DEF InHand, SendsOK, SendOK
<1> QED
  BY <1>1, <1>2, <1>3, <1>4, <1>5
     DEF Next, Environment, Dispatch, vars, dispatch, RegisterConnection,
         DeregisterConnection, ChangeSubscription, SubmitRegistrationChange,
         Submit, Receive

\* InHand holds in every reachable state.
LEMMA InHandCorrect == Spec => []InHand
<1>1. Init => InHand BY DEF Init, InHand, SendsOK
<1>2. TypeOK /\ WellNamed /\ InHand /\ [Next]_vars => InHand' BY InHandStep
<1> QED BY <1>1, <1>2, TypeCorrect, NamesCorrect, PTL DEF Spec

-----------------------------------------------------------------------------
(***************************************************************************)
(* The router implements EventRouting, step by step.                       *)
(***************************************************************************)

\* Nothing that EventRouting shows changes.
RoutingUnchanged == UNCHANGED Routing!routingVars

\* The subscriptions and the peers, by what the registries hold.
LEMMA SubscribedIs ==
  ASSUME TypeOK, WellNamed
  PROVE  /\ Subscribed \in [Chan -> SUBSET Topics]
         /\ Peers \in SUBSET Chan
         /\ \A c \in Chan, t \in Topics :
              t \in Subscribed[c] <=>
                \E x \in Range(messengerRegistry[t]) : x.chan = c
         /\ \A c \in Chan :
              c \in Peers <=> \E x \in Range(hubRegistry)
                                         \cup Range(repeaterRegistry) :
                                x.chan = c
<1>1. \A regs \in Seq(Registration) :
        /\ Channels(regs) = {x.chan : x \in Range(regs)}
        /\ Range(regs) \subseteq Registration
  <2> SUFFICES ASSUME NEW regs \in Seq(Registration)
               PROVE  /\ Channels(regs) = {x.chan : x \in Range(regs)}
                      /\ Range(regs) \subseteq Registration
    OBVIOUS
  <2>1. Range(regs) \subseteq Registration BY RangeOfSeq
  <2> QED BY <2>1, ChannelsIs
<1>2. /\ hubRegistry \in Seq(Registration)
      /\ repeaterRegistry \in Seq(Registration)
      /\ \A t \in Topics : messengerRegistry[t] \in Seq(Registration)
  BY DEF TypeOK
<1>3. \A c \in Chan : c \in Peers <=> \E x \in Range(hubRegistry)
                                         \cup Range(repeaterRegistry) :
                                        x.chan = c
  BY <1>1, <1>2 DEF Peers
<1>4. \A x \in Registration : x.chan \in Chan BY DEF Registration
<1>5. Peers \in SUBSET Chan BY <1>1, <1>2, <1>4 DEF Peers
<1>6. \A c \in Chan, t \in Topics :
        t \in Subscribed[c] <=>
          \E x \in Range(messengerRegistry[t]) : x.chan = c
  BY <1>1, <1>2 DEF Subscribed
<1>7. Subscribed \in [Chan -> SUBSET Topics] BY DEF Subscribed
<1> QED BY <1>3, <1>5, <1>6, <1>7

\* Who is owed an event once it has been routed.
LEMMA OwedByRoute ==
  ASSUME TypeOK, WellNamed, NEW e \in HubEventWrapper
  PROVE  \E out \in Routing!RepeatersFor(e) :
           OwedOf(Route(e)) =
             (Routing!Subscribers(e) \cup Routing!HubsFor(e) \cup out) \X {e}
<1> DEFINE echo(x) == /\ KindOf[x.id] = Messenger
                      /\ e.source = Messenger
                      /\ x.id = e.sourceID
           ms == Audience(e).messengers
           hs == Audience(e).hubs
           rs == Audience(e).repeaters
<1>1. PICK rep :
        /\ Targets(Route(e)) = ms \cup hs \cup rep
        /\ IF rs = {} THEN rep = {} ELSE \E x \in rs : rep = {x}
  BY RouteIs
<1>2. \A a \in Range(Route(e)) : a.e = e BY RouteIs
<1>3. /\ ms = Range(messengerRegistry[e.room])
                \cup Range(messengerRegistry[Star])
      /\ hs = IF e.source = Messenger \/ (e.source = Repeater /\ ~RoomNexus)
              THEN Range(hubRegistry) ELSE {}
      /\ rs = IF e.source = Messenger THEN Range(repeaterRegistry) ELSE {}
  BY DEF Audience
<1> HIDE DEF ms, hs, rs
<1>4. OwedOf(Route(e)) =
        {x.chan : x \in {y \in ms \cup hs \cup rep : ~echo(y)}} \X {e}
  <2>1. \A a \in Range(Route(e)) : Echo(a) <=> echo(a.reg)
    BY <1>2 DEF Echo
  <2>2. OwedOf(Route(e)) =
          {x.chan : x \in {y \in Targets(Route(e)) : ~echo(y)}} \X {e}
    <3> HIDE DEF echo
    <3> QED BY <1>2, <2>1 DEF OwedOf, Targets
  <2> QED BY <1>1, <2>2
<1>5. \A x \in ms : KindOf[x.id] = Messenger /\ x.id = IdOf[x.chan]
                    /\ x.chan \in Chan
  <2>1. e.room \in Topics /\ Star \in Topics BY DEF HubEventWrapper, Topics
  <2>2. ms \subseteq Registration BY <1>3, <2>1, RangeOfSeq DEF TypeOK
  <2>3. \A x \in ms : KindOf[x.id] = Messenger /\ x.id = IdOf[x.chan]
    BY <1>3, <2>1 DEF WellNamed, OfKind
  <2> QED BY <2>2, <2>3 DEF Registration
<1>6. \A x \in Range(hubRegistry) : KindOf[x.id] = Hub /\ x.id = IdOf[x.chan]
                                    /\ x.chan \in Chan
  <2>1. Range(hubRegistry) \subseteq Registration BY RangeOfSeq DEF TypeOK
  <2> QED BY <2>1 DEF WellNamed, OfKind, Registration
<1>7. \A x \in Range(repeaterRegistry) :
        KindOf[x.id] = Repeater /\ x.id = IdOf[x.chan] /\ x.chan \in Chan
  <2>1. Range(repeaterRegistry) \subseteq Registration
    BY RangeOfSeq DEF TypeOK
  <2> QED BY <2>1 DEF WellNamed, OfKind, Registration
<1>8. Messenger # Hub /\ Messenger # Repeater /\ Hub # Repeater
  BY DEF Messenger, Hub, Repeater
<1>9. {x.chan : x \in {y \in ms : ~echo(y)}} = Routing!Subscribers(e)
  <2>1. \A c \in Chan :
          (e.room \in Subscribed[c] \/ Star \in Subscribed[c]) <=>
            \E x \in ms : x.chan = c
    <3>1. e.room \in Topics /\ Star \in Topics
      BY DEF HubEventWrapper, Topics
    <3> QED BY <1>3, <3>1, SubscribedIs
  <2>2. \A x \in ms : echo(x) <=> e.source = "messenger"
                                  /\ e.sourceID = IdOf[x.chan]
    BY <1>5 DEF Messenger
  <2> HIDE DEF echo
  <2> QED BY <1>5, <2>1, <2>2 DEF Routing!Subscribers, Routing!Of, Messenger
<1>10. {x.chan : x \in {y \in hs : ~echo(y)}} = Routing!HubsFor(e)
  <2>1. \A x \in hs : ~echo(x) BY <1>3, <1>6, <1>8
  <2>2. \A c \in Chan : c \in Peers /\ KindOf[IdOf[c]] = Hub <=>
                          \E x \in Range(hubRegistry) : x.chan = c
    BY <1>6, <1>7, <1>8, SubscribedIs
  <2>3. Peers \cap Routing!Of("hub") = {x.chan : x \in Range(hubRegistry)}
    BY <1>6, <2>2, SubscribedIs DEF Routing!Of, Hub
  <2> HIDE DEF echo
  <2> QED BY <1>3, <2>1, <2>3 DEF Routing!HubsFor, Messenger, Repeater
<1>11. {x.chan : x \in {y \in rep : ~echo(y)}} \in Routing!RepeatersFor(e)
  <2>1. rep \subseteq rs BY <1>1
  <2>2. \A x \in rep : ~echo(x) BY <1>3, <1>7, <1>8, <2>1
  <2>3. \A c \in Chan : c \in Peers /\ KindOf[IdOf[c]] = Repeater <=>
                          \E x \in Range(repeaterRegistry) : x.chan = c
    BY <1>6, <1>7, <1>8, SubscribedIs
  <2>4. Peers \cap Routing!Of("repeater") =
          {x.chan : x \in Range(repeaterRegistry)}
    BY <1>7, <2>3, SubscribedIs DEF Routing!Of, Repeater
  <2> HIDE DEF echo
  <2>5. CASE rs = {}
    <3>1. rep = {} BY <1>1, <2>5
    <3>2. ~(e.source = "messenger" /\ Peers \cap Routing!Of("repeater") # {})
      BY <1>3, <2>4, <2>5 DEF Messenger
    <3> QED BY <3>1, <3>2 DEF Routing!RepeatersFor
  <2>6. CASE rs # {}
    <3>1. PICK x \in rs : rep = {x} BY <1>1, <2>6
    <3>2. e.source = "messenger" /\ rs = Range(repeaterRegistry)
      BY <1>3, <2>6 DEF Messenger
    <3>3. x.chan \in Peers \cap Routing!Of("repeater") BY <2>4, <3>1, <3>2
    <3>4. {y.chan : y \in {z \in rep : ~echo(z)}} = {x.chan}
      BY <2>2, <3>1
    <3>5. Routing!RepeatersFor(e) =
            {{c} : c \in Peers \cap Routing!Of("repeater")}
      BY <3>2, <3>3 DEF Routing!RepeatersFor
    <3> QED BY <3>3, <3>4, <3>5
  <2> QED BY <2>5, <2>6
<1> HIDE DEF echo
<1>12. {x.chan : x \in {y \in ms \cup hs \cup rep : ~echo(y)}} =
         {x.chan : x \in {y \in ms : ~echo(y)}}
           \cup {x.chan : x \in {y \in hs : ~echo(y)}}
           \cup {x.chan : x \in {y \in rep : ~echo(y)}}
  OBVIOUS
<1> QED BY <1>4, <1>9, <1>10, <1>11, <1>12

\* A call that submits an event is an Accept.
LEMMA SubmitIsAccept ==
  ASSUME TypeOK, NEW e \in EventWrapper, NEW i \in ConnID, Submit(e, i)
  PROVE  Routing!Accept
<1> DEFINE w == [room |-> e.room, event |-> e.event, source |-> KindOf[i],
                 sourceID |-> i]
<1>1. KindOf[i] \in Kind BY NexusAssumption
<1>2. w \in Routing!Event
  BY <1>1 DEF EventWrapper, Routing!Event, Kind, Messenger, Repeater, Hub
<1>3. incomingChannel' = Append(incomingChannel, w)
      /\ Len(incomingChannel) < IncomingCap
  BY DEF Submit
<1> HIDE DEF w
<1>4. UNCHANGED <<Owed, Subscribed, Peers, writeChannel>>
  BY DEF Submit, registries, dispatch, Owed, Subscribed, Peers, Channels, Echo
<1> QED BY <1>2, <1>3, <1>4 DEF Routing!Accept

\* Routing an event is a Begin: its audience is what the registries say now.
LEMMA RouteIsBegin ==
  ASSUME TypeOK, WellNamed, RouteEvent
  PROVE  Routing!Begin
<1> DEFINE e == Head(incomingChannel)
<1>1. /\ attempts = <<>> /\ incomingChannel # <<>>
      /\ attempts' = Route(e)
      /\ incomingChannel' = Tail(incomingChannel)
      /\ UNCHANGED <<messengerRegistry, hubRegistry, repeaterRegistry,
                     writeChannel>>
  BY DEF RouteEvent, AtSelect, registries
<1>2. e \in HubEventWrapper
  BY <1>1, NexusAssumption, BoundedTail DEF TypeOK
<1> HIDE DEF e
<1>3. Owed = {} BY <1>1 DEF Owed
<1>4. Owed' = OwedOf(Route(e))
  <2>1. Route(e) \in Seq(Attempt) BY <1>2, RouteIs
  <2> QED BY <1>1, <2>1, OwedIs DEF Owed
<1>5. UNCHANGED <<Subscribed, Peers>> BY <1>1 DEF Subscribed, Peers, Channels
<1>6. \E out \in Routing!RepeatersFor(e) :
        Owed' = (Routing!Subscribers(e) \cup Routing!HubsFor(e) \cup out) \X {e}
  BY <1>2, <1>4, OwedByRoute
<1> QED BY <1>1, <1>3, <1>5, <1>6 DEF Routing!Begin, e

\* What one send of the list does to who is owed.
LEMMA AttemptOwes ==
  ASSUME TypeOK, InHand, attempts # <<>>, attempts' = Tail(attempts)
  PROVE  LET a == Head(attempts)
             x == <<a.reg.chan, a.e>>
         IN  /\ a \in Attempt /\ a.reg.chan \in Chan
             /\ SendOK(a)
             /\ Echo(a) => Owed' = Owed
             /\ ~Echo(a) => x \in Owed
             /\ Owed' \in {Owed, Owed \ {x}}
             /\ KindOf[a.reg.id] = Repeater => Owed' = {}
<1>1. attempts \in Seq(Attempt) BY DEF TypeOK
<1>2. /\ Head(attempts) \in Attempt /\ Tail(attempts) \in Seq(Attempt)
      /\ SendOK(Head(attempts))
      /\ KindOf[Head(attempts).reg.id] = Repeater => Tail(attempts) = <<>>
  BY <1>1, SendsTail DEF InHand
<1>3. Owed = OwedOf(attempts) BY <1>1, OwedIs DEF Owed
<1>4. Owed' = OwedOf(Tail(attempts)) BY <1>2, OwedIs DEF Owed
<1>5. Head(attempts).reg.chan \in Chan BY <1>2 DEF Attempt, Registration
<1> QED BY <1>1, <1>2, <1>3, <1>4, <1>5, OwedTail

\* A send is a Serve.
LEMMA SendIsServe ==
  ASSUME TypeOK, InHand, SendAttempt
  PROVE  \E x \in Owed : Routing!Serve(x[1], x[2])
<1> DEFINE a == Head(attempts)
           c == a.reg.chan
           x == <<c, a.e>>
<1>1. /\ attempts # <<>> /\ attempts' = Tail(attempts)
      /\ a.guarded => admitted
      /\ HasRoom(c)
      /\ writeChannel' = [writeChannel EXCEPT ![c] =
           Append(writeChannel[c], [room |-> a.e.room, event |-> a.e.event])]
      /\ UNCHANGED <<messengerRegistry, hubRegistry, repeaterRegistry,
                     incomingChannel>>
  BY DEF SendAttempt, registries
<1>2. /\ a \in Attempt /\ c \in Chan /\ SendOK(a)
      /\ ~Echo(a) => x \in Owed
      /\ Owed' \in {Owed, Owed \ {x}}
      /\ KindOf[a.reg.id] = Repeater => Owed' = {}
  BY <1>1, AttemptOwes
<1>3. ~Echo(a)
  <2>1. CASE a.guarded BY <1>1, <2>1 DEF InHand
  <2>2. CASE ~a.guarded
    BY <1>2, <2>2 DEF SendOK, Echo, Messenger, Hub
  <2> QED BY <2>1, <2>2
<1>4. a.reg.id = IdOf[c] BY <1>2 DEF SendOK
<1>5. UNCHANGED <<Subscribed, Peers>> BY <1>1 DEF Subscribed, Peers, Channels
<1>6. Len(writeChannel[c]) < WriteCap
  <2>1. Len(writeChannel[c]) \in Nat BY <1>2, LenProperties DEF TypeOK
  <2> HIDE DEF c
  <2> QED BY <1>1, <2>1, NexusAssumption DEF HasRoom
<1>7. \/ Owed' = Owed \ {x}
      \/ c \notin Routing!Of("repeater") /\ Owed' = Owed
  <2>1. CASE KindOf[a.reg.id] = Repeater BY <1>2, <1>3, <2>1
  <2>2. CASE KindOf[a.reg.id] # Repeater
    BY <1>2, <1>4, <2>2 DEF Routing!Of, Repeater
  <2> QED BY <2>1, <2>2
<1>8. x \in Owed /\ x[1] = c /\ x[2] = a.e BY <1>2, <1>3
<1>9. Routing!Serve(c, a.e)
  BY <1>1, <1>5, <1>6, <1>7, <1>8 DEF Routing!Serve
<1> QED BY <1>8, <1>9

\* An attempt that is skipped is a Drop, or changes nothing: the echo was
\* never owed, and another send to the same channel may be left.
LEMMA SkipIsDrop ==
  ASSUME TypeOK, InHand, SkipAttempt
  PROVE  RoutingUnchanged \/ \E x \in Owed : Routing!Drop(x[1], x[2])
<1> DEFINE a == Head(attempts)
           c == a.reg.chan
           x == <<c, a.e>>
<1>1. /\ attempts # <<>> /\ attempts' = Tail(attempts)
      /\ Echo(a) \/ (a.guarded /\ ~HasRoom(c))
      /\ UNCHANGED <<messengerRegistry, hubRegistry, repeaterRegistry,
                     incomingChannel, writeChannel>>
  BY DEF SkipAttempt, registries
<1>2. /\ c \in Chan
      /\ Echo(a) => Owed' = Owed
      /\ ~Echo(a) => x \in Owed
      /\ Owed' \in {Owed, Owed \ {x}}
  BY <1>1, AttemptOwes
<1>3. UNCHANGED <<Subscribed, Peers>> BY <1>1 DEF Subscribed, Peers, Channels
<1>4. CASE Owed' = Owed
  BY <1>1, <1>3, <1>4 DEF RoutingUnchanged, Routing!routingVars
<1>5. CASE Owed' # Owed
  <2>1. ~Echo(a) /\ x \in Owed /\ Owed' = Owed \ {x} /\ ~HasRoom(c)
    BY <1>1, <1>2, <1>5
  <2>2. Len(writeChannel[c]) = WriteCap
    <3>1. Len(writeChannel[c]) \in Nat /\ Len(writeChannel[c]) <= WriteCap
      BY <1>2, LenProperties DEF TypeOK
    <3> HIDE DEF c
    <3> QED BY <2>1, <3>1, NexusAssumption DEF HasRoom
  <2>3. x[1] = c /\ x[2] = a.e OBVIOUS
  <2>4. Routing!Drop(c, a.e) BY <1>1, <1>3, <2>1, <2>2 DEF Routing!Drop
  <2> QED BY <2>1, <2>3, <2>4
<1> QED BY <1>4, <1>5

\* A registry that changed for one ID only.
ChangedOnly(i, old, new) ==
  /\ \A x \in Range(new) : x.id = i \/ x \in Range(old)
  /\ \A x \in Range(old) : x.id = i \/ x \in Range(new)

\* The channels of other IDs are then where they were.
LEMMA OthersStay ==
  ASSUME NEW i, NEW old \in Seq(Registration), NEW new \in Seq(Registration),
         ChangedOnly(i, old, new),
         \A x \in Range(old) \cup Range(new) : x.id = IdOf[x.chan]
  PROVE  /\ Channels(new) \subseteq Chan
         /\ \A c \in Chan : IdOf[c] # i =>
              (c \in Channels(new) <=> c \in Channels(old))
<1>1. /\ Channels(old) = {x.chan : x \in Range(old)}
      /\ Channels(new) = {x.chan : x \in Range(new)}
  BY ChannelsIs
<1>2. Range(new) \subseteq Registration BY RangeOfSeq
<1>3. Channels(new) \subseteq Chan BY <1>1, <1>2 DEF Registration
<1> QED BY <1>1, <1>3 DEF ChangedOnly

\* A hub's or a repeater's change is a Change of its ID.
LEMMA PeerIsChange ==
  ASSUME TypeOK, WellNamed, ChangePeer
  PROVE  \E i \in ConnID : Routing!Change(i)
<1> DEFINE r == Head(registrationChannel)
<1>1. /\ attempts = <<>> /\ registrationChannel # <<>>
      /\ hubRegistry' = IF r.type = Hub THEN Apply(r, hubRegistry)
                                        ELSE hubRegistry
      /\ repeaterRegistry' = IF r.type = Repeater
                             THEN Apply(r, repeaterRegistry)
                             ELSE repeaterRegistry
      /\ UNCHANGED <<messengerRegistry, incomingChannel, writeChannel,
                     attempts>>
  BY DEF ChangePeer, AtSelect, dispatch
<1>2. TypeOK' /\ WellNamed'
  BY ReregisterType, ChangePeerNamed DEF Reregister
<1>3. r \in RegistrationChange BY <1>1, HeadChangeType
<1>4. r.id \in ConnID /\ r.create \in BOOLEAN
  BY <1>3 DEF RegistrationChange
<1> HIDE DEF r
<1>5. ASSUME NEW regs \in Seq(Registration), Distinct(regs)
      PROVE  ChangedOnly(r.id, regs, Apply(r, regs))
  <2> DEFINE new == [id |-> r.id, chan |-> r.chan]
  <2>1. new.id = r.id OBVIOUS
  <2> HIDE DEF new
  <2>2. /\ r.create => Range(Apply(r, regs)) =
             IF \E x \in Range(regs) : x.id = r.id
             THEN Range(regs) ELSE Range(regs) \cup {new}
        /\ ~r.create =>
             Range(Apply(r, regs)) = {x \in Range(regs) : x.id # r.id}
    BY <1>3, <1>5, ApplyEffect DEF new
  <2> QED BY <1>4, <2>1, <2>2 DEF ChangedOnly
<1>6. /\ hubRegistry \in Seq(Registration)
      /\ repeaterRegistry \in Seq(Registration)
      /\ hubRegistry' \in Seq(Registration)
      /\ repeaterRegistry' \in Seq(Registration)
  BY <1>2 DEF TypeOK
<1>7. ChangedOnly(r.id, hubRegistry, hubRegistry')
  BY <1>1, <1>5, <1>6 DEF WellNamed, ChangedOnly
<1>8. ChangedOnly(r.id, repeaterRegistry, repeaterRegistry')
  BY <1>1, <1>5, <1>6 DEF WellNamed, ChangedOnly
<1>9. \A x \in Range(hubRegistry) \cup Range(hubRegistry')
                 \cup Range(repeaterRegistry) \cup Range(repeaterRegistry') :
        x.id = IdOf[x.chan]
  BY <1>2 DEF WellNamed, OfKind
<1>10. /\ Channels(hubRegistry') \subseteq Chan
       /\ \A c \in Chan : IdOf[c] # r.id =>
            (c \in Channels(hubRegistry') <=> c \in Channels(hubRegistry))
  BY <1>6, <1>7, <1>9, OthersStay
<1>11. /\ Channels(repeaterRegistry') \subseteq Chan
       /\ \A c \in Chan : IdOf[c] # r.id =>
            (c \in Channels(repeaterRegistry')
               <=> c \in Channels(repeaterRegistry))
  BY <1>6, <1>8, <1>9, OthersStay
<1>12. Peers' = Channels(hubRegistry') \cup Channels(repeaterRegistry')
  BY DEF Peers, Channels
<1>13. Owed = {} /\ Owed' = Owed BY <1>1 DEF Owed
<1>14. Subscribed' = Subscribed BY <1>1 DEF Subscribed, Channels
<1>15. Subscribed \in [Chan -> SUBSET Topics] BY DEF Subscribed
<1>16. /\ Peers' \in SUBSET Chan
       /\ \A c \in Chan : IdOf[c] # r.id => (c \in Peers' <=> c \in Peers)
  BY <1>10, <1>11, <1>12 DEF Peers
<1>17. Routing!Change(r.id)
  BY <1>1, <1>13, <1>14, <1>15, <1>16 DEF Routing!Change, Topics
<1> QED BY <1>4, <1>17

\* An iteration of a messenger's change is a Change of the messenger's ID.
LEMMA IterationIsChange ==
  ASSUME TypeOK, WellNamed, InHand, registerMessenger \/ deregisterMessenger
  PROVE  \E i \in ConnID : Routing!Change(i)
<1> DEFINE i == Head(jobs).id
<1>1. /\ jobs # <<>> /\ attempts = <<>>
      /\ UNCHANGED <<hubRegistry, repeaterRegistry, incomingChannel,
                     writeChannel, attempts>>
  BY DEF registerMessenger, deregisterMessenger, InHand, dispatch
<1>2. TypeOK' /\ WellNamed'
  BY ReregisterType, IterationNamed DEF Reregister
<1>3. i \in ConnID BY <1>1, HeadJobType
<1>4. ASSUME NEW t \in Topics
      PROVE  \A c \in Chan : IdOf[c] # i =>
               (c \in Channels(messengerRegistry'[t])
                  <=> c \in Channels(messengerRegistry[t]))
  <2>1. /\ messengerRegistry[t] \in Seq(Registration)
        /\ messengerRegistry'[t] \in Seq(Registration)
    BY <1>2 DEF TypeOK
  <2>2. ChangedOnly(i, messengerRegistry[t], messengerRegistry'[t])
    <3> DEFINE new == [id |-> Head(jobs).id, chan |-> Head(jobs).chan]
    <3>1. new.id = i OBVIOUS
    <3>2. /\ Head(jobs).create =>
               Range(messengerRegistry'[t]) \subseteq
                 Range(messengerRegistry[t]) \cup {new}
          /\ ~Head(jobs).create =>
               Range(messengerRegistry'[t]) \subseteq
                 Range(messengerRegistry[t])
          /\ \A x \in Range(messengerRegistry[t]) :
               x.id # i => x \in Range(messengerRegistry'[t])
      BY IterationEffect
    <3>3. Head(jobs).create \in BOOLEAN BY <1>1, HeadJobType DEF Job
    <3> HIDE DEF new, i
    <3> QED BY <3>1, <3>2, <3>3 DEF ChangedOnly
  <2>3. \A x \in Range(messengerRegistry[t])
                   \cup Range(messengerRegistry'[t]) : x.id = IdOf[x.chan]
    BY <1>2 DEF WellNamed, OfKind
  <2> HIDE DEF i
  <2> QED BY <2>1, <2>2, <2>3, OthersStay
<1>5. Owed = {} /\ Owed' = Owed BY <1>1 DEF Owed
<1>6. Peers' = Peers BY <1>1 DEF Peers, Channels
<1>7. Subscribed' \in [Chan -> SUBSET Topics] BY DEF Subscribed
<1>8. \A c \in Chan : IdOf[c] # i => Subscribed'[c] = Subscribed[c]
  BY <1>4 DEF Subscribed, Channels
<1>9. Peers \in SUBSET Chan BY SubscribedIs
<1> HIDE DEF i
<1>10. Routing!Change(i)
  BY <1>1, <1>5, <1>6, <1>7, <1>8, <1>9 DEF Routing!Change, Topics
<1> QED BY <1>3, <1>10

\* Every step of the router and of its callers is a step of EventRouting or
\* changes nothing that it shows.
LEMMA RoutingStep ==
  ASSUME TypeOK, WellNamed, InHand, [Next]_vars
  PROVE  [Routing!Next]_(Routing!routingVars)
<1>1. CASE UNCHANGED <<messengerRegistry, hubRegistry, repeaterRegistry,
                       incomingChannel, writeChannel, attempts>>
  BY <1>1 DEF Routing!routingVars, Owed, Subscribed, Peers, Channels
<1>2. ASSUME NEW e \in EventWrapper, NEW i \in ConnID, Submit(e, i)
      PROVE  Routing!Next
  BY <1>2, SubmitIsAccept DEF Routing!Next
<1>3. ASSUME NEW c \in Chan, Receive(c) PROVE Routing!Next
  <2>1. Routing!Take(c)
    BY <1>3 DEF Receive, Routing!Take, registries, dispatch, Owed, Subscribed,
                Peers, Channels
  <2> QED BY <2>1 DEF Routing!Next
<1>4. CASE RouteEvent BY <1>4, RouteIsBegin DEF Routing!Next
<1>5. CASE SendAttempt BY <1>5, SendIsServe DEF Routing!Next
<1>6. CASE SkipAttempt
  BY <1>6, SkipIsDrop DEF Routing!Next, RoutingUnchanged
<1>7. CASE ChangePeer BY <1>7, PeerIsChange DEF Routing!Next
<1>8. CASE registerMessenger \/ deregisterMessenger
  BY <1>8, IterationIsChange DEF Routing!Next
<1>9. \/ UNCHANGED <<messengerRegistry, hubRegistry, repeaterRegistry,
                     incomingChannel, writeChannel, attempts>>
      \/ \E e \in EventWrapper, i \in ConnID : Submit(e, i)
      \/ \E c \in Chan : Receive(c)
      \/ RouteEvent \/ SendAttempt \/ SkipAttempt
      \/ ChangePeer \/ registerMessenger \/ deregisterMessenger
  BY DEF Next, Environment, Dispatch, Reregister, vars, registries, dispatch,
         RegisterConnection, DeregisterConnection, ChangeSubscription,
         SubmitRegistrationChange, AdmitAttempt, StartJob
<1> QED BY <1>1, <1>2, <1>3, <1>4, <1>5, <1>6, <1>7, <1>8, <1>9

\* The router implements EventRouting: whoever belongs to the audience of an
\* event when Nexus.start takes it gets it unless their channel is full at
\* their turn, and nobody else does.
THEOREM RoutingImplemented == Spec => ImplementsRouting
<1>1. Init => Routing!Init
  <2> SUFFICES ASSUME Init PROVE Routing!Init OBVIOUS
  <2>1. Owed = {} BY DEF Init, Owed
  <2>2. \A t \in Topics : Channels(messengerRegistry[t]) = {}
    BY DEF Init, Channels
  <2>3. Subscribed = [c \in Chan |-> {}] BY <2>2 DEF Subscribed
  <2>4. Peers = {} BY DEF Init, Peers, Channels
  <2> QED BY <2>1, <2>3, <2>4 DEF Init, Routing!Init
<1>2. TypeOK /\ WellNamed /\ InHand /\ [Next]_vars
        => [Routing!Next]_(Routing!routingVars)
  BY RoutingStep
<1> QED
  BY <1>1, <1>2, TypeCorrect, NamesCorrect, InHandCorrect, PTL
     DEF Spec, ImplementsRouting, Routing!Spec

-----------------------------------------------------------------------------
(***************************************************************************)
(* What entered the write channels, with the payloads of module MCNexus:   *)
(* each names the connection it came from and has a number of its own.     *)
(***************************************************************************)

\* An event keeps the name of who submitted it.
Honest(e) == e.event.from = e.sourceID /\ e.source = KindOf[e.sourceID]

\* Who may get event v over channel c.
MayReach(c, v) ==
  /\ KindOf[IdOf[c]] \in Reaches(KindOf[v.from])
  /\ KindOf[v.from] = Messenger => IdOf[c] # v.from

\* Event v was numbered, before all that wait in incomingChannel.
Earlier(v) ==
  /\ v.n \in 1 .. sent
  /\ \A k \in 1 .. Len(incomingChannel) : v.n < incomingChannel[k].event.n

ToRepeater == {c \in Chan : KindOf[IdOf[c]] = Repeater}

\* The places where event n entered a channel of a repeater.
Left(n) ==
  UNION {{<<c, k>> : k \in {j \in 1 .. Len(Delivered(c)) :
                              Delivered(c)[j].n = n}} : c \in ToRepeater}

HistoryType == sent \in Nat /\ taken \in [Chan -> Seq(Payload)]

\* Events wait in the order of their numbers, and honestly named.
QueueInOrder ==
  \A k \in 1 .. Len(incomingChannel) :
    /\ Honest(incomingChannel[k])
    /\ incomingChannel[k].event.n \in 1 .. sent
    /\ \A j \in 1 .. k - 1 :
         incomingChannel[j].event.n < incomingChannel[k].event.n

\* The event in hand was ahead of those that wait, and has not left for a
\* repeater while a send to one is owed.
SendsEarlier ==
  \A a \in Range(attempts) :
    /\ Honest(a.e)
    /\ Earlier(a.e.event)
    /\ KindOf[a.reg.id] = Repeater => Left(a.e.event.n) = {}

\* So was everything that entered a channel, and it went where it may go.
DeliveredEarlier ==
  \A c \in Chan : \A k \in 1 .. Len(Delivered(c)) :
    Earlier(Delivered(c)[k]) /\ MayReach(c, Delivered(c)[k])

LeftOnce == \A n \in Nat : \A x, y \in Left(n) : x = y

History ==
  /\ HistoryType
  /\ QueueInOrder
  /\ SendsEarlier
  /\ DeliveredEarlier
  /\ LeftOnce

\* The events numbered so far.
LEMMA SentCorrect == MCSpec => [](sent \in Nat)
<1>1. MCInit => sent \in Nat BY DEF MCInit
<1>2. sent \in Nat /\ [MCNext]_mcVars => (sent \in Nat)'
  BY DEF MCNext, mcVars, Change, Event, Take, Router
<1> QED BY <1>1, <1>2, PTL DEF MCSpec

\* An event is submitted under its number and the name of its sender.
LEMMA EventSubmits ==
  ASSUME sent \in Nat, Event
  PROVE  /\ sent' = sent + 1 /\ taken' = taken
         /\ \E e \in EventWrapper, i \in ConnID :
              Submit(e, i) /\ e.event.from = i /\ e.event.n = sent + 1
<1>1. PICK i \in Sender, r \in Rooms :
        Submit([room |-> r, event |-> [from |-> i, n |-> sent']], i)
  BY DEF Event
<1>2. sent' = sent + 1 /\ sent < MaxEvents /\ taken' = taken BY DEF Event
<1> DEFINE v == [from |-> i, n |-> sent + 1]
           e == [room |-> r, event |-> v]
<1>3. sent + 1 \in 1 .. MaxEvents BY <1>2, MCNexusAssumption
<1>4. v \in Payload BY <1>3, MCNexusAssumption DEF MCPayload
<1>5. Submit(e, i) BY <1>1, <1>2
<1>6. v.from = i /\ v.n = sent + 1 OBVIOUS
<1>7. i \in ConnID BY DEF Sender
<1> HIDE DEF v
<1>8. e \in EventWrapper /\ e.event = v BY <1>4 DEF EventWrapper
<1> HIDE DEF e
<1> QED BY <1>2, <1>5, <1>6, <1>7, <1>8

\* The bounded instances take no step of their own.
LEMMA StepOfMCIsStep ==
  ASSUME sent \in Nat, [MCNext]_mcVars
  PROVE  [Next]_vars
<1>1. CASE UNCHANGED mcVars BY <1>1 DEF mcVars
<1>2. CASE Change
  <2>1. \/ \E c \in Chan : RegisterConnection(c)
        \/ \E c \in Chan : DeregisterConnection(IdOf[c])
        \/ \E c \in Chan, rooms \in RoomLists, create \in BOOLEAN :
             ChangeSubscription(c, rooms, create)
    BY <1>2 DEF Change
  <2> QED BY <2>1 DEF Next, Environment
<1>3. CASE Event BY <1>3, EventSubmits DEF Next, Environment
<1>4. CASE Take BY <1>4 DEF Take, Next, Environment
<1>5. CASE Router BY <1>5 DEF Router, Next
<1> QED BY <1>1, <1>2, <1>3, <1>4, <1>5 DEF MCNext

\* So what is proved of the router holds of them.
LEMMA MCImpliesSpec == MCSpec => Spec
<1>1. MCInit => Init BY DEF MCInit
<1>2. sent \in Nat /\ [MCNext]_mcVars => [Next]_vars BY StepOfMCIsStep
<1> QED BY <1>1, <1>2, SentCorrect, PTL DEF MCSpec, Spec

\* What was taken from a channel, then what is in it.
Joined(s, w) == s \o [k \in 1 .. Len(w) |-> w[k].event]

\* The places of Joined.
LEMMA JoinedIs ==
  ASSUME NEW s \in Seq(Payload), NEW w \in Seq(EventWrapper)
  PROVE  /\ Joined(s, w) \in Seq(Payload)
         /\ Len(s) \in Nat /\ Len(w) \in Nat
         /\ Len(Joined(s, w)) = Len(s) + Len(w)
         /\ \A k \in 1 .. Len(s) + Len(w) :
              Joined(s, w)[k] = IF k <= Len(s) THEN s[k]
                                ELSE w[k - Len(s)].event
<1> DEFINE v == [k \in 1 .. Len(w) |-> w[k].event]
<1>1. Len(s) \in Nat /\ Len(w) \in Nat BY LenProperties
<1>2. \A k \in 1 .. Len(w) : w[k] \in EventWrapper BY ElementOfSeq
<1>3. v \in [1 .. Len(w) -> Payload] BY <1>2 DEF EventWrapper
<1>4. v \in Seq(Payload) /\ Len(v) = Len(w) BY <1>1, <1>3, FunctionIsSeq
<1>5. \A k \in 1 .. Len(w) : v[k] = w[k].event OBVIOUS
<1>6. Joined(s, w) = s \o v BY DEF Joined
<1> HIDE DEF v
<1>7. /\ s \o v \in Seq(Payload)
      /\ Len(s \o v) = Len(s) + Len(v)
      /\ \A k \in 1 .. Len(s) + Len(v) :
           (s \o v)[k] = IF k <= Len(s) THEN s[k] ELSE v[k - Len(s)]
  BY <1>4, ConcatProperties
<1>8. ASSUME NEW k \in 1 .. Len(s) + Len(w), ~(k <= Len(s))
      PROVE  k - Len(s) \in 1 .. Len(w)
  BY <1>1, <1>8
<1> QED BY <1>1, <1>4, <1>5, <1>6, <1>7, <1>8

\* Taking the oldest event changes nothing of it.
LEMMA JoinedTake ==
  ASSUME NEW s \in Seq(Payload), NEW w \in Seq(EventWrapper), w # <<>>
  PROVE  Joined(Append(s, Head(w).event), Tail(w)) = Joined(s, w)
<1> DEFINE v == Head(w).event
           t == Append(s, v)
           u == Tail(w)
<1>1. /\ Head(w) = w[1] /\ Head(w) \in EventWrapper
      /\ u \in Seq(EventWrapper) /\ Len(w) \in Nat /\ Len(w) >= 1
      /\ Len(u) = Len(w) - 1
      /\ \A k \in 1 .. Len(w) - 1 : u[k] = w[k + 1]
  BY RangeTail
<1>2. v \in Payload /\ v = w[1].event BY <1>1 DEF EventWrapper
<1> HIDE DEF v, u
<1>3. /\ t \in Seq(Payload) /\ Len(s) \in Nat /\ Len(t) = Len(s) + 1
      /\ \A k \in 1 .. Len(s) : t[k] = s[k]
      /\ t[Len(s) + 1] = v
  BY <1>2, AppendProperties, LenProperties
<1> HIDE DEF t
<1>4. /\ Joined(t, u) \in Seq(Payload)
      /\ Len(Joined(t, u)) = Len(t) + Len(u)
      /\ \A k \in 1 .. Len(t) + Len(u) :
           Joined(t, u)[k] = IF k <= Len(t) THEN t[k]
                             ELSE u[k - Len(t)].event
  BY <1>1, <1>3, JoinedIs
<1>5. /\ Joined(s, w) \in Seq(Payload)
      /\ Len(Joined(s, w)) = Len(s) + Len(w)
      /\ \A k \in 1 .. Len(s) + Len(w) :
           Joined(s, w)[k] = IF k <= Len(s) THEN s[k]
                             ELSE w[k - Len(s)].event
  BY JoinedIs
<1>6. Len(t) + Len(u) = Len(s) + Len(w) BY <1>1, <1>3
<1>7. ASSUME NEW k \in 1 .. Len(s) + Len(w)
      PROVE  Joined(t, u)[k] = Joined(s, w)[k]
  <2>1. CASE k <= Len(s)
    <3>1. k \in 1 .. Len(s) /\ k <= Len(t) /\ k \in 1 .. Len(t) + Len(u)
      BY <1>3, <1>6, <2>1
    <3>2. Joined(t, u)[k] = t[k] BY <1>4, <3>1
    <3>3. Joined(s, w)[k] = s[k] BY <1>5, <2>1
    <3> QED BY <1>3, <3>1, <3>2, <3>3
  <2>2. CASE k = Len(s) + 1
    <3>1. ~(k <= Len(s)) /\ k - Len(s) = 1 /\ k <= Len(t)
      BY <1>3, <2>2
    <3> QED BY <1>2, <1>3, <1>4, <1>5, <1>6, <2>2, <3>1
  <2>3. CASE k > Len(s) + 1
    <3>1. /\ ~(k <= Len(s)) /\ ~(k <= Len(t))
          /\ k - Len(t) \in 1 .. Len(w) - 1
          /\ (k - Len(t)) + 1 = k - Len(s)
      BY <1>1, <1>3, <2>3
    <3> QED BY <1>1, <1>4, <1>5, <1>6, <3>1
  <2> QED BY <1>3, <2>1, <2>2, <2>3
<1> QED BY <1>4, <1>5, <1>6, <1>7, SeqEqual DEF t, u, v

\* A send adds its event at the end.
LEMMA JoinedSend ==
  ASSUME NEW s \in Seq(Payload), NEW w \in Seq(EventWrapper),
         NEW e \in EventWrapper
  PROVE  /\ Len(Joined(s, Append(w, e))) = Len(Joined(s, w)) + 1
         /\ \A k \in 1 .. Len(Joined(s, w)) :
              Joined(s, Append(w, e))[k] = Joined(s, w)[k]
         /\ Joined(s, Append(w, e))[Len(Joined(s, w)) + 1] = e.event
<1> DEFINE u == Append(w, e)
<1>1. /\ u \in Seq(EventWrapper) /\ Len(w) \in Nat /\ Len(u) = Len(w) + 1
      /\ \A k \in 1 .. Len(w) : u[k] = w[k]
      /\ u[Len(w) + 1] = e
  BY AppendProperties, LenProperties
<1> HIDE DEF u
<1>2. /\ Len(s) \in Nat
      /\ Len(Joined(s, u)) = Len(s) + Len(u)
      /\ \A k \in 1 .. Len(s) + Len(u) :
           Joined(s, u)[k] = IF k <= Len(s) THEN s[k]
                             ELSE u[k - Len(s)].event
  BY <1>1, JoinedIs
<1>3. /\ Len(Joined(s, w)) = Len(s) + Len(w)
      /\ \A k \in 1 .. Len(s) + Len(w) :
           Joined(s, w)[k] = IF k <= Len(s) THEN s[k]
                             ELSE w[k - Len(s)].event
  BY JoinedIs
<1>4. ASSUME NEW k \in 1 .. Len(s) + Len(w)
      PROVE  Joined(s, u)[k] = Joined(s, w)[k]
  <2>1. k \in 1 .. Len(s) + Len(u) BY <1>1, <1>2
  <2>2. ~(k <= Len(s)) => k - Len(s) \in 1 .. Len(w) BY <1>1, <1>2
  <2> QED BY <1>1, <1>2, <1>3, <2>1, <2>2
<1>5. Joined(s, u)[Len(s) + Len(w) + 1] = e.event
  <2> DEFINE k == Len(s) + Len(w) + 1
  <2>1. k \in 1 .. Len(s) + Len(u) /\ ~(k <= Len(s)) /\ k - Len(s) = Len(w) + 1
    BY <1>1, <1>2
  <2> HIDE DEF k
  <2>2. Joined(s, u)[k] = e.event BY <1>1, <1>2, <2>1
  <2> QED BY <2>2 DEF k
<1> QED BY <1>1, <1>2, <1>3, <1>4, <1>5 DEF u

\* What entered a channel is unchanged while its pump takes from it.
LEMMA TakeKeepsDelivered ==
  ASSUME TypeOK, HistoryType, Take
  PROVE  /\ HistoryType'
         /\ \A c \in Chan : Delivered(c)' = Delivered(c)
<1>1. PICK d \in Chan :
        /\ writeChannel[d] # <<>>
        /\ writeChannel' =
             [writeChannel EXCEPT ![d] = Tail(writeChannel[d])]
        /\ taken' = [taken EXCEPT ![d] =
                       Append(taken[d], Head(writeChannel[d]).event)]
  BY DEF Take, Receive
<1>2. writeChannel[d] \in Seq(EventWrapper) /\ taken[d] \in Seq(Payload)
  BY DEF TypeOK, HistoryType
<1>3. Head(writeChannel[d]).event \in Payload
  <2>1. Head(writeChannel[d]) \in EventWrapper BY <1>1, <1>2, RangeTail
  <2> QED BY <2>1 DEF EventWrapper
<1>4. Append(taken[d], Head(writeChannel[d]).event) \in Seq(Payload)
  BY <1>2, <1>3, AppendProperties
<1>5. HistoryType' BY <1>1, <1>4 DEF HistoryType, Take
<1>6. ASSUME NEW c \in Chan PROVE Delivered(c)' = Delivered(c)
  <2>1. /\ Delivered(c) = Joined(taken[c], writeChannel[c])
        /\ Delivered(c)' = Joined(taken'[c], writeChannel'[c])
    BY DEF Delivered, Joined
  <2>2. CASE c = d
    <3>1. /\ taken'[d] = Append(taken[d], Head(writeChannel[d]).event)
          /\ writeChannel'[d] = Tail(writeChannel[d])
      BY <1>1 DEF TypeOK, HistoryType
    <3> QED BY <1>1, <1>2, <2>1, <2>2, <3>1, JoinedTake
  <2>3. CASE c # d
    <3>1. taken'[c] = taken[c] /\ writeChannel'[c] = writeChannel[c]
      BY <1>1, <2>3 DEF TypeOK, HistoryType
    <3> QED BY <2>1, <3>1
  <2> QED BY <2>2, <2>3
<1> QED BY <1>5, <1>6

\* A send is the last thing that entered its channel.
LEMMA SendDelivers ==
  ASSUME TypeOK, HistoryType, SendAttempt, taken' = taken,
         NEW d \in Chan, d = Head(attempts).reg.chan,
         NEW n \in Nat, n = Len(Delivered(d))
  PROVE  /\ \A c \in Chan : c # d => Delivered(c)' = Delivered(c)
         /\ Len(Delivered(d)') = n + 1
         /\ \A k \in 1 .. n : Delivered(d)'[k] = Delivered(d)[k]
         /\ Delivered(d)'[n + 1] = Head(attempts).e.event
<1> DEFINE a == Head(attempts)
           e == [room |-> a.e.room, event |-> a.e.event]
<1>1. a \in Attempt
  <2>1. attempts \in Seq(Attempt) /\ attempts # <<>>
    BY DEF TypeOK, SendAttempt
  <2> QED BY <2>1, RangeTail
<1>2. e \in EventWrapper /\ e.event = a.e.event
  BY <1>1 DEF Attempt, HubEventWrapper, EventWrapper
<1>3. writeChannel' = [writeChannel EXCEPT ![d] = Append(writeChannel[d], e)]
  BY DEF SendAttempt
<1> HIDE DEF e
<1>4. writeChannel[d] \in Seq(EventWrapper) /\ taken[d] \in Seq(Payload)
  BY DEF TypeOK, HistoryType
<1>5. \A c \in Chan :
        /\ Delivered(c) = Joined(taken[c], writeChannel[c])
        /\ Delivered(c)' = Joined(taken[c], writeChannel'[c])
  BY DEF Delivered, Joined
<1>6. \A c \in Chan : writeChannel'[c] =
                        IF c = d THEN Append(writeChannel[d], e)
                        ELSE writeChannel[c]
  BY <1>3 DEF TypeOK
<1>7. \A c \in Chan : c # d => Delivered(c)' = Delivered(c)
  BY <1>5, <1>6
<1>8. /\ Delivered(d) = Joined(taken[d], writeChannel[d])
      /\ Delivered(d)' = Joined(taken[d], Append(writeChannel[d], e))
  BY <1>5, <1>6
<1> QED BY <1>2, <1>4, <1>7, <1>8, JoinedSend

\* The events of the history have a length and their places are theirs.
LEMMA DeliveredType ==
  ASSUME TypeOK, HistoryType, NEW c \in Chan
  PROVE  Len(Delivered(c)) \in Nat
<1>1. writeChannel[c] \in Seq(EventWrapper) /\ taken[c] \in Seq(Payload)
  BY DEF TypeOK, HistoryType
<1>2. Delivered(c) = Joined(taken[c], writeChannel[c])
  BY DEF Delivered, Joined
<1> QED BY <1>1, <1>2, JoinedIs

\* What the set Left holds.
LEMMA LeftIs ==
  \A n, x : x \in Left(n) <=>
    \E c \in ToRepeater : \E k \in 1 .. Len(Delivered(c)) :
      x = <<c, k>> /\ Delivered(c)[k].n = n
BY DEF Left

\* And what it holds after a step.
LEMMA LeftNext ==
  \A n, x : x \in Left(n)' <=>
    \E c \in ToRepeater : \E k \in 1 .. Len(Delivered(c)') :
      x = <<c, k>> /\ Delivered(c)'[k].n = n
BY DEF Left, ToRepeater

\* A step that adds nothing to a channel and leaves what waits and what is
\* owed keeps the history, whatever was taken.
LEMMA QuietStep ==
  ASSUME History, HistoryType',
         \A c \in Chan : Delivered(c)' = Delivered(c),
         UNCHANGED <<sent, incomingChannel>>,
         \A a \in Range(attempts') : a \in Range(attempts)
  PROVE  History'
<1>1. ASSUME NEW n PROVE Left(n)' = Left(n)
  <2>1. ASSUME NEW x PROVE x \in Left(n)' <=> x \in Left(n)
    <3>1. x \in Left(n)' <=>
            \E c \in ToRepeater : \E k \in 1 .. Len(Delivered(c)') :
              x = <<c, k>> /\ Delivered(c)'[k].n = n
      BY LeftNext
    <3>2. x \in Left(n) <=>
            \E c \in ToRepeater : \E k \in 1 .. Len(Delivered(c)) :
              x = <<c, k>> /\ Delivered(c)[k].n = n
      BY LeftIs
    <3>3. \A c \in ToRepeater : Delivered(c)' = Delivered(c)
      BY DEF ToRepeater
    <3> QED BY <3>1, <3>2, <3>3
  <2> QED BY <2>1
<1>2. QueueInOrder' BY DEF History, QueueInOrder, Honest
<1>3. \A v : Earlier(v)' <=> Earlier(v) BY DEF Earlier
<1>4. SendsEarlier' BY <1>1, <1>3 DEF History, SendsEarlier, Honest
<1>5. DeliveredEarlier' BY <1>3 DEF History, DeliveredEarlier, MayReach
<1>6. LeftOnce' BY <1>1 DEF History, LeftOnce
<1> QED BY <1>2, <1>4, <1>5, <1>6 DEF History

\* A new event has the highest number.
LEMMA EventKeepsHistory ==
  ASSUME TypeOK, History, Event
  PROVE  History'
<1>1. sent \in Nat BY DEF History, HistoryType
<1>2. PICK e \in EventWrapper, i \in ConnID :
        Submit(e, i) /\ e.event.from = i /\ e.event.n = sent + 1
  BY <1>1, EventSubmits
<1> DEFINE w == [room |-> e.room, event |-> e.event, source |-> KindOf[i],
                 sourceID |-> i]
           n == Len(incomingChannel)
<1>3. sent' = sent + 1 /\ taken' = taken BY <1>1, EventSubmits
<1>4. /\ incomingChannel' = Append(incomingChannel, w)
      /\ UNCHANGED <<writeChannel, attempts>>
  BY <1>2 DEF Submit, dispatch
<1>5. w \in HubEventWrapper
  BY NexusAssumption DEF EventWrapper, HubEventWrapper
<1>6. Honest(w) /\ w.event.n = sent + 1 BY <1>2 DEF Honest
<1> HIDE DEF w
<1>7. incomingChannel \in Seq(HubEventWrapper) BY DEF TypeOK, Bounded
<1>8. /\ n \in Nat /\ Len(incomingChannel') = n + 1
      /\ \A k \in 1 .. n : incomingChannel'[k] = incomingChannel[k]
      /\ incomingChannel'[n + 1] = w
  BY <1>4, <1>5, <1>7, AppendProperties, LenProperties
<1> HIDE DEF n
<1>9. \A k \in 1 .. n : incomingChannel[k].event.n \in 1 .. sent
  BY DEF History, QueueInOrder, n
<1>10. QueueInOrder'
  <2> SUFFICES ASSUME NEW k \in 1 .. n + 1
               PROVE  /\ Honest(incomingChannel'[k])
                      /\ incomingChannel'[k].event.n \in 1 .. sent + 1
                      /\ \A j \in 1 .. k - 1 :
                           incomingChannel'[j].event.n
                             < incomingChannel'[k].event.n
    BY <1>3, <1>8 DEF QueueInOrder, Honest
  <2>1. CASE k = n + 1
    <3>1. \A j \in 1 .. k - 1 :
            j \in 1 .. n /\ incomingChannel'[j] = incomingChannel[j]
      BY <1>8, <2>1
    <3>2. \A j \in 1 .. k - 1 : incomingChannel'[j].event.n < sent + 1
      BY <1>1, <1>9, <3>1
    <3> QED BY <1>1, <1>6, <1>8, <2>1, <3>2
  <2>2. CASE k \in 1 .. n
    <3>1. \A j \in 1 .. k - 1 : j \in 1 .. n BY <1>8
    <3>2. /\ Honest(incomingChannel[k])
          /\ incomingChannel[k].event.n \in 1 .. sent
          /\ \A j \in 1 .. k - 1 :
               incomingChannel[j].event.n < incomingChannel[k].event.n
      BY <2>2 DEF History, QueueInOrder, n
    <3> QED BY <1>1, <1>8, <2>2, <3>1, <3>2
  <2> QED BY <1>8, <2>1, <2>2
<1>11. ASSUME NEW v, Earlier(v) PROVE Earlier(v)'
  <2>1. v.n \in 1 .. sent + 1 /\ v.n < sent + 1
    BY <1>1, <1>11 DEF Earlier
  <2>2. \A k \in 1 .. n : v.n < incomingChannel'[k].event.n
    BY <1>8, <1>11 DEF Earlier, n
  <2>3. \A k \in 1 .. n + 1 : v.n < incomingChannel'[k].event.n
    BY <1>6, <1>8, <2>1, <2>2
  <2> QED BY <1>3, <1>8, <2>1, <2>3 DEF Earlier
<1>12. \A c \in Chan : Delivered(c)' = Delivered(c)
  BY <1>3, <1>4 DEF Delivered
<1>13. \A m : Left(m)' = Left(m) BY <1>3, <1>4 DEF Left, Delivered, ToRepeater
<1>14. SendsEarlier'
  BY <1>4, <1>11, <1>13 DEF History, SendsEarlier, Honest
<1>15. DeliveredEarlier'
  BY <1>11, <1>12 DEF History, DeliveredEarlier, MayReach
<1>16. LeftOnce' BY <1>13 DEF History, LeftOnce
<1>17. HistoryType' BY <1>1, <1>3 DEF History, HistoryType
<1> QED BY <1>10, <1>14, <1>15, <1>16, <1>17 DEF History

\* Taken from incomingChannel, an event has not left yet, and it is ahead of
\* those that still wait.
LEMMA RouteKeepsHistory ==
  ASSUME TypeOK, WellNamed, History, RouteEvent, UNCHANGED <<sent, taken>>
  PROVE  History'
<1> DEFINE q == incomingChannel
<1> PICK e : e = Head(q) OBVIOUS
<1> PICK n : n = Len(q) OBVIOUS
<1>1. /\ q # <<>> /\ attempts' = Route(e) /\ q' = Tail(q)
      /\ writeChannel' = writeChannel
  BY DEF RouteEvent
<1>2. q \in Seq(HubEventWrapper) BY DEF TypeOK, Bounded
<1>3. /\ e = q[1] /\ e \in HubEventWrapper /\ n \in Nat /\ n >= 1
      /\ Len(q') = n - 1
      /\ \A k \in 1 .. n - 1 : q'[k] = q[k + 1]
  BY <1>1, <1>2, RangeTail
<1>4. \A a \in Range(attempts') : a.e = e BY <1>1, <1>3, RouteIs
<1>5. \A k \in 1 .. n :
        /\ Honest(q[k]) /\ q[k].event.n \in 1 .. sent
        /\ \A j \in 1 .. k - 1 : q[j].event.n < q[k].event.n
  BY DEF History, QueueInOrder
<1>6. sent \in Nat BY DEF History, HistoryType
<1>7. \A k \in 1 .. n - 1 : k + 1 \in 1 .. n /\ 1 \in 1 .. (k + 1) - 1
  BY <1>3
<1>8. QueueInOrder'
  <2> SUFFICES ASSUME NEW k \in 1 .. n - 1
               PROVE  /\ Honest(q'[k])
                      /\ q'[k].event.n \in 1 .. sent
                      /\ \A j \in 1 .. k - 1 : q'[j].event.n < q'[k].event.n
    BY <1>3 DEF QueueInOrder, Honest
  <2>1. \A j \in 1 .. k - 1 : j \in 1 .. n - 1 /\ j + 1 \in 1 .. (k + 1) - 1
    BY <1>3
  <2> QED BY <1>3, <1>5, <1>7, <2>1
<1>9. Honest(e) /\ e.event.n \in 1 .. sent
  <2>1. 1 \in 1 .. n BY <1>3
  <2> QED BY <1>3, <1>5, <2>1
<1>10. Earlier(e.event)'
  <2>1. \A k \in 1 .. n - 1 : e.event.n < q'[k].event.n
    BY <1>3, <1>5, <1>7
  <2> QED BY <1>3, <1>9, <2>1 DEF Earlier
<1>11. ASSUME NEW v, Earlier(v) PROVE Earlier(v)'
  <2>1. \A k \in 1 .. n : v.n < q[k].event.n BY <1>11 DEF Earlier
  <2>2. \A k \in 1 .. n - 1 : v.n < q'[k].event.n BY <1>3, <1>7, <2>1
  <2> QED BY <1>3, <1>11, <2>2 DEF Earlier
<1>12. \A c \in Chan : Delivered(c)' = Delivered(c) BY <1>1 DEF Delivered
<1>13. \A m : Left(m)' = Left(m) BY <1>1 DEF Left, Delivered, ToRepeater
<1>14. Left(e.event.n) = {}
  <2> SUFFICES ASSUME NEW c \in ToRepeater, NEW k \in 1 .. Len(Delivered(c)),
                      Delivered(c)[k].n = e.event.n
               PROVE  FALSE
    BY LeftIs
  <2>1. Earlier(Delivered(c)[k])
    BY DEF History, DeliveredEarlier, ToRepeater
  <2>2. 1 \in 1 .. n BY <1>3
  <2>3. Delivered(c)[k].n < e.event.n BY <1>3, <2>1, <2>2 DEF Earlier
  <2> QED BY <1>6, <1>9, <2>3
<1>15. SendsEarlier'
  BY <1>4, <1>9, <1>10, <1>13, <1>14 DEF SendsEarlier, Honest
<1>16. DeliveredEarlier'
  BY <1>11, <1>12 DEF History, DeliveredEarlier, MayReach
<1>17. LeftOnce' BY <1>13 DEF History, LeftOnce
<1>18. HistoryType' BY DEF History, HistoryType
<1> QED BY <1>8, <1>15, <1>16, <1>17, <1>18 DEF History

\* A send puts an event where it may go; one to a repeater is the first of
\* its event.
LEMMA SendKeepsHistory ==
  ASSUME TypeOK, WellNamed, InHand, History, SendAttempt,
         UNCHANGED <<sent, taken>>
  PROVE  History'
<1> PICK a : a = Head(attempts) OBVIOUS
<1> DEFINE d == a.reg.chan
           v == a.e.event
<1>1. /\ attempts # <<>> /\ attempts' = Tail(attempts)
      /\ a.guarded => admitted
      /\ incomingChannel' = incomingChannel
  BY DEF SendAttempt
<1>2. /\ a \in Attempt /\ d \in Chan /\ SendOK(a)
      /\ KindOf[a.reg.id] = Repeater => attempts' = <<>>
  BY <1>1, SendsTail DEF TypeOK, InHand, Attempt, Registration
<1>3. a \in Range(attempts) /\ \A b \in Range(attempts') : b \in Range(attempts)
  BY <1>1, RangeTail DEF TypeOK
<1>4. /\ Honest(a.e) /\ Earlier(v)
      /\ KindOf[a.reg.id] = Repeater => Left(v.n) = {}
  BY <1>3 DEF History, SendsEarlier
<1>5. ~Echo(a)
  <2>1. CASE a.guarded BY <1>1, <2>1 DEF InHand
  <2>2. CASE ~a.guarded
    BY <1>2, <2>2 DEF SendOK, Echo, Messenger, Hub
  <2> QED BY <2>1, <2>2
<1>6. a.reg.id = IdOf[d] BY <1>2 DEF SendOK
<1>7. MayReach(d, v)
  <2>1. a.e.source = KindOf[v.from] /\ a.e.sourceID = v.from
    BY <1>4 DEF Honest
  <2>2. KindOf[IdOf[d]] \in Reaches(KindOf[v.from])
    BY <1>2, <1>6, <2>1 DEF SendOK
  <2>3. ASSUME KindOf[v.from] = Messenger, IdOf[d] = v.from PROVE FALSE
    BY <1>5, <1>6, <2>1, <2>3 DEF Echo
  <2> QED BY <2>2, <2>3 DEF MayReach
<1>8. HistoryType BY DEF History
<1>9. PICK n \in Nat : n = Len(Delivered(d)) BY <1>2, <1>8, DeliveredType
<1>10. /\ \A c \in Chan : c # d => Delivered(c)' = Delivered(c)
       /\ Len(Delivered(d)') = n + 1
       /\ \A k \in 1 .. n : Delivered(d)'[k] = Delivered(d)[k]
       /\ Delivered(d)'[n + 1] = v
  BY <1>2, <1>8, <1>9, SendDelivers
<1> HIDE DEF d, v
<1>11. \A u : Earlier(u)' <=> Earlier(u) BY <1>1 DEF Earlier
<1>12. ASSUME NEW c \in Chan, NEW k \in 1 .. Len(Delivered(c)')
       PROVE  \/ c = d /\ k = n + 1 /\ Delivered(c)'[k] = v
              \/ k \in 1 .. Len(Delivered(c))
                 /\ Delivered(c)'[k] = Delivered(c)[k]
  <2>1. CASE c # d BY <1>10, <2>1
  <2>2. CASE c = d
    <3>1. k \in 1 .. n + 1 BY <1>10, <2>2
    <3>2. k = n + 1 \/ k \in 1 .. n BY <3>1
    <3> QED BY <1>9, <1>10, <2>2, <3>2
  <2> QED BY <2>1, <2>2
<1>13. DeliveredEarlier'
  <2> SUFFICES ASSUME NEW c \in Chan, NEW k \in 1 .. Len(Delivered(c)')
               PROVE  Earlier(Delivered(c)'[k]) /\ MayReach(c, Delivered(c)'[k])
    BY <1>11 DEF DeliveredEarlier, MayReach
  <2>1. \A j \in 1 .. Len(Delivered(c)) :
          Earlier(Delivered(c)[j]) /\ MayReach(c, Delivered(c)[j])
    BY DEF History, DeliveredEarlier
  <2> QED BY <1>4, <1>7, <1>12, <2>1
<1>14. QueueInOrder' BY <1>1 DEF History, QueueInOrder, Honest
<1>15. HistoryType' BY DEF History, HistoryType
<1>16. CASE KindOf[a.reg.id] = Repeater
  <2>1. Range(attempts') = {} BY <1>2, <1>16 DEF Range
  <2>2. SendsEarlier' BY <2>1 DEF SendsEarlier
  <2>3. ASSUME NEW m \in Nat, NEW x \in Left(m)', NEW y \in Left(m)'
        PROVE  x = y
    <3>1. PICK c \in ToRepeater : \E k \in 1 .. Len(Delivered(c)') :
            x = <<c, k>> /\ Delivered(c)'[k].n = m
      BY LeftNext
    <3>2. PICK b \in ToRepeater : \E j \in 1 .. Len(Delivered(b)') :
            y = <<b, j>> /\ Delivered(b)'[j].n = m
      BY LeftNext
    <3>3. (x = <<d, n + 1>> /\ v.n = m) \/ x \in Left(m)
      BY <1>12, <3>1, LeftIs DEF ToRepeater
    <3>4. (y = <<d, n + 1>> /\ v.n = m) \/ y \in Left(m)
      BY <1>12, <3>2, LeftIs DEF ToRepeater
    <3>5. \A p, r \in Left(m) : p = r BY DEF History, LeftOnce
    <3> QED BY <1>4, <1>16, <3>3, <3>4, <3>5
  <2>4. LeftOnce' BY <2>3 DEF LeftOnce
  <2> QED BY <1>13, <1>14, <1>15, <2>2, <2>4 DEF History
<1>17. CASE KindOf[a.reg.id] # Repeater
  <2>1. d \notin ToRepeater BY <1>6, <1>17 DEF ToRepeater
  <2>2. ASSUME NEW m PROVE Left(m)' = Left(m)
    <3>1. \A c \in ToRepeater : Delivered(c)' = Delivered(c)
      BY <1>10, <2>1 DEF ToRepeater
    <3>2. ASSUME NEW x PROVE x \in Left(m)' <=> x \in Left(m)
      <4>1. x \in Left(m)' <=>
              \E c \in ToRepeater : \E k \in 1 .. Len(Delivered(c)') :
                x = <<c, k>> /\ Delivered(c)'[k].n = m
        BY LeftNext
      <4>2. x \in Left(m) <=>
              \E c \in ToRepeater : \E k \in 1 .. Len(Delivered(c)) :
                x = <<c, k>> /\ Delivered(c)[k].n = m
        BY LeftIs
      <4> QED BY <3>1, <4>1, <4>2
    <3> QED BY <3>2
  <2>3. SendsEarlier'
    BY <1>3, <1>11, <2>2 DEF History, SendsEarlier, Honest
  <2>4. LeftOnce' BY <2>2 DEF History, LeftOnce
  <2> QED BY <1>13, <1>14, <1>15, <2>3, <2>4 DEF History
<1> QED BY <1>16, <1>17

\* Every step of the bounded instances keeps the history.
LEMMA HistoryStep ==
  ASSUME TypeOK, WellNamed, InHand, History, [MCNext]_mcVars
  PROVE  History'
<1>1. CASE UNCHANGED <<sent, taken, incomingChannel, writeChannel, attempts>>
  <2>1. \A c \in Chan : Delivered(c)' = Delivered(c) BY <1>1 DEF Delivered
  <2>2. HistoryType' BY <1>1 DEF History, HistoryType
  <2> QED BY <1>1, <2>1, <2>2, QuietStep
<1>2. CASE Event BY <1>2, EventKeepsHistory
<1>3. CASE Take
  <2>1. UNCHANGED <<sent, incomingChannel, attempts>>
    BY <1>3 DEF Take, Receive, dispatch
  <2>2. HistoryType' /\ \A c \in Chan : Delivered(c)' = Delivered(c)
    BY <1>3, TakeKeepsDelivered DEF History
  <2> QED BY <2>1, <2>2, QuietStep
<1>4. CASE RouteEvent /\ UNCHANGED <<sent, taken>>
  BY <1>4, RouteKeepsHistory
<1>5. CASE SendAttempt /\ UNCHANGED <<sent, taken>>
  BY <1>5, SendKeepsHistory
<1>6. CASE SkipAttempt /\ UNCHANGED <<sent, taken>>
  <2>1. /\ attempts # <<>> /\ attempts' = Tail(attempts)
        /\ UNCHANGED <<incomingChannel, writeChannel>>
    BY <1>6 DEF SkipAttempt
  <2>2. \A a \in Range(attempts') : a \in Range(attempts)
    BY <2>1, RangeTail DEF TypeOK
  <2>3. \A c \in Chan : Delivered(c)' = Delivered(c)
    BY <1>6, <2>1 DEF Delivered
  <2>4. HistoryType' BY <1>6 DEF History, HistoryType
  <2> QED BY <1>6, <2>1, <2>2, <2>3, <2>4, QuietStep
<1>7. \/ UNCHANGED <<sent, taken, incomingChannel, writeChannel, attempts>>
      \/ Event \/ Take
      \/ (RouteEvent \/ SendAttempt \/ SkipAttempt) /\ UNCHANGED <<sent, taken>>
  BY DEF MCNext, mcVars, vars, Change, Router, Dispatch, Reregister,
         registries, dispatch, RegisterConnection, DeregisterConnection,
         ChangeSubscription, SubmitRegistrationChange, AdmitAttempt,
         ChangePeer, StartJob, registerMessenger, deregisterMessenger
<1> QED BY <1>1, <1>2, <1>3, <1>4, <1>5, <1>6, <1>7

\* The history is in order in every reachable state of the bounded instances.
LEMMA HistoryCorrect == MCSpec => []History
<1>1. MCInit => History
  <2> SUFFICES ASSUME MCInit PROVE History OBVIOUS
  <2>1. /\ sent = 0 /\ taken = [c \in Chan |-> <<>>]
        /\ incomingChannel = <<>> /\ attempts = <<>>
        /\ writeChannel = [c \in Chan |-> <<>>]
    BY DEF MCInit, Init
  <2>2. HistoryType BY <2>1, EmptySeq DEF HistoryType
  <2>3. QueueInOrder BY <2>1 DEF QueueInOrder
  <2>4. Range(attempts) = {} BY <2>1 DEF Range
  <2>5. SendsEarlier BY <2>4 DEF SendsEarlier
  <2>6. \A c \in Chan : Len(Delivered(c)) = 0
    <3> SUFFICES ASSUME NEW c \in Chan PROVE Len(Delivered(c)) = 0 OBVIOUS
    <3>1. Delivered(c) = Joined(<<>>, <<>>) BY <2>1 DEF Delivered, Joined
    <3>2. /\ <<>> \in Seq(Payload) /\ <<>> \in Seq(EventWrapper)
          /\ Len(<<>>) = 0
      BY EmptySeq
    <3>3. Len(Joined(<<>>, <<>>)) = Len(<<>>) + Len(<<>>)
      BY <3>2, JoinedIs
    <3> QED BY <3>1, <3>2, <3>3
  <2>7. DeliveredEarlier BY <2>6 DEF DeliveredEarlier
  <2>8. \A n, x : x \notin Left(n) BY <2>6, LeftIs DEF ToRepeater
  <2>9. LeftOnce BY <2>8 DEF LeftOnce
  <2> QED BY <2>2, <2>3, <2>5, <2>7, <2>9 DEF History
<1>2. TypeOK /\ WellNamed /\ InHand /\ History /\ [MCNext]_mcVars => History'
  BY HistoryStep
<1> QED
  BY <1>1, <1>2, MCImpliesSpec, TypeCorrect, NamesCorrect, InHandCorrect, PTL
     DEF MCSpec

\* An event only moves away from where it came from: what Nexus.start sends a
\* connection came from a kind that may reach it, and never from itself.
THEOREM SplitHorizonCorrect == MCSpec => []SplitHorizon
<1>1. History => SplitHorizon
  BY DEF History, DeliveredEarlier, MayReach, SplitHorizon
<1> QED BY <1>1, HistoryCorrect, PTL

\* The round robin of Nexus.start hands an event to one repeater at most, over
\* all repeaters and for ever.
THEOREM OneRepeaterCorrect == MCSpec => []AtMostOneRepeater
<1>1. History => AtMostOneRepeater
  <2> SUFFICES ASSUME History, NEW n \in 1 .. sent
               PROVE  Cardinality(Left(n)) <= 1
    BY DEF AtMostOneRepeater, Left, ToRepeater
  <2>1. n \in Nat BY DEF History, HistoryType
  <2>2. \A x, y \in Left(n) : x = y BY <2>1 DEF History, LeftOnce
  <2>3. CASE Left(n) = {} BY <2>3, FS_EmptySet
  <2>4. CASE Left(n) # {}
    <3>1. PICK x : Left(n) = {x} BY <2>2, <2>4
    <3>2. Cardinality(Left(n)) = 1
      <4>1. Cardinality({x}) = 1 BY FS_Singleton
      <4> QED BY <3>1, <4>1
    <3> QED BY <3>2
  <2> QED BY <2>3, <2>4
<1> QED BY <1>1, HistoryCorrect, PTL
=============================================================================
