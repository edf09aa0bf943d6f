-------------------------- MODULE MessengerProofs --------------------------
(***************************************************************************)
(* The types of module Messenger, the protocol of its two tokens, and what *)
(* the bounded instances of module MCMessenger keep for every bound: the   *)
(* order of the events and the subscriptions of the program.               *)
(***************************************************************************)
EXTENDS MCMessenger, SliceTheorems, TLAPS

\* A step of the program's calls keeps the types.
LEMMA AppType ==
  ASSUME TypeOK,
         \/ \E e \in Payload : Send(e)
         \/ Receive \/ SendChange \/ Kill
         \/ \E rooms \in SUBSET Rooms :
              SubscribeToRooms(rooms) \/ UnsubscribeFromRooms(rooms)
  PROVE  TypeOK'
<1> USE MessengerAssumption DEF TypeOK, events, subs, tokens, pump, out
<1>1. CASE \E e \in Payload : Send(e)
  BY <1>1 DEF Send
<1>2. CASE Receive
  BY <1>2 DEF Receive
<1>3. CASE SendChange
  BY <1>3 DEF SendChange
<1>4. CASE Kill
  BY <1>4 DEF Kill
<1>5. ASSUME NEW rooms \in SUBSET Rooms, SubscribeToRooms(rooms)
      PROVE  TypeOK'
  <2>1. [rooms |-> rooms, create |-> TRUE] \in SubscriptionChange
    BY DEF SubscriptionChange
  <2> QED BY <1>5, <2>1 DEF SubscribeToRooms
<1>6. ASSUME NEW rooms \in SUBSET Rooms, UnsubscribeFromRooms(rooms)
      PROVE  TypeOK'
  <2>1. [rooms |-> rooms, create |-> FALSE] \in SubscriptionChange
    BY DEF SubscriptionChange
  <2> QED BY <1>6, <2>1 DEF UnsubscribeFromRooms
<1> QED BY <1>1, <1>2, <1>3, <1>4, <1>5, <1>6

\* A step of the read pump keeps the types.
LEMMA ReaderType ==
  ASSUME TypeOK,
         ReadPump \/ ReadFails \/ SkipMessage
           \/ \E e \in Payload : ReadEvent(e)
  PROVE  TypeOK'
<1> USE MessengerAssumption
    DEF TypeOK, events, subs, tokens, pump, out, ReaderOnly, ReaderState
<1>1. CASE PollKill
  BY <1>1 DEF PollKill
<1>2. CASE Deliver
  BY <1>2 DEF Deliver
<1>3. CASE SignalRead
  BY <1>3 DEF SignalRead
<1>4. CASE ReadFails
  BY <1>4 DEF ReadFails
<1>5. CASE SkipMessage
  BY <1>5 DEF SkipMessage
<1>6. CASE \E e \in Payload : ReadEvent(e)
  BY <1>6 DEF ReadEvent
<1> QED BY <1>1, <1>2, <1>3, <1>4, <1>5, <1>6 DEF ReadPump

\* The write pump has one message in hand, while it writes.
LEMMA OneInHand ==
  ASSUME TypeOK
  PROVE  /\ eventOut # <<>> =>
              writer = "writing" /\ Len(eventOut) = 1 /\ changeOut = <<>>
         /\ changeOut # <<>> =>
              writer = "writing" /\ Len(changeOut) = 1 /\ eventOut = <<>>
         /\ writer # "writing" => eventOut = <<>> /\ changeOut = <<>>
<1>1. /\ eventOut \in Seq(Payload) /\ changeOut \in Seq(SubscriptionChange)
      /\ Len(eventOut) + Len(changeOut) = IF writer = "writing" THEN 1 ELSE 0
  BY DEF TypeOK
<1>2. Len(eventOut) \in Nat /\ (eventOut # <<>> => Len(eventOut) >= 1)
  BY <1>1, LenProperties, EmptySeq
<1>3. Len(changeOut) \in Nat /\ (changeOut # <<>> => Len(changeOut) >= 1)
  BY <1>1, LenProperties, EmptySeq
<1> DEFINE m == Len(eventOut)
           n == Len(changeOut)
<1>4. m \in Nat /\ n \in Nat /\ m + n = IF writer = "writing" THEN 1 ELSE 0
  BY <1>1, <1>2, <1>3
<1> HIDE DEF m, n
<1>5. /\ m >= 1 => writer = "writing" /\ m = 1 /\ ~(n >= 1)
      /\ n >= 1 => writer = "writing" /\ n = 1 /\ ~(m >= 1)
      /\ writer # "writing" => ~(m >= 1) /\ ~(n >= 1)
  BY <1>4
<1> QED BY <1>2, <1>3, <1>5 DEF m, n

\* A step of the write pump keeps the types.
LEMMA WriterType ==
  ASSUME TypeOK, WritePump \/ WriteEventFails \/ WriteChangeFails
  PROVE  TypeOK'
<1> USE MessengerAssumption
    DEF TypeOK, events, subs, tokens, out, WriterOnly, WriterState, RetryState
<1>3. Len(<<>>) = 0 BY EmptySeq
<1>1. CASE TakeEvent
  <2>1. /\ writeChannel' \in Seq(Payload) /\ Len(writeChannel') <= BufferSize
        /\ eventOut' \in Seq(Payload) /\ Len(eventOut') = 1
    BY <1>1, RangeTail DEF TakeEvent
  <2>2. Len(changeOut) = 0
    BY <1>1, <1>3, OneInHand DEF TakeEvent
  <2> QED BY <1>1, <2>1, <2>2 DEF TakeEvent
<1>2. CASE TakeChange
  <2>1. /\ subscriptionChannel' \in Seq(SubscriptionChange)
        /\ Len(subscriptionChannel') <= SubscriptionCap
        /\ changeOut' \in Seq(SubscriptionChange) /\ Len(changeOut') = 1
    BY <1>2, RangeTail DEF TakeChange
  <2>2. Len(eventOut) = 0
    BY <1>2, <1>3, OneInHand DEF TakeChange
  <2> QED BY <1>2, <2>1, <2>2 DEF TakeChange
<1>5. CASE WriteEvent
  BY <1>3, <1>5, OneInHand DEF WriteEvent
<1>6. CASE WriteEventFails
  <2>1. eventOut' = <<>> /\ changeOut' = <<>> /\ writer' = "signalling"
    BY <1>6, OneInHand DEF WriteEventFails
  <2>2. Len(eventOut') + Len(changeOut') = 0 BY <1>3, <2>1
  <2>3. /\ eventOut' \in Seq(Payload) /\ changeOut' \in Seq(SubscriptionChange)
        /\ writer' \in WriterState /\ writer' # "writing"
        /\ open' \in BOOLEAN
    BY <1>6, <2>1, EmptySeq DEF WriteEventFails
  <2> HIDE DEF WriterState
  <2> QED BY <1>6, <2>2, <2>3 DEF WriteEventFails
<1>7. CASE WriteChange
  <2>1. Head(changeOut) \in SubscriptionChange
    BY <1>7 DEF WriteChange
  <2>2. Held(Head(changeOut)) \in [Rooms -> Nat]
    BY <2>1 DEF Held, SubscriptionChange
  <2> QED BY <1>3, <1>7, <2>2, OneInHand DEF WriteChange
<1>8. CASE WriteChangeFails
  <2>1. eventOut' = <<>> /\ changeOut' = <<>> /\ writer' = "signalling"
    BY <1>8, OneInHand DEF WriteChangeFails
  <2>2. Len(eventOut') + Len(changeOut') = 0 BY <1>3, <2>1
  <2>3. /\ eventOut' \in Seq(Payload) /\ changeOut' \in Seq(SubscriptionChange)
        /\ writer' \in WriterState /\ writer' # "writing"
        /\ open' \in BOOLEAN
    BY <1>8, <2>1, EmptySeq DEF WriteChangeFails
  <2> HIDE DEF WriterState
  <2> QED BY <1>8, <2>2, <2>3 DEF WriteChangeFails
<1>9. CASE TakeReadDone
  BY <1>9 DEF TakeReadDone
<1>10. CASE PutBackReadDone
  BY <1>10 DEF PutBackReadDone
<1>11. CASE TakeKill
  BY <1>11 DEF TakeKill
<1>12. CASE SignalWrite
  BY <1>12 DEF SignalWrite
<1> QED
  BY <1>1, <1>2, <1>5, <1>6, <1>7, <1>8, <1>9, <1>10, <1>11, <1>12
     DEF WritePump

\* A step of retryConnection keeps the types.  That the read pump has nothing
\* in hand when it is started is the tokens' doing.
LEMMA RetryType ==
  ASSUME TypeOK, TokensMatchPumps, retryConnection
  PROVE  TypeOK'
<1> USE MessengerAssumption
    DEF TypeOK, events, subs, tokens, pump, out, ResubOnly, RetryState
<1>1. CASE WaitRead
  BY <1>1 DEF WaitRead
<1>2. CASE WaitWrite
  BY <1>2 DEF WaitWrite
<1>3. CASE Connect
  <2>1. [at |-> "listing", rooms |-> {}] \in Resub
    BY DEF Resub
  <2>2. Nothing \in [Rooms -> Nat]
    BY DEF Nothing
  <2>3. resubs' \in Seq(Resub)
    BY <1>3, <2>1 DEF Connect
  <2>4. reader' \in ReaderState /\ writer' \in WriterState
    BY <1>3 DEF Connect, ReaderState, WriterState
  <2>5. inHand' # <<>> <=> reader' = "delivering"
    BY <1>3 DEF Connect, TokensMatchPumps
  <2>6. Len(eventOut') + Len(changeOut')
          = IF writer' = "writing" THEN 1 ELSE 0
    BY <1>3 DEF Connect, TokensMatchPumps
  <2> QED BY <1>3, <2>2, <2>3, <2>4, <2>5, <2>6 DEF Connect
<1>4. ASSUME NEW k \in 1 .. Len(resubs), ListRooms(k)
      PROVE  TypeOK'
  <2>1. SwapRemove(resubs, k) \in Seq(Resub)
    BY SwapRemoveType
  <2>2. [at |-> "adding", rooms |-> subscriptionList] \in Resub
    BY DEF Resub
  <2>3. resubs' \in Seq(Resub)
    BY <1>4, <2>1, <2>2 DEF ListRooms
  <2> QED BY <1>4, <2>3 DEF ListRooms
<1>5. ASSUME NEW k \in 1 .. Len(resubs), AddRooms(k)
      PROVE  TypeOK'
  <2>1. resubs[k] \in Resub
    OBVIOUS
  <2>2. [resubs[k] EXCEPT !.at = "sending"] \in Resub
    BY <2>1 DEF Resub
  <2>3. resubs' \in Seq(Resub)
    BY <1>5, <2>2 DEF AddRooms
  <2>4. subscriptionList' \in SUBSET Rooms
    BY <1>5, <2>1 DEF AddRooms, Resub
  <2> QED BY <1>5, <2>3, <2>4 DEF AddRooms
<1>6. ASSUME NEW k \in 1 .. Len(resubs), SendRooms(k)
      PROVE  TypeOK'
  <2>1. resubs[k] \in Resub
    OBVIOUS
  <2>2. [rooms |-> resubs[k].rooms, create |-> TRUE] \in SubscriptionChange
    BY <2>1 DEF Resub, SubscriptionChange
  <2>3. SwapRemove(resubs, k) \in Seq(Resub)
    BY SwapRemoveType
  <2> QED BY <1>6, <2>2, <2>3 DEF SendRooms
<1> HIDE DEF TypeOK
<1> QED BY <1>1, <1>2, <1>3, <1>4, <1>5, <1>6 DEF retryConnection

\* Every step keeps the match of tokens and pumps.
LEMMA TokensStep ==
  ASSUME TypeOK, TokensMatchPumps, [Next]_vars
  PROVE  TokensMatchPumps'
<1> USE DEF TokensMatchPumps, TypeOK, tokens, pump, out
<1>1. CASE UNCHANGED vars
  BY <1>1 DEF vars
<1>2. CASE UNCHANGED <<reader, writer, tokens, retry, open>>
  BY <1>2
<1>3. CASE \/ PollKill \/ Deliver \/ SkipMessage \/ ReadFails \/ SignalRead
           \/ \E e \in Payload : ReadEvent(e)
  BY <1>3 DEF PollKill, Deliver, SkipMessage, ReadFails, SignalRead,
              ReadEvent, ReaderOnly
<1>4. CASE \/ TakeEvent \/ WriteEvent \/ WriteEventFails
           \/ TakeChange \/ WriteChange \/ WriteChangeFails
  <2>1. writer \in {"selecting", "writing"}
    BY <1>4 DEF TakeEvent, WriteEvent, WriteEventFails, TakeChange,
                WriteChange, WriteChangeFails
  <2>2. /\ UNCHANGED <<reader, tokens, retry>>
        /\ writer' \in {"selecting", "writing", "signalling"}
        /\ open' => open /\ writer' # "signalling"
    BY <1>4 DEF TakeEvent, WriteEvent, WriteEventFails, TakeChange,
                WriteChange, WriteChangeFails, WriterOnly
  <2> QED BY <2>1, <2>2
<1>5. CASE TakeReadDone
  BY <1>5 DEF TakeReadDone, WriterOnly
<1>6. CASE PutBackReadDone
  BY <1>6 DEF PutBackReadDone, WriterOnly
<1>7. CASE TakeKill
  BY <1>7 DEF TakeKill, WriterOnly
<1>8. CASE SignalWrite
  BY <1>8 DEF SignalWrite
<1>9. CASE WaitRead \/ WaitWrite
  BY <1>9 DEF WaitRead, WaitWrite
<1>10. CASE Connect
  BY <1>10 DEF Connect
<1>11. CASE \/ Receive \/ SendChange \/ Kill
            \/ \E e \in Payload : Send(e)
            \/ \E k \in 1 .. Len(resubs) :
                 ListRooms(k) \/ AddRooms(k) \/ SendRooms(k)
            \/ \E rooms \in SUBSET Rooms :
                 SubscribeToRooms(rooms) \/ UnsubscribeFromRooms(rooms)
  <2>1. UNCHANGED <<reader, writer, tokens, retry, open>>
    BY <1>11 DEF Receive, SendChange, Kill, Send, ListRooms, AddRooms,
                 SendRooms, ResubOnly, SubscribeToRooms, UnsubscribeFromRooms
  <2> QED BY <2>1, <1>2
<1> QED
  BY <1>1, <1>3, <1>4, <1>5, <1>6, <1>7, <1>8, <1>9, <1>10, <1>11
     DEF Next, Pumps, ReadPump, WritePump, Break, retryConnection

\* The tokens and the types of every state: the two hold together, because a
\* pump started while the last one still runs would leave it with an event.
LEMMA MessengerInvariant == Spec => [](TypeOK /\ TokensMatchPumps)
<1>1. Init => TypeOK
  <2> SUFFICES ASSUME Init PROVE TypeOK OBVIOUS
  <2>1. Nothing \in [Rooms -> Nat]
    BY DEF Nothing
  <2>2. /\ reader \in ReaderState \ {"delivering"}
        /\ writer \in WriterState
        /\ retry \in RetryState
        /\ readDone \in BOOLEAN /\ writeDone \in BOOLEAN
        /\ killed \in BOOLEAN /\ open \in BOOLEAN
    BY DEF Init, ReaderState, WriterState, RetryState
  <2> QED BY <2>1, <2>2, MessengerAssumption DEF Init, TypeOK
<1>2. Init => TokensMatchPumps
  BY DEF Init, TokensMatchPumps
<1>3. TypeOK /\ TokensMatchPumps /\ [Next]_vars => TypeOK'
  <2> SUFFICES ASSUME TypeOK, TokensMatchPumps, [Next]_vars PROVE TypeOK'
    OBVIOUS
  <2>1. CASE UNCHANGED vars
    BY <2>1 DEF TypeOK, vars
  <2>2. CASE Next
    BY <2>2, AppType, ReaderType, WriterType, RetryType
       DEF Next, Pumps, Break
  <2> QED BY <2>1, <2>2
<1> QED BY <1>1, <1>2, <1>3, TokensStep, PTL DEF Spec

\* Every state of a messenger has the types of TypeOK: the channels keep to
\* their capacities and the read pump holds an event only to deliver it.
THEOREM MessengerTypeCorrect == Spec => []TypeOK
BY MessengerInvariant, PTL

\* The two tokens say which pumps have ended: no pump waits to leave its
\* token, none is lost, and retryConnection dials after both pumps have ended
\* and the old socket is closed.
THEOREM TokensCorrect == Spec => []TokensMatchPumps
BY MessengerInvariant, PTL

\* The bounded instances take no step of their own.
LEMMA StepOfMCIsStep ==
  ASSUME sent \in Nat, frames \in Nat, [MCNext]_mcVars
  PROVE  [Next]_vars /\ sent' \in Nat /\ frames' \in Nat
<1>1. CASE UNCHANGED mcVars BY <1>1 DEF mcVars
<1>2. CASE Sending
  <2>1. sent' \in 1 .. MaxSends /\ Send(sent') /\ frames' = frames
    BY <1>2, MCMessengerAssumption DEF Sending
  <2>2. sent' \in Payload BY <2>1, MCMessengerAssumption DEF MCPayload
  <2> QED BY <2>1, <2>2 DEF Next
<1>3. CASE Calling BY <1>3 DEF Calling, Next
<1>4. CASE Reading
  <2>1. /\ frames' \in 1 .. MaxFrames /\ sent' = sent
        /\ ReadEvent(MaxSends + frames') \/ SkipMessage
    BY <1>4, MCMessengerAssumption DEF Reading
  <2>2. MaxSends + frames' \in Payload
    BY <2>1, MCMessengerAssumption DEF MCPayload
  <2> QED BY <2>1, <2>2 DEF Next, Pumps
<1>5. CASE Breaking BY <1>5 DEF Breaking, Next, Pumps
<1>6. CASE Writing BY <1>6 DEF Writing, Next, Pumps
<1>7. CASE Other BY <1>7 DEF Other, Next, Pumps
<1> QED BY <1>1, <1>2, <1>3, <1>4, <1>5, <1>6, <1>7 DEF MCNext

\* So what is proved of a messenger holds of them.
LEMMA MCImpliesSpec == MCSpec => Spec
<1>1. MCInit => Init /\ sent \in Nat /\ frames \in Nat BY DEF MCInit
<1>2. sent \in Nat /\ frames \in Nat /\ [MCNext]_mcVars
        => [Next]_vars /\ (sent \in Nat /\ frames \in Nat)'
  BY StepOfMCIsStep
<1> QED BY <1>1, <1>2, PTL DEF MCSpec, Spec

-----------------------------------------------------------------------------
(***************************************************************************)
(* What the write pump is writing and what waits behind it, as one         *)
(* sequence h \o s: the pump writes one message at a time.                 *)
(***************************************************************************)

\* Taking the head of the channel into an empty hand moves nothing.
LEMMA HandTakes ==
  ASSUME NEW S, NEW h \in Seq(S), NEW s \in Seq(S), Len(h) = 0, s # <<>>
  PROVE  <<Head(s)>> \o Tail(s) = h \o s
<1>1. h = <<>> BY EmptySeq
<1>2. h \o s = s BY <1>1, ConcatEmptySeq
<1>3. /\ Head(s) = s[1] /\ Head(s) \in S /\ Tail(s) \in Seq(S)
      /\ Len(s) \in Nat /\ Len(s) >= 1 /\ Len(Tail(s)) = Len(s) - 1
      /\ \A k \in 1 .. Len(s) - 1 : Tail(s)[k] = s[k + 1]
  BY RangeTail
<1> DEFINE e == <<Head(s)>>
           t == e \o Tail(s)
<1>4. e \in Seq(S) /\ Len(e) = 1 /\ e[1] = s[1] BY <1>3
<1> HIDE DEF e
<1>5. /\ t \in Seq(S) /\ Len(t) = Len(s)
      /\ \A k \in 1 .. Len(s) :
           t[k] = IF k <= 1 THEN e[k] ELSE Tail(s)[k - 1]
  <2>1. /\ t \in Seq(S) /\ Len(t) = Len(e) + Len(Tail(s))
        /\ \A k \in 1 .. Len(e) + Len(Tail(s)) :
             t[k] = IF k <= Len(e) THEN e[k] ELSE Tail(s)[k - Len(e)]
    <3>1. Tail(s) \in Seq(S) BY <1>3
    <3> QED BY <1>4, <3>1, ConcatProperties
  <2>2. Len(e) + Len(Tail(s)) = Len(s) BY <1>3, <1>4
  <2> QED BY <1>4, <2>1, <2>2
<1> HIDE DEF t
<1>6. \A k \in 1 .. Len(s) : t[k] = s[k]
  <2> TAKE k \in 1 .. Len(s)
  <2>1. CASE k = 1 BY <1>3, <1>4, <1>5, <2>1
  <2>2. CASE k # 1
    <3>1. k - 1 \in 1 .. Len(s) - 1 /\ (k - 1) + 1 = k BY <1>3, <2>2
    <3> QED BY <1>3, <1>5, <3>1
  <2> QED BY <2>1, <2>2
<1>7. t = s BY <1>5, <1>6, SeqEqual
<1> QED BY <1>2, <1>7 DEF t, e

\* What leaves the hand is the head.
LEMMA HandGives ==
  ASSUME NEW S, NEW h \in Seq(S), NEW s \in Seq(S), Len(h) = 1
  PROVE  /\ h \o s \in Seq(S) /\ h \o s # <<>>
         /\ Head(h \o s) = Head(h) /\ Tail(h \o s) = s
         /\ h = <<Head(h)>>
<1> DEFINE t == h \o s
<1>1. /\ t \in Seq(S) /\ Len(t) = 1 + Len(s) /\ Len(s) \in Nat
      /\ \A k \in 1 .. 1 + Len(s) :
           t[k] = IF k <= 1 THEN h[k] ELSE s[k - 1]
  <2>1. /\ t \in Seq(S) /\ Len(t) = Len(h) + Len(s)
        /\ \A k \in 1 .. Len(h) + Len(s) :
             t[k] = IF k <= Len(h) THEN h[k] ELSE s[k - Len(h)]
    BY ConcatProperties
  <2>2. Len(s) \in Nat BY LenProperties
  <2> QED BY <2>1, <2>2
<1> HIDE DEF t
<1>2. t # <<>> BY <1>1, EmptySeq
<1>3. /\ Head(t) = t[1] /\ Tail(t) \in Seq(S) /\ Len(Tail(t)) = Len(t) - 1
      /\ \A k \in 1 .. Len(t) - 1 : Tail(t)[k] = t[k + 1]
  BY <1>1, <1>2, RangeTail
<1>4. Head(t) = h[1] /\ Head(h) = h[1] BY <1>1, <1>3
<1>5. \A k \in 1 .. Len(s) : Tail(t)[k] = s[k]
  <2> TAKE k \in 1 .. Len(s)
  <2>1. k + 1 \in 1 .. 1 + Len(s) /\ ~(k + 1 <= 1) /\ (k + 1) - 1 = k
    BY <1>1
  <2> QED BY <1>1, <1>3, <2>1
<1>6. Len(Tail(t)) = Len(s) BY <1>1, <1>3
<1>7. Tail(t) = s BY <1>3, <1>5, <1>6, SeqEqual
<1>8. h = <<Head(h)>>
  <2>1. Head(h) \in S BY HeadTailProperties, EmptySeq
  <2>2. <<Head(h)>> \in Seq(S) /\ Len(<<Head(h)>>) = 1
        /\ <<Head(h)>>[1] = h[1]
    BY <1>4, <2>1
  <2> QED BY <2>2, SeqEqual
<1> QED BY <1>1, <1>2, <1>4, <1>7, <1>8 DEF t

\* What is sent goes to the end.
LEMMA HandAppend ==
  ASSUME NEW S, NEW h \in Seq(S), NEW s \in Seq(S), NEW e \in S
  PROVE  h \o Append(s, e) = Append(h \o s, e)
<1>1. <<e>> \in Seq(S) /\ h \o s \in Seq(S) BY ConcatProperties
<1>2. Append(s, e) = s \o <<e>> BY AppendIsConcat
<1>3. Append(h \o s, e) = (h \o s) \o <<e>> BY <1>1, AppendIsConcat
<1> QED BY <1>1, <1>2, <1>3, ConcatAssociative

-----------------------------------------------------------------------------
(***************************************************************************)
(* The order of the program's events.                                      *)
(***************************************************************************)

\* The events on their way to the hub.
Unsent == eventOut \o writeChannel

Ascending(s) == \A j, k \in 1 .. Len(s) : j < k => s[j] < s[k]

\* What the hub got is ahead of what waits, and that of what will be sent.
SendsInOrder ==
  /\ sent \in Nat
  /\ got \in Seq(1 .. sent) /\ Ascending(got)
  /\ Unsent \in Seq(1 .. sent) /\ Ascending(Unsent)
  /\ \A j \in 1 .. Len(got), k \in 1 .. Len(Unsent) : got[j] < Unsent[k]

\* A number above all others goes to the end.
LEMMA AscendingAppend ==
  ASSUME NEW n \in Nat, NEW s \in Seq(1 .. n), Ascending(s), NEW m \in Nat,
         NEW e \in 1 .. m, n <= m, \A k \in 1 .. Len(s) : s[k] < e
  PROVE  /\ Append(s, e) \in Seq(1 .. m) /\ Ascending(Append(s, e))
         /\ Len(Append(s, e)) = Len(s) + 1
         /\ \A k \in 1 .. Len(s) : Append(s, e)[k] = s[k]
         /\ Append(s, e)[Len(s) + 1] = e
<1> DEFINE t == Append(s, e)
<1>1. s \in Seq(1 .. m) /\ Len(s) \in Nat
  <2>1. \A k \in 1 .. Len(s) : s[k] \in 1 .. n BY ElementOfSeq
  <2>2. Len(s) \in Nat BY LenProperties
  <2>3. s \in [1 .. Len(s) -> 1 .. m] BY <2>1, LenProperties
  <2> QED BY <2>2, <2>3, FunctionIsSeq
<1>2. /\ t \in Seq(1 .. m) /\ Len(t) = Len(s) + 1
      /\ \A k \in 1 .. Len(s) : t[k] = s[k]
      /\ t[Len(s) + 1] = e
  BY <1>1, AppendProperties
<1> HIDE DEF t
<1>3. ASSUME NEW j \in 1 .. Len(t), NEW k \in 1 .. Len(t), j < k
      PROVE  t[j] < t[k]
  <2>1. j \in 1 .. Len(s) BY <1>1, <1>2, <1>3
  <2>2. k \in 1 .. Len(s) \/ k = Len(s) + 1 BY <1>1, <1>2
  <2> QED BY <1>2, <1>3, <2>1, <2>2 DEF Ascending
<1>4. Ascending(t) BY <1>3 DEF Ascending
<1> QED BY <1>2, <1>4 DEF t

\* The oldest event is below the others.
LEMMA AscendingTail ==
  ASSUME NEW n \in Nat, NEW s \in Seq(1 .. n), Ascending(s), s # <<>>
  PROVE  /\ Head(s) \in 1 .. n /\ Tail(s) \in Seq(1 .. n)
         /\ Ascending(Tail(s))
         /\ Tail(s) # s
         /\ Head(s) = s[1] /\ 1 \in 1 .. Len(s)
         /\ \A k \in 1 .. Len(Tail(s)) :
              /\ k + 1 \in 1 .. Len(s)
              /\ Tail(s)[k] = s[k + 1]
              /\ Head(s) < Tail(s)[k]
<1> DEFINE t == Tail(s)
<1>1. /\ Head(s) = s[1] /\ Head(s) \in 1 .. n /\ t \in Seq(1 .. n)
      /\ Len(s) \in Nat /\ Len(s) >= 1 /\ Len(t) = Len(s) - 1
      /\ \A k \in 1 .. Len(s) - 1 : t[k] = s[k + 1]
  BY RangeTail
<1> HIDE DEF t
<1>2. 1 \in 1 .. Len(s) BY <1>1
<1>3. t # s BY <1>1
<1>4. \A k \in 1 .. Len(t) : k + 1 \in 1 .. Len(s) /\ t[k] = s[k + 1] /\ 1 < k + 1
  BY <1>1
<1>5. \A k \in 1 .. Len(t) : Head(s) < t[k]
  BY <1>1, <1>2, <1>4 DEF Ascending
<1>6. ASSUME NEW j \in 1 .. Len(t), NEW k \in 1 .. Len(t), j < k
      PROVE  t[j] < t[k]
  <2>1. j + 1 < k + 1 BY <1>6
  <2> QED BY <1>4, <2>1 DEF Ascending
<1>7. Ascending(t) BY <1>6 DEF Ascending
<1> QED BY <1>1, <1>2, <1>3, <1>4, <1>5, <1>7 DEF t

\* The hub gets the program's events in the order they were sent and none of
\* them twice, whatever is lost with the connections between.
THEOREM EventsInOrderCorrect == MCSpec => []EventsInOrder
<1>1. MCInit => SendsInOrder
  <2> SUFFICES ASSUME MCInit PROVE SendsInOrder OBVIOUS
  <2>1. sent = 0 /\ got = <<>> /\ Unsent = <<>>
    BY ConcatEmptySeq, EmptySeq DEF MCInit, Init, Unsent
  <2> QED BY <2>1, EmptySeq DEF SendsInOrder, Ascending
<1>2. TypeOK /\ SendsInOrder /\ [MCNext]_mcVars => SendsInOrder'
  <2> SUFFICES ASSUME TypeOK, SendsInOrder, [MCNext]_mcVars
               PROVE  SendsInOrder'
    OBVIOUS
  <2> DEFINE e == eventOut
             w == writeChannel
  <2>0. /\ e \in Seq(Payload) /\ w \in Seq(Payload)
        /\ e # <<>> => Len(e) = 1
        /\ writer = "selecting" => Len(e) = 0
    BY OneInHand, EmptySeq DEF TypeOK
  <2> HIDE DEF e, w
  <2>1. CASE UNCHANGED <<sent, got, Unsent>>
    BY <2>1 DEF SendsInOrder, Ascending
  <2>2. CASE Sending
    <3>1. /\ sent \in Nat /\ sent' = sent + 1 /\ got' = got
          /\ Unsent' = Append(Unsent, sent + 1)
      <4>1. /\ sent \in Nat /\ sent' = sent + 1 /\ got' = got
            /\ sent < MaxSends
            /\ w' = Append(w, sent + 1) /\ e' = e
        BY <2>2 DEF Sending, Send, SendsInOrder, pump, out, e, w
      <4>2. sent + 1 \in Payload
        BY <4>1, MCMessengerAssumption DEF MCPayload
      <4>3. e \o Append(w, sent + 1) = Append(e \o w, sent + 1)
        BY <2>0, <4>2, HandAppend
      <4> QED BY <4>1, <4>3 DEF Unsent, e, w
    <3>2. PICK n \in Nat : n = sent BY <3>1
    <3>3. PICK u \in Seq(1 .. n) : u = Unsent
      BY <3>2 DEF SendsInOrder
    <3>4. PICK g \in Seq(1 .. n) : g = got BY <3>2 DEF SendsInOrder
    <3>5. /\ Ascending(u) /\ Ascending(g)
          /\ \A j \in 1 .. Len(g), k \in 1 .. Len(u) : g[j] < u[k]
      BY <3>3, <3>4 DEF SendsInOrder
    <3>6. \A k \in 1 .. Len(u) : u[k] \in 1 .. n BY ElementOfSeq
    <3>7. \A k \in 1 .. Len(g) : g[k] \in 1 .. n BY ElementOfSeq
    <3> DEFINE v == Append(u, n + 1)
    <3>8. /\ v \in Seq(1 .. n + 1) /\ Ascending(v) /\ Len(v) = Len(u) + 1
          /\ \A k \in 1 .. Len(u) : v[k] = u[k]
          /\ v[Len(u) + 1] = n + 1
      BY <3>5, <3>6, AscendingAppend
    <3> HIDE DEF v
    <3>9. g \in Seq(1 .. n + 1)
      <4>1. Len(g) \in Nat BY LenProperties
      <4>2. g \in [1 .. Len(g) -> 1 .. n + 1] BY <3>7, LenProperties
      <4> QED BY <4>1, <4>2, FunctionIsSeq
    <3>10. ASSUME NEW j \in 1 .. Len(g), NEW k \in 1 .. Len(v)
           PROVE  g[j] < v[k]
      <4>1. Len(u) \in Nat BY LenProperties
      <4>2. k \in 1 .. Len(u) \/ k = Len(u) + 1 BY <3>8, <4>1
      <4> QED BY <3>5, <3>7, <3>8, <4>2
    <3>11. Unsent' = v /\ got' = g /\ sent' = n + 1
      BY <3>1, <3>2, <3>3, <3>4 DEF v
    <3> QED BY <3>5, <3>8, <3>9, <3>10, <3>11 DEF SendsInOrder
  <2>3. CASE /\ Unsent # <<>> /\ Unsent' = Tail(Unsent)
             /\ sent' = sent
             /\ got' \in {got, Append(got, Head(Unsent))}
    <3>1. PICK n \in Nat : n = sent BY DEF SendsInOrder
    <3>2. PICK u \in Seq(1 .. n) : u = Unsent
      BY <3>1 DEF SendsInOrder
    <3>3. PICK g \in Seq(1 .. n) : g = got BY <3>1 DEF SendsInOrder
    <3>4. /\ Ascending(u) /\ Ascending(g) /\ u # <<>>
          /\ \A j \in 1 .. Len(g), k \in 1 .. Len(u) : g[j] < u[k]
      BY <2>3, <3>2, <3>3 DEF SendsInOrder
    <3> DEFINE t == Tail(u)
               x == Head(u)
    <3>5. /\ x \in 1 .. n /\ t \in Seq(1 .. n) /\ Ascending(t)
          /\ x = u[1] /\ 1 \in 1 .. Len(u)
          /\ \A k \in 1 .. Len(t) :
               k + 1 \in 1 .. Len(u) /\ t[k] = u[k + 1] /\ x < t[k]
      BY <3>4, AscendingTail
    <3> HIDE DEF t, x
    <3>10. \A k \in 1 .. Len(g) : g[k] < x
      BY <3>4, <3>5
    <3> DEFINE h == Append(g, x)
    <3>6. /\ h \in Seq(1 .. n) /\ Ascending(h) /\ Len(h) = Len(g) + 1
          /\ \A k \in 1 .. Len(g) : h[k] = g[k]
          /\ h[Len(g) + 1] = x
      <4>1. x \in 1 .. n /\ Ascending(g) /\ n <= n BY <3>4, <3>5
      <4> QED BY <4>1, <3>10, AscendingAppend
    <3> HIDE DEF h
    <3>7. \A j \in 1 .. Len(g), k \in 1 .. Len(t) : g[j] < t[k]
      BY <3>4, <3>5
    <3>8. ASSUME NEW j \in 1 .. Len(h), NEW k \in 1 .. Len(t)
          PROVE  h[j] < t[k]
      <4>1. Len(g) \in Nat BY LenProperties
      <4>2. j \in 1 .. Len(g) \/ j = Len(g) + 1 BY <3>6, <4>1
      <4> QED BY <3>5, <3>6, <3>7, <4>2
    <3>9. /\ Unsent' = t /\ sent' = n
          /\ got' = g \/ got' = h
      BY <2>3, <3>1, <3>2, <3>3 DEF t, x, h
    <3> QED BY <3>4, <3>5, <3>6, <3>7, <3>8, <3>9 DEF SendsInOrder
  <2>4. CASE Writing
    <3>1. CASE WriteEvent
      <4>1. /\ e # <<>> /\ e' = <<>> /\ w' = w
            /\ sent' = sent /\ got' = got \o e
        BY <2>4, <3>1 DEF Writing, WriteEvent, e, w
      <4>2. /\ e \o w # <<>> /\ Head(e \o w) = Head(e) /\ Tail(e \o w) = w
            /\ e = <<Head(e)>> /\ Head(e) \in Payload
        BY <2>0, <4>1, HandGives, HeadTailProperties
      <4>3. got' = Append(got, Head(e))
        <5>1. PICK n \in Nat : n = sent BY DEF SendsInOrder
        <5>2. got \in Seq(1 .. n) /\ Unsent \in Seq(1 .. n)
          BY <5>1 DEF SendsInOrder
        <5>3. Head(e) \in 1 .. n
          BY <4>2, <5>2, HeadTailProperties DEF Unsent, e, w
        <5> QED BY <4>1, <4>2, <5>2, <5>3, AppendIsConcat
      <4>4. e' \o w' = w BY <2>0, <4>1, ConcatEmptySeq
      <4> QED BY <2>3, <4>1, <4>2, <4>3, <4>4 DEF Unsent, e, w
    <3>2. CASE TakeEvent
      <4>1. /\ w # <<>> /\ w' = Tail(w) /\ e' = <<Head(w)>>
            /\ Len(e) = 0 /\ sent' = sent
        BY <2>0, <2>4, <3>2 DEF Writing, TakeEvent, e, w
      <4>2. got' = got
        BY <2>4, <4>1 DEF Writing, e
      <4>3. e' \o w' = e \o w BY <2>0, <4>1, HandTakes
      <4> QED BY <2>1, <4>1, <4>2, <4>3 DEF Unsent, e, w
    <3>3. CASE ~WriteEvent /\ ~TakeEvent
      <4>1. e' = e /\ w' = w
        BY <2>4, <3>3 DEF Writing, WritePump, TakeChange, WriteChange,
                          TakeReadDone, PutBackReadDone, TakeKill,
                          SignalWrite, events, out, e, w
      <4>2. /\ sent' = sent
            /\ e # <<>> => got' = got
            /\ e = <<>> => got' = got \o e
        BY <2>4, <4>1 DEF Writing, e
      <4>3. got' = got
        <5>1. PICK n \in Nat : n = sent BY DEF SendsInOrder
        <5>2. got \in Seq(1 .. n) BY <5>1 DEF SendsInOrder
        <5> QED BY <4>2, <5>2, ConcatEmptySeq
      <4> QED BY <2>1, <4>1, <4>2, <4>3 DEF Unsent, e, w
    <3> QED BY <3>1, <3>2, <3>3
  <2>5. CASE Breaking
    <3>1. CASE WriteEventFails
      <4>1. /\ e # <<>> /\ e' = <<>> /\ w' = w /\ sent' = sent /\ got' = got
        BY <2>5, <3>1 DEF Breaking, WriteEventFails, e, w
      <4>2. e \o w # <<>> /\ Tail(e \o w) = w BY <2>0, <4>1, HandGives
      <4>3. e' \o w' = w BY <2>0, <4>1, ConcatEmptySeq
      <4> QED BY <2>3, <4>1, <4>2, <4>3 DEF Unsent, e, w
    <3>2. CASE ~WriteEventFails
      <4>1. UNCHANGED <<sent, got, eventOut, writeChannel>>
        BY <2>5, <3>2 DEF Breaking, Break, ReadFails, ReaderOnly, pump, out,
                          WriteChangeFails
      <4> QED BY <2>1, <4>1 DEF Unsent
    <3> QED BY <3>1, <3>2
  <2>6. CASE Calling \/ Reading \/ Other \/ UNCHANGED mcVars
    <3>1. UNCHANGED <<sent, got, eventOut, writeChannel>>
      BY <2>6 DEF Calling, SubscribeToRooms, UnsubscribeFromRooms, Reading,
                  ReadEvent, SkipMessage, ReaderOnly, Other, ReadPump,
                  PollKill, Deliver, SignalRead, retryConnection, WaitRead,
                  WaitWrite, Connect, ListRooms, AddRooms, SendRooms,
                  ResubOnly, Receive, SendChange, Kill, events, pump, out,
                  mcVars, vars
    <3> QED BY <2>1, <3>1 DEF Unsent
  <2> QED BY <2>2, <2>4, <2>5, <2>6 DEF MCNext
<1>3. SendsInOrder => EventsInOrder BY DEF SendsInOrder, Ascending, EventsInOrder
<1> QED
  BY <1>1, <1>2, <1>3, MCImpliesSpec, MessengerTypeCorrect, PTL DEF MCSpec

-----------------------------------------------------------------------------
(***************************************************************************)
(* The subscriptions the program wants.  A change that gives a room up and *)
(* the change that wants it again keep their order, so the first does no   *)
(* harm; and what a lost connection takes along, the next one brings back. *)
(***************************************************************************)

Adds(s, r) == s.create /\ r \in s.rooms

Removes(s, r) == ~s.create /\ r \in s.rooms

\* The call is about to send a change that adds r.
CallAdds(call, r) == call # <<>> /\ Adds(Head(call), r)

\* A retryConnection is about to subscribe to r again.
Returning(retries, r) == \E x \in Range(retries) : x.at = "listing" \/ r \in x.rooms

\* A change in channel s that gives r up is followed by one that wants it
\* again, in the channel or in the call that waits.
WantedAgain(s, call, r) ==
  \A k \in 1 .. Len(s) :
    Removes(s[k], r) =>
      CallAdds(call, r) \/ \E j \in 1 .. Len(s) : k < j /\ Adds(s[j], r)

\* The changes on their way to the hub, and the pump that takes them there.
Changes == changeOut \o subscriptionChannel

AtWork == writer \in {"selecting", "writing"}

\* Room r is subscribed at the hub or on its way there.
OnItsWay(r) ==
  \/ held[r] > 0
  \/ CallAdds(appCall, r)
  \/ \E s \in Range(Changes) : Adds(s, r)
  \/ Returning(resubs, r)

WantedStays ==
  /\ wanted \in SUBSET subscriptionList
  /\ \A r \in wanted :
       /\ appCall # <<>> => ~Removes(Head(appCall), r)
       /\ WantedAgain(Changes, appCall, r)
       /\ AtWork => OnItsWay(r)

\* The write pump takes a change: what followed it still does.
LEMMA WantedTail ==
  ASSUME NEW s \in Seq(SubscriptionChange), s # <<>>, NEW call, NEW r,
         WantedAgain(s, call, r)
  PROVE  /\ WantedAgain(Tail(s), call, r)
         /\ Removes(Head(s), r) =>
              \/ CallAdds(call, r)
              \/ \E x \in Range(Tail(s)) : Adds(x, r)
<1> DEFINE t == Tail(s)
           n == Len(s)
<1>1. /\ Head(s) = s[1] /\ t \in Seq(SubscriptionChange)
      /\ n \in Nat /\ n >= 1 /\ Len(t) = n - 1
      /\ \A k \in 1 .. n - 1 : t[k] = s[k + 1]
  BY RangeTail
<1> HIDE DEF t, n
<1>2. ASSUME NEW j \in 1 .. n, 1 < j
      PROVE  j - 1 \in 1 .. n - 1 /\ t[j - 1] = s[j]
  <2>1. j - 1 \in 1 .. n - 1 /\ (j - 1) + 1 = j BY <1>1, <1>2
  <2> QED BY <1>1, <2>1
<1>3. ASSUME NEW k \in 1 .. Len(t), Removes(t[k], r), ~CallAdds(call, r)
      PROVE  \E j \in 1 .. Len(t) : k < j /\ Adds(t[j], r)
  <2>1. k + 1 \in 1 .. n /\ s[k + 1] = t[k] BY <1>1
  <2>2. PICK j \in 1 .. n : k + 1 < j /\ Adds(s[j], r)
    BY <1>3, <2>1 DEF WantedAgain, n
  <2>3. 1 < j /\ k < j - 1 BY <2>2, <1>1
  <2> QED BY <1>1, <1>2, <2>2, <2>3
<1>4. ASSUME Removes(Head(s), r), ~CallAdds(call, r)
      PROVE  \E x \in Range(t) : Adds(x, r)
  <2>1. 1 \in 1 .. n BY <1>1
  <2>2. PICK j \in 1 .. n : 1 < j /\ Adds(s[j], r)
    BY <1>1, <1>4, <2>1 DEF WantedAgain, n
  <2>3. t[j - 1] \in Range(t) BY <1>1, <1>2, <2>2, RangeEquality
  <2> QED BY <1>2, <2>2, <2>3
<1>5. WantedAgain(t, call, r) BY <1>3 DEF WantedAgain
<1> QED BY <1>4, <1>5 DEF t

\* A change is sent: it comes after those in the channel.
LEMMA WantedAppend ==
  ASSUME NEW s \in Seq(SubscriptionChange), NEW x \in SubscriptionChange,
         NEW call, NEW call2, NEW r, WantedAgain(s, call, r),
         ~Removes(x, r),
         CallAdds(call, r) => CallAdds(call2, r) \/ Adds(x, r)
  PROVE  WantedAgain(Append(s, x), call2, r)
<1> DEFINE t == Append(s, x)
           n == Len(s)
<1>1. /\ n \in Nat /\ Len(t) = n + 1
      /\ \A k \in 1 .. n : t[k] = s[k]
      /\ t[n + 1] = x
  BY AppendProperties, LenProperties
<1> HIDE DEF t, n
<1>2. ASSUME NEW k \in 1 .. Len(t), Removes(t[k], r), ~CallAdds(call2, r)
      PROVE  \E j \in 1 .. Len(t) : k < j /\ Adds(t[j], r)
  <2>1. k \in 1 .. n BY <1>1, <1>2
  <2>2. CASE CallAdds(call, r)
    <3>1. Adds(t[n + 1], r) BY <1>1, <1>2, <2>2
    <3>2. n + 1 \in 1 .. Len(t) /\ k < n + 1 BY <1>1, <2>1
    <3> QED BY <3>1, <3>2
  <2>3. CASE ~CallAdds(call, r)
    <3>1. PICK j \in 1 .. n : k < j /\ Adds(s[j], r)
      BY <1>1, <1>2, <2>1, <2>3 DEF WantedAgain, n
    <3>2. j \in 1 .. Len(t) BY <1>1
    <3> QED BY <1>1, <3>1, <3>2
  <2> QED BY <2>2, <2>3
<1> QED BY <1>2 DEF WantedAgain, t

\* What is called after: a change is either an addition or a removal.
LEMMA WantedCall ==
  ASSUME TypeOK, WantedStays,
         \/ \E rooms \in SUBSET Rooms :
              SubscribeToRooms(rooms) /\ wanted' = wanted \cup rooms
         \/ \E rooms \in SUBSET Rooms :
              UnsubscribeFromRooms(rooms) /\ wanted' = wanted \ rooms
  PROVE  WantedStays'
<1>1. appCall = <<>> /\ \A r : ~CallAdds(appCall, r)
  BY DEF SubscribeToRooms, UnsubscribeFromRooms, CallAdds
<1>2. UNCHANGED <<Changes, resubs, held, writer>>
  BY DEF SubscribeToRooms, UnsubscribeFromRooms, pump, out, Changes
<1>3. CASE \E rooms \in SUBSET Rooms :
             SubscribeToRooms(rooms) /\ wanted' = wanted \cup rooms
  <2>1. PICK rooms \in SUBSET Rooms :
          SubscribeToRooms(rooms) /\ wanted' = wanted \cup rooms
    BY <1>3
  <2>2. /\ subscriptionList' = subscriptionList \cup rooms
        /\ appCall' = <<[rooms |-> rooms, create |-> TRUE]>>
    BY <2>1 DEF SubscribeToRooms
  <2>3. /\ appCall' # <<>>
        /\ \A r : ~Removes(Head(appCall'), r)
        /\ \A r : CallAdds(appCall', r) <=> r \in rooms
    BY <2>2 DEF Removes, CallAdds, Adds
  <2>4. ASSUME NEW r \in wanted'
        PROVE  /\ WantedAgain(Changes, appCall', r)
               /\ AtWork => OnItsWay(r)'
    <3>1. CASE r \in rooms
      BY <2>3, <3>1 DEF WantedAgain, OnItsWay
    <3>2. CASE r \notin rooms
      <4>1. r \in wanted BY <2>1, <3>2
      <4> QED
        BY <1>1, <1>2, <4>1 DEF WantedStays, WantedAgain, OnItsWay, AtWork
    <3> QED BY <3>1, <3>2
  <2>5. wanted' \in SUBSET subscriptionList'
    BY <2>1, <2>2 DEF WantedStays
  <2> QED BY <1>2, <2>3, <2>4, <2>5 DEF WantedStays, AtWork
<1>4. CASE \E rooms \in SUBSET Rooms :
             UnsubscribeFromRooms(rooms) /\ wanted' = wanted \ rooms
  <2>1. PICK rooms \in SUBSET Rooms :
          UnsubscribeFromRooms(rooms) /\ wanted' = wanted \ rooms
    BY <1>4
  <2>2. /\ subscriptionList' = subscriptionList \ rooms
        /\ appCall' = <<[rooms |-> rooms, create |-> FALSE]>>
    BY <2>1 DEF UnsubscribeFromRooms
  <2>3. /\ \A r : Removes(Head(appCall'), r) <=> r \in rooms
        /\ \A r : ~CallAdds(appCall', r)
    BY <2>2 DEF Removes, CallAdds, Adds
  <2>4. ASSUME NEW r \in wanted'
        PROVE  /\ ~Removes(Head(appCall'), r)
               /\ WantedAgain(Changes, appCall', r)
               /\ AtWork => OnItsWay(r)'
    <3>1. r \in wanted /\ r \notin rooms BY <2>1
    <3> QED
      BY <1>1, <1>2, <2>3, <3>1
      DEF WantedStays, WantedAgain, OnItsWay, AtWork
  <2>5. wanted' \in SUBSET subscriptionList'
    BY <2>1, <2>2 DEF WantedStays
  <2> QED BY <1>2, <2>4, <2>5 DEF WantedStays, AtWork
<1> QED BY <1>3, <1>4

\* A change that is sent goes behind the others, whoever sends it.
LEMMA WantedSent ==
  ASSUME TypeOK, WantedStays,
         UNCHANGED <<wanted, subscriptionList, writer, held>>,
         NEW x \in SubscriptionChange,
         Changes' = Append(Changes, x),
         \A r \in wanted :
           /\ ~Removes(x, r)
           /\ appCall' # <<>> => ~Removes(Head(appCall'), r)
           /\ CallAdds(appCall, r) => CallAdds(appCall', r) \/ Adds(x, r)
           /\ Returning(resubs, r) => Returning(resubs', r) \/ Adds(x, r)
  PROVE  WantedStays'
<1>1. Changes \in Seq(SubscriptionChange)
  BY ConcatProperties DEF TypeOK, Changes
<1>2. Range(Changes') = Range(Changes) \cup {x}
  BY <1>1, RangeAppend
<1> SUFFICES ASSUME NEW r \in wanted
             PROVE  /\ WantedAgain(Changes', appCall', r)
                    /\ AtWork => OnItsWay(r)'
  BY DEF WantedStays, AtWork
<1>3. /\ WantedAgain(Changes, appCall, r)
      /\ AtWork => OnItsWay(r)
  BY DEF WantedStays
<1>4. WantedAgain(Changes', appCall', r)
  BY <1>1, <1>3, WantedAppend
<1>5. OnItsWay(r) => OnItsWay(r)' BY <1>2 DEF OnItsWay
<1> QED BY <1>3, <1>4, <1>5 DEF AtWork

\* A change reaches the hub, or is lost with the connection.
LEMMA WantedWritten ==
  ASSUME TypeOK, WantedStays, WriteChange \/ WriteChangeFails,
         UNCHANGED wanted
  PROVE  WantedStays'
<1> DEFINE s == Changes
           h == Head(changeOut)
<1>1. /\ changeOut # <<>> /\ changeOut' = <<>>
      /\ UNCHANGED <<subscriptionChannel, subscriptionList, appCall, resubs>>
  BY DEF WriteChange, WriteChangeFails, WriterOnly
<1>8. /\ changeOut \in Seq(SubscriptionChange) /\ Len(changeOut) = 1
      /\ subscriptionChannel \in Seq(SubscriptionChange)
      /\ writer = "writing"
  BY <1>1, OneInHand DEF TypeOK
<1>7. /\ s \in Seq(SubscriptionChange) /\ s # <<>>
      /\ h = Head(s) /\ s' = Tail(s)
  <2>1. Changes' = subscriptionChannel
    BY <1>1, <1>8, ConcatEmptySeq DEF Changes
  <2> QED BY <1>8, <2>1, HandGives DEF Changes
<1>2. h \in SubscriptionChange /\ Range(s) = {h} \cup Range(s')
  BY <1>7, RangeTail
<1> HIDE DEF h, s
<1> SUFFICES ASSUME NEW r \in wanted
             PROVE  /\ WantedAgain(s', appCall, r)
                    /\ AtWork' => OnItsWay(r)'
  BY <1>1 DEF WantedStays, s
<1>3. /\ WantedAgain(s, appCall, r)
      /\ OnItsWay(r)
      /\ r \in Rooms
  BY <1>8 DEF WantedStays, TypeOK, AtWork, s
<1>4. /\ WantedAgain(s', appCall, r)
      /\ Removes(h, r) => \/ CallAdds(appCall, r)
                          \/ \E x \in Range(s') : Adds(x, r)
  BY <1>2, <1>3, <1>7, WantedTail
<1>5. CASE WriteChangeFails
  BY <1>4, <1>5 DEF WriteChangeFails, AtWork
<1>6. CASE WriteChange
  <2>1. held' = Held(h)
    BY <1>6 DEF WriteChange, h
  <2>2. held'[r] = IF r \notin h.rooms THEN held[r]
                   ELSE IF h.create THEN held[r] + 1
                   ELSE IF held[r] > 0 THEN held[r] - 1 ELSE 0
    BY <1>3, <2>1 DEF Held
  <2>3. held[r] \in Nat /\ h.create \in BOOLEAN
    BY <1>2, <1>3 DEF TypeOK, SubscriptionChange
  <2>4. CASE Removes(h, r) BY <1>1, <1>4, <2>4 DEF OnItsWay, s
  <2>5. CASE Adds(h, r)
    <3>1. held'[r] > 0 BY <2>2, <2>3, <2>5 DEF Adds
    <3> QED BY <1>4, <3>1 DEF OnItsWay, s
  <2>6. CASE r \notin h.rooms
    <3>1. held'[r] = held[r] /\ ~Adds(h, r) BY <2>2, <2>6 DEF Adds
    <3> QED BY <1>1, <1>2, <1>3, <1>4, <2>1, <3>1 DEF OnItsWay, s
  <2> QED BY <2>3, <2>4, <2>5, <2>6 DEF Adds, Removes
<1> QED BY <1>5, <1>6

\* retryConnection brings back what the connection before it took along.
LEMMA WantedRetry ==
  ASSUME TypeOK, WantedStays, retryConnection, UNCHANGED wanted
  PROVE  WantedStays'
<1>1. resubs \in Seq(Resub) BY DEF TypeOK
<1>2. CASE WaitRead \/ WaitWrite
  BY <1>2
  DEF WaitRead, WaitWrite, subs, pump, out, Changes, AtWork, WantedStays,
      OnItsWay
<1>3. CASE Connect
  <2> DEFINE x == [at |-> "listing", rooms |-> {}]
  <2>1. /\ resubs' = Append(resubs, x)
        /\ UNCHANGED <<Changes, subscriptionList, appCall>>
    BY <1>3 DEF Connect, out, Changes
  <2>2. x \in Resub /\ x.at = "listing" BY DEF Resub
  <2>3. x \in Range(resubs')
    <3> HIDE DEF x
    <3>1. Range(resubs') = Range(resubs) \cup {x}
      BY <1>1, <2>1, <2>2, RangeAppend
    <3> QED BY <3>1
  <2>4. \A r : OnItsWay(r)' BY <2>2, <2>3 DEF OnItsWay, Returning
  <2> QED BY <2>1, <2>4 DEF WantedStays
<1>4. ASSUME NEW k \in 1 .. Len(resubs), ListRooms(k) PROVE WantedStays'
  <2> DEFINE x == [at |-> "adding", rooms |-> subscriptionList]
  <2>1. /\ UNCHANGED <<Changes, subscriptionList, appCall, writer, held>>
        /\ subscriptionList # {} => resubs' = [resubs EXCEPT ![k] = x]
    BY <1>4 DEF ListRooms, ResubOnly, pump, out, Changes
  <2>2. CASE subscriptionList = {}
    BY <2>1, <2>2 DEF WantedStays
  <2>3. CASE subscriptionList # {}
    <3>1. x \in Resub BY DEF Resub, TypeOK
    <3>2. x.rooms = subscriptionList OBVIOUS
    <3> HIDE DEF x
    <3>3. /\ resubs' \in Seq(Resub) /\ Len(resubs') = Len(resubs)
          /\ resubs'[k] = x
      BY <1>1, <2>1, <2>3, <3>1, ExceptSeq
    <3>4. x \in Range(resubs') BY <3>3, RangeEquality
    <3>5. \A r \in wanted : OnItsWay(r)'
      BY <3>2, <3>4 DEF OnItsWay, Returning, WantedStays
    <3> QED BY <2>1, <3>5 DEF WantedStays
  <2> QED BY <2>2, <2>3
<1>5. ASSUME NEW k \in 1 .. Len(resubs), AddRooms(k) PROVE WantedStays'
  <2> DEFINE x == [resubs[k] EXCEPT !.at = "sending"]
  <2>1. /\ UNCHANGED <<Changes, appCall, writer, held>>
        /\ resubs[k].at = "adding"
        /\ subscriptionList' = subscriptionList \cup resubs[k].rooms
        /\ resubs' = [resubs EXCEPT ![k] = x]
    BY <1>5 DEF AddRooms, ResubOnly, pump, out, Changes
  <2>2. resubs[k] \in Resub BY <1>1, ElementOfSeq
  <2>3. x \in Resub /\ x.rooms = resubs[k].rooms BY <2>2 DEF Resub
  <2> HIDE DEF x
  <2>4. /\ resubs' \in Seq(Resub) /\ Len(resubs') = Len(resubs)
        /\ \A j \in 1 .. Len(resubs) :
             resubs'[j] = IF j = k THEN x ELSE resubs[j]
    BY <1>1, <2>1, <2>3, ExceptSeq
  <2>5. /\ Range(resubs) = {resubs[j] : j \in 1 .. Len(resubs)}
        /\ Range(resubs') = {resubs'[j] : j \in 1 .. Len(resubs)}
    BY <1>1, <2>4, RangeEquality
  <2>6. ASSUME NEW r, Returning(resubs, r) PROVE Returning(resubs', r)
    <3>1. PICK j \in 1 .. Len(resubs) :
            resubs[j].at = "listing" \/ r \in resubs[j].rooms
      BY <2>5, <2>6 DEF Returning
    <3>2. resubs'[j].at = "listing" \/ r \in resubs'[j].rooms
      BY <2>1, <2>3, <2>4, <3>1
    <3> QED BY <2>5, <3>2 DEF Returning
  <2>7. \A r : OnItsWay(r) => OnItsWay(r)' BY <2>1, <2>6 DEF OnItsWay
  <2>8. wanted' \in SUBSET subscriptionList' BY <2>1 DEF WantedStays
  <2> QED BY <2>1, <2>7, <2>8 DEF WantedStays, AtWork
<1>6. ASSUME NEW k \in 1 .. Len(resubs), SendRooms(k) PROVE WantedStays'
  <2> DEFINE x == [rooms |-> resubs[k].rooms, create |-> TRUE]
  <2>1. /\ UNCHANGED <<subscriptionList, appCall, writer, held>>
        /\ resubs[k].at = "sending"
        /\ changeOut' = changeOut
        /\ subscriptionChannel' = Append(subscriptionChannel, x)
        /\ resubs' = SwapRemove(resubs, k)
    BY <1>6 DEF SendRooms, ResubOnly, pump, out
  <2>2. resubs[k] \in Resub BY <1>1, ElementOfSeq
  <2>3. /\ x \in SubscriptionChange
        /\ \A r : ~Removes(x, r)
        /\ \A r : Adds(x, r) <=> r \in resubs[k].rooms
    BY <2>2 DEF Resub, SubscriptionChange, Removes, Adds
  <2> HIDE DEF x
  <2>6. Changes' = Append(Changes, x)
    <3>1. /\ changeOut \in Seq(SubscriptionChange)
          /\ subscriptionChannel \in Seq(SubscriptionChange)
      BY DEF TypeOK
    <3> QED BY <2>1, <2>3, <3>1, HandAppend DEF Changes
  <2>4. Range(resubs) \ {resubs[k]} \subseteq Range(resubs')
    BY <1>1, <2>1, RangeSwapRemove
  <2>5. \A r : Returning(resubs, r) => Returning(resubs', r) \/ Adds(x, r)
    BY <2>1, <2>3, <2>4 DEF Returning
  <2> QED BY <2>1, <2>3, <2>5, <2>6, WantedSent DEF WantedStays
<1> QED BY <1>2, <1>3, <1>4, <1>5, <1>6 DEF retryConnection

\* Once the connection is there and nothing is under way, every room the
\* program wants is subscribed at the hub, whatever was lost with earlier
\* connections and in whatever order the retries subscribe again.
THEOREM SubscriptionsCorrect == MCSpec => []SubscribedRoomsAreHeld
<1>1. MCInit => WantedStays
  BY DEF MCInit, Init, WantedStays
<1>2. TypeOK /\ WantedStays /\ [MCNext]_mcVars => WantedStays'
  <2> SUFFICES ASSUME TypeOK, WantedStays, [MCNext]_mcVars PROVE WantedStays'
    OBVIOUS
  <2>1. CASE /\ UNCHANGED <<wanted, Changes, subscriptionList, appCall,
                            resubs, held>>
             /\ AtWork' => AtWork
    BY <2>1 DEF WantedStays, OnItsWay
  <2>2. CASE Calling
    <3>1. \/ \E rooms \in SUBSET Rooms :
               SubscribeToRooms(rooms) /\ wanted' = wanted \cup rooms
          \/ \E rooms \in SUBSET Rooms :
               UnsubscribeFromRooms(rooms) /\ wanted' = wanted \ rooms
      BY <2>2 DEF Calling
    <3> QED BY <3>1, WantedCall
  <2>3. CASE (WriteChange \/ WriteChangeFails) /\ UNCHANGED wanted
    BY <2>3, WantedWritten
  <2>4. CASE retryConnection /\ UNCHANGED wanted
    BY <2>4, WantedRetry
  <2>5. CASE SendChange /\ UNCHANGED wanted
    <3>1. /\ appCall # <<>> /\ appCall' = <<>>
          /\ subscriptionChannel' = Append(subscriptionChannel, Head(appCall))
          /\ UNCHANGED <<changeOut, subscriptionList, resubs, writer, held>>
      BY <2>5 DEF SendChange, pump, out
    <3>2. Head(appCall) \in SubscriptionChange
      BY <3>1, RangeTail DEF TypeOK
    <3>3. \A r \in wanted : ~Removes(Head(appCall), r)
      BY <3>1 DEF WantedStays
    <3>4. Changes' = Append(Changes, Head(appCall))
      BY <3>1, <3>2, HandAppend DEF Changes, TypeOK
    <3> QED BY <2>5, <3>1, <3>2, <3>3, <3>4, WantedSent DEF CallAdds
  <2>6. CASE TakeChange /\ UNCHANGED wanted
    <3>1. /\ Len(changeOut) = 0 /\ subscriptionChannel # <<>>
          /\ changeOut' = <<Head(subscriptionChannel)>>
          /\ subscriptionChannel' = Tail(subscriptionChannel)
          /\ UNCHANGED <<subscriptionList, appCall, resubs, held>>
          /\ AtWork
      BY <2>6 DEF TakeChange, WriterOnly, AtWork, TypeOK
    <3>2. Changes' = Changes
      BY <3>1, HandTakes DEF Changes, TypeOK
    <3> QED BY <2>1, <2>6, <3>1, <3>2
  <2>7. CASE \/ Sending \/ Reading \/ UNCHANGED mcVars
             \/ (ReadFails \/ WriteEventFails) /\ UNCHANGED wanted
             \/ (ReadPump \/ Receive \/ Kill) /\ UNCHANGED wanted
             \/ /\ \/ TakeEvent \/ WriteEvent \/ TakeReadDone
                   \/ PutBackReadDone \/ TakeKill \/ SignalWrite
                /\ UNCHANGED wanted
    <3>1. /\ UNCHANGED <<wanted, subs, changeOut, held>>
          /\ AtWork' => AtWork
      BY <2>7
      DEF mcVars, vars, Sending, Send, Reading, ReadEvent, SkipMessage,
          ReaderOnly, ReadFails, WriteEventFails, TakeEvent, WriteEvent,
          TakeReadDone, PutBackReadDone, TakeKill, SignalWrite, WriterOnly,
          ReadPump, PollKill, Deliver, SignalRead, Receive, Kill, subs, pump,
          out, AtWork, TypeOK
    <3> QED BY <2>1, <3>1 DEF subs, Changes
  <2> QED
    BY <2>2, <2>3, <2>4, <2>5, <2>6, <2>7
    DEF MCNext, Breaking, Break, Writing, WritePump, Other
<1>3. TypeOK /\ WantedStays => SubscribedRoomsAreHeld
  <2>1. Range(<<>>) = {} BY DEF Range
  <2>2. TypeOK /\ Settled => Range(Changes) = {} /\ AtWork
    <3> SUFFICES ASSUME TypeOK, Settled PROVE Range(Changes) = {} /\ AtWork
      OBVIOUS
    <3>1. changeOut = <<>> /\ subscriptionChannel = <<>>
      BY OneInHand DEF Settled
    <3>2. Changes = <<>>
      BY <3>1, ConcatEmptySeq, EmptySeq DEF Changes
    <3> QED BY <2>1, <3>2 DEF Settled, AtWork
  <2>3. resubs = <<>> => Range(resubs) = {} BY <2>1
  <2> QED
    BY <2>2, <2>3
       DEF WantedStays, OnItsWay, SubscribedRoomsAreHeld, Settled, CallAdds,
           Returning
<1> QED
  BY <1>1, <1>2, <1>3, MCImpliesSpec, MessengerTypeCorrect, PTL DEF MCSpec
=============================================================================
