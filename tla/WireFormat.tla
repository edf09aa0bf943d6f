----------------------------- MODULE WireFormat -----------------------------
(***************************************************************************)
(* The messages on the wire: hub/base/common.go.                           *)
(*                                                                         *)
(* A message is the room, a newline and the event.  ParseMessage leaves    *)
(* the newline in the event and PrepareMessage writes another, so an event *)
(* arrives with one more newline for every hop; the other modules take     *)
(* events to arrive as they were sent, which the theorems justify.         *)
(***************************************************************************)
EXTENDS Naturals, Sequences, SequenceTheorems, TLAPS

CONSTANTS Byte, NewLine

Bytes == Seq(Byte)

\* A room has no newline in it, and an event any bytes.
EventWrapper == [room : Seq(Byte \ {NewLine}), event : Bytes]

\* Where the first newline is, in a message that has one.
IndexByte(b) ==
  CHOOSE i \in 1 .. Len(b) :
    b[i] = NewLine /\ \A j \in 1 .. i - 1 : b[j] # NewLine

\* A message without a newline does not parse: see Parses.
ParseMessage(b) ==
  [room |-> SubSeq(b, 1, IndexByte(b) - 1),
   event |-> SubSeq(b, IndexByte(b), Len(b))]

Parses(b) == \E i \in 1 .. Len(b) : b[i] = NewLine

\* Between the room and the event.
Separator == <<NewLine>>

PrepareMessage(m) == m.room \o Separator \o m.event

\* From one router, program or device to the next.
Hop(m) == ParseMessage(PrepareMessage(m))

\* An event with k newlines before it, as it is after k hops.
LedBy(k, e) == [i \in 1 .. k |-> NewLine] \o e

-----------------------------------------------------------------------------
\* The two parts of a concatenation can be had back.
LEMMA PartsOf ==
  ASSUME NEW S, NEW r \in Seq(S), NEW t \in Seq(S), t # <<>>
  PROVE  /\ SubSeq(r \o t, 1, Len(r)) = r
         /\ SubSeq(r \o t, Len(r) + 1, Len(r \o t)) = t
<1>1. /\ Len(r) \in Nat /\ Len(t) \in Nat \ {0}
      /\ Len(r \o t) = Len(r) + Len(t)
  BY ConcatProperties
<1>2. SubSeq(r \o t, 1, Len(r)) = r
  <2>1. CASE r = <<>>
    <3>1. Len(r) < 1
      BY <2>1
    <3> QED BY <1>1, <2>1, <3>1, SubSeqEmpty
  <2>2. CASE r # <<>>
    <3>1. 1 \in 1 .. Len(r) /\ Len(r) \in 1 .. Len(r)
      BY <2>2, <1>1
    <3>2. SubSeq(r \o t, 1, Len(r)) = SubSeq(r, 1, Len(r))
      BY <3>1, SubSeqOfConcat1
    <3> QED BY <3>2, SubSeqFull
  <2> QED BY <2>1, <2>2
<1>3. SubSeq(r \o t, Len(r) + 1, Len(r) + Len(t)) = t
  <2>1. /\ Len(r) + 1 \in Len(r) + 1 .. Len(r) + Len(t)
        /\ Len(r) + Len(t) \in Len(r) + 1 .. Len(r) + Len(t)
        /\ Len(r) + 1 - Len(r) = 1
        /\ Len(r) + Len(t) - Len(r) = Len(t)
    BY <1>1
  <2>2. SubSeq(r \o t, Len(r) + 1, Len(r) + Len(t)) = SubSeq(t, 1, Len(t))
    BY <2>1, SubSeqOfConcat2
  <2> QED BY <2>2, SubSeqFull
<1> QED BY <1>1, <1>2, <1>3

\* The first newline of a message is the one after its room.
LEMMA FirstNewLine ==
  ASSUME NEW r \in Seq(Byte \ {NewLine}), NEW t \in Seq(Byte), t # <<>>,
         t[1] = NewLine
  PROVE  /\ IndexByte(r \o t) = Len(r) + 1
         /\ Parses(r \o t)
<1>1. r \in Seq(Byte)
  OBVIOUS
<1>2. PICK n \in Nat : n = Len(r)
  OBVIOUS
<1>3. PICK b : b = r \o t
  OBVIOUS
<1>4. /\ Len(b) = n + Len(t)
      /\ \A i \in 1 .. n + Len(t) : b[i] = IF i <= n THEN r[i] ELSE t[i - n]
  BY <1>1, <1>2, <1>3, ConcatProperties
<1>5. \A i \in 1 .. n : r[i] # NewLine
  BY <1>2
<1>6. Len(t) \in Nat \ {0} /\ n + 1 - n = 1
  OBVIOUS
<1>7. /\ n + 1 \in 1 .. Len(b) /\ b[n + 1] = NewLine
      /\ \A i \in 1 .. n : b[i] # NewLine
  BY <1>4, <1>5, <1>6
<1> DEFINE First(i) == b[i] = NewLine /\ \A j \in 1 .. i - 1 : b[j] # NewLine
<1>8. First(n + 1)
  BY <1>7
<1>9. \A i \in 1 .. Len(b) : First(i) => i = n + 1
  BY <1>6, <1>4, <1>7
<1>10. (CHOOSE i \in 1 .. Len(b) : First(i)) = n + 1
  <2> HIDE DEF First
  <2> QED BY <1>7, <1>8, <1>9
<1> QED BY <1>2, <1>3, <1>7, <1>10 DEF IndexByte, Parses

\* A prepared message always parses, into the room it was prepared with and the
\* event with a newline before it: no hop sends an event to another room or
\* takes anything away from it.
THEOREM HopKeepsRoomAndEvent ==
  ASSUME NewLine \in Byte, NEW m \in EventWrapper
  PROVE  /\ Parses(PrepareMessage(m))
         /\ Hop(m) \in EventWrapper
         /\ Hop(m).room = m.room
         /\ Hop(m).event = Separator \o m.event
<1>1. PICK r, v, t : r = m.room /\ v = m.event /\ t = Separator \o v
  OBVIOUS
<1>2. /\ r \in Seq(Byte \ {NewLine}) /\ r \in Seq(Byte)
      /\ v \in Seq(Byte) /\ Separator \in Seq(Byte)
  BY <1>1 DEF EventWrapper, Bytes, Separator
<1>3. t \in Seq(Byte) /\ t # <<>> /\ t[1] = NewLine
  <2>1. Len(Separator) = 1 /\ Separator[1] = NewLine
    BY DEF Separator
  <2>2. PICK k \in Nat : k = Len(v)
    BY <1>2
  <2>3. /\ t \in Seq(Byte)
        /\ Len(t) = 1 + k
        /\ \A i \in 1 .. 1 + k :
             t[i] = IF i <= 1 THEN Separator[i] ELSE v[i - 1]
    <3>1. /\ Separator \o v \in Seq(Byte)
          /\ Len(Separator \o v) = Len(Separator) + Len(v)
          /\ \A i \in 1 .. Len(Separator) + Len(v) :
               (Separator \o v)[i] =
                 IF i <= Len(Separator) THEN Separator[i]
                                        ELSE v[i - Len(Separator)]
      BY <1>2, ConcatProperties
    <3>2. Separator \o v = t
      BY <1>1
    <3> QED BY <2>1, <2>2, <3>1, <3>2
  <2>4. 1 \in 1 .. 1 + k /\ 1 <= 1
    OBVIOUS
  <2>5. t[1] = Separator[1]
    BY <2>3, <2>4, Zenon
  <2>6. t # <<>>
    <3>1. Len(t) # 0
      <4>1. Len(t) = 1 + k
        BY <2>3
      <4> QED BY <4>1
    <3>2. Len(<<>>) = 0
      OBVIOUS
    <3> QED BY <3>1, <3>2, Zenon
  <2>7. t \in Seq(Byte)
    BY <2>3
  <2>8. t[1] = NewLine
    BY <2>1, <2>5
  <2> QED BY <2>6, <2>7, <2>8, Zenon
<1>4. PrepareMessage(m) = r \o t
  <2>1. (r \o Separator) \o v = r \o (Separator \o v)
    BY <1>2, ConcatAssociative
  <2> QED BY <1>1, <2>1, Zenon DEF PrepareMessage
<1>5. /\ IndexByte(r \o t) = Len(r) + 1
      /\ Parses(r \o t)
  BY <1>2, <1>3, FirstNewLine
<1>6. /\ SubSeq(r \o t, 1, Len(r)) = r
      /\ SubSeq(r \o t, Len(r) + 1, Len(r \o t)) = t
  BY <1>2, <1>3, PartsOf
<1>7. Hop(m) = [room |-> r, event |-> t]
  <2>1. PICK n \in Nat : n = Len(r)
    BY <1>2
  <2>2. IndexByte(r \o t) - 1 = n
    BY <1>5, <2>1
  <2>3. Hop(m) = [room |-> SubSeq(r \o t, 1, IndexByte(r \o t) - 1),
                  event |-> SubSeq(r \o t, IndexByte(r \o t), Len(r \o t))]
    BY <1>4, Zenon DEF Hop, ParseMessage
  <2> QED BY <1>5, <1>6, <2>1, <2>2, <2>3, Zenon
<1> QED BY <1>1, <1>2, <1>3, <1>4, <1>5, <1>7 DEF EventWrapper, Bytes

\* After any number of hops a message has the room it started with, and its
\* event that many newlines in front: the step from k hops to one more.
THEOREM HopsAddNewLines ==
  ASSUME NewLine \in Byte, NEW m \in EventWrapper, NEW k \in Nat,
         NEW e \in Bytes, m.event = LedBy(k, e)
  PROVE  Hop(m).room = m.room /\ Hop(m).event = LedBy(k + 1, e)
<1> DEFINE p == [i \in 1 .. k |-> NewLine]
           q == [i \in 1 .. k + 1 |-> NewLine]
<1>1. Hop(m).room = m.room /\ Hop(m).event = Separator \o (p \o e)
  BY HopKeepsRoomAndEvent DEF LedBy
<1>2. Separator \in Seq(Byte) /\ p \in Seq(Byte) /\ q \in Seq(Byte)
  BY DEF Separator
<1>3. Separator \o (p \o e) = (Separator \o p) \o e
  BY <1>2, ConcatAssociative DEF Bytes
<1>4. Separator \o p = q
  <2> DEFINE s == Separator \o p
  <2>1. Len(Separator) = 1 /\ Separator[1] = NewLine /\ Len(p) = k /\ Len(q) = k + 1
    BY DEF Separator
  <2>2. /\ s \in Seq(Byte)
        /\ Len(s) = 1 + k
        /\ \A i \in 1 .. 1 + k :
             s[i] = IF i <= 1 THEN Separator[i] ELSE p[i - 1]
    BY <1>2, <2>1, ConcatProperties
  <2> HIDE DEF s
  <2>3. \A i \in 1 .. Len(s) : s[i] = q[i]
    BY <2>1, <2>2
  <2> QED BY <1>2, <2>1, <2>2, <2>3, SeqEqual DEF s
<1> QED BY <1>1, <1>3, <1>4 DEF LedBy
=============================================================================
