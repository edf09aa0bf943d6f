--------------------------- MODULE MCRepeaterFlow ---------------------------
(***************************************************************************)
(* A bounded instance of module RepeaterFlow in which no station fails:    *)
(* the hub sends MaxEvents events, HTTP clients post MaxPosts, one device  *)
(* sends MaxFrames messages, and the connection to the hub, there at the   *)
(* start, is lost at most MaxBreaks times.                                 *)
(***************************************************************************)
EXTENDS RepeaterFlow

CONSTANTS MaxEvents, MaxPosts, MaxFrames, MaxBreaks, d, r1

VARIABLES left

mcVars == <<flowVars, left>>

MCSendMap == [r \in {r1, Star} |-> IF r = Star THEN <<>> ELSE <<d>>]

MCInit ==
  /\ FlowInit
  /\ open
  /\ left = [events |-> MaxEvents, posts |-> MaxPosts, frames |-> MaxFrames,
             breaks |-> MaxBreaks]

Once(what) == left[what] > 0 /\ left' = [left EXCEPT ![what] = @ - 1]

FromHub ==
  /\ Once("events")
  /\ \E room \in Rooms : M!ReadEvent(room)
  /\ UNCHANGED vars

FromOutside ==
  /\ \/ Once("posts") /\ fireEvent
     \/ Once("frames") /\ \E s \in DOMAIN stations : ReadMessage(s)
  /\ UNCHANGED messengerVars

Lost == M!Break /\ UNCHANGED vars /\ IF open THEN Once("breaks")
                                              ELSE UNCHANGED left

Work ==
  /\ \/ TakeFromMessenger
     \/ SendToMessenger
     \/ /\ \/ Distribute \/ Translate
           \/ \E s \in DOMAIN stations : Run(s)
        /\ UNCHANGED messengerVars
     \/ (M!ReadPump \/ M!WritePump \/ M!retryConnection) /\ UNCHANGED vars
  /\ UNCHANGED left

MCSpec ==
  /\ MCInit
  /\ [][FromHub \/ FromOutside \/ Lost \/ Work]_mcVars
  /\ FlowFairness
=============================================================================
