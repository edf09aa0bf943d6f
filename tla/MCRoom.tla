------------------------------- MODULE MCRoom -------------------------------
(***************************************************************************)
(* A bounded instance of module Room: three hubs, of which one crashes at  *)
(* most MaxCrashes times, and links that break MaxBreaks times in all.     *)
(***************************************************************************)
EXTENDS Room, TLC

CONSTANTS MaxCrashes, MaxBreaks, h1, h2, h3, e1, e2

VARIABLES crashes, breaks

mcVars == <<roomVars, crashes, breaks>>

MCNumber == (h1 :> 1) @@ (h2 :> 2) @@ (h3 :> 3)

MCInit == RoomInit /\ crashes = 0 /\ breaks = 0

Fault ==
  \/ /\ crashes < MaxCrashes
     /\ crashes' = crashes + 1
     /\ \E h \in Hubs : Crash(h)
     /\ UNCHANGED breaks
  \/ /\ breaks < MaxBreaks
     /\ breaks' = breaks + 1
     /\ \E l \in up : Break(l)
     /\ UNCHANGED crashes

Work ==
  /\ \/ \E h \in Hubs : Start(h)
     \/ \E h, g \in Hubs : Dial(h, g)
     \/ \E h \in Hubs, e \in Messages, source \in Client :
          Send(h, e, source)
     \/ \E x \in pending : Route(x) \/ Lose(x)
  /\ UNCHANGED <<crashes, breaks>>

MCSpec == MCInit /\ [][Fault \/ Work]_mcVars

FairMCSpec == MCSpec /\ RoomFairness
=============================================================================
