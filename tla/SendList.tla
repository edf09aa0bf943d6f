------------------------------ MODULE SendList ------------------------------
(***************************************************************************)
(* The send list of a repeater: repeater/sendlist.go.                      *)
(*                                                                         *)
(* The devices of the database that route events are grouped by the room   *)
(* their ID begins with; an ID of fewer than three parts names no room.  A *)
(* repeater in a room leaves out its own, whose hubs are linked already.   *)
(* The central repeaters are listed under star.                            *)
(***************************************************************************)
EXTENDS Naturals, Sequences

\* The devices sent the events of room r, in the order of the database.
Listed(devs, r) ==
  LET ofRoom(d) == d.parts >= 3 /\ d.room = r
      chosen    == SelectSeq(devs, ofRoom)
  IN  [k \in DOMAIN chosen |-> chosen[k].id]

\* own is the room of a repeater that is in one, and no room otherwise.
BuildSendList(devs, rooms, own, star, central) ==
  [r \in rooms \cup {star} |->
     CASE r = star -> central
       [] r = own  -> <<>>
       [] OTHER    -> Listed(devs, r)]
=============================================================================
