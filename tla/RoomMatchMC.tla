----------------------------- MODULE RoomMatchMC -----------------------------
(* The instance of RoomMatch for TLC: a behaviour grows in one of two      *)
(* directions, one room with its rematches or two users in two rooms.      *)
EXTENDS RoomMatch

Used(status) == Cardinality({x \in DOMAIN status : status[x].status # "UNUSED"})
Came == Cardinality({u \in Users : session[u] # NoSession})

(* Bound: a second match or a third user, not both. *)
OneRoom == Used(rooms) <= 1 /\ Used(matches) + Came <= 4

(* Bound: two users, one match, no spectators; flags and teams stay as     *)
(* they are in a room that never had a match.                              *)
TwoRooms ==
  /\ Used(matches) <= 1
  /\ Came <= 2
  /\ \A r \in RoomIds :
       \/ rooms[r].match # NoMatch
       \/ rooms[r].past # {}
       \/ rooms[r].ready = {} /\ \A u \in Users : rooms[r].team[u] = "none"
  /\ \A r \in RoomIds : \A u \in Users : rooms[r].team[u] # "spectator"

BoundedSpec == Init /\ [][Next /\ (OneRoom' \/ TwoRooms')]_vars

(* Players, rooms and matches are interchangeable: safety runs only. *)
Symmetry == Permutations(Users) \cup Permutations(RoomIds) \cup Permutations(MatchIds)
=============================================================================
