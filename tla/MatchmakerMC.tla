---------------------------- MODULE MatchmakerMC ----------------------------
(* The instance of Matchmaker for TLC: a behaviour has either all the      *)
(* players and modes and no start, or three solo players and a start.      *)
EXTENDS Matchmaker

CONSTANT Fourth   (* the player who stays away when there are starts *)

VARIABLE starts   (* which of the two; chosen once *)

ThreeLobbies == 1..3

NoStart ==
  /\ \A l \in LobbyIds : starting[l] = <<>>
  /\ \A u \in Users : state[u] # "ROOM_CREATED"

ThreeSolo ==
  /\ Fourth \notin online /\ presence[Fourth] = "OFFLINE"
  /\ \A u \in Users : mode[u] = "solo"

BoundedNext == Next /\ UNCHANGED starts /\ IF starts THEN ThreeSolo' ELSE NoStart'

BoundedInit == Init /\ starts \in BOOLEAN

BoundedSpec == BoundedInit /\ [][BoundedNext]_<<vars, starts>>

(* Players are interchangeable: every run is about safety. *)
Symmetry == Permutations(Users \ {Fourth})
=============================================================================
