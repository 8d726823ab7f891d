----------------------------- MODULE MatchLedger -----------------------------
(***************************************************************************)
(* What the arena promises about a match, whatever rooms, sockets and      *)
(* timers do: it counts down, becomes active or not, is decided once, and  *)
(* a room never holds two undecided matches.  RoomMatch implements it.     *)
(***************************************************************************)
CONSTANTS Users, RoomIds, MatchIds, NoUser, NoRoom

VARIABLES
  phase,    (* how far each match is                                       *)
  venue,    (* the room it is played in                                    *)
  victor    (* who won it                                                  *)

ledger == <<phase, venue, victor>>

Undecided(m) == phase[m] \in {"COUNTDOWN", "ACTIVE"}

Init ==
  /\ phase = [m \in MatchIds |-> "UNUSED"]
  /\ venue = [m \in MatchIds |-> NoRoom]
  /\ victor = [m \in MatchIds |-> NoUser]

Begin(m, r) ==
  /\ phase[m] = "UNUSED"
  /\ \A k \in MatchIds : Undecided(k) => venue[k] # r
  /\ phase' = [phase EXCEPT ![m] = "COUNTDOWN"]
  /\ venue' = [venue EXCEPT ![m] = r]
  /\ UNCHANGED victor

Start(m) ==
  /\ phase[m] = "COUNTDOWN"
  /\ phase' = [phase EXCEPT ![m] = "ACTIVE"]
  /\ UNCHANGED <<venue, victor>>

Finish(m, u) ==
  /\ phase[m] = "ACTIVE"
  /\ phase' = [phase EXCEPT ![m] = "FINISHED"]
  /\ victor' = [victor EXCEPT ![m] = u]
  /\ UNCHANGED venue

Abort(m) ==
  /\ Undecided(m)
  /\ phase' = [phase EXCEPT ![m] = "ABORTED"]
  /\ UNCHANGED <<venue, victor>>

Progress(m) ==
  \/ Start(m)
  \/ Abort(m)
  \/ \E u \in Users : Finish(m, u)

Next == \E m \in MatchIds : Progress(m) \/ \E r \in RoomIds : Begin(m, r)

(* The safety half of the promise, and the promise that no match hangs. *)
SafeSpec == Init /\ [][Next]_ledger
Spec == SafeSpec /\ \A m \in MatchIds : WF_ledger(Progress(m))
=============================================================================
