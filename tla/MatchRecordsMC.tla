---------------------------- MODULE MatchRecordsMC ----------------------------
(* The instance of MatchRecords for TLC: two matches with a common player. *)
EXTENDS MatchRecords, TLC

CONSTANTS u1, u2, u3, m1, m2

AllUsers == {u1, u2, u3}
BothMatches == {m1, m2}
RedTeams == m1 :> {u1} @@ m2 :> {u3}
BlueTeams == m1 :> {u2} @@ m2 :> {u1}

FairSpec == Spec /\ Fairness
=============================================================================
