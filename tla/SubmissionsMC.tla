---------------------------- MODULE SubmissionsMC ----------------------------
(* The instance of Submissions for TLC: two jobs, the first with two test  *)
(* cases; two workers only when there is a single job.                     *)
EXTENDS Submissions, TLC

CONSTANTS j1, j2

TwoJobs == {j1, j2}
TwoAndOne == j1 :> 2 @@ j2 :> 1

Present == {j \in Jobs : asked[j] # "no"} \cup UNION {RunBy(j) : j \in Jobs} \cup handlers

BoundedSpec == Init /\ [][Next /\ Cardinality(Present') <= 3]_vars /\ Fairness
=============================================================================
