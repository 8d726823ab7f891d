----------------------------- MODULE Submissions -----------------------------
(***************************************************************************)
(* The way of a submission: SubmissionService and its rows, the            *)
(* SubmissionQueue in memory, JudgeWorker with the ExecutionEngine and the *)
(* LocalSandbox, and what EventBroker is told.                             *)
(*                                                                         *)
(* A submission and its one job are written together and named by the job. *)
(* A worker's run of a job stops at each await; `runs` says at which.  A   *)
(* statement that commits and whose answer is lost is its step, followed   *)
(* by Throws.                                                              *)
(***************************************************************************)
EXTENDS Naturals, Sequences, FiniteSets, SequencesExt

CONSTANTS
  Jobs,
  Workers,      (* what may call registerWorker                            *)
  TestsOf,      (* the number of test cases of the problem of a job        *)
  MaxCrashes    (* bound: the times the process dies                       *)

ASSUME SubmissionsAssumption ==
  TestsOf \in [Jobs -> Nat] /\ MaxCrashes \in Nat

VARIABLES
  row,          (* Submission and SubmissionJob in the database            *)
  asked,        (* where POST /submissions is                              *)
  queue,        (* SubmissionQueue.queue                                   *)
  handlers,     (* SubmissionQueue.handlers                                *)
  runs,         (* per job and handler, processJob                         *)
  told,         (* history: the verdicts published on submission:updated   *)
  backlog,      (* history: the length of queue when a worker registered   *)
  crashes       (* history: how often the process died                     *)

vars == <<row, asked, queue, handlers, runs, told, backlog, crashes>>

Judgements == {"ACCEPTED", "WRONG_ANSWER", "TIME_LIMIT_EXCEEDED"}
Verdicts == Judgements \cup {"COMPILATION_ERROR", "INTERNAL_ERROR"}

(* The await a run is at: "saved", "failed" and "unfailed" between the     *)
(* outcome of its last statement and what it publishes; "unsaved" is over, *)
(* with a last statement that failed; "died" with the process.             *)
Awaits ==
  {"none", "reading", "starting", "compiling", "testing", "saving", "saved", "failing",
   "failingUnread", "failed", "unfailed", "over", "unsaved", "died"}

(* `overtime`: the tests whose process was still running at the time limit *)
(* (timeMs of the results); `late`: isTimeOut of the test that runs.       *)
NoRow == [status |-> "none", verdict |-> "none", results |-> <<>>, overtime |-> {}]
NoRun == [at |-> "none", verdict |-> "none", results |-> <<>>, overtime |-> {}, late |-> FALSE]
Died == [NoRun EXCEPT !.at = "died"]
Starts == [NoRun EXCEPT !.at = "reading"]

-----------------------------------------------------------------------------
(* SubmissionQueue *)

(* Mutant: the job stays in the queue until it is done. *)
NextJobKept(jobs, workers) ==
  IF jobs = <<>> \/ workers = {}
    THEN UNCHANGED runs /\ queue' = jobs
    ELSE /\ queue' = jobs
         /\ runs' = [runs EXCEPT ![Head(jobs)] =
                       [w \in Workers |-> IF w \in workers THEN Starts ELSE @[w]]]

(* processNext: the first job, to every handler. *)
NextJob(jobs, workers) ==
  IF jobs = <<>> \/ workers = {}
    THEN UNCHANGED runs /\ queue' = jobs
    ELSE /\ queue' = Tail(jobs)
         /\ runs' = [runs EXCEPT ![Head(jobs)] =
                       [w \in Workers |-> IF w \in workers THEN Starts ELSE @[w]]]

Register(w) ==
  /\ w \notin handlers
  /\ handlers' = handlers \cup {w}
  /\ NextJob(queue, handlers')
  /\ backlog' = Len(queue')
  /\ UNCHANGED <<row, asked, told, crashes>>

-----------------------------------------------------------------------------
(* POST /submissions: the rows in one transaction, then the queue; nothing *)
(* is queued when the answer of the transaction is lost.                   *)

CreateSubmission(j) ==
  /\ asked[j] = "no"
  /\ row' = [row EXCEPT ![j].status = "PENDING"]
  /\ \E answer \in {"created", "lost"} : asked' = [asked EXCEPT ![j] = answer]
  /\ UNCHANGED <<queue, handlers, runs, told, backlog, crashes>>

Enqueue(j) ==
  /\ asked[j] = "created"
  /\ asked' = [asked EXCEPT ![j] = "queued"]
  /\ NextJob(Append(queue, j), handlers)
  /\ UNCHANGED <<row, handlers, told, backlog, crashes>>

-----------------------------------------------------------------------------
(* JudgeWorker.processJob of job j by worker w *)

At(j, w, await) == runs[j][w].at = await

Goes(j, w, await) == runs' = [runs EXCEPT ![j][w].at = await]

Tell(j, verdict) == told' = [told EXCEPT ![j] = Append(@, verdict)]

Read(j, w) ==
  /\ At(j, w, "reading")
  /\ Goes(j, w, "starting")
  /\ UNCHANGED <<row, told>>

SetRunning(j, w) ==
  /\ At(j, w, "starting")
  /\ row' = [row EXCEPT ![j].status = "RUNNING"]
  /\ Goes(j, w, "compiling")
  /\ UNCHANGED told

(* ExecutionEngine.execute up to the first test case, or to its result when *)
(* there is none, or when language, directory or compiler refuse (any of   *)
(* which is a COMPILATION_ERROR here).                                     *)
Compiled(j, w) ==
  /\ At(j, w, "compiling")
  /\ runs' =
       [runs EXCEPT ![j][w] =
          IF TestsOf[j] = 0
            THEN [@ EXCEPT !.at = "saving", !.verdict = "ACCEPTED"]
            ELSE [@ EXCEPT !.at = "testing"]]
  /\ UNCHANGED <<row, told>>

NotCompiled(j, w) ==
  /\ At(j, w, "compiling")
  /\ runs' = [runs EXCEPT ![j][w].at = "saving", ![j][w].verdict = "COMPILATION_ERROR"]
  /\ UNCHANGED <<row, told>>

(* The timer of LocalSandbox: isTimeOut, and the child is killed. *)
Timeout(j, w) ==
  /\ At(j, w, "testing")
  /\ ~runs[j][w].late
  /\ runs' = [runs EXCEPT ![j][w] =
                [@ EXCEPT !.late = TRUE,
                          !.overtime = runs[j][w].overtime \cup {Len(runs[j][w].results) + 1}]]
  /\ UNCHANGED <<row, told>>

(* Mutant: what was written goes before the timeout. *)
JudgeOutputFirst(run, output) ==
  IF output = "ACCEPTED" \/ ~run.late THEN output ELSE "TIME_LIMIT_EXCEEDED"

(* The status of a test case: a timeout goes before whatever it wrote. *)
Judge(run, output) == IF run.late THEN "TIME_LIMIT_EXCEEDED" ELSE output

(* Mutant: the verdict is the last failed test's. *)
OverallLast(results) ==
  LET Failed == {i \in DOMAIN results : results[i] # "ACCEPTED"} IN
  IF Failed = {} THEN "ACCEPTED" ELSE results[CHOOSE i \in Failed : \A k \in Failed : k <= i]

(* overallStatus: the first test that was not accepted. *)
Overall(results) ==
  LET Failed == {i \in DOMAIN results : results[i] # "ACCEPTED"} IN
  IF Failed = {} THEN "ACCEPTED" ELSE results[CHOOSE i \in Failed : \A k \in Failed : i <= k]

(* The child closes.  Then the next test, with an isTimeOut of its own, or *)
(* the result.                                                             *)
ChildCloses(j, w, output) ==
  LET results == Append(runs[j][w].results, Judge(runs[j][w], output)) IN
  /\ At(j, w, "testing")
  /\ runs' =
       [runs EXCEPT ![j][w] =
          IF Len(results) < TestsOf[j]
            THEN [@ EXCEPT !.results = results, !.late = FALSE]
            ELSE [@ EXCEPT !.at = "saving", !.verdict = Overall(results),
                           !.results = results, !.late = FALSE]]
  /\ UNCHANGED <<row, told>>

(* Mutant: the answer of the statement is not awaited before publishing. *)
SaveUnawaited(j, w) ==
  /\ At(j, w, "saving")
  /\ \/ row' = [row EXCEPT ![j].status = "COMPLETED", ![j].verdict = runs[j][w].verdict]
     \/ UNCHANGED row
  /\ Goes(j, w, "saved")
  /\ UNCHANGED told

(* The statement commits ... *)
Save(j, w) ==
  /\ At(j, w, "saving")
  /\ row' = [row EXCEPT ![j] = [status |-> "COMPLETED", verdict |-> runs[j][w].verdict,
                                results |-> runs[j][w].results,
                                overtime |-> runs[j][w].overtime]]
  /\ Goes(j, w, "saved")
  /\ UNCHANGED told

(* ... and when its answer is there, the verdict is published. *)
Publish(j, w) ==
  /\ At(j, w, "saved")
  /\ Tell(j, runs[j][w].verdict)
  /\ Goes(j, w, "over")
  /\ UNCHANGED row

(* A statement, the engine or a sandbox throws; userId is known after the  *)
(* read.                                                                   *)
Throws(j, w) ==
  /\ \/ At(j, w, "reading") /\ Goes(j, w, "failingUnread")
     \/ /\ runs[j][w].at \in {"starting", "compiling", "testing", "saving", "saved"}
        /\ Goes(j, w, "failing")
  /\ UNCHANGED <<row, told>>

(* Mutant: the catch branch only publishes. *)
FailedUnsaved(j, w) ==
  /\ \/ At(j, w, "failing") /\ Goes(j, w, "failed")
     \/ At(j, w, "failingUnread") /\ Goes(j, w, "over")
  /\ UNCHANGED <<row, told>>

(* The statement of the catch branch, which may fail as well. *)
Failed(j, w) ==
  /\ \/ /\ row' = [row EXCEPT ![j].status = "FAILED"]
        /\ \/ At(j, w, "failing") /\ Goes(j, w, "failed")
           \/ At(j, w, "failingUnread") /\ Goes(j, w, "over")
     \/ /\ UNCHANGED row
        /\ \/ At(j, w, "failing") /\ Goes(j, w, "unfailed")
           \/ At(j, w, "failingUnread") /\ Goes(j, w, "unsaved")
  /\ UNCHANGED told

(* The failure is published either way. *)
PublishFailure(j, w) ==
  /\ \/ At(j, w, "failed") /\ Goes(j, w, "over")
     \/ At(j, w, "unfailed") /\ Goes(j, w, "unsaved")
  /\ Tell(j, "INTERNAL_ERROR")
  /\ UNCHANGED row

-----------------------------------------------------------------------------
(* The process dies: rows stay, the rest is gone (of a run that had ended  *)
(* it is remembered how).                                                  *)
Ended == {"none", "over", "unsaved"}

Crash ==
  /\ crashes < MaxCrashes
  /\ crashes' = crashes + 1
  /\ asked' = [j \in Jobs |-> IF asked[j] = "no" THEN "no" ELSE "lost"]
  /\ queue' = <<>>
  /\ handlers' = {}
  /\ runs' = [j \in Jobs |-> [w \in Workers |-> IF runs[j][w].at \in Ended THEN runs[j][w] ELSE Died]]
  /\ backlog' = 0
  /\ UNCHANGED <<row, told>>

Init ==
  /\ row = [j \in Jobs |-> NoRow]
  /\ asked = [j \in Jobs |-> "no"]
  /\ queue = <<>>
  /\ handlers = {}
  /\ runs = [j \in Jobs |-> [w \in Workers |-> NoRun]]
  /\ told = [j \in Jobs |-> <<>>]
  /\ backlog = 0
  /\ crashes = 0

Step(j, w) ==
  /\ \/ Read(j, w)
     \/ SetRunning(j, w)
     \/ Compiled(j, w) \/ NotCompiled(j, w)
     \/ Timeout(j, w)
     \/ \E output \in {"ACCEPTED", "WRONG_ANSWER"} : ChildCloses(j, w, output)
     \/ Save(j, w) \/ Publish(j, w)
     \/ Throws(j, w)
     \/ Failed(j, w) \/ PublishFailure(j, w)
  /\ UNCHANGED <<asked, queue, handlers, backlog, crashes>>

Next ==
  \/ \E w \in Workers : Register(w)
  \/ \E j \in Jobs : CreateSubmission(j) \/ Enqueue(j)
  \/ \E j \in Jobs, w \in Workers : Step(j, w)
  \/ Crash

Spec == Init /\ [][Next]_vars

(* Statements return, timers fire and a killed child closes.  A compiler   *)
(* has no time limit, and a client need not submit.                        *)
Moves(j, w) == Step(j, w) /\ ~At(j, w, "compiling")

Fairness ==
  /\ \A j \in Jobs : WF_vars(Enqueue(j))
  /\ \A j \in Jobs, w \in Workers : WF_vars(Moves(j, w))

FairSpec == Spec /\ Fairness

-----------------------------------------------------------------------------
(* Properties. *)

RowType == [status: {"none", "PENDING", "RUNNING", "COMPLETED", "FAILED"},
            verdict: Verdicts \cup {"none"}, results: Seq(Judgements), overtime: SUBSET Nat]
RunType == [at: Awaits, verdict: Verdicts \cup {"none"}, results: Seq(Judgements),
            overtime: SUBSET Nat, late: BOOLEAN]

TypeOK ==
  /\ row \in [Jobs -> RowType]
  /\ asked \in [Jobs -> {"no", "created", "queued", "lost"}]
  /\ queue \in Seq(Jobs)
  /\ handlers \subseteq Workers
  /\ runs \in [Jobs -> [Workers -> RunType]]
  /\ told \in [Jobs -> Seq(Verdicts \cup {"none"})]
  /\ backlog \in Nat /\ crashes \in 0..MaxCrashes

(* The verdict that these results of a problem with so many tests deserve. *)
Deserved(verdict, results, tests) ==
  /\ Len(results) = tests
  /\ \/ verdict = "ACCEPTED" /\ \A i \in DOMAIN results : results[i] = "ACCEPTED"
     \/ \E i \in DOMAIN results :
          /\ results[i] = verdict /\ verdict # "ACCEPTED"
          /\ \A k \in 1..(i - 1) : results[k] = "ACCEPTED"

RunBy(j) == {w \in Workers : ~At(j, w, "none")}

(* The tests that were judged too late are those that ran over the limit. *)
Punctual(results, overtime) ==
  \A i \in DOMAIN results : results[i] = "TIME_LIMIT_EXCEEDED" <=> i \in overtime

(* A stored verdict is that of the first test case that was not accepted,  *)
(* and ACCEPTED only when every test case was.  A test is judged too late  *)
(* exactly when its own process ran into the time limit, whatever that     *)
(* wrote before it closed and whatever the test before it did.  Two        *)
(* workers that judge the same job do not mix their results.               *)
VerdictEarned ==
  \A j \in Jobs :
    row[j].verdict \in Judgements =>
      /\ Deserved(row[j].verdict, row[j].results, TestsOf[j])
      /\ Punctual(row[j].results, row[j].overtime)

(* A verdict that was published is what the row says, as long as one       *)
(* worker alone runs the job, and whatever fails or dies: a match is not   *)
(* won by a verdict that the database does not have.  A row may say more   *)
(* than an INTERNAL_ERROR only if the failure could not be saved (after    *)
(* the answer to the verdict's own commit was lost).                       *)
ToldIsStored ==
  \A j \in Jobs :
    (\A v, w \in RunBy(j) : v = w) /\ told[j] # <<>> =>
      LET verdict == Last(told[j]) IN
      \/ verdict # "INTERNAL_ERROR" /\ row[j].status = "COMPLETED" /\ row[j].verdict = verdict
      \/ verdict = "INTERNAL_ERROR" /\ row[j].status # "COMPLETED"
      \/ verdict = "INTERNAL_ERROR" /\ \E w \in Workers : At(j, w, "unsaved")

(* Jobs wait for a worker only: once one is registered the queue keeps     *)
(* exactly the jobs that waited then, less one per further registration.   *)
(* An enqueue sends one job on, so those that waited behind the first are  *)
(* never caught up.                                                        *)
BacklogStays == handlers # {} => Len(queue) = backlog

(* With nothing left behind at the registration, every job that is queued  *)
(* is judged or failed, unless the process dies, the compiler hangs or     *)
(* even the failure cannot be saved.                                       *)
EveryJobDecided ==
  \A j \in Jobs :
    asked[j] = "queued" /\ handlers # {} /\ backlog = 0 ~>
      \/ row[j].status \in {"COMPLETED", "FAILED"}
      \/ asked[j] = "lost"
      \/ \E w \in Workers : runs[j][w].at \in {"compiling", "unsaved"}
=============================================================================
