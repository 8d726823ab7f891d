-------------------------- MODULE SubmissionsProofs --------------------------
(***************************************************************************)
(* For any jobs, workers, test cases and crashes: verdicts are earned,     *)
(* told as they are stored, and a backlog is never caught up.              *)
(***************************************************************************)
EXTENDS Submissions, WellFoundedInduction, TLAPS

-----------------------------------------------------------------------------
(* Verdicts. *)

LEMMA Least ==
  ASSUME NEW T \in SUBSET Nat, T # {}
  PROVE  \E i \in T : \A k \in T : i <= k
<1> DEFINE R == {p \in Nat \X Nat : p[1] < p[2]}
<1>1. IsWellFoundedOn(R, Nat)
  BY NatLessThanWellFounded DEF OpToRel
<1>2. PICK i \in T : \A k \in T : ~ (<<k, i>> \in R)
  BY <1>1, WFMin
<1>3. ASSUME NEW k \in T PROVE i <= k
  <2>1. <<k, i>> \in Nat \X Nat /\ <<k, i>>[1] = k /\ <<k, i>>[2] = i
    OBVIOUS
  <2>2. ~ (k < i)
    BY <1>2, <2>1
  <2>3. QED BY <2>2
<1>4. QED BY <1>3

(* overallStatus is what the results deserve. *)
LEMMA OverallDeserved ==
  ASSUME NEW results \in Seq(Judgements)
  PROVE  /\ Overall(results) \in Judgements
         /\ Deserved(Overall(results), results, Len(results))
<1> DEFINE Bad == {i \in DOMAIN results : results[i] # "ACCEPTED"}
           first == CHOOSE i \in Bad : \A k \in Bad : i <= k
<1>1. CASE Bad = {}
  BY <1>1 DEF Overall, Deserved, Judgements
<1>2. CASE Bad # {}
  <2>1. \E i \in Bad : \A k \in Bad : i <= k
    <3>1. Bad \in SUBSET Nat
      OBVIOUS
    <3> HIDE DEF Bad
    <3>2. QED BY <1>2, <3>1, Least
  <2>2. first \in Bad /\ \A k \in Bad : first <= k
    BY <2>1
  <2>3. Overall(results) = results[first]
    BY <1>2 DEF Overall
  <2>4. \A k \in 1..(first - 1) : results[k] = "ACCEPTED"
    BY <2>2
  <2>5. QED BY <2>2, <2>3, <2>4 DEF Deserved
<1>3. QED BY <1>1, <1>2

-----------------------------------------------------------------------------
(* Types. *)

Told == Verdicts \cup {"none"}

LEMMA InitTypeOK == Init => TypeOK
<1> SUFFICES ASSUME Init PROVE TypeOK
  OBVIOUS
<1>1. NoRow \in RowType /\ NoRun \in RunType
  BY DEF NoRow, NoRun, RowType, RunType, Awaits
<1>2. QED BY <1>1, SubmissionsAssumption DEF Init, TypeOK

LEMMA NextJobType ==
  ASSUME TypeOK, NEW jobs \in Seq(Jobs), NEW S \in SUBSET Workers, NextJob(jobs, S)
  PROVE  queue' \in Seq(Jobs) /\ runs' \in [Jobs -> [Workers -> RunType]]
<1>1. CASE jobs = <<>> \/ S = {}
  BY <1>1 DEF NextJob, TypeOK
<1>2. CASE ~(jobs = <<>> \/ S = {})
  <2>1. Tail(jobs) \in Seq(Jobs) /\ Head(jobs) \in Jobs
    BY <1>2
  <2>2. Starts \in RunType
    <3>1. NoRun \in RunType /\ "reading" \in Awaits
      BY DEF NoRun, RunType, Awaits
    <3>2. QED BY <3>1 DEF Starts, RunType
  <2>3. runs[Head(jobs)] \in [Workers -> RunType]
    BY <2>1 DEF TypeOK
  <2>4. [w \in Workers |-> IF w \in S THEN Starts ELSE runs[Head(jobs)][w]]
          \in [Workers -> RunType]
    BY <2>2, <2>3
  <2>5. /\ queue' = Tail(jobs)
        /\ runs' = [runs EXCEPT ![Head(jobs)] =
                      [w \in Workers |-> IF w \in S THEN Starts ELSE runs[Head(jobs)][w]]]
    BY <1>2, <2>1 DEF NextJob, TypeOK
  <2>6. QED BY <2>1, <2>4, <2>5 DEF TypeOK
<1>3. QED BY <1>1, <1>2

(* What a worker's step may change. *)
LEMMA StepType ==
  ASSUME TypeOK, NEW j \in Jobs, NEW w \in Workers, Step(j, w)
  PROVE  /\ row' \in [Jobs -> RowType]
         /\ runs' \in [Jobs -> [Workers -> RunType]]
         /\ told' \in [Jobs -> Seq(Told)]
<1> DEFINE run == runs[j][w]
<1>1. run \in RunType /\ row[j] \in RowType /\ told[j] \in Seq(Told)
  BY DEF TypeOK, Told
<1>2. ASSUME NEW r \in RunType, runs' = [runs EXCEPT ![j][w] = r]
      PROVE  runs' \in [Jobs -> [Workers -> RunType]]
  BY <1>2 DEF TypeOK
<1>3. ASSUME NEW await \in Awaits, Goes(j, w, await)
      PROVE  runs' \in [Jobs -> [Workers -> RunType]]
  <2>1. [run EXCEPT !.at = await] \in RunType
    BY <1>1, <1>3 DEF RunType
  <2>2. runs' = [runs EXCEPT ![j][w] = [run EXCEPT !.at = await]]
    BY <1>3 DEF Goes, TypeOK
  <2>3. QED BY <1>2, <2>1, <2>2
<1>4. ASSUME NEW v \in Told, Tell(j, v)
      PROVE  told' \in [Jobs -> Seq(Told)]
  <2>1. Append(told[j], v) \in Seq(Told)
    BY <1>1
  <2>2. QED BY <1>4, <2>1 DEF Tell, TypeOK, Told
<1>5. CASE Read(j, w)
  BY <1>3, <1>5 DEF Read, Awaits, TypeOK, Told
<1>6. CASE SetRunning(j, w)
  <2>1. row' \in [Jobs -> RowType]
    BY <1>1, <1>6 DEF SetRunning, RowType, TypeOK
  <2>2. QED BY <1>3, <1>6, <2>1 DEF SetRunning, Awaits, TypeOK, Told
<1>7. ASSUME Compiled(j, w)
      PROVE  runs' \in [Jobs -> [Workers -> RunType]]
  <2>1. /\ [run EXCEPT !.at = "saving", !.verdict = "ACCEPTED"] \in RunType
        /\ [run EXCEPT !.at = "testing"] \in RunType
    BY <1>1 DEF RunType, Awaits, Verdicts, Judgements
  <2>2. QED BY <1>7, <2>1 DEF Compiled, TypeOK
<1>8. ASSUME NotCompiled(j, w)
      PROVE  runs' \in [Jobs -> [Workers -> RunType]]
  BY <1>1, <1>8 DEF NotCompiled, RunType, Awaits, Verdicts, TypeOK
<1>9. ASSUME Timeout(j, w)
      PROVE  runs' \in [Jobs -> [Workers -> RunType]]
  <2> DEFINE overtime == run.overtime \cup {Len(run.results) + 1}
             timedOut == [run EXCEPT !.late = TRUE, !.overtime = overtime]
  <2>1. Len(run.results) \in Nat
    BY <1>1 DEF RunType
  <2>2. overtime \in SUBSET Nat
    BY <1>1, <2>1 DEF RunType
  <2>3. runs' = [runs EXCEPT ![j][w] = timedOut]
    BY <1>9 DEF Timeout, TypeOK
  <2>4. timedOut \in RunType
    <3> HIDE DEF overtime
    <3>1. QED BY <1>1, <2>2 DEF RunType
  <2>5. QED BY <1>2, <2>3, <2>4
<1>10. ASSUME NEW output \in {"ACCEPTED", "WRONG_ANSWER"}, ChildCloses(j, w, output)
       PROVE  runs' \in [Jobs -> [Workers -> RunType]]
  <2> DEFINE judged == Judge(run, output)
             results == Append(run.results, judged)
             next == [run EXCEPT !.results = results, !.late = FALSE]
             done == [run EXCEPT !.at = "saving", !.verdict = Overall(results),
                                 !.results = results, !.late = FALSE]
  <2>1. judged \in Judgements
    BY DEF Judge, Judgements
  <2>2. results \in Seq(Judgements)
    BY <1>1, <2>1 DEF RunType
  <2>3. Overall(results) \in Judgements
    BY <2>2, OverallDeserved DEF Deserved, Judgements
  <2>4. next \in RunType /\ done \in RunType
    <3> HIDE DEF results
    <3>1. QED BY <1>1, <2>2, <2>3 DEF RunType, Awaits, Verdicts
  <2>5. runs' = [runs EXCEPT ![j][w] = IF Len(results) < TestsOf[j] THEN next ELSE done]
    BY <1>10 DEF ChildCloses, TypeOK
  <2>6. QED BY <1>2, <2>4, <2>5
<1>11. CASE Save(j, w)
  <2>1. row' \in [Jobs -> RowType]
    BY <1>1, <1>11 DEF Save, RowType, RunType, TypeOK
  <2>2. QED BY <1>3, <1>11, <2>1 DEF Save, Awaits, TypeOK, Told
<1>12. CASE Throws(j, w)
  BY <1>3, <1>12 DEF Throws, Awaits, TypeOK, Told
<1>13. CASE Failed(j, w)
  <2>1. row' \in [Jobs -> RowType]
    <3>1. [row[j] EXCEPT !.status = "FAILED"] \in RowType
      BY <1>1 DEF RowType
    <3>2. row' = row \/ row' = [row EXCEPT ![j] = [row[j] EXCEPT !.status = "FAILED"]]
      BY <1>13 DEF Failed, TypeOK
    <3>3. QED BY <3>1, <3>2 DEF TypeOK
  <2>2. QED BY <1>3, <1>13, <2>1 DEF Failed, Awaits, TypeOK, Told
<1>14. CASE Compiled(j, w) \/ NotCompiled(j, w) \/ Timeout(j, w)
              \/ \E output \in {"ACCEPTED", "WRONG_ANSWER"} : ChildCloses(j, w, output)
  <2>1. UNCHANGED <<row, told>>
    BY <1>14 DEF Compiled, NotCompiled, Timeout, ChildCloses
  <2>2. QED BY <1>7, <1>8, <1>9, <1>10, <1>14, <2>1 DEF TypeOK, Told
<1>15. CASE Publish(j, w)
  <2>1. run.verdict \in Told
    BY <1>1 DEF RunType, Told
  <2>2. QED BY <1>3, <1>4, <1>15, <2>1 DEF Publish, Awaits, TypeOK
<1>16. CASE PublishFailure(j, w)
  <2>1. "INTERNAL_ERROR" \in Told
    BY DEF Verdicts, Told
  <2>2. QED BY <1>3, <1>4, <1>16, <2>1 DEF PublishFailure, Awaits, TypeOK
<1>17. QED
  BY <1>5, <1>6, <1>11, <1>12, <1>13, <1>14, <1>15, <1>16 DEF Step

LEMMA NextKeepsTypeOK ==
  ASSUME TypeOK, [Next]_vars
  PROVE  TypeOK'
<1>1. CASE UNCHANGED vars
  BY <1>1 DEF TypeOK, vars
<1>2. ASSUME NEW w \in Workers, Register(w)
      PROVE  TypeOK'
  <2>1. handlers' \in SUBSET Workers /\ queue \in Seq(Jobs)
    BY <1>2 DEF Register, TypeOK
  <2>2. queue' \in Seq(Jobs) /\ runs' \in [Jobs -> [Workers -> RunType]]
    BY <1>2, <2>1, NextJobType DEF Register
  <2>3. QED BY <1>2, <2>1, <2>2 DEF Register, TypeOK
<1>3. ASSUME NEW j \in Jobs, CreateSubmission(j)
      PROVE  TypeOK'
  <2>1. row' \in [Jobs -> RowType]
    BY <1>3 DEF CreateSubmission, RowType, TypeOK
  <2>2. QED BY <1>3, <2>1 DEF CreateSubmission, TypeOK
<1>4. ASSUME NEW j \in Jobs, Enqueue(j)
      PROVE  TypeOK'
  <2>1. handlers \in SUBSET Workers /\ Append(queue, j) \in Seq(Jobs)
    BY DEF TypeOK
  <2>2. queue' \in Seq(Jobs) /\ runs' \in [Jobs -> [Workers -> RunType]]
    BY <1>4, <2>1, NextJobType DEF Enqueue
  <2>3. QED BY <1>4, <2>2 DEF Enqueue, TypeOK
<1>5. ASSUME NEW j \in Jobs, NEW w \in Workers, Step(j, w)
      PROVE  TypeOK'
  <2>1. UNCHANGED <<asked, queue, handlers, backlog, crashes>>
    BY <1>5 DEF Step
  <2>2. QED BY <1>5, <2>1, StepType DEF TypeOK, Told
<1>6. CASE Crash
  <2>1. runs' \in [Jobs -> [Workers -> RunType]]
    <3>1. NoRun \in RunType /\ "died" \in Awaits
      BY DEF NoRun, RunType, Awaits
    <3>2. Died \in RunType
      BY <3>1 DEF Died, RunType
    <3>3. QED BY <1>6, <3>2 DEF Crash, TypeOK
  <2>2. asked' \in [Jobs -> {"no", "created", "queued", "lost"}]
    BY <1>6 DEF Crash
  <2>3. crashes' \in 0..MaxCrashes
    BY <1>6, SubmissionsAssumption DEF Crash, TypeOK
  <2>4. QED BY <1>6, <2>1, <2>2, <2>3 DEF Crash, TypeOK
<1>7. QED BY <1>1, <1>2, <1>3, <1>4, <1>5, <1>6 DEF Next

-----------------------------------------------------------------------------
(* The backlog: what an enqueue puts in at the end, it takes at the front. *)

LEMMA NextKeepsBacklog ==
  ASSUME TypeOK, BacklogStays, [Next]_vars
  PROVE  BacklogStays'
<1>1. ASSUME NEW j \in Jobs, Enqueue(j), handlers # {}
      PROVE  Len(queue') = Len(queue) /\ UNCHANGED <<handlers, backlog>>
  <2>1. queue \in Seq(Jobs)
    BY DEF TypeOK
  <2>2. queue' = Tail(Append(queue, j)) /\ UNCHANGED <<handlers, backlog>>
    BY <1>1, <2>1 DEF Enqueue, NextJob
  <2>3. QED BY <2>1, <2>2
<1>2. ASSUME NEW w \in Workers, Register(w)
      PROVE  backlog' = Len(queue')
  BY <1>2 DEF Register
<1>3. CASE UNCHANGED <<queue, handlers, backlog>>
  BY <1>3 DEF BacklogStays
<1>4. CASE handlers' = {}
  BY <1>4 DEF BacklogStays
<1>5. QED
  BY <1>1, <1>2, <1>3, <1>4
  DEF Next, vars, CreateSubmission, Enqueue, Step, Crash, BacklogStays

-----------------------------------------------------------------------------
(* What a run knows at each await. *)

(* The tests that ran over the limit are those judged late, and the one    *)
(* that runs if its isTimeOut is set.                                      *)
Timed(run) ==
  /\ Punctual(run.results, run.overtime)
  /\ \A i \in run.overtime : i <= Len(run.results) + 1
  /\ Len(run.results) + 1 \in run.overtime <=> run.late

Judged(j, w) ==
  LET run == runs[j][w] IN
  /\ run.at \in {"none", "reading", "starting", "compiling"} =>
       run.results = <<>> /\ run.overtime = {} /\ ~run.late
  /\ run.at = "testing" => Len(run.results) < TestsOf[j] /\ Timed(run)
  /\ run.at = "saving" /\ run.verdict \in Judgements =>
       /\ Deserved(run.verdict, run.results, TestsOf[j])
       /\ Punctual(run.results, run.overtime)
  /\ run.at \in {"saving", "saved"} => run.verdict \in Judgements \cup {"COMPILATION_ERROR"}

RunsJudged == \A j \in Jobs, w \in Workers : Judged(j, w)

LEMMA NextKeepsJudged ==
  ASSUME TypeOK, RunsJudged, [Next]_vars
  PROVE  RunsJudged'
<1>1. CASE UNCHANGED runs
  BY <1>1 DEF RunsJudged, Judged
<1>2. ASSUME NEW jobs \in Seq(Jobs), NEW S \in SUBSET Workers, NextJob(jobs, S)
      PROVE  RunsJudged'
  <2> SUFFICES ASSUME NEW j \in Jobs, NEW w \in Workers
               PROVE  Judged(j, w)'
    BY DEF RunsJudged
  <2>1. Judged(j, w)
    BY DEF RunsJudged
  <2>2. runs'[j][w] = runs[j][w] \/ runs'[j][w] = Starts
    <3>1. CASE jobs = <<>> \/ S = {}
      BY <1>2, <3>1 DEF NextJob
    <3>2. CASE ~(jobs = <<>> \/ S = {})
      <4>1. runs' = [runs EXCEPT ![Head(jobs)] =
                       [v \in Workers |-> IF v \in S THEN Starts ELSE runs[Head(jobs)][v]]]
        BY <1>2, <3>2 DEF NextJob, TypeOK
      <4>2. QED BY <4>1 DEF TypeOK
    <3>3. QED BY <3>1, <3>2
  <2>3. QED BY <2>1, <2>2 DEF Judged, Starts, NoRun
<1>3. CASE Crash
  BY <1>3 DEF Crash, RunsJudged, Judged, NoRun, Died
<1>4. ASSUME NEW j \in Jobs, NEW w \in Workers, Step(j, w)
      PROVE  RunsJudged'
  <2> DEFINE run == runs[j][w]
             ran == runs'[j][w]
  <2> SUFFICES Judged(j, w)'
    <3>1. ASSUME NEW k \in Jobs, NEW v \in Workers, <<k, v>> # <<j, w>>
          PROVE  runs'[k][v] = runs[k][v]
      BY <1>4, <3>1 DEF Step, Read, SetRunning, Compiled, NotCompiled, Timeout, ChildCloses,
         Save, Publish, Throws, Failed, PublishFailure, Goes, TypeOK
    <3>2. QED BY <3>1 DEF RunsJudged, Judged
  <2>1. run \in RunType /\ Judged(j, w) /\ TestsOf[j] \in Nat
    BY SubmissionsAssumption DEF TypeOK, RunsJudged
  <2>2. ASSUME NEW await \in Awaits \ {"none", "testing", "saving"}, Goes(j, w, await),
               await = "saved" => run.at = "saving",
               run.at \in {"reading", "starting"} \/ await \notin {"reading", "starting", "compiling"}
        PROVE  Judged(j, w)'
    <3>1. ran = [run EXCEPT !.at = await]
      BY <2>2 DEF Goes, TypeOK
    <3>2. /\ ran.at = await /\ ran.verdict = run.verdict /\ ran.results = run.results
          /\ ran.overtime = run.overtime /\ ran.late = run.late
      BY <2>1, <3>1 DEF RunType
    <3>3. QED BY <2>1, <2>2, <3>2 DEF Judged
  <2>3. CASE \/ Read(j, w) \/ SetRunning(j, w) \/ Throws(j, w) \/ Failed(j, w)
             \/ Save(j, w) \/ Publish(j, w) \/ PublishFailure(j, w)
    BY <2>2, <2>3 DEF Read, SetRunning, Throws, Failed, Save, Publish, PublishFailure, At, Awaits
  <2>4. CASE Compiled(j, w)
    <3>1. CASE TestsOf[j] = 0
      <4>1. ran = [run EXCEPT !.at = "saving", !.verdict = "ACCEPTED"]
        BY <2>4, <3>1 DEF Compiled, TypeOK
      <4>2. run.at = "compiling" /\ run.results = <<>> /\ run.overtime = {}
        BY <2>1, <2>4 DEF Compiled, At, Judged
      <4>3. /\ ran.at = "saving" /\ ran.verdict = "ACCEPTED"
            /\ ran.results = <<>> /\ ran.overtime = {}
        <5> HIDE DEF run, ran
        <5>1. QED BY <2>1, <4>1, <4>2 DEF RunType
      <4>4. QED BY <3>1, <4>3 DEF Judged, Deserved, Punctual, Judgements
    <3>2. CASE TestsOf[j] # 0
      <4>1. ran = [run EXCEPT !.at = "testing"]
        BY <2>4, <3>2 DEF Compiled, TypeOK
      <4>2. ran.at = "testing" /\ ran.results = <<>> /\ ran.overtime = {} /\ ~ran.late
        BY <2>1, <2>4, <4>1 DEF Compiled, At, Judged, RunType
      <4>3. Timed(ran)
        BY <4>2 DEF Timed, Punctual
      <4>4. QED BY <2>1, <3>2, <4>2, <4>3 DEF Judged
    <3>3. QED BY <3>1, <3>2
  <2>5. CASE NotCompiled(j, w)
    <3>1. ran.at = "saving" /\ ran.verdict = "COMPILATION_ERROR"
      BY <2>1, <2>5 DEF NotCompiled, RunType, TypeOK
    <3>2. QED BY <3>1 DEF Judged, Judgements
  <2>6. CASE Timeout(j, w)
    <3> DEFINE overtime == run.overtime \cup {Len(run.results) + 1}
    <3>1. /\ run.at = "testing" /\ ~run.late
          /\ ran = [run EXCEPT !.late = TRUE, !.overtime = overtime]
      BY <2>6 DEF Timeout, At, TypeOK
    <3>2. /\ ran.at = "testing" /\ ran.results = run.results
          /\ ran.overtime = overtime /\ ran.late
      <4> HIDE DEF overtime, ran, run
      <4>1. QED BY <2>1, <3>1 DEF RunType
    <3>3. Timed(run) /\ run.results \in Seq(Judgements) /\ run.overtime \in SUBSET Nat
      BY <2>1, <3>1 DEF Judged, RunType
    <3>4. Timed(ran)
      <4> HIDE DEF ran, run
      <4>1. QED BY <3>2, <3>3 DEF Timed, Punctual
    <3>5. QED BY <2>1, <3>1, <3>2, <3>4 DEF Judged
  <2>7. ASSUME NEW output \in {"ACCEPTED", "WRONG_ANSWER"}, ChildCloses(j, w, output)
        PROVE  Judged(j, w)'
    <3> DEFINE judged == Judge(run, output)
               results == Append(run.results, judged)
    <3>1. judged \in Judgements /\ (judged = "TIME_LIMIT_EXCEEDED" <=> run.late)
      BY <2>1 DEF Judge, Judgements, RunType
    <3>2. /\ results \in Seq(Judgements) /\ Len(results) = Len(run.results) + 1
          /\ results[Len(results)] = judged
          /\ \A i \in DOMAIN run.results : results[i] = run.results[i]
          /\ Len(run.results) < TestsOf[j] /\ Len(run.results) \in Nat
          /\ run.results \in Seq(Judgements) /\ run.overtime \in SUBSET Nat
          /\ run.at = "testing" /\ Timed(run)
      BY <2>1, <2>7, <3>1 DEF RunType, Judged, ChildCloses, At
    <3>3. ran = IF Len(results) < TestsOf[j]
                  THEN [run EXCEPT !.results = results, !.late = FALSE]
                  ELSE [run EXCEPT !.at = "saving", !.verdict = Overall(results),
                                   !.results = results, !.late = FALSE]
      BY <2>7 DEF ChildCloses, TypeOK
    <3>4. Punctual(results, run.overtime)
      <4> HIDE DEF run, judged, results
      <4>1. QED BY <3>1, <3>2 DEF Timed, Punctual
    <3>5. CASE Len(results) < TestsOf[j]
      <4>1. /\ ran.at = "testing" /\ ran.results = results
            /\ ran.overtime = run.overtime /\ ~ran.late
        <5>1. ran = [run EXCEPT !.results = results, !.late = FALSE]
          BY <3>3, <3>5
        <5> HIDE DEF run, ran, results
        <5>2. QED BY <2>1, <3>2, <5>1 DEF RunType
      <4>2. Timed(ran)
        <5> HIDE DEF run, ran, judged, results
        <5>1. QED BY <3>2, <3>4, <4>1 DEF Timed
      <4>3. QED BY <3>5, <4>1, <4>2 DEF Judged
    <3>6. CASE ~(Len(results) < TestsOf[j])
      <4>1. /\ ran.at = "saving" /\ ran.verdict = Overall(results)
            /\ ran.results = results /\ ran.overtime = run.overtime
        <5>1. ran = [run EXCEPT !.at = "saving", !.verdict = Overall(results),
                                !.results = results, !.late = FALSE]
          BY <3>3, <3>6
        <5> HIDE DEF run, ran, results
        <5>2. QED BY <2>1, <5>1 DEF RunType
      <4>2. Len(results) = TestsOf[j]
        BY <2>1, <3>2, <3>6
      <4>3. Overall(results) \in Judgements /\ Deserved(Overall(results), results, TestsOf[j])
        BY <3>2, <4>2, OverallDeserved
      <4>4. QED BY <3>4, <4>1, <4>3 DEF Judged
    <3>7. QED BY <3>5, <3>6
  <2>8. QED BY <1>4, <2>3, <2>4, <2>5, <2>6, <2>7 DEF Step
<1>5. QED
  <2>1. /\ queue \in Seq(Jobs) /\ \A j \in Jobs : Append(queue, j) \in Seq(Jobs)
        /\ handlers \in SUBSET Workers /\ \A w \in Workers : handlers \cup {w} \in SUBSET Workers
    BY DEF TypeOK
  <2>2. QED
    BY <1>1, <1>2, <1>3, <1>4, <2>1 DEF Next, vars, Register, CreateSubmission, Enqueue

-----------------------------------------------------------------------------
(* What the row says. *)

LEMMA NextKeepsEarned ==
  ASSUME TypeOK, RunsJudged, VerdictEarned, [Next]_vars
  PROVE  VerdictEarned'
<1> DEFINE Says(q) == /\ Deserved(row'[q].verdict, row'[q].results, TestsOf[q])
                      /\ Punctual(row'[q].results, row'[q].overtime)
           Kept(q) == /\ row'[q].verdict = row[q].verdict /\ row'[q].results = row[q].results
                      /\ row'[q].overtime = row[q].overtime
<1> SUFFICES ASSUME NEW p \in Jobs
             PROVE  Kept(p) \/ (row'[p].verdict \in Judgements => Says(p))
  BY DEF VerdictEarned
<1>1. row[p] \in RowType
  BY DEF TypeOK
<1>2. CASE UNCHANGED row
  BY <1>2
<1>3. ASSUME NEW j \in Jobs, NEW w \in Workers, Save(j, w)
      PROVE  row'[p] = row[p] \/ (row'[p].verdict \in Judgements => Says(p))
  <2>1. Judged(j, w)
    BY DEF RunsJudged
  <2>2. p # j => row'[p] = row[p]
    BY <1>3 DEF Save, TypeOK
  <2>3. p = j => /\ row'[p].verdict = runs[j][w].verdict /\ row'[p].results = runs[j][w].results
                 /\ row'[p].overtime = runs[j][w].overtime
    BY <1>3 DEF Save, TypeOK
  <2>4. QED BY <1>3, <2>1, <2>2, <2>3 DEF Judged, Save, At
<1>4. ASSUME NEW j \in Jobs, NEW status, row' = [row EXCEPT ![j].status = status]
      PROVE  Kept(p)
  BY <1>1, <1>4 DEF RowType, TypeOK
<1>5. ASSUME NEW j \in Jobs, NEW w \in Workers, Step(j, w)
      PROVE  Save(j, w) \/ UNCHANGED row \/ \E status : row' = [row EXCEPT ![j].status = status]
  BY <1>5
  DEF Step, Read, SetRunning, Compiled, NotCompiled, Timeout, ChildCloses, Publish, Throws,
      Failed, PublishFailure
<1>6. ASSUME NEW j \in Jobs, CreateSubmission(j)
      PROVE  row' = [row EXCEPT ![j].status = "PENDING"]
  BY <1>6 DEF CreateSubmission
<1>7. (\E w \in Workers : Register(w)) \/ (\E j \in Jobs : Enqueue(j)) \/ Crash \/ UNCHANGED vars
        => UNCHANGED row
  BY DEF Register, Enqueue, Crash, vars
<1>8. QED BY <1>2, <1>3, <1>4, <1>5, <1>6, <1>7 DEF Next

-----------------------------------------------------------------------------
(* What was told.  A job is run once, since it is enqueued once and leaves *)
(* the queue when it is sent; before that nothing was told of it.          *)

Unrun(j) ==
  /\ \A w \in Workers : runs[j][w].at = "none"
  /\ told[j] = <<>>
  /\ row[j].status # "COMPLETED"

SentOnce ==
  /\ \A i, k \in DOMAIN queue : queue[i] = queue[k] => i = k
  /\ \A i \in DOMAIN queue : asked[queue[i]] = "queued" /\ Unrun(queue[i])
  /\ \A j \in Jobs : asked[j] \in {"no", "created"} => Unrun(j)

Alone(j) == \A v, w \in RunBy(j) : v = w

Agrees(j) ==
  LET verdict == Last(told[j]) IN
  \/ verdict # "INTERNAL_ERROR" /\ row[j].status = "COMPLETED" /\ row[j].verdict = verdict
  \/ verdict = "INTERNAL_ERROR" /\ row[j].status # "COMPLETED"
  \/ verdict = "INTERNAL_ERROR" /\ \E w \in Workers : At(j, w, "unsaved")

(* Until the run is over nothing is told.  The verdict is stored when the  *)
(* run is at "saved", and may be when a run fails whose answer was lost.   *)
NotYet == {"reading", "starting", "compiling", "testing", "saving", "saved", "failing",
           "failingUnread", "failed", "unfailed"}

Unstored == NotYet \ {"saved", "failing", "unfailed"}

Held(j) ==
  /\ \A w \in RunBy(j) :
       /\ runs[j][w].at \in NotYet => told[j] = <<>>
       /\ runs[j][w].at \in Unstored => row[j].status # "COMPLETED"
       /\ At(j, w, "saved") => row[j].status = "COMPLETED" /\ row[j].verdict = runs[j][w].verdict
  /\ told[j] # <<>> => Agrees(j)

ToldOnce == \A j \in Jobs : Alone(j) => Held(j)

LEMMA NextJobKeepsSent ==
  ASSUME TypeOK, NEW jobs \in Seq(Jobs), NEW S \in SUBSET Workers, NextJob(jobs, S),
         \A i, k \in DOMAIN jobs : jobs[i] = jobs[k] => i = k,
         \A i \in DOMAIN jobs : asked'[jobs[i]] = "queued" /\ Unrun(jobs[i]),
         UNCHANGED <<row, told>>,
         \A j \in Jobs : asked'[j] \in {"no", "created"} => Unrun(j)
  PROVE  SentOnce'
<1>1. CASE jobs = <<>> \/ S = {}
  BY <1>1 DEF NextJob, SentOnce, Unrun
<1>2. CASE ~(jobs = <<>> \/ S = {})
  <2>1. queue' = Tail(jobs) /\ jobs # <<>>
    BY <1>2 DEF NextJob
  <2>2. /\ DOMAIN queue' = 1..(Len(jobs) - 1)
        /\ \A i \in DOMAIN queue' : queue'[i] = jobs[i + 1] /\ i + 1 \in DOMAIN jobs
        /\ Head(jobs) = jobs[1] /\ 1 \in DOMAIN jobs
    BY <2>1
  <2>3. \A j \in Jobs : j # Head(jobs) => runs'[j] = runs[j]
    BY <1>2 DEF NextJob, TypeOK
  <2>4. \A i \in DOMAIN queue' : queue'[i] # Head(jobs) /\ queue'[i] \in Jobs
    BY <2>2
  <2>5. ASSUME NEW j \in Jobs, j # Head(jobs), Unrun(j)
        PROVE  Unrun(j)'
    BY <2>3, <2>5 DEF Unrun
  <2>6. \A j \in Jobs : asked'[j] \in {"no", "created"} => j # Head(jobs)
    BY <2>2
  <2>7. \A i, k \in DOMAIN queue' : queue'[i] = queue'[k] => i = k
    BY <2>2
  <2>8. QED BY <2>2, <2>4, <2>5, <2>6, <2>7 DEF SentOnce
<1>3. QED BY <1>1, <1>2

LEMMA NextKeepsSent ==
  ASSUME TypeOK, SentOnce, [Next]_vars
  PROVE  SentOnce'
<1>1. queue \in Seq(Jobs) /\ handlers \in SUBSET Workers
  BY DEF TypeOK
<1>2. CASE UNCHANGED vars
  BY <1>2 DEF vars, SentOnce, Unrun
<1>3. ASSUME NEW w \in Workers, Register(w)
      PROVE  SentOnce'
  <2>1. handlers' \in SUBSET Workers /\ NextJob(queue, handlers') /\ UNCHANGED <<row, asked, told>>
    BY <1>1, <1>3 DEF Register
  <2>2. QED BY <1>1, <2>1, NextJobKeepsSent DEF SentOnce
<1>4. ASSUME NEW j \in Jobs, CreateSubmission(j)
      PROVE  SentOnce'
  <2>1. \A k \in Jobs : Unrun(k) => Unrun(k)'
    BY <1>4 DEF CreateSubmission, Unrun, TypeOK, RowType
  <2>2. QED BY <1>1, <1>4, <2>1 DEF CreateSubmission, SentOnce, TypeOK
<1>5. ASSUME NEW j \in Jobs, Enqueue(j)
      PROVE  SentOnce'
  <2> DEFINE jobs == Append(queue, j)
  <2>1. /\ jobs \in Seq(Jobs) /\ DOMAIN jobs = 1..(Len(queue) + 1)
        /\ jobs[Len(queue) + 1] = j /\ \A i \in DOMAIN queue : jobs[i] = queue[i]
        /\ DOMAIN queue = 1..Len(queue)
    BY <1>1
  <2>2. asked[j] = "created" /\ asked'[j] = "queued" /\ \A k \in Jobs \ {j} : asked'[k] = asked[k]
    BY <1>5 DEF Enqueue, TypeOK
  <2>3. Unrun(j) /\ \A i \in DOMAIN queue : queue[i] # j
    BY <2>2 DEF SentOnce
  <2>4. \A i, k \in DOMAIN jobs : jobs[i] = jobs[k] => i = k
    BY <2>1, <2>3 DEF SentOnce
  <2>5. \A i \in DOMAIN jobs : asked'[jobs[i]] = "queued" /\ Unrun(jobs[i])
    <3>1. ASSUME NEW i \in DOMAIN queue
          PROVE  queue[i] \in Jobs \ {j} /\ asked[queue[i]] = "queued" /\ Unrun(queue[i])
      BY <1>1, <2>3 DEF SentOnce
    <3>2. QED BY <2>1, <2>2, <2>3, <3>1
  <2>6. \A k \in Jobs : asked'[k] \in {"no", "created"} => Unrun(k)
    BY <2>2 DEF SentOnce
  <2>7. NextJob(jobs, handlers) /\ UNCHANGED <<row, told>>
    BY <1>5 DEF Enqueue
  <2> HIDE DEF jobs
  <2>8. QED BY <1>1, <2>1, <2>4, <2>5, <2>6, <2>7, NextJobKeepsSent
<1>6. ASSUME NEW j \in Jobs, NEW w \in Workers, Step(j, w)
      PROVE  SentOnce'
  <2>1. ~Unrun(j)
    BY <1>6 DEF Step, Read, SetRunning, Compiled, NotCompiled, Timeout, ChildCloses, Save,
       Publish, Throws, Failed, PublishFailure, At, Unrun
  <2>2. \A k \in Jobs \ {j} : runs'[k] = runs[k] /\ told'[k] = told[k] /\ row'[k] = row[k]
    BY <1>6 DEF Step, Read, SetRunning, Compiled, NotCompiled, Timeout, ChildCloses, Save,
       Publish, Throws, Failed, PublishFailure, Goes, Tell, TypeOK
  <2>3. ASSUME NEW k \in Jobs, Unrun(k)
        PROVE  Unrun(k)'
    BY <2>1, <2>2, <2>3 DEF Unrun
  <2>4. UNCHANGED <<queue, asked>>
    BY <1>6 DEF Step
  <2>5. QED BY <1>1, <2>3, <2>4 DEF SentOnce
<1>7. CASE Crash
  <2>1. queue' = <<>> /\ UNCHANGED <<row, told>>
    BY <1>7 DEF Crash
  <2>2. ASSUME NEW j \in Jobs, asked'[j] \in {"no", "created"}
        PROVE  Unrun(j)'
    <3>1. asked[j] = "no"
      BY <1>7, <2>2 DEF Crash
    <3>2. Unrun(j)
      BY <3>1 DEF SentOnce
    <3>3. QED BY <1>7, <3>2 DEF Crash, Unrun, Ended
  <2>3. QED BY <2>1, <2>2 DEF SentOnce
<1>8. QED BY <1>2, <1>3, <1>4, <1>5, <1>6, <1>7 DEF Next

(* The verdict of a run that is about to be saved is one of the engine's. *)
LEMMA NextKeepsToldOnce ==
  ASSUME TypeOK, RunsJudged, SentOnce, ToldOnce, [Next]_vars
  PROVE  ToldOnce'
<1> SUFFICES ASSUME NEW p \in Jobs, Alone(p)'
             PROVE  Held(p)'
  BY DEF ToldOnce
<1>1. row[p] \in RowType /\ told[p] \in Seq(Told)
  BY DEF TypeOK, Told
<1>2. ASSUME UNCHANGED <<row, told>>, RunBy(p)' = RunBy(p),
             \A w \in RunBy(p) :
               \/ runs'[p][w] = runs[p][w]
               \/ /\ runs'[p][w].at \notin NotYet
                  /\ runs[p][w].at # "unsaved"
      PROVE  Held(p)'
  <2>1. Alone(p) /\ Held(p)
    BY <1>2 DEF Alone, ToldOnce
  <2>2. (\E w \in Workers : At(p, w, "unsaved")) => (\E w \in Workers : At(p, w, "unsaved"))'
    BY <1>2 DEF RunBy, At
  <2>3. told[p] # <<>> => Agrees(p)'
    BY <1>2, <2>1, <2>2 DEF Held, Agrees
  <2>4. ASSUME NEW w \in RunBy(p)
        PROVE  /\ runs'[p][w].at \in NotYet => told'[p] = <<>>
               /\ runs'[p][w].at \in Unstored => row'[p].status # "COMPLETED"
               /\ At(p, w, "saved")' =>
                    row'[p].status = "COMPLETED" /\ row'[p].verdict = runs'[p][w].verdict
    BY <1>2, <2>1 DEF Held, At, Unstored, NotYet
  <2>5. QED BY <1>2, <2>3, <2>4 DEF Held
<1>3. CASE UNCHANGED vars
  BY <1>2, <1>3 DEF vars, RunBy, At
<1>4. ASSUME NEW jobs \in Seq(Jobs), NEW S \in SUBSET Workers, NextJob(jobs, S),
             UNCHANGED <<row, told>>, \A i \in DOMAIN jobs : Unrun(jobs[i])
      PROVE  Held(p)'
  <2>1. CASE runs'[p] = runs[p]
    BY <1>2, <1>4, <2>1 DEF RunBy, At
  <2>2. CASE runs'[p] # runs[p]
    <3>1. jobs # <<>> /\ Head(jobs) = p
      BY <1>4, <2>2 DEF NextJob, TypeOK
    <3>2. Unrun(p)
      BY <1>4, <3>1
    <3>3. \A w \in Workers : runs'[p][w].at \in {"none", "reading"}
      <4>1. runs' = [runs EXCEPT ![p] = [w \in Workers |-> IF w \in S THEN Starts ELSE runs[p][w]]]
        BY <1>4, <2>2, <3>1 DEF NextJob, TypeOK
      <4>2. Starts.at = "reading"
        BY DEF Starts, NoRun
      <4>3. QED BY <3>2, <4>1, <4>2 DEF Unrun, TypeOK
    <3>4. QED BY <1>4, <3>2, <3>3 DEF Unrun, Held, RunBy, At
  <2>3. QED BY <2>1, <2>2
<1>5. ASSUME NEW j \in Jobs, CreateSubmission(j)
      PROVE  Held(p)'
  <2>1. CASE p # j
    <3>1. row'[p] = row[p] /\ UNCHANGED <<runs, told>>
      BY <1>5, <2>1 DEF CreateSubmission, TypeOK
    <3>2. Alone(p)
      BY <3>1 DEF Alone, RunBy, At
    <3>3. QED BY <3>1, <3>2 DEF ToldOnce, Held, Agrees, RunBy, At
  <2>2. CASE p = j
    <3>1. Unrun(p)
      BY <1>5, <2>2 DEF CreateSubmission, SentOnce
    <3>2. UNCHANGED <<runs, told>>
      BY <1>5 DEF CreateSubmission
    <3>3. QED BY <3>1, <3>2 DEF Held, Unrun, RunBy, At
  <2>3. QED BY <2>1, <2>2
<1>6. CASE Crash
  <2>1. UNCHANGED <<row, told>>
    BY <1>6 DEF Crash
  <2>2. \A w \in Workers :
          runs'[p][w] = IF runs[p][w].at \in Ended THEN runs[p][w] ELSE Died
    BY <1>6 DEF Crash
  <2>3. RunBy(p)' = RunBy(p)
    BY <2>2 DEF RunBy, At, NoRun, Died, Ended
  <2>4. Died.at \notin NotYet
    BY DEF NoRun, Died, NotYet
  <2>5. QED BY <1>2, <2>1, <2>2, <2>3, <2>4 DEF RunBy, Ended
<1>7. ASSUME NEW j \in Jobs, NEW w \in Workers, Step(j, w)
      PROVE  Held(p)'
  <2> DEFINE run == runs[j][w]
             ran == runs'[j][w]
  <2>1. run \in RunType /\ Judged(j, w) /\ row[j] \in RowType /\ told[j] \in Seq(Told)
    BY DEF TypeOK, RunsJudged, Told
  <2>2. \A k \in Jobs, v \in Workers : <<k, v>> # <<j, w>> => runs'[k][v] = runs[k][v]
    BY <1>7 DEF Step, Read, SetRunning, Compiled, NotCompiled, Timeout, ChildCloses,
       Save, Publish, Throws, Failed, PublishFailure, Goes, TypeOK
  <2>3. CASE p # j
    <3>1. runs'[p] = runs[p] /\ told'[p] = told[p] /\ row'[p] = row[p]
      BY <1>7, <2>3 DEF Step, Read, SetRunning, Compiled, NotCompiled, Timeout, ChildCloses,
         Save, Publish, Throws, Failed, PublishFailure, Goes, Tell, TypeOK
    <3>2. Alone(p)
      BY <3>1 DEF Alone, RunBy, At
    <3>3. QED BY <3>1, <3>2 DEF ToldOnce, Held, Agrees, RunBy, At
  <2>4. CASE p = j
    <3>1. run.at # "none" /\ ran.at # "none"
      <4>1. run.at # "none"
        BY <1>7 DEF Step, Read, SetRunning, Compiled, NotCompiled, Timeout, ChildCloses,
           Save, Publish, Throws, Failed, PublishFailure, At
      <4>2. CASE \/ Read(j, w) \/ SetRunning(j, w) \/ Throws(j, w) \/ Failed(j, w)
                 \/ Save(j, w) \/ Publish(j, w) \/ PublishFailure(j, w)
        <5>1. PICK await \in Awaits \ {"none"} : Goes(j, w, await)
          BY <4>2 DEF Read, SetRunning, Throws, Failed, Save, Publish, PublishFailure, Awaits
        <5>2. QED BY <2>1, <4>1, <5>1 DEF Goes, RunType, TypeOK
      <4>3. ASSUME Compiled(j, w) \/ NotCompiled(j, w) \/ Timeout(j, w)
            PROVE  ran.at # "none"
        <5>1. CASE Compiled(j, w)
          BY <2>1, <5>1 DEF Compiled, RunType, TypeOK
        <5>2. CASE NotCompiled(j, w)
          BY <2>1, <5>2 DEF NotCompiled, RunType, TypeOK
        <5>3. CASE Timeout(j, w)
          BY <2>1, <4>1, <5>3 DEF Timeout, RunType, TypeOK
        <5>4. QED BY <4>3, <5>1, <5>2, <5>3
      <4>4. ASSUME NEW output, ChildCloses(j, w, output)
            PROVE  ran.at # "none"
        BY <2>1, <4>1, <4>4 DEF ChildCloses, RunType, TypeOK
      <4>5. ran.at # "none"
        BY <1>7, <4>2, <4>3, <4>4 DEF Step
      <4>6. QED BY <4>1, <4>5
    <3>2. RunBy(p) = RunBy(p)' /\ RunBy(p) = {w}
      BY <2>2, <2>4, <3>1 DEF RunBy, At, Alone
    <3>3. Held(p)
      BY <3>2 DEF ToldOnce, Alone
    <3>4. run.at \in NotYet => told[j] = <<>>
      BY <2>4, <3>2, <3>3 DEF Held
    <3>5. ASSUME run.at \in NotYet, UNCHANGED told,
                 ran.at \in Unstored => row'[j].status # "COMPLETED",
                 ran.at = "saved" => row'[j].status = "COMPLETED" /\ row'[j].verdict = ran.verdict
          PROVE  Held(p)'
      BY <2>4, <3>2, <3>4, <3>5 DEF Held, At
    <3>6. run.at \in Unstored => row[j].status # "COMPLETED"
      BY <2>4, <3>2, <3>3 DEF Held
    <3>7. ASSUME UNCHANGED <<row, told>>, run.at \in Unstored, ran.at # "saved"
          PROVE  Held(p)'
      BY <3>5, <3>6, <3>7 DEF Unstored
    <3>8. ASSUME NEW await, Goes(j, w, await)
          PROVE  ran.at = await /\ ran.verdict = run.verdict
      BY <2>1, <3>8 DEF Goes, RunType, TypeOK
    <3>9. CASE Read(j, w)
      BY <3>7, <3>8, <3>9 DEF Read, At, NotYet, Unstored
    <3>10. CASE SetRunning(j, w)
      <4>1. row'[j].status = "RUNNING"
        BY <2>1, <3>10 DEF SetRunning, RowType, TypeOK
      <4>2. run.at \in NotYet /\ ran.at = "compiling" /\ UNCHANGED told
        BY <3>8, <3>10 DEF SetRunning, At, NotYet
      <4>3. QED BY <3>5, <4>1, <4>2
    <3>11. CASE \/ Compiled(j, w) \/ NotCompiled(j, w) \/ Timeout(j, w)
                \/ \E output \in {"ACCEPTED", "WRONG_ANSWER"} : ChildCloses(j, w, output)
      <4>1. run.at \in {"compiling", "testing"} /\ UNCHANGED <<row, told>>
        BY <3>11 DEF Compiled, NotCompiled, Timeout, ChildCloses, At
      <4>2. ran.at # "saved"
        <5>1. CASE Compiled(j, w)
          BY <2>1, <5>1 DEF Compiled, RunType, TypeOK
        <5>2. CASE NotCompiled(j, w)
          BY <2>1, <5>2 DEF NotCompiled, RunType, TypeOK
        <5>3. CASE Timeout(j, w)
          BY <2>1, <4>1, <5>3 DEF Timeout, RunType, TypeOK
        <5>4. ASSUME NEW output, ChildCloses(j, w, output)
              PROVE  ran.at # "saved"
          BY <2>1, <4>1, <5>4 DEF ChildCloses, RunType, TypeOK
        <5>5. QED BY <3>11, <5>1, <5>2, <5>3, <5>4
      <4>3. QED BY <3>7, <4>1, <4>2 DEF NotYet, Unstored
    <3>12. CASE Throws(j, w)
      <4>1. CASE At(j, w, "reading")
        <5>1. ran.at \in {"failing", "failingUnread"}
          BY <3>8, <3>12 DEF Throws
        <5>2. QED BY <3>7, <3>12, <4>1, <5>1 DEF Throws, At, NotYet, Unstored
      <4>2. CASE ~At(j, w, "reading")
        <5>1. ran.at = "failing" /\ run.at \in NotYet /\ UNCHANGED told
          BY <3>8, <3>12, <4>2 DEF Throws, NotYet
        <5>2. QED BY <3>5, <5>1 DEF Unstored
      <4>3. QED BY <4>1, <4>2
    <3>13. CASE Save(j, w)
      <4>1. run.at \in NotYet /\ ran.at = "saved" /\ ran.verdict = run.verdict /\ UNCHANGED told
        BY <3>8, <3>13 DEF Save, At, NotYet
      <4>2. row'[j].status = "COMPLETED" /\ row'[j].verdict = run.verdict
        BY <3>13 DEF Save, TypeOK
      <4>3. QED BY <3>5, <4>1, <4>2 DEF Unstored
    <3>14. CASE Publish(j, w)
      <4>1. run.at = "saved" /\ ran.at = "over" /\ told[j] = <<>> /\ UNCHANGED row
        BY <3>4, <3>8, <3>14 DEF Publish, At, NotYet
      <4>2. row[j].status = "COMPLETED" /\ row[j].verdict = run.verdict
        BY <2>4, <3>2, <3>3, <4>1 DEF Held, At
      <4>3. run.verdict \in Told /\ run.verdict # "INTERNAL_ERROR"
        BY <2>1, <4>1 DEF Judged, Judgements, RunType, Told
      <4>4. told'[j] = Append(told[j], run.verdict)
        BY <3>14 DEF Publish, Tell, TypeOK
      <4>5. Last(told'[j]) = run.verdict
        BY <2>1, <4>3, <4>4 DEF Last
      <4>6. Agrees(p)'
        BY <2>4, <4>1, <4>2, <4>3, <4>5 DEF Agrees
      <4>7. QED BY <2>4, <3>2, <4>1, <4>6 DEF Held, At, NotYet, Unstored
    <3>15. CASE Failed(j, w)
      <4>1. run.at \in {"failing", "failingUnread"} /\ UNCHANGED told
        BY <3>15 DEF Failed, At
      <4>2. \/ ran.at = "failed" /\ row'[j].status = "FAILED"
            \/ ran.at \in {"over", "unfailed", "unsaved"}
        BY <2>1, <3>8, <3>15 DEF Failed, RowType, TypeOK
      <4>3. QED BY <3>5, <4>1, <4>2 DEF NotYet, Unstored
    <3>16. CASE PublishFailure(j, w)
      <4>1. /\ UNCHANGED row /\ told[j] = <<>>
            /\ \/ run.at = "failed" /\ ran.at = "over"
               \/ run.at = "unfailed" /\ ran.at = "unsaved"
        BY <3>4, <3>8, <3>16 DEF PublishFailure, At, NotYet
      <4>2. told'[j] = Append(told[j], "INTERNAL_ERROR")
        BY <3>16 DEF PublishFailure, Tell, TypeOK
      <4>3. Last(told'[j]) = "INTERNAL_ERROR"
        BY <2>1, <4>1, <4>2 DEF Last
      <4>4. row[j].status # "COMPLETED" \/ (\E v \in Workers : At(j, v, "unsaved"))'
        BY <3>6, <4>1 DEF At, NotYet, Unstored
      <4>5. Agrees(p)'
        BY <2>4, <4>1, <4>3, <4>4 DEF Agrees
      <4>6. QED BY <2>4, <3>2, <4>1, <4>5 DEF Held, At, NotYet, Unstored
    <3>17. QED
      BY <1>7, <3>9, <3>10, <3>11, <3>12, <3>13, <3>14, <3>15, <3>16 DEF Step
  <2>5. QED BY <2>3, <2>4
<1>8. QED
  <2>1. /\ queue \in Seq(Jobs) /\ \A j \in Jobs : Append(queue, j) \in Seq(Jobs)
        /\ handlers \in SUBSET Workers /\ \A w \in Workers : handlers \cup {w} \in SUBSET Workers
    BY DEF TypeOK
  <2>2. \A i \in DOMAIN queue : Unrun(queue[i])
    BY DEF SentOnce
  <2>3. ASSUME NEW j \in Jobs, Enqueue(j), NEW i \in DOMAIN Append(queue, j)
        PROVE  Unrun(Append(queue, j)[i])
    <3>1. Unrun(j)
      BY <2>3 DEF Enqueue, SentOnce
    <3>2. QED BY <2>1, <2>2, <3>1
  <2>4. ASSUME NEW w \in Workers, Register(w)
        PROVE  /\ handlers' = handlers \cup {w} /\ NextJob(queue, handlers')
               /\ UNCHANGED <<row, told>>
    BY <2>4 DEF Register
  <2>5. ASSUME NEW j \in Jobs, Enqueue(j)
        PROVE  NextJob(Append(queue, j), handlers) /\ UNCHANGED <<row, told>>
    BY <2>5 DEF Enqueue
  <2>6. QED
    BY <1>3, <1>4, <1>5, <1>6, <1>7, <2>1, <2>2, <2>3, <2>4, <2>5 DEF Next

-----------------------------------------------------------------------------
(* The theorems. *)

IInv ==
  /\ TypeOK /\ RunsJudged /\ SentOnce /\ ToldOnce
  /\ VerdictEarned /\ BacklogStays

LEMMA InitIInv == Init => IInv
<1> SUFFICES ASSUME Init PROVE IInv
  OBVIOUS
<1>1. TypeOK
  BY InitTypeOK
<1>2. \A j \in Jobs : /\ told[j] = <<>> /\ row[j].status = "none" /\ row[j].verdict = "none"
                      /\ \A w \in Workers : /\ runs[j][w].at = "none"
                                            /\ runs[j][w].results = <<>> /\ ~runs[j][w].late
                                            /\ runs[j][w].overtime = {}
  BY DEF Init, NoRow, NoRun
<1>3. RunsJudged /\ ToldOnce
  BY <1>2 DEF RunsJudged, Judged, ToldOnce, Held, RunBy, At
<1>4. SentOnce
  BY <1>2 DEF Init, SentOnce, Unrun
<1>5. VerdictEarned /\ BacklogStays
  BY <1>2 DEF Init, VerdictEarned, Judgements, BacklogStays
<1>6. QED BY <1>1, <1>3, <1>4, <1>5 DEF IInv

LEMMA NextIInv == IInv /\ [Next]_vars => IInv'
  BY NextKeepsTypeOK, NextKeepsJudged, NextKeepsSent, NextKeepsToldOnce, NextKeepsEarned,
     NextKeepsBacklog DEF IInv

(* A job is sent once, a run knows its results, and what was told of a job *)
(* that one worker runs is stored: the inductive invariant.                *)
THEOREM SubmissionsInvariance == Spec => []IInv
  BY InitIInv, NextIInv, PTL DEF Spec

(* Rows, runs and the queue have their types. *)
THEOREM SubmissionsTyped == Spec => []TypeOK
<1>1. IInv => TypeOK
  BY DEF IInv
<1>2. QED BY <1>1, SubmissionsInvariance, PTL

(* The stored verdict of any number of tests is that of the first test     *)
(* that was not accepted, also when several workers ran the job.           *)
THEOREM VerdictsAreEarned == Spec => []VerdictEarned
<1>1. IInv => VerdictEarned
  BY DEF IInv
<1>2. QED BY <1>1, SubmissionsInvariance, PTL

(* What is published of a job that one worker runs is what its row says,   *)
(* whichever statement failed.                                             *)
THEOREM ToldAsStored == Spec => []ToldIsStored
<1>1. IInv => ToldIsStored
  BY DEF IInv, ToldOnce, Alone, Held, Agrees, ToldIsStored
<1>2. QED BY <1>1, SubmissionsInvariance, PTL

(* The queue of a process with a worker keeps the length at which its last *)
(* registration left it.                                                   *)
THEOREM BacklogsStay == Spec => []BacklogStays
<1>1. IInv => BacklogStays
  BY DEF IInv
<1>2. QED BY <1>1, SubmissionsInvariance, PTL
=============================================================================
