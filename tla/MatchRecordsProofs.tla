-------------------------- MODULE MatchRecordsProofs --------------------------
(***************************************************************************)
(* For any matches, players, decay runs and crashes: what the database     *)
(* says of matches and ratings is true, however the listeners overtake     *)
(* each other.                                                             *)
(***************************************************************************)
EXTENDS MatchRecords, FiniteSetTheorems, TLAPS

-----------------------------------------------------------------------------
(* Types. *)

LEMMA UnratedType == Unrated \in Changes
  BY DEF Unrated, Changes

LEMMA InitTypeOK == Init => TypeOK
<1> SUFFICES ASSUME Init PROVE TypeOK
  OBVIOUS
<1> USE DEF Init
<1>1. match \in [Matches -> MatchType]
  BY DEF MatchType
<1>2. row \in [Matches -> RowType]
  BY DEF RowType, Results
<1>3. /\ timeline \in [Matches -> Seq(Events)]
      /\ history \in [Users -> Seq(Changes)]
  OBVIOUS
<1>4. /\ seen \in [Tasks -> [Users -> Changes]]
      /\ rating \in [Users -> Changes]
  BY UnratedType
<1>5. at \in [Tasks -> Awaits] /\ due = {}
  BY DEF Awaits
<1>6. decays \in 0..MaxDecays /\ crashes \in 0..MaxCrashes
  BY RecordsAssumption
<1>7. creating \in [Matches -> {"none", "creating", "logging", "over"}]
  OBVIOUS
<1>8. QED
  BY <1>1, <1>2, <1>3, <1>4, <1>5, <1>6, <1>7 DEF TypeOK

LEMMA BaseType ==
  ASSUME NEW c \in Changes
  PROVE  Base(c) \in Changes
  BY DEF Base, Changes

(* What a commit or a decay writes. *)
LEMMA ScoredType ==
  ASSUME NEW rs \in [Users -> Changes], NEW hs \in [Users -> Seq(Changes)],
         NEW old \in [Users -> Changes], NEW S, NEW t \in Tasks
  PROVE  /\ Scored(rs, old, S, t) \in [Users -> Changes]
         /\ Recorded(hs, old, S, t) \in [Users -> Seq(Changes)]
<1>1. ASSUME NEW u \in Users
      PROVE  Append(Base(old[u]), t) \in Changes
  <2>1. Base(old[u]) \in Changes
    BY BaseType
  <2>2. QED BY <2>1 DEF Changes
<1>2. QED BY <1>1 DEF Scored, Recorded

LEMMA LoggedType ==
  ASSUME TypeOK, NEW m \in Matches, NEW e \in Events, Logged(m, e)
  PROVE  timeline' \in [Matches -> Seq(Events)]
<1>1. CASE UNCHANGED timeline
  BY <1>1 DEF TypeOK
<1>2. CASE timeline' = [timeline EXCEPT ![m] = Append(@, e)]
  <2>1. Append(timeline[m], e) \in Seq(Events)
    BY DEF TypeOK
  <2>2. QED BY <1>2, <2>1 DEF TypeOK
<1>3. QED BY <1>1, <1>2 DEF Logged

(* A listener, or the job, goes to an await of its own. *)
LEMMA WentType ==
  ASSUME TypeOK, NEW t \in Tasks, NEW await \in Awaits, Went(t, await),
         due' # {} => due # {}, due' # {} /\ t = Decay => await = "decaying"
  PROVE  at' \in [Tasks -> Awaits] /\ (due' # {} => at'[Decay] = "decaying")
  BY DEF TypeOK, Went, Tasks

LEMMA ListenerKeepsTypeOK ==
  ASSUME TypeOK, NEW m \in Matches, Listener(m)
  PROVE  TypeOK'
<1> m \in Tasks /\ Decay \in Tasks /\ m # Decay
  BY RecordsAssumption DEF Tasks
<1> row[m] \in RowType /\ match[m] \in MatchType
  BY DEF TypeOK
<1> USE DEF memory, ratings, job, stored
<1>1. CASE CreateRow(m)
  <2>1. row' \in [Matches -> RowType]
    BY <1>1 DEF CreateRow, TypeOK, RowType
  <2>2. QED BY <1>1, <2>1 DEF CreateRow, TypeOK
<1>2. CASE LogStarted(m)
  <2>1. timeline' \in [Matches -> Seq(Events)]
    BY <1>2, LoggedType DEF LogStarted, Events
  <2>2. QED BY <1>2, <2>1 DEF LogStarted, TypeOK
<1>3. CASE StoreFinished(m)
  <2>1. row' \in [Matches -> RowType]
    BY <1>3 DEF StoreFinished, TypeOK, RowType, MatchType
  <2>2. at' \in [Tasks -> Awaits] /\ (due' # {} => at'[Decay] = "decaying")
    BY <1>3, WentType DEF StoreFinished, Awaits
  <2>3. QED BY <1>3, <2>1, <2>2 DEF StoreFinished, TypeOK
<1>4. CASE LogFinished(m)
  <2>1. timeline' \in [Matches -> Seq(Events)]
    BY <1>4, LoggedType DEF LogFinished, Events
  <2>2. at' \in [Tasks -> Awaits] /\ (due' # {} => at'[Decay] = "decaying")
    BY <1>4, WentType DEF LogFinished, Awaits
  <2>3. QED BY <1>4, <2>1, <2>2 DEF LogFinished, TypeOK
<1>5. CASE FindSeason(m)
  BY <1>5 DEF FindSeason, Went, Awaits, TypeOK
<1>6. CASE CreateSeason(m)
  BY <1>6 DEF CreateSeason, Went, Awaits, TypeOK
<1>7. CASE ReadRatings(m)
  <2>1. seen' \in [Tasks -> [Users -> Changes]]
    BY <1>7, UnratedType DEF ReadRatings, TypeOK
  <2>2. at' \in [Tasks -> Awaits] /\ (due' # {} => at'[Decay] = "decaying")
    BY <1>7, WentType DEF ReadRatings, Awaits
  <2>3. QED BY <1>7, <2>1, <2>2 DEF ReadRatings, TypeOK
<1>8. CASE CommitRatings(m)
  <2>1. CASE Collides(m)
    BY <1>8, <2>1 DEF CommitRatings, Went, Awaits, TypeOK
  <2>2. CASE ~Collides(m)
    <3>1. at' \in [Tasks -> Awaits] /\ (due' # {} => at'[Decay] = "decaying")
      BY <1>8, <2>2 DEF CommitRatings, Went, Awaits, TypeOK
    <3>2. /\ Scored(rating, seen[m], Players(m), m) \in [Users -> Changes]
          /\ Recorded(history, seen[m], Players(m), m) \in [Users -> Seq(Changes)]
      <4>1. /\ seen[m] \in [Users -> Changes]
            /\ rating \in [Users -> Changes] /\ history \in [Users -> Seq(Changes)]
        BY DEF TypeOK
      <4>2. QED BY <4>1, ScoredType
    <3>3. \A u \in Users : Result(m, u) \in Results
      BY DEF Result, Results
    <3>4. [u \in Users |-> IF u \in Players(m) THEN Result(m, u) ELSE "none"]
            \in [Users -> Results]
      BY <3>3 DEF Results
    <3>5. row' \in [Matches -> RowType]
      <4>1. row' = [row EXCEPT ![m].result =
                      [u \in Users |-> IF u \in Players(m) THEN Result(m, u) ELSE "none"]]
        BY <1>8, <2>2 DEF CommitRatings
      <4>2. QED BY <4>1, <3>4 DEF RowType, TypeOK
    <3>6. QED BY <1>8, <2>2, <3>1, <3>2, <3>5 DEF CommitRatings, TypeOK
  <2>3. QED BY <2>1, <2>2
<1>9. CASE FindRow(m)
  BY <1>9 DEF FindRow, Went, Awaits, TypeOK
<1>10. CASE StoreAborted(m)
  <2>1. [u \in Users |-> IF u \in Players(m) THEN "ABORTED" ELSE "none"] \in [Users -> Results]
    BY DEF Results
  <2>2. row' \in [Matches -> RowType]
    BY <1>10, <2>1 DEF StoreAborted, RowType, TypeOK
  <2>3. at' \in [Tasks -> Awaits] /\ (due' # {} => at'[Decay] = "decaying")
    BY <1>10, WentType DEF StoreAborted, Awaits
  <2>4. QED BY <1>10, <2>2, <2>3 DEF StoreAborted, TypeOK
<1>11. CASE LogAborted(m)
  <2>1. timeline' \in [Matches -> Seq(Events)]
    BY <1>11, LoggedType DEF LogAborted, Events
  <2>2. at' \in [Tasks -> Awaits] /\ (due' # {} => at'[Decay] = "decaying")
    BY <1>11, WentType DEF LogAborted, Awaits
  <2>3. QED BY <1>11, <2>1, <2>2 DEF LogAborted, TypeOK
<1>12. QED
  BY <1>1, <1>2, <1>3, <1>4, <1>5, <1>6, <1>7, <1>8, <1>9, <1>10, <1>11 DEF Listener

LEMMA DecayKeepsTypeOK ==
  ASSUME TypeOK, DecayJob
  PROVE  TypeOK'
<1> USE DEF TypeOK, memory, ratings, job, stored, Tasks
<1>1. CASE DecayWakes
  BY <1>1, RecordsAssumption DEF DecayWakes, Went, Awaits
<1>2. CASE FindSeason(Decay)
  BY <1>2 DEF FindSeason, Went, Awaits
<1>3. CASE CreateSeason(Decay)
  BY <1>3 DEF CreateSeason, Went, Awaits
<1>4. ASSUME NEW users \in SUBSET Users, DecayReads(users)
      PROVE  TypeOK'
  BY <1>4 DEF DecayReads, Went, Awaits
<1>5. ASSUME NEW u \in Users, DecayWrites(u)
      PROVE  TypeOK'
  <2>1. rating' \in [Users -> Changes] /\ history' \in [Users -> Seq(Changes)]
    BY <1>5, ScoredType DEF DecayWrites
  <2>2. at' \in [Tasks -> Awaits] /\ (due' # {} => at'[Decay] = "decaying")
    BY <1>5 DEF DecayWrites, Went, Awaits
  <2>3. QED BY <1>5, <2>1, <2>2 DEF DecayWrites
<1>6. QED BY <1>1, <1>2, <1>3, <1>4, <1>5 DEF DecayJob

LEMMA NextKeepsTypeOK ==
  ASSUME TypeOK, [Next]_vars
  PROVE  TypeOK'
<1> USE DEF memory, ratings, job, stored
<1>1. CASE UNCHANGED vars
  BY <1>1 DEF TypeOK, vars
<1>2. ASSUME NEW m \in Matches, Start(m)
      PROVE  TypeOK'
  <2>1. match' \in [Matches -> MatchType]
    BY <1>2 DEF Start, MatchType, TypeOK
  <2>2. QED BY <1>2, <2>1 DEF Start, TypeOK
<1>3. ASSUME NEW m \in Matches, NEW u \in Users, Finish(m, u)
      PROVE  TypeOK'
  <2>1. match' \in [Matches -> MatchType]
    BY <1>3 DEF Finish, MatchType, TypeOK
  <2>2. QED BY <1>3, <2>1, RecordsAssumption DEF Finish, Went, Awaits, Tasks, TypeOK
<1>4. ASSUME NEW m \in Matches, Abort(m)
      PROVE  TypeOK'
  <2>1. match' \in [Matches -> MatchType]
    BY <1>4 DEF Abort, MatchType, TypeOK
  <2>2. QED BY <1>4, <2>1, RecordsAssumption DEF Abort, Went, Awaits, Tasks, TypeOK
<1>5. CASE Throws
  <2>1. ASSUME NEW m \in Matches, creating' = [creating EXCEPT ![m] = "over"],
               UNCHANGED <<match, at, seen, stored, ratings, job>>
        PROVE  TypeOK'
    BY <2>1 DEF TypeOK
  <2>2. ASSUME NEW m \in Matches, Went(m, "failed"),
               UNCHANGED <<memory, seen, stored, ratings, job>>
        PROVE  TypeOK'
    BY <2>2, RecordsAssumption DEF TypeOK, Went, Tasks, Awaits
  <2>3. ASSUME Went(Decay, "none"), due' = {},
               UNCHANGED <<memory, seen, stored, ratings, decays, crashes>>
        PROVE  TypeOK'
    BY <2>3 DEF TypeOK, Went, Awaits
  <2>4. QED BY <1>5, <2>1, <2>2, <2>3 DEF Throws
<1>6. CASE Crash
  <2>1. match' \in [Matches -> MatchType]
    BY <1>6 DEF Crash, MatchType, TypeOK
  <2>2. at' \in [Tasks -> Awaits]
    BY <1>6 DEF Crash, Awaits
  <2>3. creating' \in [Matches -> {"none", "creating", "logging", "over"}]
    BY <1>6 DEF Crash
  <2>4. crashes' \in 0..MaxCrashes
    BY <1>6, RecordsAssumption DEF Crash, TypeOK
  <2>5. due' = {} /\ cached' = FALSE /\ UNCHANGED <<stored, seen, season, rating, history, decays>>
    BY <1>6 DEF Crash
  <2>6. QED BY <2>1, <2>2, <2>3, <2>4, <2>5 DEF TypeOK
<1>7. QED
  BY <1>1, <1>2, <1>3, <1>4, <1>5, <1>6, ListenerKeepsTypeOK, DecayKeepsTypeOK DEF Next

-----------------------------------------------------------------------------
(* The stages of the listeners, and what each knows of the match and its   *)
(* row: the start of the argument, since every await lets others run.      *)

Open(m) == row[m].status \in {"none", "ACTIVE"}
Rating == {"loggingFinished", "season", "seasonCreating", "rating", "committing"}
NoResults(m) == \A u \in Users : row[m].result[u] = "none"

Stage(m) ==
  /\ match[m].status \in {"COUNTDOWN", "ACTIVE"} <=> at[m] = "none"
  /\ match[m].status = "COUNTDOWN" => creating[m] = "none"
  /\ match[m].status # "FINISHED" => match[m].winner = NoUser
  /\ creating[m] \in {"none", "creating"} => row[m].status = "none"
  /\ Open(m) => row[m].winner = NoUser /\ NoResults(m)
  /\ at[m] = "none" => Open(m)
  /\ at[m] = "finishing" => match[m].status = "FINISHED" /\ Open(m)
  /\ at[m] \in Rating =>
       match[m].status = "FINISHED" /\ row[m].status = "FINISHED" /\ NoResults(m)
  /\ at[m] = "finding" => match[m].status = "ABORTED" /\ Open(m)
  /\ at[m] = "aborting" => match[m].status = "ABORTED" /\ row[m].status = "ACTIVE"
  /\ at[m] = "loggingAborted" => match[m].status = "ABORTED" /\ row[m].status = "ABORTED"

Stages == \A m \in Matches : Stage(m)

LEMMA InitStages == Init => Stages
  BY RecordsAssumption DEF Init, Stages, Stage, Open, NoResults, Rating, Tasks

(* A step leaves the stage of a match alone that it does not name. *)
LEMMA SameStage ==
  ASSUME NEW m \in Matches, Stage(m),
         match'[m] = match[m], row'[m] = row[m],
         creating'[m] = creating[m], at'[m] = at[m]
  PROVE  Stage(m)'
  BY DEF Stage, Open, NoResults

LEMMA StartKeepsStages ==
  ASSUME TypeOK, Stages, NEW m \in Matches, Start(m)
  PROVE  Stages'
  BY DEF TypeOK, Stages, Stage, Start, stored, Open, NoResults, MatchType, Rating

LEMMA FinishKeepsStages ==
  ASSUME TypeOK, Stages, NEW m \in Matches, NEW u \in Users, Finish(m, u)
  PROVE  Stages'
  BY RecordsAssumption
  DEF TypeOK, Stages, Stage, Finish, Went, stored, Open, NoResults, MatchType, Rating, Tasks

LEMMA AbortKeepsStages ==
  ASSUME TypeOK, Stages, NEW m \in Matches, Abort(m)
  PROVE  Stages'
  BY RecordsAssumption
  DEF TypeOK, Stages, Stage, Abort, Went, stored, Open, NoResults, MatchType, Rating, Tasks

LEMMA ListenerKeepsStages ==
  ASSUME TypeOK, Stages, NEW m \in Matches, Listener(m)
  PROVE  Stages'
<1> SUFFICES ASSUME NEW p \in Matches PROVE Stage(p)'
  BY DEF Stages
<1> m \in Tasks /\ p \in Tasks
  BY DEF Tasks
<1> Stage(p) /\ row[p] \in RowType /\ match[p] \in MatchType
  BY DEF Stages, TypeOK
<1> USE DEF memory, ratings, job, stored, Went
<1>1. CASE CreateRow(m)
  BY <1>1 DEF CreateRow, TypeOK, RowType, Stage, Open, NoResults, Rating
<1>2. CASE LogStarted(m)
  BY <1>2 DEF LogStarted, TypeOK, Stage, Open, NoResults, Rating
<1>3. CASE StoreFinished(m)
  BY <1>3 DEF StoreFinished, RowFound, TypeOK, RowType, Stage, Open, NoResults, Rating
<1>4. CASE LogFinished(m)
  BY <1>4 DEF LogFinished, TypeOK, Stage, Open, NoResults, Rating
<1>5. CASE FindSeason(m)
  BY <1>5 DEF FindSeason, TypeOK, Stage, Open, NoResults, Rating
<1>6. CASE CreateSeason(m)
  BY <1>6 DEF CreateSeason, TypeOK, Stage, Open, NoResults, Rating
<1>7. CASE ReadRatings(m)
  BY <1>7 DEF ReadRatings, TypeOK, Stage, Open, NoResults, Rating
<1>8. CASE CommitRatings(m)
  <2>1. \/ at' = [at EXCEPT ![m] = "dropped"] /\ row' = row
        \/ /\ at' = [at EXCEPT ![m] = "over"]
           /\ row'[m].status = row[m].status
           /\ \A q \in Matches \ {m} : row'[q] = row[q]
    BY <1>8 DEF CommitRatings, TypeOK, RowType
  <2>2. QED BY <1>8, <2>1 DEF CommitRatings, TypeOK, Stage, Open, NoResults, Rating
<1>9. CASE FindRow(m)
  BY <1>9 DEF FindRow, RowFound, TypeOK, RowType, Stage, Open, NoResults, Rating
<1>10. CASE StoreAborted(m)
  BY <1>10 DEF StoreAborted, TypeOK, RowType, Stage, Open, NoResults, Rating
<1>11. CASE LogAborted(m)
  BY <1>11 DEF LogAborted, TypeOK, Stage, Open, NoResults, Rating
<1>12. QED
  BY <1>1, <1>2, <1>3, <1>4, <1>5, <1>6, <1>7, <1>8, <1>9, <1>10, <1>11 DEF Listener

LEMMA NextKeepsStages ==
  ASSUME TypeOK, Stages, [Next]_vars
  PROVE  Stages'
<1>1. CASE UNCHANGED vars
  BY <1>1, SameStage DEF Stages, vars
<1>2. CASE DecayJob
  <2>1. \A p \in Matches : at'[p] = at[p]
    BY <1>2, RecordsAssumption
    DEF DecayJob, DecayWakes, FindSeason, CreateSeason, DecayReads, DecayWrites, Went,
        TypeOK, Tasks
  <2>2. UNCHANGED memory /\ UNCHANGED row
    BY <1>2
    DEF DecayJob, DecayWakes, FindSeason, CreateSeason, DecayReads, DecayWrites, stored
  <2>3. QED BY <2>1, <2>2, SameStage DEF Stages, memory
<1>3. CASE Throws
  <2>1. ASSUME NEW m \in Matches, creating[m] = "creating",
               creating' = [creating EXCEPT ![m] = "over"],
               UNCHANGED <<match, at, seen, stored, ratings, job>>
        PROVE  Stages'
    BY <2>1 DEF TypeOK, Stages, Stage, Open, NoResults, stored
  <2>2. ASSUME NEW m \in Matches, at[m] # "none", Went(m, "failed"),
               UNCHANGED <<memory, seen, stored, ratings, job>>
        PROVE  Stages'
    BY <2>2 DEF TypeOK, Stages, Stage, Open, NoResults, stored, memory, Went, Tasks, Rating
  <2>3. ASSUME Went(Decay, "none"),
               UNCHANGED <<memory, seen, stored, ratings, decays, crashes>>
        PROVE  Stages'
    BY <2>3, RecordsAssumption
    DEF TypeOK, Stages, Stage, Open, NoResults, stored, memory, Went, Tasks, Rating
  <2>4. QED BY <1>3, <2>1, <2>2, <2>3 DEF Throws
<1>4. CASE Crash
  <2> SUFFICES ASSUME NEW m \in Matches PROVE Stage(m)'
    BY DEF Stages
  <2>1. Stage(m) /\ match[m] \in MatchType /\ m # Decay /\ m \in Tasks /\ row' = row
    BY <1>4, RecordsAssumption DEF Stages, TypeOK, Tasks, Crash, stored
  <2>2. CASE Unstarted(m)
    BY <1>4, <2>1, <2>2, SameStage DEF Crash, Unstarted, Stage
  <2>3. CASE ~Unstarted(m)
    <3>1. at'[m] = "failed" /\ creating'[m] = "over"
      BY <1>4, <2>1, <2>3 DEF Crash
    <3>2. /\ match'[m].status \notin {"COUNTDOWN", "ACTIVE"} /\ match'[m].winner = match[m].winner
          /\ match'[m].status = "FINISHED" <=> match[m].status = "FINISHED"
      BY <1>4, <2>1, <2>3 DEF Crash, Unstarted, MatchType
    <3>3. QED BY <2>1, <3>1, <3>2 DEF Stage, Open, NoResults, Rating
  <2>4. QED BY <2>2, <2>3
<1>5. QED
  BY <1>1, <1>2, <1>3, <1>4, StartKeepsStages, FinishKeepsStages, AbortKeepsStages,
     ListenerKeepsStages DEF Next

-----------------------------------------------------------------------------
(* The rows. *)

LEMMA NextKeepsRowsTrue ==
  ASSUME TypeOK, Stages, RowsTrue, [Next]_vars
  PROVE  RowsTrue'
<1> SUFFICES ASSUME NEW p \in Matches
             PROVE  /\ row'[p].status \in {"FINISHED", "ABORTED"} =>
                         row'[p].status = match'[p].status /\ row'[p].winner = match'[p].winner
                    /\ \A u \in Users :
                         /\ row'[p].result[u] # "none" => u \in Players(p)
                         /\ row'[p].result[u] = "ABORTED" => row'[p].status = "ABORTED"
                         /\ row'[p].result[u] \in {"WON", "LOST", "DRAW"} => row'[p].status = "FINISHED"
  BY DEF RowsTrue
<1> Stage(p) /\ row[p] \in RowType /\ match[p] \in MatchType
  BY DEF Stages, TypeOK
<1> USE DEF memory, ratings, job, stored
<1>1. CASE row' = row
  <2>1. row[p].status \in {"FINISHED", "ABORTED"} => match'[p] = match[p]
    <3>1. row[p].status \in {"FINISHED", "ABORTED"} => match[p].status \in {"FINISHED", "ABORTED"}
      BY DEF RowsTrue
    <3>2. match[p].status \in {"FINISHED", "ABORTED"} => match'[p] = match[p]
      BY DEF Next, vars, TypeOK, Start, Finish, Abort, Listener, CreateRow, LogStarted,
         StoreFinished, LogFinished, FindSeason, CreateSeason, ReadRatings, CommitRatings,
         FindRow, StoreAborted, LogAborted, DecayJob, DecayWakes, DecayReads, DecayWrites,
         Throws, Crash
    <3>3. QED BY <3>1, <3>2
  <2>2. QED BY <1>1, <2>1 DEF RowsTrue
<1>2. ASSUME NEW m \in Matches, CreateRow(m)
      PROVE  /\ UNCHANGED match
             /\ m # p => row'[p] = row[p]
             /\ m = p => row'[p].status = "ACTIVE" /\ row'[p].result = row[p].result /\ NoResults(p)
  BY <1>2 DEF CreateRow, TypeOK, Stages, Stage, Open, RowType
<1>3. ASSUME NEW m \in Matches, StoreFinished(m)
      PROVE  /\ UNCHANGED match
             /\ m # p => row'[p] = row[p]
             /\ m = p => /\ match[p].status = "FINISHED"
                         /\ row'[p].status = "FINISHED" /\ row'[p].winner = match[p].winner
                         /\ row'[p].result = row[p].result /\ NoResults(p)
  BY <1>3 DEF StoreFinished, TypeOK, Stages, Stage, Open, RowType
<1>4. ASSUME NEW m \in Matches, CommitRatings(m), row' # row
      PROVE  /\ UNCHANGED match
             /\ m # p => row'[p] = row[p]
             /\ m = p => /\ row'[p].status = row[p].status /\ row'[p].winner = row[p].winner
                         /\ row[p].status = "FINISHED"
                         /\ \A u \in Users :
                              row'[p].result[u] = IF u \in Players(p) THEN Result(p, u) ELSE "none"
  BY <1>4 DEF CommitRatings, TypeOK, Stages, Stage, Rating, RowType
<1>5. ASSUME NEW m \in Matches, StoreAborted(m)
      PROVE  /\ UNCHANGED match
             /\ m # p => row'[p] = row[p]
             /\ m = p => /\ match[p].status = "ABORTED" /\ match[p].winner = NoUser
                         /\ row'[p].status = "ABORTED" /\ row'[p].winner = NoUser
                         /\ \A u \in Users :
                              row'[p].result[u] = IF u \in Players(p) THEN "ABORTED" ELSE "none"
  BY <1>5 DEF StoreAborted, TypeOK, Stages, Stage, Open, RowType
<1>6. CASE row' # row
  <2>1. PICK m \in Matches : CreateRow(m) \/ StoreFinished(m) \/ CommitRatings(m) \/ StoreAborted(m)
    BY <1>6 DEF Next, vars, Start, Finish, Abort, Listener, LogStarted, LogFinished,
       FindSeason, CreateSeason, ReadRatings, FindRow, LogAborted, DecayJob, DecayWakes,
       DecayReads, DecayWrites, Throws, Crash
  <2>2. CASE CreateRow(m)
    BY <1>2, <2>2 DEF RowsTrue, NoResults
  <2>3. CASE StoreFinished(m)
    BY <1>3, <2>3 DEF RowsTrue, NoResults
  <2>4. CASE CommitRatings(m)
    BY <1>4, <1>6, <2>4 DEF RowsTrue, Result
  <2>5. CASE StoreAborted(m)
    BY <1>5, <2>5 DEF RowsTrue
  <2>6. QED BY <2>1, <2>2, <2>3, <2>4, <2>5
<1>7. QED BY <1>1, <1>6

-----------------------------------------------------------------------------
(* The history. *)

LEMMA LastAppend ==
  ASSUME NEW S, NEW s \in Seq(S), NEW x \in S
  PROVE  Append(s, x) # <<>> /\ Last(Append(s, x)) = x
  BY DEF Last

(* What one write of ratings does to one user. *)
LEMMA WrittenTogether ==
  ASSUME TypeOK, NEW old \in [Users -> Changes], NEW S, NEW t \in Tasks, NEW u \in Users
  PROVE  /\ u \in S =>
              \E new \in Changes :
                /\ Scored(rating, old, S, t)[u] = new
                /\ Recorded(history, old, S, t)[u] = Append(history[u], new)
                /\ Last(new) = t
         /\ u \notin S =>
              /\ Scored(rating, old, S, t)[u] = rating[u]
              /\ Recorded(history, old, S, t)[u] = history[u]
<1>1. Base(old[u]) \in Seq(Tasks \cup {NoUser})
  BY BaseType DEF Changes
<1>2. Append(Base(old[u]), t) \in Changes /\ Last(Append(Base(old[u]), t)) = t
  BY <1>1, LastAppend DEF Changes
<1>3. QED BY <1>2 DEF Scored, Recorded

(* Only a commit and a decay write ratings. *)
LEMMA WhoWrites ==
  ASSUME TypeOK, [Next]_vars
  PROVE  \/ UNCHANGED <<rating, history>>
         \/ \E m \in Matches :
              /\ CommitRatings(m) /\ ~Collides(m)
              /\ rating' = Scored(rating, seen[m], Players(m), m)
              /\ history' = Recorded(history, seen[m], Players(m), m)
         \/ \E u \in Users :
              /\ DecayWrites(u)
              /\ rating' = Scored(rating, seen[Decay], {u}, Decay)
              /\ history' = Recorded(history, seen[Decay], {u}, Decay)
  BY DEF Next, vars, Start, Finish, Abort, Listener, CreateRow, LogStarted, StoreFinished,
     LogFinished, FindSeason, CreateSeason, ReadRatings, CommitRatings, FindRow, StoreAborted,
     LogAborted, DecayJob, DecayWakes, DecayReads, DecayWrites, Throws, Crash, ratings

LEMMA NextKeepsHistory ==
  ASSUME TypeOK, HistoryEndsInRating, [Next]_vars
  PROVE  HistoryEndsInRating'
<1>1. CASE UNCHANGED <<rating, history>>
  BY <1>1 DEF HistoryEndsInRating
<1>2. ASSUME NEW t \in Tasks, NEW S,
             rating' = Scored(rating, seen[t], S, t), history' = Recorded(history, seen[t], S, t)
      PROVE  HistoryEndsInRating'
  <2> SUFFICES ASSUME NEW u \in Users
               PROVE  IF history'[u] = <<>> THEN rating'[u] = Unrated
                                            ELSE rating'[u] = Last(history'[u])
    BY DEF HistoryEndsInRating
  <2>1. seen[t] \in [Users -> Changes] /\ history[u] \in Seq(Changes)
    BY DEF TypeOK
  <2>2. CASE u \notin S
    BY <1>2, <2>1, <2>2, WrittenTogether DEF HistoryEndsInRating
  <2>3. CASE u \in S
    <3>1. PICK new \in Changes : rating'[u] = new /\ history'[u] = Append(history[u], new)
      BY <1>2, <2>1, <2>3, WrittenTogether
    <3>2. QED BY <2>1, <3>1, LastAppend
  <2>4. QED BY <2>2, <2>3
<1>3. QED BY <1>1, <1>2, WhoWrites DEF Tasks

-----------------------------------------------------------------------------
(* Rated once. *)

RowsOf(h, m) == {i \in DOMAIN h : Last(h[i]) = m}

LEMMA RowsOfAppend ==
  ASSUME NEW h \in Seq(Changes), NEW x \in Changes, NEW m
  PROVE  /\ Last(x) # m => RowsOf(Append(h, x), m) = RowsOf(h, m)
         /\ Last(x) = m /\ RowsOf(h, m) = {} => RowsOf(Append(h, x), m) = {Len(h) + 1}
  BY DEF RowsOf

LEMMA OtherRows ==
  ASSUME TypeOK, NEW t \in Tasks, NEW S \in SUBSET Users, NEW u \in Users, NEW m \in Matches,
         history' = Recorded(history, seen[t], S, t), t # m
  PROVE  RowsOf(history'[u], m) = RowsOf(history[u], m)
<1>1. history[u] \in Seq(Changes) /\ seen[t] \in [Users -> Changes]
  BY DEF TypeOK
<1>2. CASE u \notin S
  BY <1>1, <1>2, WrittenTogether
<1>3. CASE u \in S
  <2>1. PICK new \in Changes : history'[u] = Append(history[u], new) /\ Last(new) = t
    BY <1>1, <1>3, WrittenTogether
  <2>2. QED BY <1>1, <2>1, RowsOfAppend
<1>4. QED BY <1>2, <1>3

LEMMA FirstRow ==
  ASSUME TypeOK, NEW m \in Matches, NEW S \in SUBSET Users, NEW u \in S,
         history' = Recorded(history, seen[m], S, m), RowsOf(history[u], m) = {}
  PROVE  RowsOf(history'[u], m) = {Len(history[u]) + 1}
<1>1. /\ history[u] \in Seq(Changes) /\ seen[m] \in [Users -> Changes]
      /\ m \in Tasks /\ u \in Users
  BY DEF TypeOK, Tasks
<1>2. PICK new \in Changes : history'[u] = Append(history[u], new) /\ Last(new) = m
  BY <1>1, WrittenTogether
<1>3. QED BY <1>1, <1>2, RowsOfAppend

LEMMA RowsOfNone ==
  ASSUME NEW h \in Seq(Changes), NEW m
  PROVE  Cardinality(RowsOf(h, m)) = 0 <=> RowsOf(h, m) = {}
<1>1. IsFiniteSet(1..Len(h))
  BY FS_Interval
<1>2. IsFiniteSet(RowsOf(h, m))
  BY <1>1, FS_Subset DEF RowsOf
<1>3. QED BY <1>2, FS_EmptySet

LEMMA TimesRatedIs ==
  ASSUME NEW m, NEW u
  PROVE  TimesRated(m, u) = Cardinality(RowsOf(history[u], m))
  BY DEF TimesRated, RowsOf

Committed(m) == row[m].status = "FINISHED" /\ \E u \in Users : row[m].result[u] # "none"

RatedAs(m, u) ==
  /\ Committed(m) => TimesRated(m, u) = 1
  /\ ~Committed(m) => TimesRated(m, u) = 0
  /\ row[m].result[u] \in {"WON", "LOST", "DRAW"} <=> Committed(m)

LEMMA RatedAsIs == RatedTogetherOnce <=> \A m \in Matches : \A u \in Players(m) : RatedAs(m, u)
  BY DEF RatedTogetherOnce, RatedAs, Committed

LEMMA NextKeepsRatedTogether ==
  ASSUME TypeOK, Stages, RowsTrue, RatedTogetherOnce, [Next]_vars
  PROVE  RatedTogetherOnce'
<1> SUFFICES ASSUME NEW p \in Matches, NEW u \in Players(p)
             PROVE  RatedAs(p, u)'
  BY RatedAsIs, RatedAsIs' DEF RatedTogetherOnce, RatedAs, Committed
<1>a. u \in Users
  BY RecordsAssumption DEF Players
<1>b. RatedAs(p, u) /\ Stage(p) /\ row[p] \in RowType
  BY RatedAsIs DEF Stages, TypeOK
<1>c. history[u] \in Seq(Changes)
  BY <1>a DEF TypeOK
<1>1. ASSUME RowsOf(history'[u], p) = RowsOf(history[u], p),
             Committed(p)' <=> Committed(p),
             row'[p].result[u] \in {"WON", "LOST", "DRAW"} <=>
               row[p].result[u] \in {"WON", "LOST", "DRAW"}
      PROVE  RatedAs(p, u)'
  BY <1>1, <1>b, TimesRatedIs DEF RatedAs, TimesRated, RowsOf
<1>2. ASSUME NEW m \in Matches, CommitRatings(m), ~Collides(m),
             history' = Recorded(history, seen[m], Players(m), m)
      PROVE  RatedAs(p, u)'
  <2>1. /\ m \in Tasks /\ Players(m) \in SUBSET Users
        /\ history' = Recorded(history, seen[m], Players(m), m)
    BY <1>2, RecordsAssumption DEF Tasks, Players
  <2>2. CASE m # p
    <3>1. row'[p] = row[p]
      BY <1>2, <2>2 DEF CommitRatings, TypeOK
    <3>2. RowsOf(history'[u], p) = RowsOf(history[u], p)
      BY <2>1, <2>2, <1>a, OtherRows
    <3>3. QED BY <1>1, <3>1, <3>2 DEF Committed
  <2>3. CASE m = p
    <3>1. ~Committed(p) /\ row[p].status = "FINISHED"
      BY <1>b, <1>2, <2>3 DEF CommitRatings, Stage, Rating, NoResults, Committed
    <3>2. row'[p].status = "FINISHED" /\ row'[p].result[u] = Result(p, u)
      BY <1>a, <1>b, <1>2, <2>3, <3>1 DEF CommitRatings, TypeOK, RowType
    <3>3. row'[p].result[u] \in {"WON", "LOST", "DRAW"} /\ Committed(p)'
      BY <1>a, <3>2 DEF Result, Committed
    <3>4. RowsOf(history[u], p) = {}
      BY <1>b, <1>c, <3>1, TimesRatedIs, RowsOfNone DEF RatedAs
    <3>5. RowsOf(history'[u], p) = {Len(history[u]) + 1}
      <4>1. /\ m \in Tasks /\ Players(m) \in SUBSET Users /\ u \in Players(m)
            /\ history' = Recorded(history, seen[m], Players(m), m)
            /\ RowsOf(history[u], m) = {}
        BY <2>1, <2>3, <3>4
      <4>2. RowsOf(history'[u], m) = {Len(history[u]) + 1}
        BY <4>1, FirstRow
      <4>3. QED BY <2>3, <4>2
    <3>6. TimesRated(p, u)' = 1
      BY <3>5, FS_Singleton DEF TimesRated, RowsOf
    <3>7. QED BY <3>3, <3>6 DEF RatedAs
  <2>4. QED BY <2>2, <2>3
<1>3. ASSUME NEW d \in Users, DecayWrites(d),
             history' = Recorded(history, seen[Decay], {d}, Decay)
      PROVE  RatedAs(p, u)'
  <2>1. /\ Decay \in Tasks /\ Decay # p /\ {d} \in SUBSET Users
        /\ history' = Recorded(history, seen[Decay], {d}, Decay)
    BY <1>3, RecordsAssumption DEF Tasks
  <2>2. RowsOf(history'[u], p) = RowsOf(history[u], p)
    BY <2>1, <1>a, OtherRows
  <2>3. row' = row
    BY <1>3 DEF DecayWrites, stored
  <2>4. QED BY <1>1, <2>2, <2>3 DEF Committed
<1>4. CASE UNCHANGED <<rating, history>>
  <2>1. CASE row'[p] = row[p]
    BY <1>1, <1>4, <2>1 DEF Committed
  <2>2. ASSUME NEW m \in Matches, CreateRow(m), row'[p] # row[p]
        PROVE  RatedAs(p, u)'
    <3>1. m = p /\ row[p].status = "none" /\ NoResults(p)
      BY <1>b, <2>2 DEF CreateRow, TypeOK, Stage, Open
    <3>2. row'[p].status = "ACTIVE" /\ row'[p].result = row[p].result
      BY <1>a, <1>b, <2>2, <3>1 DEF CreateRow, TypeOK, RowType
    <3>3. QED BY <1>1, <1>4, <1>a, <3>1, <3>2 DEF Committed, NoResults
  <2>3. ASSUME NEW m \in Matches, StoreFinished(m), row'[p] # row[p]
        PROVE  RatedAs(p, u)'
    <3>1. m = p /\ NoResults(p)
      BY <1>b, <2>3 DEF StoreFinished, TypeOK, Stage, Open
    <3>2. row'[p].result = row[p].result
      BY <1>a, <1>b, <2>3, <3>1 DEF StoreFinished, TypeOK, RowType
    <3>3. QED BY <1>1, <1>4, <1>a, <3>1, <3>2 DEF Committed, NoResults
  <2>4. ASSUME NEW m \in Matches, StoreAborted(m), row'[p] # row[p]
        PROVE  RatedAs(p, u)'
    <3>1. m = p /\ row[p].status = "ACTIVE" /\ NoResults(p)
      BY <1>b, <2>4 DEF StoreAborted, TypeOK, Stage, Open
    <3>2. row'[p].status = "ABORTED" /\ row'[p].result[u] = "ABORTED"
      BY <1>a, <1>b, <2>4, <3>1 DEF StoreAborted, TypeOK, RowType
    <3>3. QED BY <1>1, <1>4, <1>a, <3>1, <3>2 DEF Committed, NoResults
  <2>5. ASSUME NEW m \in Matches, CommitRatings(m), row'[p] # row[p]
        PROVE  RatedAs(p, u)'
    <3>1. ~Collides(m) /\ history' = Recorded(history, seen[m], Players(m), m)
      BY <2>5 DEF CommitRatings
    <3>2. QED BY <1>2, <2>5, <3>1
  <2>6. QED
    BY <2>1, <2>2, <2>3, <2>4, <2>5
    DEF Next, vars, Start, Finish, Abort, Listener, LogStarted, LogFinished, FindSeason,
        CreateSeason, ReadRatings, FindRow, LogAborted, DecayJob, DecayWakes, DecayReads,
        DecayWrites, Throws, Crash, stored
<1>5. QED BY <1>2, <1>3, <1>4, WhoWrites

-----------------------------------------------------------------------------
(* The timeline: which events a listener still owes. *)

Has(m, event) == \E i \in DOMAIN timeline[m] : timeline[m][i] = event

Owed(m) ==
  /\ creating[m] = "logging" => row[m].status # "none"
  /\ Has(m, "MATCH_STARTED") => creating[m] = "over"
  /\ Has(m, "MATCH_FINISHED") => at[m] \notin {"none", "finishing", "loggingFinished"}
  /\ Has(m, "MATCH_ABORTED") => at[m] \notin {"none", "finding", "aborting", "loggingAborted"}

Logs == \A m \in Matches : Owed(m)

(* An event that is new keeps the timeline true. *)
LEMMA NewEvent ==
  ASSUME TypeOK, TimelineTrue, NEW m \in Matches, NEW e \in Events, ~Has(m, e),
         Logged(m, e), row' = row, row[m].status # "none",
         e = "MATCH_FINISHED" => row[m].status = "FINISHED",
         e = "MATCH_ABORTED" => row[m].status = "ABORTED"
  PROVE  TimelineTrue'
<1>1. CASE UNCHANGED timeline
  BY <1>1 DEF TimelineTrue
<1>2. CASE timeline' = [timeline EXCEPT ![m] = Append(@, e)]
  <2>1. timeline[m] \in Seq(Events)
    BY DEF TypeOK
  <2>2. /\ DOMAIN timeline'[m] = 1..Len(timeline[m]) + 1
        /\ \A i \in DOMAIN timeline[m] : timeline'[m][i] = timeline[m][i]
        /\ timeline'[m][Len(timeline[m]) + 1] = e
        /\ DOMAIN timeline[m] = 1..Len(timeline[m])
    BY <1>2, <2>1 DEF TypeOK
  <2>3. \A p \in Matches \ {m} : timeline'[p] = timeline[p]
    BY <1>2 DEF TypeOK
  <2>4. ASSUME NEW i \in DOMAIN timeline'[m]
        PROVE  /\ timeline'[m][i] = "MATCH_FINISHED" => row[m].status = "FINISHED"
               /\ timeline'[m][i] = "MATCH_ABORTED" => row[m].status = "ABORTED"
               /\ \A k \in DOMAIN timeline'[m] : timeline'[m][i] = timeline'[m][k] => i = k
    BY <2>1, <2>2, <2>4 DEF TimelineTrue, Has
  <2>5. QED BY <2>3, <2>4 DEF TimelineTrue
<1>3. QED BY <1>1, <1>2 DEF Logged

LEMMA HasAppended ==
  ASSUME TypeOK, NEW m \in Matches, NEW p \in Matches, NEW e \in Events, NEW f, Logged(m, e)
  PROVE  Has(p, f)' => Has(p, f) \/ (p = m /\ f = e)
<1>1. CASE timeline'[p] = timeline[p]
  BY <1>1 DEF Has
<1>2. CASE p = m /\ timeline'[p] = Append(timeline[p], e)
  <2>1. timeline[p] \in Seq(Events)
    BY DEF TypeOK
  <2>2. QED BY <1>2, <2>1 DEF Has
<1>3. QED BY <1>1, <1>2 DEF Logged, TypeOK

(* What a step that logs nothing does for one match. *)
Kept(p) ==
  /\ Owed(p)'
  /\ timeline[p] # <<>> /\ row'[p].status # row[p].status =>
       row[p].status = "ACTIVE" /\ row'[p].status # "none"

LEMMA NextKeepsLogs ==
  ASSUME TypeOK, Stages, Logs, TimelineTrue, [Next]_vars
  PROVE  Logs' /\ TimelineTrue'
<1> USE DEF memory, ratings, job, stored, Went
<1>1. ASSUME NEW m \in Matches, LogStarted(m)
      PROVE  Logs' /\ TimelineTrue'
  <2>1. row[m].status # "none" /\ ~Has(m, "MATCH_STARTED")
    BY <1>1 DEF LogStarted, Logs, Owed
  <2>2. TimelineTrue'
    BY <1>1, <2>1, NewEvent DEF LogStarted, Events
  <2>3. ASSUME NEW p \in Matches PROVE Owed(p)'
    <3>1. \A f : Has(p, f)' => Has(p, f) \/ (p = m /\ f = "MATCH_STARTED")
      BY <1>1, HasAppended DEF LogStarted, Events
    <3>2. Owed(p)
      BY DEF Logs
    <3>3. QED BY <1>1, <3>1, <3>2 DEF LogStarted, Owed, TypeOK
  <2>4. QED BY <2>2, <2>3 DEF Logs
<1>2. ASSUME NEW m \in Matches, LogFinished(m)
      PROVE  Logs' /\ TimelineTrue'
  <2>1. row[m].status = "FINISHED" /\ ~Has(m, "MATCH_FINISHED")
    BY <1>2 DEF LogFinished, Logs, Owed, Stages, Stage, Rating
  <2>2. TimelineTrue'
    BY <1>2, <2>1, NewEvent DEF LogFinished, Events
  <2>3. ASSUME NEW p \in Matches PROVE Owed(p)'
    <3>1. \A f : Has(p, f)' => Has(p, f) \/ (p = m /\ f = "MATCH_FINISHED")
      BY <1>2, HasAppended DEF LogFinished, Events
    <3>2. Owed(p) /\ m \in Tasks /\ p \in Tasks
      BY DEF Logs, Tasks
    <3>3. QED BY <1>2, <3>1, <3>2 DEF LogFinished, Owed, TypeOK
  <2>4. QED BY <2>2, <2>3 DEF Logs
<1>3. ASSUME NEW m \in Matches, LogAborted(m)
      PROVE  Logs' /\ TimelineTrue'
  <2>1. row[m].status = "ABORTED" /\ ~Has(m, "MATCH_ABORTED")
    BY <1>3 DEF LogAborted, Logs, Owed, Stages, Stage
  <2>2. TimelineTrue'
    BY <1>3, <2>1, NewEvent DEF LogAborted, Events
  <2>3. ASSUME NEW p \in Matches PROVE Owed(p)'
    <3>1. \A f : Has(p, f)' => Has(p, f) \/ (p = m /\ f = "MATCH_ABORTED")
      BY <1>3, HasAppended DEF LogAborted, Events
    <3>2. Owed(p) /\ m \in Tasks /\ p \in Tasks
      BY DEF Logs, Tasks
    <3>3. QED BY <1>3, <3>1, <3>2 DEF LogAborted, Owed, TypeOK
  <2>4. QED BY <2>2, <2>3 DEF Logs
<1>4. CASE UNCHANGED timeline
  <2> SUFFICES ASSUME NEW p \in Matches
               PROVE  \/ Kept(p)
                      \/ \E m \in Matches : LogStarted(m) \/ LogFinished(m) \/ LogAborted(m)
    <3>1. (\A p \in Matches : Kept(p)) => TimelineTrue'
      <4>1. ASSUME NEW p \in Matches, Kept(p), NEW i \in DOMAIN timeline[p]
            PROVE  /\ row'[p].status # "none"
                   /\ timeline[p][i] = "MATCH_FINISHED" => row'[p].status = "FINISHED"
                   /\ timeline[p][i] = "MATCH_ABORTED" => row'[p].status = "ABORTED"
        BY <4>1 DEF TimelineTrue, Kept
      <4>2. QED BY <1>4, <4>1 DEF TimelineTrue
    <3>2. QED BY <3>1, <1>1, <1>2, <1>3 DEF Logs, Kept
  <2>1. Owed(p) /\ Stage(p) /\ p \in Tasks /\ row[p] \in RowType
    BY DEF Logs, Stages, TypeOK, Tasks
  <2>2. \A f : Has(p, f)' <=> Has(p, f)
    BY <1>4 DEF Has
  <2>3. timeline[p] # <<>> => row[p].status # "none"
    BY DEF TimelineTrue, TypeOK
  <2> USE <1>4, <2>1, <2>2, <2>3 DEF Owed, Stage, Open, Rating, TypeOK
  <2>4. CASE UNCHANGED vars
    BY <2>4 DEF vars, Kept
  <2>5. ASSUME NEW m \in Matches, Start(m) \/ Abort(m) \/ \E u \in Users : Finish(m, u)
        PROVE  Kept(p)
    BY <2>5 DEF Start, Abort, Finish, Kept
  <2>6. ASSUME NEW m \in Matches, CreateRow(m)
        PROVE  Kept(p)
    BY <2>6 DEF CreateRow, Kept, RowType
  <2>7. ASSUME NEW m \in Matches, StoreFinished(m)
        PROVE  Kept(p)
    BY <2>7 DEF StoreFinished, Kept, RowType
  <2>8. ASSUME NEW m \in Matches, StoreAborted(m)
        PROVE  Kept(p)
    BY <2>8 DEF StoreAborted, Kept, RowType
  <2>9. ASSUME NEW m \in Matches, CommitRatings(m)
        PROVE  Kept(p)
    BY <2>9 DEF CommitRatings, Kept, RowType
  <2>10. ASSUME NEW m \in Matches, FindSeason(m) \/ CreateSeason(m) \/ ReadRatings(m) \/ FindRow(m)
        PROVE  Kept(p)
    BY <2>10 DEF FindSeason, CreateSeason, ReadRatings, FindRow, Kept
  <2>11. ASSUME DecayJob
        PROVE  Kept(p)
    <3>1. at'[p] = at[p]
      BY <2>11, RecordsAssumption
      DEF DecayJob, DecayWakes, FindSeason, CreateSeason, DecayReads, DecayWrites, Tasks
    <3>2. UNCHANGED <<match, creating, row>>
      BY <2>11 DEF DecayJob, DecayWakes, FindSeason, CreateSeason, DecayReads, DecayWrites
    <3>3. QED BY <3>1, <3>2 DEF Kept
  <2>12. ASSUME Throws
         PROVE  Kept(p)
    BY <2>12, RecordsAssumption DEF Throws, Kept
  <2>13. ASSUME Crash
         PROVE  Kept(p)
    <3>1. row' = row /\ p # Decay
      BY <2>13, RecordsAssumption DEF Crash
    <3>2. IF Unstarted(p) THEN at'[p] = "none" /\ creating'[p] = "none"
                          ELSE at'[p] = "failed" /\ creating'[p] = "over"
      BY <2>13, <3>1 DEF Crash
    <3>3. Unstarted(p) => at[p] = "none" /\ creating[p] = "none"
      BY DEF Unstarted
    <3>4. Owed(p)'
      BY <3>1, <3>2, <3>3
    <3>5. QED BY <3>1, <3>4 DEF Kept
  <2>14. QED
    BY <2>4, <2>5, <2>6, <2>7, <2>8, <2>9, <2>10, <2>11, <2>12, <2>13, <1>1, <1>2, <1>3
    DEF Next, Listener
<1>5. CASE timeline' # timeline
  <2>1. \E m \in Matches : LogStarted(m) \/ LogFinished(m) \/ LogAborted(m)
    BY <1>5 DEF Next, vars, Start, Finish, Abort, Listener, CreateRow, StoreFinished,
       FindSeason, CreateSeason, ReadRatings, CommitRatings, FindRow, StoreAborted, DecayJob,
       DecayWakes, DecayReads, DecayWrites, Throws, Crash
  <2>2. QED BY <2>1, <1>1, <1>2, <1>3
<1>6. QED BY <1>4, <1>5

-----------------------------------------------------------------------------
(* The theorems. *)

IInv ==
  /\ TypeOK /\ Stages /\ Logs
  /\ RowsTrue /\ HistoryEndsInRating /\ RatedTogetherOnce /\ TimelineTrue

LEMMA InitIInv == Init => IInv
<1> SUFFICES ASSUME Init PROVE IInv
  OBVIOUS
<1>1. TypeOK /\ Stages
  BY InitTypeOK, InitStages
<1>2. Logs /\ TimelineTrue
  BY DEF Init, Logs, Owed, Has, TimelineTrue
<1>3. RowsTrue /\ HistoryEndsInRating
  BY DEF Init, RowsTrue, HistoryEndsInRating
<1>4. RatedTogetherOnce
  <2>1. ASSUME NEW m \in Matches, NEW u \in Players(m)
        PROVE  RatedAs(m, u)
    <3>1. u \in Users
      BY RecordsAssumption DEF Players
    <3>2. RowsOf(history[u], m) = {}
      BY <3>1 DEF Init, RowsOf
    <3>3. TimesRated(m, u) = 0
      BY <3>2, TimesRatedIs, FS_EmptySet
    <3>4. ~Committed(m) /\ row[m].result[u] = "none"
      BY <3>1 DEF Init, Committed
    <3>5. QED BY <3>3, <3>4 DEF RatedAs
  <2>2. QED BY <2>1, RatedAsIs
<1>5. QED BY <1>1, <1>2, <1>3, <1>4 DEF IInv

LEMMA NextIInv == IInv /\ [Next]_vars => IInv'
  BY NextKeepsTypeOK, NextKeepsStages, NextKeepsLogs, NextKeepsRowsTrue, NextKeepsHistory,
     NextKeepsRatedTogether DEF IInv

(* What the database says is consistent at every step: the conjunction of  *)
(* the invariants below with the stages of the listeners.                  *)
THEOREM RecordsInvariance == Spec => []IInv
  BY InitIInv, NextIInv, PTL DEF Spec

(* Rows, histories and awaits have their types; the decay job owes rows    *)
(* only while it runs, and a cached season exists.                         *)
THEOREM RecordsTyped == Spec => []TypeOK
<1>1. IInv => TypeOK
  BY DEF IInv
<1>2. QED BY <1>1, RecordsInvariance, PTL

(* However the listeners of a match overtake each other, its row says      *)
(* FINISHED or ABORTED only with the match, and with the match's winner.   *)
THEOREM RowsAreTrue == Spec => []RowsTrue
<1>1. IInv => RowsTrue
  BY DEF IInv
<1>2. QED BY <1>1, RecordsInvariance, PTL

(* A match moves the ratings of all its players or of none, and of each    *)
(* once, whatever else writes ratings, fails or dies meanwhile.            *)
THEOREM RatedTogether == Spec => []RatedTogetherOnce
<1>1. IInv => RatedTogetherOnce
  BY DEF IInv
<1>2. QED BY <1>1, RecordsInvariance, PTL

(* The rating of a user and the last row of its history never part,        *)
(* although both are written from values read earlier.                     *)
THEOREM HistoryIsCurrent == Spec => []HistoryEndsInRating
<1>1. IInv => HistoryEndsInRating
  BY DEF IInv
<1>2. QED BY <1>1, RecordsInvariance, PTL

(* The timeline of a match holds each of its events once, and an end only  *)
(* if the row has it.                                                      *)
THEOREM TimelineIsTrue == Spec => []TimelineTrue
<1>1. IInv => TimelineTrue
  BY DEF IInv
<1>2. QED BY <1>1, RecordsInvariance, PTL

(* A decided row stays as it was decided, whichever listener of the match  *)
(* is still under way.                                                     *)
THEOREM RowsStayDecided == Spec => RowsFinal
<1>1. ASSUME TypeOK, Stages, [Next]_vars, NEW m \in Matches,
             row[m].status \in {"FINISHED", "ABORTED"}
      PROVE  row'[m].status = row[m].status /\ row'[m].winner = row[m].winner
  <2>1. Stage(m) /\ row[m] \in RowType /\ row[m].status \in {"FINISHED", "ABORTED"}
    BY <1>1 DEF Stages, TypeOK
  <2>2. CASE row' = row
    BY <2>2
  <2>3. ASSUME NEW p \in Matches, CreateRow(p) \/ StoreFinished(p) \/ StoreAborted(p)
        PROVE  row'[m] = row[m]
    <3>1. p # m
      BY <2>1, <2>3 DEF CreateRow, StoreFinished, StoreAborted, Stage, Open
    <3>2. QED BY <1>1, <2>3, <3>1 DEF CreateRow, StoreFinished, StoreAborted, TypeOK
  <2>4. ASSUME NEW p \in Matches, CommitRatings(p)
        PROVE  row'[m].status = row[m].status /\ row'[m].winner = row[m].winner
    <3>1. CASE Collides(p)
      BY <2>4, <3>1 DEF CommitRatings
    <3>2. CASE ~Collides(p)
      <4>1. PICK res : row' = [row EXCEPT ![p].result = res]
        BY <2>4, <3>2 DEF CommitRatings
      <4>2. row \in [Matches -> RowType]
        BY <1>1 DEF TypeOK
      <4>3. QED BY <4>1, <4>2 DEF RowType
    <3>3. QED BY <3>1, <3>2
  <2>5. QED
    BY <1>1, <2>2, <2>3, <2>4
    DEF Next, vars, Start, Finish, Abort, Listener, LogStarted, LogFinished, FindSeason,
        CreateSeason, ReadRatings, FindRow, LogAborted, DecayJob, DecayWakes, DecayReads,
        DecayWrites, Throws, Crash, stored
<1>2. IInv /\ [Next]_vars =>
        [\A m \in Matches :
           row[m].status \in {"FINISHED", "ABORTED"} =>
             row'[m].status = row[m].status /\ row'[m].winner = row[m].winner]_vars
  BY <1>1 DEF IInv
<1>3. QED BY <1>2, RecordsInvariance, PTL DEF Spec, RowsFinal
=============================================================================
