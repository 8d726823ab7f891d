----------------------------- MODULE MatchRecords -----------------------------
(***************************************************************************)
(* What the database keeps of matches: the listeners of MATCH_STARTED,     *)
(* MATCH_FINISHED and MATCH_ABORTED in index.ts, RatingUpdater with its    *)
(* season, and the decay job.                                              *)
(*                                                                         *)
(* A listener runs up to its first await when the match changes, and then  *)
(* from await to await, concurrently with all others: nothing orders the   *)
(* statements of one match, or of two.                                     *)
(***************************************************************************)
EXTENDS Naturals, Sequences, FiniteSets, SequencesExt

CONSTANTS
  Users,
  Matches,
  Red, Blue,    (* the teams of a match                                    *)
  Decay,        (* names the decay job and its entries in the history      *)
  NoUser,
  MaxDecays, MaxCrashes   (* bounds                                        *)

ASSUME RecordsAssumption ==
  /\ Red \in [Matches -> SUBSET Users] /\ Blue \in [Matches -> SUBSET Users]
  /\ \A m \in Matches : Red[m] \cap Blue[m] = {}
  /\ Decay \notin Matches /\ NoUser \notin Users
  /\ MaxDecays \in Nat /\ MaxCrashes \in Nat

VARIABLES
  match,        (* MatchManager.matches; history once the process died     *)
  row,          (* Match with its MatchParticipants                        *)
  timeline,     (* MatchEvent, the events of the match itself              *)
  creating,     (* per match, where the MATCH_STARTED listener is          *)
  at,           (* per match, where the listener of its end is; and where  *)
                (* the decay job is                                        *)
  seen,         (* the ratings these have read                             *)
  due,          (* users the decay job will still write                    *)
  season,       (* an ACTIVE Season exists                                 *)
  cached,       (* SeasonManager.activeSeasonId is set                     *)
  rating,       (* UserRating: the changes the value is made of            *)
  history,      (* RatingHistory: newRating of each row                    *)
  decays, crashes

vars == <<match, row, timeline, creating, at, seen, due, season, cached,
          rating, history, decays, crashes>>

memory == <<match, creating>>
stored == <<row, timeline>>
ratings == <<season, cached, rating, history>>
job == <<due, decays, crashes>>

Tasks == Matches \cup {Decay}
Players(m) == Red[m] \cup Blue[m]

(* No UserRating yet.  A new one has 1000 points: no changes, <<>>. *)
Unrated == <<NoUser>>
Base(changes) == IF changes = Unrated THEN <<>> ELSE changes

Went(t, await) == at' = [at EXCEPT ![t] = await]

-----------------------------------------------------------------------------
(* The match in memory, and the listeners up to their first await. *)

Start(m) ==
  /\ match[m].status = "COUNTDOWN"
  /\ match' = [match EXCEPT ![m].status = "ACTIVE"]
  /\ creating' = [creating EXCEPT ![m] = "creating"]
  /\ UNCHANGED <<at, seen, stored, ratings, job>>

(* The winner need not be on a team. *)
Finish(m, u) ==
  /\ match[m].status = "ACTIVE"
  /\ match' = [match EXCEPT ![m] = [status |-> "FINISHED", winner |-> u]]
  /\ Went(m, "finishing")
  /\ UNCHANGED <<creating, seen, stored, ratings, job>>

Abort(m) ==
  /\ match[m].status \in {"COUNTDOWN", "ACTIVE"}
  /\ match' = [match EXCEPT ![m].status = "ABORTED"]
  /\ Went(m, "finding")
  /\ UNCHANGED <<creating, seen, stored, ratings, job>>

-----------------------------------------------------------------------------
(* MATCH_STARTED *)

CreateRow(m) ==
  /\ creating[m] = "creating"
  /\ row' = [row EXCEPT ![m].status = "ACTIVE"]
  /\ creating' = [creating EXCEPT ![m] = "logging"]
  /\ UNCHANGED <<match, timeline, at, seen, ratings, job>>

(* logMatchEvent catches what it throws. *)
Logged(m, event) ==
  \/ timeline' = [timeline EXCEPT ![m] = Append(@, event)]
  \/ UNCHANGED timeline

LogStarted(m) ==
  /\ creating[m] = "logging"
  /\ Logged(m, "MATCH_STARTED")
  /\ creating' = [creating EXCEPT ![m] = "over"]
  /\ UNCHANGED <<match, row, at, seen, ratings, job>>

-----------------------------------------------------------------------------
(* MATCH_FINISHED *)

(* `update` throws without its row. *)
RowFound(m) == row[m].status # "none"

StoreFinished(m) ==
  /\ at[m] = "finishing"
  /\ RowFound(m)
  /\ row' = [row EXCEPT ![m].status = "FINISHED", ![m].winner = match[m].winner]
  /\ Went(m, "loggingFinished")
  /\ UNCHANGED <<memory, timeline, seen, ratings, job>>

(* Mutant: logMatchEvent throws, and the ratings are skipped. *)
LogFinishedThrows(m) ==
  /\ at[m] = "loggingFinished"
  /\ \/ /\ timeline' = [timeline EXCEPT ![m] = Append(@, "MATCH_FINISHED")]
        /\ Went(m, IF cached THEN "rating" ELSE "season")
     \/ UNCHANGED timeline /\ Went(m, "over")
  /\ UNCHANGED <<memory, row, seen, ratings, job>>

LogFinished(m) ==
  /\ at[m] = "loggingFinished"
  /\ Logged(m, "MATCH_FINISHED")
  /\ Went(m, IF cached THEN "rating" ELSE "season")
  /\ UNCHANGED <<memory, row, seen, ratings, job>>

(* getOrCreateActiveSeasonId: find, or create number 1, which is unique. *)
FindSeason(t) ==
  /\ at[t] = "season"
  /\ IF season
       THEN cached' = TRUE /\ Went(t, "rating")
       ELSE UNCHANGED cached /\ Went(t, "seasonCreating")
  /\ UNCHANGED <<memory, stored, seen, season, rating, history, job>>

CreateSeason(t) ==
  /\ at[t] = "seasonCreating"
  /\ IF season
       THEN Went(t, "dropped") /\ UNCHANGED <<season, cached>>
       ELSE Went(t, "rating") /\ season' = TRUE /\ cached' = TRUE
  /\ UNCHANGED <<memory, stored, seen, rating, history, job>>

(* The transaction reads the ratings of all players ... *)
ReadRatings(m) ==
  /\ at[m] = "rating"
  /\ seen' = [seen EXCEPT ![m] = [u \in Users |-> IF u \in Players(m) THEN rating[u] ELSE Unrated]]
  /\ Went(m, "committing")
  /\ UNCHANGED <<memory, stored, ratings, due, decays, crashes>>

(* resultStatus of a player, by the winner of the match as it was decided. *)
Result(m, u) ==
  LET w == match[m].winner IN
  IF w \notin Players(m) THEN "DRAW"
  ELSE IF (u \in Red[m]) <=> (w \in Red[m]) THEN "WON" ELSE "LOST"

(* A rating that was read as missing is created, which fails if another    *)
(* transaction did so meanwhile.                                           *)
Collides(m) == \E u \in Players(m) : seen[m][u] = Unrated /\ rating[u] # Unrated

(* Mutant: the rating is incremented, the history is written as computed. *)
ScoredIncrement(rs, changes, players, c) ==
  [u \in Users |-> IF u \in players THEN Append(Base(rs[u]), c) ELSE rs[u]]

(* What a change leads to, on the values that were read. *)
Scored(rs, changes, players, c) ==
  [u \in Users |-> IF u \in players THEN Append(Base(changes[u]), c) ELSE rs[u]]

(* Mutant: one row per player. *)
RecordedLatest(hs, changes, players, c) ==
  [u \in Users |-> IF u \in players THEN <<Append(Base(changes[u]), c)>> ELSE hs[u]]

Recorded(hs, changes, players, c) ==
  [u \in Users |->
     IF u \in players THEN Append(hs[u], Append(Base(changes[u]), c)) ELSE hs[u]]

(* ... and writes them with the history and the results. *)
CommitRatings(m) ==
  /\ at[m] = "committing"
  /\ IF Collides(m)
       THEN Went(m, "dropped") /\ UNCHANGED <<row, rating, history>>
       ELSE /\ rating' = Scored(rating, seen[m], Players(m), m)
            /\ history' = Recorded(history, seen[m], Players(m), m)
            /\ row' = [row EXCEPT ![m].result =
                         [u \in Users |-> IF u \in Players(m) THEN Result(m, u) ELSE "none"]]
            /\ Went(m, "over")
  /\ UNCHANGED <<memory, timeline, seen, season, cached, job>>

-----------------------------------------------------------------------------
(* MATCH_ABORTED *)

(* Mutant: the end is logged though there is no row. *)
FindRowLogging(m) ==
  /\ at[m] = "finding"
  /\ Went(m, IF RowFound(m) THEN "aborting" ELSE "loggingAborted")
  /\ UNCHANGED <<memory, stored, seen, ratings, job>>

FindRow(m) ==
  /\ at[m] = "finding"
  /\ Went(m, IF RowFound(m) THEN "aborting" ELSE "over")
  /\ UNCHANGED <<memory, stored, seen, ratings, job>>

(* Mutant: the participants are written first, in a statement of their own. *)
StoreAbortedInTwo(m) ==
  LET aborted == [u \in Users |-> IF u \in Players(m) THEN "ABORTED" ELSE "none"] IN
  /\ at[m] = "aborting"
  /\ IF row[m].result = aborted
       THEN row' = [row EXCEPT ![m].status = "ABORTED"] /\ Went(m, "loggingAborted")
       ELSE row' = [row EXCEPT ![m].result = aborted] /\ UNCHANGED at
  /\ UNCHANGED <<memory, timeline, seen, ratings, job>>

(* One transaction. *)
StoreAborted(m) ==
  /\ at[m] = "aborting"
  /\ row' = [row EXCEPT ![m].status = "ABORTED",
               ![m].result = [u \in Users |-> IF u \in Players(m) THEN "ABORTED" ELSE "none"]]
  /\ Went(m, "loggingAborted")
  /\ UNCHANGED <<memory, timeline, seen, ratings, job>>

LogAborted(m) ==
  /\ at[m] = "loggingAborted"
  /\ Logged(m, "MATCH_ABORTED")
  /\ Went(m, "over")
  /\ UNCHANGED <<memory, row, seen, ratings, job>>

-----------------------------------------------------------------------------
(* DecayWorker *)

DecayWakes ==
  /\ at[Decay] = "none"
  /\ decays < MaxDecays
  /\ decays' = decays + 1
  /\ Went(Decay, IF cached THEN "rating" ELSE "season")
  /\ UNCHANGED <<memory, stored, seen, ratings, due, crashes>>

(* Above the least rating that decays: the player has won, or drawn. *)
Above1000(u) ==
  \E m \in Matches :
    /\ \E i \in DOMAIN rating[u] : rating[u][i] = m
    /\ row[m].result[u] \in {"WON", "DRAW"}

(* findMany: who is due depends on the ratings and on lastMatchAt. *)
DecayReads(users) ==
  /\ at[Decay] = "rating"
  /\ \A u \in users : Above1000(u)
  /\ seen' = [seen EXCEPT ![Decay] = rating]
  /\ due' = users
  /\ Went(Decay, IF users = {} THEN "none" ELSE "decaying")
  /\ UNCHANGED <<memory, stored, ratings, decays, crashes>>

DecayWrites(u) ==
  /\ at[Decay] = "decaying"
  /\ u \in due
  /\ rating' = Scored(rating, seen[Decay], {u}, Decay)
  /\ history' = Recorded(history, seen[Decay], {u}, Decay)
  /\ due' = due \ {u}
  /\ Went(Decay, IF due' = {} THEN "none" ELSE "decaying")
  /\ UNCHANGED <<memory, stored, seen, season, cached, decays, crashes>>

-----------------------------------------------------------------------------
(* Failures. *)

(* A statement throws, and the listener or the job ends; so does `update`  *)
(* of a missing row.                                                       *)
Throws ==
  \/ \E m \in Matches :
       /\ creating[m] = "creating"
       /\ creating' = [creating EXCEPT ![m] = "over"]
       /\ UNCHANGED <<match, at, seen, stored, ratings, job>>
  \/ \E m \in Matches :
       /\ at[m] \in {"finishing", "season", "seasonCreating", "rating", "committing",
                     "finding", "aborting"}
       /\ Went(m, "failed")
       /\ UNCHANGED <<memory, seen, stored, ratings, job>>
  \/ /\ at[Decay] \notin {"none"}
     /\ Went(Decay, "none")
     /\ due' = {}
     /\ UNCHANGED <<memory, seen, stored, ratings, decays, crashes>>

(* The process dies, with the matches it runs.  One that is not started is *)
(* nowhere in the database: it stays, for one that is played afterwards.   *)
Unstarted(m) == match[m].status = "COUNTDOWN"

Crash ==
  /\ crashes < MaxCrashes
  /\ crashes' = crashes + 1
  /\ match' = [m \in Matches |->
                 IF match[m].status = "ACTIVE"
                   THEN [match[m] EXCEPT !.status = "LOST"] ELSE match[m]]
  /\ creating' = [m \in Matches |-> IF Unstarted(m) THEN "none" ELSE "over"]
  /\ at' = [t \in Tasks |->
              IF t = Decay THEN "none" ELSE IF Unstarted(t) THEN "none" ELSE "failed"]
  /\ due' = {}
  /\ cached' = FALSE
  /\ UNCHANGED <<stored, seen, season, rating, history, decays>>

Init ==
  /\ match = [m \in Matches |-> [status |-> "COUNTDOWN", winner |-> NoUser]]
  /\ row = [m \in Matches |-> [status |-> "none", winner |-> NoUser,
                               result |-> [u \in Users |-> "none"]]]
  /\ timeline = [m \in Matches |-> <<>>]
  /\ creating = [m \in Matches |-> "none"]
  /\ at = [t \in Tasks |-> "none"]
  /\ seen = [t \in Tasks |-> [u \in Users |-> Unrated]]
  /\ due = {}
  /\ season = FALSE
  /\ cached = FALSE
  /\ rating = [u \in Users |-> Unrated]
  /\ history = [u \in Users |-> <<>>]
  /\ decays = 0 /\ crashes = 0

Listener(m) ==
  \/ CreateRow(m) \/ LogStarted(m)
  \/ StoreFinished(m) \/ LogFinished(m)
  \/ FindSeason(m) \/ CreateSeason(m)
  \/ ReadRatings(m) \/ CommitRatings(m)
  \/ FindRow(m) \/ StoreAborted(m) \/ LogAborted(m)

DecayJob ==
  \/ DecayWakes
  \/ FindSeason(Decay) \/ CreateSeason(Decay)
  \/ \E users \in SUBSET Users : DecayReads(users)
  \/ \E u \in Users : DecayWrites(u)

Next ==
  \/ \E m \in Matches : Start(m) \/ Abort(m) \/ Listener(m)
  \/ \E m \in Matches, u \in Users : Finish(m, u)
  \/ DecayJob
  \/ Throws
  \/ Crash

Spec == Init /\ [][Next]_vars

(* Statements return.  Matches need not be played, and statements may fail. *)
Fairness == \A m \in Matches : WF_vars(Listener(m))

-----------------------------------------------------------------------------
(* Properties. *)

Results == {"none", "WON", "LOST", "DRAW", "ABORTED"}
Events == {"MATCH_STARTED", "MATCH_FINISHED", "MATCH_ABORTED"}
Changes == Seq(Tasks \cup {NoUser})
Awaits ==
  {"none", "finishing", "loggingFinished", "season", "seasonCreating", "rating", "committing",
   "finding", "aborting", "loggingAborted", "decaying", "over", "failed", "dropped"}

MatchType == [status: {"COUNTDOWN", "ACTIVE", "FINISHED", "ABORTED", "LOST"},
              winner: Users \cup {NoUser}]
RowType == [status: {"none", "ACTIVE", "FINISHED", "ABORTED"},
            winner: Users \cup {NoUser}, result: [Users -> Results]]

TypeOK ==
  /\ match \in [Matches -> MatchType]
  /\ row \in [Matches -> RowType]
  /\ timeline \in [Matches -> Seq(Events)]
  /\ creating \in [Matches -> {"none", "creating", "logging", "over"}]
  /\ at \in [Tasks -> Awaits]
  /\ seen \in [Tasks -> [Users -> Changes]]
  /\ due \subseteq Users /\ (due # {} => at[Decay] = "decaying")
  /\ season \in BOOLEAN /\ cached \in BOOLEAN /\ (cached => season)
  /\ rating \in [Users -> Changes]
  /\ history \in [Users -> Seq(Changes)]
  /\ decays \in 0..MaxDecays /\ crashes \in 0..MaxCrashes

(* The row of a match never says more than happened: it is decided only    *)
(* like the match, and its participants' results belong to that decision.  *)
RowsTrue ==
  \A m \in Matches :
    /\ row[m].status \in {"FINISHED", "ABORTED"} =>
         row[m].status = match[m].status /\ row[m].winner = match[m].winner
    /\ \A u \in Users :
         /\ row[m].result[u] # "none" => u \in Players(m)
         /\ row[m].result[u] = "ABORTED" => row[m].status = "ABORTED"
         /\ row[m].result[u] \in {"WON", "LOST", "DRAW"} => row[m].status = "FINISHED"

(* A decided row stays decided: a late `create` or `update` of the same    *)
(* match does not reopen it.                                               *)
RowsFinal ==
  [][\A m \in Matches :
       row[m].status \in {"FINISHED", "ABORTED"} =>
         row'[m].status = row[m].status /\ row'[m].winner = row[m].winner]_vars

TimesRated(m, u) ==
  Cardinality({i \in DOMAIN history[u] : Last(history[u][i]) = m})

(* A match is rated for all its players or for none, once, and exactly     *)
(* when their results are in: whatever fails, dies or runs concurrently.   *)
RatedTogetherOnce ==
  \A m \in Matches :
    LET times == IF row[m].status = "FINISHED" /\ \E u \in Users : row[m].result[u] # "none"
                   THEN 1 ELSE 0
    IN \A u \in Players(m) :
         /\ TimesRated(m, u) = times
         /\ (row[m].result[u] \in {"WON", "LOST", "DRAW"}) <=> times = 1

(* A user's rating is the newRating of the row of the history that was     *)
(* written last (in the order of commits: createdAt is not modelled),      *)
(* though rows of two updates may be built on the same old rating.         *)
HistoryEndsInRating ==
  \A u \in Users :
    IF history[u] = <<>> THEN rating[u] = Unrated ELSE rating[u] = Last(history[u])

(* The events of a match are those of its row: an end is logged after it   *)
(* was stored, once, and never both ends.                                  *)
TimelineTrue ==
  \A m \in Matches : \A i \in DOMAIN timeline[m] :
    /\ row[m].status # "none"
    /\ timeline[m][i] = "MATCH_FINISHED" => row[m].status = "FINISHED"
    /\ timeline[m][i] = "MATCH_ABORTED" => row[m].status = "ABORTED"
    /\ \A k \in DOMAIN timeline[m] : timeline[m][i] = timeline[m][k] => i = k

Rated(m) == \A u \in Players(m) : TimesRated(m, u) = 1

(* A finished match whose row is there in time is rated in the end, unless *)
(* a statement fails, the process dies, or two first updates collide.      *)
FinishedIsRated ==
  \A m \in Matches :
    at[m] = "finishing" /\ row[m].status = "ACTIVE"
      ~> Rated(m) \/ at[m] \in {"failed", "dropped"}
=============================================================================
