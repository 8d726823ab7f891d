# Coding Arena: TLA+ models, checks and proofs

Coding Arena (this repository) lets players meet in rooms, race to solve a
programming problem and be rated for it. The models here cover its core: what
rooms, matches, sessions, timers, the matchmaking queue and parties do when
many clients, timers and verdicts act in an order nobody chose, and around it
what depends on the order of database statements: submissions, match records and
ratings, refresh tokens, friendships, and the shared editor with its replay. All
paths below are relative to `src/`; `WS` stands for `services/websocket/src`.

    tlasany RoomMatch.tla                                  # parse
    tlc -workers 2 -config RoomMatch_safety.cfg RoomMatchMC.tla
    tlapm RoomMatchProofs.tla                              # proofs

`PROJECT.json` lists the runs with their modules, the mutants (one plausible
bug per property, which the run must find), the source lines of every
definition, the findings, the hazards and the theorems.

## 1. The system

Three Node processes and a browser app:

- **api** (`services/api`): HTTP. Accounts and refresh tokens, problems,
  profiles, friends, submissions.
- **judge** (`services/judge`): takes submissions from an in-memory queue, runs
  them in a sandbox, publishes verdicts.
- **websocket** (`WS`): socket.io. Everything that happens during play.
- **packages**: contracts, validation, the in-process `SubmissionQueue` and
  `EventBroker`, the Prisma schema.

The websocket service keeps its state in maps in memory; the database stores
accounts, results, ratings and chats. Its managers are created once in
`WS/index.ts` and call each other directly; handlers publish domain events
through `EventBroker`, whose listeners (also in `index.ts`) run in the same
turn up to their first `await`.

| Component | State | Operations | Talks to |
|---|---|---|---|
| Rooms (`room/`) | `rooms`: status, host, participants in join order, flags, teams, problem, current and past matches | create, join, leave, ready, assign team, select problem, start, disconnect | sessions, matches, countdowns, events |
| Matches (`match/`, `index.ts`) | `matches`: status, room, teams, winner; `CountdownScheduler.timers`; `matchTimeouts` | create, start, finish, abort; countdown 3 s; time limit 3 h; verdict | rooms, presence, events |
| Sessions (`session/`) | per user: the active room | create, set and clear the active room | rooms |
| Connections (`registry/`, `middleware/`) | user to socket | register, unregister, tab takeover, send | all |
| Queue (`matchmaker/`) | per user: state, mode, `joinedAt`, lobby; lobbies with an acceptance timer | join, leave, accept, decline, time out, disconnect, start | allocator, match creator, presence |
| Allocation (`matchmaker/room.allocator.ts`, `match.creator.ts`, `team.balancer.ts`) | none of its own | create a full room and its match for an accepted lobby | rooms, sessions, matches |
| Presence (`presence/`) | per user: activity | set, notify friends, offline | social, connections |
| Parties (`party/`) | `parties`, `userToParty`; the party's socket.io channel | create, invite, accept, decline, ready, leave, disconnect | connections |
| Match persistence (`index.ts`) | rows of matches, timeline, room chats | create, finish, abort, sync on each room update | database, rating, chat |
| Editor and replay (`editor/`, `replay/`) | document, version log; stored operations | apply, transform, snapshot, play back | rooms, database |
| Ratings (`rating/`) | rating rows, seasons, decay | update after a match, decay job, roll over | database |
| Social and chat (`social/`, `chat/`) | friendships, blocks, conversations | request, accept, remove, block, send | database, presence |
| Submission pipeline (`packages/utils`, `services/judge`, `services/api/.../submission`) | queue, jobs, verdicts | submit, process, publish | websocket service |
| Authentication (`services/api/.../auth`) | refresh tokens | log in, refresh, log out, reset and change password | database |

**What is hard here.** Node runs one handler at a time, so the difficulty is
in orders, not in torn writes: (a) timers of 3 s, 15 s and 3 h race client
calls that should have cancelled them; (b) one user appears in up to four
records (room participant, session, socket, presence; or queue record, lobby,
socket, presence) that different handlers update; (c) a few handlers `await`
and write afterwards what they read before; (d) leaves, disconnects and tab
takeovers come in any order and hand over roles; (e) a verdict can be late.
(f) what a request or a listener read from the database may be gone or rewritten
when it writes, and any statement may fail in between. A crash loses everything
in memory and the services restart empty; there is no recovery code. What
survives it is the database, so a crash is an action of the models that have
rows whose writer it can stop (`Submissions`, `MatchRecords`); in `AuthTokens`
and `Social` it is the end of a request before its write commits (`Ends`).

**What makes each component correct.**

- Rooms: a live room has a host who participates; nobody who left leaves a flag
  behind; a room is bound to a match exactly while it is `MATCH_IN_PROGRESS`.
- Matches: begun once, started once, decided once and for good; never two
  undecided ones in a room; the lineup is frozen while a match runs; a match
  that begins is decided.
- Timers: a countdown and a 3 hour timer are pending exactly when there is a
  match for them to act on.
- Sessions: never point at a room that is gone.
- Queue: nobody who could be matched waits; an invited player's lobby exists;
  first come, first served; what friends see is true.
- Parties: the two maps agree; a leading member; nobody outside listens.
- Match records: a row, its timeline and its participants' results say what
  happened to the match and never more; a match is rated for all or for none,
  once; the history ends in the current rating.
- Editor: an operation acts where its author meant it, whatever was applied
  meanwhile; two concurrent operations give one document in either order; a
  replay shows the document.
- Submissions: a verdict is that of the first failing test, or of all; what was
  published is stored; every queued job is decided.
- Tokens: a session has one valid token, does not come back once ended, and ends
  by its own logout or by a revocation that found it.
- Friends: nobody becomes a friend without having asked or accepted; a block is
  lifted only by who saw it.

## 2. Modules

| Module | What it is |
|---|---|
| `RoomMatch` | rooms, matches, both timers, sessions, connections, verdicts |
| `MatchLedger` | the abstract promise about matches; `RoomMatch` implements it |
| `RoomMatchMC` | the size bound and symmetry for the runs of `RoomMatch` |
| `RoomMatchProofs` | theorems about `RoomMatch`, for all constants |
| `Matchmaker` | the queue with its lobbies, acceptance timers and the awaited start |
| `MatchmakerMC` | lobby ids and symmetry |
| `MatchmakerProofs` | theorems about `Matchmaker`, for all constants |
| `Party`, `PartyMC` | parties and the channel their updates go to |
| `PartyProofs` | theorems about `Party`, for all constants |
| `Roster` | participants and members in insertion order |
| `Submissions`, `SubmissionsMC` | the queue, the judge's runs, the submission rows, published verdicts |
| `SubmissionsProofs` | theorems about `Submissions`, for all constants |
| `MatchRecords`, `MatchRecordsMC` | rows of matches, timeline, season, ratings and decay |
| `MatchRecordsProofs` | theorems about `MatchRecords`, for all constants |
| `AuthTokens`, `AuthTokensMC` | one account: password, reset link, refresh tokens |
| `AuthTokensProofs` | theorems about `AuthTokens`, for all constants |
| `Social`, `SocialMC` | requests, friendships, blocks in both services |
| `SocialProofs` | theorems about `Social`, for all constants |
| `Editor`, `EditorMC` | the document of a room, its log, the timeline and the replay |
| `EditorProofs` | theorems about `Editor`, for all constants |

### RoomMatch

One action is one handler, from its guard clauses to its last effect, with
everything the managers and the event listeners do in the same turn.

| Variable | In the code |
|---|---|
| `rooms` | `RoomManager.rooms`; `UNUSED`/`CLOSED` is an id not yet or no longer in the map |
| `matches` | `MatchManager.matches` |
| `countdown` | `CountdownScheduler.timers`, with the match the timer will start |
| `limitTimer` | `matchTimeouts` of `index.ts` |
| `session` | `activeRoomId` in `SessionManager`; `NoSession` before the first connection |
| `online` | `ConnectionRegistry` |
| `presence` | `PresenceService` activity, as far as rooms, matches and sockets set it |

| Action | Handler |
|---|---|
| `Connect`, `DisconnectInRoom`, `DisconnectOutside` | `io.on("connection")`, the two `disconnect` listeners in their order |
| `CreateRoom`, `JoinRoom`, `ToggleReady`, `AssignTeam`, `SelectProblem`, `StartMatch` | `room:*` |
| `LeaveRoom`, `LeaveActiveMatch` | `room:leave` without and with an ACTIVE match |
| `AllocateMatch` | `RoomAllocator.allocate` after its database read, and `MatchCreator.create` |
| `CountdownExpires`, `TimeLimit` | the timers of `CountdownScheduler` and of `MATCH_STARTED` |
| `AcceptedVerdict` | the `submission:updated` listener with an ACCEPTED verdict |

Operators named like `JoinedRoom`, `LeftRoom`, `SessionEnded`, `AbortedMatch`
are the methods of `RoomManager` and `MatchManager`, as functions from a record
to the next one. `CancelCountdown(r)` with `Settled(r)` is
`checkAndCancelCountdown`, which most room handlers call first.

Abstractions:

- A problem is there or not (`BOOLEAN`); `pastMatchIds` is a set.
- `PlayerSession.status` is written and never read, so it is left out.
- `setProblem` and `setStatus` of `RoomManager` have no caller.
- `allocate` resolves and `MatchCreator.create` runs with only microtasks in
  between, so the two are one action. The players need not be online.
- The `submission:updated` listener reads the session again after its `await`,
  so the part that matters is atomic. It checks neither the problem nor the
  time of the submission, and so does not the model: any user whose session is
  in a room may bring an accepted verdict at any time.
- The throw of `setUserConnectionStatus` in the disconnect listener is not
  modelled; `SessionRoomLive` shows that it cannot happen.
- A room or match id is used once (`randomUUID`).
- Editor, chat and database effects of the listeners do not feed back into
  these variables.

### MatchLedger

Four actions on one match (`Begin`, `Start`, `Finish`, `Abort`) and three
variables. It knows no users' sockets, sessions, teams or timers. `RoomMatch`
implements it under the mapping `phase <- status`, `venue <- room`,
`victor <- winner`; its fairness says that an undecided match moves on.

### Matchmaker

| Variable | In the code |
|---|---|
| `state`, `mode`, `lobbyOf` | the fields of `PlayerSession` in `QueueManager.players` |
| `arrived` | the users with a `joinedAt`, in its order |
| `lobbies` | `QueueManager.lobbies` |
| `starting` | the players each pending `executeMatchStart` will write to |
| `online`, `presence` | sockets; activity |

Each private method of `QueueManager` (`Matched` = `attemptMatching` with
`createLobby`, `Dissolved` = `dissolveLobby`, `Declined`, `Left`, `Dequeued`)
is an operator from the queue to the next queue, because they call each other
in one turn: a decline dissolves the lobby, which scans the queue, which may
create new lobbies. Actions are `Connect`, `Disconnect`, `JoinQueue`,
`LeaveQueue`, `AcceptMatch`, `DeclineMatch`, `LobbyTimeout` and `StartReturns`,
the second half of `executeMatchStart`. `RoomActivity` stands for what rooms
and matches write into the presence of the same users.

Abstractions:

- `MATCH_STARTING` is set and replaced in one turn, so it is not a state.
- Two joins in the same millisecond are taken in the order of arrival.
- A lobby id that no lobby and no start has is reused; a record that names a
  deleted lobby holds `GoneLobby`, since the lookup fails whatever the id was.
- `handleReconnect` cancels a grace timer that nothing sets: no effect.
- The acceptance timer may end a lobby at any time while the lobby exists.
  The timer that an accepted lobby leaves pending finds no lobby: no effect.
- `executeMatchStart`'s catch branch needs a failing allocation; the allocator
  falls back to a default problem and does not fail.

### Party

`parties` and `userToParty` as in `PartyManager`; `channel` is the socket.io
room `party:<id>` the user's current socket is in. A dissolved party's id may
be used again, since its invitations are gone with it. A tab takeover (a second
`Connect`) removes the old socket's listeners and gives a socket in no channel.

### Submissions

The api and the judge each link `packages/utils`; `SubmissionQueue` is static
and in memory. The model is one process that holds the api's submit, the queue
and the workers, which is what the code assumes (as separate processes they share
no queue at all, and no job would arrive).

| Variable | In the code |
|---|---|
| `row` | `Submission`, its `SubmissionJob` and results, with the tests that ran over the limit (`overtime`) |
| `asked` | where `POST /submissions` is: rows created, then enqueued, or its answer lost |
| `queue`, `handlers` | the static fields of `SubmissionQueue` |
| `runs` | per job and worker, the await at which `processJob` stands, with results so far |
| `told` | history: what was published on `submission:updated` |
| `backlog`, `crashes` | history: the jobs that waited at the last registration; crashes |

| Action | Code |
|---|---|
| `Register` | `registerWorker` with its `processNext` |
| `CreateSubmission`, `Enqueue` | `SubmissionService.submit` |
| `Read`, `SetRunning`, `Save`, `Publish` | `JudgeWorker.processJob`: each statement, and what is published once its answer is there |
| `Failed`, `PublishFailure` | its catch branch: the statement, which may fail, and then what is published either way |
| `Compiled`, `NotCompiled` | `ExecutionEngine.execute` up to the first test case |
| `Timeout`, `ChildCloses` | `LocalSandbox`: its timer, and the child's close, judged by `Judge` |
| `Throws`, `Crash` | a statement, the engine or a sandbox that throws; the death of the process |

A statement either has no effect, or commits and its answer arrives, or commits
and its answer is lost: that is its step followed by `Throws` (`Throws` is
possible at every await, also between `Save` and `Publish`), for the rows of a
submission `asked` = `"lost"`.

Abstractions: `RUNTIME_ERROR` and `MEMORY_LIMIT_EXCEEDED` of a test case are
`WRONG_ANSWER` (another verdict that is not accepted); the engine's early
refusals are `COMPILATION_ERROR`; a job's rows are there when it is read. The
compiler has no time limit, so its end is not assumed.

### MatchRecords

| Variable | In the code |
|---|---|
| `match` | status and winner in `MatchManager.matches` |
| `row`, `timeline` | `Match` with `MatchParticipant`; `MatchEvent` |
| `creating`, `at` | the await at which the listener of the start, and of the end, of a match stands; `at[Decay]` for the decay job |
| `seen`, `due` | what a transaction or the decay job has read, and whom the job still writes |
| `season`, `cached` | an active `Season`; `activeSeasonId` of `SeasonManager` |
| `rating`, `history` | `UserRating`, as the list of changes its value is made of; `RatingHistory` |

`Start`, `Finish`, `Abort` are the changes of the match in memory with the
listener up to its first `await`; `CreateRow`, `LogStarted` continue
`MATCH_STARTED`; `StoreFinished`, `LogFinished`, `FindSeason`, `CreateSeason`,
`ReadRatings`, `CommitRatings` continue `MATCH_FINISHED` with
`RatingUpdater.handleMatchFinished`; `FindRow`, `StoreAborted`, `LogAborted`
continue `MATCH_ABORTED`; `DecayWakes`, `DecayReads`, `DecayWrites` are the
decay job. `Throws` ends a listener at its statement, `Crash` all of them.

Abstractions: points are not computed, a rating is the list of the matches and
decays it is built from, so a lost update is a missing entry. The rating
transaction reads the values it writes from, and fails at the unique column when
another created the same rating meanwhile. Profile statistics are left out.
`rollOverSeason` has no caller. A crash takes the matches that run; those that
have not started stay for play after the restart, with ratings and a season that
exist and nothing cached. The last row of the history is the last one
committed: `createdAt`, the clock of the database, is not modelled.

### Editor

| Variable | In the code |
|---|---|
| `content`, `log` | `EditorStateDTO.content`, `operationLogs`; the version is the log's length |
| `current`, `begun`, `started`, `exists` | the room's current match; which matches began, left the countdown, have a row |
| `pending`, `stored` | `logMatchEvent` calls in progress; the operations in the timeline of a match |

`Edit` is `editor:change`: transform over the log after the base version, apply,
log, publish. `LogEdit` is the rest of the listener. `BeginMatch`, `StartMatch`,
`CreateRow`, `EndMatch` are what rooms and the `MATCH_STARTED` listener do to the
match. `Replayed` is `getPlaybackStateAt`.

Abstractions: a character is a number used once; events are stamped in the order
of their versions, so an offset in time is a version. The handler's lookup of
the session is left out.

Assumed of clients: the base is a version in `0..Version`, the index is inside
the document of that version, and a delete names the text that stands there.
`editor.handler.ts` checks none of this and `applyOperation` only that the base
is not in the future and that the transformed operation fits; a negative
`baseVersion` would make `log.slice` (`editor.manager.ts:57`) take the tail of
the log. What the document is worth when a client sends something else is not
said by any property here.

### AuthTokens

One account. A request reads, decides and then makes one write; between the two,
any other request may run. A revocation is three steps: the decision,
`BeginsRevoking`, where its `deleteMany` finds the rows that are committed, and
the commit (`RevokeAll`, `SetPassword`), which deletes those it found. PostgreSQL
runs it under READ COMMITTED, so a row that an open rotation or login inserts
meanwhile is not found, and that session lives on. A transaction that sets the
password holds the lock of the user's row between the two, and other updates of
that row wait (`UserLocked`).

| Variable | In the code |
|---|---|
| `password`, `verified`, `link` | `User.passwordHash`, `emailVerified`, `resetPasswordToken` |
| `row` | the `refreshToken` table: absent, valid or expired |
| `pending` | per request, the write that is decided and not made; `seen`, the tokens an open `deleteMany` has found |
| `sent`, `session` | history: reset links mailed; the login a token descends from |

`Register`/`CreateUser`, `Login`/`CreateSession`, `Refresh`/`Rotate` or
`RevokeAll`, `Logout`/`DeleteSession`, `VerifyEmail`/`MarkVerified`,
`ForgotPassword`/`SaveLink`, `ResetPassword` or `ChangePassword`/`SetPassword`
are the methods of `AuthService` as their read and their write; `Ends` is a
request without a write, or one whose transaction is rolled back; `Expire` the
30 days of a row.

Abstractions: hashes and signatures are perfect. A row that is expired while its
JWT is not needs a configured `JWT_REFRESH_EXPIRES_IN` or a clock change, since
both last 30 days; the code handles the case and so does the model. `revokedAt`
is never set.

### Social

`status` is the `UserRelationship` table, one row per ordered pair;
`pending` is what a request decided and holds (`row`, an id); `agreed` is the
history of who asked for or accepted the row that is there. Decisions:
`SendRequest`, `AcceptRequest`, `RemoveRelationship`, `RemoveFriend`,
`DeclineRequest`, `BlockUser`; writes: `CreateRequest`, `Befriend`, `DeleteRow`,
`ClearForBlock` then `CreateBlock`. `SocialService` of the websocket service and
the one of the api service are two processes over one table; where they have the
same conditions they are one action. Ids are never reused: a delete turns the
ids that other requests hold into `NoRow` (`Orphaned`), and a write through it
throws.

## 3. Runs

Passing runs. "States" is the number of distinct states.

| Run | Instance | States | Shows |
|---|---|---|---|
| `RoomMatch_safety` | 3 users, 2 rooms, 2 matches, `BoundedSpec` | 436,304 | Rooms stay well formed, timers are exact, results final, lineup frozen, winner in the room; users in two rooms never get a session, or an undecided match, in a room that is gone |
| `RoomMatch_fair` | 2 users, 1 room, 2 matches, `FairSpec` | 157,000 | Every match is decided; `RoomMatch` implements `MatchLedger` with its fairness |
| `Matchmaker_all` | 4 users, `BoundedSpec` | 607,537 | Modes do not mix, invitations stand, nobody who could be matched waits, order of arrival, also while a start is awaited |
| `Party_all` | 4 users, 2 parties | 12,229 | Membership, lead and channels agree |
| `Submissions_all` | 2 jobs, 2 workers, 1 crash | 273,460 | Verdicts are earned and a late test is one that was late, published verdicts are stored, also when answers of the database are lost; jobs behind a worker are decided; those that waited before it are not caught up |
| `MatchRecords_all` | 2 matches with a common player, 1 decay, 1 crash | 915,968 | Rows, timeline, results, ratings and history agree; a finished match is rated |
| `Editor_all` | 2 users, 2 matches | 249,522 | Operations land where they were meant, in either order; a complete replay is exact |
| `AuthTokens_all` | 3 requests, 3 tokens, 2 passwords, 1 link | 1,235,504 | Sessions do not fork, come back or end each other; a revocation ends what it found |
| `Social_all` | 2 users, 4 requests | 386,443 | Friends by consent; blocks stand |

Runs that refute what the repository says of itself, one property each:

| Run | The code does | The repository says |
|---|---|---|
| `Matchmaker_ghost` | after a start returns over a newer record, a player can be QUEUED without `joinedAt` and is never scanned | `match.builder.ts:19` "Scans the current list of queued players" |
| `AuthTokens_reuse` | rotation deletes the old row, so a rotated token that is used again finds nothing and is refused, and no session is revoked | `docs/AUTH.md:15` "automatically revokes **all** active sessions for that user" |
| `Editor_replay` | operations outside a match, or before its row exists, are not in its timeline, and the replay starts from an empty document | `replay.service.ts:90` "applying OT ops sequentially to construct the document state" |

`QueueDrained` (passing) and `EveryQueuedScanned` (refuted) differ only in the
players without a `joinedAt`: the first says that a scan misses nobody it looks
at, the second that it looks at everybody. `CompleteReplayIsExact` (passing) and
`ReplayIsTheDocument` (refuted) differ in the operations that are missing.

Seen while modelling, in the models as the code has it, without a run of its own:

- A leave that decides an ACTIVE match leaves the room `MATCH_IN_PROGRESS` for
  good (`WS/modules/room/room.handler.ts:168`); no one can join it.
- `room:select-problem` cancels a countdown before it refuses a caller who is
  not the host (`room.handler.ts:296`).
- `finishMatch`, `abortMatch` and `createMatch` set players without a socket
  ONLINE or IN_MATCH (`match.manager.ts:78`); `presence.service.ts:69` says they
  default to OFFLINE.
- A queued player who disconnects is dequeued at once (`queue.manager.ts:199`);
  `matchmaker.integration.test.ts:188` speaks of a grace period.
- After a tab takeover a member's new socket is not in the party channel
  (`WS/index.ts:107`).
- The decay job writes ratings it read before its loop over newer results
  (`rating.updater.ts:176`); the history then has both, the rating the decayed.
- A match aborted before its row is created leaves the row ACTIVE
  (`WS/index.ts:334`); a match finished before it has no result and no rating.
- A block is lifted by the api's decline, which takes any row, and replaced by the
  other user's own block.
- A refresh whose rotation is open, or a login that has verified the old password,
  while a reset or a change of password revokes keeps its session
  (`auth.service.ts:204`, `:235`); `docs/AUTH.md:127` says of the reset that it
  "revokes all active device sessions".
- When the answer to the commit of a verdict is lost, `INTERNAL_ERROR` is
  published (`judge.worker.ts:122`) and the row becomes FAILED with a verdict and
  results in it; if that statement fails too, the row stays COMPLETED.

## 4. Bounds

- `RoomMatch_safety` explores behaviours that grow in one of two directions.
  `OneRoom`: one room, and used matches plus users who ever connected at most
  four, so two matches with two users or one match with three; the interesting
  cases need a second match in the same room (a timer left behind, a rematch) or
  a third user (a host handover while another plays, a spectator), not both.
  `TwoRooms`: two users, two rooms, one match, no spectators, and flags and
  teams fixed in a room that never had a match. The bound is a conjunct of the
  step, so all states within it are explored.
- `MatchIds`, `RoomIds` run out; then starts and allocations are disabled.
  Nothing else depends on how many ids are left.
- `TeamChoices` leaves out blue where red shows the same: the two teams are
  treated alike but for the walkover, and `AllocateMatch` fills both.
- `LobbySizes = {2}`: a lobby of four needs four users, which `Matchmaker_all` has.
- `Matchmaker`: `MaxStarts` bounds the starts that await the database at one
  time. `MatchmakerMC` chooses at the beginning (`starts`): all four players and
  all modes without a start, which is about lobbies of four and dissolving; or
  three solo players (`Fourth` stays away) with one start, since the overwritten
  record needs only one. `LobbyIds` has three ids, and `IdsLeft` lets players
  queue only while two are free: there are at most two lobbies and one start.
  `IdsFor` and `IdsToDissolve` ask of a scan an id for every lobby it creates
  (the code makes a fresh one); in the run `IdsLeft` already sees to it, so they
  cut no step there.
- `Submissions`: one job has two test cases, so that a verdict can come from the
  second, the other one; `SubmissionsMC` has jobs plus workers at most three:
  two jobs with one worker (order, backlog) or one job with two workers
  (`processNext` sends a job to every handler). `MaxCrashes` is 1.
- `MatchRecords`: two matches share a player, so their transactions conflict on
  one rating and not on the others; one decay run and one crash.
- `Editor`: without a match, two users type at most `MaxTyped` = 6 characters in
  at most `MaxVersion` = 4 operations of up to `MaxText` = 3 characters, which is
  enough for an insert inside a deleted piece and two operations to transform
  over; with matches, one user types `MaxMatchVersion` = 3 single characters,
  which is before, in and between two matches.
- `AuthTokens`: two requests race over one session while a third begins or ends
  another; three tokens are a login, its rotation and one more of either.
- `Social`: a pair of users has two rows, which no third user touches; four
  requests hold an old id of one row while it is deleted, made again and answered.

The theorems of section 6 hold without any bound.

Symmetry over users, rooms, matches, parties, requests, tokens and the like is
used for safety runs only. The deadlock check is off where the system may stop:
the runs of `Submissions`, `MatchRecords` and `Editor`, whose jobs, matches and
versions run out.

## 5. Fairness

`RoomMatch!FairSpec` assumes weak fairness of `CountdownExpires(r)` and
`TimeLimit(m)` alone. Both are pending Node timers: as long as nobody clears
them, the event loop fires them. No client call, reconnection or verdict is
assumed ever to come. That is enough for `EveryMatchDecided`: a match in
COUNTDOWN either is cancelled (aborted) or starts, and an ACTIVE match is at the
latest aborted by its 3 hour timer, which `LimitTimerExact` shows to be pending.

`Submissions!Fairness`: the `enqueue` that follows the created rows happens, and
a run moves on at every await but the compiler's, which has no time limit:
statements return or throw, the sandbox timer fires, a killed child closes. No
client is assumed to submit and no worker to register. `EveryJobDecided` then
says that a job that is queued behind a registered worker with no backlog is
COMPLETED or FAILED, and names the three exceptions: the process dies, the
compiler hangs, or the statement that would save the failure fails too. A job
whose rows were created but whose answer was lost is never queued.

`MatchRecords!Fairness`: the listeners' statements return or throw. Matches need
not be played, the decay job need not wake. `FinishedIsRated` says that a match
that finishes with its row ACTIVE is rated, and names the exceptions: a statement
fails, the process dies, or two first updates collide (`dropped`).

## 6. Proofs

### RoomMatch

For every set of users, rooms, matches and lobby sizes, from
`RoomMatchAssumption` only (the null values are not ids, asked teams are teams,
a lobby has at least two players):

| Theorem | |
|---|---|
| `Invariance` | `Spec => []IInv`, the conjunction of the seven invariants |
| `TypeCorrect`, `RoomsStayWellFormed`, `SessionsSound`, `CountdownsSound`, `LimitTimersExact`, `OpenMatchesHosted`, `HistoriesDecided` | each of the seven |
| `ResultsFinal` | `Spec => DecidedForGood` |
| `LineupStaysFrozen`, `WinnersStay` | `Spec => LineupFrozen`, `Spec => WinnerStays` |
| `LedgerSafety` | `Spec => Ledger!SafeSpec`: every step of `RoomMatch` is a step of `MatchLedger` or a stutter |

**The inductive invariant.** None of the seven is inductive alone. A countdown
that expires keeps `LimitTimerExact` only because `CountdownSound` says that its
match is in COUNTDOWN. Ending a room's session on a verdict keeps
`OpenMatchHosted` only because the room has no second undecided match. A leave
keeps `SessionRoomLive` only if the room closes exactly when its last
participant goes, which is `RoomsWellFormed`. `HistoryDecided` ties the current
match of a room to that room, so that deciding it cannot touch another room. All
seven together are inductive.

**The argument.** Every action changes one room record. Lemmas about the record
operators (`JoinedRoomFacts`, `LeftRoomFacts`, `SessionEndedFacts`, ...) say that
they keep a well-formed record and what they do to participants, status and
match; they rest on lemmas about sequences of distinct users (`AppendFacts`,
`WithoutFacts`). Then one lemma per kind of effect on matches:
`EditKeepsIInv` (none), `BeginKeepsIInv` (a fresh match counts down in the
room), `DecideKeepsIInv` (the room's match is finished or aborted), and
`CancelThenEditKeepsIInv` for the handlers that first cancel a countdown. Each
action has a lemma that instantiates one of them; `NextKeepsIInv` collects them.

For `ResultsFinal` and `LedgerSafety` every step is first shown to be a
`MatchStep`: it leaves all matches alone, or begins, starts, finishes or aborts
exactly one that was in the right status. The refinement needs one more
invariant, `Unwon`: a match that is not FINISHED has no winner.

`LineupStaysFrozen` looks at the one room a step changes: a handler that could
touch participants, teams or problem either requires an editable room or works
on the room that `checkAndCancelCountdown` left WAITING; a leave only takes a
participant out. `WinnersStay` needs `SessionRoomLive` (a verdict counts for the
room of the session, so the winner participates), `HistoryDecided` (the match is
the one of that room) and the disjoint teams of `OpenMatchHosted`.

### Party

For every set of users and party ids, from `PartyAssumption` only (the null
values are not ids): `PartyInvariance` (`Spec => []PInv`) and from it
`PartiesTyped`, `MembershipsAgree`, `PartiesLed`, `InvitationsForOthers`,
`ListenersAreMembers`. `PInv` is the conjunction of the five invariants. They
need each other: that a leave removes the user from the right party is
`MembershipAgrees`; that the channel it leaves is that party's is
`OnlyMembersListen`; that a party created under the id of a dissolved one starts
without invitations is `PartyLed`. `Good` says what they ask of one party;
`WithoutMemberFacts` and `JoinedFacts` show that `leaveParty` and `acceptInvite`
keep a party good, `EditKeepsPInv` that a step which changes one party into a
good one and keeps the users in agreement keeps `PInv`.

`LeadsAreInherited` (`Spec => LeadInherited`): when a leader goes, the earliest
member of those who stay leads. `FirstOfTheRest` says of a sequence of distinct
users which one comes first once another is removed; `WithoutInherits` and
`LeaveInherits` apply it to a leave and to a disconnect. No other action takes a
member out, and only `leaveParty` changes the leader (`NextInherits`).

### Matchmaker

For every set of players, modes, lobby ids and number of starts, from
`MatchmakerAssumption` (lobby ids are finitely many positive numbers, `MaxStarts`
is a natural number): `MatchmakerInvariance` (`Spec => []MatchmakerInv`), and
from it

| Theorem | |
|---|---|
| `QueueTyped`, `LobbiesDoWait`, `InvitationsStand`, `FoundMatchesExist`, `QueueIsDrained` | the five invariants of the run |
| `ServedInTurn` | `Spec => FirstComeFirstServed` |

**The inductive invariant** has two parts. `Good` is what every method of
`QueueManager` keeps: who has a `joinedAt` has one place in the order and is not
IDLE (`Placed`), lobbies wait (`Waits`), invitations stand (`Stands`), a shown
MATCH_FOUND has a lobby or a start behind it (`Shown`), and a lobby in the map
does not have the id of a start in progress (`OneOf`), without which the last
acceptance could write over a start and leave its players shown as MATCH_FOUND.
`Drained` is not kept by the methods on their own: `Requeued` and `Joined` put
players back and break it, and the scan that ends the same turn restores it.
So the lemmas say of each method that from a `Good` queue it leads to a `Good`
one (`DequeuedGood`, `RequeuedGood`, `JoinedGood`), and `MatchedGood` that the
scan leads from any `Good` queue to one that is `Drained` as well.

**The argument.** `Kept` is `Array.filter` as a recursive function.
`KeptFacts` says what it returns: the members of both, in their order, each once.
It is proved by induction on the length (`Induction`: a set of naturals that
contains 0 and is closed under the next number contains all, from the
well-foundedness of `<`), after the function that the recursion describes was
shown to exist (`Iteration`). `GroupsFacts` cuts the waiting players into groups
of one mode in the order of arrival; `NewLobbiesFacts` collects those of both
modes, and `MatchedScans` says for each player and each lobby id which record it
has after the scan. What is left over is fewer players than a lobby needs, since
whoever waits afterwards is one of the rest (`FewerAreShorter`). For `ServedInTurn` each step is shown to
create lobbies only by a scan, whose groups are `InTurn`.

### Submissions

For every set of jobs and workers, numbers of test cases and of crashes, from
`SubmissionsAssumption`: `SubmissionsInvariance` (`Spec => []IInv`), and from it
`SubmissionsTyped`, `VerdictsAreEarned`, `ToldAsStored`, `BacklogsStay`. `IInv`
strengthens the properties with what a run carries to its save:

- `RunsJudged`: until it saves, a run has fewer results than test cases; when it
  saves, its verdict is deserved by its results (`OverallDeserved`). Its results
  are late where its tests were, and `late` is that of the test in progress.
- `SentOnce`: a job in the queue has no run, and the queue holds it once; so
  one job is never sent to workers twice.
- `ToldOnce`: as long as one worker alone runs a job, nothing was published
  before that run's last step, the row has the verdict from `Save` to `Publish`,
  and afterwards what was published is in the row.

`NextJobType` and `NextJobKeepsSent` are the lemmas about `processNext` that
registration and enqueue share. `Least` (a set of naturals has a least member)
gives the first failing test that `Overall` chooses.

### MatchRecords

For every set of matches, teams, users, decay runs and crashes, from
`RecordsAssumption` (the two teams of a match are disjoint; null values are not
ids): `RecordsInvariance` (`Spec => []IInv`), and from it `RecordsTyped`,
`RowsAreTrue`, `RatedTogether`, `HistoryIsCurrent`, `TimelineIsTrue`; and
`RowsStayDecided`, which no run repeats: a decided row is never reopened.

- `Stages` says for each await of a listener what match and row are then: the
  end of a match comes after its start, so that a late `create` can only meet a
  row that is not there, and a listener on its way to the ratings to a FINISHED
  row without results.
- `Logs` says which events a timeline may still get, which makes `TimelineTrue`
  inductive.
- `RatedTogetherOnce` counts history rows with `Cardinality`; `RowsOfAppend`,
  `OtherRows` and `FirstRow` say what appending a row does to the count.

### AuthTokens

For every set of requests, tokens, passwords and links: `AuthInvariance`,
`AuthTyped`, `SessionsDoNotFork`, `EndedSessionsStayEnded`,
`SessionsEndOnPurpose`. `StepIsTableStep` reduces every step to one of six things
that can happen to the token table (nothing, a row expires, a session begins, is
renewed, is logged out, a set of tokens is revoked); the properties are then
about these six. That a rotation needs its old row (the `delete` that throws) is
what keeps a session from forking and from coming back. `RevocationEndsFound`
says that a session whose stored token was found has no other one left, which is
`OneTokenPerSession`.

### Social

For every set of users and requests: `SocialInvariance`, `SocialTyped`,
`FriendshipsByConsent`, `BlocksStandFirm`. `IInv` adds to the type invariant
(with what a held id stands for) that a request writes between the users it was
made for (`Named`), that who befriends is the receiver of the row (`Answers`)
and that a pending row was asked for by its sender (`Asked`). `BlocksStandFirm`
uses that a request which read an earlier row holds no id of the block.

### Editor

For every set of user numbers and matches and any bounds on text and versions,
from `EditorAssumption`: `EditorInvariance` (`Spec => []EditorInv`), and from it

| Theorem | |
|---|---|
| `DocumentTyped` | `Spec => []TypeOK`: every operation of the log fits its document, and together they give the content |
| `InsertsKeepPlace`, `DeletesAreExact` | `Spec => []InsertsInPlace`, `Spec => []DeletesWhatItMeant` |
| `OrdersAgree` | `Spec => []OrderIrrelevant` |
| `ReplaysAreExact` | `Spec => []CompleteReplayIsExact` |

**The inductive invariant.** `DocumentsInv` says that each version has a
document, made from the last one by the operation of the log (`Documents`); that
the characters used so far are bounded, so that new ones are new (`Used`); and of
each operation (`Entry`) that it fits, that it `Arrived` (an insert has the same
characters to its left as its author saw there, a delete points at the first
character it meant), that its text is new to every document before it, and, if
its base is the last version or the one before, how it came out of what was sent.
`MatchesInv` is the rest of the type invariant.

**The argument.** `InsertFacts`, `DeleteFacts` and their `...Keeps` say where
every character of a document is after an operation. With them `ReachesNext`
takes one step of the transformation: an operation that stands where its author
meant it in one document does so in the next one. It needs `GoneForGood`: a
character that an operation deleted does not come back, since text is new
whenever it is inserted. `TransformedArrives` repeats the step along the log by
induction, and `EditStep` is the action. `OrdersAgree` compares the two documents
element by element in four cases (`InsertsCommute`, `InsertBeforeDelete`,
`InsertAfterDelete`, `DeletesCommute`); `InsertsCommute` is where the tie of two
inserts at one place is decided by the user's number. `ReplaysAreExact` unrolls
the replay along the log: a complete one applies what `Document` applies, and
nothing throws, because each operation fits.

## 7. Only model-checked

- Liveness: `EveryMatchDecided`, `EveryJobDecided`, `FinishedIsRated` and the
  fairness half of `LedgerImplemented`. They rest on weak fairness, thus on
  ENABLED, which the provers do not handle. What they rest on besides is proved:
  `LimitTimersExact` and `CountdownsSound` say that the timer which
  `EveryMatchDecided` waits for is pending, `LedgerSafety` is the safety half of
  the refinement.

Every other property of a passing run is a theorem for all constants. The
violated ones are single behaviours, which a run shows best.

The type invariants of `RoomMatch`, `Party` (with `InvitesAreForOthers`),
`AuthTokens`, `Social`, `MatchRecords` and `Submissions` are proved and not
listed again in the runs; those of `Matchmaker` and `Editor` are in both.

## 8. Plan

Done: `RoomMatch` and `MatchLedger`, `Matchmaker`, `Party`, `Submissions`,
`MatchRecords`, `Editor`, `AuthTokens` and `Social`, each with its theorems.

Next, in order of weight:

1. `Arena`: `Matchmaker` with `RoomMatch` (the real allocation in
   `StartReturns`, the queue's IN_MATCH after the match) and the notification of
   friends after an `await`.
2. The room conversation that `ROOM_UPDATED` rewrites (`WS/index.ts:186`), one
   transaction per update, with `ChatService.createEntityConversation`.
3. `Submissions` with the verdict listener of `RoomMatch`: which match a verdict
   wins when its user has moved on.

## 9. Not modelled, and why

- Chat: the conversation of a room is planned (2 above); the rest is one
  statement per message.
- `DockerSandbox` (not used by the judge), the language registry, the comparison
  of outputs: processes and text, no shared state.
- Rating and placement points: arithmetic on one player's row at a time; profile
  statistics.
- Identity: read-only lookups with a fallback.
- Problems and profiles: one database statement per request.
- The handshake's token check; message formats, validation, logging.
- The apps: front end skeletons.
- Contracts and the Prisma schema give the models their value sets.
