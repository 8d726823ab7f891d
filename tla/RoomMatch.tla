------------------------------ MODULE RoomMatch ------------------------------
(***************************************************************************)
(* Rooms, matches and player sessions of the websocket service: the        *)
(* RoomManager, MatchManager, CountdownScheduler and SessionManager, the   *)
(* socket handlers of room.handler.ts that drive them, and the connection, *)
(* time limit and verdict listeners of index.ts.                           *)
(*                                                                         *)
(* Every handler runs to completion on Node's single thread before the     *)
(* next event, so one action is one whole handler.  The two timers (the 3  *)
(* second countdown of a room, the 3 hour limit of a match) are events of  *)
(* their own that fire at any time while they are pending.                 *)
(***************************************************************************)
EXTENDS Naturals, FiniteSets, SequencesExt, Roster

CONSTANTS
  Users,        (* the players                                             *)
  RoomIds,      (* room ids; an id is used once, as randomUUID() is fresh  *)
  MatchIds,     (* match ids; used once as well                            *)
  TeamChoices,  (* the teams a client asks for in room:assign-team         *)
  LobbySizes,   (* sizes of the groups the matchmaker hands over           *)
  NoUser, NoRoom, NoSession, NoMatch

Teams == {"red", "blue", "spectator", "none"}

ASSUME RoomMatchAssumption ==
  /\ NoUser \notin Users
  /\ NoRoom \notin RoomIds
  /\ NoSession \notin RoomIds \cup {NoRoom}
  /\ NoMatch \notin MatchIds
  /\ TeamChoices \subseteq Teams
  /\ LobbySizes \subseteq Nat \ {0, 1}

VARIABLES
  rooms,       (* RoomManager.rooms                                        *)
  matches,     (* MatchManager.matches                                     *)
  countdown,   (* CountdownScheduler.timers: the match the timer will start *)
  limitTimer,  (* matchTimeouts of index.ts: matches with a 3 hour timer   *)
  session,     (* PlayerSession.activeRoomId; NoSession before the first   *)
               (* connection of the user                                   *)
  online,      (* users with a registered socket (ConnectionRegistry)      *)
  presence     (* PresenceService activity, as rooms and matches set it    *)

vars == <<rooms, matches, countdown, limitTimer, session, online, presence>>

-----------------------------------------------------------------------------
(* The records the managers keep. *)

OpenRoomStatus  == {"CREATED", "WAITING", "MATCH_IN_PROGRESS"}
OpenMatchStatus == {"COUNTDOWN", "ACTIVE"}
Terminal        == {"FINISHED", "ABORTED"}

(* RoomStateDTO: joined lists the keys of `participants` in insertion      *)
(* order, the other participant fields are sets and a function over Users. *)
Room ==
  [status: OpenRoomStatus \cup {"UNUSED", "CLOSED"},
   host: Users \cup {NoUser}, joined: Seq(Users), ready: SUBSET Users,
   connected: SUBSET Users, team: [Users -> Teams], problem: BOOLEAN,
   match: MatchIds \cup {NoMatch}, past: SUBSET MatchIds]

Match ==
  [status: OpenMatchStatus \cup Terminal \cup {"UNUSED"},
   room: RoomIds \cup {NoRoom}, red: SUBSET Users, blue: SUBSET Users,
   winner: Users \cup {NoUser}, winnerTeam: Teams]

(* A room that is not in the rooms map: not created yet, or deleted. *)
NotInMap(status) ==
  [status |-> status, host |-> NoUser, joined |-> <<>>, ready |-> {},
   connected |-> {}, team |-> [u \in Users |-> "none"], problem |-> FALSE,
   match |-> NoMatch, past |-> {}]

NoMatchYet ==
  [status |-> "UNUSED", room |-> NoRoom, red |-> {}, blue |-> {},
   winner |-> NoUser, winnerTeam |-> "none"]

Participants(room) == ToSet(room.joined)
Live(room)         == room.status \in OpenRoomStatus
IsOpen(match)      == match.status \in OpenMatchStatus
Players(match)     == match.red \cup match.blue

(* Mutant: the check for a match in progress is missing. *)
EditableAnyTime(room) == room.status \in OpenRoomStatus

Editable(room) == room.status \in {"CREATED", "WAITING"}

-----------------------------------------------------------------------------
(* RoomManager: the new value of a room record. *)

CreatedRoom(u, hasProblem) ==
  [NotInMap("CREATED") EXCEPT !.host = u, !.joined = <<u>>, !.ready = {u},
                              !.connected = {u}, !.problem = hasProblem]

JoinedRoom(room, u) ==
  IF u \in Participants(room)
  THEN [room EXCEPT !.connected = @ \cup {u}]
  ELSE [room EXCEPT !.joined = Append(@, u),
                    !.connected = @ \cup {u},
                    !.status = IF @ = "CREATED" THEN "WAITING" ELSE @]

(* Mutant: the host role is not handed over. *)
LeftRoomHostKept(room, u) ==
  LET rest == Without(room.joined, u) IN
  IF u \notin Participants(room) THEN room
  ELSE IF rest = <<>> THEN NotInMap("CLOSED")
  ELSE [room EXCEPT !.joined = rest, !.ready = @ \ {u}, !.connected = @ \ {u},
                    !.team[u] = "none"]

LeftRoom(room, u) ==
  LET rest == Without(room.joined, u)
      heir == IF room.host = u THEN rest[1] ELSE room.host
  IN  IF u \notin Participants(room) THEN room
      ELSE IF rest = <<>> THEN NotInMap("CLOSED")
      ELSE [room EXCEPT !.joined = rest,
                        !.host = heir,
                        !.ready = (@ \ {u}) \cup (IF heir = room.host THEN {} ELSE {heir}),
                        !.connected = @ \ {u},
                        !.team[u] = "none"]

(* Mutant: the match is filed as past when it starts. *)
InMatchFiled(room, m) ==
  [room EXCEPT !.status = "MATCH_IN_PROGRESS", !.match = m, !.past = @ \cup {m}]

InMatch(room, m) == [room EXCEPT !.status = "MATCH_IN_PROGRESS", !.match = m]

(* The room RoomAllocator fills with the players of an accepted lobby. *)
AllocatedRoom(players, teams, m) ==
  InMatch([CreatedRoom(players[1], TRUE) EXCEPT !.joined = players,
                                                !.connected = ToSet(players),
                                                !.team = teams], m)

(* finishMatchSession and abortMatchSession have the same body. *)
SessionEnded(room) ==
  [room EXCEPT !.past = @ \cup ({room.match} \ {NoMatch}),
               !.status = "WAITING", !.match = NoMatch]

ReadyToggled(room, u) ==
  [room EXCEPT !.ready = IF u \in @ THEN @ \ {u} ELSE @ \cup {u}]

ConnectionSet(room, u, isConnected) ==
  IF u \notin Participants(room) THEN room
  ELSE [room EXCEPT !.connected = IF isConnected THEN @ \cup {u} ELSE @ \ {u}]

-----------------------------------------------------------------------------
(* MatchManager: the new value of a match record; and presence. *)

CountdownMatch(r, redTeam, blueTeam) ==
  [status |-> "COUNTDOWN", room |-> r, red |-> redTeam, blue |-> blueTeam,
   winner |-> NoUser, winnerTeam |-> "none"]

StartedMatch(match) == [match EXCEPT !.status = "ACTIVE"]

FinishedMatch(match, u, team) ==
  [match EXCEPT !.status = "FINISHED", !.winner = u, !.winnerTeam = team]

(* Mutant: only the reason of the abort is recorded. *)
AbortUnrecorded(match) == match

AbortedMatch(match) == [match EXCEPT !.status = "ABORTED"]

WithPresence(S, state) ==
  [u \in Users |-> IF u \in S THEN state ELSE presence[u]]

(* MatchEngine.processVerdict credits the team the user plays in, if any. *)
TeamOf(match, u) ==
  CASE u \in match.red  -> "red"
    [] u \in match.blue -> "blue"
    [] OTHER            -> "none"

-----------------------------------------------------------------------------
(* The 3 hour timers: the MATCH_STARTED listener arms one, the             *)
(* MATCH_FINISHED and MATCH_ABORTED listeners clear it.                    *)

(* Mutants: not armed, not cleared. *)
NotArmed(m) == limitTimer
NotCleared(m) == limitTimer

Armed(m) == limitTimer \cup {m}
Cleared(m) == limitTimer \ {m}

(* The participants of room r, whose sessions the 3 hour limit resets. *)

(* Mutant: participants without a connection are forgotten. *)
EvictedConnected(r) == IF r \in RoomIds THEN rooms[r].connected ELSE {}

Evicted(r) == IF r \in RoomIds THEN Participants(rooms[r]) ELSE {}

(* The winner when u leaves an ACTIVE match. *)

(* Mutant: the one who leaves is not filtered out. *)
WalkoverFirst(room, u) == room.joined[1]

WalkoverWinner(room, u) == Without(room.joined, u)[1]

-----------------------------------------------------------------------------
(* checkAndCancelCountdown(r): the room it leaves behind, and its effect   *)
(* on everything else but the rooms.                                       *)

Counting(r) == countdown[r] # NoMatch

Settled(r) == IF Counting(r) THEN SessionEnded(rooms[r]) ELSE rooms[r]

CancelledPlayers(r) ==
  IF Counting(r) /\ rooms[r].match # NoMatch
  THEN Players(matches[rooms[r].match]) ELSE {}

(* Mutant: the match is aborted and the timer left to fire. *)
CancelKeepingTimer(r) ==
  /\ UNCHANGED countdown
  /\ IF Counting(r) /\ rooms[r].match # NoMatch
     THEN /\ matches' = [matches EXCEPT ![rooms[r].match] = AbortedMatch(@)]
          /\ limitTimer' = Cleared(rooms[r].match)
     ELSE UNCHANGED <<matches, limitTimer>>

CancelCountdown(r) ==
  /\ countdown' = [countdown EXCEPT ![r] = NoMatch]
  /\ IF Counting(r) /\ rooms[r].match # NoMatch
     THEN /\ matches' = [matches EXCEPT ![rooms[r].match] = AbortedMatch(@)]
          /\ limitTimer' = Cleared(rooms[r].match)
     ELSE UNCHANGED <<matches, limitTimer>>

-----------------------------------------------------------------------------
Init ==
  /\ rooms = [r \in RoomIds |-> NotInMap("UNUSED")]
  /\ matches = [m \in MatchIds |-> NoMatchYet]
  /\ countdown = [r \in RoomIds |-> NoMatch]
  /\ limitTimer = {}
  /\ session = [u \in Users |-> NoSession]
  /\ online = {}
  /\ presence = [u \in Users |-> "OFFLINE"]

(* io.on("connection"): a second tab kicks the first, whose disconnect     *)
(* listeners are removed, so connecting twice is connecting once.          *)
Connect(u) ==
  /\ online' = online \cup {u}
  /\ presence' = [presence EXCEPT ![u] = "ONLINE"]
  /\ session' = [session EXCEPT ![u] =
       IF @ \in RoomIds /\ Live(rooms[@]) THEN @ ELSE NoRoom]
  /\ rooms' = IF session[u] \in RoomIds
              THEN [rooms EXCEPT ![session[u]] = ConnectionSet(@, u, TRUE)]
              ELSE rooms
  /\ UNCHANGED <<matches, countdown, limitTimer>>

(* The socket is lost while the user is in a room: the room handler's      *)
(* listener runs first, then the one of index.ts.                          *)
DisconnectInRoom(u) ==
  LET r == session[u] IN
  /\ u \in online
  /\ r \in RoomIds
  /\ CancelCountdown(r)
  /\ rooms' = [rooms EXCEPT ![r] = ConnectionSet(Settled(r), u, FALSE)]
  /\ online' = online \ {u}
  /\ presence' = [WithPresence(CancelledPlayers(r), "ONLINE") EXCEPT ![u] = "OFFLINE"]
  /\ UNCHANGED session

DisconnectOutside(u) ==
  /\ u \in online
  /\ session[u] \notin RoomIds
  /\ online' = online \ {u}
  /\ presence' = [presence EXCEPT ![u] = "OFFLINE"]
  /\ UNCHANGED <<rooms, matches, countdown, limitTimer, session>>

-----------------------------------------------------------------------------
(* room.handler.ts *)

CreateRoom(u, r, hasProblem) ==
  /\ u \in online
  /\ rooms[r].status = "UNUSED"
  /\ rooms' = [rooms EXCEPT ![r] = CreatedRoom(u, hasProblem)]
  /\ session' = [session EXCEPT ![u] = r]
  /\ UNCHANGED <<matches, countdown, limitTimer, online, presence>>

JoinRoom(u, r) ==
  /\ u \in online
  /\ Editable(rooms[r])
  /\ rooms' = [rooms EXCEPT ![r] = JoinedRoom(@, u)]
  /\ session' = [session EXCEPT ![u] = r]
  /\ UNCHANGED <<matches, countdown, limitTimer, online, presence>>

(* room:leave when no match of the room is ACTIVE. *)
LeaveRoom(u) ==
  LET r == session[u] IN
  /\ u \in online
  /\ r \in RoomIds
  /\ rooms[r].status = "MATCH_IN_PROGRESS" /\ rooms[r].match # NoMatch
       => matches[rooms[r].match].status # "ACTIVE"
  /\ CancelCountdown(r)
  /\ rooms' = [rooms EXCEPT ![r] = LeftRoom(Settled(r), u)]
  /\ session' = [session EXCEPT ![u] = NoRoom]
  /\ presence' = WithPresence(CancelledPlayers(r), "ONLINE")
  /\ UNCHANGED online

(* room:leave during an ACTIVE match: the first of the remaining           *)
(* participants wins, or the match is aborted when nobody remains.  The    *)
(* MATCH_FINISHED and MATCH_ABORTED listeners clear the 3 hour timer.  The *)
(* room is left MATCH_IN_PROGRESS.                                         *)
LeaveActiveMatch(u) ==
  LET r    == session[u]
      m    == rooms[r].match
      heir == WalkoverWinner(rooms[r], u)
  IN
  /\ u \in online
  /\ r \in RoomIds
  /\ rooms[r].status = "MATCH_IN_PROGRESS"
  /\ m # NoMatch
  /\ matches[m].status = "ACTIVE"
  /\ matches' = [matches EXCEPT ![m] =
       IF Participants(rooms[r]) \subseteq {u} THEN AbortedMatch(@)
       ELSE FinishedMatch(@, heir, IF heir \in @.red THEN "red" ELSE "blue")]
  /\ limitTimer' = Cleared(m)
  /\ presence' = WithPresence(Players(matches[m]), "ONLINE")
  /\ rooms' = [rooms EXCEPT ![r] = LeftRoom(@, u)]
  /\ session' = [session EXCEPT ![u] = NoRoom]
  /\ UNCHANGED <<countdown, online>>

(* room:ready toggles the flag; during a countdown it only cancels it. *)
ToggleReady(u) ==
  LET r == session[u] IN
  /\ u \in online
  /\ r \in RoomIds
  /\ \/ /\ rooms[r].status = "MATCH_IN_PROGRESS"
        /\ Counting(r)
        /\ rooms' = [rooms EXCEPT ![r] = Settled(r)]
        /\ CancelCountdown(r)
        /\ presence' = WithPresence(CancelledPlayers(r), "ONLINE")
     \/ /\ Editable(rooms[r])
        /\ u \in Participants(rooms[r])
        /\ rooms' = [rooms EXCEPT ![r] = ReadyToggled(@, u)]
        /\ UNCHANGED <<matches, countdown, limitTimer, presence>>
  /\ UNCHANGED <<session, online>>

AssignTeam(u, team) ==
  LET r == session[u] IN
  /\ u \in online
  /\ r \in RoomIds
  /\ Editable(Settled(r))
  /\ u \in Participants(rooms[r])
  /\ CancelCountdown(r)
  /\ rooms' = [rooms EXCEPT ![r] = [Settled(r) EXCEPT !.team[u] = team]]
  /\ presence' = WithPresence(CancelledPlayers(r), "ONLINE")
  /\ UNCHANGED <<session, online>>

(* room:select-problem cancels the countdown before RoomManager checks     *)
(* that the caller is the host.                                            *)
SelectProblem(u, hasProblem) ==
  LET r == session[u] IN
  /\ u \in online
  /\ r \in RoomIds
  /\ Editable(Settled(r))
  /\ CancelCountdown(r)
  /\ rooms' = [rooms EXCEPT ![r] =
       IF rooms[r].host = u THEN [Settled(r) EXCEPT !.problem = hasProblem]
       ELSE Settled(r)]
  /\ presence' = WithPresence(CancelledPlayers(r), "ONLINE")
  /\ UNCHANGED <<session, online>>

(* room:start: createMatch, startMatchSession and the countdown timer. *)
StartMatch(u, m) ==
  LET r      == session[u]
      InTeam(t) == {v \in Participants(rooms[r]) : rooms[r].team[v] = t}
  IN
  /\ u \in online
  /\ r \in RoomIds
  /\ rooms[r].host = u
  /\ rooms[r].problem
  /\ Editable(rooms[r])
  /\ InTeam("red") \cup InTeam("blue") \subseteq rooms[r].ready
  /\ matches[m].status = "UNUSED"
  /\ matches' = [matches EXCEPT ![m] = CountdownMatch(r, InTeam("red"), InTeam("blue"))]
  /\ rooms' = [rooms EXCEPT ![r] = InMatch(@, m)]
  /\ countdown' = [countdown EXCEPT ![r] = m]
  /\ presence' = WithPresence(InTeam("red") \cup InTeam("blue"), "IN_MATCH")
  /\ UNCHANGED <<limitTimer, session, online>>

-----------------------------------------------------------------------------
(* RoomAllocator.allocate after its database read, and MatchCreator.create *)
(* in the same turn: a full room for the players of an accepted lobby, who *)
(* need not be connected any more.                                         *)
AllocateMatch(players, r, m) ==
  LET n       == Len(players)
      inRed   == {players[i] : i \in {j \in 1..n : 2 * j <= n + 1}}
      inBlue  == ToSet(players) \ inRed
      teams   == [u \in Users |-> CASE u \in inRed  -> "red"
                                    [] u \in inBlue -> "blue"
                                    [] OTHER        -> "none"]
  IN
  /\ \A i \in 1..n : session[players[i]] # NoSession
  /\ rooms[r].status = "UNUSED"
  /\ matches[m].status = "UNUSED"
  /\ rooms' = [rooms EXCEPT ![r] = AllocatedRoom(players, teams, m)]
  /\ session' = [u \in Users |-> IF u \in ToSet(players) THEN r ELSE session[u]]
  /\ matches' = [matches EXCEPT ![m] = CountdownMatch(r, inRed, inBlue)]
  /\ countdown' = [countdown EXCEPT ![r] = m]
  /\ presence' = WithPresence(ToSet(players), "IN_MATCH")
  /\ UNCHANGED <<limitTimer, online>>

(* The countdown timer of room r expires: the match becomes ACTIVE and the *)
(* MATCH_STARTED listener arms the 3 hour timer.                           *)
CountdownExpires(r) ==
  LET m == countdown[r] IN
  /\ Counting(r)
  /\ countdown' = [countdown EXCEPT ![r] = NoMatch]
  /\ matches' = [matches EXCEPT ![m] = StartedMatch(@)]
  /\ limitTimer' = Armed(m)
  /\ UNCHANGED <<rooms, session, online, presence>>

(* The 3 hour timer of match m fires: the match is aborted, every          *)
(* participant's session forgets its room, the room is deleted.            *)
TimeLimit(m) ==
  LET r == matches[m].room IN
  /\ m \in limitTimer
  /\ limitTimer' = Cleared(m)
  /\ matches' = [matches EXCEPT ![m] = AbortedMatch(@)]
  /\ presence' = WithPresence(Players(matches[m]), "ONLINE")
  /\ session' = [u \in Users |-> IF u \in Evicted(r) THEN NoRoom ELSE session[u]]
  /\ rooms' = [q \in RoomIds |-> IF q = r /\ Live(rooms[q]) THEN NotInMap("CLOSED")
                                 ELSE rooms[q]]
  /\ UNCHANGED <<countdown, online>>

(* An ACCEPTED verdict arrives (submission:updated); it wins the match of  *)
(* the room the user's session points at, whoever is connected.            *)
AcceptedVerdict(u) ==
  LET r == session[u]
      m == rooms[r].match
  IN
  /\ r \in RoomIds
  /\ rooms[r].status = "MATCH_IN_PROGRESS"
  /\ m # NoMatch
  /\ matches[m].status = "ACTIVE"
  /\ matches' = [matches EXCEPT ![m] = FinishedMatch(@, u, TeamOf(@, u))]
  /\ rooms' = [rooms EXCEPT ![r] = SessionEnded(@)]
  /\ limitTimer' = Cleared(m)
  /\ presence' = WithPresence(Players(matches[m]), "ONLINE")
  /\ UNCHANGED <<countdown, session, online>>

-----------------------------------------------------------------------------
(* The groups the matchmaker may hand over. *)
Lobbies == {s \in UNION {[1..n -> Users] : n \in LobbySizes} : IsInjective(s)}

Next ==
  \/ \E u \in Users :
       \/ \E hasProblem \in BOOLEAN : SelectProblem(u, hasProblem)
       \/ Connect(u)
       \/ DisconnectInRoom(u)
       \/ DisconnectOutside(u)
       \/ LeaveRoom(u)
       \/ LeaveActiveMatch(u)
       \/ ToggleReady(u)
       \/ AcceptedVerdict(u)
       \/ \E team \in TeamChoices : AssignTeam(u, team)
       \/ \E r \in RoomIds, hasProblem \in BOOLEAN : CreateRoom(u, r, hasProblem)
       \/ \E r \in RoomIds : JoinRoom(u, r)
       \/ \E m \in MatchIds : StartMatch(u, m)
  \/ \E players \in Lobbies, r \in RoomIds, m \in MatchIds : AllocateMatch(players, r, m)
  \/ \E r \in RoomIds : CountdownExpires(r)
  \/ \E m \in MatchIds : TimeLimit(m)

Spec == Init /\ [][Next]_vars

(* Node fires a pending timer: nothing else is owed by the environment. *)
FairSpec ==
  /\ Spec
  /\ \A r \in RoomIds : WF_vars(CountdownExpires(r))
  /\ \A m \in MatchIds : WF_vars(TimeLimit(m))

-----------------------------------------------------------------------------
(* Properties. *)

(* No handler stores an undefined host, team, winner or match.             *)
TypeOK ==
  /\ rooms \in [RoomIds -> Room]
  /\ matches \in [MatchIds -> Match]
  /\ countdown \in [RoomIds -> MatchIds \cup {NoMatch}]
  /\ limitTimer \subseteq MatchIds
  /\ session \in [Users -> RoomIds \cup {NoRoom, NoSession}]
  /\ online \subseteq Users
  /\ presence \in [Users -> {"OFFLINE", "ONLINE", "IN_MATCH"}]

(* A room in the map has its host among its participants, so the host      *)
(* handover of leaveRoom and the last participant's leave never leave a    *)
(* room that nobody can start; the flags of a participant who left are     *)
(* gone; a room is bound to a match exactly while MATCH_IN_PROGRESS.       *)
WellFormed(room) ==
  /\ IsInjective(room.joined)
  /\ room.ready \cup room.connected \subseteq Participants(room)
  /\ Live(room) => room.host \in Participants(room)
  /\ room.match # NoMatch <=> room.status = "MATCH_IN_PROGRESS"

RoomsWellFormed == \A r \in RoomIds : WellFormed(rooms[r])

(* A session never points at a room that is gone or that the user is not   *)
(* in, so setUserConnectionStatus in the disconnect listener, which is     *)
(* outside any try block, never throws "Room not found".                   *)
SessionRoomLive ==
  \A u \in Users :
    session[u] \in RoomIds =>
      /\ Live(rooms[session[u]])
      /\ u \in Participants(rooms[session[u]])

(* A countdown timer runs exactly for the rooms whose current match is in  *)
(* COUNTDOWN, and it will start that very match: a cancelled, aborted or   *)
(* replaced match can never be started by a timer left behind.             *)
CountdownSound ==
  /\ \A r \in RoomIds :
       Counting(r) =>
         /\ rooms[r].status = "MATCH_IN_PROGRESS"
         /\ rooms[r].match = countdown[r]
         /\ matches[countdown[r]].status = "COUNTDOWN"
  /\ \A m \in MatchIds :
       matches[m].status = "COUNTDOWN" => countdown[matches[m].room] = m

(* The 3 hour timer is pending for exactly the ACTIVE matches, so it never *)
(* aborts a match that was decided and never misses one.                   *)
LimitTimerExact == limitTimer = {m \in MatchIds : matches[m].status = "ACTIVE"}

(* A match in COUNTDOWN or ACTIVE is the current match of its room, which  *)
(* is MATCH_IN_PROGRESS and still holds all its players, on disjoint       *)
(* teams; so a room never runs two matches.                                *)
OpenMatchHosted ==
  \A m \in MatchIds :
    IsOpen(matches[m]) =>
      /\ matches[m].room \in RoomIds
      /\ rooms[matches[m].room].status = "MATCH_IN_PROGRESS"
      /\ rooms[matches[m].room].match = m
      /\ Players(matches[m]) \subseteq Participants(rooms[matches[m].room])
      /\ matches[m].red \cap matches[m].blue = {}

(* The current match of a room belongs to that room, and its past matches  *)
(* were all decided there.                                                 *)
HistoryDecided ==
  \A r \in RoomIds :
    /\ rooms[r].match # NoMatch =>
         /\ matches[rooms[r].match].room = r
         /\ matches[rooms[r].match].status # "UNUSED"
    /\ \A m \in rooms[r].past :
         matches[m].status \in Terminal /\ matches[m].room = r

(* A FINISHED or ABORTED match keeps its result for ever: finishMatch and  *)
(* abortMatch check nothing, and a second verdict, a leave or a timer that *)
(* comes late must not decide the match again.                             *)
DecidedForGood ==
  [][\A m \in MatchIds :
       matches[m].status \in Terminal => matches'[m] = matches[m]]_vars

(* While a match runs the room's lineup is frozen: no step adds a          *)
(* participant, changes a remaining participant's team or the problem.     *)
LineupFrozen ==
  [][\A r \in RoomIds :
       rooms[r].status = "MATCH_IN_PROGRESS" /\ rooms'[r].status = "MATCH_IN_PROGRESS" =>
         /\ Participants(rooms'[r]) \subseteq Participants(rooms[r])
         /\ \A u \in Participants(rooms'[r]) : rooms'[r].team[u] = rooms[r].team[u]
         /\ rooms'[r].problem = rooms[r].problem]_vars

(* The match is won by somebody who is still in the room after the step    *)
(* that decides it, never by the one who leaves, and a winner who plays    *)
(* wins for the own team.                                                  *)
WinnerStays ==
  [][\A m \in MatchIds :
       matches[m].status # "FINISHED" /\ matches'[m].status = "FINISHED" =>
         /\ matches'[m].winner \in Participants(rooms'[matches[m].room])
         /\ \A team \in {"red", "blue"} :
              matches'[m].winner \in (IF team = "red" THEN matches[m].red ELSE matches[m].blue)
                => matches'[m].winnerTeam = team]_vars

(* A match that began is decided: by a verdict, a leave, a cancelled       *)
(* countdown or, at the latest, the 3 hour limit.                          *)
EveryMatchDecided ==
  \A m \in MatchIds : IsOpen(matches[m]) ~> matches[m].status \in Terminal

(* The rooms, timers and listeners implement the promise of MatchLedger. *)
Ledger ==
  INSTANCE MatchLedger WITH
    phase  <- [m \in MatchIds |-> matches[m].status],
    venue  <- [m \in MatchIds |-> matches[m].room],
    victor <- [m \in MatchIds |-> matches[m].winner]

LedgerImplemented == Ledger!Spec
=============================================================================
