------------------------------ MODULE Matchmaker ------------------------------
(***************************************************************************)
(* The matchmaking queue of the websocket service: QueueManager with its   *)
(* MatchBuilder, driven by the handlers of matchmaker.handler.ts, the      *)
(* connection listeners of index.ts and the 15 second acceptance timers.   *)
(*                                                                         *)
(* One handler is one action, with one exception: executeMatchStart awaits *)
(* RoomAllocator.allocate (a database read), so it is two actions, and     *)
(* everything may happen in between.                                       *)
(***************************************************************************)
EXTENDS Naturals, FiniteSets, SequencesExt

CONSTANTS
  Users,        (* the players                                             *)
  ModeChoices,  (* the modes a client asks for in queue:join               *)
  LobbyIds,     (* positive numbers; an id that no lobby and no start in   *)
                (* progress has is as good as a fresh one                  *)
  MaxStarts     (* bound on the starts in progress at a time               *)

NoLobby == 0

ASSUME MatchmakerAssumption ==
  /\ LobbyIds \subseteq Nat \ {NoLobby} /\ IsFiniteSet(LobbyIds)
  /\ MaxStarts \in Nat

(* The id of a lobby that was deleted but not forgotten by its players:    *)
(* the lookup fails whatever the id.                                       *)
GoneLobby == CHOOSE l \in 1..(Cardinality(LobbyIds) + 1) : l \notin LobbyIds

VARIABLES
  state,      (* PlayerSession.state; IDLE when there is no record         *)
  mode,       (* PlayerSession.mode                                        *)
  arrived,    (* the users with a joinedAt, in its order                   *)
  lobbyOf,    (* PlayerSession.matchLobbyId                                *)
  lobbies,    (* QueueManager.lobbies                                      *)
  starting,   (* the players of each executeMatchStart that is awaiting    *)
  online,     (* users with a socket                                       *)
  presence    (* PresenceService activity                                  *)

vars == <<state, mode, arrived, lobbyOf, lobbies, starting, online, presence>>

QueueStates == {"IDLE", "QUEUED", "MATCH_FOUND", "ACCEPTING", "ROOM_CREATED", "IN_MATCH"}
Activities  == {"OFFLINE", "ONLINE", "IN_QUEUE", "MATCH_FOUND", "IN_MATCH"}

Lobby        == [players: Seq(Users), accepted: SUBSET Users]
NotInMap     == [players |-> <<>>, accepted |-> {}]
Live(lobby)  == lobby.players # <<>>
Members(lobby) == ToSet(lobby.players)

(* What the handlers read and change, as one record: each QueueManager     *)
(* method is an operator from such a record to the next one.               *)
Queue ==
  [state |-> state, mode |-> mode, arrived |-> arrived, lobbyOf |-> lobbyOf,
   lobbies |-> lobbies, presence |-> presence]

(* The one next record is bound by a quantifier so that TLC evaluates it   *)
(* once.                                                                   *)
Becomes(q) ==
  \E next \in {q} :
    /\ state' = next.state
    /\ mode' = next.mode
    /\ arrived' = next.arrived
    /\ lobbyOf' = next.lobbyOf
    /\ lobbies' = next.lobbies
    /\ presence' = next.presence

Set(f, S, x) == [u \in Users |-> IF u \in S THEN x ELSE f[u]]

(* Array.filter: the elements of s that are in S, in their order. *)
Kept(s, S) ==
  LET kept[n \in 0..Len(s)] ==
        IF n = 0 THEN <<>>
        ELSE IF s[n] \in S THEN Append(kept[n - 1], s[n])
        ELSE kept[n - 1]
  IN kept[Len(s)]

Without(s, u) == Kept(s, Users \ {u})

-----------------------------------------------------------------------------
(* attemptMatching and createLobby. *)

Required(m) == IF m = "2v2" THEN 4 ELSE 2

(* Mutant: the mode is ignored. *)
WaitingAnyMode(q, m) == Kept(q.arrived, {u \in Users : q.state[u] = "QUEUED"})

(* The queued players of a mode, first come first; a player without a      *)
(* joinedAt is skipped.                                                    *)
Waiting(q, m) ==
  Kept(q.arrived, {u \in Users : q.state[u] = "QUEUED" /\ q.mode[u] = m})

Groups(q, m) ==
  LET w == Waiting(q, m)
      k == Required(m)
  IN  [i \in 1..(Len(w) \div k) |-> SubSeq(w, (i - 1) * k + 1, i * k)]

NewLobbies(q) == Groups(q, "solo") \o Groups(q, "2v2")

FreeIds(q) ==
  {l \in LobbyIds :
     /\ ~Live(lobbies[l]) /\ ~Live(q.lobbies[l])
     /\ starting[l] = <<>>}

(* Bounds: a scan finds an id for every new lobby, and players queue only   *)
(* while there are two, so that a later scan finds one.                    *)
IdsFor(q) == Len(NewLobbies(q)) <= Cardinality(FreeIds(q))
IdsLeft == Cardinality(FreeIds(Queue)) >= 2

Matched(q) ==
  LET groups  == NewLobbies(q)
      ids     == SetToSeq(FreeIds(q))
      group(l) == {i \in DOMAIN groups : ids[i] = l}
      invited == UNION {ToSet(groups[i]) : i \in DOMAIN groups}
      lobby(u) == ids[CHOOSE i \in DOMAIN groups : u \in ToSet(groups[i])]
  IN  [q EXCEPT
         !.lobbies  = [l \in LobbyIds |->
                         IF group(l) = {} THEN q.lobbies[l]
                         ELSE [players |-> groups[CHOOSE i \in group(l) : TRUE],
                               accepted |-> {}]],
         !.state    = Set(@, invited, "MATCH_FOUND"),
         !.lobbyOf  = [u \in Users |-> IF u \in invited THEN lobby(u) ELSE @[u]],
         !.presence = Set(@, invited, "MATCH_FOUND")]

(* Mutants of dissolveLobby: the others keep their state; their activity;  *)
(* the queue is not scanned again.                                         *)
DissolvedLeavingState(q, l, blamed) ==
  [q EXCEPT !.lobbies[l] = NotInMap,
            !.lobbyOf = Set(@, Members(q.lobbies[l]), NoLobby),
            !.state[blamed] = "IDLE", !.arrived = Without(@, blamed),
            !.presence[blamed] = "ONLINE"]

DissolvedLeavingPresence(q, l, blamed) ==
  [q EXCEPT !.lobbies[l] = NotInMap,
            !.lobbyOf = Set(@, Members(q.lobbies[l]), NoLobby),
            !.state = Set(Set(@, Members(q.lobbies[l]), "QUEUED"), {blamed}, "IDLE"),
            !.arrived = Without(@, blamed), !.presence[blamed] = "ONLINE"]

DissolvedUnmatched(q, l, blamed) ==
  [DissolvedLeavingPresence(q, l, blamed) EXCEPT
     !.presence = Set(Set(@, Members(q.lobbies[l]), "IN_QUEUE"), {blamed}, "ONLINE")]

(* dissolveLobby: the one to blame is out, the others wait again at their  *)
(* old place ...                                                           *)
Requeued(q, l, blamed) ==
  LET members == Members(q.lobbies[l])
      out     == members \cap {blamed}
  IN  [q EXCEPT
         !.lobbies[l] = NotInMap,
         !.lobbyOf  = Set(@, members, NoLobby),
         !.state    = Set(Set(@, members, "QUEUED"), out, "IDLE"),
         !.arrived  = IF out = {} THEN @ ELSE Without(@, blamed),
         !.presence = Set(Set(@, members, "IN_QUEUE"), out, "ONLINE")]

(* ... and the queue is scanned. *)
Dissolved(q, l, blamed) == Matched(Requeued(q, l, blamed))

IdsToDissolve(l, blamed) ==
  l \in LobbyIds => IdsFor(Requeued(Queue, l, blamed))

-----------------------------------------------------------------------------
(* leaveQueue and declineMatch, which call each other. *)

(* Mutant: joinedAt is not reset. *)
DequeuedKeepingPlace(q, u) ==
  [q EXCEPT !.state[u] = "IDLE", !.presence[u] = "ONLINE"]

Dequeued(q, u) ==
  [q EXCEPT !.state[u] = "IDLE", !.arrived = Without(@, u), !.presence[u] = "ONLINE"]

Declined(q, u) ==
  CASE q.lobbyOf[u] = NoLobby /\ q.state[u] = "QUEUED" -> Dequeued(q, u)
    [] q.lobbyOf[u] \in LobbyIds ->
         Dissolved(q, q.lobbyOf[u], u)
    [] OTHER -> q

Left(q, u) ==
  CASE q.state[u] = "IDLE" -> q
    [] q.state[u] \in {"MATCH_FOUND", "ACCEPTING"} -> Declined(q, u)
    [] OTHER -> Dequeued(q, u)

-----------------------------------------------------------------------------
Init ==
  /\ state = [u \in Users |-> "IDLE"]
  /\ mode = [u \in Users |-> "solo"]
  /\ arrived = <<>>
  /\ lobbyOf = [u \in Users |-> NoLobby]
  /\ lobbies = [l \in LobbyIds |-> NotInMap]
  /\ starting = [l \in LobbyIds |-> <<>>]
  /\ online = {}
  /\ presence = [u \in Users |-> "OFFLINE"]

(* handleReconnect cancels a grace timer that nothing ever sets. *)
Connect(u) ==
  /\ online' = online \cup {u}
  /\ presence' = [presence EXCEPT ![u] = "ONLINE"]
  /\ UNCHANGED <<state, mode, arrived, lobbyOf, lobbies, starting>>

Disconnect(u) ==
  /\ u \in online
  /\ online' = online \ {u}
  /\ IdsToDissolve(lobbyOf[u], u)
  /\ Becomes([Left(Queue, u) EXCEPT !.presence[u] = "OFFLINE"])
  /\ UNCHANGED starting

(* A new record replaces the old one, lobby and all. *)
Joined(q, u, m) ==
  [q EXCEPT !.state[u] = "QUEUED", !.mode[u] = m, !.lobbyOf[u] = NoLobby,
            !.arrived = Append(Without(@, u), u), !.presence[u] = "IN_QUEUE"]

JoinQueue(u, m) ==
  /\ u \in online
  /\ state[u] = "IDLE"
  /\ IdsLeft /\ IdsFor(Joined(Queue, u, m))
  /\ Becomes(Matched(Joined(Queue, u, m)))
  /\ UNCHANGED <<starting, online>>

LeaveQueue(u) ==
  /\ u \in online
  /\ IdsToDissolve(lobbyOf[u], u)
  /\ Becomes(Left(Queue, u))
  /\ UNCHANGED <<starting, online>>

DeclineMatch(u) ==
  /\ u \in online
  /\ IdsToDissolve(lobbyOf[u], u)
  /\ Becomes(Declined(Queue, u))
  /\ UNCHANGED <<starting, online>>

(* Mutant: the count is taken before the acceptance is added. *)
AllAcceptedBefore(lobby, accepted) == Cardinality(lobby.accepted) = Len(lobby.players)

AllAccepted(lobby, accepted) == Cardinality(accepted) = Len(lobby.players)

(* match:accept; the last acceptance runs executeMatchStart up to its      *)
(* await.                                                                  *)
AcceptMatch(u) ==
  LET l        == lobbyOf[u]
      accepted == lobbies[l].accepted \cup {u}
      members  == Members(lobbies[l])
  IN
  /\ u \in online
  /\ state[u] = "MATCH_FOUND"
  /\ l \in LobbyIds
  /\ \/ /\ ~AllAccepted(lobbies[l], accepted)
        /\ state' = [state EXCEPT ![u] = "ACCEPTING"]
        /\ lobbies' = [lobbies EXCEPT ![l].accepted = accepted]
        /\ UNCHANGED <<lobbyOf, starting>>
     \/ /\ AllAccepted(lobbies[l], accepted)
        /\ Cardinality({k \in LobbyIds : starting[k] # <<>>}) < MaxStarts
        /\ state' = Set(state, members, "ROOM_CREATED")
        /\ lobbies' = [lobbies EXCEPT ![l] = NotInMap]
        /\ starting' = [starting EXCEPT ![l] = lobbies[l].players]
        /\ lobbyOf' = [v \in Users |-> IF lobbyOf[v] = l THEN GoneLobby ELSE lobbyOf[v]]
  /\ UNCHANGED <<mode, arrived, online, presence>>

(* allocate returns: room and match exist, and every player is IN_MATCH,   *)
(* whatever the player did in the meantime.                                *)
StartReturns(l) ==
  /\ starting[l] # <<>>
  /\ starting' = [starting EXCEPT ![l] = <<>>]
  /\ state' = Set(state, ToSet(starting[l]), "IN_MATCH")
  /\ presence' = Set(presence, ToSet(starting[l]), "IN_MATCH")
  /\ UNCHANGED <<mode, arrived, lobbyOf, lobbies, online>>

(* The 15 second timer: the first player who has not accepted is to blame. *)
LobbyTimeout(l) ==
  LET players == lobbies[l].players
      late    == Kept(players, Users \ lobbies[l].accepted)
      blamed  == IF late = <<>> THEN players[1] ELSE late[1]
  IN
  /\ Live(lobbies[l])
  /\ IdsToDissolve(l, blamed)
  /\ Becomes(Dissolved(Queue, l, blamed))
  /\ UNCHANGED <<starting, online>>

(* Rooms and matches set the activity of their players as well. *)
RoomActivity(u, activity) ==
  /\ presence' = [presence EXCEPT ![u] = activity]
  /\ UNCHANGED <<state, mode, arrived, lobbyOf, lobbies, starting, online>>

Next ==
  \/ \E u \in Users :
       \/ Connect(u)
       \/ Disconnect(u)
       \/ LeaveQueue(u)
       \/ AcceptMatch(u)
       \/ DeclineMatch(u)
       \/ \E m \in ModeChoices : JoinQueue(u, m)
       \/ \E activity \in {"ONLINE", "IN_MATCH"} : RoomActivity(u, activity)
  \/ \E l \in LobbyIds : StartReturns(l) \/ LobbyTimeout(l)

Spec == Init /\ [][Next]_vars

-----------------------------------------------------------------------------
(* Properties. *)

(* Records name users, lobbies and starts that exist; a joinedAt is kept   *)
(* only while the player is not IDLE.                                      *)
TypeOK ==
  /\ state \in [Users -> QueueStates]
  /\ mode \in [Users -> ModeChoices \cup {"solo"}]
  /\ arrived \in Seq({u \in Users : state[u] # "IDLE"}) /\ IsInjective(arrived)
  /\ lobbyOf \in [Users -> LobbyIds \cup {NoLobby, GoneLobby}]
  /\ lobbies \in [LobbyIds -> Lobby]
  /\ starting \in [LobbyIds -> Seq(Users)]
  /\ online \subseteq Users
  /\ presence \in [Users -> Activities]

(* A lobby in the map waits for somebody: it holds as many distinct        *)
(* players as its mode needs, and not all of them have accepted (else      *)
(* acceptMatch would have started it and nobody could any more).           *)
LobbiesWait ==
  \A l \in LobbyIds :
    Live(lobbies[l]) =>
      /\ IsInjective(lobbies[l].players)
      /\ Len(lobbies[l].players) \in {2, 4}
      /\ lobbies[l].accepted \subseteq Members(lobbies[l])
      /\ lobbies[l].accepted # Members(lobbies[l])

(* A player who is asked to accept, or has accepted, is in the lobby that  *)
(* the record names and it still exists: otherwise match:accept,           *)
(* match:decline and queue:leave all return without doing anything and the *)
(* player is stuck.                                                        *)
InvitationStands ==
  \A u \in Users :
    state[u] \in {"MATCH_FOUND", "ACCEPTING"} =>
      /\ lobbyOf[u] \in LobbyIds
      /\ u \in Members(lobbies[lobbyOf[u]])
      /\ u \in lobbies[lobbyOf[u]].accepted <=> state[u] = "ACCEPTING"

(* Friends who see MATCH_FOUND see the truth: the player is in a lobby or  *)
(* in a start that is awaiting its room.                                   *)
FoundIsShown ==
  \A u \in Users :
    presence[u] = "MATCH_FOUND" =>
      \E l \in LobbyIds : u \in Members(lobbies[l]) \cup ToSet(starting[l])

(* After every handler the queue is drained: players who could be matched  *)
(* are never left waiting.                                                 *)
QueueDrained == \A m \in {"solo", "2v2"} : Len(Waiting(Queue, m)) < Required(m)

Before(s, u, v) == \E i, j \in DOMAIN s : i < j /\ s[i] = u /\ s[j] = v

(* First come, first served: the players of a new lobby are of one mode    *)
(* and stand in the order in which they queued, a player whom a dissolved  *)
(* lobby sent back at the old place: the first one is blamed first and     *)
(* hosts the room.                                                         *)
FirstComeFirstServed ==
  [][\A l \in LobbyIds :
       LET players == lobbies'[l].players IN
       ~Live(lobbies[l]) /\ Live(lobbies'[l]) =>
         \A i, j \in DOMAIN players :
           i < j => /\ Before(arrived', players[i], players[j])
                    /\ mode'[players[i]] = mode'[players[j]]]_vars

-----------------------------------------------------------------------------
(* What the repository says of the program and the code does not do. *)

(* findMatches "Scans the current list of queued players and forms match   *)
(* groups": after a scan, fewer QUEUED players of a mode are left than a   *)
(* match needs.                                                            *)
EveryQueuedScanned ==
  \A m \in {"solo", "2v2"} :
    Cardinality({u \in Users : state[u] = "QUEUED" /\ mode[u] = m}) < Required(m)
=============================================================================
