--------------------------- MODULE RoomMatchProofs ---------------------------
(***************************************************************************)
(* The invariants of RoomMatch for any number of users, rooms and matches. *)
(* IInv is the conjunction of the invariants that the runs check: each     *)
(* needs the others to be inductive (a leave keeps SessionRoomLive only in *)
(* a well-formed room, a verdict keeps OpenMatchHosted only because a room *)
(* never runs two matches, and so on).                                     *)
(*                                                                         *)
(* Every action changes one room r to some record R.  Three lemmas cover   *)
(* what the actions do to matches: EditKeepsIInv (none), BeginKeepsIInv (a *)
(* fresh match starts its countdown in r), DecideKeepsIInv (the match of r *)
(* is finished or aborted).  CountdownExpires is on its own.               *)
(*                                                                         *)
(* From IInv follow the action properties DecidedForGood, LineupFrozen and *)
(* WinnerStays, and that RoomMatch implements the steps of MatchLedger.    *)
(***************************************************************************)
EXTENDS RoomMatch, TLAPS

IInv ==
  /\ TypeOK
  /\ RoomsWellFormed
  /\ SessionRoomLive
  /\ CountdownSound
  /\ LimitTimerExact
  /\ OpenMatchHosted
  /\ HistoryDecided

-----------------------------------------------------------------------------
(* Rosters: what adding and removing a user does to the members, their     *)
(* distinctness and the first of them.                                     *)

(* Appending a user who is not in the sequence (joinRoom). *)
LEMMA AppendFacts ==
  ASSUME NEW S, NEW s \in Seq(S), NEW u \in S
  PROVE  /\ Append(s, u) \in Seq(S)
         /\ ToSet(Append(s, u)) = ToSet(s) \cup {u}
         /\ IsInjective(s) /\ u \notin ToSet(s) => IsInjective(Append(s, u))
<1> DEFINE t == Append(s, u)
<1>1. /\ t \in Seq(S) /\ Len(t) = Len(s) + 1
      /\ \A i \in 1..Len(s) : t[i] = s[i]
      /\ t[Len(s) + 1] = u
  OBVIOUS
<1>2. DOMAIN s = 1..Len(s) /\ DOMAIN t = 1..Len(t) /\ Len(s) \in Nat
  BY <1>1
<1> HIDE DEF t
<1>3. ToSet(t) \subseteq ToSet(s) \cup {u}
  BY <1>1, <1>2 DEF ToSet
<1>4. ToSet(s) \subseteq ToSet(t)
  BY <1>1, <1>2 DEF ToSet
<1>5. u \in ToSet(t)
  BY <1>1, <1>2 DEF ToSet
<1>6. IsInjective(s) /\ u \notin ToSet(s) => IsInjective(t)
  BY <1>1, <1>2 DEF ToSet, IsInjective
<1> QED
  BY <1>1, <1>3, <1>4, <1>5, <1>6 DEF t

(* Removing a user (leaveRoom): the others stay, in order. *)
LEMMA WithoutFacts ==
  ASSUME NEW S, NEW s \in Seq(S), NEW u, IsInjective(s)
  PROVE  /\ Without(s, u) \in Seq(S)
         /\ ToSet(Without(s, u)) = ToSet(s) \ {u}
         /\ IsInjective(Without(s, u))
<1>1. CASE u \notin ToSet(s)
  BY <1>1 DEF Without
<1>2. CASE u \in ToSet(s)
  <2> DEFINE k == CHOOSE i \in DOMAIN s : s[i] = u
             w == RemoveAt(s, k)
  <2>1. k \in 1..Len(s) /\ s[k] = u
    BY <1>2 DEF ToSet
  <2>2. Without(s, u) = w
    BY <1>2 DEF Without
  <2> HIDE DEF k
  <2> DEFINE a == SubSeq(s, 1, k-1)
             b == SubSeq(s, k+1, Len(s))
  <2>3. /\ a \in Seq(S) /\ Len(a) = k - 1 /\ \A i \in 1..(k-1) : a[i] = s[i]
    BY <2>1
  <2>4. /\ b \in Seq(S) /\ Len(b) = Len(s) - k /\ \A i \in 1..(Len(s)-k) : b[i] = s[k + i]
    BY <2>1
  <2>5. w = a \o b
    BY DEF RemoveAt
  <2> HIDE DEF a, b
  <2>6. w \in Seq(S) /\ Len(w) = Len(s) - 1
    BY <2>1, <2>3, <2>4, <2>5
  <2>7. \A i \in 1..(Len(s)-1) : w[i] = IF i < k THEN s[i] ELSE s[i + 1]
    BY <2>1, <2>3, <2>4, <2>5
  <2> HIDE DEF w
  <2>8. DOMAIN w = 1..(Len(s)-1) /\ DOMAIN s = 1..Len(s) /\ Len(s) \in Nat
    BY <2>6
  <2>9. IsInjective(w)
    BY <2>1, <2>7, <2>8 DEF IsInjective
  <2>10. ToSet(w) \subseteq ToSet(s) \ {u}
    BY <2>1, <2>7, <2>8 DEF IsInjective, ToSet
  <2>11. ASSUME NEW x \in ToSet(s) \ {u} PROVE x \in ToSet(w)
    <3>1. PICK j \in 1..Len(s) : s[j] = x
      BY <2>8, <2>11 DEF ToSet
    <3>2. CASE j < k
      BY <2>1, <2>7, <2>8, <3>1, <3>2 DEF ToSet
    <3>3. CASE j > k
      <4>1. j - 1 \in DOMAIN w /\ w[j - 1] = s[j]
        BY <2>1, <2>7, <2>8, <3>1, <3>3
      <4> QED
        BY <3>1, <4>1 DEF ToSet
    <3> QED
      BY <2>1, <2>11, <3>1, <3>2, <3>3
  <2> QED
    BY <2>2, <2>6, <2>9, <2>10, <2>11
<1> QED
  BY <1>1, <1>2

(* A nonempty sequence starts with one of its elements. *)
LEMMA FirstFacts ==
  ASSUME NEW S, NEW s \in Seq(S)
  PROVE  /\ s # <<>> => s[1] \in ToSet(s) /\ s[1] \in S
         /\ s = <<>> <=> ToSet(s) = {}
         /\ ToSet(s) \subseteq S
<1>1. DOMAIN s = 1..Len(s) /\ Len(s) \in Nat /\ (s # <<>> => Len(s) > 0)
  OBVIOUS
<1>2. s # <<>> => s[1] \in ToSet(s) /\ s[1] \in S
  BY <1>1 DEF ToSet
<1>3. s = <<>> => ToSet(s) = {}
  BY <1>1 DEF ToSet
<1>4. ToSet(s) \subseteq S
  BY DEF ToSet
<1> QED
  BY <1>2, <1>3, <1>4

-----------------------------------------------------------------------------
(* What RoomManager returns: each operation on a well-formed room record    *)
(* yields a well-formed room record, and what it does to the participants. *)

(* A room that is not in the map is a well-formed record without participants. *)
LEMMA NotInMapFacts ==
  ASSUME NEW status \in {"UNUSED", "CLOSED", "CREATED"}
  PROVE  /\ NotInMap(status) \in Room
         /\ Participants(NotInMap(status)) = {}
         /\ status # "CREATED" => WellFormed(NotInMap(status))
<1>1. NotInMap(status) \in Room
  BY DEF NotInMap, Room, OpenRoomStatus, Teams
<1>2. Participants(NotInMap(status)) = {} /\ IsInjective(NotInMap(status).joined)
  BY DEF NotInMap, Participants, ToSet, IsInjective
<1>3. status # "CREATED" => WellFormed(NotInMap(status))
  BY <1>2 DEF WellFormed, NotInMap, Live, OpenRoomStatus
<1> QED
  BY <1>1, <1>2, <1>3

(* Assigning one field of a room record. *)
LEMMA RoomFieldFacts ==
  ASSUME NEW room \in Room
  PROVE  /\ \A x \in OpenRoomStatus : [room EXCEPT !.status = x] \in Room
         /\ \A x \in Users : [room EXCEPT !.host = x] \in Room
         /\ \A x \in Seq(Users) : [room EXCEPT !.joined = x] \in Room
         /\ \A x \in SUBSET Users : [room EXCEPT !.ready = x] \in Room
         /\ \A x \in SUBSET Users : [room EXCEPT !.connected = x] \in Room
         /\ \A x \in [Users -> Teams] : [room EXCEPT !.team = x] \in Room
         /\ \A x \in BOOLEAN : [room EXCEPT !.problem = x] \in Room
         /\ \A x \in MatchIds \cup {NoMatch} : [room EXCEPT !.match = x] \in Room
         /\ \A x \in SUBSET MatchIds : [room EXCEPT !.past = x] \in Room
<1>1. \A x \in OpenRoomStatus : [room EXCEPT !.status = x] \in Room
  BY DEF Room
<1>2. \A x \in Users : [room EXCEPT !.host = x] \in Room
  BY DEF Room
<1>3. \A x \in Seq(Users) : [room EXCEPT !.joined = x] \in Room
  BY DEF Room
<1>4. \A x \in SUBSET Users : [room EXCEPT !.ready = x] \in Room
  BY DEF Room
<1>5. \A x \in SUBSET Users : [room EXCEPT !.connected = x] \in Room
  BY DEF Room
<1>6. \A x \in [Users -> Teams] : [room EXCEPT !.team = x] \in Room
  BY DEF Room
<1>7. \A x \in BOOLEAN : [room EXCEPT !.problem = x] \in Room
  BY DEF Room
<1>8. \A x \in MatchIds \cup {NoMatch} : [room EXCEPT !.match = x] \in Room
  BY DEF Room
<1>9. \A x \in SUBSET MatchIds : [room EXCEPT !.past = x] \in Room
  BY DEF Room
<1> QED
  BY <1>1, <1>2, <1>3, <1>4, <1>5, <1>6, <1>7, <1>8, <1>9

(* createRoom: well formed, with the creator as its only participant. *)
LEMMA CreatedRoomFacts ==
  ASSUME NEW u \in Users, NEW hasProblem \in BOOLEAN
  PROVE  LET R == CreatedRoom(u, hasProblem) IN
         /\ R \in Room /\ WellFormed(R) /\ Live(R)
         /\ R.status = "CREATED" /\ R.match = NoMatch /\ R.past = {} /\ R.host = u
         /\ Participants(R) = {u}
<1> DEFINE R  == CreatedRoom(u, hasProblem)
           R1 == [NotInMap("CREATED") EXCEPT !.host = u]
           R2 == [R1 EXCEPT !.joined = <<u>>]
           R3 == [R2 EXCEPT !.ready = {u}]
           R4 == [R3 EXCEPT !.connected = {u}]
<1>1. R = [R4 EXCEPT !.problem = hasProblem]
  BY DEF CreatedRoom
<1>2. ToSet(<<u>>) = {u} /\ IsInjective(<<u>>) /\ <<u>> \in Seq(Users)
  BY DEF ToSet, IsInjective
<1>3. R1 \in Room
  BY NotInMapFacts, RoomFieldFacts
<1>4. R2 \in Room
  BY <1>2, <1>3, RoomFieldFacts
<1>5. R3 \in Room
  BY <1>4, RoomFieldFacts
<1>6. R4 \in Room
  BY <1>5, RoomFieldFacts
<1>7. R \in Room
  BY <1>1, <1>6, RoomFieldFacts
<1>8. /\ R.status = "CREATED" /\ R.match = NoMatch /\ R.past = {} /\ R.host = u
      /\ R.joined = <<u>> /\ R.ready = {u} /\ R.connected = {u}
  BY DEF CreatedRoom, NotInMap
<1> HIDE DEF R
<1>9. WellFormed(R) /\ Live(R) /\ Participants(R) = {u}
  BY <1>2, <1>8 DEF WellFormed, Participants, Live, OpenRoomStatus
<1> QED
  BY <1>7, <1>8, <1>9 DEF R

(* joinRoom: well formed, with u added to the participants. *)
LEMMA JoinedRoomFacts ==
  ASSUME NEW room \in Room, WellFormed(room), Editable(room), NEW u \in Users
  PROVE  LET R == JoinedRoom(room, u) IN
         /\ R \in Room /\ WellFormed(R) /\ Editable(R)
         /\ R.match = room.match /\ R.past = room.past
         /\ Participants(R) = Participants(room) \cup {u}
<1> DEFINE R == JoinedRoom(room, u)
<1>1. room.joined \in Seq(Users) /\ IsInjective(room.joined)
  BY DEF Room, WellFormed
<1>2. CASE u \in Participants(room)
  <2>1. R = [room EXCEPT !.connected = @ \cup {u}]
    BY <1>2 DEF JoinedRoom
  <2>2. R \in Room
    BY <2>1 DEF Room
  <2>3. WellFormed(R) /\ Participants(R) = Participants(room) \cup {u}
    BY <2>1, <1>2 DEF Room, WellFormed, Participants, Live
  <2> QED
    BY <2>1, <2>2, <2>3 DEF Editable, Room
<1>3. CASE u \notin Participants(room)
  <2>1. R = [room EXCEPT !.joined = Append(@, u), !.connected = @ \cup {u},
                         !.status = IF @ = "CREATED" THEN "WAITING" ELSE @]
    BY <1>3 DEF JoinedRoom
  <2>2. R.joined = Append(room.joined, u) /\ R.joined \in Seq(Users)
    BY <2>1 DEF Room
  <2>3. ToSet(R.joined) = ToSet(room.joined) \cup {u} /\ IsInjective(R.joined)
    BY <1>1, <1>3, <2>2, AppendFacts DEF Participants
  <2> DEFINE R1 == [room EXCEPT !.joined = Append(@, u)]
             connected == room.connected \cup {u}
             R2 == [R1 EXCEPT !.connected = connected]
             status == IF room.status = "CREATED" THEN "WAITING" ELSE room.status
  <2>4. R \in Room
    <3>1. R1 \in Room
      BY <2>2, RoomFieldFacts
    <3>2. connected \in SUBSET Users
      BY DEF Room
    <3>3. R2 \in Room
      BY <3>1, <3>2, RoomFieldFacts
    <3>4. status \in OpenRoomStatus
      BY DEF Editable, OpenRoomStatus
    <3>5. R = [R2 EXCEPT !.status = status]
      BY <2>1
    <3> HIDE DEF R2, status, R
    <3> QED
      BY <3>3, <3>4, <3>5, RoomFieldFacts
  <2>5. WellFormed(R) /\ Participants(R) = Participants(room) \cup {u}
    BY <2>1, <2>3 DEF Room, WellFormed, Participants, Live, Editable, OpenRoomStatus
  <2> QED
    BY <2>1, <2>4, <2>5 DEF Editable, Room
<1> QED
  BY <1>2, <1>3

(* The host role passes to a remaining participant, or the room is deleted. *)
LEMMA LeftRoomFacts ==
  ASSUME NEW room \in Room, WellFormed(room), Live(room),
         NEW u \in Users, u \in Participants(room)
  PROVE  LET R == LeftRoom(room, u) IN
         /\ R \in Room /\ WellFormed(R)
         /\ Participants(R) = Participants(room) \ {u}
         /\ \/ R = NotInMap("CLOSED") /\ Participants(room) = {u}
            \/ /\ R.status = room.status /\ R.match = room.match
               /\ R.past = room.past /\ R.problem = room.problem
               /\ \A v \in Users \ {u} : R.team[v] = room.team[v]
<1> DEFINE R    == LeftRoom(room, u)
           rest == Without(room.joined, u)
           heir == IF room.host = u THEN rest[1] ELSE room.host
<1>1. room.joined \in Seq(Users) /\ IsInjective(room.joined)
  BY DEF Room, WellFormed
<1>2. /\ rest \in Seq(Users)
      /\ ToSet(rest) = Participants(room) \ {u}
      /\ IsInjective(rest)
  BY <1>1, WithoutFacts DEF Participants
<1>3. CASE rest = <<>>
  <2>1. R = NotInMap("CLOSED")
    BY <1>3 DEF LeftRoom
  <2>2. ToSet(rest) = {}
    BY <1>2, <1>3, FirstFacts
  <2>3. Participants(room) = {u}
    BY <1>2, <2>2
  <2> QED
    BY <2>1, <2>3, NotInMapFacts
<1>4. CASE rest # <<>>
  <2>1. rest[1] \in ToSet(rest) /\ ToSet(rest) \subseteq Users
    BY <1>2, <1>4, FirstFacts
  <2>2. heir \in ToSet(rest)
    BY <1>2, <2>1 DEF WellFormed
  <2> HIDE DEF rest, heir
  <2>3. R = [room EXCEPT !.joined = rest, !.host = heir,
                !.ready = (@ \ {u}) \cup (IF heir = room.host THEN {} ELSE {heir}),
                !.connected = @ \ {u}, !.team[u] = "none"]
    BY <1>4 DEF LeftRoom, rest, heir
  <2>4. /\ R.joined = rest /\ R.host = heir /\ R.status = room.status
        /\ R.match = room.match /\ R.past = room.past /\ R.problem = room.problem
        /\ R.connected = room.connected \ {u}
        /\ R.ready \subseteq (room.ready \ {u}) \cup {heir}
        /\ \A v \in Users \ {u} : R.team[v] = room.team[v]
    BY <2>3 DEF Room
  <2> DEFINE ready == (room.ready \ {u}) \cup (IF heir = room.host THEN {} ELSE {heir})
             R1 == [room EXCEPT !.joined = rest]
             R2 == [R1 EXCEPT !.host = heir]
             R3 == [R2 EXCEPT !.ready = ready]
             connected == room.connected \ {u}
             R4 == [R3 EXCEPT !.connected = connected]
             team == [room.team EXCEPT ![u] = "none"]
  <2>5. R \in Room
    <3>1. R1 \in Room
      BY <1>2, RoomFieldFacts
    <3>2. R2 \in Room
      BY <2>1, <2>2, <3>1, RoomFieldFacts
    <3>3. ready \in SUBSET Users
      BY <2>1, <2>2 DEF Room
    <3>4. R3 \in Room
      BY <3>2, <3>3, RoomFieldFacts
    <3>5. connected \in SUBSET Users
      BY DEF Room
    <3>6. R4 \in Room
      BY <3>4, <3>5, RoomFieldFacts
    <3>7. team \in [Users -> Teams]
      BY DEF Room, Teams
    <3>8. R = [R4 EXCEPT !.team = team]
      BY <2>3
    <3> HIDE DEF R4, team, R
    <3> QED
      BY <3>6, <3>7, <3>8, RoomFieldFacts
  <2> HIDE DEF R
  <2>6. WellFormed(R) /\ Participants(R) = Participants(room) \ {u}
    BY <1>2, <2>2, <2>4 DEF WellFormed, Participants, Live
  <2> QED
    BY <2>4, <2>5, <2>6 DEF R
<1> QED
  BY <1>3, <1>4

(* finishMatchSession and abortMatchSession: the room is WAITING, its match is past. *)
LEMMA SessionEndedFacts ==
  ASSUME NEW room \in Room, WellFormed(room), room.match \in MatchIds
  PROVE  LET R == SessionEnded(room) IN
         /\ R \in Room /\ WellFormed(R) /\ Live(R) /\ Editable(R)
         /\ R.match = NoMatch /\ R.status = "WAITING"
         /\ R.past = room.past \cup {room.match}
         /\ R.host = room.host
         /\ Participants(R) = Participants(room)
<1> DEFINE R == SessionEnded(room)
<1>1. R = [room EXCEPT !.past = @ \cup {room.match}, !.status = "WAITING",
                       !.match = NoMatch]
  BY RoomMatchAssumption DEF SessionEnded, Room
<1>2. R \in Room
  <2> DEFINE R1 == [room EXCEPT !.past = @ \cup {room.match}]
             R2 == [R1 EXCEPT !.status = "WAITING"]
  <2>1. room.past \cup {room.match} \in SUBSET MatchIds
    BY DEF Room
  <2>2. R1 \in Room
    BY <2>1, RoomFieldFacts
  <2>3. R2 \in Room
    BY <2>2, RoomFieldFacts DEF OpenRoomStatus
  <2> QED
    BY <1>1, <2>3, RoomFieldFacts
<1>3. room.status = "MATCH_IN_PROGRESS"
  BY RoomMatchAssumption DEF WellFormed
<1>4. WellFormed(R) /\ Live(R) /\ Editable(R) /\ Participants(R) = Participants(room)
  BY <1>1, <1>3 DEF WellFormed, Participants, Live, Editable, OpenRoomStatus, Room
<1> QED
  BY <1>1, <1>2, <1>4 DEF Room

(* startMatchSession: only the status and the match of the room change. *)
LEMMA InMatchFacts ==
  ASSUME NEW room \in Room, WellFormed(room), Live(room), NEW m \in MatchIds
  PROVE  LET R == InMatch(room, m) IN
         /\ R \in Room /\ WellFormed(R) /\ Live(R)
         /\ R.match = m /\ R.status = "MATCH_IN_PROGRESS" /\ R.past = room.past
         /\ Participants(R) = Participants(room)
<1> DEFINE R == InMatch(room, m)
<1>1. R \in Room
  <2>1. [room EXCEPT !.status = "MATCH_IN_PROGRESS"] \in Room
    BY RoomFieldFacts DEF OpenRoomStatus
  <2> QED
    BY <2>1, RoomFieldFacts DEF InMatch
<1>2. WellFormed(R) /\ Live(R) /\ Participants(R) = Participants(room)
  BY RoomMatchAssumption DEF InMatch, WellFormed, Participants, Live, OpenRoomStatus, Room
<1> QED
  BY <1>1, <1>2 DEF InMatch, Room

-----------------------------------------------------------------------------
(* What an action does to room r and to everybody's session and presence.  *)

Changes(r, R) == rooms' = [rooms EXCEPT ![r] = R]

SessionsFollow(r, R) ==
  /\ session' \in [Users -> RoomIds \cup {NoRoom, NoSession}]
  /\ \A u \in Users :
       session'[u] \in RoomIds =>
         \/ session'[u] # r /\ session'[u] = session[u]
         \/ session'[u] = r /\ Live(R) /\ u \in Participants(R)

UsersTyped ==
  /\ online' \subseteq Users
  /\ presence' \in [Users -> {"OFFLINE", "ONLINE", "IN_MATCH"}]

(* Only sessions, connections and presence change. *)
LEMMA IdleKeepsIInv ==
  ASSUME IInv, UNCHANGED <<rooms, matches, countdown, limitTimer>>, UsersTyped,
         session' \in [Users -> RoomIds \cup {NoRoom, NoSession}],
         \A u \in Users : session'[u] \in RoomIds => session'[u] = session[u]
  PROVE  IInv'
<1>1. TypeOK'
  BY DEF IInv, TypeOK, UsersTyped
<1>2. RoomsWellFormed' /\ SessionRoomLive'
  BY DEF IInv, RoomsWellFormed, SessionRoomLive
<1>3. CountdownSound' /\ LimitTimerExact' /\ OpenMatchHosted' /\ HistoryDecided'
  BY DEF IInv, CountdownSound, LimitTimerExact, OpenMatchHosted, HistoryDecided, Counting
<1> QED
  BY <1>1, <1>2, <1>3 DEF IInv

(* Room r changes, its match does not; a participant may go only when no   *)
(* open match needs the participant.                                       *)
LEMMA EditKeepsIInv ==
  ASSUME IInv, NEW r \in RoomIds, NEW R \in Room, WellFormed(R),
         Changes(r, R), SessionsFollow(r, R), UsersTyped,
         UNCHANGED <<matches, countdown, limitTimer>>,
         R.past \subseteq rooms[r].past,
         \/ /\ R.match = rooms[r].match
            /\ Participants(rooms[r]) \subseteq Participants(R)
         \/ /\ R.match \in {rooms[r].match, NoMatch}
            /\ rooms[r].match # NoMatch => ~IsOpen(matches[rooms[r].match])
  PROVE  IInv'
<1>1. \A q \in RoomIds : rooms'[q] = IF q = r THEN R ELSE rooms[q]
  BY DEF IInv, TypeOK, Changes
<1>2. TypeOK'
  BY DEF IInv, TypeOK, UsersTyped, Changes, SessionsFollow
<1>3. RoomsWellFormed'
  BY <1>1 DEF IInv, RoomsWellFormed
<1>4. SessionRoomLive'
  BY <1>1 DEF IInv, SessionRoomLive, SessionsFollow
<1>5. (R.match # NoMatch <=> R.status = "MATCH_IN_PROGRESS")
      /\ (rooms[r].match # NoMatch <=> rooms[r].status = "MATCH_IN_PROGRESS")
  BY DEF IInv, RoomsWellFormed, WellFormed
<1>6. rooms[r].match \in MatchIds \cup {NoMatch}
  BY DEF IInv, TypeOK, Room
<1>7. CountdownSound'
  <2>1. ASSUME NEW q \in RoomIds, Counting(q)
        PROVE  /\ rooms'[q].status = "MATCH_IN_PROGRESS"
               /\ rooms'[q].match = countdown[q]
    BY <1>1, <1>5, <1>6, <2>1
       DEF IInv, TypeOK, CountdownSound, Counting, IsOpen, OpenMatchStatus
  <2> QED
    BY <2>1 DEF IInv, CountdownSound, Counting
<1>8. LimitTimerExact'
  BY DEF IInv, LimitTimerExact
<1>9. OpenMatchHosted'
  <2> SUFFICES ASSUME NEW m \in MatchIds, IsOpen(matches[m])
               PROVE  /\ matches[m].room \in RoomIds
                      /\ rooms'[matches[m].room].status = "MATCH_IN_PROGRESS"
                      /\ rooms'[matches[m].room].match = m
                      /\ Players(matches[m]) \subseteq Participants(rooms'[matches[m].room])
                      /\ matches[m].red \cap matches[m].blue = {}
    BY DEF OpenMatchHosted
  <2>1. /\ matches[m].room \in RoomIds
        /\ rooms[matches[m].room].match = m
        /\ rooms[matches[m].room].status = "MATCH_IN_PROGRESS"
        /\ Players(matches[m]) \subseteq Participants(rooms[matches[m].room])
        /\ matches[m].red \cap matches[m].blue = {}
    BY DEF IInv, OpenMatchHosted
  <2> QED
    BY <1>1, <1>5, <2>1, RoomMatchAssumption
<1>10. HistoryDecided'
  BY <1>1 DEF IInv, HistoryDecided
<1> QED
  BY <1>2, <1>3, <1>4, <1>7, <1>8, <1>9, <1>10 DEF IInv

(* A fresh match starts its countdown in room r. *)
LEMMA BeginKeepsIInv ==
  ASSUME IInv, NEW r \in RoomIds, NEW R \in Room, WellFormed(R),
         Changes(r, R), SessionsFollow(r, R), UsersTyped,
         NEW m \in MatchIds, matches[m].status = "UNUSED", NEW M \in Match,
         matches' = [matches EXCEPT ![m] = M],
         M.status = "COUNTDOWN", M.room = r,
         Players(M) \subseteq Participants(R), M.red \cap M.blue = {},
         countdown' = [countdown EXCEPT ![r] = m],
         UNCHANGED limitTimer,
         rooms[r].match = NoMatch, R.match = m, R.past \subseteq rooms[r].past
  PROVE  IInv'
<1>1. \A q \in RoomIds : rooms'[q] = IF q = r THEN R ELSE rooms[q]
  BY DEF IInv, TypeOK, Changes
<1>2. \A k \in MatchIds : matches'[k] = IF k = m THEN M ELSE matches[k]
  BY DEF IInv, TypeOK
<1>3. \A q \in RoomIds : countdown'[q] = IF q = r THEN m ELSE countdown[q]
  BY DEF IInv, TypeOK
<1>4. m # NoMatch /\ R.status = "MATCH_IN_PROGRESS"
  BY RoomMatchAssumption DEF WellFormed
<1>5. TypeOK'
  BY DEF IInv, TypeOK, UsersTyped, Changes, SessionsFollow
<1>6. RoomsWellFormed'
  BY <1>1 DEF IInv, RoomsWellFormed
<1>7. SessionRoomLive'
  BY <1>1 DEF IInv, SessionRoomLive, SessionsFollow
<1>8. CountdownSound'
  <2>1. ASSUME NEW q \in RoomIds, countdown'[q] # NoMatch
        PROVE  /\ rooms'[q].status = "MATCH_IN_PROGRESS"
               /\ rooms'[q].match = countdown'[q]
               /\ matches'[countdown'[q]].status = "COUNTDOWN"
    <3>1. CASE q = r
      BY <1>1, <1>2, <1>3, <1>4, <3>1
    <3>2. CASE q # r
      <4>1. /\ rooms[q].status = "MATCH_IN_PROGRESS"
            /\ rooms[q].match = countdown[q]
            /\ matches[countdown[q]].status = "COUNTDOWN"
            /\ countdown[q] \in MatchIds
        BY <1>3, <2>1, <3>2 DEF IInv, CountdownSound, Counting, TypeOK
      <4> QED
        BY <1>1, <1>2, <1>3, <3>2, <4>1
    <3> QED
      BY <3>1, <3>2
  <2>2. ASSUME NEW k \in MatchIds, matches'[k].status = "COUNTDOWN"
        PROVE  countdown'[matches'[k].room] = k
    <3>1. CASE k = m
      BY <1>2, <1>3, <3>1
    <3>2. CASE k # m
      <4>1. matches'[k] = matches[k] /\ countdown[matches[k].room] = k
        BY <1>2, <2>2, <3>2 DEF IInv, CountdownSound
      <4>2. matches[k].room \in RoomIds /\ rooms[matches[k].room].match = k
        BY <1>2, <2>2, <3>2 DEF IInv, OpenMatchHosted, IsOpen, OpenMatchStatus
      <4>3. matches[k].room # r
        BY <4>2, RoomMatchAssumption
      <4> QED
        BY <1>3, <4>1, <4>2, <4>3
    <3> QED
      BY <3>1, <3>2
  <2> QED
    BY <2>1, <2>2 DEF CountdownSound, Counting
<1>9. LimitTimerExact'
  BY <1>2 DEF IInv, LimitTimerExact
<1>10. OpenMatchHosted'
  <2> SUFFICES ASSUME NEW k \in MatchIds, IsOpen(matches'[k])
               PROVE  /\ matches'[k].room \in RoomIds
                      /\ rooms'[matches'[k].room].status = "MATCH_IN_PROGRESS"
                      /\ rooms'[matches'[k].room].match = k
                      /\ Players(matches'[k]) \subseteq Participants(rooms'[matches'[k].room])
                      /\ matches'[k].red \cap matches'[k].blue = {}
    BY DEF OpenMatchHosted
  <2>1. CASE k = m
    BY <1>1, <1>2, <1>4, <2>1
  <2>2. CASE k # m
    <3>1. /\ matches'[k] = matches[k] /\ matches[k].room \in RoomIds
          /\ rooms[matches[k].room].match = k
          /\ rooms[matches[k].room].status = "MATCH_IN_PROGRESS"
          /\ Players(matches[k]) \subseteq Participants(rooms[matches[k].room])
          /\ matches[k].red \cap matches[k].blue = {}
      BY <1>2, <2>2 DEF IInv, OpenMatchHosted
    <3>2. matches[k].room # r
      BY <3>1, RoomMatchAssumption
    <3> QED
      BY <1>1, <3>1, <3>2
  <2> QED
    BY <2>1, <2>2
<1>11. HistoryDecided'
  <2> SUFFICES ASSUME NEW q \in RoomIds
               PROVE  /\ rooms'[q].match # NoMatch =>
                           /\ matches'[rooms'[q].match].room = q
                           /\ matches'[rooms'[q].match].status # "UNUSED"
                      /\ \A k \in rooms'[q].past :
                           matches'[k].status \in Terminal /\ matches'[k].room = q
    BY DEF HistoryDecided
  <2>1. /\ rooms[q] \in Room
        /\ rooms[q].match # NoMatch =>
             /\ matches[rooms[q].match].room = q
             /\ matches[rooms[q].match].status # "UNUSED"
        /\ \A k \in rooms[q].past :
             k \in MatchIds /\ matches[k].status \in Terminal /\ matches[k].room = q
    BY DEF IInv, TypeOK, HistoryDecided, Room
  <2>2. \A k \in rooms[q].past : k # m
    BY <2>1 DEF Terminal
  <2>3. rooms[q].match # NoMatch => rooms[q].match \in MatchIds /\ rooms[q].match # m
    BY <2>1 DEF Room
  <2> QED
    BY <1>1, <1>2, <2>1, <2>2, <2>3
<1> QED
  BY <1>5, <1>6, <1>7, <1>8, <1>9, <1>10, <1>11 DEF IInv

(* The open match of room r is finished or aborted. *)
LEMMA DecideKeepsIInv ==
  ASSUME IInv, NEW r \in RoomIds, NEW R \in Room, WellFormed(R),
         Changes(r, R), SessionsFollow(r, R), UsersTyped,
         NEW m \in MatchIds, rooms[r].match = m, IsOpen(matches[m]),
         NEW M \in Match, matches' = [matches EXCEPT ![m] = M],
         M.status \in Terminal, M.room = matches[m].room,
         limitTimer' = limitTimer \ {m},
         countdown' = [countdown EXCEPT ![r] = NoMatch],
         R.match \in {NoMatch, m}, R.past \subseteq rooms[r].past \cup {m}
  PROVE  IInv'
<1>1. \A q \in RoomIds : rooms'[q] = IF q = r THEN R ELSE rooms[q]
  BY DEF IInv, TypeOK, Changes
<1>2. \A k \in MatchIds : matches'[k] = IF k = m THEN M ELSE matches[k]
  BY DEF IInv, TypeOK
<1>3. \A q \in RoomIds : countdown'[q] = IF q = r THEN NoMatch ELSE countdown[q]
  BY DEF IInv, TypeOK
<1>4. m # NoMatch /\ M.room = r /\ M.status # "UNUSED" /\ ~IsOpen(M)
  BY RoomMatchAssumption DEF IInv, HistoryDecided, Terminal, IsOpen, OpenMatchStatus
<1>5. TypeOK'
  BY DEF IInv, TypeOK, UsersTyped, Changes, SessionsFollow
<1>6. RoomsWellFormed'
  BY <1>1 DEF IInv, RoomsWellFormed
<1>7. SessionRoomLive'
  BY <1>1 DEF IInv, SessionRoomLive, SessionsFollow
<1>8. CountdownSound'
  <2>1. ASSUME NEW q \in RoomIds, countdown'[q] # NoMatch
        PROVE  /\ rooms'[q].status = "MATCH_IN_PROGRESS"
               /\ rooms'[q].match = countdown'[q]
               /\ matches'[countdown'[q]].status = "COUNTDOWN"
    <3>1. q # r
      BY <1>3, <2>1
    <3>2. /\ rooms[q].status = "MATCH_IN_PROGRESS"
          /\ rooms[q].match = countdown[q]
          /\ matches[countdown[q]].status = "COUNTDOWN"
          /\ countdown[q] \in MatchIds
      BY <1>3, <2>1, <3>1 DEF IInv, CountdownSound, Counting, TypeOK
    <3>3. matches[countdown[q]].room = q
      BY <3>2, RoomMatchAssumption DEF IInv, HistoryDecided
    <3>4. countdown[q] # m
      BY <1>2, <1>4, <3>1, <3>3
    <3> QED
      BY <1>1, <1>2, <1>3, <3>1, <3>2, <3>4
  <2>2. ASSUME NEW k \in MatchIds, matches'[k].status = "COUNTDOWN"
        PROVE  countdown'[matches'[k].room] = k
    <3>1. k # m
      BY <1>2, <1>4, <2>2 DEF IsOpen, OpenMatchStatus
    <3>2. matches'[k] = matches[k] /\ countdown[matches[k].room] = k
      BY <1>2, <2>2, <3>1 DEF IInv, CountdownSound
    <3>3. matches[k].room \in RoomIds /\ rooms[matches[k].room].match = k
      BY <1>2, <2>2, <3>1 DEF IInv, OpenMatchHosted, IsOpen, OpenMatchStatus
    <3>4. matches[k].room # r
      BY <3>1, <3>3
    <3> QED
      BY <1>3, <3>2, <3>3, <3>4
  <2> QED
    BY <2>1, <2>2 DEF CountdownSound, Counting
<1>9. LimitTimerExact'
  BY <1>2, <1>4 DEF IInv, LimitTimerExact, IsOpen, OpenMatchStatus
<1>10. OpenMatchHosted'
  <2> SUFFICES ASSUME NEW k \in MatchIds, IsOpen(matches'[k])
               PROVE  /\ matches'[k].room \in RoomIds
                      /\ rooms'[matches'[k].room].status = "MATCH_IN_PROGRESS"
                      /\ rooms'[matches'[k].room].match = k
                      /\ Players(matches'[k]) \subseteq Participants(rooms'[matches'[k].room])
                      /\ matches'[k].red \cap matches'[k].blue = {}
    BY DEF OpenMatchHosted
  <2>1. k # m
    BY <1>2, <1>4
  <2>2. /\ matches'[k] = matches[k] /\ matches[k].room \in RoomIds
        /\ rooms[matches[k].room].match = k
        /\ rooms[matches[k].room].status = "MATCH_IN_PROGRESS"
        /\ Players(matches[k]) \subseteq Participants(rooms[matches[k].room])
        /\ matches[k].red \cap matches[k].blue = {}
    BY <1>2, <2>1 DEF IInv, OpenMatchHosted
  <2>3. matches[k].room # r
    BY <2>1, <2>2
  <2> QED
    BY <1>1, <2>2, <2>3
<1>11. HistoryDecided'
  <2> SUFFICES ASSUME NEW q \in RoomIds
               PROVE  /\ rooms'[q].match # NoMatch =>
                           /\ matches'[rooms'[q].match].room = q
                           /\ matches'[rooms'[q].match].status # "UNUSED"
                      /\ \A k \in rooms'[q].past :
                           matches'[k].status \in Terminal /\ matches'[k].room = q
    BY DEF HistoryDecided
  <2>1. /\ rooms[q].match \in MatchIds \cup {NoMatch}
        /\ rooms[q].match # NoMatch =>
             /\ matches[rooms[q].match].room = q
             /\ matches[rooms[q].match].status # "UNUSED"
        /\ \A k \in rooms[q].past :
             k \in MatchIds /\ matches[k].status \in Terminal /\ matches[k].room = q
    BY DEF IInv, TypeOK, HistoryDecided, Room
  <2>2. CASE q = r
    <3>1. rooms'[q] = R /\ (R.match # NoMatch => R.match = m)
      BY <1>1, <2>2
    <3>2. ASSUME NEW k \in R.past
          PROVE  matches'[k].status \in Terminal /\ matches'[k].room = q
      <4>1. CASE k = m
        BY <1>2, <1>4, <2>2, <4>1
      <4>2. CASE k # m
        BY <1>2, <2>1, <2>2, <4>2
      <4> QED
        BY <4>1, <4>2
    <3>3. matches'[m].room = q /\ matches'[m].status # "UNUSED"
      BY <1>2, <1>4, <2>2
    <3> QED
      BY <3>1, <3>2, <3>3
  <2>3. CASE q # r
    <3>1. \A k \in rooms[q].past : k # m
      BY <2>1 DEF IsOpen, OpenMatchStatus, Terminal
    <3>2. rooms[q].match # NoMatch => rooms[q].match # m
      BY <1>4, <2>1, <2>3
    <3> QED
      BY <1>1, <1>2, <2>1, <2>3, <3>1, <3>2
  <2> QED
    BY <2>2, <2>3
<1> QED
  BY <1>5, <1>6, <1>7, <1>8, <1>9, <1>10, <1>11 DEF IInv

-----------------------------------------------------------------------------
(* checkAndCancelCountdown. *)

(* abortMatch changes the status, finishMatch the status and the winner. *)
LEMMA MatchFieldFacts ==
  ASSUME NEW match \in Match
  PROVE  /\ AbortedMatch(match) \in Match
         /\ AbortedMatch(match).status = "ABORTED"
         /\ AbortedMatch(match).room = match.room
         /\ \A u \in Users, team \in Teams :
              /\ FinishedMatch(match, u, team) \in Match
              /\ FinishedMatch(match, u, team).status = "FINISHED"
              /\ FinishedMatch(match, u, team).room = match.room
              /\ FinishedMatch(match, u, team).winner = u
              /\ FinishedMatch(match, u, team).winnerTeam = team
<1>1. AbortedMatch(match) \in Match
  BY DEF AbortedMatch, Match, Terminal
<1>2. ASSUME NEW u \in Users, NEW team \in Teams
      PROVE  FinishedMatch(match, u, team) \in Match
  <2> DEFINE M1 == [match EXCEPT !.status = "FINISHED"]
             M2 == [M1 EXCEPT !.winner = u]
  <2>1. M1 \in Match
    BY DEF Match, Terminal
  <2> HIDE DEF M1
  <2>2. M2 \in Match
    BY <2>1 DEF Match
  <2> HIDE DEF M2
  <2>3. [M2 EXCEPT !.winnerTeam = team] \in Match
    BY <2>2 DEF Match
  <2> QED
    BY <2>3 DEF FinishedMatch, M1, M2
<1> QED
  BY <1>1, <1>2 DEF AbortedMatch, FinishedMatch, Match

(* The same of finishMatch for any winner, typed or not. *)
LEMMA FinishedMatchFacts ==
  ASSUME NEW match \in Match, NEW u, NEW team
  PROVE  /\ FinishedMatch(match, u, team).status = "FINISHED"
         /\ FinishedMatch(match, u, team).room = match.room
         /\ FinishedMatch(match, u, team).winner = u
BY DEF FinishedMatch, Match

(* It does nothing, or it ends a countdown whose match it aborts. *)
LEMMA CancelFacts ==
  ASSUME IInv, NEW r \in RoomIds, CancelCountdown(r)
  PROVE  /\ Settled(r) \in Room /\ WellFormed(Settled(r))
         /\ Participants(Settled(r)) = Participants(rooms[r])
         /\ Live(rooms[r]) => Live(Settled(r))
         /\ Settled(r).host = rooms[r].host
         /\ CancelledPlayers(r) \subseteq Users
         /\ \/ /\ ~Counting(r)
               /\ UNCHANGED <<matches, countdown, limitTimer>>
               /\ Settled(r) = rooms[r]
            \/ /\ Counting(r)
               /\ Settled(r).match = NoMatch
               /\ Settled(r).past = rooms[r].past \cup {rooms[r].match}
               /\ rooms[r].match \in MatchIds
               /\ IsOpen(matches[rooms[r].match])
               /\ matches' = [matches EXCEPT ![rooms[r].match] =
                                AbortedMatch(matches[rooms[r].match])]
               /\ limitTimer' = limitTimer \ {rooms[r].match}
               /\ countdown' = [countdown EXCEPT ![r] = NoMatch]
<1>1. rooms[r] \in Room /\ WellFormed(rooms[r]) /\ countdown[r] \in MatchIds \cup {NoMatch}
  BY DEF IInv, TypeOK, RoomsWellFormed
<1>2. CASE ~Counting(r)
  <2>1. UNCHANGED <<matches, countdown, limitTimer>>
    BY <1>2 DEF CancelCountdown, Counting, IInv, TypeOK
  <2>2. Settled(r) = rooms[r] /\ CancelledPlayers(r) = {}
    BY <1>2 DEF Settled, CancelledPlayers
  <2> QED
    BY <1>1, <1>2, <2>1, <2>2
<1>3. CASE Counting(r)
  <2>1. /\ rooms[r].match = countdown[r] /\ rooms[r].match \in MatchIds
        /\ rooms[r].match # NoMatch
        /\ matches[rooms[r].match].status = "COUNTDOWN"
        /\ matches[rooms[r].match] \in Match
    BY <1>1, <1>3 DEF IInv, TypeOK, CountdownSound, Counting
  <2>2. Settled(r) = SessionEnded(rooms[r])
    BY <1>3 DEF Settled
  <2>3. CancelledPlayers(r) \subseteq Users
    BY <2>1 DEF CancelledPlayers, Players, Match
  <2>4. /\ matches' = [matches EXCEPT ![rooms[r].match] = AbortedMatch(matches[rooms[r].match])]
        /\ limitTimer' = limitTimer \ {rooms[r].match}
        /\ countdown' = [countdown EXCEPT ![r] = NoMatch]
    BY <1>3, <2>1 DEF CancelCountdown, Cleared
  <2>5. IsOpen(matches[rooms[r].match])
    BY <2>1 DEF IsOpen, OpenMatchStatus
  <2> QED
    BY <1>1, <1>3, <2>1, <2>2, <2>3, <2>4, <2>5, SessionEndedFacts
<1> QED
  BY <1>2, <1>3

(* A handler that cancels the countdown and then changes the room, without *)
(* removing a participant while the room's match is open.                  *)
LEMMA CancelThenEditKeepsIInv ==
  ASSUME IInv, NEW r \in RoomIds, CancelCountdown(r),
         NEW R \in Room, WellFormed(R),
         Changes(r, R), SessionsFollow(r, R), UsersTyped,
         R.past \subseteq Settled(r).past,
         \/ /\ R.match = Settled(r).match
            /\ Participants(rooms[r]) \subseteq Participants(R)
         \/ /\ R.match \in {Settled(r).match, NoMatch}
            /\ Settled(r).match # NoMatch => ~IsOpen(matches[Settled(r).match])
  PROVE  IInv'
<1>1. CASE ~Counting(r)
  <2>1. UNCHANGED <<matches, countdown, limitTimer>> /\ Settled(r) = rooms[r]
    BY <1>1, CancelFacts
  <2> QED
    BY <2>1, EditKeepsIInv
<1>2. CASE Counting(r)
  <2> DEFINE m == rooms[r].match
             M == AbortedMatch(matches[m])
  <2>1. /\ Settled(r).match = NoMatch
        /\ Settled(r).past = rooms[r].past \cup {m}
        /\ m \in MatchIds
        /\ IsOpen(matches[m])
        /\ matches' = [matches EXCEPT ![m] = M]
        /\ limitTimer' = limitTimer \ {m}
        /\ countdown' = [countdown EXCEPT ![r] = NoMatch]
    BY <1>2, CancelFacts
  <2>2. matches[m] \in Match
    BY <2>1 DEF IInv, TypeOK
  <2>3. M \in Match /\ M.status \in Terminal /\ M.room = matches[m].room
    BY <2>2, MatchFieldFacts DEF Terminal
  <2>4. R.match = NoMatch /\ R.past \subseteq rooms[r].past \cup {m}
    BY <2>1
  <2> HIDE DEF m, M
  <2>5. rooms[r].match = m
    BY DEF m
  <2> QED
    BY <2>1, <2>3, <2>4, <2>5, DecideKeepsIInv
<1> QED
  BY <1>1, <1>2

-----------------------------------------------------------------------------
(* Flags of a participant: nothing the invariant speaks of changes. *)

Alike(R, room) ==
  /\ R \in Room /\ WellFormed(R)
  /\ Participants(R) = Participants(room)
  /\ R.status = room.status /\ R.match = room.match /\ R.past = room.past

(* The ready and connected flags change neither participants nor status. *)
LEMMA FlagFacts ==
  ASSUME NEW room \in Room, WellFormed(room), NEW u \in Users
  PROVE  /\ \A isConnected \in BOOLEAN : Alike(ConnectionSet(room, u, isConnected), room)
         /\ u \in Participants(room) => Alike(ReadyToggled(room, u), room)
         /\ \A team \in Teams : Alike([room EXCEPT !.team[u] = team], room)
         /\ \A hasProblem \in BOOLEAN : Alike([room EXCEPT !.problem = hasProblem], room)
<1>1. Alike(room, room)
  BY DEF Alike
<1>2. ASSUME NEW S \in SUBSET Users, S \subseteq room.connected \cup {u},
             u \in Participants(room)
      PROVE  Alike([room EXCEPT !.connected = S], room)
  <2>1. [room EXCEPT !.connected = S] \in Room
    BY RoomFieldFacts
  <2> QED
    BY <1>2, <2>1 DEF Alike, WellFormed, Participants, Live, Room
<1>3. ASSUME NEW isConnected \in BOOLEAN
      PROVE  Alike(ConnectionSet(room, u, isConnected), room)
  <2> DEFINE S == IF isConnected THEN room.connected \cup {u} ELSE room.connected \ {u}
  <2>1. S \in SUBSET Users /\ S \subseteq room.connected \cup {u}
    BY DEF Room
  <2>2. CASE u \in Participants(room)
    <3>1. ConnectionSet(room, u, isConnected) = [room EXCEPT !.connected = S]
      BY <2>2 DEF ConnectionSet
    <3> HIDE DEF S
    <3> QED
      BY <1>2, <2>1, <2>2, <3>1
  <2>3. CASE u \notin Participants(room)
    BY <1>1, <2>3 DEF ConnectionSet
  <2> QED
    BY <2>2, <2>3
<1>4. ASSUME u \in Participants(room)
      PROVE  Alike(ReadyToggled(room, u), room)
  <2> DEFINE S == IF u \in room.ready THEN room.ready \ {u} ELSE room.ready \cup {u}
  <2>1. S \in SUBSET Users /\ S \subseteq room.ready \cup {u}
    BY DEF Room
  <2>2. ReadyToggled(room, u) = [room EXCEPT !.ready = S]
    BY DEF ReadyToggled
  <2> HIDE DEF S
  <2>3. [room EXCEPT !.ready = S] \in Room
    BY <2>1, RoomFieldFacts
  <2> QED
    BY <1>4, <2>1, <2>2, <2>3 DEF Alike, WellFormed, Participants, Live, Room
<1>5. ASSUME NEW team \in Teams
      PROVE  Alike([room EXCEPT !.team[u] = team], room)
  <2> DEFINE T == [room.team EXCEPT ![u] = team]
  <2>1. T \in [Users -> Teams]
    BY DEF Room
  <2>2. [room EXCEPT !.team[u] = team] = [room EXCEPT !.team = T]
    OBVIOUS
  <2> HIDE DEF T
  <2>3. [room EXCEPT !.team = T] \in Room
    BY <2>1, RoomFieldFacts
  <2> QED
    BY <2>2, <2>3 DEF Alike, WellFormed, Participants, Live, Room
<1>6. ASSUME NEW hasProblem \in BOOLEAN
      PROVE  Alike([room EXCEPT !.problem = hasProblem], room)
  <2>1. [room EXCEPT !.problem = hasProblem] \in Room
    BY RoomFieldFacts
  <2> QED
    BY <2>1 DEF Alike, WellFormed, Participants, Live, Room
<1> QED
  BY <1>3, <1>4, <1>5, <1>6

(* WithPresence yields activities when it is given one. *)
LEMMA PresenceFacts ==
  ASSUME IInv, NEW S, NEW state \in {"OFFLINE", "ONLINE", "IN_MATCH"}
  PROVE  WithPresence(S, state) \in [Users -> {"OFFLINE", "ONLINE", "IN_MATCH"}]
BY DEF IInv, TypeOK, WithPresence

(* The room of a session. *)
LEMMA SessionFacts ==
  ASSUME IInv, NEW u \in Users, session[u] \in RoomIds
  PROVE  LET room == rooms[session[u]] IN
         /\ room \in Room /\ WellFormed(room) /\ Live(room)
         /\ u \in Participants(room) /\ Participants(room) \subseteq Users
         /\ room.match \in MatchIds \cup {NoMatch} /\ room.host \in Users
<1>1. rooms[session[u]] \in Room
  BY DEF IInv, TypeOK
<1>2. Participants(rooms[session[u]]) \subseteq Users
  BY <1>1, FirstFacts DEF Participants, Room
<1> QED
  BY <1>1, <1>2 DEF IInv, SessionRoomLive, RoomsWellFormed, WellFormed, Room

(* Sessions that stay put follow a room that keeps its participants. *)
LEMMA SessionsStay ==
  ASSUME IInv, NEW r \in RoomIds, NEW R, session' = session,
         Live(rooms[r]) => Live(R), Participants(rooms[r]) \subseteq Participants(R)
  PROVE  SessionsFollow(r, R)
BY DEF IInv, TypeOK, SessionRoomLive, SessionsFollow

-----------------------------------------------------------------------------
(* The actions. *)

(* One lemma per action from here on. A connection. *)
LEMMA ConnectKeepsIInv ==
  ASSUME IInv, NEW u \in Users, Connect(u)
  PROVE  IInv'
<1>1. UsersTyped
  BY DEF Connect, UsersTyped, IInv, TypeOK
<1>2. session' \in [Users -> RoomIds \cup {NoRoom, NoSession}]
  BY DEF Connect, IInv, TypeOK
<1>3. UNCHANGED <<matches, countdown, limitTimer>>
  BY DEF Connect
<1>4. CASE session[u] \in RoomIds
  <2> DEFINE r == session[u]
             R == ConnectionSet(rooms[r], u, TRUE)
  <2>1. rooms[r] \in Room /\ WellFormed(rooms[r]) /\ Live(rooms[r])
    BY <1>4, SessionFacts
  <2>2. Alike(R, rooms[r])
    BY <2>1, FlagFacts
  <2>3. Changes(r, R)
    BY <1>4 DEF Connect, Changes
  <2>4. session' = session
    BY <1>4, <2>1 DEF Connect, IInv, TypeOK
  <2>5. SessionsFollow(r, R)
    BY <1>4, <2>2, <2>4, SessionsStay DEF Alike, Live
  <2> HIDE DEF r, R
  <2>6. r \in RoomIds
    BY <1>4 DEF r
  <2> QED
    BY <1>1, <1>3, <2>2, <2>3, <2>5, <2>6, EditKeepsIInv DEF Alike
<1>5. CASE session[u] \notin RoomIds
  <2>1. rooms' = rooms
    BY <1>5 DEF Connect
  <2>2. \A v \in Users : session'[v] \in RoomIds => session'[v] = session[v]
    BY RoomMatchAssumption DEF Connect, IInv, TypeOK
  <2> QED
    BY <1>1, <1>2, <1>3, <2>1, <2>2, IdleKeepsIInv
<1> QED
  BY <1>4, <1>5

(* A lost socket in a room, with the countdown it cancels. *)
LEMMA DisconnectInRoomKeepsIInv ==
  ASSUME IInv, NEW u \in Users, DisconnectInRoom(u)
  PROVE  IInv'
<1> DEFINE r == session[u]
           R == ConnectionSet(Settled(r), u, FALSE)
<1>1. r \in RoomIds /\ CancelCountdown(r) /\ session' = session /\ Changes(r, R)
  BY DEF DisconnectInRoom, Changes
<1>2. /\ Settled(r) \in Room /\ WellFormed(Settled(r))
      /\ Participants(Settled(r)) = Participants(rooms[r])
      /\ Live(rooms[r]) => Live(Settled(r))
  BY <1>1, CancelFacts
<1>3. Alike(R, Settled(r))
  BY <1>2, FlagFacts
<1>4. SessionsFollow(r, R)
  BY <1>1, <1>2, <1>3, SessionsStay DEF Alike, Live
<1>5. WithPresence(CancelledPlayers(r), "ONLINE") \in [Users -> {"OFFLINE", "ONLINE", "IN_MATCH"}]
  BY PresenceFacts
<1>6. UsersTyped
  BY <1>5 DEF DisconnectInRoom, UsersTyped, IInv, TypeOK
<1> HIDE DEF r, R
<1> QED
  BY <1>1, <1>2, <1>3, <1>4, <1>6, CancelThenEditKeepsIInv DEF Alike

(* A lost socket outside any room. *)
LEMMA DisconnectOutsideKeepsIInv ==
  ASSUME IInv, NEW u \in Users, DisconnectOutside(u)
  PROVE  IInv'
<1>1. UsersTyped /\ session' \in [Users -> RoomIds \cup {NoRoom, NoSession}]
  BY DEF DisconnectOutside, UsersTyped, IInv, TypeOK
<1> QED
  BY <1>1, IdleKeepsIInv DEF DisconnectOutside

(* room:create. *)
LEMMA CreateRoomKeepsIInv ==
  ASSUME IInv, NEW u \in Users, NEW r \in RoomIds, NEW hasProblem \in BOOLEAN,
         CreateRoom(u, r, hasProblem)
  PROVE  IInv'
<1> DEFINE R == CreatedRoom(u, hasProblem)
<1>1. /\ R \in Room /\ WellFormed(R) /\ Live(R)
      /\ R.match = NoMatch /\ R.past = {} /\ Participants(R) = {u}
  BY CreatedRoomFacts
<1>2. Changes(r, R) /\ UNCHANGED <<matches, countdown, limitTimer>>
  BY DEF CreateRoom, Changes
<1>3. rooms[r].match = NoMatch /\ ~Live(rooms[r])
  BY DEF CreateRoom, IInv, RoomsWellFormed, WellFormed, Live, OpenRoomStatus
<1>4. \A v \in Users : session'[v] = IF v = u THEN r ELSE session[v]
  BY DEF CreateRoom, IInv, TypeOK
<1>5. SessionsFollow(r, R)
  BY <1>1, <1>3, <1>4 DEF CreateRoom, SessionsFollow, IInv, TypeOK, SessionRoomLive
<1>6. UsersTyped
  BY DEF CreateRoom, UsersTyped, IInv, TypeOK
<1> HIDE DEF R
<1> QED
  BY <1>1, <1>2, <1>3, <1>5, <1>6, EditKeepsIInv

(* room:join. *)
LEMMA JoinRoomKeepsIInv ==
  ASSUME IInv, NEW u \in Users, NEW r \in RoomIds, JoinRoom(u, r)
  PROVE  IInv'
<1> DEFINE R == JoinedRoom(rooms[r], u)
<1>1. rooms[r] \in Room /\ WellFormed(rooms[r]) /\ Editable(rooms[r])
  BY DEF JoinRoom, IInv, TypeOK, RoomsWellFormed
<1>2. /\ R \in Room /\ WellFormed(R) /\ Editable(R)
      /\ R.match = rooms[r].match /\ R.past = rooms[r].past
      /\ Participants(R) = Participants(rooms[r]) \cup {u}
  BY <1>1, JoinedRoomFacts
<1>3. Changes(r, R) /\ UNCHANGED <<matches, countdown, limitTimer>>
  BY DEF JoinRoom, Changes
<1>4. \A v \in Users : session'[v] = IF v = u THEN r ELSE session[v]
  BY DEF JoinRoom, IInv, TypeOK
<1>5. Live(R)
  BY <1>2 DEF Editable, Live, OpenRoomStatus
<1>6. SessionsFollow(r, R)
  BY <1>2, <1>4, <1>5 DEF JoinRoom, SessionsFollow, IInv, TypeOK, SessionRoomLive
<1>7. UsersTyped
  BY DEF JoinRoom, UsersTyped, IInv, TypeOK
<1> HIDE DEF R
<1> QED
  BY <1>2, <1>3, <1>6, <1>7, EditKeepsIInv

(* Sessions when u leaves room r. *)
LEMMA SessionsAfterLeave ==
  ASSUME IInv, NEW u \in Users, NEW r \in RoomIds,
         session' = [session EXCEPT ![u] = NoRoom],
         NEW room, NEW R, Participants(room) = Participants(rooms[r]), Live(room),
         Participants(R) = Participants(room) \ {u},
         R.status = room.status \/ Participants(room) = {u}
  PROVE  SessionsFollow(r, R)
<1>1. \A v \in Users : session'[v] = IF v = u THEN NoRoom ELSE session[v]
  BY DEF IInv, TypeOK
<1>2. session' \in [Users -> RoomIds \cup {NoRoom, NoSession}]
  BY DEF IInv, TypeOK
<1>3. \A v \in Users : session[v] = r => v \in Participants(room)
  BY DEF IInv, SessionRoomLive
<1>4. \A v \in Users : v # u /\ session[v] = r => Live(R) /\ v \in Participants(R)
  BY <1>3 DEF Live
<1> QED
  BY <1>1, <1>2, <1>4, RoomMatchAssumption DEF SessionsFollow

(* room:leave without an ACTIVE match. *)
LEMMA LeaveRoomKeepsIInv ==
  ASSUME IInv, NEW u \in Users, LeaveRoom(u)
  PROVE  IInv'
<1> DEFINE r == session[u]
           R == LeftRoom(Settled(r), u)
<1>1. /\ r \in RoomIds /\ CancelCountdown(r) /\ Changes(r, R)
      /\ session' = [session EXCEPT ![u] = NoRoom]
  BY DEF LeaveRoom, Changes
<1>2. /\ rooms[r] \in Room /\ WellFormed(rooms[r]) /\ Live(rooms[r])
      /\ u \in Participants(rooms[r]) /\ rooms[r].match \in MatchIds \cup {NoMatch}
  BY <1>1, SessionFacts
<1>3. /\ Settled(r) \in Room /\ WellFormed(Settled(r)) /\ Live(Settled(r))
      /\ Participants(Settled(r)) = Participants(rooms[r])
  BY <1>1, <1>2, CancelFacts
<1>4. /\ R \in Room /\ WellFormed(R)
      /\ Participants(R) = Participants(Settled(r)) \ {u}
      /\ \/ R = NotInMap("CLOSED") /\ Participants(Settled(r)) = {u}
         \/ /\ R.status = Settled(r).status /\ R.match = Settled(r).match
            /\ R.past = Settled(r).past
  BY <1>2, <1>3, LeftRoomFacts
<1>5. R.match \in {Settled(r).match, NoMatch} /\ R.past \subseteq Settled(r).past
  BY <1>4 DEF NotInMap
<1>6. ASSUME Settled(r).match # NoMatch
      PROVE  ~IsOpen(matches[Settled(r).match])
  <2>1. Settled(r) = rooms[r] /\ ~Counting(r)
    BY <1>1, <1>6, CancelFacts
  <2>2. rooms[r].status = "MATCH_IN_PROGRESS" /\ matches[rooms[r].match].status # "ACTIVE"
    BY <1>2, <1>6, <2>1 DEF LeaveRoom, WellFormed
  <2>3. matches[rooms[r].match].room = r /\ rooms[r].match \in MatchIds
    BY <1>1, <1>2, <1>6, <2>1 DEF IInv, HistoryDecided
  <2>4. matches[rooms[r].match].status # "COUNTDOWN"
    BY <2>1, <2>3, RoomMatchAssumption DEF IInv, CountdownSound, Counting
  <2> QED
    BY <2>1, <2>2, <2>4 DEF IsOpen, OpenMatchStatus
<1>7. WithPresence(CancelledPlayers(r), "ONLINE") \in [Users -> {"OFFLINE", "ONLINE", "IN_MATCH"}]
  BY PresenceFacts
<1>8. UsersTyped
  BY <1>7 DEF LeaveRoom, UsersTyped, IInv, TypeOK
<1> DEFINE room == Settled(r)
<1>9. SessionsFollow(r, R)
  <2> HIDE DEF R, r
  <2> QED
    BY <1>1, <1>3, <1>4, SessionsAfterLeave
<1> HIDE DEF r, R
<1> QED
  BY <1>1, <1>4, <1>5, <1>6, <1>8, <1>9, CancelThenEditKeepsIInv

(* No countdown runs in the room of an ACTIVE match. *)
LEMMA NoCountdownWhileActive ==
  ASSUME IInv, NEW r \in RoomIds, matches[rooms[r].match].status = "ACTIVE",
         countdown' = countdown
  PROVE  countdown' = [countdown EXCEPT ![r] = NoMatch]
<1>1. countdown[r] = NoMatch
  BY DEF IInv, CountdownSound, Counting
<1>2. countdown \in [RoomIds -> MatchIds \cup {NoMatch}]
  BY DEF IInv, TypeOK
<1> QED
  BY <1>1, <1>2

(* The one who leaves an ACTIVE match hands it to the first who remains. *)
LEMMA LeaveActiveMatchKeepsIInv ==
  ASSUME IInv, NEW u \in Users, LeaveActiveMatch(u)
  PROVE  IInv'
<1> DEFINE r    == session[u]
           m    == rooms[r].match
           heir == WalkoverWinner(rooms[r], u)
           R    == LeftRoom(rooms[r], u)
           team == IF heir \in matches[m].red THEN "red" ELSE "blue"
           M    == IF Participants(rooms[r]) \subseteq {u} THEN AbortedMatch(matches[m])
                   ELSE FinishedMatch(matches[m], heir, team)
<1>1. /\ r \in RoomIds /\ m # NoMatch /\ matches[m].status = "ACTIVE"
      /\ limitTimer' = limitTimer \ {m}
      /\ session' = [session EXCEPT ![u] = NoRoom]
      /\ Changes(r, R)
      /\ UNCHANGED <<countdown, online>>
  BY DEF LeaveActiveMatch, Changes, Cleared
<1>2. /\ rooms[r] \in Room /\ WellFormed(rooms[r]) /\ Live(rooms[r])
      /\ u \in Participants(rooms[r]) /\ Participants(rooms[r]) \subseteq Users
      /\ m \in MatchIds
  BY <1>1, SessionFacts
<1>3. matches' = [matches EXCEPT ![m] = M] /\ matches[m] \in Match
  BY <1>2 DEF LeaveActiveMatch, IInv, TypeOK
<1>4. /\ R \in Room /\ WellFormed(R)
      /\ Participants(R) = Participants(rooms[r]) \ {u}
      /\ \/ R = NotInMap("CLOSED") /\ Participants(rooms[r]) = {u}
         \/ R.status = rooms[r].status /\ R.match = m /\ R.past = rooms[r].past
  BY <1>2, LeftRoomFacts
<1>5. R.match \in {NoMatch, m} /\ R.past \subseteq rooms[r].past \cup {m}
  BY <1>4 DEF NotInMap
<1>6. IsOpen(matches[m])
  BY <1>1 DEF IsOpen, OpenMatchStatus
<1>7. M \in Match /\ M.status \in Terminal /\ M.room = matches[m].room
  <2>1. CASE Participants(rooms[r]) \subseteq {u}
    BY <1>3, <2>1, MatchFieldFacts DEF Terminal
  <2>2. CASE ~(Participants(rooms[r]) \subseteq {u})
    <3> DEFINE rest == Without(rooms[r].joined, u)
    <3>1. rest \in Seq(Users) /\ ToSet(rest) = Participants(rooms[r]) \ {u}
      BY <1>2, WithoutFacts DEF Participants, WellFormed, Room
    <3>2. heir \in Users
      BY <2>2, <3>1, FirstFacts DEF WalkoverWinner
    <3>3. team \in Teams
      BY DEF Teams
    <3> HIDE DEF heir, team
    <3>4. M = FinishedMatch(matches[m], heir, team)
      BY <2>2
    <3>5. /\ FinishedMatch(matches[m], heir, team) \in Match
          /\ FinishedMatch(matches[m], heir, team).status = "FINISHED"
          /\ FinishedMatch(matches[m], heir, team).room = matches[m].room
      <4> HIDE DEF m, r
      <4> QED
        BY <1>3, <3>2, <3>3, MatchFieldFacts
    <3> HIDE DEF M
    <3> QED
      BY <3>4, <3>5 DEF Terminal
  <2> QED
    BY <2>1, <2>2
<1>8. SessionsFollow(r, R)
  <2> DEFINE room == rooms[r]
  <2> HIDE DEF R, r, m
  <2> QED
    BY <1>1, <1>2, <1>4, SessionsAfterLeave
<1>9. UsersTyped
  <2>1. WithPresence(Players(matches[m]), "ONLINE") \in [Users -> {"OFFLINE", "ONLINE", "IN_MATCH"}]
    BY PresenceFacts
  <2> QED
    BY <2>1 DEF LeaveActiveMatch, UsersTyped, IInv, TypeOK
<1>10. countdown' = [countdown EXCEPT ![r] = NoMatch]
  BY <1>1, <1>2, NoCountdownWhileActive
<1>11. rooms[r].match = m
  OBVIOUS
<1> HIDE DEF r, m, R, M
<1> QED
  BY <1>1, <1>2, <1>3, <1>4, <1>5, <1>6, <1>7, <1>8, <1>9, <1>10, <1>11, DecideKeepsIInv

(* room:ready, the toggle and the cancelled countdown. *)
LEMMA ToggleReadyKeepsIInv ==
  ASSUME IInv, NEW u \in Users, ToggleReady(u)
  PROVE  IInv'
<1> DEFINE r == session[u]
<1>1. r \in RoomIds /\ session' = session
  BY DEF ToggleReady
<1>2. rooms[r] \in Room /\ WellFormed(rooms[r]) /\ Live(rooms[r])
  BY <1>1, SessionFacts
<1>3. WithPresence(CancelledPlayers(r), "ONLINE") \in [Users -> {"OFFLINE", "ONLINE", "IN_MATCH"}]
  BY PresenceFacts
<1>4. UsersTyped
  BY <1>3 DEF ToggleReady, UsersTyped, IInv, TypeOK
<1>5. CASE CancelCountdown(r) /\ Changes(r, Settled(r))
  <2> DEFINE R == Settled(r)
  <2>1. /\ R \in Room /\ WellFormed(R) /\ Participants(R) = Participants(rooms[r])
        /\ Live(R)
    BY <1>1, <1>2, <1>5, CancelFacts
  <2>2. SessionsFollow(r, R)
    BY <1>1, <2>1, SessionsStay
  <2>3. Changes(r, R) /\ R.match = Settled(r).match /\ R.past = Settled(r).past
    BY <1>5
  <2> HIDE DEF R, r
  <2> QED
    BY <1>1, <1>4, <1>5, <2>1, <2>2, <2>3, CancelThenEditKeepsIInv
<1>6. CASE /\ u \in Participants(rooms[r])
           /\ Changes(r, ReadyToggled(rooms[r], u))
           /\ UNCHANGED <<matches, countdown, limitTimer>>
  <2> DEFINE R == ReadyToggled(rooms[r], u)
  <2>1. Alike(R, rooms[r])
    BY <1>2, <1>6, FlagFacts
  <2>2. SessionsFollow(r, R)
    BY <1>1, <1>2, <2>1, SessionsStay DEF Alike, Live
  <2>3. Changes(r, R)
    BY <1>6
  <2> HIDE DEF R, r
  <2> QED
    BY <1>1, <1>4, <1>6, <2>1, <2>2, <2>3, EditKeepsIInv DEF Alike
<1> QED
  BY <1>5, <1>6 DEF ToggleReady, Changes

(* A handler that cancels the countdown and then sets a flag of the room. *)
LEMMA CancelThenFlagKeepsIInv ==
  ASSUME IInv, NEW u \in Users, session[u] \in RoomIds, session' = session,
         CancelCountdown(session[u]), UsersTyped,
         NEW R, Changes(session[u], R), Alike(R, Settled(session[u]))
  PROVE  IInv'
<1> DEFINE r == session[u]
<1>1. /\ Participants(Settled(r)) = Participants(rooms[r])
      /\ Live(Settled(r))
  BY SessionFacts, CancelFacts
<1>2. SessionsFollow(r, R)
  BY <1>1, SessionsStay DEF Alike, Live
<1>3. r \in RoomIds /\ CancelCountdown(r) /\ Changes(r, R) /\ Alike(R, Settled(r))
  OBVIOUS
<1> HIDE DEF r
<1> QED
  BY <1>1, <1>2, <1>3, CancelThenEditKeepsIInv DEF Alike

(* room:assign-team. *)
LEMMA AssignTeamKeepsIInv ==
  ASSUME IInv, NEW u \in Users, NEW team \in TeamChoices, AssignTeam(u, team)
  PROVE  IInv'
<1> DEFINE r == session[u]
           R == [Settled(r) EXCEPT !.team[u] = team]
<1>1. r \in RoomIds /\ CancelCountdown(r) /\ session' = session /\ Changes(r, R)
  BY DEF AssignTeam, Changes
<1>2. Settled(r) \in Room /\ WellFormed(Settled(r)) /\ team \in Teams
  BY <1>1, CancelFacts, RoomMatchAssumption
<1>3. Alike(R, Settled(r))
  BY <1>2, FlagFacts
<1>4. WithPresence(CancelledPlayers(r), "ONLINE") \in [Users -> {"OFFLINE", "ONLINE", "IN_MATCH"}]
  BY PresenceFacts
<1>5. UsersTyped
  BY <1>4 DEF AssignTeam, UsersTyped, IInv, TypeOK
<1> HIDE DEF R
<1> QED
  BY <1>1, <1>3, <1>5, CancelThenFlagKeepsIInv

(* room:select-problem, by the host or not. *)
LEMMA SelectProblemKeepsIInv ==
  ASSUME IInv, NEW u \in Users, NEW hasProblem \in BOOLEAN, SelectProblem(u, hasProblem)
  PROVE  IInv'
<1> DEFINE r == session[u]
           R == IF rooms[r].host = u THEN [Settled(r) EXCEPT !.problem = hasProblem]
                ELSE Settled(r)
<1>1. r \in RoomIds /\ CancelCountdown(r) /\ session' = session /\ Changes(r, R)
  BY DEF SelectProblem, Changes
<1>2. Settled(r) \in Room /\ WellFormed(Settled(r))
  BY <1>1, CancelFacts
<1>3. Alike(R, Settled(r))
  BY <1>2, FlagFacts DEF Alike
<1>4. WithPresence(CancelledPlayers(r), "ONLINE") \in [Users -> {"OFFLINE", "ONLINE", "IN_MATCH"}]
  BY PresenceFacts
<1>5. UsersTyped
  BY <1>4 DEF SelectProblem, UsersTyped, IInv, TypeOK
<1> HIDE DEF R
<1> QED
  BY <1>1, <1>3, <1>5, CancelThenFlagKeepsIInv

(* The countdown of a new match, as room:start and MatchCreator begin it. *)
LEMMA CountdownMatchFacts ==
  ASSUME NEW r \in RoomIds, NEW red \in SUBSET Users, NEW blue \in SUBSET Users
  PROVE  LET M == CountdownMatch(r, red, blue) IN
         /\ M \in Match /\ M.status = "COUNTDOWN" /\ M.room = r
         /\ M.red = red /\ M.blue = blue
BY DEF CountdownMatch, Match, OpenMatchStatus, Teams

(* room:start. *)
LEMMA StartMatchKeepsIInv ==
  ASSUME IInv, NEW u \in Users, NEW m \in MatchIds, StartMatch(u, m)
  PROVE  IInv'
<1> DEFINE r == session[u]
           InTeam(t) == {v \in Participants(rooms[r]) : rooms[r].team[v] = t}
           R == InMatch(rooms[r], m)
           M == CountdownMatch(r, InTeam("red"), InTeam("blue"))
<1>1. /\ r \in RoomIds /\ Editable(rooms[r]) /\ matches[m].status = "UNUSED"
      /\ matches' = [matches EXCEPT ![m] = M]
      /\ Changes(r, R)
      /\ countdown' = [countdown EXCEPT ![r] = m]
      /\ UNCHANGED <<limitTimer, session, online>>
  BY DEF StartMatch, Changes
<1>2. /\ rooms[r] \in Room /\ WellFormed(rooms[r]) /\ Live(rooms[r])
      /\ Participants(rooms[r]) \subseteq Users
  BY <1>1, SessionFacts
<1>3. /\ R \in Room /\ WellFormed(R) /\ Live(R) /\ R.match = m /\ R.past = rooms[r].past
      /\ Participants(R) = Participants(rooms[r])
  BY <1>2, InMatchFacts
<1>4. rooms[r].match = NoMatch
  BY <1>1, <1>2 DEF WellFormed, Editable
<1>5. /\ M \in Match /\ M.status = "COUNTDOWN" /\ M.room = r
      /\ M.red = InTeam("red") /\ M.blue = InTeam("blue")
  <2>1. InTeam("red") \in SUBSET Users /\ InTeam("blue") \in SUBSET Users
    BY <1>2
  <2> HIDE DEF InTeam, r
  <2> QED
    BY <1>1, <2>1, CountdownMatchFacts
<1>6. Players(M) \subseteq Participants(R) /\ M.red \cap M.blue = {}
  BY <1>3, <1>5 DEF Players
<1>7. SessionsFollow(r, R)
  BY <1>1, <1>3, SessionsStay
<1>8. WithPresence(InTeam("red") \cup InTeam("blue"), "IN_MATCH")
        \in [Users -> {"OFFLINE", "ONLINE", "IN_MATCH"}]
  BY PresenceFacts
<1>9. UsersTyped
  BY <1>8 DEF StartMatch, UsersTyped, IInv, TypeOK
<1> HIDE DEF r, R, M, InTeam
<1> QED
  BY <1>1, <1>3, <1>4, <1>5, <1>6, <1>7, <1>9, BeginKeepsIInv

(* The room RoomAllocator builds for an accepted lobby. *)
LEMMA AllocatedRoomFacts ==
  ASSUME NEW s \in Seq(Users), s # <<>>, IsInjective(s),
         NEW team \in [Users -> Teams], NEW m \in MatchIds
  PROVE  LET R == AllocatedRoom(s, team, m) IN
         /\ R \in Room /\ WellFormed(R) /\ Live(R)
         /\ R.match = m /\ R.past = {} /\ Participants(R) = ToSet(s)
<1> DEFINE R0 == CreatedRoom(s[1], TRUE)
           R1 == [R0 EXCEPT !.joined = s]
           R2 == [R1 EXCEPT !.connected = ToSet(s)]
           R3 == [R0 EXCEPT !.joined = s, !.connected = ToSet(s), !.team = team]
<1>1. s[1] \in ToSet(s) /\ s[1] \in Users /\ ToSet(s) \in SUBSET Users
  BY FirstFacts
<1>2. /\ R0 \in Room /\ R0.status = "CREATED" /\ R0.match = NoMatch
      /\ R0.past = {} /\ R0.host = s[1]
  BY <1>1, CreatedRoomFacts
<1>3. R0.ready = {s[1]}
  BY DEF CreatedRoom, NotInMap
<1> HIDE DEF R0
<1>4. R1 \in Room
  BY <1>2, RoomFieldFacts
<1>5. R2 \in Room
  BY <1>1, <1>4, RoomFieldFacts
<1>7. R3 = [R2 EXCEPT !.team = team]
  OBVIOUS
<1>8. R3 \in Room
  <2> HIDE DEF R2, R3
  <2> QED
    BY <1>5, <1>7, RoomFieldFacts
<1>9. /\ R3.joined = s /\ R3.connected = ToSet(s) /\ R3.ready = {s[1]}
      /\ R3.status = "CREATED" /\ R3.match = NoMatch /\ R3.past = {}
      /\ R3.host = s[1]
  BY <1>2, <1>3 DEF Room
<1>10. AllocatedRoom(s, team, m) = InMatch(R3, m)
  BY DEF AllocatedRoom, R0
<1> HIDE DEF R3
<1>11. WellFormed(R3) /\ Live(R3) /\ Participants(R3) = ToSet(s)
  BY <1>1, <1>9 DEF WellFormed, Live, Participants, OpenRoomStatus
<1>12. LET R == InMatch(R3, m) IN
       /\ R \in Room /\ WellFormed(R) /\ Live(R)
       /\ R.match = m /\ R.past = {} /\ Participants(R) = ToSet(s)
  BY <1>8, <1>9, <1>11, InMatchFacts
<1> QED
  BY <1>10, <1>12

(* A lobby is a non-empty sequence of distinct users. *)
LEMMA LobbyFacts ==
  ASSUME NEW players \in Lobbies
  PROVE  players \in Seq(Users) /\ players # <<>> /\ IsInjective(players)
<1>1. PICK k \in LobbySizes : players \in [1..k -> Users]
  BY DEF Lobbies
<1>2. k \in Nat /\ k > 1
  BY RoomMatchAssumption
<1>3. players \in Seq(Users) /\ Len(players) = k
  BY <1>1, <1>2
<1>4. players # <<>>
  BY <1>2, <1>3
<1>5. IsInjective(players)
  BY DEF Lobbies
<1> QED
  BY <1>3, <1>4, <1>5

(* A lobby gets its room and match. *)
LEMMA AllocateMatchKeepsIInv ==
  ASSUME IInv, NEW players \in Lobbies, NEW r \in RoomIds, NEW m \in MatchIds,
         AllocateMatch(players, r, m)
  PROVE  IInv'
<1> DEFINE n      == Len(players)
           inRed  == {players[i] : i \in {j \in 1..n : 2 * j <= n + 1}}
           inBlue == ToSet(players) \ inRed
           team   == [u \in Users |-> CASE u \in inRed  -> "red"
                                         [] u \in inBlue -> "blue"
                                         [] OTHER        -> "none"]
           R == AllocatedRoom(players, team, m)
           M == CountdownMatch(r, inRed, inBlue)
<1>1. players \in Seq(Users) /\ players # <<>> /\ IsInjective(players)
  BY LobbyFacts
<1>2. /\ R \in Room /\ WellFormed(R) /\ Live(R) /\ R.match = m /\ R.past = {}
      /\ Participants(R) = ToSet(players)
  <2>1. team \in [Users -> Teams]
    BY DEF Teams
  <2> HIDE DEF team
  <2> QED
    BY <1>1, <2>1, AllocatedRoomFacts
<1>3. inRed \subseteq ToSet(players) /\ ToSet(players) \subseteq Users
  <2>1. DOMAIN players = 1..n
    BY <1>1
  <2> QED
    BY <1>1, <2>1, FirstFacts DEF ToSet
<1>4. /\ rooms[r].status = "UNUSED" /\ matches[m].status = "UNUSED"
      /\ Changes(r, R)
      /\ session' = [u \in Users |-> IF u \in ToSet(players) THEN r ELSE session[u]]
      /\ matches' = [matches EXCEPT ![m] = M]
      /\ countdown' = [countdown EXCEPT ![r] = m]
      /\ presence' = WithPresence(ToSet(players), "IN_MATCH")
      /\ UNCHANGED <<limitTimer, online>>
  BY DEF AllocateMatch, Changes
<1>5. inRed \in SUBSET Users /\ inBlue \in SUBSET Users /\ inRed \cap inBlue = {}
      /\ inRed \cup inBlue \subseteq ToSet(players)
  BY <1>3
<1> HIDE DEF inRed, inBlue, R
<1>6. /\ M \in Match /\ M.status = "COUNTDOWN" /\ M.room = r
      /\ M.red = inRed /\ M.blue = inBlue
  BY <1>5, CountdownMatchFacts
<1> HIDE DEF M
<1>7. Players(M) \subseteq Participants(R) /\ M.red \cap M.blue = {}
  BY <1>2, <1>5, <1>6 DEF Players
<1>8. rooms[r].match = NoMatch /\ ~Live(rooms[r])
  BY <1>4 DEF IInv, RoomsWellFormed, WellFormed, Live, OpenRoomStatus
<1>9. SessionsFollow(r, R)
  BY <1>2, <1>4, <1>8 DEF SessionsFollow, IInv, TypeOK, SessionRoomLive
<1>10. UsersTyped
  BY <1>4, PresenceFacts DEF UsersTyped, IInv, TypeOK
<1> QED
  BY <1>2, <1>4, <1>6, <1>7, <1>8, <1>9, <1>10, BeginKeepsIInv

(* The countdown's match becomes ACTIVE and gets its 3 hour timer. *)
LEMMA CountdownExpiresKeepsIInv ==
  ASSUME IInv, NEW r \in RoomIds, CountdownExpires(r)
  PROVE  IInv'
<1> DEFINE m == countdown[r]
           M == StartedMatch(matches[m])
<1>1. /\ m # NoMatch /\ limitTimer' = limitTimer \cup {m}
      /\ UNCHANGED <<rooms, session, online, presence>>
  BY DEF CountdownExpires, Counting, Armed
<1>2. /\ m \in MatchIds /\ matches[m] \in Match /\ matches[m].status = "COUNTDOWN"
      /\ rooms[r].match = m
  BY <1>1 DEF IInv, TypeOK, CountdownSound, Counting
<1>3. \A k \in MatchIds : matches'[k] = IF k = m THEN M ELSE matches[k]
  BY DEF CountdownExpires, IInv, TypeOK
<1>4. \A q \in RoomIds : countdown'[q] = IF q = r THEN NoMatch ELSE countdown[q]
  BY DEF CountdownExpires, IInv, TypeOK
<1>5. /\ M \in Match /\ M.status = "ACTIVE" /\ M.room = matches[m].room
      /\ M.red = matches[m].red /\ M.blue = matches[m].blue
  BY <1>2 DEF StartedMatch, Match, OpenMatchStatus
<1>6. TypeOK'
  <2>1. matches' \in [MatchIds -> Match] /\ countdown' \in [RoomIds -> MatchIds \cup {NoMatch}]
    BY <1>2, <1>5 DEF CountdownExpires, IInv, TypeOK
  <2> QED
    BY <1>1, <1>2, <2>1 DEF IInv, TypeOK
<1> HIDE DEF M, m
<1>7. RoomsWellFormed' /\ SessionRoomLive'
  BY <1>1 DEF IInv, RoomsWellFormed, SessionRoomLive
<1>8. CountdownSound'
  <2>1. ASSUME NEW q \in RoomIds, countdown'[q] # NoMatch
        PROVE  /\ rooms'[q].status = "MATCH_IN_PROGRESS"
               /\ rooms'[q].match = countdown'[q]
               /\ matches'[countdown'[q]].status = "COUNTDOWN"
    <3>1. q # r /\ countdown'[q] = countdown[q] /\ countdown[q] \in MatchIds
      BY <1>4, <2>1 DEF IInv, TypeOK
    <3>2. /\ rooms[q].match = countdown[q] /\ rooms[q].status = "MATCH_IN_PROGRESS"
          /\ matches[countdown[q]].status = "COUNTDOWN"
      BY <2>1, <3>1 DEF IInv, CountdownSound, Counting
    <3>3. countdown[q] # m
      BY <1>1, <1>2, <3>1, <3>2 DEF IInv, HistoryDecided
    <3> QED
      BY <1>1, <1>3, <3>1, <3>2, <3>3
  <2>2. ASSUME NEW k \in MatchIds, matches'[k].status = "COUNTDOWN"
        PROVE  countdown'[matches'[k].room] = k
    <3>1. k # m /\ matches'[k] = matches[k]
      BY <1>3, <1>5, <2>2
    <3>2. countdown[matches[k].room] = k /\ matches[k].room \in RoomIds
      BY <2>2, <3>1 DEF IInv, CountdownSound, OpenMatchHosted, IsOpen, OpenMatchStatus
    <3>3. matches[k].room # r
      BY <3>1, <3>2 DEF m
    <3> QED
      BY <1>4, <3>1, <3>2, <3>3
  <2> QED
    BY <2>1, <2>2 DEF CountdownSound, Counting
<1>9. LimitTimerExact'
  BY <1>1, <1>2, <1>3, <1>5 DEF IInv, LimitTimerExact
<1>10. OpenMatchHosted'
  <2> SUFFICES ASSUME NEW k \in MatchIds, IsOpen(matches'[k])
               PROVE  /\ matches'[k].room \in RoomIds
                      /\ rooms'[matches'[k].room].status = "MATCH_IN_PROGRESS"
                      /\ rooms'[matches'[k].room].match = k
                      /\ Players(matches'[k]) \subseteq Participants(rooms'[matches'[k].room])
                      /\ matches'[k].red \cap matches'[k].blue = {}
    BY DEF OpenMatchHosted
  <2>1. IsOpen(matches[k])
    BY <1>2, <1>3 DEF IsOpen, OpenMatchStatus
  <2>2. /\ matches'[k].room = matches[k].room /\ matches'[k].red = matches[k].red
        /\ matches'[k].blue = matches[k].blue
    BY <1>3, <1>5
  <2> QED
    BY <1>1, <2>1, <2>2 DEF IInv, OpenMatchHosted, Players
<1>11. HistoryDecided'
  <2> SUFFICES ASSUME NEW q \in RoomIds
               PROVE  /\ rooms'[q].match # NoMatch =>
                           /\ matches'[rooms'[q].match].room = q
                           /\ matches'[rooms'[q].match].status # "UNUSED"
                      /\ \A k \in rooms'[q].past :
                           matches'[k].status \in Terminal /\ matches'[k].room = q
    BY DEF HistoryDecided
  <2>1. /\ rooms[q].match \in MatchIds \cup {NoMatch}
        /\ rooms[q].match # NoMatch =>
             /\ matches[rooms[q].match].room = q
             /\ matches[rooms[q].match].status # "UNUSED"
        /\ \A k \in rooms[q].past :
             k \in MatchIds /\ matches[k].status \in Terminal /\ matches[k].room = q
    BY DEF IInv, TypeOK, HistoryDecided, Room
  <2>2. m \notin rooms[q].past
    BY <1>2, <2>1 DEF Terminal
  <2> QED
    BY <1>1, <1>3, <1>5, <2>1, <2>2
<1> QED
  BY <1>6, <1>7, <1>8, <1>9, <1>10, <1>11 DEF IInv

(* The 3 hour limit deletes the room of an ACTIVE match. *)
LEMMA TimeLimitKeepsIInv ==
  ASSUME IInv, NEW m \in MatchIds, TimeLimit(m)
  PROVE  IInv'
<1> DEFINE r == matches[m].room
           R == NotInMap("CLOSED")
           M == AbortedMatch(matches[m])
<1>1. m \in limitTimer /\ limitTimer' = limitTimer \ {m}
      /\ UNCHANGED <<countdown, online>>
  BY DEF TimeLimit, Cleared
<1>2. matches[m] \in Match /\ matches[m].status = "ACTIVE" /\ IsOpen(matches[m])
  BY <1>1 DEF IInv, TypeOK, LimitTimerExact, IsOpen, OpenMatchStatus
<1>3. /\ r \in RoomIds /\ rooms[r].match = m /\ rooms[r].status = "MATCH_IN_PROGRESS"
  BY <1>2 DEF IInv, OpenMatchHosted
<1>4. R \in Room /\ WellFormed(R) /\ R.match = NoMatch /\ R.past = {}
  BY NotInMapFacts DEF NotInMap
<1>5. Changes(r, R)
  BY <1>3 DEF TimeLimit, Changes, Live, OpenRoomStatus, IInv, TypeOK
<1>6. M \in Match /\ M.status \in Terminal /\ M.room = matches[m].room
  BY <1>2, MatchFieldFacts DEF Terminal
<1>7. matches' = [matches EXCEPT ![m] = M]
  BY DEF TimeLimit, IInv, TypeOK
<1>8. /\ session' \in [Users -> RoomIds \cup {NoRoom, NoSession}]
      /\ \A v \in Users : session'[v] = IF v \in Participants(rooms[r]) THEN NoRoom
                                         ELSE session[v]
  BY <1>3 DEF TimeLimit, Evicted, IInv, TypeOK
<1>9. SessionsFollow(r, R)
  BY <1>8, RoomMatchAssumption DEF SessionsFollow, IInv, SessionRoomLive
<1>10. UsersTyped
  <2>1. WithPresence(Players(matches[m]), "ONLINE") \in [Users -> {"OFFLINE", "ONLINE", "IN_MATCH"}]
    BY PresenceFacts
  <2> QED
    BY <2>1 DEF TimeLimit, UsersTyped, IInv, TypeOK
<1>11. countdown' = [countdown EXCEPT ![r] = NoMatch]
  BY <1>1, <1>2, <1>3, NoCountdownWhileActive
<1>12. M.room = matches[m].room /\ IsOpen(matches[m])
  BY <1>2, <1>6
<1> HIDE DEF r, R, M
<1> QED
  BY <1>1, <1>3, <1>4, <1>5, <1>6, <1>7, <1>9, <1>10, <1>11, <1>12, DecideKeepsIInv

(* An ACCEPTED verdict. *)
LEMMA AcceptedVerdictKeepsIInv ==
  ASSUME IInv, NEW u \in Users, AcceptedVerdict(u)
  PROVE  IInv'
<1> DEFINE r == session[u]
           m == rooms[r].match
           R == SessionEnded(rooms[r])
           team == TeamOf(matches[m], u)
           M == FinishedMatch(matches[m], u, team)
<1>1. /\ r \in RoomIds /\ m # NoMatch /\ matches[m].status = "ACTIVE"
      /\ limitTimer' = limitTimer \ {m}
      /\ Changes(r, R)
      /\ UNCHANGED <<countdown, session, online>>
  BY DEF AcceptedVerdict, Changes, Cleared
<1>2. rooms[r] \in Room /\ WellFormed(rooms[r]) /\ Live(rooms[r]) /\ m \in MatchIds
  BY <1>1, SessionFacts
<1>3. matches' = [matches EXCEPT ![m] = M] /\ matches[m] \in Match
  BY <1>2 DEF AcceptedVerdict, IInv, TypeOK
<1>4. /\ R \in Room /\ WellFormed(R) /\ Live(R) /\ R.match = NoMatch
      /\ R.past = rooms[r].past \cup {m} /\ Participants(R) = Participants(rooms[r])
  BY <1>2, SessionEndedFacts
<1>5. team \in Teams
  BY DEF TeamOf, Teams
<1>6. M \in Match /\ M.status \in Terminal /\ M.room = matches[m].room
  <2> HIDE DEF team, m, r
  <2> QED
    BY <1>3, <1>5, MatchFieldFacts DEF Terminal
<1>7. SessionsFollow(r, R)
  BY <1>1, <1>4, SessionsStay
<1>8. UsersTyped
  <2>1. WithPresence(Players(matches[m]), "ONLINE") \in [Users -> {"OFFLINE", "ONLINE", "IN_MATCH"}]
    BY PresenceFacts
  <2> QED
    BY <2>1 DEF AcceptedVerdict, UsersTyped, IInv, TypeOK
<1>9. countdown' = [countdown EXCEPT ![r] = NoMatch]
  BY <1>1, NoCountdownWhileActive
<1>10. rooms[r].match = m /\ IsOpen(matches[m])
  BY <1>1 DEF IsOpen, OpenMatchStatus
<1> HIDE DEF r, m, R, M
<1> QED
  BY <1>1, <1>2, <1>3, <1>4, <1>6, <1>7, <1>8, <1>9, <1>10, DecideKeepsIInv

-----------------------------------------------------------------------------
(* The invariant. *)

(* The service starts in IInv. *)
LEMMA InitIInv == Init => IInv
<1> SUFFICES ASSUME Init PROVE IInv
  OBVIOUS
<1>1. NotInMap("UNUSED") \in Room /\ WellFormed(NotInMap("UNUSED"))
  BY NotInMapFacts
<1>2. NoMatchYet \in Match
  BY DEF NoMatchYet, Match, Teams
<1>3. TypeOK
  BY <1>1, <1>2 DEF Init, TypeOK
<1>4. RoomsWellFormed /\ SessionRoomLive
  BY <1>1, RoomMatchAssumption DEF Init, RoomsWellFormed, SessionRoomLive
<1>5. CountdownSound /\ LimitTimerExact /\ OpenMatchHosted
  BY DEF Init, CountdownSound, LimitTimerExact, OpenMatchHosted, Counting, NoMatchYet,
         IsOpen, OpenMatchStatus
<1>6. HistoryDecided
  BY DEF Init, HistoryDecided, NotInMap
<1> QED
  BY <1>3, <1>4, <1>5, <1>6 DEF IInv

(* Every step keeps IInv: the lemmas above, one per disjunct of Next. *)
LEMMA NextKeepsIInv == IInv /\ [Next]_vars => IInv'
<1> SUFFICES ASSUME IInv, [Next]_vars PROVE IInv'
  OBVIOUS
<1>1. ASSUME NEW u \in Users,
             \/ \E hasProblem \in BOOLEAN : SelectProblem(u, hasProblem)
             \/ Connect(u) \/ DisconnectInRoom(u) \/ DisconnectOutside(u)
             \/ LeaveRoom(u) \/ LeaveActiveMatch(u)
             \/ ToggleReady(u) \/ AcceptedVerdict(u)
             \/ \E team \in TeamChoices : AssignTeam(u, team)
             \/ \E r \in RoomIds, hasProblem \in BOOLEAN : CreateRoom(u, r, hasProblem)
             \/ \E r \in RoomIds : JoinRoom(u, r)
             \/ \E m \in MatchIds : StartMatch(u, m)
      PROVE  IInv'
  BY <1>1, SelectProblemKeepsIInv, ConnectKeepsIInv, DisconnectInRoomKeepsIInv,
     DisconnectOutsideKeepsIInv, LeaveRoomKeepsIInv, LeaveActiveMatchKeepsIInv,
     ToggleReadyKeepsIInv, AcceptedVerdictKeepsIInv, AssignTeamKeepsIInv,
     CreateRoomKeepsIInv, JoinRoomKeepsIInv, StartMatchKeepsIInv
<1>2. ASSUME NEW players \in Lobbies, NEW r \in RoomIds, NEW m \in MatchIds,
             AllocateMatch(players, r, m)
      PROVE  IInv'
  BY <1>2, AllocateMatchKeepsIInv
<1>3. ASSUME NEW r \in RoomIds, CountdownExpires(r)
      PROVE  IInv'
  BY <1>3, CountdownExpiresKeepsIInv
<1>4. ASSUME NEW m \in MatchIds, TimeLimit(m)
      PROVE  IInv'
  BY <1>4, TimeLimitKeepsIInv
<1>5. CASE UNCHANGED vars
  BY <1>5 DEF vars, IInv, TypeOK, RoomsWellFormed, SessionRoomLive, CountdownSound,
              LimitTimerExact, OpenMatchHosted, HistoryDecided, Counting
<1> QED
  BY <1>1, <1>2, <1>3, <1>4, <1>5 DEF Next

(* The inductive invariant holds in every state the service reaches. *)
THEOREM Invariance == Spec => []IInv
BY InitIInv, NextKeepsIInv, PTL DEF Spec

(* Every state the service reaches is well typed: no handler stores an     *)
(* undefined host, team, winner or match.                                  *)
THEOREM TypeCorrect == Spec => []TypeOK
<1>1. IInv => TypeOK
  BY DEF IInv
<1> QED
  BY <1>1, Invariance, PTL

(* Every room in the map keeps a host who is a participant, flags of       *)
(* participants only, and a match exactly while MATCH_IN_PROGRESS.         *)
THEOREM RoomsStayWellFormed == Spec => []RoomsWellFormed
<1>1. IInv => RoomsWellFormed
  BY DEF IInv
<1> QED
  BY <1>1, Invariance, PTL

(* The room lookups in the socket listeners never miss: a session's room   *)
(* is in the map and has the user as a participant.                        *)
THEOREM SessionsSound == Spec => []SessionRoomLive
<1>1. IInv => SessionRoomLive
  BY DEF IInv
<1> QED
  BY <1>1, Invariance, PTL

(* A countdown that fires starts the match it was set for, which is still  *)
(* in COUNTDOWN and still the room's match.                                *)
THEOREM CountdownsSound == Spec => []CountdownSound
<1>1. IInv => CountdownSound
  BY DEF IInv
<1> QED
  BY <1>1, Invariance, PTL

(* The 3 hour timers pending are exactly those of the ACTIVE matches.      *)
THEOREM LimitTimersExact == Spec => []LimitTimerExact
<1>1. IInv => LimitTimerExact
  BY DEF IInv
<1> QED
  BY <1>1, Invariance, PTL

(* An undecided match is the current match of a live room that holds all   *)
(* its players.                                                            *)
THEOREM OpenMatchesHosted == Spec => []OpenMatchHosted
<1>1. IInv => OpenMatchHosted
  BY DEF IInv
<1> QED
  BY <1>1, Invariance, PTL

(* A room's past matches were all decided, in that room.                   *)
THEOREM HistoriesDecided == Spec => []HistoryDecided
<1>1. IInv => HistoryDecided
  BY DEF IInv
<1> QED
  BY <1>1, Invariance, PTL

-----------------------------------------------------------------------------
(* What a step may do to the matches. *)

Begins(m) ==
  \E r \in RoomIds, red \in SUBSET Users, blue \in SUBSET Users :
    /\ matches[m].status = "UNUSED"
    /\ rooms[r].match = NoMatch
    /\ matches' = [matches EXCEPT ![m] = CountdownMatch(r, red, blue)]

Starts(m) ==
  /\ matches[m].status = "COUNTDOWN"
  /\ matches' = [matches EXCEPT ![m] = StartedMatch(matches[m])]

Finishes(m) ==
  /\ matches[m].status = "ACTIVE"
  /\ \E u \in Users, team \in Teams :
       matches' = [matches EXCEPT ![m] = FinishedMatch(matches[m], u, team)]

Aborts(m) ==
  /\ IsOpen(matches[m])
  /\ matches' = [matches EXCEPT ![m] = AbortedMatch(matches[m])]

MatchStep ==
  \/ UNCHANGED matches
  \/ \E m \in MatchIds : Begins(m) \/ Starts(m) \/ Finishes(m) \/ Aborts(m)

(* checkAndCancelCountdown aborts the match of the countdown, if any. *)
LEMMA CancelIsMatchStep ==
  ASSUME IInv, NEW r \in RoomIds, CancelCountdown(r)
  PROVE  MatchStep
<1> DEFINE m == rooms[r].match
<1>1. \/ UNCHANGED matches
      \/ m \in MatchIds /\ Aborts(m)
  BY CancelFacts DEF Aborts
<1> QED
  BY <1>1 DEF MatchStep

(* Leaving an ACTIVE match finishes or aborts it. *)
LEMMA LeaveActiveMatchIsMatchStep ==
  ASSUME IInv, NEW u \in Users, LeaveActiveMatch(u)
  PROVE  MatchStep
<1> DEFINE r    == session[u]
           m    == rooms[r].match
           heir == WalkoverWinner(rooms[r], u)
           team == IF heir \in matches[m].red THEN "red" ELSE "blue"
<1>1. r \in RoomIds /\ m # NoMatch /\ matches[m].status = "ACTIVE"
  BY DEF LeaveActiveMatch
<1>2. rooms[r] \in Room /\ WellFormed(rooms[r]) /\ m \in MatchIds
  BY <1>1, SessionFacts
<1>3. CASE Participants(rooms[r]) \subseteq {u}
  <2>1. Aborts(m)
    BY <1>1, <1>3 DEF LeaveActiveMatch, Aborts, IsOpen, OpenMatchStatus
  <2> QED
    BY <1>2, <2>1 DEF MatchStep
<1>4. CASE ~(Participants(rooms[r]) \subseteq {u})
  <2> DEFINE rest == Without(rooms[r].joined, u)
  <2>1. rest \in Seq(Users) /\ ToSet(rest) = Participants(rooms[r]) \ {u}
    BY <1>2, WithoutFacts DEF Participants, WellFormed, Room
  <2>2. heir \in Users /\ team \in Teams
    BY <1>4, <2>1, FirstFacts DEF WalkoverWinner, Teams
  <2>3. matches' = [matches EXCEPT ![m] = FinishedMatch(matches[m], heir, team)]
    BY <1>4 DEF LeaveActiveMatch
  <2> HIDE DEF heir, team
  <2>4. Finishes(m)
    BY <1>1, <2>2, <2>3 DEF Finishes
  <2> QED
    BY <1>2, <2>4 DEF MatchStep
<1> QED
  BY <1>3, <1>4

(* A verdict finishes an ACTIVE match. *)
LEMMA AcceptedVerdictIsMatchStep ==
  ASSUME IInv, NEW u \in Users, AcceptedVerdict(u)
  PROVE  MatchStep
<1> DEFINE m    == rooms[session[u]].match
           team == TeamOf(matches[m], u)
<1>1. /\ session[u] \in RoomIds /\ m # NoMatch /\ matches[m].status = "ACTIVE"
      /\ matches' = [matches EXCEPT ![m] = FinishedMatch(matches[m], u, team)]
  BY DEF AcceptedVerdict
<1>2. m \in MatchIds
  BY <1>1, SessionFacts
<1>3. team \in Teams
  BY DEF TeamOf, Teams
<1> HIDE DEF team
<1>4. Finishes(m)
  BY <1>1, <1>3 DEF Finishes
<1> QED
  BY <1>2, <1>4 DEF MatchStep

(* room:start begins a fresh match in a room without one. *)
LEMMA StartMatchIsMatchStep ==
  ASSUME IInv, NEW u \in Users, NEW m \in MatchIds, StartMatch(u, m)
  PROVE  MatchStep
<1> DEFINE r == session[u]
           InTeam(t) == {v \in Participants(rooms[r]) : rooms[r].team[v] = t}
           red == InTeam("red")
           blue == InTeam("blue")
<1>1. /\ r \in RoomIds /\ Editable(rooms[r]) /\ matches[m].status = "UNUSED"
      /\ matches' = [matches EXCEPT ![m] = CountdownMatch(r, red, blue)]
  BY DEF StartMatch
<1>2. WellFormed(rooms[r]) /\ Participants(rooms[r]) \subseteq Users
  BY <1>1, SessionFacts
<1>3. rooms[r].match = NoMatch
  BY <1>1, <1>2 DEF WellFormed, Editable
<1>4. red \in SUBSET Users /\ blue \in SUBSET Users
  BY <1>2
<1> HIDE DEF r, red, blue
<1>5. Begins(m)
  BY <1>1, <1>3, <1>4 DEF Begins
<1> QED
  BY <1>5 DEF MatchStep

(* So does the allocation of a lobby's room. *)
LEMMA AllocateMatchIsMatchStep ==
  ASSUME IInv, NEW players \in Lobbies, NEW r \in RoomIds, NEW m \in MatchIds,
         AllocateMatch(players, r, m)
  PROVE  MatchStep
<1> DEFINE n    == Len(players)
           red  == {players[i] : i \in {j \in 1..n : 2 * j <= n + 1}}
           blue == ToSet(players) \ red
<1>1. /\ rooms[r].status = "UNUSED" /\ matches[m].status = "UNUSED"
      /\ matches' = [matches EXCEPT ![m] = CountdownMatch(r, red, blue)]
  BY DEF AllocateMatch
<1>2. rooms[r].match = NoMatch
  BY <1>1 DEF IInv, RoomsWellFormed, WellFormed
<1>3. players \in Seq(Users)
  BY LobbyFacts
<1>4. red \subseteq Users /\ blue \subseteq Users
  <2>1. ToSet(players) \subseteq Users /\ DOMAIN players = 1..n
    BY <1>3, FirstFacts
  <2>2. red \subseteq ToSet(players)
    BY <2>1 DEF ToSet
  <2> QED
    BY <2>1, <2>2
<1> HIDE DEF red, blue
<1>5. Begins(m)
  BY <1>1, <1>2, <1>4 DEF Begins
<1> QED
  BY <1>5 DEF MatchStep

(* Every step does to the matches what MatchStep allows. *)
LEMMA NextIsMatchStep == IInv /\ [Next]_vars => MatchStep
<1> SUFFICES ASSUME IInv, [Next]_vars PROVE MatchStep
  OBVIOUS
<1>1. ASSUME NEW u \in Users,
             \/ Connect(u) \/ DisconnectOutside(u)
             \/ \E r \in RoomIds, hasProblem \in BOOLEAN : CreateRoom(u, r, hasProblem)
             \/ \E r \in RoomIds : JoinRoom(u, r)
      PROVE  UNCHANGED matches
  BY <1>1 DEF Connect, DisconnectOutside, CreateRoom, JoinRoom
<1>2. ASSUME NEW u \in Users,
             \/ \E hasProblem \in BOOLEAN : SelectProblem(u, hasProblem)
             \/ DisconnectInRoom(u) \/ LeaveRoom(u) \/ ToggleReady(u)
             \/ \E team \in TeamChoices : AssignTeam(u, team)
      PROVE  UNCHANGED matches \/ \E r \in RoomIds : CancelCountdown(r)
  BY <1>2 DEF SelectProblem, DisconnectInRoom, LeaveRoom, ToggleReady, AssignTeam
<1>3. ASSUME NEW r \in RoomIds, CountdownExpires(r)
      PROVE  \E m \in MatchIds : Starts(m)
  <2>1. countdown[r] \in MatchIds /\ matches[countdown[r]].status = "COUNTDOWN"
    BY <1>3 DEF CountdownExpires, Counting, IInv, TypeOK, CountdownSound
  <2>2. Starts(countdown[r])
    BY <1>3, <2>1 DEF CountdownExpires, Starts
  <2> QED
    BY <2>1, <2>2
<1>4. ASSUME NEW m \in MatchIds, TimeLimit(m)
      PROVE  Aborts(m)
  BY <1>4 DEF TimeLimit, Aborts, IInv, LimitTimerExact, IsOpen, OpenMatchStatus
<1>5. CASE UNCHANGED vars
  BY <1>5 DEF vars, MatchStep
<1>6. ASSUME NEW r \in RoomIds, CancelCountdown(r) PROVE MatchStep
  BY <1>6, CancelIsMatchStep
<1>7. CASE Next
  BY <1>1, <1>2, <1>3, <1>4, <1>6, <1>7, LeaveActiveMatchIsMatchStep,
     AcceptedVerdictIsMatchStep, StartMatchIsMatchStep, AllocateMatchIsMatchStep
     DEF Next, MatchStep
<1> QED
  BY <1>5, <1>7

(* A decided match keeps its result: no later verdict, leave or timer      *)
(* decides it again.                                                       *)
THEOREM ResultsFinal == Spec => DecidedForGood
<1>1. ASSUME IInv, MatchStep, NEW m \in MatchIds, matches[m].status \in Terminal
      PROVE  matches'[m] = matches[m]
  BY <1>1 DEF MatchStep, Begins, Starts, Finishes, Aborts, IsOpen, OpenMatchStatus,
              Terminal, IInv, TypeOK
<1>2. IInv /\ [Next]_vars =>
        [\A m \in MatchIds : matches[m].status \in Terminal => matches'[m] = matches[m]]_vars
  BY <1>1, NextIsMatchStep
<1> QED
  BY <1>2, Invariance, PTL DEF Spec, DecidedForGood

-----------------------------------------------------------------------------
(* RoomMatch implements the safety half of MatchLedger. *)

(* Only a FINISHED match has a winner. *)
Unwon == \A m \in MatchIds : matches[m].status # "FINISHED" => matches[m].winner = NoUser

(* A match that is not FINISHED has no winner on record. *)
LEMMA UnwonInvariance == Spec => []Unwon
<1>1. Init => Unwon
  BY DEF Init, Unwon, NoMatchYet
<1>2. IInv /\ Unwon /\ [Next]_vars => Unwon'
  <2> SUFFICES ASSUME IInv, Unwon, MatchStep, NEW k \in MatchIds,
                      matches'[k].status # "FINISHED"
               PROVE  matches'[k].winner = NoUser
    BY NextIsMatchStep DEF Unwon
  <2>1. matches[k] \in Match /\ (matches[k].status # "FINISHED" => matches[k].winner = NoUser)
    BY DEF IInv, TypeOK, Unwon
  <2>2. CASE matches'[k] = matches[k]
    BY <2>1, <2>2
  <2>3. CASE Begins(k)
    <3>1. PICK r \in RoomIds, red \in SUBSET Users, blue \in SUBSET Users :
            matches'[k] = CountdownMatch(r, red, blue)
      BY <2>3 DEF Begins, IInv, TypeOK
    <3> QED
      BY <3>1 DEF CountdownMatch
  <2>4. CASE Starts(k)
    <3>1. matches'[k] = StartedMatch(matches[k]) /\ matches[k].status = "COUNTDOWN"
      BY <2>4 DEF Starts, IInv, TypeOK
    <3> QED
      BY <2>1, <3>1 DEF StartedMatch, Match
  <2>5. CASE Finishes(k)
    <3>1. PICK u \in Users, team \in Teams : matches'[k] = FinishedMatch(matches[k], u, team)
      BY <2>5 DEF Finishes, IInv, TypeOK
    <3>2. FinishedMatch(matches[k], u, team).status = "FINISHED"
      BY <2>1, FinishedMatchFacts
    <3> QED
      BY <3>1, <3>2
  <2>6. CASE Aborts(k)
    <3>1. matches'[k] = AbortedMatch(matches[k]) /\ matches[k].status # "FINISHED"
      BY <2>6 DEF Aborts, IsOpen, OpenMatchStatus, IInv, TypeOK
    <3> QED
      BY <2>1, <3>1 DEF AbortedMatch, Match
  <2>7. ASSUME NEW m \in MatchIds, Begins(m) \/ Starts(m) \/ Finishes(m) \/ Aborts(m),
               m # k
        PROVE  matches'[k] = matches[k]
    BY <2>7 DEF Begins, Starts, Finishes, Aborts, IInv, TypeOK
  <2> QED
    BY <2>2, <2>3, <2>4, <2>5, <2>6, <2>7 DEF MatchStep
<1> QED
  BY <1>1, <1>2, Invariance, PTL DEF Spec

(* A MatchStep is a step of MatchLedger or changes nothing it sees. *)
LEMMA MatchStepIsLedgerStep ==
  ASSUME IInv, TypeOK', Unwon, MatchStep
  PROVE  [Ledger!Next]_(Ledger!ledger)
<1> DEFINE phase  == [m \in MatchIds |-> matches[m].status]
           venue  == [m \in MatchIds |-> matches[m].room]
           victor == [m \in MatchIds |-> matches[m].winner]
<1>1. matches \in [MatchIds -> Match] /\ matches' \in [MatchIds -> Match]
  BY DEF IInv, TypeOK
<1>2. CASE UNCHANGED matches
  BY <1>2 DEF Ledger!ledger
<1>3. ASSUME NEW m \in MatchIds, Begins(m)
      PROVE  Ledger!Next
  <2>1. PICK r \in RoomIds, red \in SUBSET Users, blue \in SUBSET Users :
          /\ matches[m].status = "UNUSED"
          /\ rooms[r].match = NoMatch
          /\ matches' = [matches EXCEPT ![m] = CountdownMatch(r, red, blue)]
    BY <1>3 DEF Begins
  <2>2. \A k \in MatchIds :
          matches'[k] = IF k = m THEN CountdownMatch(r, red, blue) ELSE matches[k]
    BY <1>1, <2>1
  <2> DEFINE M == CountdownMatch(r, red, blue)
  <2>3. M.status = "COUNTDOWN" /\ M.room = r /\ M.winner = NoUser
    BY DEF CountdownMatch
  <2> HIDE DEF M
  <2>4. /\ phase' = [phase EXCEPT ![m] = "COUNTDOWN"]
        /\ venue' = [venue EXCEPT ![m] = r]
        /\ victor' = victor
    <3>1. \A k \in MatchIds : matches'[k] = IF k = m THEN M ELSE matches[k]
      BY <2>2 DEF M
    <3>2. matches[m].winner = NoUser
      BY <2>1 DEF Unwon
    <3> QED
      BY <2>3, <3>1, <3>2
  <2>5. \A k \in MatchIds : Ledger!Undecided(k) => matches[k].room # r
    BY <2>1, RoomMatchAssumption
       DEF Ledger!Undecided, IInv, OpenMatchHosted, IsOpen, OpenMatchStatus
  <2>6. Ledger!Begin(m, r)
    BY <2>1, <2>4, <2>5 DEF Ledger!Begin
  <2> QED
    BY <2>6 DEF Ledger!Next
<1>4. ASSUME NEW m \in MatchIds, Starts(m)
      PROVE  Ledger!Next
  <2>1. \A k \in MatchIds :
          matches'[k] = IF k = m THEN StartedMatch(matches[m]) ELSE matches[k]
    BY <1>1, <1>4 DEF Starts
  <2>2. phase' = [phase EXCEPT ![m] = "ACTIVE"] /\ venue' = venue /\ victor' = victor
    BY <1>1, <2>1 DEF StartedMatch, Match
  <2>3. Ledger!Start(m)
    BY <1>4, <2>2 DEF Ledger!Start, Starts
  <2> QED
    BY <2>3 DEF Ledger!Next, Ledger!Progress
<1>5. ASSUME NEW m \in MatchIds, Finishes(m)
      PROVE  Ledger!Next
  <2>1. PICK u \in Users, team \in Teams :
          matches' = [matches EXCEPT ![m] = FinishedMatch(matches[m], u, team)]
    BY <1>5 DEF Finishes
  <2>2. \A k \in MatchIds :
          matches'[k] = IF k = m THEN FinishedMatch(matches[m], u, team) ELSE matches[k]
    BY <1>1, <2>1
  <2>3. /\ FinishedMatch(matches[m], u, team).status = "FINISHED"
        /\ FinishedMatch(matches[m], u, team).room = matches[m].room
        /\ FinishedMatch(matches[m], u, team).winner = u
    BY <1>1, FinishedMatchFacts
  <2>4. /\ phase' = [phase EXCEPT ![m] = "FINISHED"] /\ venue' = venue
        /\ victor' = [victor EXCEPT ![m] = u]
    BY <2>2, <2>3
  <2>5. Ledger!Finish(m, u)
    BY <1>5, <2>4 DEF Ledger!Finish, Finishes
  <2> QED
    BY <2>5 DEF Ledger!Next, Ledger!Progress
<1>6. ASSUME NEW m \in MatchIds, Aborts(m)
      PROVE  Ledger!Next
  <2>1. \A k \in MatchIds :
          matches'[k] = IF k = m THEN AbortedMatch(matches[m]) ELSE matches[k]
    BY <1>1, <1>6 DEF Aborts
  <2>2. phase' = [phase EXCEPT ![m] = "ABORTED"] /\ venue' = venue /\ victor' = victor
    BY <1>1, <2>1 DEF AbortedMatch, Match
  <2>3. Ledger!Abort(m)
    BY <1>6, <2>2 DEF Ledger!Abort, Ledger!Undecided, Aborts, IsOpen, OpenMatchStatus
  <2> QED
    BY <2>3 DEF Ledger!Next, Ledger!Progress
<1> QED
  BY <1>2, <1>3, <1>4, <1>5, <1>6 DEF MatchStep

(* Rooms, sockets, timers and verdicts together do to a match only what    *)
(* MatchLedger allows: one countdown, at most one start, one decision, and *)
(* no two undecided matches in a room.                                     *)
THEOREM LedgerSafety == Spec => Ledger!SafeSpec
<1>1. Init => Ledger!Init
  BY DEF Init, Ledger!Init, NoMatchYet
<1>2. IInv /\ Unwon /\ [Next]_vars => [Ledger!Next]_(Ledger!ledger)
  <2>1. IInv /\ [Next]_vars => TypeOK'
    BY NextKeepsIInv DEF IInv
  <2> QED
    BY <2>1, NextIsMatchStep, MatchStepIsLedgerStep
<1> QED
  BY <1>1, <1>2, Invariance, UnwonInvariance, PTL DEF Spec, Ledger!SafeSpec

-----------------------------------------------------------------------------
(* The lineup. *)

InProgress(room) == room.status = "MATCH_IN_PROGRESS"

(* What LineupFrozen asks of one room. *)
Frozen(before, after) ==
  InProgress(before) /\ InProgress(after) =>
    /\ Participants(after) \subseteq Participants(before)
    /\ \A u \in Participants(after) : after.team[u] = before.team[u]
    /\ after.problem = before.problem

AllFrozen == \A r \in RoomIds : Frozen(rooms[r], rooms'[r])

(* A step that changes one room freezes all when it freezes that one. *)
LEMMA OneRoomFrozen ==
  ASSUME IInv, NEW r \in RoomIds, NEW R, Changes(r, R), Frozen(rooms[r], R)
  PROVE  AllFrozen
BY DEF Changes, AllFrozen, Frozen, IInv, TypeOK

(* A cancelled countdown leaves a WAITING room; else the room is as it was. *)
LEMMA SettledFacts ==
  ASSUME IInv, NEW r \in RoomIds
  PROVE  /\ Settled(r) = rooms[r] \/ Settled(r).status = "WAITING"
         /\ InProgress(Settled(r)) => Settled(r) = rooms[r]
<1>1. rooms[r] \in Room
  BY DEF IInv, TypeOK
<1>2. SessionEnded(rooms[r]).status = "WAITING"
  BY <1>1 DEF SessionEnded, Room
<1> QED
  BY <1>2 DEF Settled, InProgress

(* A change of the connected flag touches no lineup. *)
LEMMA ConnectionFrozen ==
  ASSUME NEW before, NEW room \in Room, InProgress(room) => room = before,
         NEW u \in Users, NEW isConnected \in BOOLEAN
  PROVE  Frozen(before, ConnectionSet(room, u, isConnected))
<1>1. /\ ConnectionSet(room, u, isConnected).status = room.status
      /\ ConnectionSet(room, u, isConnected).joined = room.joined
      /\ ConnectionSet(room, u, isConnected).team = room.team
      /\ ConnectionSet(room, u, isConnected).problem = room.problem
  BY DEF ConnectionSet, Room
<1> QED
  BY <1>1 DEF Frozen, InProgress, Participants

(* leaveRoom takes one participant out and keeps the teams of the others. *)
LEMMA LeaveFrozen ==
  ASSUME NEW before, NEW room \in Room, WellFormed(room), Live(room),
         InProgress(room) => room = before,
         NEW u \in Users, u \in Participants(room), Participants(room) \subseteq Users
  PROVE  Frozen(before, LeftRoom(room, u))
<1> DEFINE R == LeftRoom(room, u)
<1>1. Participants(R) = Participants(room) \ {u}
  BY LeftRoomFacts
<1>2. \/ R = NotInMap("CLOSED")
      \/ /\ R.status = room.status /\ R.problem = room.problem
         /\ \A v \in Users \ {u} : R.team[v] = room.team[v]
  BY LeftRoomFacts
<1> HIDE DEF R
<1>3. R = NotInMap("CLOSED") => Frozen(before, R)
  BY DEF Frozen, InProgress, NotInMap
<1>4. R # NotInMap("CLOSED") => Frozen(before, R)
  BY <1>1, <1>2 DEF Frozen, InProgress
<1> QED
  BY <1>3, <1>4 DEF R

-----------------------------------------------------------------------------
(* The steps of one user in the room of the session. *)
LEMMA SessionStepFrozen ==
  ASSUME IInv, NEW u \in Users,
         \/ DisconnectInRoom(u)
         \/ LeaveRoom(u)
         \/ LeaveActiveMatch(u)
         \/ ToggleReady(u)
         \/ AcceptedVerdict(u)
         \/ \E team \in TeamChoices : AssignTeam(u, team)
         \/ \E hasProblem \in BOOLEAN : SelectProblem(u, hasProblem)
         \/ \E m \in MatchIds : StartMatch(u, m)
  PROVE  AllFrozen
<1> DEFINE r == session[u]
<1>1. r \in RoomIds
  BY DEF DisconnectInRoom, LeaveRoom, LeaveActiveMatch, ToggleReady, AcceptedVerdict,
         AssignTeam, SelectProblem, StartMatch
<1>2. /\ rooms[r] \in Room /\ WellFormed(rooms[r]) /\ Live(rooms[r])
      /\ u \in Participants(rooms[r]) /\ Participants(rooms[r]) \subseteq Users
  BY <1>1, SessionFacts
<1>3. /\ Settled(r) = rooms[r] \/ Settled(r).status = "WAITING"
      /\ InProgress(Settled(r)) => Settled(r) = rooms[r]
  BY <1>1, SettledFacts
<1>4. ASSUME CancelCountdown(r)
      PROVE  /\ Settled(r) \in Room /\ WellFormed(Settled(r)) /\ Live(Settled(r))
             /\ Participants(Settled(r)) = Participants(rooms[r])
  BY <1>1, <1>2, <1>4, CancelFacts
<1>5. CASE DisconnectInRoom(u)
  <2> DEFINE R == ConnectionSet(Settled(r), u, FALSE)
  <2>1. Changes(r, R) /\ CancelCountdown(r)
    BY <1>5 DEF DisconnectInRoom, Changes
  <2>2. Frozen(rooms[r], R)
    BY <1>3, <1>4, <2>1, ConnectionFrozen
  <2> QED
    BY <1>1, <2>1, <2>2, OneRoomFrozen
<1>6. CASE LeaveRoom(u)
  <2> DEFINE R == LeftRoom(Settled(r), u)
  <2>1. Changes(r, R) /\ CancelCountdown(r)
    BY <1>6 DEF LeaveRoom, Changes
  <2>2. Frozen(rooms[r], R)
    BY <1>2, <1>3, <1>4, <2>1, LeaveFrozen
  <2> QED
    BY <1>1, <2>1, <2>2, OneRoomFrozen
<1>7. CASE LeaveActiveMatch(u)
  <2> DEFINE R == LeftRoom(rooms[r], u)
  <2>1. Changes(r, R)
    BY <1>7 DEF LeaveActiveMatch, Changes
  <2>2. Frozen(rooms[r], R)
    BY <1>2, LeaveFrozen
  <2> QED
    BY <1>1, <2>1, <2>2, OneRoomFrozen
<1>8. CASE ToggleReady(u)
  <2>1. CASE Counting(r) /\ Changes(r, Settled(r))
    <3>1. Settled(r).status = "WAITING"
      BY <1>2, <2>1 DEF Settled, SessionEnded, Room
    <3>2. Frozen(rooms[r], Settled(r))
      BY <3>1 DEF Frozen, InProgress
    <3> QED
      BY <1>1, <2>1, <3>2, OneRoomFrozen
  <2>2. CASE Editable(rooms[r]) /\ Changes(r, ReadyToggled(rooms[r], u))
    <3>1. Frozen(rooms[r], ReadyToggled(rooms[r], u))
      BY <2>2 DEF Frozen, InProgress, Editable
    <3> QED
      BY <1>1, <2>2, <3>1, OneRoomFrozen
  <2> QED
    BY <1>8, <2>1, <2>2 DEF ToggleReady, Changes
<1>9. CASE AcceptedVerdict(u)
  <2> DEFINE R == SessionEnded(rooms[r])
  <2>1. Changes(r, R)
    BY <1>9 DEF AcceptedVerdict, Changes
  <2>2. R.status = "WAITING"
    BY <1>2 DEF SessionEnded, Room
  <2>3. Frozen(rooms[r], R)
    BY <2>2 DEF Frozen, InProgress
  <2> QED
    BY <1>1, <2>1, <2>3, OneRoomFrozen
<1>10. ASSUME NEW team \in TeamChoices, AssignTeam(u, team)
       PROVE  AllFrozen
  <2> DEFINE R == [Settled(r) EXCEPT !.team[u] = team]
  <2>1. Changes(r, R) /\ CancelCountdown(r) /\ Editable(Settled(r))
    BY <1>10 DEF AssignTeam, Changes
  <2>2. R.status = Settled(r).status
    BY <1>4, <2>1 DEF Room
  <2>3. Frozen(rooms[r], R)
    BY <2>1, <2>2 DEF Frozen, InProgress, Editable
  <2> QED
    BY <1>1, <2>1, <2>3, OneRoomFrozen
<1>11. ASSUME NEW hasProblem \in BOOLEAN, SelectProblem(u, hasProblem)
       PROVE  AllFrozen
  <2> DEFINE R == IF rooms[r].host = u THEN [Settled(r) EXCEPT !.problem = hasProblem]
                  ELSE Settled(r)
  <2>1. Changes(r, R) /\ CancelCountdown(r) /\ Editable(Settled(r))
    BY <1>11 DEF SelectProblem, Changes
  <2>2. R.status = Settled(r).status
    BY <1>4, <2>1 DEF Room
  <2>3. Frozen(rooms[r], R)
    BY <2>1, <2>2 DEF Frozen, InProgress, Editable
  <2> QED
    BY <1>1, <2>1, <2>3, OneRoomFrozen
<1>12. ASSUME NEW m \in MatchIds, StartMatch(u, m)
       PROVE  AllFrozen
  <2> DEFINE R == InMatch(rooms[r], m)
  <2>1. Changes(r, R) /\ Editable(rooms[r])
    BY <1>12 DEF StartMatch, Changes
  <2>2. Frozen(rooms[r], R)
    BY <2>1 DEF Frozen, InProgress, Editable
  <2> QED
    BY <1>1, <2>1, <2>2, OneRoomFrozen
<1> QED
  BY <1>5, <1>6, <1>7, <1>8, <1>9, <1>10, <1>11, <1>12

(* The other steps: connections, new rooms, joins, allocations, timers. *)
LEMMA OtherStepFrozen ==
  ASSUME IInv,
         \/ UNCHANGED vars
         \/ \E u \in Users : Connect(u) \/ DisconnectOutside(u)
         \/ \E u \in Users, r \in RoomIds, hasProblem \in BOOLEAN : CreateRoom(u, r, hasProblem)
         \/ \E u \in Users, r \in RoomIds : JoinRoom(u, r)
         \/ \E players \in Lobbies, r \in RoomIds, m \in MatchIds : AllocateMatch(players, r, m)
         \/ \E r \in RoomIds : CountdownExpires(r)
         \/ \E m \in MatchIds : TimeLimit(m)
  PROVE  AllFrozen
<1>1. CASE UNCHANGED rooms
  BY <1>1 DEF AllFrozen, Frozen
<1>2. ASSUME NEW u \in Users, Connect(u)
      PROVE  AllFrozen
  <2>1. CASE session[u] \in RoomIds
    <3> DEFINE r == session[u]
               R == ConnectionSet(rooms[r], u, TRUE)
    <3>1. Changes(r, R)
      BY <1>2, <2>1 DEF Connect, Changes
    <3>2. rooms[r] \in Room
      BY <2>1 DEF IInv, TypeOK
    <3>3. Frozen(rooms[r], R)
      BY <3>2, ConnectionFrozen
    <3> QED
      BY <2>1, <3>1, <3>3, OneRoomFrozen
  <2>2. CASE session[u] \notin RoomIds
    BY <1>1, <1>2, <2>2 DEF Connect
  <2> QED
    BY <2>1, <2>2
<1>3. ASSUME NEW r \in RoomIds, NEW R, Changes(r, R), ~InProgress(rooms[r])
      PROVE  AllFrozen
  <2>1. Frozen(rooms[r], R)
    BY <1>3 DEF Frozen
  <2> QED
    BY <1>3, <2>1, OneRoomFrozen
<1>4. ASSUME NEW u \in Users, NEW r \in RoomIds, NEW hasProblem \in BOOLEAN,
             CreateRoom(u, r, hasProblem)
      PROVE  AllFrozen
  BY <1>3, <1>4 DEF CreateRoom, Changes, InProgress
<1>5. ASSUME NEW u \in Users, NEW r \in RoomIds, JoinRoom(u, r)
      PROVE  AllFrozen
  BY <1>3, <1>5 DEF JoinRoom, Changes, InProgress, Editable
<1>6. ASSUME NEW players \in Lobbies, NEW r \in RoomIds, NEW m \in MatchIds,
             AllocateMatch(players, r, m)
      PROVE  AllFrozen
  <2>1. PICK R : Changes(r, R)
    BY <1>6 DEF AllocateMatch, Changes
  <2>2. ~InProgress(rooms[r])
    BY <1>6 DEF AllocateMatch, InProgress
  <2> QED
    BY <1>3, <2>1, <2>2
<1>7. ASSUME NEW m \in MatchIds, TimeLimit(m)
      PROVE  AllFrozen
  <2>1. \A q \in RoomIds : rooms'[q] = rooms[q] \/ rooms'[q] = NotInMap("CLOSED")
    BY <1>7 DEF TimeLimit
  <2>2. \A q \in RoomIds : Frozen(rooms[q], rooms[q]) /\ Frozen(rooms[q], NotInMap("CLOSED"))
    BY DEF Frozen, InProgress, NotInMap
  <2> QED
    BY <2>1, <2>2 DEF AllFrozen
<1>8. (\E u \in Users : DisconnectOutside(u)) \/ (\E r \in RoomIds : CountdownExpires(r))
        \/ UNCHANGED vars => UNCHANGED rooms
  BY DEF DisconnectOutside, CountdownExpires, vars
<1> QED
  BY <1>1, <1>2, <1>4, <1>5, <1>6, <1>7, <1>8

(* While a match runs nobody joins its room, no remaining participant      *)
(* changes team and the problem stays: every handler that could change     *)
(* them either refuses or first cancels the countdown.                     *)
THEOREM LineupStaysFrozen == Spec => LineupFrozen
<1>1. IInv /\ [Next]_vars => AllFrozen
  BY SessionStepFrozen, OtherStepFrozen DEF Next
<1>2. IInv /\ [Next]_vars =>
        [\A r \in RoomIds :
           rooms[r].status = "MATCH_IN_PROGRESS" /\ rooms'[r].status = "MATCH_IN_PROGRESS" =>
             /\ Participants(rooms'[r]) \subseteq Participants(rooms[r])
             /\ \A u \in Participants(rooms'[r]) : rooms'[r].team[u] = rooms[r].team[u]
             /\ rooms'[r].problem = rooms[r].problem]_vars
  BY <1>1 DEF AllFrozen, Frozen, InProgress
<1> QED
  BY <1>2, Invariance, PTL DEF Spec, LineupFrozen

-----------------------------------------------------------------------------
(* The winner. *)

(* What WinnerStays asks of match m. *)
WonByStayer(m) ==
  matches[m].status # "FINISHED" /\ matches'[m].status = "FINISHED" =>
    /\ matches'[m].winner \in Participants(rooms'[matches[m].room])
    /\ \A team \in {"red", "blue"} :
         matches'[m].winner \in (IF team = "red" THEN matches[m].red ELSE matches[m].blue)
           => matches'[m].winnerTeam = team

AllWonByStayers == \A m \in MatchIds : WonByStayer(m)

(* The current match of the room of a session: hosted there, disjoint teams. *)
LEMMA ActiveMatchFacts ==
  ASSUME IInv, NEW r \in RoomIds, rooms[r].match # NoMatch,
         matches[rooms[r].match].status = "ACTIVE"
  PROVE  LET m == rooms[r].match IN
         /\ m \in MatchIds /\ matches[m] \in Match /\ matches[m].room = r
         /\ matches[m].red \cap matches[m].blue = {}
<1> DEFINE m == rooms[r].match
<1>1. m \in MatchIds /\ matches[m] \in Match
  BY DEF IInv, TypeOK, Room
<1>2. matches[m].room = r
  BY DEF IInv, HistoryDecided
<1>3. matches[m].red \cap matches[m].blue = {}
  BY <1>1 DEF IInv, OpenMatchHosted, IsOpen, OpenMatchStatus
<1> QED
  BY <1>1, <1>2, <1>3

(* finishMatch with a participant who stays and the own team, if any. *)
LEMMA FinishWonByStayer ==
  ASSUME IInv, NEW r \in RoomIds, NEW R, Changes(r, R),
         NEW m \in MatchIds, matches[m] \in Match, matches[m].room = r,
         NEW u, u \in Participants(R), NEW team,
         matches' = [matches EXCEPT ![m] = FinishedMatch(matches[m], u, team)],
         u \in matches[m].red => team = "red",
         u \in matches[m].blue => team = "blue"
  PROVE  AllWonByStayers
<1>1. /\ FinishedMatch(matches[m], u, team).winner = u
      /\ FinishedMatch(matches[m], u, team).winnerTeam = team
  BY DEF FinishedMatch, Match
<1>2. \A k \in MatchIds :
        matches'[k] = IF k = m THEN FinishedMatch(matches[m], u, team) ELSE matches[k]
  BY DEF IInv, TypeOK
<1>3. rooms'[r] = R
  BY DEF Changes, IInv, TypeOK
<1>4. WonByStayer(m)
  BY <1>1, <1>2, <1>3 DEF WonByStayer
<1>5. \A k \in MatchIds \ {m} : WonByStayer(k)
  BY <1>2 DEF WonByStayer
<1> QED
  BY <1>4, <1>5 DEF AllWonByStayers

(* A walkover: the winner is one of those who remain. *)
LEMMA LeaveActiveMatchWon ==
  ASSUME IInv, NEW u \in Users, LeaveActiveMatch(u)
  PROVE  AllWonByStayers
<1> DEFINE r    == session[u]
           m    == rooms[r].match
           rest == Without(rooms[r].joined, u)
           heir == WalkoverWinner(rooms[r], u)
           team == IF heir \in matches[m].red THEN "red" ELSE "blue"
           R    == LeftRoom(rooms[r], u)
<1>1. /\ r \in RoomIds /\ m # NoMatch /\ matches[m].status = "ACTIVE"
      /\ Changes(r, R)
  BY DEF LeaveActiveMatch, Changes
<1>2. /\ rooms[r] \in Room /\ WellFormed(rooms[r]) /\ Live(rooms[r])
      /\ u \in Participants(rooms[r])
  BY <1>1, SessionFacts
<1>3. /\ m \in MatchIds /\ matches[m] \in Match /\ matches[m].room = r
      /\ matches[m].red \cap matches[m].blue = {}
  BY <1>1, ActiveMatchFacts
<1>4. Participants(R) = Participants(rooms[r]) \ {u}
  BY <1>2, LeftRoomFacts
<1>5. CASE Participants(rooms[r]) \subseteq {u}
  <2>1. matches' = [matches EXCEPT ![m] = AbortedMatch(matches[m])]
    BY <1>5 DEF LeaveActiveMatch
  <2>2. AbortedMatch(matches[m]).status = "ABORTED"
    BY <1>3, MatchFieldFacts
  <2>3. \A k \in MatchIds :
          matches'[k] = IF k = m THEN AbortedMatch(matches[m]) ELSE matches[k]
    BY <2>1 DEF IInv, TypeOK
  <2> QED
    BY <2>2, <2>3 DEF AllWonByStayers, WonByStayer
<1>6. CASE ~(Participants(rooms[r]) \subseteq {u})
  <2>1. rest \in Seq(Users) /\ ToSet(rest) = Participants(rooms[r]) \ {u}
    BY <1>2, WithoutFacts DEF Participants, WellFormed, Room
  <2>2. heir \in Participants(R)
    BY <1>4, <1>6, <2>1, FirstFacts DEF WalkoverWinner
  <2>3. matches' = [matches EXCEPT ![m] = FinishedMatch(matches[m], heir, team)]
    BY <1>6 DEF LeaveActiveMatch
  <2>4. (heir \in matches[m].red => team = "red") /\ (heir \in matches[m].blue => team = "blue")
    BY <1>3
  <2> HIDE DEF heir, team, R, m, r
  <2> QED
    BY <1>1, <1>3, <2>2, <2>3, <2>4, FinishWonByStayer
<1> QED
  BY <1>5, <1>6

(* A verdict: the session's user is in the room and keeps the own team. *)
LEMMA AcceptedVerdictWon ==
  ASSUME IInv, NEW u \in Users, AcceptedVerdict(u)
  PROVE  AllWonByStayers
<1> DEFINE r    == session[u]
           m    == rooms[r].match
           team == TeamOf(matches[m], u)
           R    == SessionEnded(rooms[r])
<1>1. /\ r \in RoomIds /\ m # NoMatch /\ matches[m].status = "ACTIVE"
      /\ Changes(r, R)
      /\ matches' = [matches EXCEPT ![m] = FinishedMatch(matches[m], u, team)]
  BY DEF AcceptedVerdict, Changes
<1>2. /\ rooms[r] \in Room /\ WellFormed(rooms[r]) /\ u \in Participants(rooms[r])
  BY <1>1, SessionFacts
<1>3. /\ m \in MatchIds /\ matches[m] \in Match /\ matches[m].room = r
      /\ matches[m].red \cap matches[m].blue = {}
  BY <1>1, ActiveMatchFacts
<1>4. u \in Participants(R)
  BY <1>2, <1>3, SessionEndedFacts
<1>5. (u \in matches[m].red => team = "red") /\ (u \in matches[m].blue => team = "blue")
  BY <1>3 DEF TeamOf
<1> HIDE DEF team, R, m, r
<1> QED
  BY <1>1, <1>3, <1>4, <1>5, FinishWonByStayer

(* checkAndCancelCountdown aborts at most. *)
LEMMA CancelWinsNothing ==
  ASSUME IInv, NEW r \in RoomIds, CancelCountdown(r)
  PROVE  AllWonByStayers
<1> DEFINE m == rooms[r].match
<1>1. \/ UNCHANGED matches
      \/ /\ m \in MatchIds
         /\ matches' = [matches EXCEPT ![m] = AbortedMatch(matches[m])]
  BY CancelFacts
<1>2. CASE UNCHANGED matches
  BY <1>2 DEF AllWonByStayers, WonByStayer
<1>3. CASE m \in MatchIds /\ matches' = [matches EXCEPT ![m] = AbortedMatch(matches[m])]
  <2>1. AbortedMatch(matches[m]).status = "ABORTED"
    BY <1>3, MatchFieldFacts DEF IInv, TypeOK
  <2>2. \A k \in MatchIds :
          matches'[k] = IF k = m THEN AbortedMatch(matches[m]) ELSE matches[k]
    BY <1>3 DEF IInv, TypeOK
  <2> QED
    BY <2>1, <2>2 DEF AllWonByStayers, WonByStayer
<1> QED
  BY <1>1, <1>2, <1>3

(* The steps that begin, start or abort one match, or touch none. *)
LEMMA OthersWinNothing ==
  ASSUME IInv,
         \/ UNCHANGED vars
         \/ \E u \in Users : Connect(u) \/ DisconnectOutside(u)
         \/ \E u \in Users, r \in RoomIds, hasProblem \in BOOLEAN : CreateRoom(u, r, hasProblem)
         \/ \E u \in Users, r \in RoomIds : JoinRoom(u, r)
         \/ \E u \in Users, m \in MatchIds : StartMatch(u, m)
         \/ \E players \in Lobbies, r \in RoomIds, m \in MatchIds : AllocateMatch(players, r, m)
         \/ \E r \in RoomIds : CountdownExpires(r)
         \/ \E m \in MatchIds : TimeLimit(m)
  PROVE  AllWonByStayers
<1>1. CASE UNCHANGED matches
  BY <1>1 DEF AllWonByStayers, WonByStayer
<1>2. ASSUME NEW m \in MatchIds, NEW M, M.status # "FINISHED",
             matches' = [matches EXCEPT ![m] = M]
      PROVE  AllWonByStayers
  <2>1. \A k \in MatchIds : matches'[k] = IF k = m THEN M ELSE matches[k]
    BY <1>2 DEF IInv, TypeOK
  <2> QED
    BY <1>2, <2>1 DEF AllWonByStayers, WonByStayer
<1>3. ASSUME NEW r, NEW red, NEW blue
      PROVE  CountdownMatch(r, red, blue).status # "FINISHED"
  BY DEF CountdownMatch
<1>4. ASSUME NEW u \in Users, NEW m \in MatchIds, StartMatch(u, m)
      PROVE  AllWonByStayers
  <2>1. PICK red, blue : matches' = [matches EXCEPT ![m] = CountdownMatch(session[u], red, blue)]
    BY <1>4 DEF StartMatch
  <2> QED
    BY <1>2, <1>3, <2>1
<1>5. ASSUME NEW players \in Lobbies, NEW r \in RoomIds, NEW m \in MatchIds,
             AllocateMatch(players, r, m)
      PROVE  AllWonByStayers
  <2>1. PICK red, blue : matches' = [matches EXCEPT ![m] = CountdownMatch(r, red, blue)]
    BY <1>5 DEF AllocateMatch
  <2> QED
    BY <1>2, <1>3, <2>1
<1>6. ASSUME NEW r \in RoomIds, CountdownExpires(r)
      PROVE  AllWonByStayers
  <2>1. /\ countdown[r] \in MatchIds /\ matches[countdown[r]] \in Match
        /\ matches' = [matches EXCEPT ![countdown[r]] = StartedMatch(matches[countdown[r]])]
    BY <1>6 DEF CountdownExpires, Counting, IInv, TypeOK
  <2>2. StartedMatch(matches[countdown[r]]).status # "FINISHED"
    BY <2>1 DEF StartedMatch, Match
  <2> QED
    BY <1>2, <2>1, <2>2
<1>7. ASSUME NEW m \in MatchIds, TimeLimit(m)
      PROVE  AllWonByStayers
  <2>1. matches' = [matches EXCEPT ![m] = AbortedMatch(matches[m])]
    BY <1>7 DEF TimeLimit
  <2>2. AbortedMatch(matches[m]).status # "FINISHED"
    BY MatchFieldFacts DEF IInv, TypeOK
  <2> QED
    BY <1>2, <2>1, <2>2
<1>8. ASSUME \/ UNCHANGED vars
             \/ \E u \in Users : Connect(u) \/ DisconnectOutside(u)
             \/ \E u \in Users, r \in RoomIds, hasProblem \in BOOLEAN :
                  CreateRoom(u, r, hasProblem)
             \/ \E u \in Users, r \in RoomIds : JoinRoom(u, r)
      PROVE  UNCHANGED matches
  BY <1>8 DEF vars, Connect, DisconnectOutside, CreateRoom, JoinRoom
<1> QED
  BY <1>1, <1>4, <1>5, <1>6, <1>7, <1>8

(* A match is never won by the one who leaves it or by somebody outside    *)
(* the room, and a winner who plays wins for the own team: the walkover    *)
(* filters the leaver out, and a verdict counts only through a session,    *)
(* which SessionRoomLive ties to the room.                                 *)
THEOREM WinnersStay == Spec => WinnerStays
<1>1. ASSUME IInv, NEW u \in Users,
             \/ \E hasProblem \in BOOLEAN : SelectProblem(u, hasProblem)
             \/ DisconnectInRoom(u) \/ LeaveRoom(u) \/ ToggleReady(u)
             \/ \E team \in TeamChoices : AssignTeam(u, team)
      PROVE  UNCHANGED matches \/ \E r \in RoomIds : CancelCountdown(r)
  BY <1>1 DEF SelectProblem, DisconnectInRoom, LeaveRoom, ToggleReady, AssignTeam
<1>2. ASSUME IInv, UNCHANGED matches
      PROVE  AllWonByStayers
  BY <1>2 DEF AllWonByStayers, WonByStayer
<1>3. IInv /\ [Next]_vars => AllWonByStayers
  BY <1>1, <1>2, CancelWinsNothing, LeaveActiveMatchWon, AcceptedVerdictWon,
     OthersWinNothing DEF Next
<1>4. IInv /\ [Next]_vars =>
        [\A m \in MatchIds :
           matches[m].status # "FINISHED" /\ matches'[m].status = "FINISHED" =>
             /\ matches'[m].winner \in Participants(rooms'[matches[m].room])
             /\ \A team \in {"red", "blue"} :
                  matches'[m].winner \in
                      (IF team = "red" THEN matches[m].red ELSE matches[m].blue)
                    => matches'[m].winnerTeam = team]_vars
  BY <1>3 DEF AllWonByStayers, WonByStayer
<1> QED
  BY <1>4, Invariance, PTL DEF Spec, WinnerStays
=============================================================================
