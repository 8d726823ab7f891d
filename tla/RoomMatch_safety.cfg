CONSTANTS
  Users = {u1, u2, u3}
  RoomIds = {r1, r2}
  MatchIds = {m1, m2}
  TeamChoices = {"red", "spectator"}
  LobbySizes = {2}
  NoUser = NoUser
  NoRoom = NoRoom
  NoSession = NoSession
  NoMatch = NoMatch
SPECIFICATION BoundedSpec
SYMMETRY Symmetry
INVARIANTS
  RoomsWellFormed
  CountdownSound
  LimitTimerExact
  HistoryDecided
  SessionRoomLive
  OpenMatchHosted
PROPERTIES
  DecidedForGood
  LineupFrozen
  WinnerStays
