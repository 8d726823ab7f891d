CONSTANTS
  Users = {u1, u2}
  RoomIds = {r1}
  MatchIds = {m1, m2}
  TeamChoices = {"red"}
  LobbySizes = {2}
  NoUser = NoUser
  NoRoom = NoRoom
  NoSession = NoSession
  NoMatch = NoMatch
SPECIFICATION FairSpec
PROPERTIES
  EveryMatchDecided
  LedgerImplemented
