SPECIFICATION FairSpec
CONSTANTS
  u1 = u1
  u2 = u2
  u3 = u3
  m1 = m1
  m2 = m2
  Users <- AllUsers
  Matches <- BothMatches
  Red <- RedTeams
  Blue <- BlueTeams
  Decay = Decay
  NoUser = NoUser
  MaxDecays = 1
  MaxCrashes = 1
INVARIANTS RowsTrue RatedTogetherOnce HistoryEndsInRating TimelineTrue
PROPERTY FinishedIsRated
CHECK_DEADLOCK FALSE
