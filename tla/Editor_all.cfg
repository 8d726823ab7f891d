SPECIFICATION BoundedSpec
CONSTANTS
  Users <- TwoUsers
  Matches = {m1, m2}
  NoMatch = NoMatch
  MaxText = 3
  MaxTyped = 6
  MaxMatchVersion = 3
  MaxVersion = 4
INVARIANTS TypeOK InsertsInPlace DeletesWhatItMeant OrderIrrelevant CompleteReplayIsExact
CHECK_DEADLOCK FALSE
