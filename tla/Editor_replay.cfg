SPECIFICATION BoundedSpec
CONSTANTS
  Users <- TwoUsers
  Matches = {m1, m2}
  NoMatch = NoMatch
  MaxText = 1
  MaxTyped = 3
  MaxMatchVersion = 3
  MaxVersion = 3
INVARIANT ReplayIsTheDocument
CHECK_DEADLOCK FALSE
