SPECIFICATION BoundedSpec
CONSTANTS
  Users = {u1, u2, u3, u4}
  ModeChoices = {"solo"}
  LobbyIds <- ThreeLobbies
  MaxStarts = 1
  Fourth = u4
SYMMETRY Symmetry
INVARIANT EveryQueuedScanned
