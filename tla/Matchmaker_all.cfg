SPECIFICATION BoundedSpec
CONSTANTS
  Users = {u1, u2, u3, u4}
  ModeChoices = {"2v2", "solo", "other"}
  LobbyIds <- ThreeLobbies
  MaxStarts = 1
  Fourth = u4
SYMMETRY Symmetry
INVARIANTS TypeOK LobbiesWait InvitationStands FoundIsShown QueueDrained
PROPERTY FirstComeFirstServed
