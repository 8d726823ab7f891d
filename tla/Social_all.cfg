CONSTANTS
  Users = {u1, u2}
  Requests = {q1, q2, q3, q4}
  NoRow = NoRow
SYMMETRY Symmetry
SPECIFICATION Spec
INVARIANT FriendsByConsent
PROPERTY BlocksStand
