SPECIFICATION Spec
CONSTANTS
  Users = {u1, u2, u3, u4}
  PartyIds = {p1, p2}
  NoUser = NoUser
  NoParty = NoParty
SYMMETRY Symmetry
INVARIANTS MembershipAgrees PartyLed OnlyMembersListen
PROPERTY LeadInherited
