SPECIFICATION Spec
CONSTANTS
  Requests = {q1, q2, q3}
  Tokens = {t1, t2, t3}
  Passwords = {w1, w2}
  Links = {l1}
  NoToken = NoToken
  NoPassword = NoPassword
  NoLink = NoLink
SYMMETRY Symmetry
INVARIANT OneTokenPerSession
PROPERTIES EndedForGood EndsAloneOrWithAll
