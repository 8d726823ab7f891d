SPECIFICATION Spec
CONSTANTS
  Requests = {q1, q2}
  Tokens = {t1, t2}
  Passwords = {w1}
  Links = {l1}
  NoToken = NoToken
  NoPassword = NoPassword
  NoLink = NoLink
SYMMETRY Symmetry
PROPERTY ReuseRevokes
