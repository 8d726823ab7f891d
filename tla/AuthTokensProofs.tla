--------------------------- MODULE AuthTokensProofs ---------------------------
(***************************************************************************)
(* Theorems about AuthTokens, for every number of requests, tokens,        *)
(* passwords and links.                                                    *)
(***************************************************************************)
EXTENDS AuthTokens, TLAPS

(* The inductive invariant.  The token that a request is about to rotate   *)
(* or to log out is one that was signed.                                   *)
TokensKnown ==
  \A q \in Requests :
    pending[q].write \in {"rotate", "logout"} => pending[q].token \in Tokens

IInv == TypeOK /\ TokensKnown /\ OneTokenPerSession

(* What a step may do to the table and to the sessions.                    *)
Nothing == UNCHANGED <<row, session>>

Lapses ==
  /\ UNCHANGED session
  /\ \E t \in Tokens : row[t] = "valid" /\ row' = [row EXCEPT ![t] = "expired"]

Begins ==
  \E t \in Tokens :
    /\ session[t] = NoToken
    /\ row' = [row EXCEPT ![t] = "valid"]
    /\ session' = [session EXCEPT ![t] = t]

Renews ==
  \E t, n \in Tokens :
    /\ row[t] # "absent"
    /\ session[n] = NoToken
    /\ row' = [[row EXCEPT ![t] = "absent"] EXCEPT ![n] = "valid"]
    /\ session' = [session EXCEPT ![n] = session[t]]

LogsOut ==
  /\ UNCHANGED session
  /\ \E t \in Tokens : row' = [row EXCEPT ![t] = "absent"]

Revokes ==
  /\ UNCHANGED session
  /\ \E S \in SUBSET Tokens :
       row' = [t \in Tokens |-> IF t \in S THEN "absent" ELSE row[t]]

TableStep == Nothing \/ Lapses \/ Begins \/ Renews \/ LogsOut \/ Revokes

-----------------------------------------------------------------------------
(* Every step of the service is one of the six. *)
LEMMA StepIsTableStep ==
  ASSUME TypeOK, TokensKnown, [Next]_vars
  PROVE  TableStep
<1>1. CASE UNCHANGED vars
  BY <1>1 DEF vars, TableStep, Nothing
<1>2. CASE Next
  <2>1. ASSUME NEW q \in Requests,
               \/ CreateUser(q) \/ VerifyEmail(q) \/ MarkVerified(q)
               \/ ForgotPassword(q) \/ BeginsRevoking(q) \/ Ends(q)
        PROVE  TableStep
    BY <2>1 DEF CreateUser, BeginsRevoking, FindsTokens, VerifyEmail, MarkVerified, ForgotPassword, Ends, Decides, TableStep, Nothing
  <2>2. ASSUME NEW q \in Requests, RevokeAll(q) \/ SetPassword(q)
        PROVE  TableStep
    <3>1. pending[q].seen \in SUBSET Tokens
      BY DEF TypeOK, Pending
    <3>2. QED BY <2>2, <3>1 DEF RevokeAll, SetPassword, Deleted, TableStep, Revokes
  <2>3. ASSUME NEW q \in Requests, DeleteSession(q)
        PROVE  TableStep
    BY <2>3 DEF DeleteSession, Done, TokensKnown, LoggedOut, TableStep, LogsOut
  <2>4. ASSUME NEW q \in Requests, NEW p \in Passwords, Register(q, p) \/ Login(q, p)
        PROVE  TableStep
    BY <2>4 DEF Register, Login, Decides, TableStep, Nothing
  <2>5. ASSUME NEW q \in Requests, NEW t \in Tokens, CreateSession(q, t)
        PROVE  TableStep
    BY <2>5 DEF CreateSession, Signed, Added, TableStep, Begins
  <2>6. ASSUME NEW q \in Requests, NEW t \in Tokens, Refresh(q, t) \/ Logout(q, t)
        PROVE  TableStep
    BY <2>6 DEF Refresh, Logout, Decides, TableStep, Nothing
  <2>7. ASSUME NEW q \in Requests, NEW n \in Tokens, Rotate(q, n)
        PROVE  TableStep
    <3>1. Renews
      BY <2>7 DEF Rotate, Done, TokensKnown, Rotates, Stored, Signed, Added, Renews
    <3>2. QED BY <3>1 DEF TableStep
  <2>8. ASSUME NEW q \in Requests, NEW l \in Links, SaveLink(q, l)
        PROVE  TableStep
    BY <2>8 DEF SaveLink, TableStep, Nothing
  <2>9. ASSUME NEW q \in Requests, NEW l \in Links, NEW p \in Passwords, ResetPassword(q, l, p)
        PROVE  TableStep
    BY <2>9 DEF ResetPassword, Decides, TableStep, Nothing
  <2>10. ASSUME NEW q \in Requests, NEW old \in Passwords, NEW p \in Passwords, ChangePassword(q, old, p)
         PROVE  TableStep
    BY <2>10 DEF ChangePassword, Decides, TableStep, Nothing
  <2>11. ASSUME NEW t \in Tokens, Expire(t)
         PROVE  TableStep
    BY <2>11 DEF Expire, TableStep, Lapses
  <2>12. QED
    BY <1>2, <2>1, <2>2, <2>3, <2>4, <2>5, <2>6, <2>7, <2>8, <2>9, <2>10, <2>11 DEF Next
<1>3. QED BY <1>1, <1>2

-----------------------------------------------------------------------------
(* The conjuncts of TypeOK that the table steps do not touch. *)
LEMMA PendingKept ==
  ASSUME TypeOK, TokensKnown, [Next]_vars
  PROVE  /\ password' \in Passwords \cup {NoPassword}
         /\ verified' \in BOOLEAN
         /\ link' \in Links \cup {NoLink} /\ sent' \subseteq Links
         /\ pending' \in [Requests -> Pending]
         /\ TokensKnown'
<1> USE DEF TypeOK, TokensKnown
<1>0. Idle \in Pending /\ Idle.write = "none"
  BY DEF Idle, Pending, Writes
<1>1. CASE UNCHANGED vars
  BY <1>1 DEF vars
<1>2. ASSUME NEW q \in Requests, NEW w \in Writes, NEW p \in Passwords \cup {NoPassword},
             NEW t \in Tokens \cup {NoToken}, Decides(q, w, p, t),
             w \in {"rotate", "logout"} => t \in Tokens
      PROVE  /\ pending' \in [Requests -> Pending] /\ TokensKnown'
             /\ UNCHANGED <<password, verified, link, sent>>
  <2>1. [write |-> w, password |-> p, token |-> t, seen |-> {}] \in Pending
    BY DEF Pending
  <2>2. QED BY <1>2, <2>1 DEF Decides
<1>3. ASSUME NEW q \in Requests, pending' = [pending EXCEPT ![q] = Idle]
      PROVE  pending' \in [Requests -> Pending] /\ TokensKnown'
  BY <1>0, <1>3
<1>4. CASE Next
  <2>1. ASSUME NEW q \in Requests, VerifyEmail(q) \/ ForgotPassword(q)
        PROVE  /\ pending' \in [Requests -> Pending] /\ TokensKnown'
               /\ UNCHANGED <<password, verified, link, sent>>
    BY <2>1, <1>2 DEF VerifyEmail, ForgotPassword, Writes
  <2>2. ASSUME NEW q \in Requests, NEW p \in Passwords, Register(q, p) \/ Login(q, p)
        PROVE  /\ pending' \in [Requests -> Pending] /\ TokensKnown'
               /\ UNCHANGED <<password, verified, link, sent>>
    BY <2>2, <1>2 DEF Register, Login, Writes
  <2>3. ASSUME NEW q \in Requests, NEW t \in Tokens, Refresh(q, t) \/ Logout(q, t)
        PROVE  /\ pending' \in [Requests -> Pending] /\ TokensKnown'
               /\ UNCHANGED <<password, verified, link, sent>>
    BY <2>3, <1>2 DEF Refresh, Logout, Writes
  <2>4. ASSUME NEW q \in Requests, NEW p \in Passwords,
               \/ \E l \in Links : ResetPassword(q, l, p)
               \/ \E old \in Passwords : ChangePassword(q, old, p)
        PROVE  /\ pending' \in [Requests -> Pending] /\ TokensKnown'
               /\ UNCHANGED <<password, verified, link, sent>>
    BY <2>4, <1>2 DEF ResetPassword, ChangePassword, Writes
  <2>5. ASSUME NEW q \in Requests, CreateUser(q) \/ SetPassword(q)
        PROVE  /\ pending' = [pending EXCEPT ![q] = Idle]
               /\ password' \in Passwords \cup {NoPassword}
               /\ link' \in Links \cup {NoLink}
               /\ UNCHANGED <<verified, sent>>
    BY <2>5 DEF CreateUser, SetPassword, Done, Pending
  <2>6. ASSUME NEW q \in Requests,
               \/ RevokeAll(q) \/ DeleteSession(q) \/ Ends(q)
               \/ \E t \in Tokens : CreateSession(q, t) \/ Rotate(q, t)
        PROVE  /\ pending' = [pending EXCEPT ![q] = Idle]
               /\ UNCHANGED <<password, verified, link, sent>>
    BY <2>6 DEF RevokeAll, DeleteSession, Ends, CreateSession, Rotate, Done
  <2>7. ASSUME NEW q \in Requests, MarkVerified(q)
        PROVE  /\ pending' = [pending EXCEPT ![q] = Idle]
               /\ verified' = TRUE
               /\ UNCHANGED <<password, link, sent>>
    BY <2>7 DEF MarkVerified, Done
  <2>8. ASSUME NEW q \in Requests, NEW l \in Links, SaveLink(q, l)
        PROVE  /\ pending' = [pending EXCEPT ![q] = Idle]
               /\ link' \in Links /\ sent' \subseteq Links
               /\ UNCHANGED <<password, verified>>
    BY <2>8 DEF SaveLink, Done
  <2>9. ASSUME NEW t \in Tokens, Expire(t)
        PROVE  UNCHANGED <<password, verified, link, sent, pending>>
    BY <2>9 DEF Expire
  <2>10. ASSUME NEW q \in Requests, BeginsRevoking(q)
         PROVE  /\ pending' \in [Requests -> Pending] /\ TokensKnown'
                /\ UNCHANGED <<password, verified, link, sent>>
    <3> DEFINE seen(w) == [write |-> w, password |-> pending[q].password, token |-> pending[q].token,
                           seen |-> {t \in Tokens : Stored(t)}]
    <3>1. PICK w \in {"revoking", "resetting", "changing"} :
            pending' = [pending EXCEPT ![q] = seen(w)]
      BY <2>10 DEF BeginsRevoking, FindsTokens
    <3>2. seen(w) \in Pending /\ seen(w).write = w
      BY DEF Pending, Writes
    <3>3. UNCHANGED <<password, verified, link, sent>>
      BY <2>10 DEF BeginsRevoking, FindsTokens
    <3> HIDE DEF seen
    <3>4. QED BY <3>1, <3>2, <3>3
  <2>11. QED
    BY <1>3, <1>4, <2>1, <2>2, <2>3, <2>4, <2>5, <2>6, <2>7, <2>8, <2>9, <2>10 DEF Next
<1>5. QED BY <1>1, <1>4

(* The six table steps keep every stored token signed, every session begun *)
(* by a login, and one stored token per session.                           *)
LEMMA TableStepKeeps ==
  ASSUME TypeOK, OneTokenPerSession, TableStep
  PROVE  /\ row' \in [Tokens -> {"absent", "valid", "expired"}]
         /\ session' \in [Tokens -> Tokens \cup {NoToken}]
         /\ \A t \in Tokens : Stored(t)' => Signed(t)'
         /\ \A t \in Tokens : Signed(t)' => session'[session'[t]] = session'[t]
         /\ OneTokenPerSession'
<1> USE AuthAssumption DEF TypeOK, OneTokenPerSession, Stored, Signed
<1>1. CASE Nothing
  BY <1>1 DEF Nothing
<1>2. CASE Lapses
  BY <1>2 DEF Lapses
<1>3. CASE LogsOut
  BY <1>3 DEF LogsOut
<1>4. CASE Revokes
  BY <1>4 DEF Revokes
<1>5. CASE Begins
  BY <1>5 DEF Begins
<1>6. CASE Renews
  BY <1>6 DEF Renews
<1>7. QED BY <1>1, <1>2, <1>3, <1>4, <1>5, <1>6 DEF TableStep

LEMMA InitIInv == Init => IInv
<1> SUFFICES ASSUME Init PROVE IInv
  OBVIOUS
<1> USE DEF Init
<1>1. Idle \in Pending /\ Idle.write = "none"
  BY DEF Idle, Pending, Writes
<1>2. \A t \in Tokens : ~Stored(t) /\ ~Signed(t)
  BY DEF Stored, Signed
<1>3. TypeOK
  BY <1>1, <1>2 DEF TypeOK
<1>4. TokensKnown
  BY <1>1 DEF TokensKnown
<1>5. OneTokenPerSession
  BY <1>2 DEF OneTokenPerSession
<1>6. QED BY <1>3, <1>4, <1>5 DEF IInv

LEMMA NextKeepsIInv == IInv /\ [Next]_vars => IInv'
<1> SUFFICES ASSUME IInv, [Next]_vars PROVE IInv'
  OBVIOUS
<1>1. TypeOK /\ TokensKnown /\ OneTokenPerSession
  BY DEF IInv
<1>2. TableStep
  BY <1>1, StepIsTableStep
<1>3. QED
  BY <1>1, <1>2, PendingKept, TableStepKeeps DEF IInv, TypeOK

THEOREM AuthInvariance == Spec => []IInv
  BY InitIInv, NextKeepsIInv, PTL DEF Spec

(* Every stored token was signed, for a session that a login began. *)
THEOREM AuthTyped == Spec => []TypeOK
<1>1. IInv => TypeOK
  BY DEF IInv
<1>2. QED BY <1>1, AuthInvariance, PTL

(* No interleaving of refreshes forks a session. *)
THEOREM SessionsDoNotFork == Spec => []OneTokenPerSession
<1>1. IInv => OneTokenPerSession
  BY DEF IInv
<1>2. QED BY <1>1, AuthInvariance, PTL

-----------------------------------------------------------------------------
(* A session that has ended has no stored token to renew, and a login      *)
(* begins another one.                                                     *)
LEMMA StepKeepsEnded ==
  ASSUME IInv, [Next]_vars, NEW s \in Tokens, Began(s), ~Alive(s)
  PROVE  ~Alive(s)'
<1> USE AuthAssumption DEF Began, Alive, Stored
<1>1. TypeOK /\ TableStep
  BY StepIsTableStep DEF IInv
<1>2. CASE Nothing
  BY <1>2 DEF Nothing
<1>3. CASE Lapses
  BY <1>1, <1>3 DEF Lapses, TypeOK
<1>4. CASE LogsOut
  BY <1>1, <1>4 DEF LogsOut, TypeOK
<1>5. CASE Revokes
  BY <1>1, <1>5 DEF Revokes, TypeOK
<1>6. CASE Begins
  BY <1>1, <1>6 DEF Begins, TypeOK
<1>7. CASE Renews
  BY <1>1, <1>7 DEF Renews, TypeOK
<1>8. QED BY <1>1, <1>2, <1>3, <1>4, <1>5, <1>6, <1>7 DEF TableStep

(* A refresh that read its token before a logout, a reset or a change of   *)
(* password does not bring the session back.                               *)
THEOREM EndedSessionsStayEnded == Spec => EndedForGood
<1>1. IInv /\ [Next]_vars => [\A s \in Tokens : Began(s) /\ ~Alive(s) => ~Alive(s)']_vars
  BY StepKeepsEnded
<1>2. QED BY <1>1, AuthInvariance, PTL DEF Spec, EndedForGood

(* What ends a session: only these writes take a token without storing     *)
(* another one of its session.                                             *)
EndingWrite(q, s) ==
  /\ Ended(q)
  /\ \/ \E t \in pending[q].seen : session[t] = s
     \/ pending[q].write = "logout" /\ session[pending[q].token] = s

LEMMA EndedByItsOwn ==
  ASSUME IInv, [Next]_vars, NEW s \in Tokens, Alive(s), ~Alive(s)'
  PROVE  \E q \in Requests : EndingWrite(q, s)
<1> USE AuthAssumption DEF Alive, Stored, Signed
<1>0. TypeOK
  BY DEF IInv
<1>1. PICK t \in Tokens : row[t] # "absent" /\ session[t] = s
  OBVIOUS
<1>2. ~(row' = row /\ session' = session)
  BY <1>1
<1>3. ASSUME NEW q \in Requests,
             \/ CreateUser(q) \/ VerifyEmail(q) \/ MarkVerified(q)
             \/ ForgotPassword(q) \/ BeginsRevoking(q) \/ Ends(q)
             \/ \E p \in Passwords : Register(q, p) \/ Login(q, p)
             \/ \E n \in Tokens : Refresh(q, n) \/ Logout(q, n)
             \/ \E l \in Links : SaveLink(q, l)
             \/ \E l \in Links, p \in Passwords : ResetPassword(q, l, p)
             \/ \E old, p \in Passwords : ChangePassword(q, old, p)
      PROVE  FALSE
  BY <1>2, <1>3 DEF CreateUser, VerifyEmail, MarkVerified, ForgotPassword, BeginsRevoking,
       FindsTokens, Ends, Register, Login, Refresh, Logout, SaveLink, ResetPassword, ChangePassword, Decides
<1>4. ASSUME NEW n \in Tokens, Expire(n)
      PROVE  FALSE
  BY <1>0, <1>1, <1>4 DEF Expire, TypeOK
<1>5. ASSUME NEW q \in Requests, NEW n \in Tokens, CreateSession(q, n)
      PROVE  FALSE
  BY <1>0, <1>1, <1>5 DEF CreateSession, Added, TypeOK
<1>6. ASSUME NEW q \in Requests, NEW n \in Tokens, Rotate(q, n)
      PROVE  FALSE
  <2> DEFINE old == pending[q].token
  <2>1. /\ row' = [[row EXCEPT ![old] = "absent"] EXCEPT ![n] = "valid"]
        /\ session' = [session EXCEPT ![n] = session[old]]
        /\ session[n] = NoToken
    BY <1>6 DEF Rotate, Added
  <2>2. n # t /\ row'[n] = "valid"
    BY <1>0, <1>1, <2>1 DEF TypeOK
  <2>3. CASE t = old
    BY <1>0, <1>1, <2>1, <2>2, <2>3 DEF TypeOK
  <2>4. CASE t # old
    BY <1>0, <1>1, <2>1, <2>2, <2>4 DEF TypeOK
  <2>5. QED BY <2>3, <2>4
<1>7. ASSUME NEW q \in Requests, RevokeAll(q) \/ SetPassword(q)
      PROVE  EndingWrite(q, s)
  <2>1. t \in pending[q].seen
    BY <1>0, <1>1, <1>7 DEF RevokeAll, SetPassword, Deleted, TypeOK
  <2>2. Ended(q)
    BY <1>0, <1>7 DEF RevokeAll, SetPassword, Done, Idle, Ended, TypeOK
  <2>3. QED BY <1>1, <2>1, <2>2 DEF EndingWrite
<1>8. ASSUME NEW q \in Requests, DeleteSession(q)
      PROVE  EndingWrite(q, s)
  <2>1. pending[q].token = t
    BY <1>0, <1>1, <1>8 DEF DeleteSession, LoggedOut, TypeOK
  <2>2. QED
    BY <1>0, <1>1, <1>8, <2>1 DEF DeleteSession, Done, Idle, Ended, EndingWrite, TypeOK
<1>9. Next
  BY <1>2 DEF vars
<1>10. QED
  BY <1>3, <1>4, <1>5, <1>6, <1>7, <1>8, <1>9 DEF Next

(* A revocation that takes effect ends each session whose stored token it  *)
(* found: a session has no other stored token that could survive it.       *)
LEMMA RevocationEndsFound ==
  ASSUME IInv, [Next]_vars, NEW q \in Requests,
         pending[q].write \in {"revoking", "resetting", "changing"}, Ended(q),
         row' # row \/ password' # password,
         NEW t \in pending[q].seen, Stored(t)
  PROVE  ~Alive(session[t])'
<1>0. TypeOK /\ OneTokenPerSession /\ t \in Tokens
  BY DEF IInv, TypeOK, Pending
<1>1. pending'[q] # pending[q]
  BY DEF Ended
<1>2. ASSUME NEW r \in Requests, pending' = [pending EXCEPT ![r] = Idle]
      PROVE  r = q
  BY <1>0, <1>1, <1>2 DEF TypeOK
<1>3. ASSUME NEW r \in Requests,
             \/ VerifyEmail(r) \/ ForgotPassword(r) \/ BeginsRevoking(r) \/ Ends(r)
             \/ \E p \in Passwords : Register(r, p) \/ Login(r, p)
             \/ \E n \in Tokens : Refresh(r, n) \/ Logout(r, n)
             \/ \E l \in Links, p \in Passwords : ResetPassword(r, l, p)
             \/ \E old, p \in Passwords : ChangePassword(r, old, p)
      PROVE  FALSE
  BY <1>3 DEF VerifyEmail, ForgotPassword, BeginsRevoking, FindsTokens, Ends, Register, Login,
       Refresh, Logout, ResetPassword, ChangePassword, Decides
<1>4. ASSUME NEW r \in Requests, NEW w \in {"register", "login", "rotate", "logout", "verify", "forgot"},
             Done(r, w)
      PROVE  FALSE
  BY <1>2, <1>4 DEF Done
<1>5. ASSUME NEW n \in Tokens, Expire(n)
      PROVE  FALSE
  BY <1>1, <1>5 DEF Expire
<1>6. ASSUME NEW r \in Requests, RevokeAll(r) \/ SetPassword(r)
      PROVE  row' = Deleted(row, pending[q].seen) /\ session' = session
  BY <1>2, <1>6 DEF RevokeAll, SetPassword, Done
<1>7. Next
  BY <1>1 DEF vars
<1>8. row' = Deleted(row, pending[q].seen) /\ session' = session
  BY <1>3, <1>4, <1>5, <1>6, <1>7 DEF Next, CreateUser, DeleteSession, MarkVerified, CreateSession,
     Rotate, SaveLink
<1>9. SUFFICES ASSUME NEW n \in Tokens, row'[n] # "absent", session[n] = session[t]
               PROVE  FALSE
  BY <1>8 DEF Alive, Stored
<1>10. n \notin pending[q].seen /\ row[n] # "absent"
  BY <1>8, <1>9 DEF Deleted
<1>11. n = t
  BY <1>0, <1>9, <1>10 DEF OneTokenPerSession, Stored
<1>12. QED BY <1>10, <1>11

(* A session ends by its own logout or with the others of the account, and *)
(* a revocation takes all that it has found.                               *)
THEOREM SessionsEndOnPurpose == Spec => EndsAloneOrWithAll
<1> DEFINE Alone == \A s \in Tokens : Alive(s) /\ ~Alive(s)' => \E q \in Requests : EndingWrite(q, s)
           WithAll == \A q \in Requests :
                        /\ pending[q].write \in {"revoking", "resetting", "changing"}
                        /\ Ended(q)
                        /\ row' # row \/ password' # password
                        => \A t \in pending[q].seen : Stored(t) => ~Alive(session[t])'
<1>1. ASSUME IInv, [Next]_vars PROVE Alone
  BY <1>1, EndedByItsOwn
<1>2. ASSUME IInv, [Next]_vars PROVE WithAll
  BY <1>2, RevocationEndsFound
<1>3. IInv /\ [Next]_vars => [Alone /\ WithAll]_vars
  BY <1>1, <1>2
<1>4. QED BY <1>3, AuthInvariance, PTL DEF Spec, EndsAloneOrWithAll, EndingWrite
=============================================================================
