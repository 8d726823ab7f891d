------------------------------ MODULE AuthTokens ------------------------------
(***************************************************************************)
(* Accounts and refresh tokens of the api service: AuthService over        *)
(* AuthRepository, for one account.                                        *)
(*                                                                         *)
(* A request reads, decides, and then writes.  Requests run concurrently,  *)
(* so each is two actions, and `pending` holds the write that is decided   *)
(* but not made yet.  A revocation is three: under READ COMMITTED its      *)
(* deleteMany finds the rows that are committed when it begins, and takes  *)
(* these, and no others, when its transaction commits.                     *)
(***************************************************************************)
EXTENDS Naturals, FiniteSets

CONSTANTS
  Requests,   (* requests in progress at a time                            *)
  Tokens,     (* the refresh tokens that can be signed                     *)
  Passwords,
  Links,      (* password reset tokens                                     *)
  NoToken, NoPassword, NoLink

ASSUME AuthAssumption ==
  /\ NoToken \notin Tokens
  /\ NoPassword \notin Passwords
  /\ NoLink \notin Links

VARIABLES
  password,   (* what User.passwordHash was computed from; NoPassword      *)
              (* before the account is registered                          *)
  verified,   (* User.emailVerified                                        *)
  link,       (* User.resetPasswordToken                                   *)
  sent,       (* the reset links that were ever mailed                     *)
  row,        (* the refreshToken table                                    *)
  session,    (* history: the token that the login of its session got      *)
  pending     (* per request, the write to come                            *)

vars == <<password, verified, link, sent, row, session, pending>>

Writes ==
  {"none", "register", "login", "rotate", "revoke", "refuse", "logout",
   "verify", "forgot", "reset", "change", "revoking", "resetting", "changing"}

(* `seen`: the tokens whose rows an open deleteMany has found. *)
Pending ==
  [write: Writes, password: Passwords \cup {NoPassword}, token: Tokens \cup {NoToken},
   seen: SUBSET Tokens]

Idle == [write |-> "none", password |-> NoPassword, token |-> NoToken, seen |-> {}]

(* findUserByEmail, findUserById: the account exists. *)
UserFound == password # NoPassword

(* findRefreshTokenByHash: the row of a token is there. *)
Stored(t) == row[t] # "absent"

Signed(t) == session[t] # NoToken

(* A request that has read may go on to write; one that has written is     *)
(* done.                                                                   *)
Decides(q, write, p, t) ==
  /\ pending[q] = Idle
  /\ pending' = [pending EXCEPT ![q] =
                  [write |-> write, password |-> p, token |-> t, seen |-> {}]]
  /\ UNCHANGED <<password, verified, link, sent, row, session>>

Done(q, write) ==
  /\ pending[q].write = write
  /\ pending' = [pending EXCEPT ![q] = Idle]

-----------------------------------------------------------------------------
(* Statements on the refreshToken table, as the next table. *)

(* createRefreshToken of a token that was never signed before. *)
Added(rows, t) == [rows EXCEPT ![t] = "valid"]

(* Mutant: rotation as deleteMany and create, which succeeds without the   *)
(* old row.                                                                *)
RotatesAnyway(t) == TRUE

(* `delete` throws when the row is gone, and the transaction with it. *)
Rotates(t) == Stored(t)

(* deleteRefreshToken; nothing happens when the row is gone (the throw is  *)
(* caught by logout).                                                      *)
LoggedOut(rows, t) == [rows EXCEPT ![t] = "absent"]

(* Mutant: deleteMany where the token is still valid. *)
DeletedValid(rows, found) ==
  [t \in Tokens |-> IF t \in found /\ rows[t] = "valid" THEN "absent" ELSE rows[t]]

(* deleteRefreshTokensByUserId, and deleteMany in the two transactions. *)
Deleted(rows, found) == [t \in Tokens |-> IF t \in found THEN "absent" ELSE rows[t]]

(* A transaction that sets the password holds the lock of the user's row   *)
(* until it ends; other updates of the row wait for it.                    *)
UserLocked == \E q \in Requests : pending[q].write \in {"resetting", "changing"}

-----------------------------------------------------------------------------
Init ==
  /\ password = NoPassword
  /\ verified = FALSE
  /\ link = NoLink
  /\ sent = {}
  /\ row = [t \in Tokens |-> "absent"]
  /\ session = [t \in Tokens |-> NoToken]
  /\ pending = [q \in Requests |-> Idle]

(* The 30 days of a row are over. *)
Expire(t) ==
  /\ row[t] = "valid"
  /\ row' = [row EXCEPT ![t] = "expired"]
  /\ UNCHANGED <<password, verified, link, sent, session, pending>>

(* register: neither the e-mail nor the name is taken ... *)
Register(q, p) == ~UserFound /\ Decides(q, "register", p, NoToken)

(* ... and at the write the unique columns decide between two of them. *)
CreateUser(q) ==
  /\ Done(q, "register")
  /\ IF UserFound THEN UNCHANGED password ELSE password' = pending[q].password
  /\ UNCHANGED <<verified, link, sent, row, session>>

(* login: verifyPassword, on the row as it was read. *)
Login(q, p) == UserFound /\ p = password /\ Decides(q, "login", p, NoToken)

CreateSession(q, t) ==
  /\ Done(q, "login")
  /\ ~Signed(t)
  /\ row' = Added(row, t)
  /\ session' = [session EXCEPT ![t] = t]
  /\ UNCHANGED <<password, verified, link, sent>>

(* refresh with any token that was ever signed: rotate a valid row, revoke *)
(* all on an expired one, refuse when there is none.                       *)
Refresh(q, t) ==
  /\ Signed(t)
  /\ \/ row[t] = "valid"   /\ Decides(q, "rotate", NoPassword, t)
     \/ row[t] = "expired" /\ Decides(q, "revoke", NoPassword, t)
     \/ row[t] = "absent"  /\ Decides(q, "refuse", NoPassword, t)

Rotate(q, n) ==
  LET t == pending[q].token IN
  /\ Done(q, "rotate")
  /\ Rotates(t)
  /\ ~Signed(n)
  /\ row' = Added([row EXCEPT ![t] = "absent"], n)
  /\ session' = [session EXCEPT ![n] = session[t]]
  /\ UNCHANGED <<password, verified, link, sent>>

(* deleteMany begins: outside a transaction of its own after a late        *)
(* refresh, behind the update of the user's row in the two others.         *)
FindsTokens(q, write, open) ==
  /\ pending[q].write = write
  /\ pending' = [pending EXCEPT ![q] =
                  [write |-> open, password |-> @.password, token |-> @.token,
                   seen |-> {t \in Tokens : Stored(t)}]]
  /\ UNCHANGED <<password, verified, link, sent, row, session>>

BeginsRevoking(q) ==
  \/ FindsTokens(q, "revoke", "revoking")
  \/ ~UserLocked /\ FindsTokens(q, "reset", "resetting")
  \/ ~UserLocked /\ FindsTokens(q, "change", "changing")

RevokeAll(q) ==
  /\ Done(q, "revoking")
  /\ row' = Deleted(row, pending[q].seen)
  /\ UNCHANGED <<password, verified, link, sent, session>>

Logout(q, t) == Signed(t) /\ Stored(t) /\ Decides(q, "logout", NoPassword, t)

DeleteSession(q) ==
  /\ Done(q, "logout")
  /\ row' = LoggedOut(row, pending[q].token)
  /\ UNCHANGED <<password, verified, link, sent, session>>

(* verifyEmail: the token is cleared with the first use. *)
VerifyEmail(q) == UserFound /\ ~verified /\ Decides(q, "verify", NoPassword, NoToken)

MarkVerified(q) ==
  /\ Done(q, "verify")
  /\ ~UserLocked
  /\ verified' = TRUE
  /\ UNCHANGED <<password, link, sent, row, session>>

ForgotPassword(q) == UserFound /\ Decides(q, "forgot", NoPassword, NoToken)

SaveLink(q, l) ==
  /\ Done(q, "forgot")
  /\ ~UserLocked
  /\ l \notin sent
  /\ link' = l
  /\ sent' = sent \cup {l}
  /\ UNCHANGED <<password, verified, row, session>>

(* resetPassword with an unexpired link; the write goes by the user's id   *)
(* and clears whatever link is there by then.                              *)
ResetPassword(q, l, p) == l = link /\ Decides(q, "reset", p, NoToken)

(* changePassword: the old password is verified on the row as read. *)
ChangePassword(q, old, p) == UserFound /\ old = password /\ Decides(q, "change", p, NoToken)

(* The transaction commits: user.update and deleteMany. *)
SetPassword(q) ==
  /\ \/ Done(q, "resetting") /\ link' = NoLink
     \/ Done(q, "changing") /\ UNCHANGED link
  /\ password' = pending[q].password
  /\ row' = Deleted(row, pending[q].seen)
  /\ UNCHANGED <<verified, sent, session>>

(* The request ends without a write: it answers a refusal, its statement   *)
(* fails (a rotation whose row is gone throws), its transaction is rolled  *)
(* back, or the process dies.                                              *)
Ends(q) ==
  /\ pending[q] # Idle
  /\ pending' = [pending EXCEPT ![q] = Idle]
  /\ UNCHANGED <<password, verified, link, sent, row, session>>

Next ==
  \/ \E q \in Requests :
       \/ CreateUser(q)
       \/ BeginsRevoking(q)
       \/ RevokeAll(q)
       \/ DeleteSession(q)
       \/ VerifyEmail(q)
       \/ MarkVerified(q)
       \/ ForgotPassword(q)
       \/ SetPassword(q)
       \/ Ends(q)
       \/ \E p \in Passwords : Register(q, p) \/ Login(q, p)
       \/ \E t \in Tokens :
            CreateSession(q, t) \/ Refresh(q, t) \/ Rotate(q, t) \/ Logout(q, t)
       \/ \E l \in Links : SaveLink(q, l)
       \/ \E l \in Links, p \in Passwords : ResetPassword(q, l, p)
       \/ \E old, p \in Passwords : ChangePassword(q, old, p)
  \/ \E t \in Tokens : Expire(t)

Spec == Init /\ [][Next]_vars

-----------------------------------------------------------------------------
(* Properties. *)

(* Every stored token was signed, for a session that a login began. *)
TypeOK ==
  /\ password \in Passwords \cup {NoPassword}
  /\ verified \in BOOLEAN
  /\ link \in Links \cup {NoLink} /\ sent \subseteq Links
  /\ row \in [Tokens -> {"absent", "valid", "expired"}]
  /\ session \in [Tokens -> Tokens \cup {NoToken}]
  /\ pending \in [Requests -> Pending]
  /\ \A t \in Tokens : Stored(t) => Signed(t)
  /\ \A t \in Tokens : Signed(t) => session[session[t]] = session[t]

Began(s) == session[s] = s
Alive(s) == \E t \in Tokens : Stored(t) /\ session[t] = s

(* A session has one stored token, however many requests rotate it at the  *)
(* same time: two tabs that refresh with the same cookie do not fork the   *)
(* session ("to prevent race conditions", AuthService.refresh).            *)
OneTokenPerSession ==
  \A t, n \in Tokens :
    Stored(t) /\ Stored(n) /\ session[t] = session[n] => t = n

(* A session that has been logged out, or revoked by a reset, a change of  *)
(* password or a late refresh, does not come back: no refresh that read    *)
(* its token before stores a new one.                                      *)
EndedForGood ==
  [][\A s \in Tokens : Began(s) /\ ~Alive(s) => ~Alive(s)']_vars

(* The request ends: with its write, or without. *)
Ended(q) == pending[q] # Idle /\ pending'[q] = Idle

(* A session ends by its own logout or with the others of the account: no  *)
(* logout and no refresh of one device, lost races included, ends the      *)
(* session of another (docs/AUTH.md, "Multiple-Device Support").  A        *)
(* revocation (a late refresh, a reset, a change of password) that takes   *)
(* effect ends every session whose stored token it has found; what lives   *)
(* on was begun or renewed while it ran.                                   *)
EndsAloneOrWithAll ==
  [][/\ \A s \in Tokens :
          Alive(s) /\ ~Alive(s)' =>
            \E q \in Requests :
              /\ Ended(q)
              /\ \/ \E t \in pending[q].seen : session[t] = s
                 \/ pending[q].write = "logout" /\ session[pending[q].token] = s
     /\ \A q \in Requests :
          /\ pending[q].write \in {"revoking", "resetting", "changing"}
          /\ Ended(q)
          /\ row' # row \/ password' # password
          => \A t \in pending[q].seen : Stored(t) => ~Alive(session[t])']_vars

-----------------------------------------------------------------------------
(* What the repository says of the program and the code does not do. *)

(* docs/AUTH.md: a client that presents a token which has already been     *)
(* rotated has all sessions of the user revoked.  Only a token whose       *)
(* session has ended may be refused without that.                          *)
ReuseRevokes ==
  [][\A q \in Requests :
       pending[q] = Idle /\ pending'[q].write = "refuse"
         => ~Alive(session[pending'[q].token])]_vars
=============================================================================
