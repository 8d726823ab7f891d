------------------------------ MODULE PartyProofs ------------------------------
(***************************************************************************)
(* The invariants of Party for any users and party ids.  Their conjunction *)
(* PInv is inductive: a leave needs MembershipAgrees to know that the user *)
(* is in the party that userToParty names, OnlyMembersListen needs it to   *)
(* know that the channel left is the party's, and PartyLed with            *)
(* InvitesAreForOthers keeps ids of dissolved parties free of invitations. *)
(*                                                                         *)
(* Every action changes at most one party: EditKeepsPInv says what its new *)
(* record and the other variables must satisfy.                            *)
(*                                                                         *)
(* LeadInherited is about what a leave does to the order of the members:   *)
(* FirstOfTheRest says who is first once one of them is gone.              *)
(***************************************************************************)
EXTENDS Party, TLAPS

PInv ==
  /\ TypeOK
  /\ MembershipAgrees
  /\ PartyLed
  /\ InvitesAreForOthers
  /\ OnlyMembersListen

PartyRecord ==
  [leader: Users \cup {NoUser}, joined: Seq(Users),
   ready: SUBSET Users, invites: SUBSET Users]

(* What the invariants ask of one party. *)
Good(party) ==
  /\ party \in PartyRecord
  /\ IsInjective(party.joined)
  /\ party.joined # <<>> =>
       /\ party.leader \in Members(party)
       /\ party.ready \subseteq Members(party)
  /\ party.joined = <<>> => party = NotInMap
  /\ Members(party) \cap party.invites = {}

(* What they ask of the users after a step that gives party p record P. *)
UsersFollow(p, P) ==
  /\ userToParty' \in [Users -> PartyIds \cup {NoParty}]
  /\ online' \subseteq Users
  /\ channel' \in [Users -> PartyIds \cup {NoParty}]
  /\ \A u \in Users :
       /\ u \in Members(P) <=> userToParty'[u] = p
       /\ \A q \in PartyIds \ {p} : userToParty'[u] = q <=> userToParty[u] = q
       /\ userToParty'[u] # NoParty => u \in online'
       /\ channel'[u] # NoParty => channel'[u] = userToParty'[u]

-----------------------------------------------------------------------------
(* Rosters: what adding and removing a user does to the members, their     *)
(* distinctness and the first of them.                                     *)

(* Appending a user who is not in the sequence (joinRoom). *)
LEMMA AppendFacts ==
  ASSUME NEW S, NEW s \in Seq(S), NEW u \in S
  PROVE  /\ Append(s, u) \in Seq(S)
         /\ ToSet(Append(s, u)) = ToSet(s) \cup {u}
         /\ IsInjective(s) /\ u \notin ToSet(s) => IsInjective(Append(s, u))
<1> DEFINE t == Append(s, u)
<1>1. /\ t \in Seq(S) /\ Len(t) = Len(s) + 1
      /\ \A i \in 1..Len(s) : t[i] = s[i]
      /\ t[Len(s) + 1] = u
  OBVIOUS
<1>2. DOMAIN s = 1..Len(s) /\ DOMAIN t = 1..Len(t) /\ Len(s) \in Nat
  BY <1>1
<1> HIDE DEF t
<1>3. ToSet(t) \subseteq ToSet(s) \cup {u}
  BY <1>1, <1>2 DEF ToSet
<1>4. ToSet(s) \subseteq ToSet(t)
  BY <1>1, <1>2 DEF ToSet
<1>5. u \in ToSet(t)
  BY <1>1, <1>2 DEF ToSet
<1>6. IsInjective(s) /\ u \notin ToSet(s) => IsInjective(t)
  BY <1>1, <1>2 DEF ToSet, IsInjective
<1> QED
  BY <1>1, <1>3, <1>4, <1>5, <1>6 DEF t

(* Removing a user (leaveRoom): the others stay, in order. *)
LEMMA WithoutFacts ==
  ASSUME NEW S, NEW s \in Seq(S), NEW u, IsInjective(s)
  PROVE  /\ Without(s, u) \in Seq(S)
         /\ ToSet(Without(s, u)) = ToSet(s) \ {u}
         /\ IsInjective(Without(s, u))
<1>1. CASE u \notin ToSet(s)
  BY <1>1 DEF Without
<1>2. CASE u \in ToSet(s)
  <2> DEFINE k == CHOOSE i \in DOMAIN s : s[i] = u
             w == RemoveAt(s, k)
  <2>1. k \in 1..Len(s) /\ s[k] = u
    BY <1>2 DEF ToSet
  <2>2. Without(s, u) = w
    BY <1>2 DEF Without
  <2> HIDE DEF k
  <2> DEFINE a == SubSeq(s, 1, k-1)
             b == SubSeq(s, k+1, Len(s))
  <2>3. /\ a \in Seq(S) /\ Len(a) = k - 1 /\ \A i \in 1..(k-1) : a[i] = s[i]
    BY <2>1
  <2>4. /\ b \in Seq(S) /\ Len(b) = Len(s) - k /\ \A i \in 1..(Len(s)-k) : b[i] = s[k + i]
    BY <2>1
  <2>5. w = a \o b
    BY DEF RemoveAt
  <2> HIDE DEF a, b
  <2>6. w \in Seq(S) /\ Len(w) = Len(s) - 1
    BY <2>1, <2>3, <2>4, <2>5
  <2>7. \A i \in 1..(Len(s)-1) : w[i] = IF i < k THEN s[i] ELSE s[i + 1]
    BY <2>1, <2>3, <2>4, <2>5
  <2> HIDE DEF w
  <2>8. DOMAIN w = 1..(Len(s)-1) /\ DOMAIN s = 1..Len(s) /\ Len(s) \in Nat
    BY <2>6
  <2>9. IsInjective(w)
    BY <2>1, <2>7, <2>8 DEF IsInjective
  <2>10. ToSet(w) \subseteq ToSet(s) \ {u}
    BY <2>1, <2>7, <2>8 DEF IsInjective, ToSet
  <2>11. ASSUME NEW x \in ToSet(s) \ {u} PROVE x \in ToSet(w)
    <3>1. PICK j \in 1..Len(s) : s[j] = x
      BY <2>8, <2>11 DEF ToSet
    <3>2. CASE j < k
      BY <2>1, <2>7, <2>8, <3>1, <3>2 DEF ToSet
    <3>3. CASE j > k
      <4>1. j - 1 \in DOMAIN w /\ w[j - 1] = s[j]
        BY <2>1, <2>7, <2>8, <3>1, <3>3
      <4> QED
        BY <3>1, <4>1 DEF ToSet
    <3> QED
      BY <2>1, <2>11, <3>1, <3>2, <3>3
  <2> QED
    BY <2>2, <2>6, <2>9, <2>10, <2>11
<1> QED
  BY <1>1, <1>2

(* A nonempty sequence starts with one of its elements. *)
LEMMA FirstFacts ==
  ASSUME NEW S, NEW s \in Seq(S)
  PROVE  /\ s # <<>> => s[1] \in ToSet(s) /\ s[1] \in S
         /\ s = <<>> <=> ToSet(s) = {}
         /\ ToSet(s) \subseteq S
<1>1. DOMAIN s = 1..Len(s) /\ Len(s) \in Nat /\ (s # <<>> => Len(s) > 0)
  OBVIOUS
<1>2. s # <<>> => s[1] \in ToSet(s) /\ s[1] \in S
  BY <1>1 DEF ToSet
<1>3. s = <<>> => ToSet(s) = {}
  BY <1>1 DEF ToSet
<1>4. ToSet(s) \subseteq S
  BY DEF ToSet
<1> QED
  BY <1>2, <1>3, <1>4

-----------------------------------------------------------------------------
(* Records. *)

(* A party that is not in the map is good and has no members. *)
LEMMA NotInMapGood == Good(NotInMap) /\ Members(NotInMap) = {}
<1>1. ToSet(<<>>) = {} /\ IsInjective(<<>>) /\ <<>> \in Seq(Users)
  BY DEF ToSet, IsInjective
<1> QED
  BY <1>1 DEF Good, NotInMap, Members, PartyRecord

(* All parties are good, and the maps and channels agree. *)
LEMMA PInvFacts ==
  ASSUME PInv
  PROVE  /\ \A p \in PartyIds : Good(parties[p])
         /\ \A u \in Users : channel[u] # NoParty => channel[u] = userToParty[u]
         /\ \A u \in Users : userToParty[u] # NoParty =>
              userToParty[u] \in PartyIds /\ u \in Members(parties[userToParty[u]])
<1>1. \A p \in PartyIds : Good(parties[p])
  BY DEF PInv, TypeOK, MembershipAgrees, PartyLed, InvitesAreForOthers, Good, PartyRecord,
         Exists
<1>2. \A u \in Users : channel[u] # NoParty => channel[u] = userToParty[u]
  BY DEF PInv, TypeOK, OnlyMembersListen, MembershipAgrees
<1>3. \A u \in Users : userToParty[u] # NoParty =>
        userToParty[u] \in PartyIds /\ u \in Members(parties[userToParty[u]])
  BY DEF PInv, TypeOK, MembershipAgrees
<1> QED
  BY <1>1, <1>2, <1>3

(* Good parties and following users make the next state. *)
LEMMA EditKeepsPInv ==
  ASSUME PInv, NEW p \in PartyIds, NEW P, Good(P), UsersFollow(p, P),
         parties' = [parties EXCEPT ![p] = P]
  PROVE  PInv'
<1>1. \A q \in PartyIds : parties'[q] = IF q = p THEN P ELSE parties[q]
  BY DEF PInv, TypeOK
<1>2. \A q \in PartyIds : Good(parties'[q])
  BY <1>1, PInvFacts
<1>3. TypeOK'
  <2>1. P \in PartyRecord
    BY DEF Good
  <2>2. parties' \in [PartyIds -> PartyRecord]
    BY <2>1 DEF PInv, TypeOK, PartyRecord
  <2> QED
    BY <2>2 DEF TypeOK, UsersFollow, PartyRecord
<1>4. \A u \in Users, q \in PartyIds : u \in Members(parties'[q]) <=> userToParty'[u] = q
  BY <1>1 DEF UsersFollow, PInv, MembershipAgrees
<1>5. MembershipAgrees'
  BY <1>2, <1>4 DEF MembershipAgrees, UsersFollow, Good
<1>6. PartyLed'
  BY <1>2 DEF PartyLed, Good, Exists
<1>7. InvitesAreForOthers'
  BY <1>2 DEF InvitesAreForOthers, Good
<1>8. OnlyMembersListen'
  <2> SUFFICES ASSUME NEW u \in Users, channel'[u] # NoParty
               PROVE  u \in Members(parties'[channel'[u]])
    BY DEF OnlyMembersListen
  <2>1. channel'[u] = userToParty'[u] /\ channel'[u] \in PartyIds
    BY DEF UsersFollow
  <2> QED
    BY <1>4, <2>1
<1> QED
  BY <1>3, <1>5, <1>6, <1>7, <1>8 DEF PInv

(* A step that changes neither party nor membership. *)
LEMMA IdleKeepsPInv ==
  ASSUME PInv, UNCHANGED <<parties, userToParty>>, online \subseteq online', online' \subseteq Users,
         channel' \in [Users -> PartyIds \cup {NoParty}],
         \A u \in Users : channel'[u] # NoParty => channel'[u] = channel[u]
  PROVE  PInv'
BY DEF PInv, TypeOK, MembershipAgrees, PartyLed, InvitesAreForOthers, OnlyMembersListen, Exists

(* leaveParty: the member is gone, the lead is with a member. *)
LEMMA WithoutMemberFacts ==
  ASSUME NEW party, Good(party), NEW u \in Users, u \in Members(party)
  PROVE  LET P == WithoutMember(party, u) IN
         Good(P) /\ Members(P) = Members(party) \ {u}
<1> DEFINE P    == WithoutMember(party, u)
           rest == Without(party.joined, u)
<1>1. /\ party \in PartyRecord /\ party.joined \in Seq(Users) /\ IsInjective(party.joined)
      /\ party.joined # <<>>
      /\ party.leader \in Members(party) /\ party.ready \subseteq Members(party)
      /\ Members(party) \cap party.invites = {}
  <2>1. party.joined \in Seq(Users) /\ party.joined # <<>>
    BY FirstFacts DEF Good, PartyRecord, Members
  <2> QED
    BY <2>1 DEF Good
<1>2. /\ rest \in Seq(Users) /\ IsInjective(rest)
      /\ ToSet(rest) = Members(party) \ {u}
  BY <1>1, WithoutFacts DEF Members
<1>3. /\ rest # <<>> => rest[1] \in ToSet(rest)
      /\ rest = <<>> => ToSet(rest) = {}
      /\ ToSet(rest) \subseteq Users
  BY <1>2, FirstFacts
<1>4. P = IF rest = <<>> THEN NotInMap
          ELSE IF party.leader = u
               THEN [party EXCEPT !.joined = rest, !.leader = rest[1],
                                  !.ready = (@ \ {u}) \cup {rest[1]}]
               ELSE [party EXCEPT !.joined = rest, !.ready = @ \ {u}]
  BY DEF WithoutMember
<1> HIDE DEF P, rest
<1>5. ASSUME rest = <<>>
      PROVE  Good(P) /\ Members(P) = Members(party) \ {u}
  BY <1>2, <1>3, <1>4, <1>5, NotInMapGood
<1>6. ASSUME rest # <<>>, party.leader = u
      PROVE  Good(P) /\ Members(P) = Members(party) \ {u}
  <2>1. /\ P.joined = rest /\ P.leader = rest[1] /\ P.invites = party.invites
        /\ P.ready = (party.ready \ {u}) \cup {rest[1]} /\ P \in PartyRecord
    BY <1>1, <1>2, <1>3, <1>4, <1>6 DEF PartyRecord
  <2> QED
    BY <1>1, <1>2, <1>3, <1>6, <2>1 DEF Good, Members
<1>7. ASSUME rest # <<>>, party.leader # u
      PROVE  Good(P) /\ Members(P) = Members(party) \ {u}
  <2>1. /\ P.joined = rest /\ P.leader = party.leader /\ P.invites = party.invites
        /\ P.ready = party.ready \ {u} /\ P \in PartyRecord
    BY <1>1, <1>2, <1>3, <1>4, <1>7 DEF PartyRecord
  <2> QED
    BY <1>1, <1>2, <1>3, <1>7, <2>1 DEF Good, Members
<1> QED
  BY <1>5, <1>6, <1>7 DEF P

(* acceptInvite: a new member, whose invitation is used up. *)
LEMMA JoinedFacts ==
  ASSUME NEW party, Good(party), NEW u \in Users, u \in party.invites
  PROVE  LET P == Joined(party, u) IN
         Good(P) /\ Members(P) = Members(party) \cup {u}
<1> DEFINE P    == Joined(party, u)
           more == Append(party.joined, u)
<1>1. /\ party \in PartyRecord /\ party.joined \in Seq(Users) /\ IsInjective(party.joined)
      /\ u \notin Members(party) /\ party # NotInMap
      /\ Members(party) \cap party.invites = {}
  BY DEF Good, PartyRecord, NotInMap
<1>2. /\ more \in Seq(Users) /\ ToSet(more) = Members(party) \cup {u} /\ IsInjective(more)
  BY <1>1, AppendFacts DEF Members
<1>3. more # <<>>
  BY <1>1
<1>4. P = [party EXCEPT !.joined = more, !.invites = @ \ {u}]
  BY DEF Joined
<1> HIDE DEF P, more
<1>5. /\ P.joined = more /\ P.leader = party.leader /\ P.ready = party.ready
      /\ P.invites = party.invites \ {u} /\ P \in PartyRecord
  BY <1>1, <1>2, <1>4 DEF PartyRecord
<1>6. party.leader \in Members(party) /\ party.ready \subseteq Members(party)
  BY <1>1 DEF Good
<1>7. Good(P) /\ Members(P) = Members(party) \cup {u}
  BY <1>1, <1>2, <1>3, <1>5, <1>6 DEF Good, Members
<1> QED
  BY <1>7 DEF P

(* Invitations and ready flags of an existing party. *)
LEMMA FlagsFacts ==
  ASSUME NEW party, Good(party), party.joined # <<>>
  PROVE  /\ \A S \in SUBSET Users : S \cap Members(party) = {} =>
              LET P == [party EXCEPT !.invites = S] IN Good(P) /\ Members(P) = Members(party)
         /\ \A S \in SUBSET Members(party) :
              LET P == [party EXCEPT !.ready = S] IN Good(P) /\ Members(P) = Members(party)
<1>1. party \in PartyRecord /\ Members(party) \subseteq Users
  BY FirstFacts DEF Good, PartyRecord, Members
<1>2. ASSUME NEW S \in SUBSET Users, S \cap Members(party) = {}
      PROVE  LET P == [party EXCEPT !.invites = S] IN Good(P) /\ Members(P) = Members(party)
  BY <1>1, <1>2 DEF Good, Members, PartyRecord
<1>3. ASSUME NEW S \in SUBSET Members(party)
      PROVE  LET P == [party EXCEPT !.ready = S] IN Good(P) /\ Members(P) = Members(party)
  BY <1>1 DEF Good, Members, PartyRecord
<1> QED
  BY <1>2, <1>3

-----------------------------------------------------------------------------
(* The actions. *)

(* A handler that changes a party's record and no user. *)
LEMMA FlagStepKeepsPInv ==
  ASSUME PInv, NEW p \in PartyIds, NEW P, Good(P), Members(P) = Members(parties[p]),
         parties' = [parties EXCEPT ![p] = P],
         UNCHANGED <<userToParty, online, channel>>
  PROVE  PInv'
<1>1. UsersFollow(p, P)
  BY PInvFacts DEF UsersFollow, PInv, TypeOK, MembershipAgrees
<1> QED
  BY <1>1, EditKeepsPInv

(* party:leave and disconnect take the user out of the own party. *)
LEMMA LeaveKeepsPInv ==
  ASSUME PInv, NEW u \in Users, LeaveOwnParty(u),
         online' \subseteq Users, online \subseteq online' \cup {u},
         channel' \in [Users -> PartyIds \cup {NoParty}],
         channel'[u] = NoParty,
         \A v \in Users \ {u} : channel'[v] = channel[v],
         u \in online' \/ userToParty'[u] = NoParty
  PROVE  PInv'
<1> DEFINE p == userToParty[u]
<1>1. /\ userToParty' \in [Users -> PartyIds \cup {NoParty}]
      /\ userToParty'[u] = NoParty
      /\ \A v \in Users \ {u} : userToParty'[v] = userToParty[v]
  BY DEF LeaveOwnParty, PInv, TypeOK
<1>2. CASE p = NoParty
  <2>1. UNCHANGED <<parties, userToParty>>
    BY <1>2 DEF LeaveOwnParty, PInv, TypeOK
  <2>2. \A v \in Users : channel'[v] # NoParty => channel'[v] = channel[v]
    OBVIOUS
  <2>3. \A v \in Users : userToParty[v] # NoParty => v \in online'
    BY <1>2 DEF PInv, MembershipAgrees
  <2> QED
    BY <2>1, <2>2, <2>3 DEF PInv, TypeOK, MembershipAgrees, PartyLed, InvitesAreForOthers,
       OnlyMembersListen, Exists
<1>3. CASE p # NoParty
  <2> DEFINE P == WithoutMember(parties[p], u)
  <2>1. p \in PartyIds /\ u \in Members(parties[p]) /\ Good(parties[p])
    BY <1>3, PInvFacts
  <2>2. parties' = [parties EXCEPT ![p] = P]
    BY <1>3 DEF LeaveOwnParty
  <2>3. Good(P) /\ Members(P) = Members(parties[p]) \ {u}
    BY <2>1, WithoutMemberFacts
  <2> HIDE DEF P
  <2>4. ASSUME NEW v \in Users
        PROVE  /\ v \in Members(P) <=> userToParty'[v] = p
               /\ \A q \in PartyIds \ {p} : userToParty'[v] = q <=> userToParty[v] = q
               /\ userToParty'[v] # NoParty => v \in online'
               /\ channel'[v] # NoParty => channel'[v] = userToParty'[v]
    <3>1. v \in Members(parties[p]) <=> userToParty[v] = p
      BY <2>1 DEF PInv, MembershipAgrees
    <3>2. CASE v = u
      BY <1>1, <1>3, <2>1, <2>3, <3>2, PartyAssumption
    <3>3. CASE v # u
      BY <1>1, <2>3, <3>1, <3>3, PInvFacts DEF PInv, MembershipAgrees
    <3> QED
      BY <3>2, <3>3
  <2>5. UsersFollow(p, P)
    BY <1>1, <2>4 DEF UsersFollow
  <2> QED
    BY <2>1, <2>2, <2>3, <2>5, EditKeepsPInv
<1> QED
  BY <1>2, <1>3

(* party:create and party:accept-invite bring the user into party p. *)
LEMMA EnterKeepsPInv ==
  ASSUME PInv, NEW p \in PartyIds, NEW u \in Users, NEW P, Good(P),
         Members(P) = Members(parties[p]) \cup {u},
         u \in online, userToParty[u] = NoParty,
         parties' = [parties EXCEPT ![p] = P],
         userToParty' = [userToParty EXCEPT ![u] = p],
         channel' = [channel EXCEPT ![u] = p],
         UNCHANGED online
  PROVE  PInv'
<1>1. UsersFollow(p, P)
  BY PInvFacts, PartyAssumption DEF UsersFollow, PInv, TypeOK, MembershipAgrees
<1> QED
  BY <1>1, EditKeepsPInv

(* Every step of the service keeps the invariant. *)
LEMMA NextKeepsPInv == PInv /\ [Next]_vars => PInv'
<1> SUFFICES ASSUME PInv, [Next]_vars PROVE PInv'
  OBVIOUS
<1>1. ASSUME NEW u \in Users, Connect(u)
      PROVE  PInv'
  <2>1. /\ UNCHANGED <<parties, userToParty>>
        /\ online \subseteq online' /\ online' \subseteq Users
        /\ channel' \in [Users -> PartyIds \cup {NoParty}]
        /\ \A v \in Users : channel'[v] # NoParty => channel'[v] = channel[v]
    BY <1>1 DEF Connect, PInv, TypeOK
  <2> QED
    BY <2>1, IdleKeepsPInv
<1>2. ASSUME NEW u \in Users, Disconnect(u)
      PROVE  PInv'
  <2>1. /\ LeaveOwnParty(u)
        /\ online' \subseteq Users /\ online \subseteq online' \cup {u}
        /\ channel' \in [Users -> PartyIds \cup {NoParty}] /\ channel'[u] = NoParty
        /\ \A v \in Users \ {u} : channel'[v] = channel[v]
        /\ userToParty'[u] = NoParty
    BY <1>2 DEF Disconnect, LeaveOwnParty, PInv, TypeOK
  <2> QED
    BY <2>1, LeaveKeepsPInv
<1>3. ASSUME NEW u \in Users, LeaveParty(u)
      PROVE  PInv'
  <2>1. channel[u] # NoParty => channel[u] = userToParty[u]
    BY PInvFacts
  <2>2. /\ LeaveOwnParty(u) /\ u \in online' /\ online' = online
        /\ channel' \in [Users -> PartyIds \cup {NoParty}] /\ channel'[u] = NoParty
        /\ \A v \in Users \ {u} : channel'[v] = channel[v]
    BY <1>3, <2>1 DEF LeaveParty, ChannelsWithout, PInv, TypeOK
  <2> QED
    BY <2>2, LeaveKeepsPInv DEF PInv, TypeOK
<1>4. ASSUME NEW u \in Users, NEW p \in PartyIds, CreateParty(u, p)
      PROVE  PInv'
  <2> DEFINE P == [leader |-> u, joined |-> <<u>>, ready |-> {u}, invites |-> {}]
  <2>1. ToSet(<<u>>) = {u} /\ IsInjective(<<u>>) /\ <<u>> \in Seq(Users) /\ <<u>> # <<>>
    BY DEF ToSet, IsInjective
  <2>2. Good(P) /\ Members(P) = {u}
    BY <2>1 DEF Good, PartyRecord, Members
  <2>3. Members(parties[p]) = {}
    BY <1>4, NotInMapGood, PInvFacts DEF CreateParty, Exists, Good
  <2> HIDE DEF P
  <2>4. /\ u \in online /\ userToParty[u] = NoParty
        /\ parties' = [parties EXCEPT ![p] = P]
        /\ userToParty' = [userToParty EXCEPT ![u] = p]
        /\ channel' = [channel EXCEPT ![u] = p]
        /\ UNCHANGED online
    BY <1>4 DEF CreateParty, P
  <2> QED
    BY <2>2, <2>3, <2>4, EnterKeepsPInv
<1>5. ASSUME NEW u \in Users, NEW p \in PartyIds, AcceptInvite(u, p)
      PROVE  PInv'
  <2> DEFINE P == Joined(parties[p], u)
  <2>1. Good(parties[p]) /\ u \in parties[p].invites
    BY <1>5, PInvFacts DEF AcceptInvite, MayJoin
  <2>2. Good(P) /\ Members(P) = Members(parties[p]) \cup {u}
    BY <2>1, JoinedFacts
  <2>3. /\ u \in online /\ userToParty[u] = NoParty
        /\ parties' = [parties EXCEPT ![p] = P]
        /\ userToParty' = [userToParty EXCEPT ![u] = p]
        /\ channel' = [channel EXCEPT ![u] = p]
        /\ UNCHANGED online
    BY <1>5 DEF AcceptInvite, MayJoin
  <2> HIDE DEF P
  <2> QED
    BY <2>2, <2>3, EnterKeepsPInv
<1>6. ASSUME NEW u \in Users, NEW target \in Users, SendInvite(u, target)
      PROVE  PInv'
  <2> DEFINE p == userToParty[u]
             S == parties[p].invites \cup {target}
             P == [parties[p] EXCEPT !.invites = S]
  <2>1. p \in PartyIds /\ Good(parties[p]) /\ u \in Members(parties[p])
    BY <1>6, PInvFacts DEF SendInvite
  <2>2. parties[p].joined # <<>>
    BY <2>1, NotInMapGood DEF Good
  <2>3. S \in SUBSET Users /\ S \cap Members(parties[p]) = {}
    BY <1>6, <2>1 DEF SendInvite, Good, PartyRecord
  <2>4. Good(P) /\ Members(P) = Members(parties[p])
    BY <2>1, <2>2, <2>3, FlagsFacts
  <2>5. parties' = [parties EXCEPT ![p] = P] /\ UNCHANGED <<userToParty, online, channel>>
    BY <1>6 DEF SendInvite
  <2> HIDE DEF P, p
  <2> QED
    BY <2>1, <2>4, <2>5, FlagStepKeepsPInv
<1>7. ASSUME NEW u \in Users, NEW p \in PartyIds, DeclineInvite(u, p)
      PROVE  PInv'
  <2> DEFINE S == parties[p].invites \ {u}
             P == [parties[p] EXCEPT !.invites = S]
  <2>1. Good(parties[p]) /\ parties[p].joined # <<>>
    BY <1>7, PInvFacts DEF DeclineInvite, Exists
  <2>2. S \in SUBSET Users /\ S \cap Members(parties[p]) = {}
    BY <2>1 DEF Good, PartyRecord
  <2>3. Good(P) /\ Members(P) = Members(parties[p])
    BY <2>1, <2>2, FlagsFacts
  <2>4. parties' = [parties EXCEPT ![p] = P] /\ UNCHANGED <<userToParty, online, channel>>
    BY <1>7 DEF DeclineInvite
  <2> HIDE DEF P
  <2> QED
    BY <2>3, <2>4, FlagStepKeepsPInv
<1>8. ASSUME NEW u \in Users, ToggleReady(u)
      PROVE  PInv'
  <2> DEFINE p == userToParty[u]
             S == IF u \in parties[p].ready THEN parties[p].ready \ {u}
                  ELSE parties[p].ready \cup {u}
             P == [parties[p] EXCEPT !.ready = S]
  <2>1. p \in PartyIds /\ Good(parties[p]) /\ u \in Members(parties[p])
    BY <1>8, PInvFacts DEF ToggleReady
  <2>2. parties[p].joined # <<>>
    BY <2>1, NotInMapGood DEF Good
  <2>3. S \in SUBSET Members(parties[p])
    BY <2>1, <2>2 DEF Good
  <2>4. Good(P) /\ Members(P) = Members(parties[p])
    BY <2>1, <2>2, <2>3, FlagsFacts
  <2>5. parties' = [parties EXCEPT ![p] = P] /\ UNCHANGED <<userToParty, online, channel>>
    BY <1>8 DEF ToggleReady
  <2> HIDE DEF P, p
  <2> QED
    BY <2>1, <2>4, <2>5, FlagStepKeepsPInv
<1>9. CASE UNCHANGED vars
  BY <1>9, IdleKeepsPInv DEF vars, PInv, TypeOK
<1> QED
  BY <1>1, <1>2, <1>3, <1>4, <1>5, <1>6, <1>7, <1>8, <1>9 DEF Next

(* The service starts without parties. *)
LEMMA InitPInv == Init => PInv
<1> SUFFICES ASSUME Init PROVE PInv
  OBVIOUS
<1>1. \A p \in PartyIds : parties[p] = NotInMap
  BY DEF Init
<1>2. /\ Members(NotInMap) = {} /\ NotInMap \in PartyRecord /\ IsInjective(NotInMap.joined)
      /\ NotInMap.joined = <<>>
  BY NotInMapGood DEF Good, NotInMap
<1>3. TypeOK
  BY <1>2 DEF Init, TypeOK, PartyRecord
<1>4. MembershipAgrees
  BY <1>1, <1>2, PartyAssumption DEF Init, MembershipAgrees
<1>5. PartyLed
  BY <1>1, <1>2 DEF PartyLed, Exists
<1>6. InvitesAreForOthers /\ OnlyMembersListen
  BY <1>1, <1>2 DEF Init, InvitesAreForOthers, OnlyMembersListen
<1> QED
  BY <1>3, <1>4, <1>5, <1>6 DEF PInv

(* The inductive invariant holds in every state the service reaches. *)
THEOREM PartyInvariance == Spec => []PInv
BY InitPInv, NextKeepsPInv, PTL DEF Spec

(* Every state is well typed: no party is led by an undefined heir.        *)
THEOREM PartiesTyped == Spec => []TypeOK
<1>1. PInv => TypeOK
  BY DEF PInv
<1> QED
  BY <1>1, PartyInvariance, PTL

(* PartyManager's two maps agree: nobody is in two parties, or in a party  *)
(* that a leave or a disconnect forgot.                                    *)
THEOREM MembershipsAgree == Spec => []MembershipAgrees
<1>1. PInv => MembershipAgrees
  BY DEF PInv
<1> QED
  BY <1>1, PartyInvariance, PTL

(* A party in the map is led by a member; a dissolved one leaves nothing.  *)
THEOREM PartiesLed == Spec => []PartyLed
<1>1. PInv => PartyLed
  BY DEF PInv
<1> QED
  BY <1>1, PartyInvariance, PTL

(* No member holds an invitation to the own party: nobody who left comes   *)
(* back on an old one.                                                     *)
THEOREM InvitationsForOthers == Spec => []InvitesAreForOthers
<1>1. PInv => InvitesAreForOthers
  BY DEF PInv
<1> QED
  BY <1>1, PartyInvariance, PTL

(* A socket in a party's channel belongs to a member of that party.        *)
THEOREM ListenersAreMembers == Spec => []OnlyMembersListen
<1>1. PInv => OnlyMembersListen
  BY DEF PInv
<1> QED
  BY <1>1, PartyInvariance, PTL

-----------------------------------------------------------------------------
(* The heir. *)

(* The first of those who are left when u goes. *)
LEMMA FirstOfTheRest ==
  ASSUME NEW s \in Seq(Users), IsInjective(s), NEW u, u \in ToSet(s), Without(s, u) # <<>>
  PROVE  \E i \in DOMAIN s :
           /\ s[i] = Without(s, u)[1]
           /\ \A k \in 1..(i - 1) : s[k] \notin ToSet(Without(s, u))
<1> DEFINE k == CHOOSE i \in DOMAIN s : s[i] = u
           w == Without(s, u)
           a == SubSeq(s, 1, k - 1)
           b == SubSeq(s, k + 1, Len(s))
<1>1. k \in 1..Len(s) /\ s[k] = u
  BY DEF ToSet
<1>2. w = a \o b
  BY DEF Without, RemoveAt
<1>3. w \in Seq(Users) /\ w # <<>> /\ ToSet(w) = ToSet(s) \ {u}
  BY WithoutFacts
<1> HIDE DEF k, w
<1>4. a \in Seq(Users) /\ Len(a) = k - 1 /\ \A i \in 1..(k - 1) : a[i] = s[i]
  BY <1>1
<1>5. b \in Seq(Users) /\ Len(b) = Len(s) - k /\ \A i \in 1..(Len(s) - k) : b[i] = s[k + i]
  BY <1>1
<1> HIDE DEF a, b
<1>6. Len(w) = Len(s) - 1 /\ Len(w) # 0 /\ Len(s) \in Nat /\ DOMAIN s = 1..Len(s)
  <2>1. Len(w) = Len(a) + Len(b)
    <3>1. a \in Seq(Users) /\ b \in Seq(Users)
      BY <1>4, <1>5
    <3>2. QED BY <1>2, <3>1
  <2>2. Len(w) = Len(s) - 1
    BY <1>1, <1>4, <1>5, <2>1
  <2>3. QED BY <1>3, <2>1, <2>2
<1>7. CASE k = 1
  <2>1. w[1] = b[1] /\ 1 \in 1..(Len(s) - k)
    BY <1>1, <1>2, <1>4, <1>5, <1>6, <1>7
  <2>2. w[1] = s[2] /\ 2 \in DOMAIN s
    BY <1>1, <1>5, <1>6, <1>7, <2>1
  <2>3. \A j \in 1..(2 - 1) : s[j] \notin ToSet(w)
    BY <1>1, <1>3, <1>6, <1>7
  <2>4. QED BY <2>2, <2>3 DEF w
<1>8. CASE k # 1
  <2>1. w[1] = a[1] /\ 1 \in 1..(k - 1)
    BY <1>1, <1>2, <1>4, <1>5, <1>8
  <2>2. w[1] = s[1] /\ 1 \in DOMAIN s
    BY <1>1, <1>4, <1>6, <2>1
  <2>3. 1..(1 - 1) = {}
    OBVIOUS
  <2>4. QED BY <2>2, <2>3 DEF w
<1>9. QED BY <1>7, <1>8

(* P has the lead that party had, or the one that is inherited.            *)
Inherits(party, P) ==
  party.leader # P.leader /\ P.joined # <<>> =>
    /\ party.leader \notin Members(P)
    /\ \E i \in DOMAIN party.joined :
         /\ party.joined[i] = P.leader
         /\ P.leader \in Members(P)
         /\ \A k \in 1..(i - 1) : party.joined[k] \notin Members(P)

LEMMA WithoutInherits ==
  ASSUME NEW party, Good(party), NEW u \in Users, u \in Members(party)
  PROVE  Inherits(party, WithoutMember(party, u))
<1> DEFINE P    == WithoutMember(party, u)
           rest == Without(party.joined, u)
<1>1. party \in PartyRecord /\ party.joined \in Seq(Users) /\ IsInjective(party.joined)
  BY DEF Good, PartyRecord
<1>2. rest \in Seq(Users) /\ ToSet(rest) = Members(party) \ {u}
  BY <1>1, WithoutFacts DEF Members
<1>3. P = IF rest = <<>> THEN NotInMap
          ELSE IF party.leader = u
               THEN [party EXCEPT !.joined = rest, !.leader = rest[1],
                                  !.ready = (@ \ {u}) \cup {rest[1]}]
               ELSE [party EXCEPT !.joined = rest, !.ready = @ \ {u}]
  BY DEF WithoutMember
<1>4. rest # <<>> => \E i \in DOMAIN party.joined :
                       /\ party.joined[i] = rest[1]
                       /\ \A k \in 1..(i - 1) : party.joined[k] \notin ToSet(rest)
  BY <1>1, FirstOfTheRest DEF Members
<1>5. rest # <<>> => rest[1] \in ToSet(rest)
  BY <1>2, FirstFacts
<1> HIDE DEF P, rest
<1>6. CASE rest = <<>>
  BY <1>3, <1>6 DEF Inherits, NotInMap, P
<1>7. CASE rest # <<>> /\ party.leader = u
  <2>1. P.joined = rest /\ P.leader = rest[1]
    BY <1>1, <1>3, <1>7 DEF PartyRecord
  <2>2. Members(P) = ToSet(rest) /\ u \notin ToSet(rest)
    BY <1>2, <2>1 DEF Members
  <2>3. QED BY <1>4, <1>5, <1>7, <2>1, <2>2 DEF Inherits, P
<1>8. CASE rest # <<>> /\ party.leader # u
  <2>1. P.leader = party.leader
    BY <1>1, <1>3, <1>8 DEF PartyRecord
  <2>2. QED BY <2>1 DEF Inherits, P
<1>9. QED BY <1>6, <1>7, <1>8

(* A leave that may end the party hands its lead over, no other step does. *)
LEMMA LeaveInherits ==
  ASSUME PInv, NEW u \in Users, LeaveOwnParty(u), NEW p \in PartyIds
  PROVE  Inherits(parties[p], parties'[p])
<1>1. CASE userToParty[u] = p
  <2>1. u \in Members(parties[p]) /\ Good(parties[p]) /\ p # NoParty
    BY <1>1, PInvFacts, PartyAssumption
  <2>2. parties'[p] = WithoutMember(parties[p], u)
    BY <1>1, <2>1 DEF LeaveOwnParty, PInv, TypeOK
  <2>3. QED BY <2>1, <2>2, WithoutInherits
<1>2. CASE userToParty[u] # p
  <2>1. parties'[p] = parties[p]
    BY <1>2 DEF LeaveOwnParty, PInv, TypeOK
  <2>2. QED BY <2>1 DEF Inherits
<1>3. QED BY <1>1, <1>2

LEMMA NextInherits ==
  ASSUME PInv, [Next]_vars, NEW p \in PartyIds, Exists(p)
  PROVE  Inherits(parties[p], parties'[p])
<1>1. parties \in [PartyIds -> PartyRecord] /\ parties[p] \in PartyRecord
  BY DEF PInv, TypeOK, PartyRecord
<1>2. ASSUME NEW u \in Users, Disconnect(u) \/ LeaveParty(u)
      PROVE  Inherits(parties[p], parties'[p])
  BY <1>2, LeaveInherits DEF Disconnect, LeaveParty
<1>3. ASSUME NEW u \in Users, NEW q \in PartyIds, CreateParty(u, q)
      PROVE  Inherits(parties[p], parties'[p])
  <2>1. parties'[p] = parties[p]
    BY <1>1, <1>3 DEF CreateParty, Exists
  <2>2. QED BY <2>1 DEF Inherits
<1>4. ASSUME parties'[p].leader = parties[p].leader
      PROVE  Inherits(parties[p], parties'[p])
  BY <1>4 DEF Inherits
<1>5. ASSUME NEW u \in Users, Connect(u) \/ ToggleReady(u)
      PROVE  parties'[p].leader = parties[p].leader
  BY <1>1, <1>5 DEF Connect, ToggleReady, PartyRecord
<1>6. ASSUME NEW u \in Users, NEW target \in Users, SendInvite(u, target)
      PROVE  parties'[p].leader = parties[p].leader
  BY <1>1, <1>6 DEF SendInvite, PartyRecord
<1>7. ASSUME NEW u \in Users, NEW q \in PartyIds, AcceptInvite(u, q) \/ DeclineInvite(u, q)
      PROVE  parties'[p].leader = parties[p].leader
  <2>1. CASE AcceptInvite(u, q)
    <3>1. parties' = [parties EXCEPT ![q] = Joined(parties[q], u)]
      BY <2>1 DEF AcceptInvite
    <3>2. Joined(parties[p], u).leader = parties[p].leader
      BY <1>1 DEF Joined, PartyRecord
    <3>3. QED BY <1>1, <3>1, <3>2
  <2>2. CASE DeclineInvite(u, q)
    BY <1>1, <2>2 DEF DeclineInvite, PartyRecord
  <2>3. QED BY <1>7, <2>1, <2>2
<1>8. CASE UNCHANGED vars
  BY <1>4, <1>8 DEF vars
<1>9. QED BY <1>2, <1>3, <1>4, <1>5, <1>6, <1>7, <1>8 DEF Next

(* The lead changes hands only when the leader goes, whoever leaves or     *)
(* loses the connection, and the member of longest standing gets it.       *)
THEOREM LeadsAreInherited == Spec => LeadInherited
<1>1. PInv /\ [Next]_vars =>
        [\A p \in PartyIds :
           parties[p].leader # parties'[p].leader /\ Exists(p) /\ Exists(p)' =>
             /\ parties[p].leader \notin Members(parties'[p])
             /\ \E i \in DOMAIN parties[p].joined :
                  /\ parties[p].joined[i] = parties'[p].leader
                  /\ parties'[p].leader \in Members(parties'[p])
                  /\ \A k \in 1..(i - 1) : parties[p].joined[k] \notin Members(parties'[p])]_vars
  BY NextInherits DEF Inherits, Exists
<1>2. QED BY PartyInvariance, <1>1, PTL DEF Spec, LeadInherited
=============================================================================
