--------------------------------- MODULE Party ---------------------------------
(***************************************************************************)
(* Parties of the websocket service: PartyManager, the handlers of         *)
(* party.handler.ts and the connection listeners of index.ts, with the     *)
(* socket.io channel of a party, through which its members hear of every   *)
(* change.                                                                 *)
(***************************************************************************)
EXTENDS Naturals, FiniteSets, SequencesExt, Roster

CONSTANTS
  Users,     (* the players                                                *)
  PartyIds,  (* an id is as good as fresh once its party is dissolved: the *)
             (* invitations went with it                                   *)
  NoUser, NoParty

ASSUME PartyAssumption ==
  /\ NoUser \notin Users
  /\ NoParty \notin PartyIds

VARIABLES
  parties,      (* PartyManager.parties                                    *)
  userToParty,  (* PartyManager.userToParty                                *)
  online,       (* users with a socket                                     *)
  channel       (* the party channel the user's socket is in               *)

vars == <<parties, userToParty, online, channel>>

(* joined lists the keys of `members` in insertion order; a party that is  *)
(* not in the map has none.                                                *)
NotInMap == [leader |-> NoUser, joined |-> <<>>, ready |-> {}, invites |-> {}]

Members(party) == ToSet(party.joined)
Exists(p)      == parties[p].joined # <<>>

-----------------------------------------------------------------------------
(* leaveParty: the party without u. *)

(* Mutants: the leader stays on record; the newest member leads. *)
WithoutMemberLeaderKept(party, u) ==
  [party EXCEPT !.joined = Without(@, u), !.ready = @ \ {u}]

WithoutMemberLastLeads(party, u) ==
  LET rest == Without(party.joined, u) IN
  IF rest = <<>> THEN NotInMap
  ELSE [party EXCEPT !.joined = rest, !.leader = Last(rest), !.ready = @ \ {u}]

WithoutMember(party, u) ==
  LET rest == Without(party.joined, u) IN
  IF rest = <<>> THEN NotInMap
  ELSE IF party.leader = u
       THEN [party EXCEPT !.joined = rest, !.leader = rest[1],
                          !.ready = (@ \ {u}) \cup {rest[1]}]
       ELSE [party EXCEPT !.joined = rest, !.ready = @ \ {u}]

(* leaveParty for a user who may be in no party. *)
LeaveOwnParty(u) ==
  LET p == userToParty[u] IN
  /\ userToParty' = [userToParty EXCEPT ![u] = NoParty]
  /\ parties' = IF p = NoParty THEN parties
                ELSE [parties EXCEPT ![p] = WithoutMember(@, u)]

-----------------------------------------------------------------------------
Init ==
  /\ parties = [p \in PartyIds |-> NotInMap]
  /\ userToParty = [u \in Users |-> NoParty]
  /\ online = {}
  /\ channel = [u \in Users |-> NoParty]

(* A new socket is in no channel; an older one of the same user is closed  *)
(* after its disconnect listeners were removed.                            *)
Connect(u) ==
  /\ online' = online \cup {u}
  /\ channel' = [channel EXCEPT ![u] = NoParty]
  /\ UNCHANGED <<parties, userToParty>>

Disconnect(u) ==
  /\ u \in online
  /\ online' = online \ {u}
  /\ channel' = [channel EXCEPT ![u] = NoParty]
  /\ LeaveOwnParty(u)

CreateParty(u, p) ==
  /\ u \in online
  /\ userToParty[u] = NoParty
  /\ ~Exists(p)
  /\ parties' = [parties EXCEPT ![p] =
       [leader |-> u, joined |-> <<u>>, ready |-> {u}, invites |-> {}]]
  /\ userToParty' = [userToParty EXCEPT ![u] = p]
  /\ channel' = [channel EXCEPT ![u] = p]
  /\ UNCHANGED online

SendInvite(u, target) ==
  LET p == userToParty[u] IN
  /\ u \in online
  /\ p # NoParty
  /\ parties[p].leader = u
  /\ target \notin Members(parties[p])
  /\ target \notin parties[p].invites
  /\ parties' = [parties EXCEPT ![p].invites = @ \cup {target}]
  /\ UNCHANGED <<userToParty, online, channel>>

Joined(party, u) ==
  [party EXCEPT !.joined = Append(@, u), !.invites = @ \ {u}]

(* Mutant: the invitation is all that is checked. *)
MayJoinAnyway(u, p) == u \in parties[p].invites

MayJoin(u, p) == userToParty[u] = NoParty /\ u \in parties[p].invites

AcceptInvite(u, p) ==
  /\ u \in online
  /\ MayJoin(u, p)
  /\ parties' = [parties EXCEPT ![p] = Joined(@, u)]
  /\ userToParty' = [userToParty EXCEPT ![u] = p]
  /\ channel' = [channel EXCEPT ![u] = p]
  /\ UNCHANGED online

DeclineInvite(u, p) ==
  /\ u \in online
  /\ Exists(p)
  /\ parties' = [parties EXCEPT ![p].invites = @ \ {u}]
  /\ UNCHANGED <<userToParty, online, channel>>

ToggleReady(u) ==
  LET p == userToParty[u] IN
  /\ u \in online
  /\ p # NoParty
  /\ u \in Members(parties[p])
  /\ parties' = [parties EXCEPT ![p].ready = IF u \in @ THEN @ \ {u} ELSE @ \cup {u}]
  /\ UNCHANGED <<userToParty, online, channel>>

(* Mutant: the socket stays in the channel. *)
ChannelsKept(u) == channel

ChannelsWithout(u) ==
  [channel EXCEPT ![u] = IF @ = userToParty[u] THEN NoParty ELSE @]

LeaveParty(u) ==
  /\ u \in online
  /\ userToParty[u] # NoParty
  /\ LeaveOwnParty(u)
  /\ channel' = ChannelsWithout(u)
  /\ UNCHANGED online

Next ==
  \E u \in Users :
    \/ Connect(u)
    \/ Disconnect(u)
    \/ ToggleReady(u)
    \/ LeaveParty(u)
    \/ \E target \in Users : SendInvite(u, target)
    \/ \E p \in PartyIds : CreateParty(u, p) \/ AcceptInvite(u, p) \/ DeclineInvite(u, p)

Spec == Init /\ [][Next]_vars

-----------------------------------------------------------------------------
(* Properties. *)

(* Leaders are users (never an undefined heir), members and invitations too. *)
TypeOK ==
  /\ parties \in [PartyIds -> [leader: Users \cup {NoUser}, joined: Seq(Users),
                               ready: SUBSET Users, invites: SUBSET Users]]
  /\ userToParty \in [Users -> PartyIds \cup {NoParty}]
  /\ online \subseteq Users
  /\ channel \in [Users -> PartyIds \cup {NoParty}]

(* The two maps agree: a user is a member of exactly the party that        *)
(* userToParty names, so nobody is in two parties, and no disconnect or    *)
(* leave forgets a member in a party that can then never be dissolved.     *)
MembershipAgrees ==
  /\ \A u \in Users, p \in PartyIds : u \in Members(parties[p]) <=> userToParty[u] = p
  /\ \A p \in PartyIds : IsInjective(parties[p].joined)
  /\ \A u \in Users : userToParty[u] # NoParty => u \in online

(* Whoever joined, left or lost the connection in whatever order: a party  *)
(* in the map is led by a member, and a dissolved one leaves no invitation *)
(* that could still be accepted.                                           *)
PartyLed ==
  \A p \in PartyIds :
    /\ Exists(p) => parties[p].leader \in Members(parties[p])
    /\ Exists(p) => parties[p].ready \subseteq Members(parties[p])
    /\ ~Exists(p) => parties[p] = NotInMap

(* An invitation is pending only for users outside the party: one who      *)
(* joined and left cannot come back on the old invitation.                 *)
InvitesAreForOthers ==
  \A p \in PartyIds : Members(parties[p]) \cap parties[p].invites = {}

(* Nobody overhears a party: a socket in its channel belongs to a member.  *)
OnlyMembersListen ==
  \A u \in Users : channel[u] # NoParty => u \in Members(parties[channel[u]])

(* The lead of a party changes hands only when the leader goes, and then   *)
(* it passes to the member who has been in the party longest.              *)
LeadInherited ==
  [][\A p \in PartyIds :
       parties[p].leader # parties'[p].leader /\ Exists(p) /\ Exists(p)' =>
         /\ parties[p].leader \notin Members(parties'[p])
         /\ \E i \in DOMAIN parties[p].joined :
              /\ parties[p].joined[i] = parties'[p].leader
              /\ parties'[p].leader \in Members(parties'[p])
              /\ \A k \in 1..(i - 1) : parties[p].joined[k] \notin Members(parties'[p])]_vars
=============================================================================
