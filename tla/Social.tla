-------------------------------- MODULE Social --------------------------------
(***************************************************************************)
(* Friend requests, friendships and blocks: the SocialService of the       *)
(* websocket service and the one of the api service, two processes over    *)
(* one UserRelationship table.                                             *)
(*                                                                         *)
(* A request reads a row, decides, and then writes it by its id.  Requests *)
(* run concurrently, so each is two or three actions, and `pending` holds  *)
(* what is decided but not written yet.  Ids are never reused: once a row  *)
(* is deleted, whoever read it holds an id that matches nothing.           *)
(***************************************************************************)
EXTENDS Naturals, FiniteSets

CONSTANTS
  Users,
  Requests,  (* requests in progress at a time                             *)
  NoRow      (* an id no row has any more, or none                         *)

(* A row is named by its unique columns: who wrote it and to whom. *)
Rows == {d \in Users \X Users : d[1] # d[2]}

ASSUME SocialAssumption == NoRow \notin Rows

VARIABLES
  status,    (* of every row of the table                                  *)
  agreed,    (* history: who asked for or accepted the row that is there   *)
  pending    (* per request, the write to come                             *)

vars == <<status, agreed, pending>>

Statuses == {"absent", "PENDING", "FRIENDS", "BLOCKED"}

(* `new` is the requesting user and the other one, `row` what was found    *)
(* and `seen` its status when it was read.                                 *)
Pending ==
  [write: {"none", "request", "befriend", "delete", "clear", "block"},
   new: Rows \cup {NoRow}, row: Rows \cup {NoRow}, seen: Statuses]

Idle == [write |-> "none", new |-> NoRow, row |-> NoRow, seen |-> "absent"]

(* The OR of findFirst: the rows between two users, which the unique index *)
(* does not keep from being two.                                           *)
Found(u, t) == {d \in {<<u, t>>, <<t, u>>} : status[d] # "absent"}

Decides(q, write, u, t, d) ==
  /\ pending[q] = Idle
  /\ pending' = [pending EXCEPT ![q] =
       [write |-> write, new |-> <<u, t>>, row |-> d,
        seen |-> IF d = NoRow THEN "absent" ELSE status[d]]]
  /\ UNCHANGED <<status, agreed>>

(* Mutant: the second write names the row by its users, not by its id. *)
OrphanedNot(d, p) == p

(* The ids of a deleted row that requests still hold. *)
Orphaned(d, p) == IF p.row = d THEN [p EXCEPT !.row = NoRow] ELSE p

(* One statement: the row, and what request q still has to do. *)
Delete(q, d, rest) ==
  /\ status' = [status EXCEPT ![d] = "absent"]
  /\ agreed' = [agreed EXCEPT ![d] = {}]
  /\ pending' = [r \in Requests |-> IF r = q THEN rest ELSE Orphaned(d, pending[r])]

Create(q, s) ==
  LET d == pending[q].new IN
  /\ status[d] = "absent"
  /\ status' = [status EXCEPT ![d] = s]
  /\ agreed' = [agreed EXCEPT ![d] = IF s = "PENDING" THEN {d[1]} ELSE {}]
  /\ pending' = [pending EXCEPT ![q] = Idle]

-----------------------------------------------------------------------------
Init ==
  /\ status = [d \in Rows |-> "absent"]
  /\ agreed = [d \in Rows |-> {}]
  /\ pending = [q \in Requests |-> Idle]

(* Mutant: the row is looked up in either direction. *)
AcceptableEither(u, t) == {d \in Found(u, t) : status[d] = "PENDING"}

(* A request that waits for u's answer. *)
Acceptable(u, t) == {d \in {<<t, u>>} : status[d] = "PENDING"}

(* sendFriendRequest of both services: a mutual request is accepted, any   *)
(* other row is an error.                                                  *)
SendRequest(q, u, t) ==
  \/ Found(u, t) = {} /\ Decides(q, "request", u, t, NoRow)
  \/ \E d \in Found(u, t) \cap Acceptable(u, t) : Decides(q, "befriend", u, t, d)

(* friend:accept looks the row up by its users, the api by its id; the     *)
(* conditions are the same.                                                *)
AcceptRequest(q, u, t) ==
  \E d \in Acceptable(u, t) : Decides(q, "befriend", u, t, d)

(* removeRelationship: only the blocker lifts a block. *)
RemoveRelationship(q, u, t) ==
  \E d \in Found(u, t) :
    /\ status[d] = "BLOCKED" => d[1] = u
    /\ Decides(q, "delete", u, t, d)

(* The api's removeFriend. *)
RemoveFriend(q, u, t) ==
  \E d \in Found(u, t) : status[d] = "FRIENDS" /\ Decides(q, "delete", u, t, d)

(* The api's declineFriendRequest, by id: any row u is a party of, whatever *)
(* its status.                                                             *)
DeclineRequest(q, u, t) ==
  \E d \in Found(u, t) : Decides(q, "delete", u, t, d)

(* blockUser deletes the row it finds, then creates its own. *)
BlockUser(q, u, t) ==
  \/ Found(u, t) = {} /\ Decides(q, "block", u, t, NoRow)
  \/ \E d \in Found(u, t) : Decides(q, "clear", u, t, d)

-----------------------------------------------------------------------------
(* The unique columns refuse a second row of one direction. *)
CreateRequest(q) == pending[q].write = "request" /\ Create(q, "PENDING")

(* update and delete by id throw when the row is gone. *)
Befriend(q) ==
  LET d == pending[q].row IN
  /\ pending[q].write = "befriend"
  /\ d # NoRow
  /\ status' = [status EXCEPT ![d] = "FRIENDS"]
  /\ agreed' = [agreed EXCEPT ![d] = @ \cup {pending[q].new[1]}]
  /\ pending' = [pending EXCEPT ![q] = Idle]

DeleteRow(q) ==
  /\ pending[q].write = "delete"
  /\ pending[q].row # NoRow
  /\ Delete(q, pending[q].row, Idle)

ClearForBlock(q) ==
  /\ pending[q].write = "clear"
  /\ pending[q].row # NoRow
  /\ Delete(q, pending[q].row,
       [pending[q] EXCEPT !.write = "block", !.row = NoRow, !.seen = "absent"])

CreateBlock(q) == pending[q].write = "block" /\ Create(q, "BLOCKED")

(* A statement throws, or the process dies before it. *)
Ends(q) ==
  /\ pending[q] # Idle
  /\ pending' = [pending EXCEPT ![q] = Idle]
  /\ UNCHANGED <<status, agreed>>

Next ==
  \E q \in Requests :
    \/ \E d \in Rows :
         \/ SendRequest(q, d[1], d[2])
         \/ AcceptRequest(q, d[1], d[2])
         \/ RemoveRelationship(q, d[1], d[2])
         \/ RemoveFriend(q, d[1], d[2])
         \/ DeclineRequest(q, d[1], d[2])
         \/ BlockUser(q, d[1], d[2])
    \/ CreateRequest(q)
    \/ Befriend(q)
    \/ DeleteRow(q)
    \/ ClearForBlock(q)
    \/ CreateBlock(q)
    \/ Ends(q)

Spec == Init /\ [][Next]_vars

-----------------------------------------------------------------------------
(* Type invariant, with what a request may hold: the id of a row that is   *)
(* there, with the status it saw or FRIENDS since.                         *)
TypeOK ==
  /\ status \in [Rows -> Statuses]
  /\ agreed \in [Rows -> SUBSET Users]
  /\ pending \in [Requests -> Pending]
  /\ \A q \in Requests : pending[q].row # NoRow =>
       \/ pending[q].seen = status[pending[q].row]
       \/ pending[q].seen = "PENDING" /\ status[pending[q].row] = "FRIENDS"

(* Nobody becomes a friend without having asked or accepted, for the row   *)
(* that is there now: not by an answer to a request that was withdrawn and *)
(* made again, and not by the sender's own requests (sendFriendRequest,    *)
(* acceptFriendRequest).                                                   *)
FriendsByConsent ==
  \A d \in Rows : status[d] = "FRIENDS" => agreed[d] = {d[1], d[2]}

(* A block is safe from whoever did not see it: an accept, a decline, a    *)
(* removal or another block that read an earlier row of the same users     *)
(* fails, since it holds that row's id.  So a block never becomes a        *)
(* friendship, and only a request that read the block lifts it.            *)
BlocksStand ==
  [][\A d \in Rows : status[d] = "BLOCKED" /\ status'[d] # "BLOCKED" =>
       /\ status'[d] = "absent"
       /\ \E q \in Requests :
            /\ pending'[q] # pending[q]
            /\ pending[q].row = d
            /\ pending[q].seen = "BLOCKED"]_vars
=============================================================================
