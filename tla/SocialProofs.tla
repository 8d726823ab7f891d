----------------------------- MODULE SocialProofs -----------------------------
(***************************************************************************)
(* For any users and any number of requests: no friendship without the     *)
(* consent of both, and no block undone by who did not see it.             *)
(***************************************************************************)
EXTENDS Social, TLAPS

(* A request in progress knows whom it is about, and read what it holds. *)
Named ==
  \A q \in Requests :
    /\ pending[q] # Idle => pending[q].new \in Rows
    /\ pending[q].row # NoRow => pending[q].seen # "absent"

(* Who is about to accept is the one who was asked. *)
Answers ==
  \A q \in Requests :
    pending[q].write = "befriend" =>
      /\ pending[q].seen = "PENDING"
      /\ pending[q].row # NoRow =>
           pending[q].row = <<pending[q].new[2], pending[q].new[1]>>

Asked == \A d \in Rows : status[d] = "PENDING" => agreed[d] = {d[1]}

IInv == TypeOK /\ Named /\ Answers /\ Asked /\ FriendsByConsent

LEMMA RowIsPair ==
  ASSUME NEW d \in Rows
  PROVE  d[1] \in Users /\ d[2] \in Users /\ d = <<d[1], d[2]>> /\ d # NoRow
  BY SocialAssumption DEF Rows

LEMMA PairIsRow ==
  ASSUME NEW d \in Rows
  PROVE  <<d[1], d[2]>> \in Rows /\ <<d[2], d[1]>> \in Rows
  BY DEF Rows

LEMMA InitIInv == Init => IInv
  BY SocialAssumption
  DEF Init, IInv, TypeOK, Named, Answers, Asked, FriendsByConsent, Idle, Pending, Statuses

-----------------------------------------------------------------------------
(* One lemma per kind of step. *)

(* What a request may decide. *)
Sound(p) ==
  /\ p \in Pending
  /\ p # Idle => p.new \in Rows
  /\ p.row # NoRow => p.seen = status[p.row] /\ p.seen # "absent"
  /\ p.write = "befriend" =>
       /\ p.seen = "PENDING"
       /\ p.row # NoRow => p.row = <<p.new[2], p.new[1]>>

LEMMA DecisionKeeps ==
  ASSUME IInv, NEW q \in Requests, NEW p, Sound(p),
         pending' = [pending EXCEPT ![q] = p], UNCHANGED <<status, agreed>>
  PROVE  IInv'
  BY DEF IInv, TypeOK, Named, Answers, Asked, FriendsByConsent, Sound

LEMMA DecidesIsSound ==
  ASSUME IInv, NEW q \in Requests, NEW e \in Rows, NEW d \in Rows \cup {NoRow},
         NEW write \in {"request", "befriend", "delete", "clear", "block"},
         d # NoRow => status[d] # "absent",
         write = "befriend" => d = <<e[2], e[1]>> /\ d # NoRow /\ status[d] = "PENDING",
         Decides(q, write, e[1], e[2], d)
  PROVE  IInv'
<1> DEFINE p == [write |-> write, new |-> <<e[1], e[2]>>, row |-> d,
                 seen |-> IF d = NoRow THEN "absent" ELSE status[d]]
<1>1. <<e[1], e[2]>> = e /\ e \in Rows /\ TypeOK
  BY RowIsPair DEF IInv
<1>2. p.seen \in Statuses
  BY <1>1 DEF TypeOK, Statuses
<1>3. Sound(p)
  BY <1>1, <1>2 DEF Sound, Pending
<1>4. pending' = [pending EXCEPT ![q] = p] /\ UNCHANGED <<status, agreed>>
  BY DEF Decides
<1> HIDE DEF p
<1>5. QED BY <1>3, <1>4, DecisionKeeps

LEMMA EndKeeps ==
  ASSUME IInv, NEW q \in Requests, Ends(q)
  PROVE  IInv'
<1>1. Sound(Idle)
  BY DEF Sound, Idle, Pending, Statuses
<1>2. QED BY <1>1, DecisionKeeps DEF Ends

LEMMA CreateKeeps ==
  ASSUME IInv, NEW q \in Requests, pending[q] # Idle,
         NEW s \in {"PENDING", "BLOCKED"}, Create(q, s)
  PROVE  IInv'
<1> DEFINE d == pending[q].new
<1>1. d \in Rows /\ d[1] \in Users /\ TypeOK
  BY RowIsPair DEF IInv, Named
<1>2. /\ status[d] = "absent"
      /\ status' = [status EXCEPT ![d] = s]
      /\ agreed' = [agreed EXCEPT ![d] = IF s = "PENDING" THEN {d[1]} ELSE {}]
      /\ pending' = [pending EXCEPT ![q] = Idle]
  BY DEF Create
<1> HIDE DEF d
<1>3. status' \in [Rows -> Statuses] /\ agreed' \in [Rows -> SUBSET Users]
  BY <1>1, <1>2 DEF TypeOK, Statuses
<1>4. pending' \in [Requests -> Pending]
  BY <1>1, <1>2 DEF TypeOK, Idle, Pending, Statuses
<1>5. ASSUME NEW r \in Requests, pending'[r].row # NoRow
      PROVE  \/ pending'[r].seen = status'[pending'[r].row]
             \/ pending'[r].seen = "PENDING" /\ status'[pending'[r].row] = "FRIENDS"
  <2>1. r # q /\ pending'[r] = pending[r] /\ pending[r].row \in Rows
    BY <1>1, <1>2, <1>5 DEF TypeOK, Idle, Pending
  <2>2. CASE pending[r].row # d
    BY <1>1, <1>2, <1>5, <2>1, <2>2 DEF TypeOK
  <2>3. CASE pending[r].row = d
    BY <1>1, <1>2, <2>1, <2>3, SocialAssumption DEF IInv, Named, TypeOK
  <2>4. QED BY <2>2, <2>3
<1>6. ASSUME NEW r \in Requests
      PROVE  pending'[r] = IF r = q THEN Idle ELSE pending[r]
  BY <1>1, <1>2 DEF TypeOK
<1>7. Named'
  BY <1>1, <1>6 DEF IInv, Named, Idle
<1>8. Answers'
  BY <1>6 DEF IInv, Answers, Idle
<1>9. Asked' /\ FriendsByConsent'
  BY <1>1, <1>2 DEF IInv, TypeOK, Asked, FriendsByConsent
<1>10. QED BY <1>3, <1>4, <1>5, <1>7, <1>8, <1>9 DEF IInv, TypeOK

LEMMA BefriendKeeps ==
  ASSUME IInv, NEW q \in Requests, Befriend(q)
  PROVE  IInv'
<1> DEFINE d == pending[q].row
           u == pending[q].new[1]
<1>1. /\ d \in Rows /\ TypeOK
      /\ pending[q].seen = "PENDING" /\ status[d] \in {"PENDING", "FRIENDS"}
  BY DEF IInv, TypeOK, Answers, Befriend, Pending
<1>2. d[1] \in Users /\ d[2] \in Users /\ u = d[2]
  BY <1>1, RowIsPair DEF IInv, Answers, Befriend
<1>3. /\ status' = [status EXCEPT ![d] = "FRIENDS"]
      /\ agreed' = [agreed EXCEPT ![d] = @ \cup {u}]
      /\ pending' = [pending EXCEPT ![q] = Idle]
  BY DEF Befriend
<1> HIDE DEF d, u
<1>4. status' \in [Rows -> Statuses] /\ agreed' \in [Rows -> SUBSET Users]
  BY <1>1, <1>2, <1>3 DEF TypeOK, Statuses
<1>5. pending' \in [Requests -> Pending]
  BY <1>1, <1>3 DEF TypeOK, Idle, Pending, Statuses
<1>6. ASSUME NEW r \in Requests, pending'[r].row # NoRow
      PROVE  \/ pending'[r].seen = status'[pending'[r].row]
             \/ pending'[r].seen = "PENDING" /\ status'[pending'[r].row] = "FRIENDS"
  <2>1. r # q /\ pending'[r] = pending[r] /\ pending[r].row \in Rows
    BY <1>1, <1>3, <1>6 DEF TypeOK, Idle, Pending
  <2>2. CASE pending[r].row # d
    BY <1>1, <1>3, <1>6, <2>1, <2>2 DEF TypeOK
  <2>3. CASE pending[r].row = d
    BY <1>1, <1>3, <1>6, <2>1, <2>3 DEF TypeOK
  <2>4. QED BY <2>2, <2>3
<1>7. Named' /\ Answers'
  BY <1>1, <1>3 DEF IInv, TypeOK, Named, Answers, Idle
<1>8. agreed'[d] = {d[1], d[2]}
  BY <1>1, <1>2, <1>3 DEF IInv, TypeOK, Asked, FriendsByConsent
<1>9. Asked' /\ FriendsByConsent'
  BY <1>1, <1>3, <1>8 DEF IInv, TypeOK, Asked, FriendsByConsent
<1>10. QED BY <1>4, <1>5, <1>6, <1>7, <1>9 DEF IInv, TypeOK

(* A delete: the row is gone, and so are the ids that others hold. *)
LEMMA DeleteKeeps ==
  ASSUME IInv, NEW q \in Requests, NEW d \in Rows, NEW rest \in Pending,
         rest.row = NoRow, rest # Idle => rest.new \in Rows, rest.write # "befriend",
         Delete(q, d, rest)
  PROVE  IInv'
<1>1. TypeOK /\ d # NoRow
  BY RowIsPair DEF IInv
<1>2. /\ status' = [status EXCEPT ![d] = "absent"]
      /\ agreed' = [agreed EXCEPT ![d] = {}]
      /\ pending' = [r \in Requests |-> IF r = q THEN rest ELSE Orphaned(d, pending[r])]
  BY DEF Delete
<1>3. ASSUME NEW r \in Requests
      PROVE  /\ pending'[r] \in Pending
             /\ r = q => pending'[r] = rest
             /\ r # q => /\ pending'[r].write = pending[r].write
                         /\ pending'[r].new = pending[r].new
                         /\ pending'[r].seen = pending[r].seen
                         /\ pending'[r].row = IF pending[r].row = d THEN NoRow ELSE pending[r].row
  <2>1. pending[r] \in Pending
    BY <1>1 DEF TypeOK
  <2>2. Orphaned(d, pending[r]) \in Pending
    BY <2>1 DEF Orphaned, Pending
  <2>3. QED BY <1>2, <2>1, <2>2 DEF Orphaned, Pending
<1>4. status' \in [Rows -> Statuses] /\ agreed' \in [Rows -> SUBSET Users]
  BY <1>1, <1>2 DEF TypeOK, Statuses
<1>5. pending' \in [Requests -> Pending]
  BY <1>2, <1>3
<1>6. ASSUME NEW r \in Requests, pending'[r].row # NoRow
      PROVE  \/ pending'[r].seen = status'[pending'[r].row]
             \/ pending'[r].seen = "PENDING" /\ status'[pending'[r].row] = "FRIENDS"
  <2>1. /\ r # q /\ pending[r].row # d /\ pending[r].row # NoRow
        /\ pending'[r].row = pending[r].row /\ pending'[r].seen = pending[r].seen
    BY <1>3, <1>6
  <2>2. pending[r].row \in Rows
    BY <1>1, <2>1 DEF TypeOK, Pending
  <2>3. status'[pending[r].row] = status[pending[r].row]
    BY <1>1, <1>2, <2>1, <2>2 DEF TypeOK
  <2>4. QED BY <1>1, <2>1, <2>3 DEF TypeOK
<1>7. Named'
  <2> SUFFICES ASSUME NEW r \in Requests
               PROVE  /\ pending'[r] # Idle => pending'[r].new \in Rows
                      /\ pending'[r].row # NoRow => pending'[r].seen # "absent"
    BY DEF Named
  <2>1. CASE r = q
    BY <1>3, <2>1
  <2>2. CASE r # q
    <3>1. pending'[r] # Idle => pending[r] # Idle
      BY <1>1, <1>2, <2>2 DEF Orphaned, Idle
    <3>2. QED BY <1>3, <2>2, <3>1 DEF IInv, Named
  <2>3. QED BY <2>1, <2>2
<1>8. Answers'
  BY <1>3 DEF IInv, Answers
<1>9. Asked' /\ FriendsByConsent'
  BY <1>1, <1>2 DEF IInv, TypeOK, Asked, FriendsByConsent
<1>10. QED BY <1>4, <1>5, <1>6, <1>7, <1>8, <1>9 DEF IInv, TypeOK

-----------------------------------------------------------------------------
LEMMA NextKeepsIInv ==
  ASSUME IInv, [Next]_vars
  PROVE  IInv'
<1> USE DEF Rows
<1>1. CASE UNCHANGED vars
  BY <1>1 DEF IInv, TypeOK, Named, Answers, Asked, FriendsByConsent, vars
<1>2. CASE Next
  <2> SUFFICES ASSUME NEW q \in Requests,
                      \/ \E d \in Rows :
                           \/ SendRequest(q, d[1], d[2])
                           \/ AcceptRequest(q, d[1], d[2])
                           \/ RemoveRelationship(q, d[1], d[2])
                           \/ RemoveFriend(q, d[1], d[2])
                           \/ DeclineRequest(q, d[1], d[2])
                           \/ BlockUser(q, d[1], d[2])
                      \/ CreateRequest(q)
                      \/ Befriend(q)
                      \/ DeleteRow(q)
                      \/ ClearForBlock(q)
                      \/ CreateBlock(q)
                      \/ Ends(q)
               PROVE  IInv'
    BY <1>2 DEF Next
  <2>1. TypeOK /\ pending[q] \in Pending
    BY DEF IInv, TypeOK
  <2>2. ASSUME NEW e \in Rows,
               \/ SendRequest(q, e[1], e[2])
               \/ AcceptRequest(q, e[1], e[2])
               \/ RemoveRelationship(q, e[1], e[2])
               \/ RemoveFriend(q, e[1], e[2])
               \/ DeclineRequest(q, e[1], e[2])
               \/ BlockUser(q, e[1], e[2])
        PROVE  IInv'
    <3>1. Found(e[1], e[2]) \subseteq {d \in Rows : status[d] # "absent"}
      BY PairIsRow DEF Found
    <3>2. /\ Acceptable(e[1], e[2]) \subseteq {<<e[2], e[1]>>} /\ <<e[2], e[1]>> \in Rows
          /\ <<e[2], e[1]>> # NoRow
          /\ \A d \in Acceptable(e[1], e[2]) : status[d] = "PENDING"
      BY PairIsRow, SocialAssumption DEF Acceptable
    <3>3. CASE SendRequest(q, e[1], e[2])
      <4>1. CASE Decides(q, "request", e[1], e[2], NoRow)
        BY <4>1, DecidesIsSound
      <4>2. CASE \E d \in Found(e[1], e[2]) \cap Acceptable(e[1], e[2]) :
                   Decides(q, "befriend", e[1], e[2], d)
        BY <3>2, <4>2, DecidesIsSound
      <4>3. QED BY <3>3, <4>1, <4>2 DEF SendRequest
    <3>4. CASE AcceptRequest(q, e[1], e[2])
      BY <3>2, <3>4, DecidesIsSound DEF AcceptRequest
    <3>5. CASE \/ RemoveRelationship(q, e[1], e[2])
               \/ RemoveFriend(q, e[1], e[2])
               \/ DeclineRequest(q, e[1], e[2])
      <4>1. PICK d \in Found(e[1], e[2]) : Decides(q, "delete", e[1], e[2], d)
        BY <3>5 DEF RemoveRelationship, RemoveFriend, DeclineRequest
      <4>2. QED BY <3>1, <4>1, DecidesIsSound
    <3>6. CASE BlockUser(q, e[1], e[2])
      <4>1. CASE Decides(q, "block", e[1], e[2], NoRow)
        BY <4>1, DecidesIsSound
      <4>2. CASE \E d \in Found(e[1], e[2]) : Decides(q, "clear", e[1], e[2], d)
        BY <3>1, <4>2, DecidesIsSound
      <4>3. QED BY <3>6, <4>1, <4>2 DEF BlockUser
    <3>7. QED BY <2>2, <3>3, <3>4, <3>5, <3>6
  <2>3. CASE CreateRequest(q)
    BY <2>3, CreateKeeps DEF CreateRequest, Idle
  <2>4. CASE CreateBlock(q)
    BY <2>4, CreateKeeps DEF CreateBlock, Idle
  <2>5. CASE Befriend(q)
    BY <2>5, BefriendKeeps
  <2>6. CASE DeleteRow(q)
    <3>1. pending[q].row \in Rows /\ Delete(q, pending[q].row, Idle)
      BY <2>1, <2>6 DEF DeleteRow, Pending
    <3>2. Idle \in Pending /\ Idle.row = NoRow /\ Idle.write # "befriend"
      BY DEF Idle, Pending, Statuses
    <3>3. QED BY <3>1, <3>2, DeleteKeeps
  <2>7. CASE ClearForBlock(q)
    <3> DEFINE rest == [pending[q] EXCEPT !.write = "block", !.row = NoRow, !.seen = "absent"]
    <3>1. pending[q].row \in Rows /\ Delete(q, pending[q].row, rest)
      BY <2>1, <2>7 DEF ClearForBlock, Pending
    <3>2. pending[q].new \in Rows
      BY <2>7 DEF IInv, Named, ClearForBlock, Idle
    <3>3. /\ rest \in Pending /\ rest.row = NoRow /\ rest.write # "befriend"
          /\ rest.new \in Rows
      BY <2>1, <3>2 DEF Pending, Statuses
    <3> HIDE DEF rest
    <3>4. QED BY <3>1, <3>3, DeleteKeeps
  <2>8. CASE Ends(q)
    BY <2>8, EndKeeps
  <2>9. QED BY <2>2, <2>3, <2>4, <2>5, <2>6, <2>7, <2>8
<1>3. QED BY <1>1, <1>2

(* In every reachable state the inductive invariant of requests holds: a   *)
(* request is about two users, and who is about to accept was asked.       *)
THEOREM SocialInvariance == Spec => []IInv
<1>1. Init => IInv
  BY InitIInv
<1>2. IInv /\ [Next]_vars => IInv'
  BY NextKeepsIInv
<1>3. QED BY <1>1, <1>2, PTL DEF Spec

(* Rows and requests have their types, and the id of a row that is there   *)
(* comes with the status it was read with, or FRIENDS since.               *)
THEOREM SocialTyped == Spec => []TypeOK
  BY SocialInvariance, PTL DEF IInv

(* For any number of concurrent requests, a friendship has the consent of  *)
(* both users (sendFriendRequest, acceptFriendRequest).                    *)
THEOREM FriendshipsByConsent == Spec => []FriendsByConsent
  BY SocialInvariance, PTL DEF IInv

-----------------------------------------------------------------------------
(* Of all writes only a delete touches a block, and a delete names the row *)
(* as its request read it.                                                 *)
LEMMA OnlyDeletesTouchBlocks ==
  ASSUME IInv, [Next]_vars, NEW d \in Rows, status[d] = "BLOCKED", status'[d] # "BLOCKED"
  PROVE  \E q \in Requests : DeleteRow(q) \/ ClearForBlock(q)
<1>1. TypeOK
  BY DEF IInv
<1>2. Next
  BY DEF vars
<1>3. PICK q \in Requests :
        \/ status' = status
        \/ CreateRequest(q) \/ CreateBlock(q)
        \/ Befriend(q)
        \/ DeleteRow(q) \/ ClearForBlock(q)
  BY <1>2 DEF Next, SendRequest, AcceptRequest, RemoveRelationship, RemoveFriend,
       DeclineRequest, BlockUser, Decides, Ends
<1>4. ASSUME CreateRequest(q) \/ CreateBlock(q)
      PROVE  FALSE
  BY <1>1, <1>4 DEF TypeOK, CreateRequest, CreateBlock, Create
<1>5. ASSUME Befriend(q)
      PROVE  FALSE
  <2>1. pending[q].row # NoRow /\ pending[q].seen = "PENDING"
    BY <1>5 DEF IInv, Answers, Befriend
  <2>2. status[pending[q].row] # "BLOCKED"
    BY <1>1, <2>1 DEF TypeOK
  <2>3. QED BY <1>1, <1>5, <2>2 DEF TypeOK, Befriend
<1>6. QED BY <1>3, <1>4, <1>5

(* The request that ends a block read it as one. *)
LEMMA ABlockIsEndedKnowingly ==
  ASSUME IInv, [Next]_vars, NEW d \in Rows, status[d] = "BLOCKED", status'[d] # "BLOCKED"
  PROVE  /\ status'[d] = "absent"
         /\ \E q \in Requests :
              /\ pending'[q] # pending[q]
              /\ pending[q].row = d
              /\ pending[q].seen = "BLOCKED"
<1>1. PICK q \in Requests : DeleteRow(q) \/ ClearForBlock(q)
  BY OnlyDeletesTouchBlocks
<1>2. /\ TypeOK
      /\ pending[q].row # NoRow
      /\ status' = [status EXCEPT ![pending[q].row] = "absent"]
  BY <1>1 DEF IInv, DeleteRow, ClearForBlock, Delete
<1>3. pending[q].row = d /\ status'[d] = "absent"
  BY <1>2 DEF TypeOK
<1>4. pending[q].seen = "BLOCKED"
  BY <1>2, <1>3 DEF TypeOK
<1>5. pending'[q] # pending[q]
  <2>1. CASE DeleteRow(q)
    BY <2>1 DEF DeleteRow, Delete, Idle
  <2>2. CASE ClearForBlock(q)
    <3>1. pending[q] \in Pending
      BY <1>2 DEF TypeOK
    <3>2. pending'[q] = [pending[q] EXCEPT !.write = "block", !.row = NoRow, !.seen = "absent"]
      BY <2>2 DEF ClearForBlock, Delete
    <3>3. pending'[q].write = "block" /\ pending[q].write = "clear"
      BY <2>2, <3>1, <3>2 DEF ClearForBlock, Pending
    <3>4. QED BY <3>3
  <2>3. QED BY <1>1, <2>1, <2>2
<1>6. QED BY <1>3, <1>4, <1>5

(* For any number of concurrent requests, a block ends only by a delete    *)
(* that read it as a block: nobody's older view of the two users undoes it *)
(* (removeRelationship, blockUser, declineFriendRequest).                  *)
THEOREM BlocksStandFirm == Spec => BlocksStand
<1>1. IInv /\ [Next]_vars =>
        [\A d \in Rows : status[d] = "BLOCKED" /\ status'[d] # "BLOCKED" =>
           /\ status'[d] = "absent"
           /\ \E q \in Requests :
                /\ pending'[q] # pending[q]
                /\ pending[q].row = d
                /\ pending[q].seen = "BLOCKED"]_vars
  BY ABlockIsEndedKnowingly
<1>2. QED BY <1>1, SocialInvariance, PTL DEF Spec, BlocksStand
=============================================================================
