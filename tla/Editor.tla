-------------------------------- MODULE Editor --------------------------------
(***************************************************************************)
(* The shared document of a room and its replay: EditorManager with the    *)
(* operational transformation of EditorEngine, the listener that writes    *)
(* applied operations to the timeline of the room's match, and             *)
(* ReplayService, which builds the document again from them.               *)
(*                                                                         *)
(* A character is a number that is used once, so that a property can say   *)
(* which characters an operation meant.                                    *)
(***************************************************************************)
EXTENDS Naturals, Sequences, FiniteSets, SequencesExt

CONSTANTS
  Users,        (* numbers: transformInsertInsert compares user ids        *)
  Matches,
  NoMatch,
  MaxText,      (* bound: the characters of one operation                  *)
  MaxVersion    (* bound: the operations applied                           *)

ASSUME EditorAssumption ==
  Users \subseteq Nat /\ NoMatch \notin Matches /\ MaxText \in Nat /\ MaxVersion \in Nat

VARIABLES
  content,      (* EditorStateDTO.content; its version is Len(log)         *)
  log,          (* EditorManager.operationLogs                             *)
  current,      (* RoomStateDTO.currentMatchId                             *)
  begun,        (* the matches the room has had                            *)
  started,      (* those that left the countdown                           *)
  exists,       (* those with a row in the database                        *)
  pending,      (* logMatchEvent calls in progress: match and version      *)
  stored        (* the versions in the timeline of a match                 *)

vars == <<content, log, current, begun, started, exists, pending, stored>>

Version == Len(log)

-----------------------------------------------------------------------------
(* EditorEngine *)

Fits(doc, op) ==
  IF op.type = "insert" THEN op.index <= Len(doc)
                        ELSE op.index + Len(op.text) <= Len(doc)

(* apply, which throws unless Fits. *)
Apply(doc, op) ==
  IF op.type = "insert"
    THEN SubSeq(doc, 1, op.index) \o op.text \o SubSeq(doc, op.index + 1, Len(doc))
    ELSE SubSeq(doc, 1, op.index) \o SubSeq(doc, op.index + Len(op.text) + 1, Len(doc))

(* Mutant: of two inserts at one place the later goes last. *)
InsertInsertLast(op, applied) ==
  IF applied.index <= op.index THEN op.index + Len(applied.text) ELSE op.index

InsertInsert(op, applied) ==
  IF applied.index < op.index \/ (applied.index = op.index /\ applied.user < op.user)
    THEN op.index + Len(applied.text) ELSE op.index

(* Mutant: off by one at the end of the deleted text. *)
PastDeleteBeyond(op, applied) ==
  IF applied.index + Len(applied.text) < op.index THEN op.index - Len(applied.text)
  ELSE IF applied.index + 1 < op.index THEN applied.index
  ELSE op.index

(* transformInsertDelete and transformDeleteDelete *)
PastDelete(op, applied) ==
  IF applied.index + Len(applied.text) <= op.index THEN op.index - Len(applied.text)
  ELSE IF applied.index < op.index THEN applied.index
  ELSE op.index

(* Mutant: a delete does not move when text is inserted right before it. *)
DeleteInsertAt(op, applied) ==
  IF applied.index < op.index THEN op.index + Len(applied.text) ELSE op.index

DeleteInsert(op, applied) ==
  IF applied.index <= op.index THEN op.index + Len(applied.text) ELSE op.index

Transform(op, applied) ==
  [op EXCEPT !.index =
     IF applied.type = "delete" THEN PastDelete(op, applied)
     ELSE IF op.type = "insert" THEN InsertInsert(op, applied)
     ELSE DeleteInsert(op, applied)]

(* An operation past the log after its base version. *)
Transformed(op) ==
  LET past[n \in op.base..Version] ==
        IF n = op.base THEN op ELSE Transform(past[n - 1], log[n])
  IN past[Version]

-----------------------------------------------------------------------------
(* The document of a version, and what clients can send.                   *)

Document(ops, v) ==
  LET doc[n \in 0..v] == IF n = 0 THEN <<>> ELSE Apply(doc[n - 1], ops[n])
  IN doc[v]

DocAt(v) == Document(log, v)

(* Assumed of clients: they edit the document of a version that exists, at *)
(* an index inside it, and a delete names the text that stands there.  The *)
(* handler itself refuses only a base in the future.                       *)
Inserts(u, base) ==
  {[user |-> u, base |-> base, type |-> "insert", sent |-> i, index |-> i,
    text |-> [k \in 1..n |-> MaxText * Version + k]] :
     i \in 0..Len(DocAt(base)), n \in 1..MaxText}

Deletes(u, base) ==
  LET doc == DocAt(base) IN
  {[user |-> u, base |-> base, type |-> "delete", sent |-> r[1], index |-> r[1],
    text |-> SubSeq(doc, r[1] + 1, r[2])] :
     r \in {s \in (0..Len(doc)) \X (0..Len(doc)) : s[1] < s[2] /\ s[2] - s[1] <= MaxText}}

-----------------------------------------------------------------------------
Init ==
  /\ content = <<>>
  /\ log = <<>>
  /\ current = NoMatch
  /\ begun = {} /\ started = {} /\ exists = {}
  /\ pending = {}
  /\ stored = [m \in Matches |-> {}]

(* editor:change and the listener of EDITOR_OPERATION_APPLIED up to its    *)
(* await.  An operation that does not fit is refused.                      *)
Edit(op) ==
  LET moved == Transformed(op) IN
  /\ Version < MaxVersion
  /\ Fits(content, moved)
  /\ content' = Apply(content, moved)
  /\ log' = Append(log, moved)
  /\ pending' = IF current = NoMatch THEN pending
                ELSE pending \cup {[match |-> current, version |-> Version + 1]}
  /\ UNCHANGED <<current, begun, started, exists, stored>>

(* logMatchEvent: the row of the match must be there; a failure is logged  *)
(* and forgotten.                                                          *)
LogEdit(p) ==
  /\ p \in pending
  /\ pending' = pending \ {p}
  /\ \/ p.match \in exists /\ stored' = [stored EXCEPT ![p.match] = @ \cup {p.version}]
     \/ UNCHANGED stored
  /\ UNCHANGED <<content, log, current, begun, started, exists>>

(* The room's matches: a match is current from its countdown to its end,   *)
(* and its row is created when the countdown is over.                      *)
BeginMatch(m) ==
  /\ current = NoMatch /\ m \notin begun
  /\ current' = m
  /\ begun' = begun \cup {m}
  /\ UNCHANGED <<content, log, started, exists, pending, stored>>

StartMatch(m) ==
  /\ current = m /\ m \notin started
  /\ started' = started \cup {m}
  /\ UNCHANGED <<content, log, current, begun, exists, pending, stored>>

(* Mutant: the row is created with the countdown. *)
CreateRowAtBegin(m) ==
  /\ m \in begun \ exists
  /\ exists' = exists \cup {m}
  /\ UNCHANGED <<content, log, current, begun, started, pending, stored>>

CreateRow(m) ==
  /\ m \in started \ exists
  /\ exists' = exists \cup {m}
  /\ UNCHANGED <<content, log, current, begun, started, pending, stored>>

EndMatch ==
  /\ current # NoMatch
  /\ current' = NoMatch
  /\ UNCHANGED <<content, log, begun, started, exists, pending, stored>>

Next ==
  \/ \E u \in Users, base \in 0..Version :
       \E op \in Inserts(u, base) \cup Deletes(u, base) : Edit(op)
  \/ \E p \in pending : LogEdit(p)
  \/ \E m \in Matches : BeginMatch(m) \/ StartMatch(m) \/ CreateRow(m)
  \/ EndMatch

Spec == Init /\ [][Next]_vars

-----------------------------------------------------------------------------
(* ReplayService.getPlaybackStateAt *)

(* Mutant: the event at the offset is left out. *)
FramesBefore(m, v) == {n \in stored[m] : n < v}

(* Events are stamped in the order of their versions, by which the         *)
(* operations are sorted.                                                  *)
Frames(m, v) == {n \in stored[m] : n <= v}

(* The document, or that an operation threw. *)
Replayed(m, v) ==
  LET shown[n \in 0..v] ==
        IF n = 0 THEN [thrown |-> FALSE, doc |-> <<>>]
        ELSE IF n \notin Frames(m, v) THEN shown[n - 1]
        ELSE IF shown[n - 1].thrown \/ ~Fits(shown[n - 1].doc, log[n])
          THEN [thrown |-> TRUE, doc |-> <<>>]
          ELSE [thrown |-> FALSE, doc |-> Apply(shown[n - 1].doc, log[n])]
  IN shown[v]

-----------------------------------------------------------------------------
(* Properties. *)

(* Type invariant, with the two views of the document: every operation in  *)
(* the log fits the document before it, and together they give the content. *)
TypeOK ==
  /\ IsInjective(content)
  /\ \A i \in DOMAIN log :
       log[i].base < i /\ log[i].text # <<>> /\ Fits(DocAt(i - 1), log[i])
  /\ content = DocAt(Version)
  /\ started \subseteq begun /\ exists \subseteq started
  /\ current \in begun \cup {NoMatch}
  /\ \A p \in pending : p.match \in begun /\ p.version \in DOMAIN log
  /\ \A m \in Matches : stored[m] \subseteq DOMAIN log

Before(doc, i, c) == \E k \in 1..i : doc[k] = c

(* Inserted text comes after every character that was left of it in the    *)
(* document its author saw, and before every one that was right of it,     *)
(* whatever was applied meanwhile.                                         *)
InsertsInPlace ==
  \A i \in DOMAIN log :
    LET op == log[i]
        saw == DocAt(op.base)
        doc == DocAt(i - 1)
    IN op.type = "insert" =>
         \A c \in ToSet(saw) \cap ToSet(doc) :
           Before(saw, op.sent, c) <=> Before(doc, op.index, c)

Contiguous(doc, text) == \E i \in 0..(Len(doc) - Len(text)) : SubSeq(doc, i + 1, i + Len(text)) = text

(* A delete whose text is still there in one piece removes that text and   *)
(* nothing else, and leaves the rest in its order.  (Text that was deleted *)
(* or split meanwhile is another matter: the length of a delete is never   *)
(* adjusted.)                                                              *)
DeletesWhatItMeant ==
  \A i \in DOMAIN log :
    LET op == log[i]
        doc == DocAt(i - 1)
        rest == DocAt(i)
    IN op.type = "delete" /\ Contiguous(doc, op.text) =>
         /\ ToSet(rest) = ToSet(doc) \ ToSet(op.text)
         /\ \A j, k \in DOMAIN rest :
              j < k => \E a, b \in DOMAIN doc : a < b /\ doc[a] = rest[j] /\ doc[b] = rest[k]

(* Two operations of different users on the same version give the same     *)
(* document in either order, unless one deletes what the other deletes or  *)
(* the place where it inserts.                                             *)
Sent(op) == [op EXCEPT !.index = op.sent]

Apart(a, b) ==
  /\ a.type = "delete" => \/ b.sent <= a.sent /\ b.type = "insert"
                          \/ b.sent >= a.sent + Len(a.text)
                          \/ b.sent + Len(b.text) <= a.sent

OrderIrrelevant ==
  \A i \in DOMAIN log :
    i > 1 /\ log[i].base = i - 2 /\ log[i - 1].base = i - 2
      /\ log[i].user # log[i - 1].user =>
        LET a == Sent(log[i - 1])
            b == Sent(log[i])
            other == Apply(DocAt(i - 2), b)
        IN Apart(a, b) /\ Apart(b, a) => Apply(other, Transform(a, b)) = DocAt(i)

(* A replay that misses no operation from the first on shows the document  *)
(* as the players saw it at that version.                                  *)
CompleteReplayIsExact ==
  \A m \in Matches, v \in DOMAIN log :
    1..v \subseteq stored[m] => Replayed(m, v) = [thrown |-> FALSE, doc |-> DocAt(v)]

-----------------------------------------------------------------------------
(* What the repository says of the program and the code does not do. *)

(* "applying OT ops sequentially to construct the document state"          *)
(* (ReplayService): once everything of a match is logged, its replay shows *)
(* the document of the last version it has.                                *)
ReplayIsTheDocument ==
  \A m \in exists :
    stored[m] # {} /\ (\A p \in pending : p.match # m) =>
      LET last == CHOOSE v \in stored[m] : \A n \in stored[m] : n <= v
      IN Replayed(m, last) = [thrown |-> FALSE, doc |-> DocAt(last)]
=============================================================================
