------------------------------- MODULE EditorMC -------------------------------
(* The instance of Editor for TLC: two users who edit at will while there  *)
(* is no match, and one user who edits character by character in matches.  *)
EXTENDS Editor

CONSTANTS
  MaxTyped,         (* bound: the characters of all operations             *)
  MaxMatchVersion   (* bound: the operations when there is a match         *)

TwoUsers == 1..2

Typed(ops) == FoldLeft(LAMBDA n, op : n + Len(op.text), 0, ops)

Alone == Typed(log) <= MaxTyped

InMatches == Version <= MaxMatchVersion /\ \A i \in DOMAIN log : log[i].user = 1 /\ Len(log[i].text) = 1

BoundedSpec == Init /\ [][Next /\ IF begun' = {} THEN Alone' ELSE InMatches']_vars
=============================================================================
