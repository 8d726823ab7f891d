-------------------------------- MODULE Roster --------------------------------
(***************************************************************************)
(* The keys of a `participants` or `members` object in insertion order, as *)
(* a sequence of distinct users: adding a key appends it, `delete` takes   *)
(* it out and keeps the order of the others.                               *)
(***************************************************************************)
EXTENDS Naturals, SequencesExt

(* The sequence s of distinct users without u. *)
Without(s, u) ==
  IF u \in ToSet(s) THEN RemoveAt(s, CHOOSE i \in DOMAIN s : s[i] = u) ELSE s
=============================================================================
