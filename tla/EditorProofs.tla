----------------------------- MODULE EditorProofs -----------------------------
(***************************************************************************)
(* For any users, texts and interleavings: what the transformed operations *)
(* do to the document, and what a replay shows of it.                      *)
(***************************************************************************)
EXTENDS Editor, WellFoundedInduction, TLAPS

-----------------------------------------------------------------------------
(* Induction along a sequence, and the function it defines. *)

LEMMA Least ==
  ASSUME NEW T \in SUBSET Nat, T # {}
  PROVE  \E i \in T : \A k \in T : i <= k
<1> DEFINE R == {p \in Nat \X Nat : p[1] < p[2]}
<1>1. IsWellFoundedOn(R, Nat)
  BY NatLessThanWellFounded DEF OpToRel
<1>2. PICK i \in T : \A k \in T : ~ (<<k, i>> \in R)
  BY <1>1, WFMin
<1>3. ASSUME NEW k \in T PROVE i <= k
  <2>1. <<k, i>> \in Nat \X Nat /\ <<k, i>>[1] = k /\ <<k, i>>[2] = i
    OBVIOUS
  <2>2. QED BY <1>2, <2>1
<1>4. QED BY <1>3

LEMMA Induction ==
  ASSUME NEW n \in Nat, NEW S, 0 \in S,
         \A k \in 0..(n - 1) : k \in S => k + 1 \in S
  PROVE  0..n \subseteq S
<1>1. SUFFICES ASSUME (0..n) \ S # {} PROVE FALSE
  OBVIOUS
<1> (0..n) \ S \in SUBSET Nat
  OBVIOUS
<1>2. PICK i \in (0..n) \ S : \A k \in (0..n) \ S : i <= k
  BY <1>1, Least
<1>3. i - 1 \in 0..(n - 1) /\ i - 1 \in S
  BY <1>2
<1>4. QED BY <1>2, <1>3

(* Any step function can be iterated along 1..n. *)
Iterations(n, V, v, step) ==
  {f \in [0..n -> V] : f[0] = v /\ \A k \in 1..n : f[k] = step[k][f[k - 1]]}

LEMMA Iteration ==
  ASSUME NEW n \in Nat, NEW V, NEW v \in V, NEW step \in [1..n -> [V -> V]]
  PROVE  Iterations(n, V, v, step) # {}
<1> DEFINE Upto(m, f) == f[0] = v /\ \A k \in 1..m : f[k] = step[k][f[k - 1]]
           Some(m) == \E f \in [0..m -> V] : Upto(m, f)
           S == {m \in 0..n : Some(m)}
<1>1. Some(0)
  <2>1. [k \in 0..0 |-> v] \in [0..0 -> V] /\ Upto(0, [k \in 0..0 |-> v])
    OBVIOUS
  <2> HIDE DEF Upto
  <2>2. QED BY <2>1
<1>2. ASSUME NEW m \in 0..(n - 1), Some(m) PROVE Some(m + 1)
  <2>1. PICK f \in [0..m -> V] : Upto(m, f)
    BY <1>2
  <2> DEFINE g == [k \in 0..(m + 1) |-> IF k = m + 1 THEN step[m + 1][f[m]] ELSE f[k]]
  <2>2. step[m + 1][f[m]] \in V
    <3>1. f[m] \in V /\ m + 1 \in 1..n
      BY <2>1
    <3>2. step[m + 1] \in [V -> V]
      BY <3>1
    <3>3. QED BY <3>1, <3>2
  <2>3. g \in [0..(m + 1) -> V]
    BY <2>2
  <2>4. Upto(m + 1, g)
    <3>1. g[0] = v
      BY <2>1
    <3>2. ASSUME NEW k \in 1..(m + 1) PROVE g[k] = step[k][g[k - 1]]
      BY <2>1
    <3>3. QED BY <3>1, <3>2
  <2> HIDE DEF Upto, g
  <2>5. QED BY <2>3, <2>4
<1> HIDE DEF Some
<1>3. 0 \in S /\ \A k \in 0..(n - 1) : k \in S => k + 1 \in S
  BY <1>1, <1>2
<1> HIDE DEF S
<1>4. 0..n \subseteq S
  BY <1>3, Induction
<1>5. QED BY <1>4 DEF S, Some, Iterations

-----------------------------------------------------------------------------
(* apply *)

Op == [user : Users, base : Nat, type : {"insert", "delete"},
       sent : Nat, index : Nat, text : Seq(Nat)]

LEMMA OpFields ==
  ASSUME NEW op \in Op
  PROVE  /\ op.user \in Nat /\ op.base \in Nat /\ op.sent \in Nat /\ op.index \in Nat
         /\ op.type \in {"insert", "delete"} /\ op.text \in Seq(Nat) /\ Len(op.text) \in Nat
<1>1. /\ op.user \in Users /\ op.base \in Nat /\ op.sent \in Nat /\ op.index \in Nat
      /\ op.type \in {"insert", "delete"} /\ op.text \in Seq(Nat)
  BY DEF Op
<1>2. op.user \in Nat
  BY <1>1, EditorAssumption
<1>3. Len(op.text) \in Nat
  BY <1>1
<1>4. QED BY <1>1, <1>2, <1>3

LEMMA ConcatFacts ==
  ASSUME NEW a \in Seq(Nat), NEW b \in Seq(Nat)
  PROVE  /\ a \o b \in Seq(Nat) /\ Len(a \o b) = Len(a) + Len(b)
         /\ \A k \in 1..Len(a) : (a \o b)[k] = a[k]
         /\ \A k \in 1..Len(b) : (a \o b)[Len(a) + k] = b[k]
OBVIOUS

LEMMA InsertFacts ==
  ASSUME NEW doc \in Seq(Nat), NEW op \in Op, op.type = "insert", Fits(doc, op)
  PROVE  LET new == Apply(doc, op)
             n == Len(op.text)
         IN  /\ new \in Seq(Nat) /\ Len(new) = Len(doc) + n
             /\ \A k \in 1..op.index : new[k] = doc[k]
             /\ \A k \in 1..n : new[op.index + k] = op.text[k]
             /\ \A k \in (op.index + 1)..Len(doc) : new[k + n] = doc[k]
<1> DEFINE x == op.index
           text == op.text
           left == SubSeq(doc, 1, x)
           right == SubSeq(doc, x + 1, Len(doc))
           new == Apply(doc, op)
           n == Len(text)
<1>1. x \in Nat /\ text \in Seq(Nat) /\ Len(text) \in Nat /\ x <= Len(doc) /\ Len(doc) \in Nat
  BY OpFields DEF Fits
<1>2. new = left \o text \o right
  BY DEF Apply
<1> HIDE DEF x, text, new
<1>3. left \in Seq(Nat) /\ Len(left) = x /\ \A k \in 1..x : left[k] = doc[k]
  BY <1>1
<1>4. /\ right \in Seq(Nat) /\ Len(right) = Len(doc) - x
      /\ \A k \in (x + 1)..Len(doc) : right[k - x] = doc[k]
  BY <1>1
<1> HIDE DEF left, right
<1>5. /\ new \in Seq(Nat) /\ Len(new) = x + n + (Len(doc) - x)
      /\ \A k \in 1..x : new[k] = left[k]
      /\ \A k \in 1..n : new[x + k] = text[k]
      /\ \A k \in 1..(Len(doc) - x) : new[x + n + k] = right[k]
  <2> DEFINE head == left \o text
  <2>1. /\ head \in Seq(Nat) /\ Len(head) = x + n
        /\ \A k \in 1..x : head[k] = left[k]
        /\ \A k \in 1..n : head[x + k] = text[k]
    BY <1>1, <1>3, ConcatFacts
  <2>2. new = head \o right
    BY <1>2
  <2> HIDE DEF head
  <2>3. /\ new \in Seq(Nat) /\ Len(new) = Len(head) + Len(right)
        /\ \A k \in 1..Len(head) : new[k] = head[k]
        /\ \A k \in 1..Len(right) : new[Len(head) + k] = right[k]
    BY <1>4, <2>1, <2>2, ConcatFacts
  <2>4. \A k \in 1..x : k \in 1..Len(head)
    BY <1>1, <2>1
  <2>5. \A k \in 1..n : x + k \in 1..Len(head)
    BY <1>1, <2>1
  <2>6. QED BY <1>4, <2>1, <2>3, <2>4, <2>5
<1>6. ASSUME NEW k \in (x + 1)..Len(doc) PROVE new[k + n] = doc[k]
  <2>1. k - x \in 1..(Len(doc) - x) /\ x + n + (k - x) = k + n
    BY <1>1
  <2>2. QED BY <1>4, <1>5, <2>1
<1>7. Len(new) = Len(doc) + n
  BY <1>1, <1>5
<1>8. QED BY <1>3, <1>5, <1>6, <1>7 DEF x, text, new

LEMMA DeleteFacts ==
  ASSUME NEW doc \in Seq(Nat), NEW op \in Op, op.type = "delete", Fits(doc, op)
  PROVE  LET new == Apply(doc, op)
             n == Len(op.text)
         IN  /\ new \in Seq(Nat) /\ Len(new) = Len(doc) - n
             /\ op.index + n <= Len(doc)
             /\ \A k \in 1..op.index : new[k] = doc[k]
             /\ \A k \in (op.index + n + 1)..Len(doc) : new[k - n] = doc[k]
<1> DEFINE x == op.index
           n == Len(op.text)
           left == SubSeq(doc, 1, x)
           right == SubSeq(doc, x + n + 1, Len(doc))
           new == Apply(doc, op)
<1>1. x \in Nat /\ n \in Nat /\ x + n <= Len(doc) /\ Len(doc) \in Nat
  BY OpFields DEF Fits
<1>2. new = left \o right
  BY DEF Apply
<1> HIDE DEF x, n, new
<1>3. left \in Seq(Nat) /\ Len(left) = x /\ \A k \in 1..x : left[k] = doc[k]
  BY <1>1
<1>4. /\ right \in Seq(Nat) /\ Len(right) = Len(doc) - (x + n)
      /\ \A k \in (x + n + 1)..Len(doc) : right[k - (x + n)] = doc[k]
  BY <1>1
<1> HIDE DEF left, right
<1>5. /\ new \in Seq(Nat) /\ Len(new) = x + (Len(doc) - (x + n))
      /\ \A k \in 1..x : new[k] = left[k]
      /\ \A k \in 1..(Len(doc) - (x + n)) : new[x + k] = right[k]
  <2>1. /\ new \in Seq(Nat) /\ Len(new) = Len(left) + Len(right)
        /\ \A k \in 1..Len(left) : new[k] = left[k]
        /\ \A k \in 1..Len(right) : new[Len(left) + k] = right[k]
    BY <1>2, <1>3, <1>4, ConcatFacts
  <2>2. QED BY <1>3, <1>4, <2>1
<1>6. ASSUME NEW k \in (x + n + 1)..Len(doc) PROVE new[k - n] = doc[k]
  <2>1. k - (x + n) \in 1..(Len(doc) - (x + n)) /\ x + (k - (x + n)) = k - n
    BY <1>1
  <2>2. QED BY <1>4, <1>5, <2>1
<1>7. Len(new) = Len(doc) - n
  BY <1>1, <1>5
<1>8. QED BY <1>1, <1>3, <1>5, <1>6, <1>7 DEF x, n, new

(* The characters of the next document.                                    *)
LEMMA InsertKeeps ==
  ASSUME NEW doc \in Seq(Nat), NEW op \in Op, op.type = "insert", Fits(doc, op),
         IsInjective(doc), IsInjective(op.text), ToSet(doc) \cap ToSet(op.text) = {}
  PROVE  /\ IsInjective(Apply(doc, op))
         /\ ToSet(Apply(doc, op)) = ToSet(doc) \cup ToSet(op.text)
<1> DEFINE x == op.index
           text == op.text
           n == Len(text)
           new == Apply(doc, op)
<1>1. /\ new \in Seq(Nat) /\ Len(new) = Len(doc) + n
      /\ \A k \in 1..x : new[k] = doc[k]
      /\ \A k \in 1..n : new[x + k] = text[k]
      /\ \A k \in (x + 1)..Len(doc) : new[k + n] = doc[k]
  BY InsertFacts
<1>2. x \in Nat /\ n \in Nat /\ x <= Len(doc) /\ Len(doc) \in Nat
      /\ text \in Seq(Nat) /\ IsInjective(text) /\ ToSet(doc) \cap ToSet(text) = {}
  BY OpFields DEF Fits
<1> HIDE DEF x, text, new
<1>3. DOMAIN doc = 1..Len(doc) /\ DOMAIN text = 1..n /\ DOMAIN new = 1..(Len(doc) + n)
  BY <1>1, <1>2
<1> HIDE DEF n
<1>4. ASSUME NEW k \in DOMAIN new
      PROVE  \/ k \in 1..x /\ k \in DOMAIN doc /\ new[k] = doc[k]
             \/ k \in (x + 1)..(x + n) /\ k - x \in DOMAIN text /\ new[k] = text[k - x]
             \/ k > x + n /\ k - n \in DOMAIN doc /\ new[k] = doc[k - n]
  <2>1. CASE k <= x
    BY <1>1, <1>2, <1>3, <2>1
  <2>2. CASE k > x /\ k <= x + n
    <3>1. k - x \in 1..n /\ x + (k - x) = k
      BY <1>2, <1>3, <2>2
    <3>2. QED BY <1>1, <1>2, <1>3, <2>2, <3>1
  <2>3. CASE k > x + n
    <3>1. k - n \in (x + 1)..Len(doc) /\ (k - n) + n = k
      BY <1>2, <1>3, <2>3
    <3>2. QED BY <1>1, <1>2, <1>3, <2>3, <3>1
  <2>4. QED BY <1>2, <1>3, <2>1, <2>2, <2>3
<1>5. ToSet(new) \subseteq ToSet(doc) \cup ToSet(text)
  BY <1>4 DEF ToSet
<1>6. ASSUME NEW k \in DOMAIN doc PROVE doc[k] \in ToSet(new)
  <2>1. CASE k <= x
    BY <1>1, <1>2, <1>3, <2>1 DEF ToSet
  <2>2. CASE k > x
    <3>1. k + n \in DOMAIN new /\ new[k + n] = doc[k]
      BY <1>1, <1>2, <1>3, <2>2
    <3>2. QED BY <3>1 DEF ToSet
  <2>3. QED BY <1>2, <1>3, <2>1, <2>2
<1>7. ASSUME NEW k \in DOMAIN text PROVE text[k] \in ToSet(new)
  <2>1. x + k \in DOMAIN new /\ new[x + k] = text[k]
    BY <1>1, <1>2, <1>3
  <2>2. QED BY <2>1 DEF ToSet
<1>8. ToSet(new) = ToSet(doc) \cup ToSet(text)
  <2>1. ToSet(doc) \subseteq ToSet(new)
    BY <1>6 DEF ToSet
  <2>2. ToSet(text) \subseteq ToSet(new)
    BY <1>7 DEF ToSet
  <2>3. QED BY <1>5, <2>1, <2>2
<1>9. ASSUME NEW i \in DOMAIN doc, NEW j \in DOMAIN text PROVE doc[i] # text[j]
  BY <1>2 DEF ToSet
<1>10. ASSUME NEW i \in DOMAIN new, NEW j \in DOMAIN new, new[i] = new[j] PROVE i = j
  BY <1>2, <1>3, <1>4, <1>9, <1>10 DEF IsInjective
<1>11. IsInjective(new)
  BY <1>10 DEF IsInjective
<1>12. QED BY <1>8, <1>11 DEF new, text

(* A delete takes the characters of one stretch away; the rest keeps its   *)
(* order.                                                                  *)
LEMMA DeleteKeeps ==
  ASSUME NEW doc \in Seq(Nat), NEW op \in Op, op.type = "delete", Fits(doc, op),
         IsInjective(doc)
  PROVE  LET new == Apply(doc, op)
             cut == (op.index + 1)..(op.index + Len(op.text))
         IN  /\ IsInjective(new)
             /\ ToSet(new) = {doc[k] : k \in DOMAIN doc \ cut}
             /\ \A i, j \in DOMAIN new :
                  i < j => \E a, b \in DOMAIN doc : a < b /\ doc[a] = new[i] /\ doc[b] = new[j]
<1> DEFINE x == op.index
           n == Len(op.text)
           new == Apply(doc, op)
           at(k) == IF k <= x THEN k ELSE k + n
<1>1. /\ new \in Seq(Nat) /\ Len(new) = Len(doc) - n
      /\ x + n <= Len(doc)
      /\ \A k \in 1..x : new[k] = doc[k]
      /\ \A k \in (x + n + 1)..Len(doc) : new[k - n] = doc[k]
  BY DeleteFacts
<1>2. x \in Nat /\ n \in Nat /\ Len(doc) \in Nat
  BY OpFields
<1> HIDE DEF x, n, new
<1>3. DOMAIN doc = 1..Len(doc) /\ DOMAIN new = 1..(Len(doc) - n)
  BY <1>1, <1>2
<1>4. ASSUME NEW k \in DOMAIN new
      PROVE  at(k) \in DOMAIN doc \ ((x + 1)..(x + n)) /\ new[k] = doc[at(k)]
  <2>1. CASE k <= x
    BY <1>1, <1>2, <1>3, <2>1
  <2>2. CASE k > x
    <3>1. k + n \in (x + n + 1)..Len(doc) /\ (k + n) - n = k
      BY <1>2, <1>3, <2>2
    <3>2. new[k] = doc[k + n]
      BY <1>1, <3>1
    <3>3. QED BY <1>2, <1>3, <2>2, <3>1, <3>2
  <2>3. QED BY <1>2, <1>3, <2>1, <2>2
<1>5. \A i, j \in DOMAIN new : (i < j => at(i) < at(j)) /\ (at(i) = at(j) => i = j)
  BY <1>2, <1>3
<1>6. ASSUME NEW k \in DOMAIN doc \ ((x + 1)..(x + n)) PROVE doc[k] \in ToSet(new)
  <2>1. CASE k <= x
    BY <1>1, <1>2, <1>3, <2>1 DEF ToSet
  <2>2. CASE k > x + n
    <3>1. k - n \in DOMAIN new /\ new[k - n] = doc[k]
      BY <1>1, <1>2, <1>3, <2>2
    <3>2. QED BY <3>1 DEF ToSet
  <2>3. QED BY <1>2, <1>3, <2>1, <2>2
<1> HIDE DEF at
<1>7. IsInjective(new)
  BY <1>4, <1>5 DEF IsInjective
<1>8. ToSet(new) = {doc[k] : k \in DOMAIN doc \ ((x + 1)..(x + n))}
  BY <1>4, <1>6 DEF ToSet
<1>9. \A i, j \in DOMAIN new :
        i < j => \E a, b \in DOMAIN doc : a < b /\ doc[a] = new[i] /\ doc[b] = new[j]
  BY <1>4, <1>5
<1>10. QED BY <1>7, <1>8, <1>9 DEF x, n, new

-----------------------------------------------------------------------------
(* transform *)

LEMMA TransformFacts ==
  ASSUME NEW op \in Op, NEW applied \in Op
  PROVE  LET moved == Transform(op, applied)
         IN  /\ moved \in Op
             /\ moved.user = op.user /\ moved.base = op.base /\ moved.type = op.type
             /\ moved.sent = op.sent /\ moved.text = op.text
             /\ moved.index =
                  IF applied.type = "delete" THEN PastDelete(op, applied)
                  ELSE IF op.type = "insert" THEN InsertInsert(op, applied)
                  ELSE DeleteInsert(op, applied)
<1> DEFINE to == IF applied.type = "delete" THEN PastDelete(op, applied)
                 ELSE IF op.type = "insert" THEN InsertInsert(op, applied)
                 ELSE DeleteInsert(op, applied)
           moved == [op EXCEPT !.index = to]
<1>1. to \in Nat
  BY OpFields DEF PastDelete, InsertInsert, DeleteInsert
<1>2. Transform(op, applied) = moved
  BY DEF Transform
<1> HIDE DEF to
<1>3. /\ moved \in Op /\ moved.index = to
      /\ moved.user = op.user /\ moved.base = op.base /\ moved.type = op.type
      /\ moved.sent = op.sent /\ moved.text = op.text
  BY <1>1 DEF Op
<1> HIDE DEF moved
<1>4. QED BY <1>2, <1>3 DEF to

LEMMA BeforeIs ==
  ASSUME NEW doc \in Seq(Nat), IsInjective(doc), NEW k \in DOMAIN doc, NEW p \in 0..Len(doc)
  PROVE  Before(doc, p, doc[k]) <=> k <= p
<1>1. DOMAIN doc = 1..Len(doc) /\ Len(doc) \in Nat
  OBVIOUS
<1>2. ASSUME NEW i \in 1..p, doc[i] = doc[k] PROVE i = k
  BY <1>1, <1>2 DEF IsInjective
<1>3. k <= p => k \in 1..p
  BY <1>1
<1>4. QED BY <1>1, <1>2, <1>3 DEF Before

(* An operation that was applied is new to the document before it.         *)
Fresh(doc, applied) ==
  applied.type = "insert" =>
    IsInjective(applied.text) /\ ToSet(doc) \cap ToSet(applied.text) = {}

(* Where each character of a document is in the next one. *)
LEMMA Positions ==
  ASSUME NEW doc \in Seq(Nat), IsInjective(doc), NEW applied \in Op, Fits(doc, applied),
         Fresh(doc, applied), NEW c \in ToSet(doc) \cap ToSet(Apply(doc, applied))
  PROVE  LET new == Apply(doc, applied)
             x == applied.index
             n == Len(applied.text)
         IN  /\ new \in Seq(Nat) /\ IsInjective(new)
             /\ \E k \in DOMAIN doc : \E h \in DOMAIN new :
                  /\ doc[k] = c /\ new[h] = c
                  /\ applied.type = "insert" => h = IF k <= x THEN k ELSE k + n
                  /\ applied.type = "delete" => \/ k <= x /\ h = k
                                                \/ k > x + n /\ h = k - n
<1> DEFINE new == Apply(doc, applied)
           x == applied.index
           n == Len(applied.text)
<1>1. x \in Nat /\ n \in Nat /\ Len(doc) \in Nat /\ DOMAIN doc = 1..Len(doc)
      /\ applied.type \in {"insert", "delete"}
  BY OpFields
<1>2. CASE applied.type = "insert"
  <2>1. /\ new \in Seq(Nat) /\ Len(new) = Len(doc) + n /\ x <= Len(doc)
        /\ \A k \in 1..x : new[k] = doc[k]
        /\ \A k \in (x + 1)..Len(doc) : new[k + n] = doc[k]
        /\ IsInjective(new)
    BY <1>2, InsertFacts, InsertKeeps DEF Fits, Fresh
  <2> HIDE DEF new, x, n
  <2>2. PICK k \in DOMAIN doc : doc[k] = c
    BY DEF ToSet
  <2> DEFINE h == IF k <= x THEN k ELSE k + n
  <2>3. DOMAIN new = 1..(Len(doc) + n)
    BY <1>1, <2>1
  <2>4. h \in DOMAIN new /\ new[h] = doc[k]
    BY <1>1, <2>1, <2>3
  <2>5. QED BY <1>2, <2>1, <2>2, <2>4 DEF new, x, n
<1>3. CASE applied.type = "delete"
  <2>1. /\ new \in Seq(Nat) /\ Len(new) = Len(doc) - n
        /\ x + n <= Len(doc)
        /\ \A k \in 1..x : new[k] = doc[k]
        /\ \A k \in (x + n + 1)..Len(doc) : new[k - n] = doc[k]
        /\ IsInjective(new)
        /\ ToSet(new) = {doc[k] : k \in DOMAIN doc \ ((x + 1)..(x + n))}
    BY <1>3, DeleteFacts, DeleteKeeps
  <2>a. c \in ToSet(new)
    OBVIOUS
  <2> HIDE DEF new, x, n
  <2>2. PICK k \in DOMAIN doc \ ((x + 1)..(x + n)) : doc[k] = c
    BY <2>1, <2>a
  <2> DEFINE h == IF k <= x THEN k ELSE k - n
  <2>3. DOMAIN new = 1..(Len(doc) - n)
    BY <1>1, <2>1
  <2>4. h \in DOMAIN new /\ new[h] = doc[k] /\ (k <= x \/ k > x + n)
    <3>1. k \in 1..Len(doc)
      BY <1>1
    <3>2. CASE k <= x
      BY <1>1, <2>1, <2>3, <3>1, <3>2
    <3>3. CASE k > x
      <4>1. k \in (x + n + 1)..Len(doc) /\ k - n \in 1..(Len(doc) - n)
        BY <1>1, <3>1, <3>3
      <4>2. new[k - n] = doc[k]
        BY <2>1, <4>1
      <4>3. QED BY <1>1, <2>3, <3>3, <4>1, <4>2
    <3>4. QED BY <1>1, <3>1, <3>2, <3>3
  <2>5. QED BY <1>1, <1>3, <2>1, <2>2, <2>4 DEF new, x, n
<1>4. QED BY <1>1, <1>2, <1>3

(* An insert goes between the same characters as before.                   *)
LEMMA InsertMoves ==
  ASSUME NEW doc \in Seq(Nat), IsInjective(doc), NEW applied \in Op, Fits(doc, applied),
         Fresh(doc, applied), NEW op \in Op, op.type = "insert", op.index <= Len(doc)
  PROVE  LET new == Apply(doc, applied)
             p == Transform(op, applied).index
         IN  /\ p \in 0..Len(new)
             /\ \A c \in ToSet(doc) \cap ToSet(new) :
                  Before(doc, op.index, c) <=> Before(new, p, c)
<1> DEFINE new == Apply(doc, applied)
           p == Transform(op, applied).index
           x == applied.index
           n == Len(applied.text)
<1>1. /\ x \in Nat /\ n \in Nat /\ Len(doc) \in Nat /\ DOMAIN doc = 1..Len(doc)
      /\ applied.type \in {"insert", "delete"} /\ op.index \in Nat /\ op.index <= Len(doc)
  BY OpFields
<1>2. /\ applied.type = "insert" =>
           p = IF x < op.index \/ (x = op.index /\ applied.user < op.user)
                 THEN op.index + n ELSE op.index
      /\ applied.type = "delete" =>
           p = IF x + n <= op.index THEN op.index - n
               ELSE IF x < op.index THEN x ELSE op.index
  BY <1>1, TransformFacts DEF InsertInsert, PastDelete
<1>3. /\ new \in Seq(Nat) /\ Len(new) \in Nat
      /\ applied.type = "insert" => x <= Len(doc) /\ Len(new) = Len(doc) + n
      /\ applied.type = "delete" => x + n <= Len(doc) /\ Len(new) = Len(doc) - n
  <2>1. CASE applied.type = "insert"
    BY <1>1, <2>1, InsertFacts DEF Fits
  <2>2. CASE applied.type = "delete"
    <3>1. new \in Seq(Nat) /\ Len(new) = Len(doc) - n /\ x + n <= Len(doc)
      BY <2>2, DeleteFacts
    <3> HIDE DEF x, n, new
    <3>2. QED BY <1>1, <2>2, <3>1
  <2>3. QED BY <1>1, <2>1, <2>2
<1> HIDE DEF p
<1>4. p \in 0..Len(new)
  <2> HIDE DEF x, n, new
  <2>1. CASE applied.type = "insert"
    BY <1>1, <1>2, <1>3, <2>1
  <2>2. CASE applied.type = "delete"
    BY <1>1, <1>2, <1>3, <2>2
  <2>3. QED BY <1>1, <2>1, <2>2
<1>5. ASSUME NEW c \in ToSet(doc) \cap ToSet(new)
      PROVE  Before(doc, op.index, c) <=> Before(new, p, c)
  <2>1. /\ IsInjective(new)
        /\ \E k \in DOMAIN doc : \E h \in DOMAIN new :
             /\ doc[k] = c /\ new[h] = c
             /\ applied.type = "insert" => h = IF k <= x THEN k ELSE k + n
             /\ applied.type = "delete" => \/ k <= x /\ h = k
                                           \/ k > x + n /\ h = k - n
    BY Positions
  <2>2. PICK k \in DOMAIN doc, h \in DOMAIN new :
             /\ doc[k] = c /\ new[h] = c
             /\ applied.type = "insert" => h = IF k <= x THEN k ELSE k + n
             /\ applied.type = "delete" => \/ k <= x /\ h = k
                                           \/ k > x + n /\ h = k - n
    BY <2>1
  <2>3. Before(doc, op.index, c) <=> k <= op.index
    <3>1. op.index \in 0..Len(doc)
      BY <1>1
    <3>2. QED BY <2>2, <3>1, BeforeIs
  <2>4. Before(new, p, c) <=> h <= p
    <3> HIDE DEF new
    <3>1. QED BY <1>3, <1>4, <2>1, <2>2, BeforeIs
  <2>5. k <= op.index <=> h <= p
    <3> HIDE DEF x, n, new
    <3>1. k \in Nat /\ h \in Nat
      <4>1. DOMAIN new = 1..Len(new)
        BY <1>3
      <4>2. k \in 1..Len(doc) /\ h \in 1..Len(new)
        BY <1>1, <4>1
      <4>3. QED BY <4>2
    <3>2. CASE applied.type = "insert"
      BY <1>1, <1>2, <2>2, <3>1, <3>2
    <3>3. CASE applied.type = "delete"
      <4>1. /\ p = IF x + n <= op.index THEN op.index - n
                   ELSE IF x < op.index THEN x ELSE op.index
            /\ (k <= x /\ h = k) \/ (k > x + n /\ h = k - n)
        BY <1>2, <2>2, <3>3
      <4>2. x \in Nat /\ n \in Nat /\ op.index \in Nat
        BY <1>1
      <4>3. QED BY <3>1, <4>1, <4>2
    <3>4. QED BY <1>1, <3>2, <3>3
  <2>6. QED BY <2>3, <2>4, <2>5
<1>6. QED BY <1>4, <1>5 DEF p

(* A delete still points at its first character, if that is still there.   *)
LEMMA DeleteMoves ==
  ASSUME NEW doc \in Seq(Nat), IsInjective(doc), NEW applied \in Op, Fits(doc, applied),
         Fresh(doc, applied), applied.text # <<>>, NEW op \in Op, op.type = "delete",
         op.index + 1 \in DOMAIN doc, doc[op.index + 1] \in ToSet(Apply(doc, applied))
  PROVE  LET new == Apply(doc, applied)
             p == Transform(op, applied).index
         IN  p + 1 \in DOMAIN new /\ new[p + 1] = doc[op.index + 1]
<1> DEFINE new == Apply(doc, applied)
           p == Transform(op, applied).index
           x == applied.index
           n == Len(applied.text)
           c == doc[op.index + 1]
<1>1. /\ x \in Nat /\ n \in Nat /\ n # 0 /\ Len(doc) \in Nat /\ DOMAIN doc = 1..Len(doc)
      /\ applied.type \in {"insert", "delete"} /\ op.index \in Nat
  BY OpFields
<1>2. p = IF applied.type = "delete" THEN PastDelete(op, applied) ELSE DeleteInsert(op, applied)
  BY <1>1, TransformFacts
<1>3. c \in ToSet(doc) \cap ToSet(new)
  BY DEF ToSet
<1> HIDE DEF p, c
<1>4. /\ IsInjective(new)
      /\ \E k \in DOMAIN doc : \E h \in DOMAIN new :
           /\ doc[k] = c /\ new[h] = c
           /\ applied.type = "insert" => h = IF k <= x THEN k ELSE k + n
           /\ applied.type = "delete" => \/ k <= x /\ h = k
                                         \/ k > x + n /\ h = k - n
  BY <1>3, Positions
<1>5. PICK k \in DOMAIN doc, h \in DOMAIN new :
           /\ doc[k] = c /\ new[h] = c
           /\ applied.type = "insert" => h = IF k <= x THEN k ELSE k + n
           /\ applied.type = "delete" => \/ k <= x /\ h = k
                                         \/ k > x + n /\ h = k - n
  BY <1>4
<1>6. k = op.index + 1
  BY <1>5 DEF IsInjective, c
<1> HIDE DEF new
<1>7. h = p + 1
  <2>1. CASE applied.type = "insert"
    BY <1>1, <1>2, <1>5, <1>6, <2>1 DEF DeleteInsert
  <2>2. CASE applied.type = "delete"
    BY <1>1, <1>2, <1>5, <1>6, <2>2 DEF PastDelete
  <2>3. QED BY <1>1, <2>1, <2>2
<1>8. QED BY <1>5, <1>7 DEF p, c, new

-----------------------------------------------------------------------------
(* Documents and transformed operations, step by step. *)

LEMMA DocumentIs ==
  ASSUME NEW ops, NEW n \in Nat, NEW T, NEW docs \in [0..n -> T], docs[0] = <<>>,
         \A k \in 1..n : docs[k] = Apply(docs[k - 1], ops[k]), NEW v \in 0..n
  PROVE  Document(ops, v) = docs[v]
<1> DEFINE Def(f) == [k \in 0..v |-> IF k = 0 THEN <<>> ELSE Apply(f[k - 1], ops[k])]
           g == [k \in 0..v |-> docs[k]]
           doc == CHOOSE f : f = Def(f)
<1>1. g = Def(g)
  <2>1. ASSUME NEW k \in 0..v
        PROVE  docs[k] = IF k = 0 THEN <<>> ELSE Apply(g[k - 1], ops[k])
    <3>1. CASE k = 0
      BY <3>1
    <3>2. CASE k # 0
      <4>1. k \in 1..n /\ k - 1 \in 0..v
        BY <3>2
      <4>2. g[k - 1] = docs[k - 1]
        BY <4>1
      <4>3. QED BY <3>2, <4>1, <4>2
    <3>3. QED BY <3>1, <3>2
  <2>2. QED BY <2>1
<1>2. doc = Def(doc)
  BY <1>1
<1>3. Document(ops, v) = doc[v]
  BY DEF Document
<1> HIDE DEF doc
<1>4. \A k \in 0..v : doc[k] = Def(doc)[k]
  BY <1>2
<1>5. doc[0] = <<>> /\ \A k \in 1..v : doc[k] = Apply(doc[k - 1], ops[k])
  BY <1>4
<1> DEFINE Z == {k \in 0..v : doc[k] = docs[k]}
<1>6. 0 \in Z
  BY <1>5
<1>7. ASSUME NEW k \in 0..(v - 1), k \in Z PROVE k + 1 \in Z
  <2>1. k + 1 \in 1..v /\ k + 1 \in 1..n /\ (k + 1) - 1 = k /\ k + 1 \in 0..v
    OBVIOUS
  <2>2. doc[k] = docs[k]
    BY <1>7
  <2>3. doc[k + 1] = Apply(doc[k], ops[k + 1]) /\ docs[k + 1] = Apply(docs[k], ops[k + 1])
    BY <1>5, <2>1
  <2>4. QED BY <2>1, <2>2, <2>3
<1> HIDE DEF Z
<1>8. v \in Nat /\ v \in 0..v
  OBVIOUS
<1>9. 0..v \subseteq Z
  BY <1>6, <1>7, <1>8, Induction
<1>10. QED BY <1>3, <1>8, <1>9 DEF Z

(* Every version has a document, the one that its operation made of the    *)
(* last.                                                                   *)
Documents(ops) ==
  /\ Document(ops, 0) = <<>>
  /\ \A k \in 0..Len(ops) : Document(ops, k) \in Seq(Nat) /\ IsInjective(Document(ops, k))
  /\ \A k \in 1..Len(ops) : Document(ops, k) = Apply(Document(ops, k - 1), ops[k])

LEMMA AppendDocument ==
  ASSUME NEW ops \in Seq(Op), NEW op \in Op, Documents(ops),
         Apply(Document(ops, Len(ops)), op) \in Seq(Nat),
         IsInjective(Apply(Document(ops, Len(ops)), op))
  PROVE  LET more == Append(ops, op)
         IN  /\ Documents(more)
             /\ \A k \in 0..Len(ops) : Document(more, k) = Document(ops, k)
             /\ Document(more, Len(more)) = Apply(Document(ops, Len(ops)), op)
<1> DEFINE more == Append(ops, op)
           n == Len(ops)
           last == Apply(Document(ops, n), op)
           docs == [k \in 0..(n + 1) |-> IF k = n + 1 THEN last ELSE Document(ops, k)]
<1>1. /\ n \in Nat /\ more \in Seq(Op) /\ Len(more) = n + 1 /\ more[n + 1] = op
      /\ \A k \in 1..n : more[k] = ops[k]
  OBVIOUS
<1>2. /\ Document(ops, 0) = <<>>
      /\ \A k \in 0..n : Document(ops, k) \in Seq(Nat) /\ IsInjective(Document(ops, k))
      /\ \A k \in 1..n : Document(ops, k) = Apply(Document(ops, k - 1), ops[k])
      /\ last \in Seq(Nat) /\ IsInjective(last)
  BY DEF Documents
<1>a. last = Apply(Document(ops, n), op)
  OBVIOUS
<1> HIDE DEF more, n, last
<1>3. docs \in [0..(n + 1) -> Seq(Nat)]
  BY <1>1, <1>2
<1>4. /\ docs[n + 1] = last /\ n + 1 \in Nat
      /\ \A k \in 0..n : docs[k] = Document(ops, k)
  BY <1>1
<1> HIDE DEF docs
<1>5. docs[0] = <<>>
  BY <1>1, <1>2, <1>4
<1>6. ASSUME NEW k \in 1..(n + 1) PROVE docs[k] = Apply(docs[k - 1], more[k])
  <2>1. CASE k = n + 1
    <3>1. k - 1 = n /\ n \in 0..n
      BY <1>1, <2>1
    <3>2. docs[k - 1] = Document(ops, n)
      BY <1>4, <3>1
    <3>3. QED BY <1>1, <1>4, <1>a, <2>1, <3>2
  <2>2. CASE k # n + 1
    <3>1. k \in 1..n /\ k - 1 \in 0..n /\ k \in 0..n
      BY <1>1, <2>2
    <3>2. QED BY <1>1, <1>2, <1>4, <3>1
  <2>3. QED BY <2>1, <2>2
<1>7. \A k \in 0..(n + 1) : Document(more, k) = docs[k]
  BY <1>3, <1>4, <1>5, <1>6, DocumentIs
<1>8. ASSUME NEW k \in 0..(n + 1)
      PROVE  Document(more, k) \in Seq(Nat) /\ IsInjective(Document(more, k))
  <2>1. k \in 0..n \/ k = n + 1
    BY <1>1
  <2>2. QED BY <1>2, <1>4, <1>7, <2>1
<1>9. ASSUME NEW k \in 1..(n + 1) PROVE Document(more, k) = Apply(Document(more, k - 1), more[k])
  <2>1. k \in 0..(n + 1) /\ k - 1 \in 0..(n + 1)
    BY <1>1
  <2>2. QED BY <1>6, <1>7, <2>1
<1>10. Document(more, 0) = <<>>
  BY <1>1, <1>5, <1>7
<1>11. Documents(more)
  BY <1>1, <1>8, <1>9, <1>10 DEF Documents
<1>12. \A k \in 0..n : Document(more, k) = Document(ops, k)
  BY <1>1, <1>4, <1>7
<1>13. Document(more, n + 1) = last
  BY <1>1, <1>4, <1>7
<1>14. QED BY <1>1, <1>11, <1>12, <1>13 DEF more, n, last

(* What becomes of an operation on its way past the log. *)
Pasts(op) ==
  {past \in [op.base..Version -> Op] :
     /\ past[op.base] = op
     /\ \A n \in (op.base + 1)..Version : past[n] = Transform(past[n - 1], log[n])}

LEMMA TransformedSteps ==
  ASSUME log \in Seq(Op), NEW op \in Op, op.base \in 0..Version
  PROVE  \E past \in Pasts(op) : Transformed(op) = past[Version]
<1> DEFINE b == op.base
           m == Version - b
           next == [k \in 1..m |-> [o \in Op |-> Transform(o, log[b + k])]]
           Def(f) == [n \in b..Version |->
                        IF n = b THEN op ELSE Transform(f[n - 1], log[n])]
           past == CHOOSE f : f = Def(f)
<1>1. Version \in Nat /\ DOMAIN log = 1..Version /\ b \in Nat /\ b <= Version /\ m \in Nat
      /\ op \in Op
  BY OpFields DEF Version
<1>2. next \in [1..m -> [Op -> Op]]
  <2>1. ASSUME NEW k \in 1..m, NEW o \in Op PROVE Transform(o, log[b + k]) \in Op
    <3>1. b + k \in 1..Version
      BY <1>1
    <3>2. log[b + k] \in Op
      BY <1>1, <3>1
    <3>3. QED BY <3>2, TransformFacts
  <2>2. QED BY <2>1
<1>3. PICK f : f \in Iterations(m, Op, op, next)
  <2> HIDE DEF next, m, b
  <2>1. QED BY <1>1, <1>2, Iteration
<1>4. f \in [0..m -> Op] /\ f[0] = op /\ \A k \in 1..m : f[k] = next[k][f[k - 1]]
  BY <1>3 DEF Iterations
<1>5. ASSUME NEW k \in 1..m PROVE f[k] = Transform(f[k - 1], log[b + k])
  <2>1. f[k - 1] \in Op
    BY <1>1, <1>4
  <2>2. QED BY <1>4, <2>1
<1> DEFINE g == [n \in b..Version |-> f[n - b]]
<1> HIDE DEF next
<1>6. g = Def(g)
  <2>1. ASSUME NEW n \in b..Version
        PROVE  f[n - b] = IF n = b THEN op ELSE Transform(g[n - 1], log[n])
    <3>1. CASE n = b
      BY <1>1, <1>4, <3>1
    <3>2. CASE n # b
      <4>1. n - b \in 1..m /\ n - 1 \in b..Version /\ b + (n - b) = n
            /\ (n - 1) - b = (n - b) - 1
        BY <1>1, <3>2
      <4>2. g[n - 1] = f[(n - b) - 1]
        BY <4>1
      <4>3. QED BY <1>5, <3>2, <4>1, <4>2
    <3>3. QED BY <3>1, <3>2
  <2>2. QED BY <2>1
<1>7. past = Def(past)
  BY <1>6
<1>8. Transformed(op) = past[Version]
  BY DEF Transformed
<1> HIDE DEF past
<1>9. \A n \in b..Version : past[n] = Def(past)[n]
  BY <1>7
<1>10. /\ past[b] = op
       /\ \A n \in (b + 1)..Version : past[n] = Transform(past[n - 1], log[n])
  <2>1. b \in b..Version
    BY <1>1
  <2>2. past[b] = op
    BY <1>9, <2>1
  <2>3. ASSUME NEW n \in (b + 1)..Version PROVE past[n] = Transform(past[n - 1], log[n])
    <3>1. n \in b..Version /\ n # b
      BY <1>1
    <3>2. QED BY <1>9, <3>1
  <2>4. QED BY <2>2, <2>3
<1>11. past \in [b..Version -> Op]
  <2> DEFINE Z == {k \in 0..m : past[b + k] \in Op}
  <2>1. 0 \in Z
    BY <1>1, <1>10
  <2>2. ASSUME NEW k \in 0..(m - 1), k \in Z PROVE k + 1 \in Z
    <3>1. b + (k + 1) \in (b + 1)..Version /\ (b + (k + 1)) - 1 = b + k
          /\ b + (k + 1) \in 1..Version /\ k + 1 \in 0..m
      BY <1>1
    <3>2. past[b + k] \in Op /\ log[b + (k + 1)] \in Op
      BY <1>1, <2>2, <3>1
    <3>3. past[b + (k + 1)] = Transform(past[b + k], log[b + (k + 1)])
      BY <1>10, <3>1
    <3>4. past[b + (k + 1)] \in Op
      BY <3>2, <3>3, TransformFacts
    <3>5. QED BY <3>1, <3>4
  <2> HIDE DEF Z
  <2>3. 0..m \subseteq Z
    BY <1>1, <2>1, <2>2, Induction
  <2>4. ASSUME NEW n \in b..Version PROVE past[n] \in Op
    <3>1. n - b \in 0..m /\ b + (n - b) = n
      BY <1>1
    <3>2. QED BY <2>3, <3>1 DEF Z
  <2>5. past = [n \in b..Version |-> past[n]]
    BY <1>7
  <2>6. QED BY <2>4, <2>5
<1>12. past \in Pasts(op)
  BY <1>10, <1>11 DEF Pasts
<1>13. QED BY <1>8, <1>12

-----------------------------------------------------------------------------
(* The invariant. *)

InPlace(saw, s, doc, p) ==
  \A c \in ToSet(saw) \cap ToSet(doc) : Before(saw, s, c) <=> Before(doc, p, c)

(* A delete points at the first character that it meant, if it is there.   *)
OnTarget(op, doc) ==
  op.text[1] \in ToSet(doc) => op.index + 1 \in DOMAIN doc /\ doc[op.index + 1] = op.text[1]

(* What an operation of the log is to the documents before it: saw, the    *)
(* one that its author saw, ..., doc, the one that it is applied to.       *)
Arrived(op, saw, doc) ==
  /\ op.text # <<>> /\ Fits(saw, Sent(op))
  /\ op.type = "insert" => InPlace(saw, op.sent, doc, op.index)
  /\ op.type = "delete" => OnTarget(op, doc)

Entry(ops, i) ==
  LET op == ops[i]
      saw == Document(ops, op.base)
      doc == Document(ops, i - 1)
  IN  /\ op.base < i /\ Fits(doc, op) /\ Arrived(op, saw, doc)
      /\ \A k \in 0..(i - 1) : Fresh(Document(ops, k), op)
      /\ op.base = i - 1 => op = Sent(op)
      /\ op.base = i - 2 => op = Transform(Sent(op), ops[i - 1])

(* The numbers of the characters that were used so far.                    *)
Used(ops, limit) == \A k \in 0..Len(ops) : \A c \in ToSet(Document(ops, k)) : c <= limit

DocumentsInv ==
  /\ log \in Seq(Op) /\ Documents(log) /\ Used(log, MaxText * Version)
  /\ \A i \in DOMAIN log : Entry(log, i)
  /\ content = DocAt(Version)

MatchesInv ==
  /\ started \subseteq begun /\ exists \subseteq started /\ begun \subseteq Matches
  /\ current \in begun \cup {NoMatch}
  /\ \A p \in pending : p.match \in begun /\ p.version \in DOMAIN log
  /\ stored \in [Matches -> SUBSET DOMAIN log]

(* The inductive invariant. *)
EditorInv == DocumentsInv /\ MatchesInv

-----------------------------------------------------------------------------
(* Editing *)

LEMMA InvDocuments ==
  ASSUME DocumentsInv
  PROVE  /\ Version \in Nat /\ DOMAIN log = 1..Version /\ Version = Len(log)
         /\ DocAt(0) = <<>>
         /\ \A k \in 0..Version : DocAt(k) \in Seq(Nat) /\ IsInjective(DocAt(k))
         /\ \A n \in 1..Version :
              /\ log[n] \in Op /\ log[n].text # <<>>
              /\ DocAt(n) = Apply(DocAt(n - 1), log[n])
              /\ Fits(DocAt(n - 1), log[n])
              /\ \A k \in 0..(n - 1) : Fresh(DocAt(k), log[n])
<1>1. log \in Seq(Op) /\ Documents(log) /\ \A i \in DOMAIN log : Entry(log, i)
  BY DEF DocumentsInv
<1>2. Version = Len(log) /\ Version \in Nat /\ DOMAIN log = 1..Version
  BY <1>1 DEF Version
<1>3. /\ DocAt(0) = <<>>
      /\ \A k \in 0..Version : DocAt(k) \in Seq(Nat) /\ IsInjective(DocAt(k))
      /\ \A n \in 1..Version : DocAt(n) = Apply(DocAt(n - 1), log[n])
  BY <1>1, <1>2 DEF Documents, DocAt
<1>4. ASSUME NEW n \in 1..Version
      PROVE  /\ log[n] \in Op /\ log[n].text # <<>> /\ Fits(DocAt(n - 1), log[n])
             /\ \A k \in 0..(n - 1) : Fresh(DocAt(k), log[n])
  BY <1>1, <1>2 DEF Entry, Arrived, DocAt
<1>5. QED BY <1>2, <1>3, <1>4

(* A character that is gone does not come back.                            *)
LEMMA GoneForGood ==
  ASSUME DocumentsInv, NEW n \in 1..Version, NEW k \in 0..(n - 1),
         NEW c \in ToSet(DocAt(k)), c \in ToSet(DocAt(n))
  PROVE  c \in ToSet(DocAt(n - 1))
<1> DEFINE doc == DocAt(n - 1)
           op == log[n]
<1>1. /\ doc \in Seq(Nat) /\ IsInjective(doc) /\ op \in Op /\ Fits(doc, op)
      /\ DocAt(n) = Apply(doc, op) /\ Fresh(doc, op) /\ Fresh(DocAt(k), op)
  <2>1. Version \in Nat /\ n - 1 \in 0..Version /\ n - 1 \in 0..(n - 1)
    BY InvDocuments
  <2>2. QED BY <2>1, InvDocuments
<1> HIDE DEF doc, op
<1>2. op.type \in {"insert", "delete"}
  BY <1>1, OpFields
<1>3. CASE op.type = "insert"
  <2>1. ToSet(DocAt(n)) = ToSet(doc) \cup ToSet(op.text)
    BY <1>1, <1>3, InsertKeeps DEF Fresh
  <2>2. QED BY <1>1, <1>3, <2>1 DEF Fresh, doc
<1>4. CASE op.type = "delete"
  <2>1. ToSet(DocAt(n)) = {doc[i] : i \in DOMAIN doc \ ((op.index + 1)..(op.index + Len(op.text)))}
    BY <1>1, <1>4, DeleteKeeps
  <2>2. QED BY <2>1 DEF doc, ToSet
<1>5. QED BY <1>2, <1>3, <1>4

(* Where an operation is on its way from saw to doc. *)
Reached(op, saw, doc) ==
  /\ op.type = "insert" => op.index <= Len(doc) /\ InPlace(saw, op.sent, doc, op.index)
  /\ op.type = "delete" => op.text[1] \in ToSet(saw) /\ OnTarget(op, doc)

LEMMA ReachesNext ==
  ASSUME DocumentsInv, NEW n \in 1..Version, NEW k \in 0..(n - 1), NEW op \in Op,
         Reached(op, DocAt(k), DocAt(n - 1))
  PROVE  Reached(Transform(op, log[n]), DocAt(k), DocAt(n))
<1> DEFINE saw == DocAt(k)
           doc == DocAt(n - 1)
           new == DocAt(n)
           applied == log[n]
           moved == Transform(op, applied)
<1>1. /\ doc \in Seq(Nat) /\ IsInjective(doc) /\ applied \in Op /\ Fits(doc, applied)
      /\ new = Apply(doc, applied) /\ Fresh(doc, applied) /\ applied.text # <<>>
  <2>1. Version \in Nat /\ n - 1 \in 0..Version /\ n - 1 \in 0..(n - 1)
    BY InvDocuments
  <2>2. QED BY <2>1, InvDocuments
<1>2. \A c \in ToSet(saw) : c \in ToSet(new) => c \in ToSet(doc)
  BY GoneForGood
<1>3. Reached(op, saw, doc)
  OBVIOUS
<1> HIDE DEF saw, doc, new, applied
<1>4. /\ moved.type = op.type /\ moved.sent = op.sent /\ moved.text = op.text
      /\ op.type \in {"insert", "delete"}
  BY <1>1, TransformFacts, OpFields
<1>5. CASE op.type = "insert"
  <2>1. op.index <= Len(doc) /\ InPlace(saw, op.sent, doc, op.index)
    BY <1>3, <1>5 DEF Reached
  <2>2. /\ moved.index \in 0..Len(new)
        /\ \A c \in ToSet(doc) \cap ToSet(new) :
             Before(doc, op.index, c) <=> Before(new, moved.index, c)
    BY <1>1, <1>5, <2>1, InsertMoves
  <2>3. moved.index <= Len(new)
    <3>1. Len(new) \in Int
      BY <1>1, <1>5, InsertFacts, DeleteFacts, OpFields
    <3> HIDE DEF moved
    <3>2. QED BY <2>2, <3>1
  <2> HIDE DEF moved
  <2>4. InPlace(saw, op.sent, new, moved.index)
    BY <1>2, <2>1, <2>2 DEF InPlace
  <2>5. QED BY <1>4, <1>5, <2>3, <2>4 DEF Reached, moved, saw, new, applied
<1>6. CASE op.type = "delete"
  <2>1. op.text[1] \in ToSet(saw) /\ OnTarget(op, doc)
    BY <1>3, <1>6 DEF Reached
  <2>2. ASSUME op.text[1] \in ToSet(new)
        PROVE  moved.index + 1 \in DOMAIN new /\ new[moved.index + 1] = op.text[1]
    <3>1. op.index + 1 \in DOMAIN doc /\ doc[op.index + 1] = op.text[1]
      BY <1>2, <2>1, <2>2 DEF OnTarget
    <3>2. QED BY <1>1, <1>6, <2>2, <3>1, DeleteMoves
  <2> HIDE DEF moved
  <2>3. OnTarget(moved, new)
    BY <1>4, <2>2 DEF OnTarget
  <2>4. QED BY <1>4, <1>6, <2>1, <2>3 DEF Reached, moved, saw, new, applied
<1>7. QED BY <1>4, <1>5, <1>6

LEMMA SentOf ==
  ASSUME NEW op \in Op, NEW o \in Op, op = Sent(op),
         o.user = op.user, o.base = op.base, o.type = op.type, o.sent = op.sent, o.text = op.text
  PROVE  Sent(o) = op
<1>1. o = [user |-> o.user, base |-> o.base, type |-> o.type, sent |-> o.sent,
           index |-> o.index, text |-> o.text]
  BY DEF Op
<1>2. op = [user |-> op.user, base |-> op.base, type |-> op.type, sent |-> op.sent,
            index |-> op.index, text |-> op.text]
  BY DEF Op
<1>3. op.index = op.sent
  <2>1. Sent(op).index = op.sent
    BY <1>2 DEF Sent
  <2>2. QED BY <2>1
<1>4. QED BY <1>1, <1>2, <1>3 DEF Sent

LEMMA SentFields ==
  ASSUME NEW op \in Op
  PROVE  LET o == Sent(op)
         IN  /\ o \in Op /\ o.user = op.user /\ o.type = op.type /\ o.text = op.text
             /\ o.sent = op.sent /\ o.index = o.sent
BY DEF Op, Sent

(* The transformation of what a client sends.                              *)
LEMMA TransformedArrives ==
  ASSUME DocumentsInv, NEW op \in Op, op.base \in 0..Version, op = Sent(op), op.text # <<>>,
         Fits(DocAt(op.base), op), Reached(op, DocAt(op.base), DocAt(op.base))
  PROVE  LET moved == Transformed(op)
         IN  /\ moved \in Op /\ moved.base = op.base /\ moved.type = op.type
             /\ moved.text = op.text
             /\ Arrived(moved, DocAt(op.base), DocAt(Version))
             /\ op.base = Version => moved = Sent(moved)
             /\ op.base = Version - 1 => moved = Transform(Sent(moved), log[Version])
<1> DEFINE b == op.base
           saw == DocAt(b)
           m == Version - b
           moved == Transformed(op)
<1>1. log \in Seq(Op) /\ Version \in Nat /\ b \in 0..Version /\ m \in Nat
      /\ \A n \in 1..Version : log[n] \in Op
  BY InvDocuments DEF DocumentsInv
<1>2. PICK past \in Pasts(op) : moved = past[Version]
  BY <1>1, TransformedSteps
<1>3. /\ past[b] = op /\ past \in [b..Version -> Op]
      /\ \A n \in (b + 1)..Version : past[n] = Transform(past[n - 1], log[n])
  BY <1>2 DEF Pasts
<1> DEFINE Same(o) == /\ o.user = op.user /\ o.base = op.base /\ o.type = op.type
                      /\ o.sent = op.sent /\ o.text = op.text
           Z == {k \in 0..m : Same(past[b + k]) /\ Reached(past[b + k], saw, DocAt(b + k))}
<1> HIDE DEF moved
<1>4. 0 \in Z
  <2>1. b + 0 = b /\ 0 \in 0..m
    BY <1>1
  <2>2. Same(past[b + 0]) /\ Reached(past[b + 0], saw, DocAt(b + 0))
    BY <1>3, <2>1
  <2> HIDE DEF Same
  <2>3. QED BY <2>1, <2>2
<1>5. ASSUME NEW k \in 0..(m - 1), k \in Z PROVE k + 1 \in Z
  <2> DEFINE n == b + (k + 1)
  <2>1. n \in (b + 1)..Version /\ n - 1 = b + k /\ n \in 1..Version /\ b \in 0..(n - 1)
        /\ k + 1 \in 0..m /\ b + k \in b..Version
    <3>1. /\ Version \in Nat /\ b \in Nat /\ k \in Nat /\ m \in Nat
          /\ k + 1 <= m /\ b + m = Version
      BY <1>1
    <3> HIDE DEF b, m
    <3>2. QED BY <3>1
  <2>2. past[n - 1] \in Op /\ log[n] \in Op /\ past[n] = Transform(past[n - 1], log[n])
    BY <1>1, <1>3, <2>1
  <2>3. Same(past[n - 1]) /\ Reached(past[n - 1], saw, DocAt(n - 1))
    BY <1>5, <2>1
  <2> HIDE DEF n
  <2>4. Reached(past[n], saw, DocAt(n))
    BY <2>1, <2>2, <2>3, ReachesNext
  <2>5. Same(past[n])
    BY <2>2, <2>3, TransformFacts
  <2> HIDE DEF Same
  <2>6. QED BY <2>1, <2>4, <2>5 DEF n
<1> HIDE DEF Z
<1>6. 0..m \subseteq Z
  BY <1>1, <1>4, <1>5, Induction
<1>7. Same(moved) /\ Reached(moved, saw, DocAt(Version)) /\ moved \in Op
  <2>1. m \in 0..m /\ b + m = Version /\ Version \in b..Version
    BY <1>1
  <2>2. Same(past[Version]) /\ Reached(past[Version], saw, DocAt(Version))
    BY <1>6, <2>1 DEF Z
  <2>3. QED BY <1>2, <1>3, <2>1, <2>2
<1>8. Sent(moved) = op
  BY <1>7, SentOf
<1>9. Arrived(moved, saw, DocAt(Version))
  BY <1>7, <1>8 DEF Arrived, Reached
<1>10. b = Version => moved = Sent(moved)
  BY <1>2, <1>3, <1>8
<1>11. ASSUME b = Version - 1 PROVE moved = Transform(Sent(moved), log[Version])
  <2>1. Version \in (b + 1)..Version /\ Version - 1 = b
    BY <1>1, <1>11
  <2>2. past[Version] = Transform(past[b], log[Version])
    BY <1>3, <2>1
  <2>3. QED BY <1>2, <1>3, <1>8, <2>2
<1>12. QED BY <1>7, <1>9, <1>10, <1>11 DEF moved

(* The operations that clients send. *)
LEMMA SentFits ==
  ASSUME DocumentsInv, NEW u \in Users, NEW base \in 0..Version,
         NEW op \in Inserts(u, base) \cup Deletes(u, base)
  PROVE  /\ op \in Op /\ op.base = base /\ op = Sent(op) /\ op.text # <<>>
         /\ Fits(DocAt(base), op) /\ Reached(op, DocAt(base), DocAt(base))
         /\ op.type = "insert" =>
              /\ IsInjective(op.text)
              /\ \A k \in DOMAIN op.text :
                   MaxText * Version < op.text[k] /\ op.text[k] <= MaxText * Version + MaxText
<1> DEFINE saw == DocAt(base)
           first == MaxText * Version
<1>1. /\ saw \in Seq(Nat) /\ IsInjective(saw) /\ Len(saw) \in Nat /\ DOMAIN saw = 1..Len(saw)
      /\ MaxText \in Nat /\ first \in Nat /\ base \in Nat
  BY InvDocuments, EditorAssumption
<1>2. ASSUME op \in Inserts(u, base)
      PROVE  \E i \in 0..Len(saw), n \in 1..MaxText :
               op = [user |-> u, base |-> base, type |-> "insert", sent |-> i, index |-> i,
                     text |-> [k \in 1..n |-> first + k]]
  BY <1>2 DEF Inserts
<1>3. ASSUME op \in Deletes(u, base)
      PROVE  \E i, j \in 0..Len(saw) :
               /\ i < j
               /\ op = [user |-> u, base |-> base, type |-> "delete", sent |-> i, index |-> i,
                        text |-> SubSeq(saw, i + 1, j)]
  BY <1>3 DEF Deletes
<1> HIDE DEF saw, first
<1>4. CASE op \in Inserts(u, base)
  <2>1. PICK i \in 0..Len(saw), n \in 1..MaxText :
          op = [user |-> u, base |-> base, type |-> "insert", sent |-> i, index |-> i,
                text |-> [k \in 1..n |-> first + k]]
    BY <1>2, <1>4
  <2> DEFINE text == [k \in 1..n |-> first + k]
  <2>2. /\ text \in Seq(Nat) /\ Len(text) = n /\ DOMAIN text = 1..n /\ text # <<>>
        /\ \A k \in 1..n : text[k] = first + k
    <3>1. n \in Nat
      BY <1>1
    <3>2. text \in Seq(Nat) /\ Len(text) = n /\ DOMAIN text = 1..n
      BY <1>1, <3>1
    <3>3. QED BY <3>2
  <2>3. IsInjective(text)
    BY <1>1, <2>2 DEF IsInjective
  <2>4. \A k \in DOMAIN text : first < text[k] /\ text[k] <= first + MaxText
    BY <1>1, <2>2
  <2>a. op = [user |-> u, base |-> base, type |-> "insert", sent |-> i, index |-> i,
              text |-> text]
    BY <2>1
  <2> HIDE DEF text
  <2>5. /\ op.user = u /\ op.base = base /\ op.type = "insert" /\ op.sent = i
        /\ op.index = i /\ op.text = text
    BY <2>a
  <2>6. op \in Op /\ op = Sent(op)
    BY <1>1, <2>2, <2>a DEF Op, Sent
  <2>7. Fits(saw, op) /\ Reached(op, saw, saw)
    BY <1>1, <2>5 DEF Fits, Reached, InPlace
  <2>8. QED BY <2>2, <2>3, <2>4, <2>5, <2>6, <2>7 DEF saw, first
<1>5. CASE op \in Deletes(u, base)
  <2>1. PICK i \in 0..Len(saw), j \in 0..Len(saw) :
          /\ i < j
          /\ op = [user |-> u, base |-> base, type |-> "delete", sent |-> i, index |-> i,
                   text |-> SubSeq(saw, i + 1, j)]
    BY <1>3, <1>5
  <2> DEFINE text == SubSeq(saw, i + 1, j)
  <2>2. text \in Seq(Nat) /\ Len(text) = j - i /\ text[1] = saw[i + 1] /\ text # <<>>
        /\ i + 1 \in DOMAIN saw
    <3>1. i \in Nat /\ j \in Nat /\ i + 1 \in 1..Len(saw) /\ j \in 1..Len(saw)
      BY <1>1, <2>1
    <3>2. text \in Seq(Nat) /\ Len(text) = j - i
      BY <1>1, <2>1, <3>1
    <3>3. text[1] = saw[i + 1]
      BY <1>1, <2>1, <3>1
    <3>4. text # <<>>
      BY <2>1, <3>1, <3>2
    <3>5. QED BY <1>1, <3>1, <3>2, <3>3, <3>4
  <2>a. op = [user |-> u, base |-> base, type |-> "delete", sent |-> i, index |-> i,
              text |-> text]
    BY <2>1
  <2> HIDE DEF text
  <2>5. /\ op.user = u /\ op.base = base /\ op.type = "delete" /\ op.sent = i
        /\ op.index = i /\ op.text = text
    BY <2>a
  <2>6. op \in Op /\ op = Sent(op)
    BY <1>1, <2>2, <2>a DEF Op, Sent
  <2>7. Fits(saw, op)
    BY <1>1, <2>1, <2>2, <2>5 DEF Fits
  <2>8. Reached(op, saw, saw)
    BY <1>1, <2>2, <2>5 DEF Reached, OnTarget, ToSet
  <2>9. QED BY <2>2, <2>5, <2>6, <2>7, <2>8 DEF saw
<1>6. QED BY <1>4, <1>5

LEMMA EditStep ==
  ASSUME DocumentsInv, NEW u \in Users, NEW base \in 0..Version,
         NEW op \in Inserts(u, base) \cup Deletes(u, base), Edit(op)
  PROVE  DocumentsInv' /\ Version' = Version + 1
<1> DEFINE moved == Transformed(op)
           V == Version
           saw == DocAt(base)
           doc == DocAt(V)
           new == Apply(doc, moved)
           more == Append(log, moved)
           limit == MaxText * V
<1>1. /\ log \in Seq(Op) /\ Documents(log) /\ Used(log, limit) /\ content = doc
      /\ \A i \in DOMAIN log : Entry(log, i)
      /\ V = Len(log) /\ V \in Nat /\ DOMAIN log = 1..V
      /\ MaxText \in Nat
  BY InvDocuments, EditorAssumption DEF DocumentsInv
<1>2. /\ op \in Op /\ op.base = base /\ op = Sent(op) /\ op.text # <<>>
      /\ Fits(saw, op) /\ Reached(op, saw, saw)
      /\ op.type = "insert" =>
           /\ IsInjective(op.text)
           /\ \A k \in DOMAIN op.text : limit < op.text[k] /\ op.text[k] <= limit + MaxText
  BY SentFits
<1>3. /\ moved \in Op /\ moved.base = base /\ moved.type = op.type /\ moved.text = op.text
      /\ Arrived(moved, saw, doc)
      /\ base = V => moved = Sent(moved)
      /\ base = V - 1 => moved = Transform(Sent(moved), log[V])
  BY <1>2, TransformedArrives
<1>4. Fits(doc, moved) /\ content' = new /\ log' = more
  BY <1>1 DEF Edit
<1>5. \A k \in 0..V : DocAt(k) \in Seq(Nat) /\ IsInjective(DocAt(k))
  BY InvDocuments
<1>6. limit \in Nat
  BY <1>1
<1> HIDE DEF moved, V, saw, limit
<1>7. ASSUME NEW k \in 0..V PROVE Fresh(DocAt(k), moved)
  <2>1. \A c \in ToSet(DocAt(k)) : c <= limit /\ c \in Nat
    <3>1. DocAt(k) \in Seq(Nat)
      BY <1>5
    <3>2. \A c \in ToSet(DocAt(k)) : c \in Nat
      BY <3>1 DEF ToSet
    <3>3. \A c \in ToSet(DocAt(k)) : c <= limit
      BY <1>1 DEF Used, DocAt
    <3>4. QED BY <3>2, <3>3
  <2>2. ASSUME moved.type = "insert"
        PROVE  IsInjective(moved.text) /\ ToSet(DocAt(k)) \cap ToSet(moved.text) = {}
    <3>1. /\ IsInjective(moved.text)
          /\ \A h \in DOMAIN moved.text : limit < moved.text[h]
      BY <1>2, <1>3, <2>2
    <3>2. moved.text \in Seq(Nat)
      BY <1>3, OpFields
    <3>3. ASSUME NEW c \in ToSet(moved.text) PROVE c \notin ToSet(DocAt(k))
      <4>1. PICK h \in DOMAIN moved.text : moved.text[h] = c
        BY DEF ToSet
      <4>2. c \in Nat /\ limit < c
        BY <3>1, <3>2, <4>1
      <4>3. QED BY <1>6, <2>1, <4>2
    <3>4. QED BY <3>1, <3>3
  <2>3. QED BY <2>2 DEF Fresh
<1>8. V \in 0..V /\ doc \in Seq(Nat) /\ IsInjective(doc) /\ Fresh(doc, moved)
      /\ moved.type \in {"insert", "delete"}
  BY <1>1, <1>3, <1>5, <1>7, OpFields
<1> HIDE DEF doc
<1>9. /\ new \in Seq(Nat) /\ IsInjective(new)
      /\ \A c \in ToSet(new) :
           c \in ToSet(doc) \/ (moved.type = "insert" /\ c \in ToSet(moved.text))
  <2>1. CASE moved.type = "insert"
    <3>1. IsInjective(moved.text) /\ ToSet(doc) \cap ToSet(moved.text) = {}
      BY <1>8, <2>1 DEF Fresh
    <3>2. new \in Seq(Nat)
      BY <1>3, <1>4, <1>8, <2>1, InsertFacts
    <3>3. IsInjective(new) /\ ToSet(new) = ToSet(doc) \cup ToSet(moved.text)
      BY <1>3, <1>4, <1>8, <2>1, <3>1, InsertKeeps
    <3> HIDE DEF new
    <3>4. QED BY <2>1, <3>2, <3>3
  <2>2. CASE moved.type = "delete"
    <3>1. new \in Seq(Nat) /\ IsInjective(new)
      BY <1>3, <1>4, <1>8, <2>2, DeleteFacts, DeleteKeeps
    <3>2. ToSet(new) =
            {doc[i] : i \in DOMAIN doc \ ((moved.index + 1)..(moved.index + Len(moved.text)))}
      BY <1>3, <1>4, <1>8, <2>2, DeleteKeeps
    <3>3. ToSet(new) \subseteq ToSet(doc)
      BY <3>2 DEF ToSet
    <3> HIDE DEF new
    <3>4. QED BY <3>1, <3>3
  <2>3. QED BY <1>8, <2>1, <2>2
<1>10. doc = Document(log, V)
  BY DEF doc, DocAt
<1>11. /\ Documents(more)
       /\ \A k \in 0..V : Document(more, k) = Document(log, k)
       /\ Document(more, Len(more)) = new
  BY <1>1, <1>3, <1>9, <1>10, AppendDocument
<1>12. /\ more \in Seq(Op) /\ Len(more) = V + 1 /\ more[V + 1] = moved
       /\ DOMAIN more = 1..(V + 1)
       /\ \A k \in 1..V : more[k] = log[k]
  BY <1>1, <1>3
<1> HIDE DEF more, new
<1>13. Version' = V + 1 /\ DocAt(Version)' = new
  BY <1>4, <1>11, <1>12 DEF Version, DocAt
<1>14. Used(more, MaxText * (V + 1))
  <2>1. MaxText * (V + 1) = limit + MaxText
    BY <1>1 DEF limit
  <2>2. ASSUME NEW k \in 0..V, NEW c \in ToSet(Document(more, k)) PROVE c <= limit + MaxText
    <3>1. c \in ToSet(DocAt(k)) /\ DocAt(k) \in Seq(Nat)
      BY <1>5, <1>11, <2>2 DEF DocAt
    <3>2. c <= limit
      BY <1>1, <3>1 DEF Used, DocAt
    <3>3. c \in Nat
      BY <3>1 DEF ToSet
    <3>4. QED BY <1>1, <1>6, <3>2, <3>3
  <2>3. ASSUME NEW c \in ToSet(new) PROVE c <= limit + MaxText
    <3>1. CASE c \in ToSet(doc)
      <4>1. c \in ToSet(Document(more, V))
        BY <1>8, <1>10, <1>11, <3>1
      <4>2. QED BY <1>8, <2>2, <4>1
    <3>2. CASE moved.type = "insert" /\ c \in ToSet(moved.text)
      BY <1>2, <1>3, <3>2 DEF ToSet
    <3>3. QED BY <1>9, <3>1, <3>2
  <2>4. \A k \in 0..Len(more) : k \in 0..V \/ k = Len(more)
    BY <1>1, <1>12
  <2>5. QED BY <1>11, <2>1, <2>2, <2>3, <2>4 DEF Used
<1>15. ASSUME NEW i \in 1..V PROVE Entry(more, i)
  <2>1. Entry(log, i) /\ log[i] \in Op
    BY <1>1
  <2>2. log[i].base \in Nat /\ log[i].base < i
    BY <2>1, OpFields DEF Entry
  <2>3. /\ more[i] = log[i] /\ Document(more, i - 1) = Document(log, i - 1)
        /\ Document(more, log[i].base) = Document(log, log[i].base)
        /\ \A k \in 0..(i - 1) : Document(more, k) = Document(log, k)
    <3>1. i - 1 \in 0..V /\ log[i].base \in 0..V /\ \A k \in 0..(i - 1) : k \in 0..V
      BY <1>1, <2>2
    <3>2. QED BY <1>11, <1>12, <3>1
  <2>4. log[i].base = i - 2 => more[i - 1] = log[i - 1]
    <3>1. log[i].base = i - 2 => i - 1 \in 1..V
      BY <1>1, <2>2
    <3>2. QED BY <1>12, <3>1
  <2>5. QED BY <2>1, <2>3, <2>4 DEF Entry
<1>16. Entry(more, V + 1)
  <2>1. (V + 1) - 1 = V /\ base \in 0..V /\ base < V + 1
    BY <1>1 DEF V
  <2>2. Document(more, V) = doc /\ Document(more, base) = saw
    BY <1>8, <1>10, <1>11, <2>1 DEF saw, DocAt
  <2>3. \A k \in 0..V : Fresh(Document(more, k), moved)
    BY <1>7, <1>11 DEF DocAt
  <2>4. ASSUME base = V - 1 PROVE moved = Transform(Sent(moved), more[V])
    <3>1. V \in 1..V
      BY <1>1, <2>1, <2>4
    <3>2. QED BY <1>3, <1>12, <2>4, <3>1
  <2>5. (V + 1) - 2 = V - 1
    BY <1>1
  <2>6. QED BY <1>3, <1>4, <1>12, <2>1, <2>2, <2>3, <2>4, <2>5 DEF Entry
<1>17. \A i \in DOMAIN more : Entry(more, i)
  <2>1. \A i \in DOMAIN more : i \in 1..V \/ i = V + 1
    BY <1>1, <1>12
  <2>2. QED BY <1>15, <1>16, <2>1
<1>18. QED BY <1>4, <1>11, <1>12, <1>13, <1>14, <1>17 DEF DocumentsInv, V

-----------------------------------------------------------------------------
(* The other actions. *)

LEMMA NotEdited ==
  ASSUME DocumentsInv, content' = content, log' = log
  PROVE  DocumentsInv' /\ (DOMAIN log)' = DOMAIN log
BY DEF DocumentsInv, Version, DocAt

LEMMA EditKeepsMatches ==
  ASSUME EditorInv, NEW u \in Users, NEW base \in 0..Version,
         NEW op \in Inserts(u, base) \cup Deletes(u, base), Edit(op)
  PROVE  MatchesInv'
<1> DEFINE V == Version
<1>1. DocumentsInv /\ MatchesInv
  BY DEF EditorInv
<1>2. /\ DocumentsInv' /\ Version' = V + 1 /\ V \in Nat /\ DOMAIN log = 1..V
  BY <1>1, EditStep, InvDocuments
<1>3. (DOMAIN log)' = 1..(V + 1)
  <2>1. log' \in Seq(Op) /\ Len(log') = V + 1
    BY <1>2 DEF DocumentsInv, Version
  <2>2. QED BY <2>1
<1>4. /\ pending' = IF current = NoMatch THEN pending
                    ELSE pending \cup {[match |-> current, version |-> V + 1]}
      /\ UNCHANGED <<current, begun, started, exists, stored>>
  BY DEF Edit
<1> HIDE DEF V
<1>5. DOMAIN log \subseteq (DOMAIN log)' /\ V + 1 \in (DOMAIN log)'
  BY <1>2, <1>3
<1>6. \A p \in pending' : p.match \in begun /\ p.version \in (DOMAIN log)'
  <2>1. \A p \in pending : p.match \in begun /\ p.version \in (DOMAIN log)'
    BY <1>1, <1>5 DEF MatchesInv
  <2>2. CASE current = NoMatch
    BY <1>4, <2>1, <2>2
  <2>3. CASE current # NoMatch
    <3>1. current \in begun
      BY <1>1, <2>3 DEF MatchesInv
    <3>2. QED BY <1>4, <1>5, <2>1, <2>3, <3>1
  <2>4. QED BY <2>2, <2>3
<1>7. stored \in [Matches -> SUBSET (DOMAIN log)']
  BY <1>1, <1>5 DEF MatchesInv
<1>8. QED BY <1>1, <1>4, <1>6, <1>7 DEF MatchesInv

LEMMA MatchSteps ==
  ASSUME EditorInv,
         \/ \E p \in pending : LogEdit(p)
         \/ \E m \in Matches : BeginMatch(m) \/ StartMatch(m) \/ CreateRow(m)
         \/ EndMatch
         \/ UNCHANGED vars
  PROVE  EditorInv'
<1>1. DocumentsInv /\ MatchesInv
  BY DEF EditorInv
<1>2. content' = content /\ log' = log
  BY DEF LogEdit, BeginMatch, StartMatch, CreateRow, EndMatch, vars
<1>3. DocumentsInv' /\ (DOMAIN log)' = DOMAIN log
  BY <1>1, <1>2, NotEdited
<1> USE <1>1, <1>3 DEF MatchesInv
<1>4. ASSUME NEW p \in pending, LogEdit(p) PROVE MatchesInv'
  <2>1. /\ pending' \subseteq pending
        /\ UNCHANGED <<current, begun, started, exists>>
    BY <1>4 DEF LogEdit
  <2>2. stored' \in [Matches -> SUBSET DOMAIN log]
    <3>1. CASE p.match \in exists /\ stored' = [stored EXCEPT ![p.match] = @ \cup {p.version}]
      BY <3>1
    <3>2. CASE stored' = stored
      BY <3>2
    <3>3. QED BY <1>4, <3>1, <3>2 DEF LogEdit
  <2>3. QED BY <2>1, <2>2
<1>5. ASSUME NEW m \in Matches, BeginMatch(m) PROVE MatchesInv'
  BY <1>5 DEF BeginMatch
<1>6. ASSUME NEW m \in Matches, StartMatch(m) PROVE MatchesInv'
  <2>1. m # NoMatch
    BY EditorAssumption
  <2>2. QED BY <1>6, <2>1 DEF StartMatch
<1>7. ASSUME NEW m \in Matches, CreateRow(m) PROVE MatchesInv'
  BY <1>7 DEF CreateRow
<1>8. ASSUME EndMatch PROVE MatchesInv'
  BY <1>8 DEF EndMatch
<1>9. ASSUME UNCHANGED vars PROVE MatchesInv'
  BY <1>9 DEF vars
<1>10. QED BY <1>3, <1>4, <1>5, <1>6, <1>7, <1>8, <1>9 DEF EditorInv

LEMMA InitEditor == Init => EditorInv
<1> SUFFICES ASSUME Init PROVE EditorInv
  OBVIOUS
<1>1. /\ log = <<>> /\ log \in Seq(Op) /\ Len(log) = 0 /\ DOMAIN log = {} /\ Version = 0
      /\ content = <<>> /\ <<>> \in Seq(Nat)
  BY DEF Init, Version
<1>2. Document(log, 0) = <<>>
  <2> DEFINE docs == [k \in 0..0 |-> <<>>]
  <2>1. docs \in [0..0 -> Seq(Nat)] /\ docs[0] = <<>>
    BY <1>1
  <2> HIDE DEF docs
  <2>2. 0 \in Nat /\ 0 \in 0..0 /\ \A k \in 1..0 : docs[k] = Apply(docs[k - 1], log[k])
    OBVIOUS
  <2>3. QED BY <2>1, <2>2, DocumentIs
<1>3. IsInjective(<<>>) /\ ToSet(<<>>) = {}
  BY DEF IsInjective, ToSet
<1>4. \A k \in 0..Len(log) : Document(log, k) = <<>>
  BY <1>1, <1>2
<1>5. Documents(log) /\ Used(log, MaxText * Version)
  <2>1. \A k \in 0..Len(log) :
          Document(log, k) \in Seq(Nat) /\ IsInjective(Document(log, k))
    BY <1>1, <1>3, <1>4
  <2>2. 1..Len(log) = {}
    BY <1>1
  <2>3. Documents(log)
    BY <1>2, <2>1, <2>2 DEF Documents
  <2>4. \A k \in 0..Len(log) : ToSet(Document(log, k)) = {}
    BY <1>3, <1>4
  <2>5. QED BY <2>3, <2>4 DEF Used
<1>6. DocumentsInv
  BY <1>1, <1>2, <1>5 DEF DocumentsInv, DocAt
<1>7. MatchesInv
  BY <1>1 DEF Init, MatchesInv
<1>8. QED BY <1>6, <1>7 DEF EditorInv

LEMMA NextKeepsInv ==
  ASSUME EditorInv, [Next]_vars
  PROVE  EditorInv'
<1>1. ASSUME NEW u \in Users, NEW base \in 0..Version,
             NEW op \in Inserts(u, base) \cup Deletes(u, base), Edit(op)
      PROVE  EditorInv'
  <2>1. DocumentsInv
    BY DEF EditorInv
  <2>2. DocumentsInv'
    BY <1>1, <2>1, EditStep
  <2>3. MatchesInv'
    BY <1>1, EditKeepsMatches
  <2>4. QED BY <2>2, <2>3 DEF EditorInv
<1>2. QED BY <1>1, MatchSteps DEF Next

-----------------------------------------------------------------------------
(* The theorems. *)

(* The inductive invariant: what every operation of the log is to the      *)
(* document its author saw and to those before it, whatever was applied    *)
(* meanwhile.                                                              *)
THEOREM EditorInvariance == Spec => []EditorInv
<1>1. EditorInv /\ [Next]_vars => EditorInv'
  BY NextKeepsInv
<1>2. QED BY InitEditor, <1>1, PTL DEF Spec

(* The document is the log applied from the empty one, each operation of   *)
(* it fits, and the matches keep their order of life.                      *)
THEOREM DocumentTyped == Spec => []TypeOK
<1>1. ASSUME EditorInv PROVE TypeOK
  <2>1. DocumentsInv /\ MatchesInv
    BY <1>1 DEF EditorInv
  <2>2. Version \in 0..Version /\ content = DocAt(Version) /\ IsInjective(content)
    BY <2>1, InvDocuments DEF DocumentsInv
  <2>3. \A i \in DOMAIN log :
          log[i].base < i /\ log[i].text # <<>> /\ Fits(DocAt(i - 1), log[i])
    BY <2>1 DEF DocumentsInv, Entry, Arrived, DocAt
  <2>4. QED BY <2>1, <2>2, <2>3 DEF MatchesInv, TypeOK
<1>2. EditorInv => TypeOK
  BY <1>1
<1>3. QED BY EditorInvariance, <1>2, PTL

(* Whatever was applied between the version its author saw and its own,    *)
(* inserted text keeps its place among the characters that are left.       *)
THEOREM InsertsKeepPlace == Spec => []InsertsInPlace
<1>1. ASSUME EditorInv PROVE InsertsInPlace
  <2>1. \A i \in DOMAIN log :
          Arrived(log[i], DocAt(log[i].base), DocAt(i - 1))
    BY <1>1 DEF EditorInv, DocumentsInv, Entry, DocAt
  <2>2. QED BY <2>1 DEF InsertsInPlace, Arrived, InPlace
<1>2. EditorInv => InsertsInPlace
  BY <1>1
<1>3. QED BY EditorInvariance, <1>2, PTL

LEMMA StretchFacts ==
  ASSUME NEW doc \in Seq(Nat), IsInjective(doc), NEW x \in Nat, NEW n \in Nat,
         x + n <= Len(doc), NEW text \in Seq(Nat), Len(text) = n,
         \A k \in 1..n : text[k] = doc[x + k]
  PROVE  \A k \in DOMAIN doc : doc[k] \in ToSet(text) <=> k \in (x + 1)..(x + n)
<1>1. DOMAIN doc = 1..Len(doc) /\ DOMAIN text = 1..n /\ Len(doc) \in Nat
  OBVIOUS
<1>2. ASSUME NEW k \in (x + 1)..(x + n) PROVE doc[k] \in ToSet(text)
  <2>1. k - x \in 1..n /\ x + (k - x) = k
    OBVIOUS
  <2>2. text[k - x] = doc[k] /\ k - x \in DOMAIN text
    BY <1>1, <2>1
  <2>3. QED BY <2>2 DEF ToSet
<1>3. ASSUME NEW k \in DOMAIN doc \ ((x + 1)..(x + n)) PROVE doc[k] \notin ToSet(text)
  <2>1. SUFFICES ASSUME NEW h \in 1..n, text[h] = doc[k] PROVE FALSE
    BY <1>1 DEF ToSet
  <2>2. x + h \in DOMAIN doc /\ x + h \in (x + 1)..(x + n) /\ doc[x + h] = doc[k]
    BY <1>1, <2>1
  <2>3. QED BY <2>2 DEF IsInjective
<1>4. QED BY <1>2, <1>3

(* A delete whose text is still in one piece removes just that text.       *)
THEOREM DeletesAreExact == Spec => []DeletesWhatItMeant
<1>1. ASSUME EditorInv, NEW i \in DOMAIN log, log[i].type = "delete",
             Contiguous(DocAt(i - 1), log[i].text)
      PROVE  /\ ToSet(DocAt(i)) = ToSet(DocAt(i - 1)) \ ToSet(log[i].text)
             /\ \A j, k \in DOMAIN DocAt(i) :
                  j < k => \E a, b \in DOMAIN DocAt(i - 1) :
                             /\ a < b
                             /\ DocAt(i - 1)[a] = DocAt(i)[j]
                             /\ DocAt(i - 1)[b] = DocAt(i)[k]
  <2> DEFINE op == log[i]
             doc == DocAt(i - 1)
             rest == DocAt(i)
             n == Len(op.text)
  <2>1. DocumentsInv /\ i \in 1..Version /\ Version \in Nat
    BY <1>1, InvDocuments DEF EditorInv
  <2>2. /\ op \in Op /\ op.text # <<>> /\ rest = Apply(doc, op) /\ Fits(doc, op)
        /\ doc \in Seq(Nat) /\ IsInjective(doc)
    <3>1. i - 1 \in 0..Version
      BY <2>1
    <3>2. QED BY <2>1, <3>1, InvDocuments
  <2>3. OnTarget(op, doc)
    BY <1>1, <2>1 DEF DocumentsInv, Entry, Arrived, DocAt
  <2>4. op.type = "delete" /\ Contiguous(doc, op.text)
    BY <1>1
  <2> HIDE DEF op, doc, rest
  <2>5. /\ op.text \in Seq(Nat) /\ n \in Nat /\ n # 0 /\ op.index \in Nat
        /\ op.index + n <= Len(doc) /\ Len(doc) \in Nat /\ DOMAIN doc = 1..Len(doc)
    BY <2>2, <2>4, OpFields DEF Fits
  <2>6. PICK j \in 0..(Len(doc) - n) : SubSeq(doc, j + 1, j + n) = op.text
    BY <2>4 DEF Contiguous
  <2>7. ASSUME NEW k \in 1..n PROVE op.text[k] = doc[j + k]
    <3>1. SubSeq(doc, j + 1, j + n)[k] = doc[j + k]
      BY <2>2, <2>5, <2>6
    <3>2. QED BY <2>6, <3>1
  <2>8. j = op.index
    <3>1. j + 1 \in DOMAIN doc /\ op.text[1] = doc[j + 1]
      BY <2>5, <2>6, <2>7
    <3>2. op.index + 1 \in DOMAIN doc /\ doc[op.index + 1] = doc[j + 1]
      BY <2>3, <3>1 DEF OnTarget, ToSet
    <3>3. op.index + 1 = j + 1
      BY <2>2, <3>1, <3>2 DEF IsInjective
    <3>4. QED BY <2>5, <2>6, <3>3
  <2>9. /\ ToSet(rest) = {doc[k] : k \in DOMAIN doc \ ((op.index + 1)..(op.index + n))}
        /\ \A h, k \in DOMAIN rest :
             h < k => \E a, b \in DOMAIN doc : a < b /\ doc[a] = rest[h] /\ doc[b] = rest[k]
    BY <2>2, <2>4, DeleteKeeps
  <2>10. ToSet(rest) = ToSet(doc) \ ToSet(op.text)
    <3>1. \A k \in 1..n : op.text[k] = doc[op.index + k]
      BY <2>7, <2>8
    <3>2. \A k \in DOMAIN doc :
            doc[k] \in ToSet(op.text) <=> k \in (op.index + 1)..(op.index + n)
      BY <2>2, <2>5, <3>1, StretchFacts
    <3>3. \A c : c \in ToSet(doc) <=> \E k \in DOMAIN doc : doc[k] = c
      BY DEF ToSet
    <3> HIDE DEF n
    <3>4. QED BY <2>9, <3>2, <3>3
  <2>11. QED BY <2>9, <2>10 DEF op, doc, rest
<1>2. EditorInv => DeletesWhatItMeant
  <2> SUFFICES ASSUME EditorInv PROVE DeletesWhatItMeant
    OBVIOUS
  <2>1. QED BY <1>1 DEF DeletesWhatItMeant
<1>3. QED BY EditorInvariance, <1>2, PTL

-----------------------------------------------------------------------------
(* Two operations on one version, in either order. *)

LEMMA SameSequence ==
  ASSUME NEW s \in Seq(Nat), NEW t \in Seq(Nat), Len(s) = Len(t),
         \A k \in 1..Len(s) : s[k] = t[k]
  PROVE  s = t
OBVIOUS

(* apply, read from the document that it gives. *)
LEMMA InsertGives ==
  ASSUME NEW doc \in Seq(Nat), NEW op \in Op, op.type = "insert", Fits(doc, op)
  PROVE  LET new == Apply(doc, op)
             n == Len(op.text)
         IN  /\ new \in Seq(Nat) /\ Len(new) = Len(doc) + n
             /\ \A k \in 1..Len(new) :
                  new[k] = IF k <= op.index THEN doc[k]
                           ELSE IF k <= op.index + n THEN op.text[k - op.index]
                           ELSE doc[k - n]
<1> DEFINE x == op.index
           text == op.text
           n == Len(op.text)
           new == Apply(doc, op)
<1>1. /\ new \in Seq(Nat) /\ Len(new) = Len(doc) + n
      /\ \A k \in 1..x : new[k] = doc[k]
      /\ \A k \in 1..n : new[x + k] = text[k]
      /\ \A k \in (x + 1)..Len(doc) : new[k + n] = doc[k]
  BY InsertFacts
<1>2. x \in Nat /\ n \in Nat /\ x <= Len(doc) /\ Len(doc) \in Nat
  BY OpFields DEF Fits
<1> HIDE DEF x, text, n, new
<1>3. ASSUME NEW k \in 1..Len(new)
      PROVE  new[k] = IF k <= x THEN doc[k]
                      ELSE IF k <= x + n THEN text[k - x] ELSE doc[k - n]
  <2>1. CASE k <= x
    BY <1>1, <1>2, <2>1
  <2>2. CASE k > x /\ k <= x + n
    <3>1. k - x \in 1..n /\ x + (k - x) = k
      BY <1>2, <2>2
    <3>2. QED BY <1>1, <1>2, <2>2, <3>1
  <2>3. CASE k > x + n
    <3>1. k - n \in (x + 1)..Len(doc) /\ (k - n) + n = k
      BY <1>1, <1>2, <2>3
    <3>2. new[k] = doc[k - n]
      BY <1>1, <3>1
    <3>3. QED BY <1>2, <2>3, <3>2
  <2>4. QED BY <1>2, <2>1, <2>2, <2>3
<1>4. QED BY <1>1, <1>3 DEF x, text, n, new

LEMMA DeleteGives ==
  ASSUME NEW doc \in Seq(Nat), NEW op \in Op, op.type = "delete", Fits(doc, op)
  PROVE  LET new == Apply(doc, op)
             n == Len(op.text)
         IN  /\ new \in Seq(Nat) /\ Len(new) = Len(doc) - n
             /\ \A k \in 1..Len(new) :
                  new[k] = IF k <= op.index THEN doc[k] ELSE doc[k + n]
<1> DEFINE x == op.index
           n == Len(op.text)
           new == Apply(doc, op)
<1>1. /\ new \in Seq(Nat) /\ Len(new) = Len(doc) - n /\ x + n <= Len(doc)
      /\ \A k \in 1..x : new[k] = doc[k]
      /\ \A k \in (x + n + 1)..Len(doc) : new[k - n] = doc[k]
  BY DeleteFacts
<1>2. x \in Nat /\ n \in Nat /\ Len(doc) \in Nat
  BY OpFields
<1> HIDE DEF x, n, new
<1>3. ASSUME NEW k \in 1..Len(new)
      PROVE  new[k] = IF k <= x THEN doc[k] ELSE doc[k + n]
  <2>1. CASE k <= x
    BY <1>1, <1>2, <2>1
  <2>2. CASE k > x
    <3>1. k + n \in (x + n + 1)..Len(doc) /\ (k + n) - n = k
      BY <1>1, <1>2, <2>2
    <3>2. new[k] = doc[k + n]
      BY <1>1, <3>1
    <3>3. QED BY <1>2, <2>2, <3>2
  <2>3. QED BY <1>2, <2>1, <2>2
<1>4. QED BY <1>1, <1>3 DEF x, n, new

(* Of two operations on one document, neither of which touches what the    *)
(* other does, the left one moves the right one only.                      *)
LEMMA InsertsCommute ==
  ASSUME NEW doc \in Seq(Nat), NEW a \in Op, NEW b \in Op,
         a.type = "insert", b.type = "insert", Fits(doc, a), Fits(doc, b),
         a.index < b.index \/ (a.index = b.index /\ a.user < b.user)
  PROVE  Apply(Apply(doc, a), Transform(b, a)) = Apply(Apply(doc, b), Transform(a, b))
<1> DEFINE m == Len(a.text)
           n == Len(b.text)
           x == a.index
           y == b.index
           one == Apply(doc, a)
           two == Apply(doc, b)
           b1 == Transform(b, a)
           a1 == Transform(a, b)
           s == Apply(one, b1)
           t == Apply(two, a1)
<1>1. /\ x \in Nat /\ y \in Nat /\ m \in Nat /\ n \in Nat /\ Len(doc) \in Nat
      /\ x <= y /\ x <= Len(doc) /\ y <= Len(doc)
  BY OpFields DEF Fits
<1>2. a1 \in Op /\ a1.type = "insert" /\ a1.text = a.text /\ a1.index = x
  BY OpFields, TransformFacts DEF InsertInsert
<1>3. b1 \in Op /\ b1.type = "insert" /\ b1.text = b.text /\ b1.index = y + m
  BY OpFields, TransformFacts DEF InsertInsert
<1>4. /\ one \in Seq(Nat) /\ Len(one) = Len(doc) + m
      /\ \A k \in 1..Len(one) : one[k] = IF k <= x THEN doc[k]
                                      ELSE IF k <= x + m THEN a.text[k - x] ELSE doc[k - m]
  BY InsertGives
<1>5. /\ two \in Seq(Nat) /\ Len(two) = Len(doc) + n
      /\ \A k \in 1..Len(two) : two[k] = IF k <= y THEN doc[k]
                                      ELSE IF k <= y + n THEN b.text[k - y] ELSE doc[k - n]
  BY InsertGives
<1> HIDE DEF one, two, a1, b1
<1>6. /\ s \in Seq(Nat) /\ Len(s) = Len(one) + n
      /\ \A k \in 1..Len(s) :
           s[k] = IF k <= y + m THEN one[k]
                  ELSE IF k <= y + m + n THEN b.text[k - (y + m)] ELSE one[k - n]
  <2>1. Fits(one, b1)
    BY <1>1, <1>3, <1>4 DEF Fits
  <2>2. /\ s \in Seq(Nat) /\ Len(s) = Len(one) + Len(b1.text)
        /\ \A k \in 1..Len(s) :
             s[k] = IF k <= b1.index THEN one[k]
                    ELSE IF k <= b1.index + Len(b1.text) THEN b1.text[k - b1.index]
                    ELSE one[k - Len(b1.text)]
    BY <1>3, <1>4, <2>1, InsertGives
  <2> HIDE DEF s
  <2>3. QED BY <1>3, <2>2
<1>7. /\ t \in Seq(Nat) /\ Len(t) = Len(two) + m
      /\ \A k \in 1..Len(t) :
           t[k] = IF k <= x THEN two[k]
                  ELSE IF k <= x + m THEN a.text[k - x] ELSE two[k - m]
  <2>1. Fits(two, a1)
    BY <1>1, <1>2, <1>5 DEF Fits
  <2>2. /\ t \in Seq(Nat) /\ Len(t) = Len(two) + Len(a1.text)
        /\ \A k \in 1..Len(t) :
             t[k] = IF k <= a1.index THEN two[k]
                    ELSE IF k <= a1.index + Len(a1.text) THEN a1.text[k - a1.index]
                    ELSE two[k - Len(a1.text)]
    BY <1>2, <1>5, <2>1, InsertGives
  <2> HIDE DEF t
  <2>3. QED BY <1>2, <2>2
<1> HIDE DEF s, t, x, y, m, n
<1>8. ASSUME NEW k \in 1..Len(s) PROVE s[k] = t[k]
  <2>1. /\ k \in Nat /\ k # 0 /\ k \in 1..Len(s) /\ k \in 1..Len(t)
        /\ k <= Len(doc) + m + n /\ Len(one) = Len(doc) + m /\ Len(two) = Len(doc) + n
    BY <1>1, <1>4, <1>5, <1>6, <1>7
  <2>2. /\ s[k] = IF k <= y + m THEN one[k]
                  ELSE IF k <= y + m + n THEN b.text[k - (y + m)] ELSE one[k - n]
        /\ t[k] = IF k <= x THEN two[k]
                  ELSE IF k <= x + m THEN a.text[k - x] ELSE two[k - m]
    BY <1>6, <1>7, <2>1
  <2>3. CASE k <= x
    <3>1. k \in 1..Len(one) /\ k \in 1..Len(two) /\ k <= y /\ k <= y + m
      BY <1>1, <2>1, <2>3
    <3>2. one[k] = doc[k] /\ two[k] = doc[k]
      BY <1>4, <1>5, <2>3, <3>1
    <3>3. QED BY <2>2, <2>3, <3>1, <3>2
  <2>4. CASE k > x /\ k <= x + m
    <3>1. k \in 1..Len(one) /\ k <= y + m /\ ~ (k <= x)
      BY <1>1, <2>1, <2>4
    <3>2. one[k] = a.text[k - x]
      BY <1>4, <2>4, <3>1
    <3>3. QED BY <2>2, <2>4, <3>1, <3>2
  <2>5. CASE k > x + m /\ k <= y + m
    <3>1. /\ k \in 1..Len(one) /\ k - m \in 1..Len(two) /\ k - m <= y
          /\ ~ (k <= x) /\ ~ (k <= x + m)
      BY <1>1, <2>1, <2>5
    <3>2. one[k] = doc[k - m] /\ two[k - m] = doc[k - m]
      BY <1>4, <1>5, <3>1
    <3>3. QED BY <2>2, <2>5, <3>1, <3>2
  <2>6. CASE k > y + m /\ k <= y + m + n
    <3>1. /\ k - m \in 1..Len(two) /\ ~ (k - m <= y) /\ k - m <= y + n
          /\ (k - m) - y = k - (y + m)
          /\ ~ (k <= y + m) /\ ~ (k <= x) /\ ~ (k <= x + m)
      BY <1>1, <2>1, <2>6
    <3>2. two[k - m] = b.text[k - (y + m)]
      BY <1>5, <3>1
    <3>3. QED BY <2>2, <2>6, <3>1, <3>2
  <2>7. CASE k > y + m + n
    <3>1. /\ k - m \in 1..Len(two) /\ ~ (k - m <= y) /\ ~ (k - m <= y + n)
          /\ k - n \in 1..Len(one) /\ ~ (k - n <= x) /\ ~ (k - n <= x + m)
          /\ (k - m) - n = (k - n) - m
          /\ ~ (k <= y + m) /\ ~ (k <= y + m + n) /\ ~ (k <= x) /\ ~ (k <= x + m)
      BY <1>1, <2>1, <2>7
    <3>2. one[k - n] = doc[(k - n) - m] /\ two[k - m] = doc[(k - m) - n]
      BY <1>4, <1>5, <3>1
    <3>3. QED BY <2>2, <3>1, <3>2
  <2>8. QED BY <1>1, <2>1, <2>3, <2>4, <2>5, <2>6, <2>7
<1>9. Len(s) = Len(t)
  BY <1>1, <1>4, <1>5, <1>6, <1>7
<1>10. s = t
  BY <1>6, <1>7, <1>8, <1>9, SameSequence
<1>11. QED BY <1>10 DEF s, t, one, two, a1, b1

LEMMA InsertBeforeDelete ==
  ASSUME NEW doc \in Seq(Nat), NEW a \in Op, NEW b \in Op,
         a.type = "insert", b.type = "delete", Fits(doc, a), Fits(doc, b),
         a.index <= b.index
  PROVE  Apply(Apply(doc, a), Transform(b, a)) = Apply(Apply(doc, b), Transform(a, b))
<1> DEFINE m == Len(a.text)
           n == Len(b.text)
           x == a.index
           y == b.index
           one == Apply(doc, a)
           two == Apply(doc, b)
           b1 == Transform(b, a)
           a1 == Transform(a, b)
           s == Apply(one, b1)
           t == Apply(two, a1)
<1>1. /\ x \in Nat /\ y \in Nat /\ m \in Nat /\ n \in Nat /\ Len(doc) \in Nat
      /\ x <= y /\ y + n <= Len(doc)
  BY OpFields DEF Fits
<1>2. a1 \in Op /\ a1.type = "insert" /\ a1.text = a.text /\ a1.index = x
  <2>1. a1 \in Op /\ a1.type = "insert" /\ a1.text = a.text /\ a1.index = PastDelete(a, b)
    BY TransformFacts
  <2>2. PastDelete(a, b) = IF y + n <= x THEN x - n ELSE IF y < x THEN y ELSE x
    BY DEF PastDelete
  <2> HIDE DEF a1, x, y, n, m
  <2>3. PastDelete(a, b) = x
    BY <1>1, <2>2
  <2>4. QED BY <2>1, <2>3
<1>3. b1 \in Op /\ b1.type = "delete" /\ b1.text = b.text /\ b1.index = y + m
  BY <1>1, OpFields, TransformFacts DEF InsertInsert, DeleteInsert, PastDelete
<1>4. /\ one \in Seq(Nat) /\ Len(one) = Len(doc) + m
      /\ \A k \in 1..Len(one) : one[k] = IF k <= x THEN doc[k]
                                    ELSE IF k <= x + m THEN a.text[k - x] ELSE doc[k - m]
  BY InsertGives
<1>5. /\ two \in Seq(Nat) /\ Len(two) = Len(doc) - n
      /\ \A k \in 1..Len(two) : two[k] = IF k <= y THEN doc[k] ELSE doc[k + n]
  BY DeleteGives
<1> HIDE DEF one, two, a1, b1
<1>6. /\ s \in Seq(Nat) /\ Len(s) = Len(one) - n
      /\ \A k \in 1..Len(s) :
           s[k] = IF k <= y + m THEN one[k] ELSE one[k + n]
  <2>1. Fits(one, b1)
    BY <1>1, <1>3, <1>4 DEF Fits
  <2>2. /\ s \in Seq(Nat) /\ Len(s) = Len(one) - Len(b1.text)
        /\ \A k \in 1..Len(s) :
             s[k] = IF k <= b1.index THEN one[k] ELSE one[k + Len(b1.text)]
    BY <1>3, <1>4, <2>1, DeleteGives
  <2> HIDE DEF s
  <2>3. QED BY <1>3, <2>2
<1>7. /\ t \in Seq(Nat) /\ Len(t) = Len(two) + m
      /\ \A k \in 1..Len(t) :
           t[k] = IF k <= x THEN two[k]
                  ELSE IF k <= x + m THEN a.text[k - x] ELSE two[k - m]
  <2>1. Fits(two, a1)
    BY <1>1, <1>2, <1>5 DEF Fits
  <2>2. /\ t \in Seq(Nat) /\ Len(t) = Len(two) + Len(a1.text)
        /\ \A k \in 1..Len(t) :
             t[k] = IF k <= a1.index THEN two[k]
                    ELSE IF k <= a1.index + Len(a1.text) THEN a1.text[k - a1.index]
                    ELSE two[k - Len(a1.text)]
    BY <1>2, <1>5, <2>1, InsertGives
  <2> HIDE DEF t
  <2>3. QED BY <1>2, <2>2
<1> HIDE DEF s, t, x, y, m, n
<1>8. ASSUME NEW k \in 1..Len(s) PROVE s[k] = t[k]
  <2>1. /\ k \in Nat /\ k # 0 /\ k \in 1..Len(s) /\ k \in 1..Len(t)
        /\ k <= Len(doc) + m - n
        /\ Len(one) = Len(doc) + m /\ Len(two) = Len(doc) - n
    BY <1>1, <1>4, <1>5, <1>6, <1>7
  <2>2. /\ s[k] = IF k <= y + m THEN one[k] ELSE one[k + n]
        /\ t[k] = IF k <= x THEN two[k]
                  ELSE IF k <= x + m THEN a.text[k - x] ELSE two[k - m]
    BY <1>6, <1>7, <2>1
  <2>3. CASE k <= x
    <3>1. k \in 1..Len(one) /\ k \in 1..Len(two) /\ k <= x /\ k <= y /\ k <= y + m
      BY <1>1, <2>1, <2>3
    <3>2. one[k] = doc[k] /\ two[k] = doc[k]
      BY <1>4, <1>5, <3>1
    <3>3. QED BY <2>2, <3>1, <3>2
  <2>4. CASE k > x /\ k <= x + m
    <3>1. k \in 1..Len(one) /\ k <= y + m /\ ~ (k <= x) /\ k <= x + m
      BY <1>1, <2>1, <2>4
    <3>2. one[k] = a.text[k - x]
      BY <1>4, <1>5, <3>1
    <3>3. QED BY <2>2, <3>1, <3>2
  <2>5. CASE k > x + m /\ k <= y + m
    <3>1. /\ k \in 1..Len(one) /\ k - m \in 1..Len(two) /\ k - m <= y
          /\ ~ (k <= x) /\ ~ (k <= x + m) /\ k <= y + m
      BY <1>1, <2>1, <2>5
    <3>2. one[k] = doc[k - m] /\ two[k - m] = doc[k - m]
      BY <1>4, <1>5, <3>1
    <3>3. QED BY <2>2, <3>1, <3>2
  <2>6. CASE k > y + m
    <3>1. /\ k + n \in 1..Len(one) /\ ~ (k + n <= x) /\ ~ (k + n <= x + m)
          /\ k - m \in 1..Len(two) /\ ~ (k - m <= y) /\ (k + n) - m = (k - m) + n
          /\ ~ (k <= y + m) /\ ~ (k <= x) /\ ~ (k <= x + m)
      BY <1>1, <2>1, <2>6
    <3>2. one[k + n] = doc[(k + n) - m] /\ two[k - m] = doc[(k - m) + n]
      BY <1>4, <1>5, <3>1
    <3>3. QED BY <2>2, <3>1, <3>2
  <2>7. QED BY <1>1, <2>1, <2>3, <2>4, <2>5, <2>6
<1>9. Len(s) = Len(t)
  BY <1>1, <1>4, <1>5, <1>6, <1>7
<1>10. s = t
  BY <1>6, <1>7, <1>8, <1>9, SameSequence
<1>11. QED BY <1>10 DEF s, t, one, two, a1, b1

LEMMA InsertAfterDelete ==
  ASSUME NEW doc \in Seq(Nat), NEW a \in Op, NEW b \in Op,
         a.type = "insert", b.type = "delete", Fits(doc, a), Fits(doc, b),
         b.text # <<>>, a.index >= b.index + Len(b.text)
  PROVE  Apply(Apply(doc, a), Transform(b, a)) = Apply(Apply(doc, b), Transform(a, b))
<1> DEFINE m == Len(a.text)
           n == Len(b.text)
           x == a.index
           y == b.index
           one == Apply(doc, a)
           two == Apply(doc, b)
           b1 == Transform(b, a)
           a1 == Transform(a, b)
           s == Apply(one, b1)
           t == Apply(two, a1)
<1>1. /\ x \in Nat /\ y \in Nat /\ m \in Nat /\ n \in Nat /\ Len(doc) \in Nat
      /\ n # 0 /\ x >= y + n /\ x <= Len(doc) /\ y + n <= Len(doc)
  BY OpFields DEF Fits
<1>2. a1 \in Op /\ a1.type = "insert" /\ a1.text = a.text /\ a1.index = x - n
  <2>1. a1 \in Op /\ a1.type = "insert" /\ a1.text = a.text /\ a1.index = PastDelete(a, b)
    BY TransformFacts
  <2>2. PastDelete(a, b) = IF y + n <= x THEN x - n ELSE IF y < x THEN y ELSE x
    BY DEF PastDelete
  <2> HIDE DEF a1, x, y, n, m
  <2>3. PastDelete(a, b) = x - n
    BY <1>1, <2>2
  <2>4. QED BY <2>1, <2>3
<1>3. b1 \in Op /\ b1.type = "delete" /\ b1.text = b.text /\ b1.index = y
  <2>1. b1 \in Op /\ b1.type = "delete" /\ b1.text = b.text /\ b1.index = DeleteInsert(b, a)
    BY TransformFacts
  <2>2. DeleteInsert(b, a) = IF x <= y THEN y + m ELSE y
    BY DEF DeleteInsert
  <2> HIDE DEF b1, x, y, n, m
  <2>3. DeleteInsert(b, a) = y
    BY <1>1, <2>2
  <2>4. QED BY <2>1, <2>3
<1>4. /\ one \in Seq(Nat) /\ Len(one) = Len(doc) + m
      /\ \A k \in 1..Len(one) : one[k] = IF k <= x THEN doc[k]
                                    ELSE IF k <= x + m THEN a.text[k - x] ELSE doc[k - m]
  BY InsertGives
<1>5. /\ two \in Seq(Nat) /\ Len(two) = Len(doc) - n
      /\ \A k \in 1..Len(two) : two[k] = IF k <= y THEN doc[k] ELSE doc[k + n]
  BY DeleteGives
<1> HIDE DEF one, two, a1, b1
<1>6. /\ s \in Seq(Nat) /\ Len(s) = Len(one) - n
      /\ \A k \in 1..Len(s) :
           s[k] = IF k <= y THEN one[k] ELSE one[k + n]
  <2>1. Fits(one, b1)
    BY <1>1, <1>3, <1>4 DEF Fits
  <2>2. /\ s \in Seq(Nat) /\ Len(s) = Len(one) - Len(b1.text)
        /\ \A k \in 1..Len(s) :
             s[k] = IF k <= b1.index THEN one[k] ELSE one[k + Len(b1.text)]
    BY <1>3, <1>4, <2>1, DeleteGives
  <2> HIDE DEF s
  <2>3. QED BY <1>3, <2>2
<1>7. /\ t \in Seq(Nat) /\ Len(t) = Len(two) + m
      /\ \A k \in 1..Len(t) :
           t[k] = IF k <= x - n THEN two[k]
                  ELSE IF k <= x - n + m THEN a.text[k - (x - n)] ELSE two[k - m]
  <2>1. Fits(two, a1)
    BY <1>1, <1>2, <1>5 DEF Fits
  <2>2. /\ t \in Seq(Nat) /\ Len(t) = Len(two) + Len(a1.text)
        /\ \A k \in 1..Len(t) :
             t[k] = IF k <= a1.index THEN two[k]
                    ELSE IF k <= a1.index + Len(a1.text) THEN a1.text[k - a1.index]
                    ELSE two[k - Len(a1.text)]
    BY <1>2, <1>5, <2>1, InsertGives
  <2> HIDE DEF t
  <2>3. QED BY <1>2, <2>2
<1> HIDE DEF s, t, x, y, m, n
<1>8. ASSUME NEW k \in 1..Len(s) PROVE s[k] = t[k]
  <2>1. /\ k \in Nat /\ k # 0 /\ k \in 1..Len(s) /\ k \in 1..Len(t)
        /\ k <= Len(doc) + m - n
        /\ Len(one) = Len(doc) + m /\ Len(two) = Len(doc) - n
    BY <1>1, <1>4, <1>5, <1>6, <1>7
  <2>2. /\ s[k] = IF k <= y THEN one[k] ELSE one[k + n]
        /\ t[k] = IF k <= x - n THEN two[k]
                  ELSE IF k <= x - n + m THEN a.text[k - (x - n)] ELSE two[k - m]
    BY <1>6, <1>7, <2>1
  <2>3. CASE k <= y
    <3>1. k \in 1..Len(one) /\ k \in 1..Len(two) /\ k <= x /\ k <= y /\ k <= x - n
      <4>1. k \in 1..Len(one)
        BY <1>1, <2>1, <2>3
      <4>2. k \in 1..Len(two)
        BY <1>1, <2>1, <2>3
      <4>3. k <= x
        BY <1>1, <2>1, <2>3
      <4>4. k <= y
        BY <1>1, <2>1, <2>3
      <4>5. k <= x - n
        BY <1>1, <2>1, <2>3
      <4>6. QED BY <4>1, <4>2, <4>3, <4>4, <4>5
    <3>2. one[k] = doc[k] /\ two[k] = doc[k]
      BY <1>4, <1>5, <3>1
    <3>3. QED BY <2>2, <3>1, <3>2
  <2>4. CASE k > y /\ k <= x - n
    <3>1. /\ k \in 1..Len(two) /\ k + n \in 1..Len(one) /\ k + n <= x
          /\ ~ (k <= y) /\ k <= x - n
      BY <1>1, <2>1, <2>4
    <3>2. one[k + n] = doc[k + n] /\ two[k] = doc[k + n]
      BY <1>4, <1>5, <3>1
    <3>3. QED BY <2>2, <3>1, <3>2
  <2>5. CASE k > x - n /\ k <= x - n + m
    <3>1. /\ k + n \in 1..Len(one) /\ ~ (k + n <= x) /\ k + n <= x + m
          /\ (k + n) - x = k - (x - n)
          /\ ~ (k <= y) /\ ~ (k <= x - n) /\ k <= x - n + m
      BY <1>1, <2>1, <2>5
    <3>2. one[k + n] = a.text[k - (x - n)]
      BY <1>4, <1>5, <3>1
    <3>3. QED BY <2>2, <3>1, <3>2
  <2>6. CASE k > x - n + m
    <3>1. /\ k + n \in 1..Len(one) /\ ~ (k + n <= x) /\ ~ (k + n <= x + m)
          /\ k - m \in 1..Len(two) /\ ~ (k - m <= y) /\ (k + n) - m = (k - m) + n
          /\ ~ (k <= y) /\ ~ (k <= x - n) /\ ~ (k <= x - n + m)
      <4>1. k + n \in 1..Len(one)
        BY <1>1, <2>1, <2>6
      <4>2. ~ (k + n <= x)
        BY <1>1, <2>1, <2>6
      <4>3. ~ (k + n <= x + m)
        BY <1>1, <2>1, <2>6
      <4>4. k - m \in 1..Len(two)
        BY <1>1, <2>1, <2>6
      <4>5. ~ (k - m <= y)
        BY <1>1, <2>1, <2>6
      <4>6. (k + n) - m = (k - m) + n
        BY <1>1, <2>1, <2>6
      <4>7. ~ (k <= y)
        BY <1>1, <2>1, <2>6
      <4>8. ~ (k <= x - n)
        BY <1>1, <2>1, <2>6
      <4>9. ~ (k <= x - n + m)
        BY <1>1, <2>1, <2>6
      <4>10. QED BY <4>1, <4>2, <4>3, <4>4, <4>5, <4>6, <4>7, <4>8, <4>9
    <3>2. one[k + n] = doc[(k + n) - m] /\ two[k - m] = doc[(k - m) + n]
      BY <1>4, <1>5, <3>1
    <3>3. QED BY <2>2, <3>1, <3>2
  <2>7. QED BY <1>1, <2>1, <2>3, <2>4, <2>5, <2>6
<1>9. Len(s) = Len(t)
  BY <1>1, <1>4, <1>5, <1>6, <1>7
<1>10. s = t
  BY <1>6, <1>7, <1>8, <1>9, SameSequence
<1>11. QED BY <1>10 DEF s, t, one, two, a1, b1

LEMMA DeletesCommute ==
  ASSUME NEW doc \in Seq(Nat), NEW a \in Op, NEW b \in Op,
         a.type = "delete", b.type = "delete", Fits(doc, a), Fits(doc, b),
         a.index + Len(a.text) <= b.index
  PROVE  Apply(Apply(doc, a), Transform(b, a)) = Apply(Apply(doc, b), Transform(a, b))
<1> DEFINE m == Len(a.text)
           n == Len(b.text)
           x == a.index
           y == b.index
           one == Apply(doc, a)
           two == Apply(doc, b)
           b1 == Transform(b, a)
           a1 == Transform(a, b)
           s == Apply(one, b1)
           t == Apply(two, a1)
<1>1. /\ x \in Nat /\ y \in Nat /\ m \in Nat /\ n \in Nat /\ Len(doc) \in Nat
      /\ x + m <= y /\ y + n <= Len(doc)
  BY OpFields DEF Fits
<1>2. a1 \in Op /\ a1.type = "delete" /\ a1.text = a.text /\ a1.index = x
  <2>1. a1 \in Op /\ a1.type = "delete" /\ a1.text = a.text /\ a1.index = PastDelete(a, b)
    BY TransformFacts
  <2>2. PastDelete(a, b) = IF y + n <= x THEN x - n ELSE IF y < x THEN y ELSE x
    BY DEF PastDelete
  <2> HIDE DEF a1, x, y, n, m
  <2>3. PastDelete(a, b) = x
    BY <1>1, <2>2
  <2>4. QED BY <2>1, <2>3
<1>3. b1 \in Op /\ b1.type = "delete" /\ b1.text = b.text /\ b1.index = y - m
  BY <1>1, OpFields, TransformFacts DEF InsertInsert, DeleteInsert, PastDelete
<1>4. /\ one \in Seq(Nat) /\ Len(one) = Len(doc) - m
      /\ \A k \in 1..Len(one) : one[k] = IF k <= x THEN doc[k] ELSE doc[k + m]
  BY DeleteGives
<1>5. /\ two \in Seq(Nat) /\ Len(two) = Len(doc) - n
      /\ \A k \in 1..Len(two) : two[k] = IF k <= y THEN doc[k] ELSE doc[k + n]
  BY DeleteGives
<1> HIDE DEF one, two, a1, b1
<1>6. /\ s \in Seq(Nat) /\ Len(s) = Len(one) - n
      /\ \A k \in 1..Len(s) :
           s[k] = IF k <= y - m THEN one[k] ELSE one[k + n]
  <2>1. Fits(one, b1)
    BY <1>1, <1>3, <1>4 DEF Fits
  <2>2. /\ s \in Seq(Nat) /\ Len(s) = Len(one) - Len(b1.text)
        /\ \A k \in 1..Len(s) :
             s[k] = IF k <= b1.index THEN one[k] ELSE one[k + Len(b1.text)]
    BY <1>3, <1>4, <2>1, DeleteGives
  <2> HIDE DEF s
  <2>3. QED BY <1>3, <2>2
<1>7. /\ t \in Seq(Nat) /\ Len(t) = Len(two) - m
      /\ \A k \in 1..Len(t) :
           t[k] = IF k <= x THEN two[k] ELSE two[k + m]
  <2>1. Fits(two, a1)
    BY <1>1, <1>2, <1>5 DEF Fits
  <2>2. /\ t \in Seq(Nat) /\ Len(t) = Len(two) - Len(a1.text)
        /\ \A k \in 1..Len(t) :
             t[k] = IF k <= a1.index THEN two[k] ELSE two[k + Len(a1.text)]
    BY <1>2, <1>5, <2>1, DeleteGives
  <2> HIDE DEF t
  <2>3. QED BY <1>2, <2>2
<1> HIDE DEF s, t, x, y, m, n
<1>8. ASSUME NEW k \in 1..Len(s) PROVE s[k] = t[k]
  <2>1. /\ k \in Nat /\ k # 0 /\ k \in 1..Len(s) /\ k \in 1..Len(t)
        /\ k <= Len(doc) - m - n
        /\ Len(one) = Len(doc) - m /\ Len(two) = Len(doc) - n
    BY <1>1, <1>4, <1>5, <1>6, <1>7
  <2>2. /\ s[k] = IF k <= y - m THEN one[k] ELSE one[k + n]
        /\ t[k] = IF k <= x THEN two[k] ELSE two[k + m]
    BY <1>6, <1>7, <2>1
  <2>3. CASE k <= x
    <3>1. k \in 1..Len(one) /\ k \in 1..Len(two) /\ k <= x /\ k <= y /\ k <= y - m
      BY <1>1, <2>1, <2>3
    <3>2. one[k] = doc[k] /\ two[k] = doc[k]
      BY <1>4, <1>5, <3>1
    <3>3. QED BY <2>2, <3>1, <3>2
  <2>4. CASE k > x /\ k <= y - m
    <3>1. /\ k \in 1..Len(one) /\ k + m \in 1..Len(two) /\ k + m <= y
          /\ ~ (k <= x) /\ k <= y - m
      BY <1>1, <2>1, <2>4
    <3>2. one[k] = doc[k + m] /\ two[k + m] = doc[k + m]
      BY <1>4, <1>5, <3>1
    <3>3. QED BY <2>2, <3>1, <3>2
  <2>5. CASE k > y - m
    <3>1. /\ k + n \in 1..Len(one) /\ k + m \in 1..Len(two) /\ ~ (k + n <= x) /\ ~ (k + m <= y)
          /\ (k + n) + m = (k + m) + n /\ ~ (k <= x) /\ ~ (k <= y - m)
      BY <1>1, <2>1, <2>5
    <3>2. one[k + n] = doc[(k + n) + m] /\ two[k + m] = doc[(k + m) + n]
      BY <1>4, <1>5, <3>1
    <3>3. QED BY <2>2, <3>1, <3>2
  <2>6. QED BY <1>1, <2>1, <2>3, <2>4, <2>5
<1>9. Len(s) = Len(t)
  BY <1>1, <1>4, <1>5, <1>6, <1>7
<1>10. s = t
  BY <1>6, <1>7, <1>8, <1>9, SameSequence
<1>11. QED BY <1>10 DEF s, t, one, two, a1, b1

LEMMA EitherOrder ==
  ASSUME NEW doc \in Seq(Nat), NEW a \in Op, NEW b \in Op, a.user # b.user,
         a.text # <<>>, b.text # <<>>, Fits(doc, a), Fits(doc, b),
         a.index = a.sent, b.index = b.sent, Apart(a, b), Apart(b, a)
  PROVE  Apply(Apply(doc, a), Transform(b, a)) = Apply(Apply(doc, b), Transform(a, b))
<1> DEFINE m == Len(a.text)
           n == Len(b.text)
<1>1. /\ a.type \in {"insert", "delete"} /\ b.type \in {"insert", "delete"}
      /\ a.index \in Nat /\ b.index \in Nat /\ a.user \in Nat /\ b.user \in Nat
      /\ m \in Nat /\ n \in Nat
  BY OpFields
<1>2. /\ a.type = "delete" => \/ b.index <= a.index /\ b.type = "insert"
                              \/ b.index >= a.index + m
                              \/ b.index + n <= a.index
      /\ b.type = "delete" => \/ a.index <= b.index /\ a.type = "insert"
                              \/ a.index >= b.index + n
                              \/ a.index + m <= b.index
  BY DEF Apart
<1>a. m # 0 /\ n # 0
  BY OpFields
<1>3. CASE a.type = "insert" /\ b.type = "insert"
  <2>1. CASE a.index < b.index \/ (a.index = b.index /\ a.user < b.user)
    BY <1>3, <2>1, InsertsCommute
  <2>2. CASE b.index < a.index \/ (b.index = a.index /\ b.user < a.user)
    BY <1>3, <2>2, InsertsCommute
  <2>3. QED BY <1>1, <2>1, <2>2
<1>4. CASE a.type = "insert" /\ b.type = "delete"
  <2>1. CASE a.index <= b.index
    BY <1>4, <2>1, InsertBeforeDelete
  <2>2. CASE a.index >= b.index + n
    BY <1>4, <2>2, InsertAfterDelete
  <2> HIDE DEF m, n
  <2>3. a.index <= b.index \/ a.index >= b.index + n
    BY <1>1, <1>2, <1>4
  <2>4. QED BY <2>1, <2>2, <2>3
<1>5. CASE a.type = "delete" /\ b.type = "insert"
  <2>1. CASE b.index <= a.index
    BY <1>5, <2>1, InsertBeforeDelete
  <2>2. CASE b.index >= a.index + m
    BY <1>5, <2>2, InsertAfterDelete
  <2> HIDE DEF m, n
  <2>3. b.index <= a.index \/ b.index >= a.index + m
    BY <1>1, <1>2, <1>5
  <2>4. QED BY <2>1, <2>2, <2>3
<1>6. CASE a.type = "delete" /\ b.type = "delete"
  <2>1. CASE a.index + m <= b.index
    BY <1>6, <2>1, DeletesCommute
  <2>2. CASE b.index + n <= a.index
    BY <1>6, <2>2, DeletesCommute
  <2> HIDE DEF m, n
  <2>3. a.index + m <= b.index \/ b.index + n <= a.index
    BY <1>1, <1>2, <1>6
  <2>4. QED BY <2>1, <2>2, <2>3
<1>7. QED BY <1>1, <1>3, <1>4, <1>5, <1>6

(* Two operations of different users on one version that do not touch the  *)
(* same text give one document, whichever the server takes first.          *)
THEOREM OrdersAgree == Spec => []OrderIrrelevant
<1>1. ASSUME EditorInv, NEW i \in DOMAIN log, i > 1, log[i].base = i - 2,
             log[i - 1].base = i - 2, log[i].user # log[i - 1].user,
             Apart(Sent(log[i - 1]), Sent(log[i])), Apart(Sent(log[i]), Sent(log[i - 1]))
      PROVE  Apply(Apply(DocAt(i - 2), Sent(log[i])),
                   Transform(Sent(log[i - 1]), Sent(log[i]))) = DocAt(i)
  <2> DEFINE doc == DocAt(i - 2)
             a == Sent(log[i - 1])
             b == Sent(log[i])
  <2>1. DocumentsInv /\ i \in 1..Version /\ Version \in Nat /\ DOMAIN log = 1..Version
    BY <1>1, InvDocuments DEF EditorInv
  <2>2. /\ i - 1 \in 1..Version /\ i - 2 \in 0..Version /\ (i - 1) - 1 = i - 2
    BY <1>1, <2>1
  <2>3. /\ log[i] \in Op /\ log[i - 1] \in Op /\ log[i].text # <<>> /\ log[i - 1].text # <<>>
        /\ doc \in Seq(Nat) /\ DocAt(i - 1) = Apply(doc, log[i - 1])
        /\ DocAt(i) = Apply(DocAt(i - 1), log[i])
    BY <2>1, <2>2, InvDocuments
  <2>4. /\ log[i - 1] = a /\ Fits(doc, a)
        /\ log[i] = Transform(b, log[i - 1]) /\ Fits(doc, b)
    BY <1>1, <2>1, <2>2 DEF DocumentsInv, Entry, Arrived, DocAt
  <2>5. /\ a \in Op /\ a.user = log[i - 1].user /\ a.text = log[i - 1].text
        /\ a.index = a.sent
    BY <2>3, SentFields
  <2>6. /\ b \in Op /\ b.user = log[i].user /\ b.text = log[i].text
        /\ b.index = b.sent
    BY <2>3, SentFields
  <2>7. Apart(a, b) /\ Apart(b, a) /\ a.user # b.user
    BY <1>1, <2>5, <2>6
  <2> HIDE DEF a, b, doc
  <2>8. Apply(Apply(doc, a), Transform(b, a)) = Apply(Apply(doc, b), Transform(a, b))
    BY <2>3, <2>4, <2>5, <2>6, <2>7, EitherOrder
  <2>9. DocAt(i) = Apply(Apply(doc, a), Transform(b, a))
    BY <2>3, <2>4
  <2>10. QED BY <2>8, <2>9 DEF a, b, doc
<1>2. EditorInv => OrderIrrelevant
  <2> SUFFICES ASSUME EditorInv PROVE OrderIrrelevant
    OBVIOUS
  <2>1. QED BY <1>1 DEF OrderIrrelevant
<1>3. QED BY EditorInvariance, <1>2, PTL

-----------------------------------------------------------------------------
(* Replay *)

LEMMA ReplayedIs ==
  ASSUME DocumentsInv, NEW m, NEW v \in 0..Version, 1..v \subseteq stored[m]
  PROVE  Replayed(m, v) = [thrown |-> FALSE, doc |-> DocAt(v)]
<1> DEFINE Def(f) ==
             [n \in 0..v |->
                IF n = 0 THEN [thrown |-> FALSE, doc |-> <<>>]
                ELSE IF n \notin Frames(m, v) THEN f[n - 1]
                ELSE IF f[n - 1].thrown \/ ~Fits(f[n - 1].doc, log[n])
                  THEN [thrown |-> TRUE, doc |-> <<>>]
                  ELSE [thrown |-> FALSE, doc |-> Apply(f[n - 1].doc, log[n])]]
           right(k) == [thrown |-> FALSE, doc |-> DocAt(k)]
           g == [k \in 0..v |-> right(k)]
           shown == CHOOSE f : f = Def(f)
<1>1. Version \in Nat /\ v \in Nat /\ v <= Version /\ DocAt(0) = <<>>
  BY InvDocuments
<1>2. ASSUME NEW n \in 1..v
      PROVE  /\ n \in Frames(m, v) /\ n - 1 \in 0..v /\ n # 0 /\ n \in 0..v
             /\ Fits(DocAt(n - 1), log[n]) /\ DocAt(n) = Apply(DocAt(n - 1), log[n])
  <2>1. n \in 1..Version /\ n <= v /\ n \in stored[m] /\ n - 1 \in 0..v /\ n # 0 /\ n \in 0..v
    BY <1>1
  <2>2. n \in Frames(m, v)
    BY <2>1 DEF Frames
  <2>3. QED BY <2>1, <2>2, InvDocuments
<1>3. g = Def(g)
  <2>1. ASSUME NEW n \in 0..v PROVE right(n) = Def(g)[n]
    <3>1. CASE n = 0
      BY <1>1, <3>1
    <3>2. CASE n # 0
      <4>1. n \in 1..v
        BY <3>2
      <4>2. g[n - 1] = right(n - 1)
        BY <1>2, <4>1
      <4>3. ~ g[n - 1].thrown /\ g[n - 1].doc = DocAt(n - 1)
        BY <4>2
      <4> HIDE DEF g
      <4>4. Def(g)[n] = [thrown |-> FALSE, doc |-> Apply(DocAt(n - 1), log[n])]
        BY <1>2, <4>1, <4>3
      <4>5. QED BY <1>2, <4>1, <4>4
    <3>3. QED BY <3>1, <3>2
  <2>2. QED BY <2>1
<1>4. shown = Def(shown)
  BY <1>3
<1>5. Replayed(m, v) = shown[v]
  BY DEF Replayed
<1> HIDE DEF shown
<1>6. \A n \in 0..v : shown[n] = Def(shown)[n]
  BY <1>4
<1> DEFINE Z == {n \in 0..v : shown[n] = right(n)}
<1>7. 0 \in Z
  <2>1. 0 \in 0..v
    BY <1>1
  <2>2. shown[0] = right(0)
    BY <1>1, <1>6, <2>1
  <2>3. QED BY <2>1, <2>2
<1>8. ASSUME NEW k \in 0..(v - 1), k \in Z PROVE k + 1 \in Z
  <2> DEFINE n == k + 1
  <2>1. n \in 1..v /\ n - 1 = k
    BY <1>1
  <2>2. shown[n - 1] = right(n - 1)
    BY <1>8, <2>1
  <2>3. ~ shown[n - 1].thrown /\ shown[n - 1].doc = DocAt(n - 1)
    BY <2>2
  <2> HIDE DEF n
  <2>4. Def(shown)[n] = [thrown |-> FALSE, doc |-> Apply(DocAt(n - 1), log[n])]
    BY <1>2, <2>1, <2>3
  <2>5. shown[n] = right(n) /\ n \in 0..v
    BY <1>2, <1>6, <2>1, <2>4
  <2>6. QED BY <2>5 DEF n
<1> HIDE DEF Z
<1>9. 0..v \subseteq Z /\ v \in 0..v
  BY <1>1, <1>7, <1>8, Induction
<1>10. QED BY <1>5, <1>9 DEF Z

(* A replay whose timeline misses no operation shows the players' document. *)
THEOREM ReplaysAreExact == Spec => []CompleteReplayIsExact
<1>1. ASSUME EditorInv PROVE CompleteReplayIsExact
  <2>1. DocumentsInv /\ \A v \in DOMAIN log : v \in 0..Version
    <3>1. DocumentsInv
      BY <1>1 DEF EditorInv
    <3>2. DOMAIN log = 1..Version /\ Version \in Nat
      BY <3>1, InvDocuments
    <3>3. QED BY <3>1, <3>2
  <2>2. QED BY <2>1, ReplayedIs DEF CompleteReplayIsExact
<1>2. EditorInv => CompleteReplayIsExact
  BY <1>1
<1>3. QED BY EditorInvariance, <1>2, PTL
=============================================================================
