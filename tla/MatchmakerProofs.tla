--------------------------- MODULE MatchmakerProofs ---------------------------
(***************************************************************************)
(* For any players, modes and lobby ids: what the queue, its lobbies and   *)
(* what friends see of them have in common, and who is served first.       *)
(***************************************************************************)
EXTENDS Matchmaker, FiniteSetTheorems, WellFoundedInduction, TLAPS

-----------------------------------------------------------------------------
(* Induction along a sequence, and the function it defines. *)

LEMMA Least ==
  ASSUME NEW T \in SUBSET Nat, T # {}
  PROVE  \E i \in T : \A k \in T : i <= k
<1> DEFINE R == {p \in Nat \X Nat : p[1] < p[2]}
<1>1. IsWellFoundedOn(R, Nat)
  BY NatLessThanWellFounded DEF OpToRel
<1>2. PICK i \in T : \A k \in T : ~ (<<k, i>> \in R)
  BY <1>1, WFMin
<1>3. ASSUME NEW k \in T PROVE i <= k
  <2>1. <<k, i>> \in Nat \X Nat /\ <<k, i>>[1] = k /\ <<k, i>>[2] = i
    OBVIOUS
  <2>2. QED BY <1>2, <2>1
<1>4. QED BY <1>3

LEMMA Induction ==
  ASSUME NEW n \in Nat, NEW S, 0 \in S,
         \A k \in 0..(n - 1) : k \in S => k + 1 \in S
  PROVE  0..n \subseteq S
<1>1. SUFFICES ASSUME (0..n) \ S # {} PROVE FALSE
  OBVIOUS
<1> (0..n) \ S \in SUBSET Nat
  OBVIOUS
<1>2. PICK i \in (0..n) \ S : \A k \in (0..n) \ S : i <= k
  BY <1>1, Least
<1>3. i - 1 \in 0..(n - 1) /\ i - 1 \in S
  BY <1>2
<1>4. QED BY <1>2, <1>3

(* Any step function can be iterated along 1..n. *)
Iterations(n, V, v, step) ==
  {f \in [0..n -> V] : f[0] = v /\ \A k \in 1..n : f[k] = step[k][f[k - 1]]}

LEMMA Iteration ==
  ASSUME NEW n \in Nat, NEW V, NEW v \in V, NEW step \in [1..n -> [V -> V]]
  PROVE  Iterations(n, V, v, step) # {}
<1> DEFINE Upto(m, f) == f[0] = v /\ \A k \in 1..m : f[k] = step[k][f[k - 1]]
           Some(m) == \E f \in [0..m -> V] : Upto(m, f)
           S == {m \in 0..n : Some(m)}
<1>1. Some(0)
  <2>1. [k \in 0..0 |-> v] \in [0..0 -> V] /\ Upto(0, [k \in 0..0 |-> v])
    OBVIOUS
  <2> HIDE DEF Upto
  <2>2. QED BY <2>1
<1>2. ASSUME NEW m \in 0..(n - 1), Some(m) PROVE Some(m + 1)
  <2>1. PICK f \in [0..m -> V] : Upto(m, f)
    BY <1>2
  <2> DEFINE g == [k \in 0..(m + 1) |-> IF k = m + 1 THEN step[m + 1][f[m]] ELSE f[k]]
  <2>2. step[m + 1][f[m]] \in V
    <3>1. f[m] \in V /\ m + 1 \in 1..n
      BY <2>1
    <3>2. step[m + 1] \in [V -> V]
      BY <3>1
    <3>3. QED BY <3>1, <3>2
  <2>3. g \in [0..(m + 1) -> V]
    BY <2>2
  <2>4. Upto(m + 1, g)
    <3>1. g[0] = v
      BY <2>1
    <3>2. ASSUME NEW k \in 1..(m + 1) PROVE g[k] = step[k][g[k - 1]]
      BY <2>1
    <3>3. QED BY <3>1, <3>2
  <2> HIDE DEF Upto, g
  <2>5. QED BY <2>3, <2>4
<1> HIDE DEF Some
<1>3. 0 \in S /\ \A k \in 0..(n - 1) : k \in S => k + 1 \in S
  BY <1>1, <1>2
<1> HIDE DEF S
<1>4. 0..n \subseteq S
  BY <1>3, Induction
<1>5. QED BY <1>4 DEF S, Some, Iterations

(* What `filter` returns, step by step. *)
Filterings(s, S, T) ==
  {kept \in [0..Len(s) -> Seq(T)] :
     /\ kept[0] = <<>>
     /\ \A k \in 1..Len(s) :
          kept[k] = IF s[k] \in S THEN Append(kept[k - 1], s[k]) ELSE kept[k - 1]}

LEMMA KeptSteps ==
  ASSUME NEW T, NEW s \in Seq(T), NEW S
  PROVE  \E kept \in Filterings(s, S, T) : Kept(s, S) = kept[Len(s)]
<1> DEFINE n == Len(s)
           next == [k \in 1..n |->
                      [w \in Seq(T) |-> IF s[k] \in S THEN Append(w, s[k]) ELSE w]]
           Def(f) == [k \in 0..n |->
                        IF k = 0 THEN <<>>
                        ELSE IF s[k] \in S THEN Append(f[k - 1], s[k])
                        ELSE f[k - 1]]
           kept == CHOOSE f : f = Def(f)
<1>1. n \in Nat /\ <<>> \in Seq(T)
  OBVIOUS
<1>2. next \in [1..n -> [Seq(T) -> Seq(T)]]
  <2>1. ASSUME NEW k \in 1..n, NEW w \in Seq(T)
        PROVE  (IF s[k] \in S THEN Append(w, s[k]) ELSE w) \in Seq(T)
    OBVIOUS
  <2>2. QED BY <2>1
<1> HIDE DEF next
<1>3. PICK f \in [0..n -> Seq(T)] : f[0] = <<>> /\ \A k \in 1..n : f[k] = next[k][f[k - 1]]
  <2>1. Iterations(n, Seq(T), <<>>, next) # {}
    <3> HIDE DEF n
    <3>1. QED BY <1>1, <1>2, Iteration
  <2>2. QED BY <2>1 DEF Iterations
<1>4. ASSUME NEW k \in 1..n
      PROVE  f[k] = IF s[k] \in S THEN Append(f[k - 1], s[k]) ELSE f[k - 1]
  <2>1. f[k - 1] \in Seq(T)
    BY <1>3
  <2>2. QED BY <1>3, <2>1 DEF next
<1>5. f = Def(f)
  <2>1. ASSUME NEW k \in 0..n
        PROVE  f[k] = IF k = 0 THEN <<>>
                      ELSE IF s[k] \in S THEN Append(f[k - 1], s[k]) ELSE f[k - 1]
    <3>1. CASE k = 0
      BY <1>3, <3>1
    <3>2. CASE k # 0
      <4>1. k \in 1..n
        BY <1>1, <3>2
      <4>2. QED BY <1>4, <3>2, <4>1
    <3>3. QED BY <3>1, <3>2
  <2>2. QED BY <2>1, <1>3
<1>6. kept = Def(kept)
  BY <1>5
<1>7. Kept(s, S) = kept[n]
  BY DEF Kept
<1> HIDE DEF kept
<1>8. \A k \in 0..n : kept[k] = Def(kept)[k]
  BY <1>6
<1>9. /\ kept[0] = <<>>
      /\ \A k \in 1..n : kept[k] = IF s[k] \in S THEN Append(kept[k - 1], s[k]) ELSE kept[k - 1]
  BY <1>1, <1>8
<1>10. kept \in [0..n -> Seq(T)]
  <2> DEFINE Z == {k \in 0..n : kept[k] \in Seq(T)}
  <2>1. kept[0] \in Seq(T)
    BY <1>9
  <2>2. ASSUME NEW k \in 0..(n - 1), kept[k] \in Seq(T) PROVE kept[k + 1] \in Seq(T)
    <3>1. k + 1 \in 1..n /\ s[k + 1] \in T /\ k + 1 - 1 = k
      OBVIOUS
    <3>2. kept[k + 1] = IF s[k + 1] \in S THEN Append(kept[k], s[k + 1]) ELSE kept[k]
      BY <1>9, <3>1
    <3>3. QED BY <2>2, <3>1, <3>2
  <2>3. 0 \in Z /\ \A k \in 0..(n - 1) : k \in Z => k + 1 \in Z
    BY <1>1, <2>1, <2>2
  <2> HIDE DEF Z
  <2>4. 0..n \subseteq Z
    BY <1>1, <2>3, Induction
  <2>5. \A k \in 0..n : kept[k] \in Seq(T)
    BY <2>4 DEF Z
  <2>6. kept = [k \in 0..n |-> kept[k]]
    BY <1>6
  <2>7. QED BY <2>5, <2>6
<1>11. kept \in Filterings(s, S, T)
  BY <1>9, <1>10 DEF Filterings
<1>12. QED BY <1>7, <1>11

(* Where the elements of w were picked from s, one after the other, among  *)
(* the first n: those that are in S.                                       *)
Places(w, s, n, S) ==
  {p \in [1..Len(w) -> 1..n] :
     /\ \A i \in 1..Len(w) : w[i] = s[p[i]] /\ w[i] \in S
     /\ \A i, j \in 1..Len(w) : i < j => p[i] < p[j]
     /\ \A k \in 1..n : s[k] \in S => \E i \in 1..Len(w) : p[i] = k}

LEMMA KeptPlaces ==
  ASSUME NEW T, NEW s \in Seq(T), NEW S
  PROVE  /\ Kept(s, S) \in Seq(T)
         /\ Places(Kept(s, S), s, Len(s), S) # {}
<1>a. PICK kept \in Filterings(s, S, T) : Kept(s, S) = kept[Len(s)]
  BY KeptSteps
<1>1. /\ kept \in [0..Len(s) -> Seq(T)]
      /\ kept[0] = <<>>
      /\ \A k \in 1..Len(s) :
           kept[k] = IF s[k] \in S THEN Append(kept[k - 1], s[k]) ELSE kept[k - 1]
      /\ Kept(s, S) = kept[Len(s)]
  BY <1>a DEF Filterings
<1> DEFINE Z == {k \in 0..Len(s) : Places(kept[k], s, k, S) # {}}
<1>2. Len(s) \in Nat
  OBVIOUS
<1>3. Places(kept[0], s, 0, S) # {}
  <2>1. Len(kept[0]) = 0
    BY <1>1
  <2>2. [i \in 1..0 |-> i] \in Places(kept[0], s, 0, S)
    BY <2>1 DEF Places
  <2>3. QED BY <2>2
<1>4. ASSUME NEW k \in 0..(Len(s) - 1), Places(kept[k], s, k, S) # {}
      PROVE  Places(kept[k + 1], s, k + 1, S) # {}
  <2> DEFINE w == kept[k]
             v == kept[k + 1]
  <2>1. PICK p : p \in Places(w, s, k, S)
    BY <1>4
  <2>2. /\ p \in [1..Len(w) -> 1..k]
        /\ \A i \in 1..Len(w) : w[i] = s[p[i]] /\ w[i] \in S
        /\ \A i, j \in 1..Len(w) : i < j => p[i] < p[j]
        /\ \A h \in 1..k : s[h] \in S => \E i \in 1..Len(w) : p[i] = h
    BY <2>1 DEF Places
  <2>3. k + 1 \in 1..Len(s) /\ (k + 1) - 1 = k /\ k \in 0..Len(s) /\ k \in Nat
    OBVIOUS
  <2>4. w \in Seq(T) /\ v \in Seq(T) /\ s[k + 1] \in T
    BY <1>1, <2>3
  <2>5. v = IF s[k + 1] \in S THEN Append(w, s[k + 1]) ELSE w
    BY <1>1, <2>3
  <2> Len(w) \in Nat /\ Len(v) \in Nat
    BY <2>4
  <2> HIDE DEF v, w
  <2>6. CASE s[k + 1] \in S
    <3> DEFINE q == [i \in 1..(Len(w) + 1) |-> IF i = Len(w) + 1 THEN k + 1 ELSE p[i]]
    <3>1. /\ Len(v) = Len(w) + 1 /\ v[Len(w) + 1] = s[k + 1]
          /\ \A i \in 1..Len(w) : v[i] = w[i]
      BY <2>4, <2>5, <2>6
    <3>2. /\ q[Len(w) + 1] = k + 1
          /\ \A i \in 1..Len(w) : q[i] = p[i] /\ p[i] \in 1..k
      BY <2>2
    <3>3. q \in [1..Len(v) -> 1..(k + 1)]
      BY <2>2, <2>3, <3>1
    <3> HIDE DEF q
    <3>4. \A i \in 1..Len(v) : i \in 1..Len(w) \/ i = Len(w) + 1
      BY <3>1
    <3>5. \A i \in 1..Len(v) : v[i] = s[q[i]] /\ v[i] \in S
      BY <2>2, <2>6, <3>1, <3>2, <3>4
    <3>6. \A i, j \in 1..Len(v) : i < j => q[i] < q[j]
      BY <2>2, <2>3, <3>2, <3>4
    <3>7. \A h \in 1..(k + 1) : s[h] \in S => \E i \in 1..Len(v) : q[i] = h
      <4>1. ASSUME NEW h \in 1..k, s[h] \in S PROVE \E i \in 1..Len(v) : q[i] = h
        <5>1. PICK i \in 1..Len(w) : p[i] = h
          BY <2>2, <4>1
        <5>2. i \in 1..Len(v) /\ q[i] = h
          BY <3>1, <3>2, <5>1
        <5>3. QED BY <5>2
      <4>2. Len(w) + 1 \in 1..Len(v)
        BY <3>1
      <4>3. \A h \in 1..(k + 1) : h \in 1..k \/ h = k + 1
        BY <2>3
      <4>4. QED BY <3>2, <4>1, <4>2, <4>3
    <3>8. q \in Places(v, s, k + 1, S)
      BY <3>3, <3>5, <3>6, <3>7 DEF Places
    <3>9. QED BY <3>8 DEF v
  <2>7. CASE s[k + 1] \notin S
    <3>1. v = w
      BY <2>5, <2>7
    <3>2. p \in [1..Len(w) -> 1..(k + 1)]
      BY <2>2, <2>3
    <3>3. \A h \in 1..(k + 1) : s[h] \in S => h \in 1..k
      BY <2>3, <2>7
    <3>4. p \in Places(w, s, k + 1, S)
      BY <2>2, <3>2, <3>3 DEF Places
    <3>5. QED BY <3>1, <3>4 DEF v
  <2>8. QED BY <2>6, <2>7
<1>5. 0 \in Z /\ \A k \in 0..(Len(s) - 1) : k \in Z => k + 1 \in Z
  <2>1. 0 \in Z
    BY <1>2, <1>3
  <2>2. \A k \in 0..(Len(s) - 1) : k + 1 \in 0..Len(s)
    BY <1>2
  <2>3. QED BY <1>4, <2>1, <2>2
<1> HIDE DEF Z
<1>6. 0..Len(s) \subseteq Z
  BY <1>2, <1>5, Induction
<1>7. Places(kept[Len(s)], s, Len(s), S) # {}
  BY <1>2, <1>6 DEF Z
<1>8. QED BY <1>1, <1>2, <1>7

(* The elements that are in S, no more often than before, in their order.  *)
LEMMA KeptFacts ==
  ASSUME NEW T, NEW s \in Seq(T), NEW S
  PROVE  /\ Kept(s, S) \in Seq(T \cap S)
         /\ ToSet(Kept(s, S)) = ToSet(s) \cap S
         /\ \A i, j \in 1..Len(Kept(s, S)) :
              i < j => Before(s, Kept(s, S)[i], Kept(s, S)[j])
         /\ IsInjective(s) => IsInjective(Kept(s, S))
<1> DEFINE w == Kept(s, S)
<1>1. w \in Seq(T) /\ Places(w, s, Len(s), S) # {}
  BY KeptPlaces
<1> HIDE DEF w
<1>2. PICK p : p \in Places(w, s, Len(s), S)
  BY <1>1
<1>3. /\ p \in [1..Len(w) -> 1..Len(s)]
      /\ \A i \in 1..Len(w) : w[i] = s[p[i]] /\ w[i] \in S
      /\ \A i, j \in 1..Len(w) : i < j => p[i] < p[j]
      /\ \A h \in 1..Len(s) : s[h] \in S => \E i \in 1..Len(w) : p[i] = h
  BY <1>2 DEF Places
<1>4. DOMAIN s = 1..Len(s) /\ DOMAIN w = 1..Len(w) /\ Len(s) \in Nat /\ Len(w) \in Nat
  BY <1>1
<1>5. w \in Seq(T \cap S)
  BY <1>1, <1>3
<1>6. ToSet(w) = ToSet(s) \cap S
  <2>1. ToSet(w) \subseteq ToSet(s) \cap S
    BY <1>3, <1>4 DEF ToSet
  <2>2. ASSUME NEW h \in 1..Len(s), s[h] \in S PROVE s[h] \in ToSet(w)
    <3>1. PICK i \in 1..Len(w) : p[i] = h
      BY <1>3, <2>2
    <3>2. w[i] = s[h]
      BY <1>3, <3>1
    <3>3. QED BY <1>4, <3>2 DEF ToSet
  <2>3. ToSet(s) \cap S \subseteq ToSet(w)
    BY <1>4, <2>2 DEF ToSet
  <2>4. QED BY <2>1, <2>3
<1>7. ASSUME NEW i \in 1..Len(w), NEW j \in 1..Len(w), i < j
      PROVE  Before(s, w[i], w[j])
  <2>1. p[i] \in DOMAIN s /\ p[j] \in DOMAIN s /\ p[i] < p[j] /\ s[p[i]] = w[i] /\ s[p[j]] = w[j]
    BY <1>3, <1>4, <1>7
  <2>2. QED BY <2>1 DEF Before
<1>8. ASSUME IsInjective(s) PROVE IsInjective(w)
  <2>1. ASSUME NEW i \in 1..Len(w), NEW j \in 1..Len(w), w[i] = w[j] PROVE i = j
    <3>1. p[i] = p[j]
      BY <1>3, <1>4, <1>8, <2>1 DEF IsInjective
    <3>2. ~(i < j) /\ ~(j < i)
      BY <1>3, <1>4, <3>1
    <3>3. QED BY <1>4, <3>2
  <2>2. QED BY <1>4, <2>1 DEF IsInjective
<1>9. QED BY <1>5, <1>6, <1>7, <1>8 DEF w

-----------------------------------------------------------------------------
(* Counting the elements of a sequence, and the ids of a set. *)

LEMMA LenIsCount ==
  ASSUME NEW T, NEW w \in Seq(T), IsInjective(w)
  PROVE  IsFiniteSet(ToSet(w)) /\ Cardinality(ToSet(w)) = Len(w)
<1>1. Len(w) \in Nat /\ DOMAIN w = 1..Len(w)
  OBVIOUS
<1>2. w \in Bijection(1..Len(w), ToSet(w))
  <2>1. w \in [1..Len(w) -> ToSet(w)]
    BY <1>1 DEF ToSet
  <2>2. \A x \in ToSet(w) : \E i \in 1..Len(w) : w[i] = x
    BY <1>1 DEF ToSet
  <2>3. QED BY <2>1, <2>2, <1>1 DEF Bijection, Injection, Surjection, IsInjective
<1>3. IsFiniteSet(1..Len(w)) /\ Cardinality(1..Len(w)) = Len(w)
  BY <1>1, FS_Interval
<1>4. QED BY <1>2, <1>3, FS_Bijection DEF ExistsBijection

LEMMA FewerAreShorter ==
  ASSUME NEW T, NEW v \in Seq(T), NEW w \in Seq(T), IsInjective(v), IsInjective(w),
         ToSet(v) \subseteq ToSet(w)
  PROVE  Len(v) <= Len(w)
<1>1. /\ IsFiniteSet(ToSet(w))
      /\ Cardinality(ToSet(w)) = Len(w) /\ Cardinality(ToSet(v)) = Len(v)
  BY LenIsCount
<1>2. Cardinality(ToSet(v)) <= Cardinality(ToSet(w))
  BY <1>1, FS_Subset
<1>3. QED BY <1>1, <1>2

(* An enumeration of a finite set names distinct elements of it. *)
LEMMA SetToSeqFacts ==
  ASSUME NEW S, IsFiniteSet(S)
  PROVE  /\ SetToSeq(S) \in [1..Cardinality(S) -> S] /\ IsInjective(SetToSeq(S))
         /\ Cardinality(S) \in Nat
<1>1. Cardinality(S) \in Nat /\ ExistsBijection(1..Cardinality(S), S)
  BY FS_CardinalityType
<1>2. \E f \in [1..Cardinality(S) -> S] : IsInjective(f)
  BY <1>1 DEF ExistsBijection, Bijection, Injection
<1>3. QED BY <1>1, <1>2 DEF SetToSeq

-----------------------------------------------------------------------------
(* The groups that a scan forms. *)

Modes == {"solo", "2v2"}
Queued(q, m) == {u \in Users : q.state[u] = "QUEUED" /\ q.mode[u] = m}

InOrder(q, players) ==
  \A i, j \in DOMAIN players : i < j => Before(q.arrived, players[i], players[j])

LEMMA WaitingFacts ==
  ASSUME NEW q, q.arrived \in Seq(Users), IsInjective(q.arrived), NEW m
  PROVE  /\ Waiting(q, m) \in Seq(Users) /\ IsInjective(Waiting(q, m))
         /\ ToSet(Waiting(q, m)) = ToSet(q.arrived) \cap Queued(q, m)
         /\ InOrder(q, Waiting(q, m))
<1> DEFINE s == q.arrived
           S == Queued(q, m)
<1>1. Waiting(q, m) = Kept(s, S)
  BY DEF Waiting, Queued
<1>2. s \in Seq(Users) /\ IsInjective(s)
  OBVIOUS
<1> HIDE DEF s, S
<1>3. /\ Kept(s, S) \in Seq(Users \cap S)
      /\ ToSet(Kept(s, S)) = ToSet(s) \cap S
      /\ \A i, j \in 1..Len(Kept(s, S)) :
           i < j => Before(s, Kept(s, S)[i], Kept(s, S)[j])
      /\ IsInjective(Kept(s, S))
  BY <1>2, KeptFacts
<1>4. Kept(s, S) \in Seq(Users) /\ DOMAIN Kept(s, S) = 1..Len(Kept(s, S))
  BY <1>3
<1>5. QED BY <1>1, <1>3, <1>4 DEF InOrder, s, S

(* A group of one mode: queued players, each once, first come first. *)
GroupOf(q, m, players) ==
  /\ players \in Seq(Users) /\ IsInjective(players) /\ Len(players) = Required(m)
  /\ ToSet(players) \subseteq ToSet(q.arrived) \cap Queued(q, m)
  /\ InOrder(q, players)

LEMMA RequiredFacts ==
  ASSUME NEW m
  PROVE  Required(m) \in {2, 4}
BY DEF Required

LEMMA GroupsFacts ==
  ASSUME NEW q, q.arrived \in Seq(Users), IsInjective(q.arrived), NEW m
  PROVE  LET w == Waiting(q, m)
             k == Required(m)
         IN  /\ Groups(q, m) \in Seq(Seq(Users))
             /\ \A i \in DOMAIN Groups(q, m) : GroupOf(q, m, Groups(q, m)[i])
             /\ \A j \in 1..Len(w) :
                  j <= k * (Len(w) \div k) =>
                    \E i \in DOMAIN Groups(q, m) : w[j] \in ToSet(Groups(q, m)[i])
<1> DEFINE w == Waiting(q, m)
           k == Required(m)
           d == Len(w) \div k
           g == Groups(q, m)
<1>1. /\ w \in Seq(Users) /\ IsInjective(w)
      /\ ToSet(w) = ToSet(q.arrived) \cap Queued(q, m)
      /\ InOrder(q, w)
  BY WaitingFacts
<1>2. g = [i \in 1..d |-> SubSeq(w, (i - 1) * k + 1, i * k)]
  BY DEF Groups
<1>3. k \in {2, 4}
  BY RequiredFacts
<1> HIDE DEF w, k, g
<1>4. Len(w) \in Nat /\ DOMAIN w = 1..Len(w)
  BY <1>1
<1>5. d \in Nat /\ k * d <= Len(w)
  <2>1. CASE k = 2
    BY <1>4, <2>1
  <2>2. CASE k = 4
    BY <1>4, <2>2
  <2>3. QED BY <1>3, <2>1, <2>2
<1> HIDE DEF d
<1>6. ASSUME NEW i \in 1..d
      PROVE  /\ g[i] \in Seq(Users) /\ Len(g[i]) = k
             /\ \A j \in 1..k : g[i][j] = w[(i - 1) * k + j] /\ (i - 1) * k + j \in 1..Len(w)
  <2>1. g[i] = SubSeq(w, (i - 1) * k + 1, i * k)
    BY <1>2
  <2>2. CASE k = 2
    <3>1. g[i] = SubSeq(w, (i - 1) * 2 + 1, i * 2)
      BY <2>1, <2>2
    <3>2. (i - 1) * 2 + 1 \in 1..Len(w) /\ i * 2 \in 1..Len(w)
      BY <1>4, <1>5, <2>2
    <3>3. g[i] \in Seq(Users) /\ Len(g[i]) = 2
      BY <1>1, <1>4, <3>1, <3>2
    <3>4. \A j \in 1..2 : g[i][j] = w[(i - 1) * 2 + j] /\ (i - 1) * 2 + j \in 1..Len(w)
      BY <1>1, <1>4, <3>1, <3>2
    <3>5. QED BY <2>2, <3>3, <3>4
  <2>3. CASE k = 4
    <3>1. g[i] = SubSeq(w, (i - 1) * 4 + 1, i * 4)
      BY <2>1, <2>3
    <3>2. (i - 1) * 4 + 1 \in 1..Len(w) /\ i * 4 \in 1..Len(w)
      BY <1>4, <1>5, <2>3
    <3>3. g[i] \in Seq(Users) /\ Len(g[i]) = 4
      BY <1>1, <1>4, <3>1, <3>2
    <3>4. \A j \in 1..4 : g[i][j] = w[(i - 1) * 4 + j] /\ (i - 1) * 4 + j \in 1..Len(w)
      BY <1>1, <1>4, <3>1, <3>2
    <3>5. QED BY <2>3, <3>3, <3>4
  <2>4. QED BY <1>3, <2>2, <2>3
<1>7. ASSUME NEW i \in 1..d PROVE GroupOf(q, m, g[i])
  <2>1. DOMAIN g[i] = 1..k
    BY <1>6
  <2>2. ToSet(g[i]) \subseteq ToSet(w)
    BY <1>4, <1>6, <2>1 DEF ToSet
  <2> DEFINE at(j) == (i - 1) * k + j
  <2>3. ASSUME NEW j \in 1..k, NEW h \in 1..k
        PROVE  /\ at(j) \in DOMAIN w /\ g[i][j] = w[at(j)]
               /\ at(h) \in DOMAIN w /\ g[i][h] = w[at(h)]
               /\ j < h => at(j) < at(h)
               /\ at(j) = at(h) => j = h
    <3>1. (i - 1) * k \in Int
      BY <1>3
    <3>2. QED BY <1>3, <1>4, <1>6, <3>1
  <2> HIDE DEF at
  <2>4. IsInjective(g[i])
    BY <1>1, <2>1, <2>3 DEF IsInjective
  <2>5. InOrder(q, g[i])
    BY <1>1, <2>1, <2>3 DEF InOrder
  <2>6. QED BY <1>1, <1>6, <2>2, <2>4, <2>5 DEF GroupOf, k
<1>8. ASSUME NEW j \in 1..Len(w), j <= k * d
      PROVE  \E i \in 1..d : w[j] \in ToSet(g[i])
  <2> DEFINE i == ((j - 1) \div k) + 1
             h == ((j - 1) % k) + 1
  <2>1. i \in 1..d /\ h \in 1..k /\ (i - 1) * k + h = j
    <3>1. CASE k = 2
      BY <1>5, <1>8, <3>1
    <3>2. CASE k = 4
      BY <1>5, <1>8, <3>2
    <3>3. QED BY <1>3, <3>1, <3>2
  <2> HIDE DEF i, h
  <2>2. g[i][h] = w[j] /\ DOMAIN g[i] = 1..k
    BY <1>6, <2>1
  <2>3. w[j] \in ToSet(g[i])
    BY <2>1, <2>2 DEF ToSet
  <2>4. QED BY <2>1, <2>3
<1>9. g \in Seq(Seq(Users)) /\ DOMAIN g = 1..d
  BY <1>2, <1>5, <1>6
<1>10. QED BY <1>7, <1>8, <1>9 DEF w, k, d, g

LEMMA NewLobbiesFacts ==
  ASSUME NEW q, q.arrived \in Seq(Users), IsInjective(q.arrived)
  PROVE  /\ NewLobbies(q) \in Seq(Seq(Users))
         /\ \A i \in DOMAIN NewLobbies(q) :
              \E m \in Modes : GroupOf(q, m, NewLobbies(q)[i])
         /\ \A m \in Modes : \A i \in DOMAIN Groups(q, m) :
              \E h \in DOMAIN NewLobbies(q) : NewLobbies(q)[h] = Groups(q, m)[i]
<1> DEFINE a == Groups(q, "solo")
           b == Groups(q, "2v2")
           g == NewLobbies(q)
<1>1. /\ a \in Seq(Seq(Users)) /\ \A i \in DOMAIN a : GroupOf(q, "solo", a[i])
      /\ b \in Seq(Seq(Users)) /\ \A i \in DOMAIN b : GroupOf(q, "2v2", b[i])
  BY GroupsFacts
<1>2. g = a \o b
  BY DEF NewLobbies
<1> HIDE DEF a, b, g
<1>3. /\ g \in Seq(Seq(Users)) /\ Len(g) = Len(a) + Len(b)
      /\ \A i \in 1..Len(a) : g[i] = a[i]
      /\ \A i \in 1..Len(b) : g[Len(a) + i] = b[i]
  BY <1>1, <1>2
<1>4. /\ Len(a) \in Nat /\ Len(b) \in Nat
      /\ DOMAIN a = 1..Len(a) /\ DOMAIN b = 1..Len(b) /\ DOMAIN g = 1..Len(g)
  BY <1>1, <1>3
<1>5. ASSUME NEW i \in DOMAIN g PROVE \E m \in Modes : GroupOf(q, m, g[i])
  <2>1. CASE i \in 1..Len(a)
    BY <1>1, <1>3, <1>4, <2>1 DEF Modes
  <2>2. CASE i \notin 1..Len(a)
    <3>1. i - Len(a) \in 1..Len(b) /\ Len(a) + (i - Len(a)) = i
      BY <1>3, <1>4, <2>2
    <3>2. g[i] = b[i - Len(a)]
      BY <1>3, <3>1
    <3>3. QED BY <1>1, <1>4, <3>1, <3>2 DEF Modes
  <2>3. QED BY <2>1, <2>2
<1>6. \A i \in DOMAIN a : \E h \in DOMAIN g : g[h] = a[i]
  <2>1. \A i \in 1..Len(a) : i \in 1..Len(g) /\ g[i] = a[i]
    BY <1>3, <1>4
  <2>2. QED BY <1>4, <2>1
<1>7. \A i \in DOMAIN b : \E h \in DOMAIN g : g[h] = b[i]
  <2>1. \A i \in 1..Len(b) : Len(a) + i \in 1..Len(g) /\ g[Len(a) + i] = b[i]
    BY <1>3, <1>4
  <2>2. QED BY <1>4, <2>1
<1>8. \A m \in Modes : m = "solo" \/ m = "2v2"
  BY DEF Modes
<1>9. QED BY <1>3, <1>5, <1>6, <1>7, <1>8 DEF a, b, g

-----------------------------------------------------------------------------
(* The invariant, of the record that the handlers read and change. *)

QueueRecord ==
  [state : [Users -> QueueStates], mode : [Users -> ModeChoices \cup {"solo"}], arrived : Seq(Users),
   lobbyOf : [Users -> LobbyIds \cup {NoLobby, GoneLobby}],
   lobbies : [LobbyIds -> Lobby], presence : [Users -> Activities]]

(* Whoever has a joinedAt has one, and is not IDLE. *)
Placed(q) == IsInjective(q.arrived) /\ \A u \in ToSet(q.arrived) : q.state[u] # "IDLE"

Waits(lobby) ==
  Live(lobby) =>
    /\ IsInjective(lobby.players)
    /\ Len(lobby.players) \in {2, 4}
    /\ lobby.accepted \subseteq Members(lobby)
    /\ lobby.accepted # Members(lobby)

Stands(q, u) ==
  q.state[u] \in {"MATCH_FOUND", "ACCEPTING"} =>
    /\ q.lobbyOf[u] \in LobbyIds
    /\ u \in Members(q.lobbies[q.lobbyOf[u]])
    /\ u \in q.lobbies[q.lobbyOf[u]].accepted <=> q.state[u] = "ACCEPTING"

(* A player of whom MATCH_FOUND is shown, with the starts in progress.     *)
Shown(q, begun, u) ==
  q.presence[u] = "MATCH_FOUND" =>
    \E l \in LobbyIds : u \in Members(q.lobbies[l]) \cup ToSet(begun[l])

(* The id of a lobby is not reused while the start of one goes on.         *)
OneOf(q, begun) == \A l \in LobbyIds : Live(q.lobbies[l]) => begun[l] = <<>>

Drained(q) == \A m \in Modes : Len(Waiting(q, m)) < Required(m)

(* All of it except Drained, which a handler may break before it scans.    *)
Good(q, begun) ==
  /\ q \in QueueRecord
  /\ Placed(q)
  /\ \A l \in LobbyIds : Waits(q.lobbies[l])
  /\ \A u \in Users : Stands(q, u) /\ Shown(q, begun, u)
  /\ OneOf(q, begun)

(* The inductive invariant. *)
MatchmakerInv ==
  /\ Good(Queue, starting) /\ Drained(Queue)
  /\ starting \in [LobbyIds -> Seq(Users)]
  /\ online \subseteq Users

-----------------------------------------------------------------------------
(* attemptMatching *)

(* One new lobby for each group, under an id of its own that was free; the *)
(* rest of the record is as before, except for the players of the groups.  *)
Scanned(q, r, ids) ==
  LET groups == NewLobbies(q) IN
  /\ ids \in [DOMAIN groups -> FreeIds(q)]
  /\ r \in QueueRecord /\ r.arrived = q.arrived /\ r.mode = q.mode
  /\ \A i \in DOMAIN groups : r.lobbies[ids[i]] = [players |-> groups[i], accepted |-> {}]
  /\ \A l \in LobbyIds : (\A i \in DOMAIN groups : ids[i] # l) => r.lobbies[l] = q.lobbies[l]
  /\ \A u \in Users :
       \/ \E i \in DOMAIN groups :
            /\ u \in ToSet(groups[i]) /\ r.lobbyOf[u] = ids[i]
            /\ r.state[u] = "MATCH_FOUND" /\ r.presence[u] = "MATCH_FOUND"
       \/ /\ \A i \in DOMAIN groups : u \notin ToSet(groups[i])
          /\ r.lobbyOf[u] = q.lobbyOf[u]
          /\ r.state[u] = q.state[u] /\ r.presence[u] = q.presence[u]

LEMMA FreeIdsFacts ==
  ASSUME NEW q
  PROVE  IsFiniteSet(FreeIds(q)) /\ FreeIds(q) \subseteq LobbyIds
<1>1. FreeIds(q) \in SUBSET LobbyIds
  BY DEF FreeIds
<1>2. QED BY <1>1, MatchmakerAssumption, FS_Subset

LEMMA MatchedScans ==
  ASSUME NEW q \in QueueRecord, IsInjective(q.arrived), IdsFor(q)
  PROVE  \E ids : Scanned(q, Matched(q), ids)
<1> DEFINE g == NewLobbies(q)
           all == SetToSeq(FreeIds(q))
           r == Matched(q)
           group(l) == {i \in DOMAIN g : all[i] = l}
           invited == UNION {ToSet(g[i]) : i \in DOMAIN g}
           lobby(u) == all[CHOOSE i \in DOMAIN g : u \in ToSet(g[i])]
           ids == [i \in DOMAIN g |-> all[i]]
           newlobbies == [l \in LobbyIds |->
                            IF group(l) = {} THEN q.lobbies[l]
                            ELSE [players |-> g[CHOOSE i \in group(l) : TRUE],
                                  accepted |-> {}]]
           newof == [u \in Users |-> IF u \in invited THEN lobby(u) ELSE q.lobbyOf[u]]
<1>1. /\ q.state \in [Users -> QueueStates] /\ q.mode \in [Users -> ModeChoices \cup {"solo"}]
      /\ q.arrived \in Seq(Users)
      /\ q.lobbyOf \in [Users -> LobbyIds \cup {NoLobby, GoneLobby}]
      /\ q.lobbies \in [LobbyIds -> Lobby] /\ q.presence \in [Users -> Activities]
  BY DEF QueueRecord
<1>2. /\ g \in Seq(Seq(Users))
      /\ all \in [1..Cardinality(FreeIds(q)) -> FreeIds(q)] /\ IsInjective(all)
      /\ Cardinality(FreeIds(q)) \in Nat /\ FreeIds(q) \subseteq LobbyIds
      /\ Len(g) <= Cardinality(FreeIds(q))
  BY <1>1, NewLobbiesFacts, FreeIdsFacts, SetToSeqFacts DEF IdsFor
<1>3. r = [q EXCEPT !.lobbies = newlobbies,
                    !.state = Set(q.state, invited, "MATCH_FOUND"),
                    !.lobbyOf = newof,
                    !.presence = Set(q.presence, invited, "MATCH_FOUND")]
  BY DEF Matched
<1> HIDE DEF g, all, r
<1>4. /\ DOMAIN g = 1..Len(g) /\ Len(g) \in Nat
      /\ \A i \in DOMAIN g : g[i] \in Seq(Users) /\ i \in DOMAIN all /\ all[i] \in FreeIds(q)
  BY <1>2
<1>5. ids \in [DOMAIN g -> FreeIds(q)]
  BY <1>4
<1>6. invited \subseteq Users
  BY <1>4 DEF ToSet
<1>7. \A l \in LobbyIds : group(l) # {} => (CHOOSE i \in group(l) : TRUE) \in group(l)
  OBVIOUS
<1>8. newlobbies \in [LobbyIds -> Lobby]
  BY <1>1, <1>4, <1>7 DEF Lobby
<1>9. \A u \in invited : \E i \in DOMAIN g : u \in ToSet(g[i]) /\ lobby(u) = all[i]
  OBVIOUS
<1>10. newof \in [Users -> LobbyIds \cup {NoLobby, GoneLobby}]
  BY <1>1, <1>2, <1>4, <1>9
<1>11. /\ Set(q.state, invited, "MATCH_FOUND") \in [Users -> QueueStates]
       /\ Set(q.presence, invited, "MATCH_FOUND") \in [Users -> Activities]
  BY <1>1 DEF Set, QueueStates, Activities
<1>12. /\ \A i \in DOMAIN g : newlobbies[all[i]] = [players |-> g[i], accepted |-> {}]
       /\ \A l \in LobbyIds : (\A i \in DOMAIN g : all[i] # l) => newlobbies[l] = q.lobbies[l]
  <2>1. ASSUME NEW i \in DOMAIN g PROVE group(all[i]) = {i}
    BY <1>2, <1>4 DEF IsInjective
  <2>2. \A i \in DOMAIN g : all[i] \in LobbyIds
    BY <1>2, <1>4
  <2>3. QED BY <2>1, <2>2
<1>13. ASSUME NEW u \in Users
       PROVE  \/ \E i \in DOMAIN g :
                   /\ u \in ToSet(g[i]) /\ newof[u] = all[i]
                   /\ Set(q.state, invited, "MATCH_FOUND")[u] = "MATCH_FOUND"
                   /\ Set(q.presence, invited, "MATCH_FOUND")[u] = "MATCH_FOUND"
              \/ /\ \A i \in DOMAIN g : u \notin ToSet(g[i])
                 /\ newof[u] = q.lobbyOf[u]
                 /\ Set(q.state, invited, "MATCH_FOUND")[u] = q.state[u]
                 /\ Set(q.presence, invited, "MATCH_FOUND")[u] = q.presence[u]
  <2>1. CASE u \in invited
    BY <1>9, <2>1 DEF Set
  <2>2. CASE u \notin invited
    BY <2>2 DEF Set
  <2>3. QED BY <2>1, <2>2
<1> HIDE DEF invited, newlobbies, newof
<1>14. /\ r.state = Set(q.state, invited, "MATCH_FOUND") /\ r.mode = q.mode
       /\ r.arrived = q.arrived /\ r.lobbyOf = newof /\ r.lobbies = newlobbies
       /\ r.presence = Set(q.presence, invited, "MATCH_FOUND")
       /\ r \in QueueRecord
  BY <1>1, <1>3, <1>8, <1>10, <1>11 DEF QueueRecord
<1>15. \A i \in DOMAIN g : ids[i] = all[i]
  OBVIOUS
<1> HIDE DEF ids
<1>16. Scanned(q, r, ids)
  BY <1>5, <1>12, <1>13, <1>14, <1>15 DEF Scanned, g
<1>17. QED BY <1>16 DEF r

(* A lobby that was not there before has the players of one mode, in the   *)
(* order in which they queued.                                             *)
InTurn(q, r) ==
  \A l \in LobbyIds :
    ~Live(q.lobbies[l]) /\ Live(r.lobbies[l]) =>
      LET players == r.lobbies[l].players IN
      \A i, j \in DOMAIN players :
        i < j => /\ Before(r.arrived, players[i], players[j])
                 /\ r.mode[players[i]] = r.mode[players[j]]

LEMMA EmptyOrNot ==
  ASSUME NEW lobby \in Lobby
  PROVE  (\E u : u \in Members(lobby)) => Live(lobby)
<1>1. lobby.players \in Seq(Users)
  BY DEF Lobby
<1>2. lobby.players = <<>> => Members(lobby) = {}
  BY DEF Members, ToSet
<1>3. QED BY <1>2 DEF Live

LEMMA MatchedGood ==
  ASSUME NEW q, Good(q, starting), IdsFor(q)
  PROVE  /\ Good(Matched(q), starting) /\ Drained(Matched(q))
         /\ InTurn(q, Matched(q))
<1> DEFINE g == NewLobbies(q)
           r == Matched(q)
<1>1. /\ q \in QueueRecord /\ Placed(q) /\ OneOf(q, starting)
      /\ \A l \in LobbyIds : Waits(q.lobbies[l])
      /\ \A u \in Users : Stands(q, u) /\ Shown(q, starting, u)
  BY DEF Good
<1>2. /\ q.arrived \in Seq(Users) /\ IsInjective(q.arrived)
      /\ q.lobbies \in [LobbyIds -> Lobby] /\ q.state \in [Users -> QueueStates]
  BY <1>1 DEF QueueRecord, Placed
<1>3. PICK ids : Scanned(q, r, ids)
  BY <1>1, <1>2, MatchedScans
<1>4. /\ g \in Seq(Seq(Users))
      /\ \A i \in DOMAIN g : \E m \in Modes : GroupOf(q, m, g[i])
  BY <1>2, NewLobbiesFacts
<1>a. \A m \in Modes : \A i \in DOMAIN Groups(q, m) :
        \E h \in DOMAIN g : g[h] = Groups(q, m)[i]
  BY <1>2, NewLobbiesFacts
<1> HIDE DEF g, r
<1>5. /\ ids \in [DOMAIN g -> FreeIds(q)]
      /\ r \in QueueRecord /\ r.arrived = q.arrived /\ r.mode = q.mode
      /\ \A i \in DOMAIN g : r.lobbies[ids[i]] = [players |-> g[i], accepted |-> {}]
      /\ \A l \in LobbyIds : (\A i \in DOMAIN g : ids[i] # l) => r.lobbies[l] = q.lobbies[l]
      /\ \A u \in Users :
           \/ \E i \in DOMAIN g :
                /\ u \in ToSet(g[i]) /\ r.lobbyOf[u] = ids[i]
                /\ r.state[u] = "MATCH_FOUND" /\ r.presence[u] = "MATCH_FOUND"
           \/ /\ \A i \in DOMAIN g : u \notin ToSet(g[i])
              /\ r.lobbyOf[u] = q.lobbyOf[u]
              /\ r.state[u] = q.state[u] /\ r.presence[u] = q.presence[u]
  BY <1>3 DEF Scanned, g
<1>6. \A l \in LobbyIds : r.lobbies[l] = q.lobbies[l] \/ \E i \in DOMAIN g : ids[i] = l
  BY <1>5
<1>7. \A i \in DOMAIN g :
        /\ ids[i] \in LobbyIds /\ ~Live(q.lobbies[ids[i]]) /\ starting[ids[i]] = <<>>
        /\ r.lobbies[ids[i]] = [players |-> g[i], accepted |-> {}]
  BY <1>5 DEF FreeIds
<1>b. ASSUME NEW i \in DOMAIN g
      PROVE  r.lobbies[ids[i]].players = g[i] /\ r.lobbies[ids[i]].accepted = {}
  <2>1. r.lobbies[ids[i]] = [players |-> g[i], accepted |-> {}]
    BY <1>7
  <2>2. QED BY <2>1
<1>8. \A l \in LobbyIds : Live(q.lobbies[l]) => r.lobbies[l] = q.lobbies[l]
  BY <1>6, <1>7
<1>9. \A l \in LobbyIds : \A u \in Members(q.lobbies[l]) : r.lobbies[l] = q.lobbies[l]
  <2>1. \A l \in LobbyIds : q.lobbies[l] \in Lobby
    BY <1>2
  <2>2. QED BY <1>8, <2>1, EmptyOrNot
<1>10. Placed(r)
  <2>1. ASSUME NEW u \in ToSet(r.arrived) PROVE r.state[u] # "IDLE"
    <3>1. u \in Users
      BY <1>2, <1>5, <2>1 DEF ToSet
    <3>2. q.state[u] # "IDLE"
      BY <1>1, <1>5, <2>1 DEF Placed
    <3>3. r.state[u] = "MATCH_FOUND" \/ r.state[u] = q.state[u]
      BY <1>5, <3>1
    <3>4. QED BY <3>2, <3>3
  <2>2. QED BY <1>2, <1>5, <2>1 DEF Placed
<1>11. ASSUME NEW l \in LobbyIds PROVE Waits(r.lobbies[l])
  <2>1. CASE r.lobbies[l] = q.lobbies[l]
    BY <1>1, <2>1
  <2>2. ASSUME NEW i \in DOMAIN g, ids[i] = l PROVE Waits(r.lobbies[l])
    <3>1. PICK m \in Modes : GroupOf(q, m, g[i])
      BY <1>4
    <3>2. IsInjective(g[i]) /\ Len(g[i]) \in {2, 4} /\ g[i] \in Seq(Users)
      BY <3>1, RequiredFacts DEF GroupOf
    <3>3. ToSet(g[i]) # {}
      BY <3>2 DEF ToSet
    <3>4. r.lobbies[l].players = g[i] /\ r.lobbies[l].accepted = {}
      BY <1>b, <2>2
    <3>5. QED BY <3>2, <3>3, <3>4 DEF Waits, Members
  <2>3. QED BY <1>6, <2>1, <2>2
<1>12. ASSUME NEW u \in Users PROVE Stands(r, u) /\ Shown(r, starting, u)
  <2>1. ASSUME NEW i \in DOMAIN g, u \in ToSet(g[i]), r.lobbyOf[u] = ids[i],
               r.state[u] = "MATCH_FOUND"
        PROVE  Stands(r, u) /\ Shown(r, starting, u)
    <3>1. r.lobbies[ids[i]].players = g[i] /\ r.lobbies[ids[i]].accepted = {}
      BY <1>b
    <3>2. ids[i] \in LobbyIds /\ u \in Members(r.lobbies[ids[i]])
      BY <1>7, <2>1, <3>1 DEF Members
    <3>3. QED BY <2>1, <3>1, <3>2 DEF Stands, Shown
  <2>2. ASSUME r.lobbyOf[u] = q.lobbyOf[u],
               r.state[u] = q.state[u], r.presence[u] = q.presence[u]
        PROVE  Stands(r, u) /\ Shown(r, starting, u)
    <3>1. Stands(q, u) /\ Shown(q, starting, u)
      BY <1>1
    <3>2. Stands(r, u)
      BY <1>9, <2>2, <3>1 DEF Stands
    <3>3. Shown(r, starting, u)
      BY <1>9, <2>2, <3>1 DEF Shown
    <3>4. QED BY <3>2, <3>3
  <2>3. QED BY <1>5, <2>1, <2>2
<1>13. OneOf(r, starting)
  <2>1. ASSUME NEW l \in LobbyIds, Live(r.lobbies[l]) PROVE starting[l] = <<>>
    BY <1>1, <1>6, <1>7, <2>1 DEF OneOf
  <2>2. QED BY <2>1 DEF OneOf
<1>14. Good(r, starting)
  BY <1>5, <1>10, <1>11, <1>12, <1>13 DEF Good
<1>15. ASSUME NEW m \in Modes PROVE Len(Waiting(r, m)) < Required(m)
  <2> DEFINE w == Waiting(q, m)
             v == Waiting(r, m)
             k == Required(m)
             full == k * (Len(w) \div k)
             rest == SubSeq(w, full + 1, Len(w))
  <2>1. /\ w \in Seq(Users) /\ IsInjective(w)
        /\ ToSet(w) = ToSet(q.arrived) \cap Queued(q, m)
    BY <1>2, WaitingFacts
  <2>2. /\ v \in Seq(Users) /\ IsInjective(v)
        /\ ToSet(v) = ToSet(q.arrived) \cap Queued(r, m)
    BY <1>2, <1>5, WaitingFacts
  <2>3. \A j \in 1..Len(w) :
          j <= full => \E i \in DOMAIN Groups(q, m) : w[j] \in ToSet(Groups(q, m)[i])
    BY <1>2, GroupsFacts
  <2>4. k \in {2, 4}
    BY RequiredFacts
  <2> HIDE DEF w, v, k
  <2>5. Len(w) \in Nat /\ full \in Nat /\ full <= Len(w) /\ Len(w) - full < k
    <3>1. CASE k = 2
      BY <2>1, <3>1
    <3>2. CASE k = 4
      BY <2>1, <3>2
    <3>3. QED BY <2>4, <3>1, <3>2
  <2> HIDE DEF full
  <2>6. ASSUME NEW j \in 1..Len(w), j <= full PROVE w[j] \notin ToSet(v)
    <3>1. PICK i \in DOMAIN g : w[j] \in ToSet(g[i])
      BY <1>a, <2>3, <2>6
    <3>2. w[j] \in Users
      BY <2>1
    <3>3. r.state[w[j]] = "MATCH_FOUND"
      BY <1>5, <3>1, <3>2
    <3>4. QED BY <2>2, <3>3 DEF Queued
  <2>7. /\ rest \in Seq(Users) /\ Len(rest) = Len(w) - full
        /\ \A j \in 1..(Len(w) - full) : rest[j] = w[full + j]
    BY <2>1, <2>5
  <2>8. DOMAIN w = 1..Len(w) /\ DOMAIN rest = 1..(Len(w) - full)
    BY <2>1, <2>7
  <2> HIDE DEF rest
  <2>9. IsInjective(rest)
    <3>1. ASSUME NEW i \in 1..(Len(w) - full), NEW j \in 1..(Len(w) - full),
                 rest[i] = rest[j]
          PROVE  i = j
      <4>1. full + i \in DOMAIN w /\ full + j \in DOMAIN w
        BY <2>5, <2>8
      <4>2. full + i = full + j
        BY <2>1, <2>7, <3>1, <4>1 DEF IsInjective
      <4>3. QED BY <2>5, <4>2
    <3>2. QED BY <2>8, <3>1 DEF IsInjective
  <2>10. ToSet(v) \subseteq ToSet(rest)
    <3>1. ToSet(v) \subseteq ToSet(w)
      <4>1. ASSUME NEW u \in Queued(r, m) PROVE u \in Queued(q, m)
        <5>1. u \in Users /\ r.state[u] = "QUEUED" /\ r.mode[u] = m
          BY <4>1 DEF Queued
        <5>2. q.state[u] = "QUEUED" /\ q.mode[u] = m
          BY <1>5, <5>1
        <5>3. QED BY <5>1, <5>2 DEF Queued
      <4>2. QED BY <2>1, <2>2, <4>1
    <3>2. ASSUME NEW x \in ToSet(v) PROVE x \in ToSet(rest)
      <4>1. PICK j \in 1..Len(w) : w[j] = x
        BY <2>8, <3>1, <3>2 DEF ToSet
      <4>2. j > full
        BY <2>5, <2>6, <3>2, <4>1
      <4>3. j - full \in 1..(Len(w) - full) /\ full + (j - full) = j
        BY <2>5, <4>2
      <4>4. rest[j - full] = x
        BY <2>7, <4>1, <4>3
      <4>5. QED BY <2>8, <4>3, <4>4 DEF ToSet
    <3>3. QED BY <3>2
  <2>11. Len(v) <= Len(rest)
    BY <2>2, <2>7, <2>9, <2>10, FewerAreShorter
  <2>12. Len(v) \in Nat /\ Len(v) < k
    BY <2>2, <2>4, <2>5, <2>7, <2>11
  <2>13. QED BY <2>12 DEF v, k
<1>16. ASSUME NEW l \in LobbyIds, ~Live(q.lobbies[l]), Live(r.lobbies[l]),
              NEW i \in DOMAIN r.lobbies[l].players,
              NEW j \in DOMAIN r.lobbies[l].players, i < j
       PROVE  /\ Before(r.arrived, r.lobbies[l].players[i], r.lobbies[l].players[j])
              /\ r.mode[r.lobbies[l].players[i]] = r.mode[r.lobbies[l].players[j]]
  <2>1. PICK h \in DOMAIN g : ids[h] = l
    BY <1>6, <1>16
  <2>2. r.lobbies[l].players = g[h]
    BY <1>b, <2>1
  <2>3. PICK m \in Modes : GroupOf(q, m, g[h])
    BY <1>4
  <2>4. Before(q.arrived, g[h][i], g[h][j])
    BY <1>16, <2>2, <2>3 DEF GroupOf, InOrder
  <2>5. g[h][i] \in Queued(q, m) /\ g[h][j] \in Queued(q, m)
    BY <1>16, <2>2, <2>3 DEF GroupOf, ToSet
  <2>6. QED BY <1>5, <2>2, <2>4, <2>5 DEF Queued
<1>17. InTurn(q, r)
  BY <1>16 DEF InTurn
<1>18. Drained(r)
  BY <1>15 DEF Drained
<1>19. QED BY <1>14, <1>17, <1>18 DEF r

-----------------------------------------------------------------------------
(* dissolveLobby, leaveQueue and declineMatch *)

LEMMA WithoutFacts ==
  ASSUME NEW s \in Seq(Users), NEW u
  PROVE  /\ Without(s, u) \in Seq(Users)
         /\ ToSet(Without(s, u)) = ToSet(s) \ {u}
         /\ IsInjective(s) => IsInjective(Without(s, u))
<1>1. ToSet(s) \subseteq Users
  BY DEF ToSet
<1>2. /\ Kept(s, Users \ {u}) \in Seq(Users \cap (Users \ {u}))
      /\ ToSet(Kept(s, Users \ {u})) = ToSet(s) \cap (Users \ {u})
      /\ IsInjective(s) => IsInjective(Kept(s, Users \ {u}))
  BY KeptFacts
<1>3. Kept(s, Users \ {u}) \in Seq(Users)
  BY <1>2
<1>4. QED BY <1>1, <1>2, <1>3 DEF Without

(* Players who leave the queue leave nobody behind who could be matched.   *)
LEMMA StillDrained ==
  ASSUME NEW q \in QueueRecord, NEW r \in QueueRecord,
         IsInjective(q.arrived), IsInjective(r.arrived), Drained(q),
         \A u \in ToSet(r.arrived) :
           r.state[u] = "QUEUED" =>
             u \in ToSet(q.arrived) /\ q.state[u] = "QUEUED" /\ q.mode[u] = r.mode[u]
  PROVE  Drained(r)
<1>1. q.arrived \in Seq(Users) /\ r.arrived \in Seq(Users)
  BY DEF QueueRecord
<1>2. ASSUME NEW m \in Modes PROVE Len(Waiting(r, m)) < Required(m)
  <2>1. /\ Waiting(q, m) \in Seq(Users) /\ IsInjective(Waiting(q, m))
        /\ ToSet(Waiting(q, m)) = ToSet(q.arrived) \cap Queued(q, m)
        /\ Waiting(r, m) \in Seq(Users) /\ IsInjective(Waiting(r, m))
        /\ ToSet(Waiting(r, m)) = ToSet(r.arrived) \cap Queued(r, m)
    BY <1>1, WaitingFacts
  <2>2. ToSet(Waiting(r, m)) \subseteq ToSet(Waiting(q, m))
    BY <2>1 DEF Queued
  <2>3. Len(Waiting(r, m)) <= Len(Waiting(q, m))
    BY <2>1, <2>2, FewerAreShorter
  <2>4. Len(Waiting(q, m)) < Required(m)
    BY DEF Drained
  <2>5. Len(Waiting(r, m)) \in Nat /\ Len(Waiting(q, m)) \in Nat /\ Required(m) \in Nat
    BY <2>1, RequiredFacts
  <2>6. QED BY <2>3, <2>4, <2>5
<1>3. QED BY <1>2 DEF Drained

LEMMA SetFacts ==
  ASSUME NEW f, NEW S, NEW x, NEW u \in Users
  PROVE  Set(f, S, x)[u] = IF u \in S THEN x ELSE f[u]
BY DEF Set

(* No lobby comes into being. *)
NoNewLobby(q, r) ==
  \A l \in LobbyIds : Live(r.lobbies[l]) => Live(q.lobbies[l])

LEMMA DequeuedGood ==
  ASSUME NEW q, Good(q, starting), NEW u \in Users
  PROVE  /\ Good(Dequeued(q, u), starting) /\ Dequeued(q, u).lobbies = q.lobbies
         /\ Drained(q) => Drained(Dequeued(q, u))
<1> DEFINE r == Dequeued(q, u)
           rest == Without(q.arrived, u)
<1>1. /\ q \in QueueRecord /\ Placed(q) /\ OneOf(q, starting)
      /\ \A l \in LobbyIds : Waits(q.lobbies[l])
      /\ \A v \in Users : Stands(q, v) /\ Shown(q, starting, v)
  BY DEF Good
<1>2. /\ rest \in Seq(Users) /\ ToSet(rest) = ToSet(q.arrived) \ {u} /\ IsInjective(rest)
  BY <1>1, WithoutFacts DEF QueueRecord, Placed
<1> HIDE DEF rest
<1>3. r = [q EXCEPT !.state[u] = "IDLE", !.arrived = rest, !.presence[u] = "ONLINE"]
  BY DEF Dequeued, rest
<1> HIDE DEF r
<1>4. /\ r.state = [q.state EXCEPT ![u] = "IDLE"] /\ r.mode = q.mode /\ r.arrived = rest
      /\ r.lobbyOf = q.lobbyOf /\ r.lobbies = q.lobbies
      /\ r.presence = [q.presence EXCEPT ![u] = "ONLINE"]
      /\ r \in QueueRecord
  BY <1>1, <1>2, <1>3 DEF QueueRecord, QueueStates, Activities
<1>5. \A v \in Users : r.state[v] = (IF v = u THEN "IDLE" ELSE q.state[v])
                    /\ r.presence[v] = (IF v = u THEN "ONLINE" ELSE q.presence[v])
  BY <1>1, <1>4 DEF QueueRecord
<1>6. ToSet(rest) \subseteq Users
  BY <1>2 DEF ToSet
<1>7. Placed(r)
  BY <1>1, <1>2, <1>4, <1>5, <1>6 DEF Placed
<1>8. \A v \in Users : Stands(r, v) /\ Shown(r, starting, v)
  BY <1>1, <1>4, <1>5 DEF Stands, Shown
<1>9. Good(r, starting)
  BY <1>1, <1>4, <1>7, <1>8 DEF Good, OneOf
<1>10. ASSUME Drained(q) PROVE Drained(r)
  <2>1. \A v \in ToSet(r.arrived) :
          r.state[v] = "QUEUED" =>
            v \in ToSet(q.arrived) /\ q.state[v] = "QUEUED" /\ q.mode[v] = r.mode[v]
    BY <1>2, <1>4, <1>5, <1>6
  <2>2. IsInjective(q.arrived) /\ IsInjective(r.arrived)
    BY <1>1, <1>7 DEF Placed
  <2>3. QED BY <1>1, <1>4, <1>10, <2>1, <2>2, StillDrained
<1>11. QED BY <1>4, <1>9, <1>10 DEF r

LEMMA RequeuedGood ==
  ASSUME NEW q, Good(q, starting), NEW l \in LobbyIds, NEW blamed \in Users
  PROVE  /\ Good(Requeued(q, l, blamed), starting)
         /\ NoNewLobby(q, Requeued(q, l, blamed))
<1> DEFINE r == Requeued(q, l, blamed)
           members == Members(q.lobbies[l])
           out == members \cap {blamed}
           rest == IF out = {} THEN q.arrived ELSE Without(q.arrived, blamed)
<1>1. /\ q \in QueueRecord /\ Placed(q) /\ OneOf(q, starting)
      /\ \A k \in LobbyIds : Waits(q.lobbies[k])
      /\ \A v \in Users : Stands(q, v) /\ Shown(q, starting, v)
  BY DEF Good
<1>2. /\ rest \in Seq(Users) /\ ToSet(rest) = ToSet(q.arrived) \ out /\ IsInjective(rest)
  BY <1>1, WithoutFacts DEF QueueRecord, Placed
<1>3. r = [q EXCEPT !.lobbies[l] = NotInMap,
                    !.lobbyOf = Set(q.lobbyOf, members, NoLobby),
                    !.state = Set(Set(q.state, members, "QUEUED"), out, "IDLE"),
                    !.arrived = rest,
                    !.presence = Set(Set(q.presence, members, "IN_QUEUE"), out, "ONLINE")]
  BY DEF Requeued
<1> HIDE DEF r, rest, members, out
<1>4. NotInMap \in Lobby /\ ~Live(NotInMap) /\ Members(NotInMap) = {}
  BY DEF NotInMap, Lobby, Live, Members, ToSet
<1>5. /\ Set(q.lobbyOf, members, NoLobby) \in [Users -> LobbyIds \cup {NoLobby, GoneLobby}]
      /\ Set(Set(q.state, members, "QUEUED"), out, "IDLE") \in [Users -> QueueStates]
      /\ Set(Set(q.presence, members, "IN_QUEUE"), out, "ONLINE") \in [Users -> Activities]
  BY <1>1 DEF QueueRecord, Set, QueueStates, Activities
<1>6. /\ r.lobbies = [q.lobbies EXCEPT ![l] = NotInMap] /\ r.mode = q.mode
      /\ r.lobbyOf = Set(q.lobbyOf, members, NoLobby)
      /\ r.state = Set(Set(q.state, members, "QUEUED"), out, "IDLE") /\ r.arrived = rest
      /\ r.presence = Set(Set(q.presence, members, "IN_QUEUE"), out, "ONLINE")
      /\ r \in QueueRecord
  BY <1>1, <1>2, <1>3, <1>4, <1>5 DEF QueueRecord
<1>7. out \subseteq members /\ out \subseteq {blamed}
  BY DEF out
<1>8. ASSUME NEW v \in Users
      PROVE  /\ v \in members => r.state[v] \in {"QUEUED", "IDLE"} /\ r.lobbyOf[v] = NoLobby
                                 /\ r.presence[v] \in {"IN_QUEUE", "ONLINE"}
             /\ v \in members /\ v \notin out => r.state[v] = "QUEUED"
             /\ v \notin members =>
                  /\ r.state[v] = q.state[v] /\ r.lobbyOf[v] = q.lobbyOf[v]
                  /\ r.presence[v] = q.presence[v]
  BY <1>6, <1>7, SetFacts
<1>9. \A k \in LobbyIds : r.lobbies[k] = IF k = l THEN NotInMap ELSE q.lobbies[k]
  BY <1>1, <1>6 DEF QueueRecord
<1>10. Placed(r)
  <2>1. ASSUME NEW v \in ToSet(rest) PROVE r.state[v] # "IDLE"
    <3>1. v \in Users /\ v \in ToSet(q.arrived) /\ v \notin out
      BY <1>2, <2>1 DEF ToSet
    <3>2. CASE v \in members
      BY <1>8, <3>1, <3>2
    <3>3. CASE v \notin members
      BY <1>1, <1>8, <3>1, <3>3 DEF Placed
    <3>4. QED BY <3>2, <3>3
  <2>2. QED BY <1>2, <1>6, <2>1 DEF Placed
<1>11. \A k \in LobbyIds : Waits(r.lobbies[k])
  BY <1>1, <1>4, <1>9 DEF Waits
<1>12. ASSUME NEW v \in Users PROVE Stands(r, v) /\ Shown(r, starting, v)
  <2>1. CASE v \in members
    BY <1>8, <2>1 DEF Stands, Shown
  <2>2. CASE v \notin members
    <3>1. Stands(q, v) /\ Shown(q, starting, v) /\ v \notin Members(q.lobbies[l])
      BY <1>1, <2>2 DEF members
    <3>2. Stands(r, v)
      BY <1>8, <1>9, <2>2, <3>1 DEF Stands
    <3>3. Shown(r, starting, v)
      BY <1>8, <1>9, <2>2, <3>1 DEF Shown
    <3>4. QED BY <3>2, <3>3
  <2>3. QED BY <2>1, <2>2
<1>13. OneOf(r, starting)
  BY <1>1, <1>4, <1>9 DEF OneOf
<1>14. NoNewLobby(q, r)
  BY <1>4, <1>9 DEF NoNewLobby
<1>15. Good(r, starting)
  BY <1>6, <1>10, <1>11, <1>12, <1>13 DEF Good
<1>16. QED BY <1>14, <1>15 DEF r

LEMMA InTurnAfter ==
  ASSUME NEW p, NEW q, NEW r, NoNewLobby(p, q), InTurn(q, r)
  PROVE  InTurn(p, r)
<1>1. \A l \in LobbyIds : ~Live(p.lobbies[l]) => ~Live(q.lobbies[l])
  BY DEF NoNewLobby
<1>2. QED BY <1>1 DEF InTurn

LEMMA NoneInTurn ==
  ASSUME NEW q, NEW r, NoNewLobby(q, r)
  PROVE  InTurn(q, r)
<1>1. \A l \in LobbyIds : ~Live(q.lobbies[l]) => ~Live(r.lobbies[l])
  BY DEF NoNewLobby
<1>2. QED BY <1>1 DEF InTurn

LEMMA DissolvedGood ==
  ASSUME Good(Queue, starting), NEW l \in LobbyIds, NEW blamed \in Users,
         IdsToDissolve(l, blamed)
  PROVE  LET r == Dissolved(Queue, l, blamed)
         IN  Good(r, starting) /\ Drained(r) /\ InTurn(Queue, r)
<1> DEFINE p == Requeued(Queue, l, blamed)
           r == Matched(p)
<1>1. Good(p, starting) /\ NoNewLobby(Queue, p)
  BY RequeuedGood
<1>2. IdsFor(p)
  BY DEF IdsToDissolve
<1>3. Dissolved(Queue, l, blamed) = r
  BY DEF Dissolved
<1> HIDE DEF p
<1>4. Good(r, starting) /\ Drained(r) /\ InTurn(p, r)
  BY <1>1, <1>2, MatchedGood
<1> HIDE DEF r
<1>5. InTurn(Queue, r)
  BY <1>1, <1>4, InTurnAfter
<1>6. QED BY <1>3, <1>4, <1>5

LEMMA QueueFields ==
  /\ Queue.state = state /\ Queue.mode = mode /\ Queue.arrived = arrived
  /\ Queue.lobbyOf = lobbyOf /\ Queue.lobbies = lobbies /\ Queue.presence = presence
BY DEF Queue

LEMMA DeclinedGood ==
  ASSUME Good(Queue, starting), Drained(Queue), NEW u \in Users, IdsToDissolve(lobbyOf[u], u)
  PROVE  LET r == Declined(Queue, u)
         IN  Good(r, starting) /\ Drained(r) /\ InTurn(Queue, r)
<1> DEFINE r == Declined(Queue, u)
<1>1. CASE lobbyOf[u] = NoLobby /\ state[u] = "QUEUED"
  <2>1. r = Dequeued(Queue, u)
    BY <1>1, QueueFields, MatchmakerAssumption DEF Declined
  <2>2. InTurn(Queue, Dequeued(Queue, u))
    BY DequeuedGood, NoneInTurn DEF NoNewLobby
  <2>3. QED BY <2>1, <2>2, DequeuedGood
<1>2. CASE lobbyOf[u] \in LobbyIds
  <2>1. lobbyOf[u] # NoLobby
    BY <1>2, MatchmakerAssumption
  <2>2. r = Dissolved(Queue, lobbyOf[u], u)
    BY <1>2, <2>1, QueueFields DEF Declined
  <2>3. QED BY <1>2, <2>2, DissolvedGood
<1>3. CASE ~(lobbyOf[u] = NoLobby /\ state[u] = "QUEUED") /\ lobbyOf[u] \notin LobbyIds
  <2>1. r = Queue
    BY <1>3, QueueFields DEF Declined
  <2>2. InTurn(Queue, Queue)
    BY NoneInTurn DEF NoNewLobby
  <2>3. QED BY <2>1, <2>2
<1>4. QED BY <1>1, <1>2, <1>3

LEMMA LeftGood ==
  ASSUME Good(Queue, starting), Drained(Queue), NEW u \in Users, IdsToDissolve(lobbyOf[u], u)
  PROVE  LET r == Left(Queue, u)
         IN  Good(r, starting) /\ Drained(r) /\ InTurn(Queue, r)
<1> DEFINE r == Left(Queue, u)
<1>1. CASE state[u] = "IDLE"
  <2>1. r = Queue
    BY <1>1, QueueFields DEF Left
  <2>2. InTurn(Queue, Queue)
    BY NoneInTurn DEF NoNewLobby
  <2>3. QED BY <2>1, <2>2
<1>2. CASE state[u] \in {"MATCH_FOUND", "ACCEPTING"}
  <2>1. r = Declined(Queue, u)
    BY <1>2, QueueFields DEF Left
  <2>2. QED BY <2>1, DeclinedGood
<1>3. CASE state[u] \notin {"IDLE", "MATCH_FOUND", "ACCEPTING"}
  <2>1. r = Dequeued(Queue, u)
    BY <1>3, QueueFields DEF Left
  <2>2. InTurn(Queue, Dequeued(Queue, u))
    BY DequeuedGood, NoneInTurn DEF NoNewLobby
  <2>3. QED BY <2>1, <2>2, DequeuedGood
<1>4. QED BY <1>1, <1>2, <1>3

(* What friends see of one player, other than a match.                     *)
LEMMA PresenceGood ==
  ASSUME NEW q, Good(q, starting), NEW u \in Users, NEW activity \in Activities \ {"MATCH_FOUND"}
  PROVE  LET r == [q EXCEPT !.presence[u] = activity]
         IN  Good(r, starting) /\ (Drained(q) => Drained(r)) /\ r.lobbies = q.lobbies
             /\ r.arrived = q.arrived /\ r.mode = q.mode
<1> DEFINE r == [q EXCEPT !.presence[u] = activity]
<1>1. q \in QueueRecord /\ \A v \in Users : Stands(q, v) /\ Shown(q, starting, v)
  BY DEF Good
<1>2. /\ r.state = q.state /\ r.mode = q.mode /\ r.arrived = q.arrived
      /\ r.lobbyOf = q.lobbyOf /\ r.lobbies = q.lobbies
      /\ r.presence = [q.presence EXCEPT ![u] = activity]
      /\ r \in QueueRecord
  BY <1>1 DEF QueueRecord
<1> HIDE DEF r
<1>3. \A v \in Users : r.presence[v] = IF v = u THEN activity ELSE q.presence[v]
  BY <1>1, <1>2 DEF QueueRecord
<1>4. \A v \in Users : Stands(r, v) /\ Shown(r, starting, v)
  BY <1>1, <1>2, <1>3 DEF Stands, Shown
<1>5. Placed(r) /\ OneOf(r, starting) /\ \A l \in LobbyIds : Waits(r.lobbies[l])
  BY <1>2 DEF Good, Placed, OneOf
<1>6. Good(r, starting)
  BY <1>2, <1>4, <1>5 DEF Good
<1>7. \A m : Waiting(r, m) = Waiting(q, m)
  BY <1>2 DEF Waiting
<1>8. Drained(q) => Drained(r)
  BY <1>7 DEF Drained
<1>9. QED BY <1>2, <1>6, <1>8 DEF r

LEMMA JoinedGood ==
  ASSUME Good(Queue, starting), NEW u \in Users, NEW m \in ModeChoices, state[u] = "IDLE"
  PROVE  /\ Good(Joined(Queue, u, m), starting)
         /\ Joined(Queue, u, m).lobbies = lobbies
<1> DEFINE q == Queue
           r == Joined(q, u, m)
           rest == Without(q.arrived, u)
           more == Append(rest, u)
<1>1. /\ q \in QueueRecord /\ Placed(q) /\ OneOf(q, starting)
      /\ \A l \in LobbyIds : Waits(q.lobbies[l])
      /\ \A v \in Users : Stands(q, v) /\ Shown(q, starting, v)
  BY DEF Good
<1>2. q.state[u] = "IDLE" /\ q.lobbies = lobbies
  BY QueueFields
<1> HIDE DEF q
<1>3. /\ rest \in Seq(Users) /\ ToSet(rest) = ToSet(q.arrived) \ {u} /\ IsInjective(rest)
  BY <1>1, WithoutFacts DEF QueueRecord, Placed
<1> HIDE DEF rest
<1>4. /\ more \in Seq(Users) /\ Len(more) = Len(rest) + 1
      /\ \A i \in 1..Len(rest) : more[i] = rest[i]
      /\ more[Len(rest) + 1] = u
  BY <1>3
<1>5. DOMAIN rest = 1..Len(rest) /\ DOMAIN more = 1..Len(more) /\ Len(rest) \in Nat
  BY <1>3, <1>4
<1>6. r = [q EXCEPT !.state[u] = "QUEUED", !.mode[u] = m, !.lobbyOf[u] = NoLobby,
                    !.arrived = more, !.presence[u] = "IN_QUEUE"]
  BY DEF Joined, rest
<1> HIDE DEF r, more
<1>7. \A i \in DOMAIN more : i \in 1..Len(rest) \/ i = Len(rest) + 1
  BY <1>4, <1>5
<1>8. ToSet(more) \subseteq ToSet(q.arrived) \cup {u}
  BY <1>3, <1>4, <1>5, <1>7 DEF ToSet
<1>9. IsInjective(more)
  <2>1. \A i \in 1..Len(rest) : more[i] # u
    BY <1>3, <1>4, <1>5 DEF ToSet
  <2>2. QED BY <1>3, <1>4, <1>5, <1>7, <2>1 DEF IsInjective
<1>10. /\ r.state = [q.state EXCEPT ![u] = "QUEUED"] /\ r.mode = [q.mode EXCEPT ![u] = m]
       /\ r.lobbyOf = [q.lobbyOf EXCEPT ![u] = NoLobby]
       /\ r.arrived = more /\ r.lobbies = q.lobbies
       /\ r.presence = [q.presence EXCEPT ![u] = "IN_QUEUE"]
       /\ r \in QueueRecord
  BY <1>1, <1>2, <1>4, <1>6 DEF QueueRecord, QueueStates, Activities
<1>11. \A v \in Users :
         /\ r.state[v] = IF v = u THEN "QUEUED" ELSE q.state[v]
         /\ r.lobbyOf[v] = IF v = u THEN NoLobby ELSE q.lobbyOf[v]
         /\ r.presence[v] = IF v = u THEN "IN_QUEUE" ELSE q.presence[v]
  BY <1>1, <1>10 DEF QueueRecord
<1>12. ToSet(q.arrived) \subseteq Users
  BY <1>1 DEF QueueRecord, ToSet
<1>13. Placed(r)
  BY <1>1, <1>8, <1>9, <1>10, <1>11, <1>12 DEF Placed
<1>14. \A v \in Users : Stands(r, v) /\ Shown(r, starting, v)
  BY <1>1, <1>10, <1>11 DEF Stands, Shown
<1>15. Good(r, starting)
  BY <1>1, <1>10, <1>13, <1>14 DEF Good, OneOf
<1>16. QED BY <1>2, <1>10, <1>15 DEF r, q

-----------------------------------------------------------------------------
(* The actions. *)

(* A handler that leaves a good record behind.                             *)
LEMMA BecomesGood ==
  ASSUME NEW r, Good(r, starting), Drained(r), InTurn(Queue, r), Becomes(r),
         MatchmakerInv, starting' = starting, online' \subseteq Users
  PROVE  MatchmakerInv' /\ InTurn(Queue, Queue')
<1>1. r \in QueueRecord
  BY DEF Good
<1>2. Queue' = [state |-> r.state, mode |-> r.mode, arrived |-> r.arrived,
                lobbyOf |-> r.lobbyOf, lobbies |-> r.lobbies, presence |-> r.presence]
  BY DEF Becomes, Queue
<1>3. Queue' = r
  BY <1>1, <1>2 DEF QueueRecord
<1>4. Good(Queue', starting') /\ Drained(Queue') /\ InTurn(Queue, Queue')
  BY <1>3
<1>5. QED BY <1>4 DEF MatchmakerInv

LEMMA InitGood == Init => MatchmakerInv
<1> SUFFICES ASSUME Init PROVE MatchmakerInv
  OBVIOUS
<1> USE DEF Init
<1>1. NotInMap \in Lobby /\ ~Live(NotInMap) /\ <<>> \in Seq(Users)
  BY DEF NotInMap, Lobby, Live
<1>2. Queue \in QueueRecord
  <2>1. state \in [Users -> QueueStates] /\ presence \in [Users -> Activities]
    BY DEF QueueStates, Activities
  <2>2. mode \in [Users -> ModeChoices \cup {"solo"}]
    OBVIOUS
  <2>3. lobbyOf \in [Users -> LobbyIds \cup {NoLobby, GoneLobby}]
    OBVIOUS
  <2>4. arrived \in Seq(Users) /\ lobbies \in [LobbyIds -> Lobby]
    BY <1>1
  <2>5. QED BY <2>1, <2>2, <2>3, <2>4 DEF Queue, QueueRecord
<1>3. Queue.arrived = <<>> /\ IsInjective(<<>>) /\ ToSet(<<>>) = {}
  BY DEF Queue, IsInjective, ToSet
<1>4. Placed(Queue)
  BY <1>3 DEF Placed
<1>5. \A l \in LobbyIds : ~Live(Queue.lobbies[l])
  BY <1>1 DEF Queue
<1>6. \A u \in Users : Queue.state[u] = "IDLE" /\ Queue.presence[u] = "OFFLINE"
  BY DEF Queue
<1>7. Good(Queue, starting)
  BY <1>2, <1>4, <1>5, <1>6 DEF Good, Waits, Stands, Shown, OneOf
<1>8. ASSUME NEW m \in Modes PROVE Len(Waiting(Queue, m)) < Required(m)
  <2>1. /\ Waiting(Queue, m) \in Seq(Users)
        /\ ToSet(Waiting(Queue, m)) = {}
    BY <1>1, <1>3, WaitingFacts
  <2>2. Len(Waiting(Queue, m)) = 0
    <3>1. 1 \in DOMAIN Waiting(Queue, m) => Waiting(Queue, m)[1] \in ToSet(Waiting(Queue, m))
      BY DEF ToSet
    <3>2. 1 \notin DOMAIN Waiting(Queue, m)
      BY <2>1, <3>1
    <3>3. QED BY <2>1, <3>2
  <2>3. QED BY <2>2, RequiredFacts
<1>9. starting \in [LobbyIds -> Seq(Users)] /\ online \subseteq Users
  BY <1>1
<1>10. QED BY <1>7, <1>8, <1>9 DEF MatchmakerInv, Drained

LEMMA InvFacts ==
  ASSUME MatchmakerInv
  PROVE  /\ Good(Queue, starting) /\ Drained(Queue)
         /\ starting \in [LobbyIds -> Seq(Users)] /\ online \subseteq Users
BY DEF MatchmakerInv

(* Connections, rooms and matches show what the player does.               *)
LEMMA ActivityStep ==
  ASSUME MatchmakerInv, NEW u \in Users, NEW activity \in Activities \ {"MATCH_FOUND"},
         presence' = [presence EXCEPT ![u] = activity],
         UNCHANGED <<state, mode, arrived, lobbyOf, lobbies, starting>>, online' \subseteq Users
  PROVE  MatchmakerInv' /\ InTurn(Queue, Queue')
<1> DEFINE r == [Queue EXCEPT !.presence[u] = activity]
<1>1. /\ r.state = state /\ r.mode = mode /\ r.arrived = arrived
      /\ r.lobbyOf = lobbyOf /\ r.lobbies = lobbies
      /\ r.presence = [presence EXCEPT ![u] = activity]
  BY DEF Queue
<1>2. Good(r, starting) /\ Drained(r) /\ r.lobbies = Queue.lobbies
  BY InvFacts, PresenceGood
<1> HIDE DEF r
<1>3. InTurn(Queue, r)
  BY <1>2, NoneInTurn DEF NoNewLobby
<1>4. Becomes(r)
  BY <1>1 DEF Becomes
<1>5. QED BY <1>2, <1>3, <1>4, BecomesGood

LEMMA DisconnectStep ==
  ASSUME MatchmakerInv, NEW u \in Users, Disconnect(u)
  PROVE  MatchmakerInv' /\ InTurn(Queue, Queue')
<1> DEFINE p == Left(Queue, u)
           r == [p EXCEPT !.presence[u] = "OFFLINE"]
<1>1. IdsToDissolve(lobbyOf[u], u) /\ Becomes(r) /\ starting' = starting
      /\ online' = online \ {u}
  BY DEF Disconnect
<1>2. Good(p, starting) /\ Drained(p) /\ InTurn(Queue, p)
  BY <1>1, InvFacts, LeftGood
<1> HIDE DEF p
<1>3. "OFFLINE" \in Activities \ {"MATCH_FOUND"}
  BY DEF Activities
<1>4. Good(r, starting) /\ Drained(r) /\ r.lobbies = p.lobbies
      /\ r.arrived = p.arrived /\ r.mode = p.mode
  BY <1>2, <1>3, PresenceGood
<1> HIDE DEF r
<1>5. InTurn(Queue, r)
  BY <1>2, <1>4 DEF InTurn
<1>6. online' \subseteq Users
  BY <1>1, InvFacts
<1>7. QED BY <1>1, <1>4, <1>5, <1>6, BecomesGood

LEMMA JoinQueueStep ==
  ASSUME MatchmakerInv, NEW u \in Users, NEW m \in ModeChoices, JoinQueue(u, m)
  PROVE  MatchmakerInv' /\ InTurn(Queue, Queue')
<1> DEFINE p == Joined(Queue, u, m)
           r == Matched(p)
<1>1. state[u] = "IDLE" /\ IdsFor(p) /\ Becomes(r) /\ starting' = starting
      /\ online' = online
  BY DEF JoinQueue
<1>2. Good(p, starting) /\ p.lobbies = lobbies
  BY <1>1, InvFacts, JoinedGood
<1> HIDE DEF p
<1>3. Good(r, starting) /\ Drained(r) /\ InTurn(p, r)
  BY <1>1, <1>2, MatchedGood
<1> HIDE DEF r
<1>4. NoNewLobby(Queue, p)
  BY <1>2, QueueFields DEF NoNewLobby
<1>5. InTurn(Queue, r)
  BY <1>3, <1>4, InTurnAfter
<1>6. QED BY <1>1, <1>3, <1>5, InvFacts, BecomesGood

LEMMA LeaveQueueStep ==
  ASSUME MatchmakerInv, NEW u \in Users, LeaveQueue(u)
  PROVE  MatchmakerInv' /\ InTurn(Queue, Queue')
<1>1. IdsToDissolve(lobbyOf[u], u) /\ Becomes(Left(Queue, u)) /\ starting' = starting
      /\ online' = online
  BY DEF LeaveQueue
<1>2. QED BY <1>1, InvFacts, LeftGood, BecomesGood

LEMMA DeclineMatchStep ==
  ASSUME MatchmakerInv, NEW u \in Users, DeclineMatch(u)
  PROVE  MatchmakerInv' /\ InTurn(Queue, Queue')
<1>1. IdsToDissolve(lobbyOf[u], u) /\ Becomes(Declined(Queue, u)) /\ starting' = starting
      /\ online' = online
  BY DEF DeclineMatch
<1>2. QED BY <1>1, InvFacts, DeclinedGood, BecomesGood

LEMMA LobbyTimeoutStep ==
  ASSUME MatchmakerInv, NEW l \in LobbyIds, LobbyTimeout(l)
  PROVE  MatchmakerInv' /\ InTurn(Queue, Queue')
<1> DEFINE players == lobbies[l].players
           late == Kept(players, Users \ lobbies[l].accepted)
           blamed == IF late = <<>> THEN players[1] ELSE late[1]
<1>1. /\ Live(lobbies[l]) /\ IdsToDissolve(l, blamed)
      /\ Becomes(Dissolved(Queue, l, blamed))
      /\ starting' = starting /\ online' = online
  BY DEF LobbyTimeout
<1>2. players \in Seq(Users) /\ players # <<>>
  <2>1. lobbies \in [LobbyIds -> Lobby]
    BY InvFacts, QueueFields DEF Good, QueueRecord
  <2>2. QED BY <1>1, <2>1 DEF Lobby, Live
<1>3. late \in Seq(Users)
  <2>1. late \in Seq(Users \cap (Users \ lobbies[l].accepted))
    BY <1>2, KeptFacts
  <2>2. QED BY <2>1
<1>4. blamed \in Users
  BY <1>2, <1>3
<1> HIDE DEF blamed
<1>5. QED BY <1>1, <1>4, InvFacts, DissolvedGood, BecomesGood

(* A step of a start in progress adds nobody to the queue.                 *)
LEMMA StartKeepsDrained ==
  ASSUME MatchmakerInv, Queue' \in QueueRecord, UNCHANGED <<mode, arrived>>,
         \A u \in Users : state'[u] = "QUEUED" => state[u] = "QUEUED"
  PROVE  Drained(Queue')
<1> DEFINE q == Queue
           r == Queue'
<1>1. Drained(q) /\ q \in QueueRecord /\ Placed(q)
  BY InvFacts DEF Good
<1>2. /\ q.state = state /\ q.mode = mode /\ q.arrived = arrived
      /\ r.state = state' /\ r.mode = mode /\ r.arrived = arrived
  BY DEF Queue
<1>3. r \in QueueRecord
  OBVIOUS
<1> HIDE DEF q, r
<1>4. ToSet(arrived) \subseteq Users
  BY <1>1, <1>2 DEF QueueRecord, ToSet
<1>5. IsInjective(q.arrived) /\ IsInjective(r.arrived)
  BY <1>1, <1>2 DEF Placed
<1>6. Drained(r)
  BY <1>1, <1>2, <1>3, <1>4, <1>5, StillDrained
<1>7. QED BY <1>6 DEF r

LEMMA QueueUnpacked ==
  ASSUME MatchmakerInv
  PROVE  /\ state \in [Users -> QueueStates] /\ mode \in [Users -> ModeChoices \cup {"solo"}]
         /\ arrived \in Seq(Users) /\ lobbyOf \in [Users -> LobbyIds \cup {NoLobby, GoneLobby}]
         /\ lobbies \in [LobbyIds -> Lobby] /\ presence \in [Users -> Activities]
         /\ Placed(Queue) /\ OneOf(Queue, starting)
         /\ \A l \in LobbyIds : Waits(lobbies[l])
         /\ \A u \in Users : Stands(Queue, u) /\ Shown(Queue, starting, u)
<1>1. Good(Queue, starting)
  BY InvFacts
<1>2. Queue \in QueueRecord
  BY <1>1 DEF Good
<1>3. QED BY <1>1, <1>2, QueueFields DEF Good, QueueRecord

LEMMA AcceptMatchStep ==
  ASSUME MatchmakerInv, NEW u \in Users, AcceptMatch(u)
  PROVE  MatchmakerInv' /\ NoNewLobby(Queue, Queue')
<1> DEFINE q == Queue
           r == Queue'
           l == lobbyOf[u]
           lobby == lobbies[l]
           accepted == lobby.accepted \cup {u}
           members == Members(lobby)
<1>1. /\ state[u] = "MATCH_FOUND" /\ l \in LobbyIds
      /\ mode' = mode /\ arrived' = arrived /\ online' = online /\ presence' = presence
  BY DEF AcceptMatch
<1>2. /\ state \in [Users -> QueueStates] /\ mode \in [Users -> ModeChoices \cup {"solo"}]
      /\ arrived \in Seq(Users) /\ lobbyOf \in [Users -> LobbyIds \cup {NoLobby, GoneLobby}]
      /\ lobbies \in [LobbyIds -> Lobby] /\ presence \in [Users -> Activities]
      /\ Placed(q) /\ OneOf(q, starting)
      /\ \A k \in LobbyIds : Waits(lobbies[k])
      /\ \A v \in Users : Stands(q, v) /\ Shown(q, starting, v)
      /\ starting \in [LobbyIds -> Seq(Users)] /\ online \subseteq Users
  BY QueueUnpacked, InvFacts
<1>3. /\ q.state = state /\ q.mode = mode /\ q.arrived = arrived
      /\ q.lobbyOf = lobbyOf /\ q.lobbies = lobbies /\ q.presence = presence
      /\ r.state = state' /\ r.mode = mode /\ r.arrived = arrived
      /\ r.lobbyOf = lobbyOf' /\ r.lobbies = lobbies' /\ r.presence = presence
      /\ r = [state |-> state', mode |-> mode, arrived |-> arrived,
              lobbyOf |-> lobbyOf', lobbies |-> lobbies', presence |-> presence]
  BY <1>1 DEF Queue
<1>4. \/ /\ ~AllAccepted(lobby, accepted)
         /\ state' = [state EXCEPT ![u] = "ACCEPTING"]
         /\ lobbies' = [lobbies EXCEPT ![l].accepted = accepted]
         /\ lobbyOf' = lobbyOf /\ starting' = starting
      \/ /\ AllAccepted(lobby, accepted)
         /\ state' = Set(state, members, "ROOM_CREATED")
         /\ lobbies' = [lobbies EXCEPT ![l] = NotInMap]
         /\ starting' = [starting EXCEPT ![l] = lobby.players]
         /\ lobbyOf' = [v \in Users |-> IF lobbyOf[v] = l THEN GoneLobby ELSE lobbyOf[v]]
  BY DEF AcceptMatch
<1> HIDE DEF q, r, l, accepted
<1>5. lobby \in Lobby /\ lobby.players \in Seq(Users) /\ lobby.accepted \subseteq Users
  BY <1>1, <1>2 DEF Lobby
<1>6. lobbyOf[u] = l
  BY DEF l
<1>7. u \in members
  BY <1>1, <1>2, <1>3, <1>6 DEF Stands
<1>8. Live(lobby)
  BY <1>5, <1>7, EmptyOrNot
<1>9. /\ IsInjective(lobby.players) /\ Len(lobby.players) \in {2, 4}
      /\ lobby.accepted \subseteq members
  BY <1>1, <1>2, <1>8 DEF Waits
<1>10. starting[l] = <<>>
  BY <1>1, <1>2, <1>3, <1>8 DEF OneOf
<1> HIDE DEF members
<1>11. ToSet(arrived) \subseteq Users
  BY <1>2 DEF ToSet
<1>12. CASE ~AllAccepted(lobby, accepted)
  <2>1. /\ state' = [state EXCEPT ![u] = "ACCEPTING"]
        /\ lobbies' = [lobbies EXCEPT ![l].accepted = accepted]
        /\ lobbyOf' = lobbyOf /\ starting' = starting
    BY <1>4, <1>12
  <2>2. accepted \subseteq members /\ accepted # members
    <3>1. Cardinality(ToSet(lobby.players)) = Len(lobby.players)
      BY <1>5, <1>9, LenIsCount
    <3>2. members = ToSet(lobby.players)
      BY DEF members, Members
    <3>3. QED BY <1>7, <1>9, <1>12, <3>1, <3>2 DEF AllAccepted, accepted
  <2> DEFINE new == [lobby EXCEPT !.accepted = accepted]
  <2>3. accepted \subseteq Users
    BY <1>5 DEF accepted
  <2>4. /\ new \in Lobby /\ new.players = lobby.players /\ new.accepted = accepted
    BY <1>5, <2>3 DEF Lobby
  <2>5. /\ \A k \in LobbyIds : lobbies'[k] = IF k = l THEN new ELSE lobbies[k]
        /\ lobbies' \in [LobbyIds -> Lobby]
    BY <1>1, <1>2, <2>1, <2>4
  <2> HIDE DEF new
  <2>6. /\ state' \in [Users -> QueueStates]
        /\ \A v \in Users : state'[v] = IF v = u THEN "ACCEPTING" ELSE state[v]
    BY <1>2, <2>1 DEF QueueStates
  <2>7. Members(new) = members /\ Live(new)
    BY <1>8, <2>4 DEF Members, members, Live
  <2>8. r \in QueueRecord
    BY <1>2, <1>3, <2>1, <2>5, <2>6 DEF QueueRecord
  <2>9. Placed(r)
    BY <1>2, <1>3, <1>11, <2>6 DEF Placed
  <2>10. \A k \in LobbyIds : Waits(r.lobbies[k])
    <3>1. Waits(new)
      BY <1>9, <2>2, <2>4, <2>7 DEF Waits
    <3>2. QED BY <1>2, <1>3, <2>5, <3>1
  <2>11. \A k \in LobbyIds : Members(lobbies'[k]) = Members(lobbies[k])
    BY <2>5, <2>7 DEF members
  <2>12. ASSUME NEW v \in Users PROVE Stands(r, v)
    <3>1. Stands(q, v)
      BY <1>2
    <3>2. CASE v = u
      BY <1>1, <1>3, <1>6, <1>7, <2>1, <2>4, <2>5, <2>6, <2>7, <3>2 DEF Stands, accepted
    <3>3. CASE v # u
      <4>1. r.state[v] = state[v] /\ r.lobbyOf[v] = lobbyOf[v]
        BY <1>3, <2>1, <2>6, <3>3
      <4>2. \A k \in LobbyIds : v \in lobbies'[k].accepted <=> v \in lobbies[k].accepted
        BY <2>4, <2>5, <3>3 DEF accepted
      <4>3. QED BY <1>3, <2>11, <3>1, <4>1, <4>2 DEF Stands
    <3>4. QED BY <3>2, <3>3
  <2>13. \A v \in Users : Shown(r, starting', v)
    BY <1>2, <1>3, <2>1, <2>11 DEF Shown
  <2>14. OneOf(r, starting')
    BY <1>2, <1>3, <1>10, <2>1, <2>5 DEF OneOf
  <2>15. Good(r, starting')
    BY <2>8, <2>9, <2>10, <2>12, <2>13, <2>14 DEF Good
  <2>16. Drained(Queue')
    BY <1>1, <2>6, <2>8, StartKeepsDrained DEF r
  <2>17. NoNewLobby(q, r)
    <3>1. \A k \in LobbyIds : Live(lobbies'[k]) => Live(lobbies[k])
      BY <1>8, <2>4, <2>5 DEF Live
    <3>2. QED BY <1>3, <3>1 DEF NoNewLobby
  <2>18. QED BY <1>1, <1>2, <2>1, <2>15, <2>16, <2>17 DEF MatchmakerInv, q, r
<1>13. CASE AllAccepted(lobby, accepted)
  <2>1. /\ state' = Set(state, members, "ROOM_CREATED")
        /\ lobbies' = [lobbies EXCEPT ![l] = NotInMap]
        /\ starting' = [starting EXCEPT ![l] = lobby.players]
        /\ lobbyOf' = [v \in Users |-> IF lobbyOf[v] = l THEN GoneLobby ELSE lobbyOf[v]]
    BY <1>4, <1>13
  <2>2. NotInMap \in Lobby /\ ~Live(NotInMap)
    BY DEF NotInMap, Lobby, Live
  <2>3. /\ state' \in [Users -> QueueStates]
        /\ \A v \in Users : state'[v] = IF v \in members THEN "ROOM_CREATED" ELSE state[v]
    BY <1>2, <2>1 DEF Set, QueueStates
  <2>4. /\ \A k \in LobbyIds : lobbies'[k] = IF k = l THEN NotInMap ELSE lobbies[k]
        /\ lobbies' \in [LobbyIds -> Lobby]
    BY <1>1, <1>2, <2>1, <2>2
  <2>5. /\ \A k \in LobbyIds : starting'[k] = IF k = l THEN lobby.players ELSE starting[k]
        /\ starting' \in [LobbyIds -> Seq(Users)]
    BY <1>1, <1>2, <1>5, <2>1
  <2>6. lobbyOf' \in [Users -> LobbyIds \cup {NoLobby, GoneLobby}]
    BY <1>2, <2>1
  <2>7. r \in QueueRecord
    BY <1>2, <1>3, <2>3, <2>4, <2>6 DEF QueueRecord
  <2>8. Placed(r)
    BY <1>2, <1>3, <1>11, <2>3 DEF Placed
  <2>9. \A k \in LobbyIds : Waits(r.lobbies[k])
    BY <1>2, <1>3, <2>2, <2>4 DEF Waits
  <2>10. ASSUME NEW v \in Users PROVE Stands(r, v)
    <3>1. Stands(q, v)
      BY <1>2
    <3>2. CASE v \in members
      BY <1>3, <2>3, <3>2 DEF Stands
    <3>3. CASE v \notin members
      <4>1. state[v] \in {"MATCH_FOUND", "ACCEPTING"} => lobbyOf[v] # l
        BY <1>3, <3>1, <3>3 DEF Stands, members
      <4>2. lobbyOf[v] # l => lobbyOf'[v] = lobbyOf[v]
        BY <2>1
      <4>3. QED BY <1>3, <2>3, <2>4, <3>1, <3>3, <4>1, <4>2 DEF Stands
    <3>4. QED BY <3>2, <3>3
  <2>11. ASSUME NEW v \in Users PROVE Shown(r, starting', v)
    <3>1. ASSUME NEW k \in LobbyIds, v \in Members(lobbies[k]) \cup ToSet(starting[k])
          PROVE  v \in Members(lobbies'[k]) \cup ToSet(starting'[k])
      <4>1. CASE k = l
        <5>1. v \notin ToSet(starting[k])
          BY <1>10, <4>1 DEF ToSet
        <5>2. v \in ToSet(lobby.players)
          BY <3>1, <4>1, <5>1 DEF Members
        <5>3. QED BY <2>5, <4>1, <5>2
      <4>2. CASE k # l
        BY <2>4, <2>5, <3>1, <4>2
      <4>3. QED BY <4>1, <4>2
    <3>2. Shown(q, starting, v)
      BY <1>2
    <3>3. QED BY <1>3, <3>1, <3>2 DEF Shown
  <2>12. OneOf(r, starting')
    BY <1>2, <1>3, <2>2, <2>4, <2>5 DEF OneOf
  <2>13. Good(r, starting')
    BY <2>7, <2>8, <2>9, <2>10, <2>11, <2>12 DEF Good
  <2>14. Drained(Queue')
    BY <1>1, <2>3, <2>7, StartKeepsDrained DEF r
  <2>15. NoNewLobby(q, r)
    BY <1>3, <2>2, <2>4 DEF NoNewLobby
  <2>16. QED BY <1>1, <1>2, <2>5, <2>13, <2>14, <2>15 DEF MatchmakerInv, q, r
<1>14. QED BY <1>12, <1>13

LEMMA StartReturnsStep ==
  ASSUME MatchmakerInv, NEW l \in LobbyIds, StartReturns(l)
  PROVE  MatchmakerInv' /\ NoNewLobby(Queue, Queue')
<1> DEFINE q == Queue
           r == Queue'
           players == ToSet(starting[l])
<1>1. /\ starting' = [starting EXCEPT ![l] = <<>>]
      /\ state' = Set(state, players, "IN_MATCH")
      /\ presence' = Set(presence, players, "IN_MATCH")
      /\ mode' = mode /\ arrived' = arrived /\ lobbyOf' = lobbyOf /\ lobbies' = lobbies
      /\ online' = online
  BY DEF StartReturns
<1>2. /\ state \in [Users -> QueueStates] /\ mode \in [Users -> ModeChoices \cup {"solo"}]
      /\ arrived \in Seq(Users) /\ lobbyOf \in [Users -> LobbyIds \cup {NoLobby, GoneLobby}]
      /\ lobbies \in [LobbyIds -> Lobby] /\ presence \in [Users -> Activities]
      /\ Placed(q) /\ OneOf(q, starting)
      /\ \A k \in LobbyIds : Waits(lobbies[k])
      /\ \A v \in Users : Stands(q, v) /\ Shown(q, starting, v)
      /\ starting \in [LobbyIds -> Seq(Users)] /\ online \subseteq Users
  BY QueueUnpacked, InvFacts
<1>3. /\ q.state = state /\ q.arrived = arrived
      /\ q.lobbyOf = lobbyOf /\ q.lobbies = lobbies /\ q.presence = presence
      /\ r.state = state' /\ r.mode = mode /\ r.arrived = arrived
      /\ r.lobbyOf = lobbyOf /\ r.lobbies = lobbies /\ r.presence = presence'
      /\ r = [state |-> state', mode |-> mode, arrived |-> arrived,
              lobbyOf |-> lobbyOf, lobbies |-> lobbies, presence |-> presence']
  BY <1>1 DEF Queue
<1> HIDE DEF q, r, players
<1>4. /\ state' \in [Users -> QueueStates] /\ presence' \in [Users -> Activities]
      /\ starting' \in [LobbyIds -> Seq(Users)]
  BY <1>1, <1>2 DEF Set, QueueStates, Activities
<1>5. \A v \in Users :
        /\ state'[v] = IF v \in players THEN "IN_MATCH" ELSE state[v]
        /\ presence'[v] = IF v \in players THEN "IN_MATCH" ELSE presence[v]
  BY <1>1, SetFacts
<1>6. \A k \in LobbyIds : starting'[k] = IF k = l THEN <<>> ELSE starting[k]
  BY <1>1, <1>2
<1>7. ToSet(arrived) \subseteq Users
  BY <1>2 DEF ToSet
<1>8. r \in QueueRecord
  BY <1>2, <1>3, <1>4 DEF QueueRecord
<1>9. Placed(r)
  BY <1>2, <1>3, <1>5, <1>7 DEF Placed
<1>10. \A k \in LobbyIds : Waits(r.lobbies[k])
  BY <1>2, <1>3
<1>11. ASSUME NEW v \in Users PROVE Stands(r, v) /\ Shown(r, starting', v)
  <2>1. Stands(q, v) /\ Shown(q, starting, v)
    BY <1>2
  <2>2. Stands(r, v)
    BY <1>3, <1>5, <2>1 DEF Stands
  <2>3. Shown(r, starting', v)
    BY <1>3, <1>5, <1>6, <2>1 DEF Shown, players
  <2>4. QED BY <2>2, <2>3
<1>12. OneOf(r, starting')
  BY <1>2, <1>3, <1>6 DEF OneOf
<1>13. Good(r, starting')
  BY <1>8, <1>9, <1>10, <1>11, <1>12 DEF Good
<1>14. Drained(Queue')
  BY <1>1, <1>5, <1>8, StartKeepsDrained DEF r
<1>15. NoNewLobby(q, r)
  BY <1>3 DEF NoNewLobby
<1>16. QED BY <1>1, <1>2, <1>4, <1>13, <1>14, <1>15 DEF MatchmakerInv, q, r

LEMMA NextKeeps ==
  ASSUME MatchmakerInv, [Next]_vars
  PROVE  MatchmakerInv' /\ InTurn(Queue, Queue')
<1>1. CASE UNCHANGED vars
  <2>1. Queue' = Queue /\ starting' = starting /\ online' = online
    BY <1>1 DEF vars, Queue
  <2>2. InTurn(Queue, Queue)
    BY NoneInTurn DEF NoNewLobby
  <2>3. QED BY <2>1, <2>2 DEF MatchmakerInv
<1>2. ASSUME NEW u \in Users, Connect(u) PROVE MatchmakerInv' /\ InTurn(Queue, Queue')
  <2>1. "ONLINE" \in Activities \ {"MATCH_FOUND"} /\ online' \subseteq Users
    BY <1>2, InvFacts DEF Activities, Connect
  <2>2. QED BY <1>2, <2>1, ActivityStep DEF Connect
<1>3. ASSUME NEW u \in Users, NEW activity \in {"ONLINE", "IN_MATCH"}, RoomActivity(u, activity)
      PROVE  MatchmakerInv' /\ InTurn(Queue, Queue')
  <2>1. activity \in Activities \ {"MATCH_FOUND"} /\ online' \subseteq Users
    BY <1>3, InvFacts DEF Activities, RoomActivity
  <2>2. QED BY <1>3, <2>1, ActivityStep DEF RoomActivity
<1>4. ASSUME NEW u \in Users, AcceptMatch(u) PROVE MatchmakerInv' /\ InTurn(Queue, Queue')
  BY <1>4, AcceptMatchStep, NoneInTurn
<1>5. ASSUME NEW l \in LobbyIds, StartReturns(l) PROVE MatchmakerInv' /\ InTurn(Queue, Queue')
  BY <1>5, StartReturnsStep, NoneInTurn
<1>6. QED
  BY <1>1, <1>2, <1>3, <1>4, <1>5, DisconnectStep, JoinQueueStep, LeaveQueueStep,
     DeclineMatchStep, LobbyTimeoutStep DEF Next

-----------------------------------------------------------------------------
(* The theorems. *)

(* The inductive invariant holds in every state the service reaches. *)
THEOREM MatchmakerInvariance == Spec => []MatchmakerInv
<1>1. MatchmakerInv /\ [Next]_vars => MatchmakerInv'
  BY NextKeeps
<1> QED
  BY <1>1, InitGood, PTL DEF Spec

(* Every record names users and lobbies that exist; nobody is in the queue *)
(* twice, and nobody who is IDLE.                                          *)
THEOREM QueueTyped == Spec => []TypeOK
<1>1. MatchmakerInv => TypeOK
  <2> SUFFICES ASSUME MatchmakerInv PROVE TypeOK
    OBVIOUS
  <2>1. arrived \in Seq(Users) /\ IsInjective(arrived)
        /\ \A u \in ToSet(arrived) : state[u] # "IDLE"
    BY QueueUnpacked, QueueFields DEF Placed
  <2>2. arrived \in Seq({u \in Users : state[u] # "IDLE"})
    BY <2>1 DEF ToSet
  <2>3. QED BY <2>1, <2>2, QueueUnpacked, InvFacts DEF TypeOK
<1> QED
  BY <1>1, MatchmakerInvariance, PTL

(* Every lobby in the map still waits for one of its two or four players.  *)
THEOREM LobbiesDoWait == Spec => []LobbiesWait
<1>1. MatchmakerInv => LobbiesWait
  BY QueueUnpacked DEF LobbiesWait, Waits
<1> QED
  BY <1>1, MatchmakerInvariance, PTL

(* Nobody is asked to accept a match that is gone: match:accept,           *)
(* match:decline and queue:leave of an invited player all find the lobby.  *)
THEOREM InvitationsStand == Spec => []InvitationStands
<1>1. MatchmakerInv => InvitationStands
  <2> SUFFICES ASSUME MatchmakerInv, NEW u \in Users PROVE
        state[u] \in {"MATCH_FOUND", "ACCEPTING"} =>
          /\ lobbyOf[u] \in LobbyIds
          /\ u \in Members(lobbies[lobbyOf[u]])
          /\ u \in lobbies[lobbyOf[u]].accepted <=> state[u] = "ACCEPTING"
    BY DEF InvitationStands
  <2>1. Stands(Queue, u)
    BY QueueUnpacked
  <2>2. QED BY <2>1, QueueFields DEF Stands
<1> QED
  BY <1>1, MatchmakerInvariance, PTL

(* What friends see of a found match is true.                              *)
THEOREM FoundMatchesExist == Spec => []FoundIsShown
<1>1. MatchmakerInv => FoundIsShown
  <2> SUFFICES ASSUME MatchmakerInv, NEW u \in Users, presence[u] = "MATCH_FOUND"
      PROVE  \E l \in LobbyIds : u \in Members(lobbies[l]) \cup ToSet(starting[l])
    BY DEF FoundIsShown
  <2>1. Shown(Queue, starting, u)
    BY QueueUnpacked
  <2>2. QED BY <2>1, QueueFields DEF Shown
<1> QED
  BY <1>1, MatchmakerInvariance, PTL

(* No handler leaves players waiting who could be matched.                 *)
THEOREM QueueIsDrained == Spec => []QueueDrained
<1>1. MatchmakerInv => QueueDrained
  BY InvFacts DEF Drained, QueueDrained, Modes
<1> QED
  BY <1>1, MatchmakerInvariance, PTL

(* A new lobby serves players of one mode in the order in which they came. *)
THEOREM ServedInTurn == Spec => FirstComeFirstServed
<1> DEFINE Turn ==
      \A l \in LobbyIds :
        LET players == lobbies'[l].players IN
        ~Live(lobbies[l]) /\ Live(lobbies'[l]) =>
          \A i, j \in DOMAIN players :
            i < j => /\ Before(arrived', players[i], players[j])
                     /\ mode'[players[i]] = mode'[players[j]]
<1>1. MatchmakerInv /\ [Next]_vars => Turn
  <2> SUFFICES ASSUME MatchmakerInv, [Next]_vars PROVE Turn
    OBVIOUS
  <2>1. InTurn(Queue, Queue')
    BY NextKeeps
  <2>2. /\ Queue.lobbies = lobbies /\ (Queue').lobbies = lobbies'
        /\ (Queue').arrived = arrived' /\ (Queue').mode = mode'
    BY DEF Queue
  <2>3. QED BY <2>1, <2>2 DEF InTurn
<1> QED
  BY <1>1, MatchmakerInvariance, PTL DEF Spec, FirstComeFirstServed
=============================================================================
