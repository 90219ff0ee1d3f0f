--------------------------- MODULE LineageProofs ---------------------------
(* Proofs about the accounts of the harnesses whose sessions descend from
   others: Pi and Codex.  First, what all accounts compute in rounds: the rows
   connected with one, and the sessions connected with some files.  After as
   many rounds as there are rows, or links, nothing is added any more. *)
EXTENDS Accounting, Functions, FiniteSetTheorems, WellFoundedInduction, TLAPS

-----------------------------------------------------------------------------
(* Induction, over a set of numbers. *)

LEMMA LeastNumber ==
  ASSUME NEW T, T \subseteq Nat, T # {}
  PROVE  \E n \in T : \A m \in T : n <= m
<1>1. IsWellFoundedOn(OpToRel(<, Nat), Nat)
  BY NatLessThanWellFounded, Zenon
<1>2. PICK n \in T : \A m \in T : ~(<<m, n>> \in OpToRel(<, Nat))
  BY <1>1, WFMin, Zenon
<1>3. \A m \in T : ~(m < n)
  <2> TAKE m \in T
  <2>1. m < n => <<m, n>> \in OpToRel(<, Nat)
    BY Zenon DEF OpToRel
  <2> QED BY <2>1, <1>2, Zenon
<1>4. \A m \in T : n <= m
  BY <1>3
<1> QED BY <1>2, <1>4

LEMMA AllNumbers ==
  ASSUME NEW T, T \subseteq Nat, 0 \in T, \A n \in T : n + 1 \in T
  PROVE  T = Nat
<1>1. SUFFICES ASSUME Nat \ T # {} PROVE FALSE
  OBVIOUS
<1>2. PICK n \in Nat \ T : \A m \in Nat \ T : n <= m
  <2>1. Nat \ T \subseteq Nat
    OBVIOUS
  <2> QED BY <1>1, <2>1, LeastNumber
<1>3. n # 0 /\ n - 1 \in Nat
  BY <1>2
<1>4. n - 1 \in T
  BY <1>2, <1>3
<1>5. (n - 1) + 1 = n
  BY <1>2
<1> QED BY <1>2, <1>4, <1>5

(* What is defined by rounds exists. *)
InRounds(f, A, base, F, n) == f \in [0..n -> A] /\ f[0] = base /\ \A k \in 1..n : f[k] = F[f[k - 1]]
LEMMA RoundsExist ==
  ASSUME NEW A, NEW base \in A, NEW F \in [A -> A], NEW n \in Nat
  PROVE  \E f : InRounds(f, A, base, F, n)
<1> USE DEF InRounds
<1> DEFINE Rounds(m) == \E f : InRounds(f, A, base, F, m)
           T == {m \in Nat : Rounds(m)}
<1>1. 0 \in T
  <2> DEFINE f == [k \in 0..0 |-> base]
  <2>1. f \in [0..0 -> A] /\ f[0] = base /\ \A k \in 1..0 : f[k] = F[f[k - 1]]
    OBVIOUS
  <2>2. Rounds(0)
    BY <2>1
  <2> QED BY <2>2
<1>2. ASSUME NEW m \in T PROVE m + 1 \in T
  <2>1. PICK f : f \in [0..m -> A] /\ f[0] = base /\ \A k \in 1..m : f[k] = F[f[k - 1]]
    BY <1>2
  <2> DEFINE g == [k \in 0..m + 1 |-> IF k = m + 1 THEN F[f[m]] ELSE f[k]]
  <2>0. m \in Nat /\ f[m] \in A
    BY <2>1
  <2>2. g \in [0..m + 1 -> A]
    BY <2>0, <2>1
  <2>3. g[0] = base
    BY <2>0, <2>1
  <2>4. ASSUME NEW k \in 1..m + 1 PROVE g[k] = F[g[k - 1]]
    <3>1. g[k - 1] = f[k - 1]
      BY <2>0
    <3>2. CASE k = m + 1
      BY <3>1, <3>2, <2>0
    <3>3. CASE k # m + 1
      <4>1. k \in 1..m
        BY <3>3, <2>0
      <4> QED BY <3>1, <4>1, <2>1, <3>3, <2>0
    <3> QED BY <3>2, <3>3
  <2> HIDE DEF g
  <2>5. Rounds(m + 1)
    BY <2>2, <2>3, <2>4
  <2> QED BY <2>0, <2>5
<1>3. T = Nat
  <2>1. T \subseteq Nat
    OBVIOUS
  <2> HIDE DEF T
  <2> QED BY <1>1, <1>2, <2>1, AllNumbers
<1> QED BY <1>3

(* The same, where each round does something else. *)
InSteps(f, A, base, F, n) == f \in [0..n -> A] /\ f[0] = base /\ \A k \in 1..n : f[k] = F[<<k, f[k - 1]>>]
LEMMA StepsExist ==
  ASSUME NEW A, NEW base \in A, NEW F \in [Nat \X A -> A], NEW n \in Nat
  PROVE  \E f : InSteps(f, A, base, F, n)
<1> USE DEF InSteps
<1> DEFINE Steps(m) == \E f : InSteps(f, A, base, F, m)
           T == {m \in Nat : Steps(m)}
<1>1. 0 \in T
  <2> DEFINE f == [k \in 0..0 |-> base]
  <2>1. f \in [0..0 -> A] /\ f[0] = base /\ \A k \in 1..0 : f[k] = F[<<k, f[k - 1]>>]
    OBVIOUS
  <2>2. Steps(0)
    BY <2>1
  <2> QED BY <2>2
<1>2. ASSUME NEW m \in T PROVE m + 1 \in T
  <2>1. PICK f : f \in [0..m -> A] /\ f[0] = base /\ \A k \in 1..m : f[k] = F[<<k, f[k - 1]>>]
    BY <1>2
  <2> DEFINE g == [k \in 0..m + 1 |-> IF k = m + 1 THEN F[<<m + 1, f[m]>>] ELSE f[k]]
  <2>0. m \in Nat /\ f[m] \in A /\ <<m + 1, f[m]>> \in Nat \X A
    BY <2>1
  <2>2. g \in [0..m + 1 -> A]
    BY <2>0, <2>1
  <2>3. g[0] = base
    BY <2>0, <2>1
  <2>4. ASSUME NEW k \in 1..m + 1 PROVE g[k] = F[<<k, g[k - 1]>>]
    <3>1. g[k - 1] = f[k - 1]
      BY <2>0
    <3>2. CASE k = m + 1
      <4>1. g[k] = F[<<m + 1, f[m]>>] /\ k - 1 = m
        BY <3>2, <2>0
      <4> HIDE DEF g
      <4> QED BY <3>1, <3>2, <4>1
    <3>3. CASE k # m + 1
      <4>1. k \in 1..m
        BY <3>3, <2>0
      <4> QED BY <3>1, <4>1, <2>1, <3>3, <2>0
    <3> QED BY <3>2, <3>3
  <2> HIDE DEF g
  <2>5. Steps(m + 1)
    BY <2>2, <2>3, <2>4
  <2> QED BY <2>0, <2>5
<1>3. T = Nat
  <2>1. T \subseteq Nat
    OBVIOUS
  <2> HIDE DEF T
  <2> QED BY <1>1, <1>2, <2>1, AllNumbers
<1> QED BY <1>3

LEMMA FiniteImage ==
  ASSUME NEW S, IsFiniteSet(S), NEW f
  PROVE  IsFiniteSet({f[x] : x \in S}) /\ Cardinality({f[x] : x \in S}) <= Cardinality(S)
<1> DEFINE T == {f[x] : x \in S}
           g == [x \in S |-> f[x]]
<1>1. g \in Surjection(S, T)
  BY DEF Surjection
<1> HIDE DEF g, T
<1>2. IsFiniteSet(T) /\ Cardinality(T) <= Cardinality(S)
  BY <1>1, FS_Surjection
<1> QED BY <1>2 DEF T

-----------------------------------------------------------------------------
(* Rounds over a set C: each adds what is related to what is there.  R is the
   relation, in which everything is related to itself. *)

Near(C, R, X) == {q \in C : \E p \in X : <<p, q>> \in R}
Closed(C, R, X) == \A p \in X, q \in C : <<p, q>> \in R => q \in X

LEMMA ConnectedInRounds ==
  ASSUME NEW C, IsFiniteSet(C), NEW R, \A p \in C : <<p, p>> \in R, NEW r \in C,
         NEW f, f[0] = {r}, \A k \in 1..Cardinality(C) : f[k] = Near(C, R, f[k - 1])
  PROVE  LET X == f[Cardinality(C)] IN
         /\ X \subseteq C /\ r \in X /\ Closed(C, R, X)
         /\ \A Y \in SUBSET C : r \in Y /\ Closed(C, R, Y) => X \subseteq Y
<1> DEFINE n == Cardinality(C)
<1>0. n \in Nat
  BY FS_CardinalityType
<1> HIDE DEF n
<1>00. \A k \in 1..n : f[k] = Near(C, R, f[k - 1])
  BY DEF n
<1> DEFINE Good(k) == /\ f[k] \subseteq C /\ r \in f[k]
                      /\ Closed(C, R, f[k]) \/ Cardinality(f[k]) > k
           T == {k \in Nat : k <= n => Good(k)}
<1>1. T = Nat
  <2>1. T \subseteq Nat
    OBVIOUS
  <2>2. 0 \in T
    <3>1. Cardinality({r}) = 1
      BY FS_Singleton
    <3> QED BY <3>1
  <2>3. ASSUME NEW k \in T PROVE k + 1 \in T
    <3>1. SUFFICES ASSUME k + 1 <= n
                   PROVE  /\ f[k + 1] \subseteq C /\ r \in f[k + 1]
                          /\ Closed(C, R, f[k + 1]) \/ Cardinality(f[k + 1]) > k + 1
      OBVIOUS
    <3>2. /\ k \in Nat /\ f[k] \subseteq C /\ r \in f[k]
          /\ Closed(C, R, f[k]) \/ Cardinality(f[k]) > k
      <4> HIDE DEF Good
      <4>1. k \in Nat /\ Good(k)
        BY <1>0, <2>3, <3>1
      <4> QED BY <4>1 DEF Good
    <3>3. f[k + 1] = Near(C, R, f[k])
      <4>1. k + 1 \in 1..n /\ (k + 1) - 1 = k
        BY <1>0, <3>1, <3>2
      <4> QED BY <4>1, <1>00
    <3>4. f[k] \subseteq f[k + 1] /\ f[k + 1] \subseteq C
      BY <3>2, <3>3 DEF Near
    <3>5. CASE f[k + 1] = f[k]
      <4>1. Closed(C, R, f[k])
        BY <3>3, <3>5 DEF Near, Closed
      <4> QED BY <3>2, <3>5, <4>1
    <3>6. CASE f[k + 1] # f[k]
      <4>1. ~Closed(C, R, f[k])
        BY <3>2, <3>3, <3>4, <3>6 DEF Near, Closed
      <4>2. IsFiniteSet(f[k]) /\ IsFiniteSet(f[k + 1])
        BY <3>2, <3>4, FS_Subset
      <4>3. Cardinality(f[k]) < Cardinality(f[k + 1])
        <5>1. /\ Cardinality(f[k]) <= Cardinality(f[k + 1])
              /\ Cardinality(f[k + 1]) = Cardinality(f[k]) => f[k + 1] = f[k]
          BY <3>4, <4>2, FS_Subset
        <5>2. Cardinality(f[k]) \in Nat /\ Cardinality(f[k + 1]) \in Nat
          BY <4>2, FS_CardinalityType
        <5> QED BY <3>6, <5>1, <5>2
      <4>4. Cardinality(f[k]) \in Nat /\ Cardinality(f[k + 1]) \in Nat
        BY <4>2, FS_CardinalityType
      <4> QED BY <3>2, <3>4, <4>1, <4>3, <4>4
    <3> QED BY <3>5, <3>6
  <2> HIDE DEF T
  <2> QED BY <2>1, <2>2, <2>3, AllNumbers
<1>2. f[n] \subseteq C /\ r \in f[n] /\ Closed(C, R, f[n])
  <2>1. n \in T
    BY <1>0, <1>1
  <2>2. f[n] \subseteq C /\ r \in f[n] /\ (Closed(C, R, f[n]) \/ Cardinality(f[n]) > n)
    <3> HIDE DEF Good
    <3>1. Good(n)
      BY <1>0, <2>1
    <3> QED BY <3>1 DEF Good
  <2>3. Cardinality(f[n]) <= n
    BY <2>2, FS_Subset DEF n
  <2>4. Cardinality(f[n]) \in Nat
    BY <2>2, FS_Subset, FS_CardinalityType
  <2> QED BY <1>0, <2>2, <2>3, <2>4
<1>3. ASSUME NEW Y \in SUBSET C, r \in Y, Closed(C, R, Y)
      PROVE  f[n] \subseteq Y
  <2> DEFINE S == {k \in Nat : k <= n => f[k] \subseteq Y}
  <2>1. S \subseteq Nat /\ 0 \in S
    BY <1>3
  <2>2. ASSUME NEW k \in S PROVE k + 1 \in S
    <3>1. SUFFICES ASSUME k + 1 <= n PROVE f[k + 1] \subseteq Y
      BY <2>2
    <3>2. k \in Nat /\ f[k] \subseteq Y
      BY <1>0, <2>2, <3>1
    <3>3. f[k + 1] = Near(C, R, f[k])
      <4>1. k + 1 \in 1..n /\ (k + 1) - 1 = k
        BY <1>0, <3>1, <3>2
      <4> QED BY <4>1, <1>00
    <3> QED BY <1>3, <3>2, <3>3 DEF Near, Closed
  <2> HIDE DEF S
  <2>3. n \in S
    BY <1>0, <2>1, <2>2, AllNumbers
  <2> QED BY <1>0, <2>3 DEF S
<1> QED BY <1>2, <1>3 DEF n

(* Rounds over links: each adds all of the links that meet what is there. *)
Follows(links, X) == X \cup UNION {l \in links : l \cap X # {}}

LEMMA LinkedInRounds ==
  ASSUME NEW links, IsFiniteSet(links), NEW base,
         NEW f, f[0] = base, \A k \in 1..Cardinality(links) : f[k] = Follows(links, f[k - 1])
  PROVE  LET X == f[Cardinality(links)] IN
         base \subseteq X /\ \A l \in links : l \cap X # {} => l \subseteq X
<1> DEFINE n == Cardinality(links)
           Within(X) == {l \in links : l \subseteq X}
           Whole(X) == \A l \in links : l \cap X # {} => l \subseteq X
<1>0. n \in Nat
  BY FS_CardinalityType
<1>00. \A X : IsFiniteSet(Within(X)) /\ Cardinality(Within(X)) \in Nat
  <2> TAKE X
  <2>1. Within(X) \in SUBSET links
    OBVIOUS
  <2> HIDE DEF Within
  <2>2. IsFiniteSet(Within(X))
    BY <2>1, FS_Subset
  <2> QED BY <2>2, FS_CardinalityType
<1> HIDE DEF n
<1>01. \A k \in 1..n : f[k] = Follows(links, f[k - 1])
  BY DEF n
<1> DEFINE T == {k \in Nat : k <= n => base \subseteq f[k] /\ (Whole(f[k]) \/ Cardinality(Within(f[k])) >= k)}
<1>1. T = Nat
  <2>1. T \subseteq Nat
    OBVIOUS
  <2>2. 0 \in T
    <3> HIDE DEF Within
    <3>1. Cardinality(Within(f[0])) >= 0
      BY <1>00
    <3> QED BY <3>1
  <2>3. ASSUME NEW k \in T PROVE k + 1 \in T
    <3>1. SUFFICES ASSUME k + 1 <= n
                   PROVE  base \subseteq f[k + 1] /\ (Whole(f[k + 1]) \/ Cardinality(Within(f[k + 1])) >= k + 1)
      OBVIOUS
    <3>2. k \in Nat /\ base \subseteq f[k] /\ (Whole(f[k]) \/ Cardinality(Within(f[k])) >= k)
      BY <1>0, <2>3, <3>1
    <3>3. f[k + 1] = Follows(links, f[k])
      <4>1. k + 1 \in 1..n /\ (k + 1) - 1 = k
        BY <1>0, <3>1, <3>2
      <4> QED BY <4>1, <1>01
    <3>4. base \subseteq f[k + 1]
      BY <3>2, <3>3 DEF Follows
    <3>5. CASE Whole(f[k])
      <4>1. f[k + 1] = f[k]
        BY <3>3, <3>5 DEF Follows
      <4> QED BY <3>2, <3>5, <4>1
    <3>6. CASE ~Whole(f[k])
      <4>1. PICK l \in links : l \cap f[k] # {} /\ ~(l \subseteq f[k])
        BY <3>6
      <4>2. l \in Within(f[k + 1]) /\ l \notin Within(f[k])
        BY <3>3, <4>1 DEF Follows
      <4>3. Within(f[k]) \in SUBSET Within(f[k + 1])
        BY <3>3 DEF Follows
      <4> HIDE DEF Within
      <4>4. Cardinality(Within(f[k])) < Cardinality(Within(f[k + 1]))
        <5>1. /\ Cardinality(Within(f[k])) <= Cardinality(Within(f[k + 1]))
              /\ Cardinality(Within(f[k + 1])) = Cardinality(Within(f[k])) => Within(f[k + 1]) = Within(f[k])
          BY <1>00, <4>3, FS_Subset
        <5> QED BY <1>00, <4>2, <5>1
      <4>5. Cardinality(Within(f[k])) \in Nat /\ Cardinality(Within(f[k + 1])) \in Nat
        BY <1>00
      <4> QED BY <3>2, <3>4, <3>6, <4>4, <4>5
    <3> QED BY <3>5, <3>6
  <2> HIDE DEF T
  <2> QED BY <2>1, <2>2, <2>3, AllNumbers
<1>2. n \in T
  BY <1>0, <1>1
<1>3. base \subseteq f[n] /\ (Whole(f[n]) \/ Cardinality(Within(f[n])) >= n)
  BY <1>0, <1>2
<1>4. Whole(f[n])
  <2>1. CASE Cardinality(Within(f[n])) >= n
    <3>1. Within(f[n]) \in SUBSET links
      OBVIOUS
    <3>2. Within(f[n]) = links
      <4> HIDE DEF Within
      <4>1. Cardinality(Within(f[n])) <= n /\ (n = Cardinality(Within(f[n])) => links = Within(f[n]))
        BY <3>1, FS_Subset DEF n
      <4> QED BY <1>0, <1>00, <2>1, <4>1
    <3> QED BY <3>2
  <2> QED BY <1>3, <2>1
<1> QED BY <1>3, <1>4 DEF n

IsFollowing(f, links, base, n) ==
  f = [k \in 0..n |-> IF k = 0 THEN base ELSE f[k - 1] \cup UNION {l \in links : l \cap f[k - 1] # {}}]
LEMMA FollowingExists ==
  ASSUME NEW links, NEW base, NEW n \in Nat
  PROVE  \E f : IsFollowing(f, links, base, n)
<1> DEFINE A == SUBSET (base \cup UNION links)
           F == [X \in A |-> X \cup UNION {l \in links : l \cap X # {}}]
<1>0. base \in A /\ F \in [A -> A]
  OBVIOUS
<1>1. PICK f : f \in [0..n -> A] /\ f[0] = base /\ \A k \in 1..n : f[k] = F[f[k - 1]]
  <2> HIDE DEF A, F
  <2>1. \E f : InRounds(f, A, base, F, n)
    BY <1>0, RoundsExist
  <2> QED BY <2>1 DEF InRounds
<1> DEFINE g == [k \in 0..n |-> IF k = 0 THEN base ELSE f[k - 1] \cup UNION {l \in links : l \cap f[k - 1] # {}}]
<1>2. \A k \in 0..n : f[k] = g[k]
  <2> TAKE k \in 0..n
  <2>1. CASE k = 0
    BY <1>1, <2>1
  <2>2. CASE k # 0
    <3>1. k \in 1..n /\ k - 1 \in 0..n
      BY <2>2
    <3>2. f[k - 1] \in A
      BY <1>1, <3>1
    <3>3. F[f[k - 1]] = f[k - 1] \cup UNION {l \in links : l \cap f[k - 1] # {}}
      BY <3>2
    <3> HIDE DEF F
    <3> QED BY <1>1, <2>2, <3>1, <3>3
  <2> QED BY <2>1, <2>2
<1>3. f = g
  <2>1. f = [k \in 0..n |-> f[k]]
    BY <1>1
  <2> QED BY <1>2, <2>1
<1> QED BY <1>3, Zenon DEF IsFollowing

(* What the accounts reach from some files: see Affected of each. *)
Reach(links, base, n) ==
  LET reached[k \in 0 .. n] ==
        IF k = 0 THEN base
        ELSE LET near == reached[k - 1] IN near \cup UNION {l \in links : l \cap near # {}}
  IN reached[n]
LEMMA ReachIsWhole ==
  ASSUME NEW links, IsFiniteSet(links), NEW base, NEW X, X = Reach(links, base, Cardinality(links))
  PROVE  base \subseteq X /\ \A l \in links : l \cap X # {} => l \subseteq X
<1> DEFINE n == Cardinality(links)
           J == CHOOSE f : f = [k \in 0..n |->
                  IF k = 0 THEN base ELSE f[k - 1] \cup UNION {l \in links : l \cap f[k - 1] # {}}]
<1>0. n \in Nat
  BY FS_CardinalityType
<1>1. X = J[n]
  BY Zenon DEF Reach
<1>2. \E f : f = [k \in 0..n |->
               IF k = 0 THEN base ELSE f[k - 1] \cup UNION {l \in links : l \cap f[k - 1] # {}}]
  <2> HIDE DEF n, J
  <2>1. \E f : IsFollowing(f, links, base, n)
    BY <1>0, FollowingExists
  <2> QED BY <2>1, Zenon DEF IsFollowing
<1>3. J = [k \in 0..n |-> IF k = 0 THEN base ELSE J[k - 1] \cup UNION {l \in links : l \cap J[k - 1] # {}}]
  BY <1>2, Zenon
<1> HIDE DEF J
<1>4. J[0] = base
  BY <1>0, <1>3
<1>5. \A k \in 1..n : J[k] = Follows(links, J[k - 1])
  <2> TAKE k \in 1..n
  <2>1. k \in 0..n /\ k # 0
    BY <1>0
  <2>2. J[k] = IF k = 0 THEN base ELSE J[k - 1] \cup UNION {l \in links : l \cap J[k - 1] # {}}
    BY <1>3, <2>1, Zenon
  <2> QED BY <2>1, <2>2 DEF Follows
<1>6. base \subseteq J[n] /\ \A l \in links : l \cap J[n] # {} => l \subseteq J[n]
  BY <1>0, <1>4, <1>5, LinkedInRounds
<1> QED BY <1>1, <1>6

LEMMA FiniteUnion ==
  ASSUME NEW S, IsFiniteSet(S), NEW f, \A x \in S : IsFiniteSet(f[x])
  PROVE  IsFiniteSet(UNION {f[x] : x \in S})
<1> DEFINE T == {f[x] : x \in S}
<1>1. IsFiniteSet(T)
  BY FiniteImage
<1>2. \A t \in T : IsFiniteSet(t)
  OBVIOUS
<1> HIDE DEF T
<1> QED BY <1>1, <1>2, FS_UNION DEF T

LEMMA GreatestNumber ==
  ASSUME NEW T, T \subseteq Nat, T # {}, IsFiniteSet(T)
  PROVE  \E n \in T : \A m \in T : m <= n
<1> DEFINE Has(S) == \E n \in S : \A m \in S : m <= n
           All(k) == \A S \in SUBSET Nat : IsFiniteSet(S) /\ Cardinality(S) = k + 1 => Has(S)
           N == {k \in Nat : All(k)}
<1>1. 0 \in N
  <2> SUFFICES ASSUME NEW S \in SUBSET Nat, IsFiniteSet(S), Cardinality(S) = 0 + 1 PROVE Has(S)
    OBVIOUS
  <2>1. PICK x : S = {x}
    <3>1. Cardinality(S) = 1
      OBVIOUS
    <3> QED BY <3>1, FS_Singleton
  <2>2. x \in Nat
    BY <2>1
  <2> QED BY <2>1, <2>2
<1>2. ASSUME NEW k \in N PROVE k + 1 \in N
  <2>1. k \in Nat /\ All(k)
    OBVIOUS
  <2> SUFFICES ASSUME NEW S \in SUBSET Nat, IsFiniteSet(S), Cardinality(S) = (k + 1) + 1 PROVE Has(S)
    BY <2>1
  <2>2. S # {}
    BY <2>1, FS_EmptySet
  <2>3. PICK x \in S : TRUE
    BY <2>2
  <2> DEFINE R == S \ {x}
  <2>4. IsFiniteSet(R) /\ Cardinality(R) = Cardinality(S) - 1
    BY FS_RemoveElement
  <2>5. R \in SUBSET Nat /\ Cardinality(R) = k + 1
    BY <2>1, <2>4
  <2>6. Has(R)
    <3> HIDE DEF R, Has
    <3> QED BY <2>1, <2>4, <2>5
  <2>7. PICK n \in R : \A m \in R : m <= n
    BY <2>6
  <2>8. \A m \in S : m = x \/ m \in R
    OBVIOUS
  <2>9. n \in Nat /\ x \in Nat /\ n \in S
    OBVIOUS
  <2>10. CASE x <= n
    BY <2>7, <2>8, <2>9, <2>10
  <2>11. CASE ~(x <= n)
    <3>1. \A m \in S : m <= x
      <4> TAKE m \in S
      <4>1. m = x \/ m <= n
        BY <2>7, <2>8
      <4> QED BY <2>9, <2>11, <4>1
    <3> QED BY <3>1
  <2> QED BY <2>10, <2>11
<1>3. N = Nat
  <2>1. N \subseteq Nat
    OBVIOUS
  <2> HIDE DEF N
  <2> QED BY <1>1, <1>2, <2>1, AllNumbers
<1>4. Cardinality(T) \in Nat /\ Cardinality(T) # 0
  BY FS_CardinalityType, FS_EmptySet
<1> DEFINE k == Cardinality(T) - 1
<1>5. k \in Nat /\ Cardinality(T) = k + 1
  BY <1>4
<1> HIDE DEF k, Has
<1>6. All(k)
  BY <1>3, <1>5
<1> QED BY <1>5, <1>6 DEF Has

(* A line as long as a set revisits one of its elements. *)
LEMMA Revisits ==
  ASSUME NEW S, IsFiniteSet(S), NEW f, \A k \in 0..Cardinality(S) : f[k] \in S
  PROVE  \E j, k \in 0..Cardinality(S) : j < k /\ f[j] = f[k]
<1> DEFINE n == Cardinality(S)
           I == 0..n
           g == [k \in I |-> f[k]]
<1>0. n \in Nat
  BY FS_CardinalityType
<1>1. g \in [I -> S]
  OBVIOUS
<1>2. IsFiniteSet(I) /\ Cardinality(I) = n + 1
  BY <1>0, FS_Interval
<1>3. \E x, y \in I : x # y /\ g[x] = g[y]
  <2>1. Cardinality(S) < Cardinality(I)
    BY <1>0, <1>2
  <2> HIDE DEF I, g
  <2> QED BY <1>1, <1>2, <2>1, FS_PigeonHole
<1>4. PICK x, y \in I : x # y /\ f[x] = f[y]
  BY <1>3
<1> QED BY <1>0, <1>4

(* Rounds over a set C: each adds to what is there.  After as many rounds as C
   has elements nothing is added any more. *)
LEMMA GrowsInRounds ==
  ASSUME NEW C, IsFiniteSet(C), NEW G, \A X \in SUBSET C : X \subseteq G[X] /\ G[X] \subseteq C,
         NEW f, f[0] \subseteq C, \A k \in 1..Cardinality(C) : f[k] = G[f[k - 1]]
  PROVE  LET X == f[Cardinality(C)] IN f[0] \subseteq X /\ X \subseteq C /\ G[X] = X
<1> DEFINE n == Cardinality(C)
           Good(k) == f[k] \subseteq C /\ f[0] \subseteq f[k] /\ (G[f[k]] = f[k] \/ Cardinality(f[k]) >= k)
           T == {k \in Nat : k <= n => Good(k)}
<1>0. n \in Nat
  BY FS_CardinalityType
<1> HIDE DEF n
<1>00. \A k \in 1..n : f[k] = G[f[k - 1]]
  BY DEF n
<1>01. \A X : X \subseteq C => IsFiniteSet(X) /\ Cardinality(X) \in Nat
  <2> TAKE X
  <2> HAVE X \subseteq C
  <2>1. IsFiniteSet(X)
    BY FS_Subset
  <2> QED BY <2>1, FS_CardinalityType
<1>1. 0 \in T
  <2>1. Cardinality(f[0]) >= 0
    BY <1>01
  <2> QED BY <2>1
<1>2. ASSUME NEW k \in T PROVE k + 1 \in T
  <2>0. k \in Nat
    OBVIOUS
  <2> SUFFICES ASSUME k + 1 <= n PROVE Good(k + 1)
    BY <2>0
  <2>1. Good(k)
    <3> HIDE DEF Good
    <3> QED BY <1>0, <2>0
  <2>2. f[k + 1] = G[f[k]]
    <3>1. k + 1 \in 1..n /\ (k + 1) - 1 = k
      BY <1>0, <2>0
    <3> QED BY <1>00, <3>1
  <2>3. f[k] \subseteq f[k + 1] /\ f[k + 1] \subseteq C
    BY <2>1, <2>2
  <2>4. CASE f[k + 1] = f[k]
    BY <2>1, <2>2, <2>4
  <2>5. CASE f[k + 1] # f[k]
    <3>1. Cardinality(f[k]) >= k
      BY <2>1, <2>2, <2>5
    <3>2. /\ Cardinality(f[k]) <= Cardinality(f[k + 1])
          /\ Cardinality(f[k + 1]) = Cardinality(f[k]) => f[k + 1] = f[k]
      BY <1>01, <2>3, FS_Subset
    <3>3. Cardinality(f[k]) \in Nat /\ Cardinality(f[k + 1]) \in Nat
      BY <1>01, <2>1, <2>3
    <3>4. Cardinality(f[k + 1]) >= k + 1
      BY <2>0, <2>5, <3>1, <3>2, <3>3
    <3> QED BY <2>1, <2>3, <3>4
  <2> QED BY <2>4, <2>5
<1>3. T = Nat
  <2>1. T \subseteq Nat
    OBVIOUS
  <2> HIDE DEF T
  <2> QED BY <1>1, <1>2, <2>1, AllNumbers
<1>4. Good(n)
  <2> HIDE DEF Good
  <2> QED BY <1>0, <1>3
<1>5. G[f[n]] = f[n]
  <2>1. CASE Cardinality(f[n]) >= n
    <3>1. f[n] = C
      <4>1. Cardinality(f[n]) <= Cardinality(C) /\ (Cardinality(C) = Cardinality(f[n]) => C = f[n])
        BY <1>4, FS_Subset
      <4>2. Cardinality(f[n]) \in Nat /\ Cardinality(C) = n
        BY <1>01, <1>4 DEF n
      <4> QED BY <1>0, <2>1, <4>1, <4>2
    <3> QED BY <3>1
  <2> QED BY <1>4, <2>1
<1> QED BY <1>4, <1>5 DEF n

(***************************************************************************)
(* Pi: entries copied into forks and resumed sessions.                     *)
(***************************************************************************)
(* The library as the module of the harness sees it. *)
LEMMA PiLibrary ==
  /\ \A S : Pi!Cardinality(S) = Cardinality(S)
  /\ \A S : Pi!IsFiniteSet(S) <=> IsFiniteSet(S)
<1>1. \A S : Pi!IsFiniteSet(S) <=> IsFiniteSet(S)
  BY DEF Pi!IsFiniteSet, IsFiniteSet
<1>2. \A S : Pi!Cardinality(S) = Cardinality(S)
  BY DEF Pi!Cardinality, Cardinality
<1> QED BY <1>1, <1>2

(* What an import keeps true of the tables: a session has a header when a
   generation of it was read, and each generation has it or contradicts it. *)
PiHeaders(L) == \A s \in PiSessions : L.header[s] # None <=> \E g \in L.sources : g.session = s
PiHeaded(L) == \A g \in L.sources : g.session \in L.conflicted \/ g.header = L.header[g.session]
PiRead(L) ==
  /\ L.sources \subseteq PiFiles
  /\ L.header \in [PiSessions -> Pi!Headers \cup {None}]
  /\ L.conflicted \subseteq Pi!KnownSessions(L)
  /\ PiHeaders(L) /\ PiHeaded(L)

LEMMA PiGenerations ==
  ASSUME Pi!PiConstants, NEW L, L.sources \subseteq PiFiles, NEW g \in L.sources
  PROVE  /\ g.locator \in PiLocators /\ g.session \in PiSessions /\ g.header \in Pi!Headers
         /\ DOMAIN g.entries \subseteq PiNatives /\ \A n \in DOMAIN g.entries : g.entries[n] \in Pi!EntryType
<1>1. g \in Pi!SourceType
  BY DEF Pi!PiConstants
<1>2. g.entries \in UNION {[N -> Pi!EntryType] : N \in SUBSET PiNatives}
  BY <1>1 DEF Pi!SourceType
<1>3. PICK N \in SUBSET PiNatives : g.entries \in [N -> Pi!EntryType]
  BY <1>2
<1> QED BY <1>1, <1>3 DEF Pi!SourceType

LEMMA PiEntriesOf ==
  ASSUME Pi!PiConstants, NEW L, L.sources \subseteq PiFiles, NEW s, NEW n, NEW e \in Pi!Entries(L, s, n)
  PROVE  /\ s \in PiSessions /\ n \in PiNatives /\ e \in Pi!EntryType
         /\ \E g \in Pi!GenerationsOf(L, s) : n \in DOMAIN g.entries /\ e = g.entries[n]
<1>1. PICK g \in Pi!GenerationsOf(L, s) : n \in DOMAIN g.entries /\ e = g.entries[n]
  BY DEF Pi!Entries
<1>2. g \in L.sources /\ g.session = s
  BY DEF Pi!GenerationsOf
<1> QED BY <1>1, <1>2, PiGenerations

LEMMA PiUsesOf ==
  ASSUME Pi!PiConstants, NEW L, L.sources \subseteq PiFiles, NEW s, NEW n
  PROVE  /\ Pi!UsesOf(L, s, n) \subseteq PiUses
         /\ Pi!ParentsOf(L, s, n) \subseteq PiNatives \cup {None}
         /\ Pi!UsesOf(L, s, n) # {} => Pi!Entries(L, s, n) # {} /\ s \in PiSessions /\ n \in PiNatives
<1>1. \A e \in Pi!Entries(L, s, n) : e.use \in PiUses \cup {None} /\ e.parent \in PiNatives \cup {None} /\ s \in PiSessions /\ n \in PiNatives
  <2> TAKE e \in Pi!Entries(L, s, n)
  <2>1. e \in Pi!EntryType /\ s \in PiSessions /\ n \in PiNatives
    BY PiEntriesOf
  <2> QED BY <2>1 DEF Pi!EntryType
<1> QED BY <1>1 DEF Pi!UsesOf, Pi!ParentsOf

LEMMA PiEntryParent ==
  ASSUME Pi!PiConstants, NEW L, L.sources \subseteq PiFiles, NEW s, NEW n, Pi!Entries(L, s, n) # {}
  PROVE  Pi!EntryParent(L, s, n) \in Pi!ParentsOf(L, s, n) /\ Pi!EntryParent(L, s, n) \in PiNatives \cup {None}
<1>1. Pi!ParentsOf(L, s, n) # {}
  BY DEF Pi!ParentsOf
<1>2. Pi!EntryParent(L, s, n) \in Pi!ParentsOf(L, s, n)
  BY <1>1 DEF Pi!EntryParent
<1> QED BY <1>2, PiUsesOf

(* An entry's uses are represented by the one with the least number. *)
LEMMA PiRepresentative ==
  ASSUME Pi!PiConstants, NEW L, L.sources \subseteq PiFiles, NEW s, NEW n, Pi!UsesOf(L, s, n) # {}
  PROVE  Pi!Representative(L, s, n) \in Pi!UsesOf(L, s, n)
<1> DEFINE U == Pi!UsesOf(L, s, n)
<1>1. U \subseteq PiUses
  BY PiUsesOf
<1> HIDE DEF U
<1>2. \A u \in U : u.id \in Nat
  BY <1>1 DEF Pi!PiConstants, Pi!UseType
<1> DEFINE T == {u.id : u \in U}
<1>3. T \subseteq Nat /\ T # {}
  BY <1>2 DEF U
<1>4. PICK m \in T : \A k \in T : m <= k
  <2> HIDE DEF T
  <2> QED BY <1>3, LeastNumber
<1>5. \E u \in U : \A v \in U : u.id <= v.id
  BY <1>4
<1>6. Pi!Representative(L, s, n) = CHOOSE u \in U : \A v \in U : u.id <= v.id
  BY DEF Pi!Representative, U
<1>7. Pi!Representative(L, s, n) \in U
  BY <1>5, <1>6
<1> QED BY <1>7 DEF U

(* What is observed. *)
LEMMA PiObservations ==
  ASSUME NEW L
  PROVE  \A o : o \in Pi!Observations(L) <=> \E s \in PiSessions, n \in PiNatives : \E u \in Pi!UsesOf(L, s, n) :
                                               o = [session |-> s, native |-> n, use |-> u]
<1> DEFINE D(s, n) == {[session |-> s, native |-> n, use |-> u] : u \in Pi!UsesOf(L, s, n)}
<1>1. Pi!Observations(L) = UNION {D(s, n) : s \in PiSessions, n \in PiNatives}
  BY SMT DEF Pi!Observations
<1>2. \A s, n, o : o \in D(s, n) <=> \E u \in Pi!UsesOf(L, s, n) : o = [session |-> s, native |-> n, use |-> u]
  OBVIOUS
<1> HIDE DEF D
<1>3. \A o : o \in UNION {D(s, n) : s \in PiSessions, n \in PiNatives} <=> \E s \in PiSessions, n \in PiNatives : o \in D(s, n)
  OBVIOUS
<1>4. \A o : o \in Pi!Observations(L) <=> \E s \in PiSessions, n \in PiNatives : o \in D(s, n)
  BY <1>1, <1>3
<1> QED BY <1>2, <1>4

LEMMA PiObserved ==
  ASSUME Pi!PiConstants, NEW L, L.sources \subseteq PiFiles, NEW o \in Pi!Observations(L)
  PROVE  /\ o.session \in PiSessions /\ o.native \in PiNatives /\ o.use \in Pi!UsesOf(L, o.session, o.native) /\ o.use \in PiUses
         /\ o = [session |-> o.session, native |-> o.native, use |-> o.use] /\ o # None
<1>1. PICK s \in PiSessions, n \in PiNatives : \E u \in Pi!UsesOf(L, s, n) : o = [session |-> s, native |-> n, use |-> u]
  BY PiObservations
<1>2. PICK u \in Pi!UsesOf(L, s, n) : o = [session |-> s, native |-> n, use |-> u]
  BY <1>1
<1>3. o.session = s /\ o.native = n /\ o.use = u /\ u \in PiUses
  BY <1>2, PiUsesOf
<1>4. o \in [session : PiSessions, native : PiNatives, use : PiUses]
  BY <1>2, <1>3
<1> QED BY <1>2, <1>3, <1>4 DEF Pi!PiConstants

LEMMA PiNamed ==
  ASSUME Pi!PiConstants, NEW L, L.sources \subseteq PiFiles, NEW s, NEW n, Pi!UsesOf(L, s, n) # {}
  PROVE  Pi!Named(L, s, n) \in Pi!Observations(L) /\ Pi!Named(L, s, n).session = s /\ Pi!Named(L, s, n).native = n
           /\ Pi!Named(L, s, n).use = Pi!Representative(L, s, n)
<1>1. s \in PiSessions /\ n \in PiNatives /\ Pi!Representative(L, s, n) \in Pi!UsesOf(L, s, n)
  BY PiUsesOf, PiRepresentative
<1> QED BY <1>1, PiObservations DEF Pi!Named

(* The parent of a session is one that was read. *)
LEMMA PiParent ==
  ASSUME Pi!PiConstants, NEW L, PiRead(L), NEW s \in PiSessions, Pi!Parent(L, s) # None
  PROVE  /\ Pi!Parent(L, s) \in Pi!KnownSessions(L) /\ s \in Pi!KnownSessions(L)
         /\ L.header[s] \in Pi!Headers /\ L.header[s].parent # None
         /\ \E g \in L.sources : g.locator = L.header[s].parent /\ g.session = Pi!Parent(L, s)
<1> DEFINE l == L.header[s].parent
<1>1. L.header[s] # None /\ Pi!Locates(L, l) /\ Pi!Parent(L, s) = CHOOSE p \in Pi!SessionsAt(L, l) : TRUE
  BY DEF Pi!Parent
<1>2. Cardinality(Pi!SessionsAt(L, l)) = 1 /\ l # None
  BY PiLibrary, <1>1 DEF Pi!Locates
<1>3. Pi!SessionsAt(L, l) # {}
  BY <1>2, FS_EmptySet
<1>4. Pi!Parent(L, s) \in Pi!SessionsAt(L, l)
  BY <1>1, <1>3
<1>5. PICK g \in L.sources : g.locator = l /\ g.session = Pi!Parent(L, s)
  BY <1>4 DEF Pi!SessionsAt
<1>6. g.session \in PiSessions
  BY PiGenerations DEF PiRead
<1>7. Pi!Parent(L, s) \in Pi!KnownSessions(L)
  BY <1>5, <1>6 DEF PiRead, PiHeaders, Pi!KnownSessions
<1> QED BY <1>1, <1>2, <1>5, <1>7 DEF Pi!KnownSessions, PiRead

-----------------------------------------------------------------------------
(* Lineages. *)

PiLine(L, s, line) ==
  /\ line \in [0 .. Cardinality(PiSessions) -> PiSessions \cup {None}] /\ line[0] = s
  /\ \A k \in 1 .. Cardinality(PiSessions) : line[k] = IF line[k - 1] = None THEN None ELSE Pi!Parent(L, line[k - 1])

LEMMA PiLineage ==
  ASSUME Pi!PiConstants, NEW L, PiRead(L), NEW s \in PiSessions
  PROVE  PiLine(L, s, Pi!Lineage(L, s))
<1> DEFINE n == Cardinality(PiSessions)
           A == PiSessions \cup {None}
           F == [x \in A |-> IF x = None THEN None ELSE Pi!Parent(L, x)]
           J == CHOOSE f : f = [k \in 0 .. n |->
                  IF k = 0 THEN s ELSE LET child == f[k - 1] IN IF child = None THEN None ELSE Pi!Parent(L, child)]
<1>1. n \in Nat
  BY PiLibrary, FS_CardinalityType DEF Pi!PiConstants
<1>2. F \in [A -> A] /\ s \in A
  <2>1. \A x \in PiSessions : Pi!Parent(L, x) \in A
    <3> TAKE x \in PiSessions
    <3>1. CASE Pi!Parent(L, x) # None
      BY <3>1, PiParent DEF Pi!KnownSessions
    <3> QED BY <3>1
  <2> QED BY <2>1
<1>3. Pi!Lineage(L, s) = J
  BY PiLibrary, Zenon DEF Pi!Lineage
<1> HIDE DEF n, A, F
<1>4. PICK f : InRounds(f, A, s, F, n)
  BY <1>1, <1>2, RoundsExist
<1>5. f \in [0 .. n -> A] /\ f[0] = s /\ \A k \in 1 .. n : f[k] = F[f[k - 1]]
  BY <1>4 DEF InRounds
<1>6. \A k \in 1 .. n : k - 1 \in 0 .. n /\ f[k] = IF f[k - 1] = None THEN None ELSE Pi!Parent(L, f[k - 1])
  <2> TAKE k \in 1 .. n
  <2>1. k - 1 \in 0 .. n
    BY <1>1
  <2>2. f[k - 1] \in A
    BY <1>5, <2>1
  <2> QED BY <1>5, <2>1, <2>2 DEF F
<1>7. f = [k \in 0 .. n |->
             IF k = 0 THEN s ELSE LET child == f[k - 1] IN IF child = None THEN None ELSE Pi!Parent(L, child)]
  <2> DEFINE g == [k \in 0 .. n |->
             IF k = 0 THEN s ELSE LET child == f[k - 1] IN IF child = None THEN None ELSE Pi!Parent(L, child)]
  <2>1. \A k \in 0 .. n : f[k] = g[k]
    <3> TAKE k \in 0 .. n
    <3>1. CASE k = 0
      BY <1>5, <3>1
    <3>2. CASE k # 0
      <4>1. k \in 1 .. n
        BY <1>1, <3>2
      <4> QED BY <1>6, <3>2, <4>1
    <3> QED BY <3>1, <3>2
  <2>2. f = [k \in 0 .. n |-> f[k]] /\ g = [k \in 0 .. n |-> g[k]]
    BY <1>5
  <2> HIDE DEF g
  <2>3. f = g
    BY <2>1, <2>2
  <2> QED BY <2>3 DEF g
<1>8. J = [k \in 0 .. n |->
             IF k = 0 THEN s ELSE LET child == J[k - 1] IN IF child = None THEN None ELSE Pi!Parent(L, child)]
  BY <1>7, Zenon
<1> HIDE DEF J
<1>9. J[0] = s /\ DOMAIN J = 0 .. n /\ J = [k \in DOMAIN J |-> J[k]]
  BY <1>1, <1>8
<1>10. \A k \in 1 .. n : k - 1 \in 0 .. n /\ k \in 0 .. n /\ J[k] = IF J[k - 1] = None THEN None ELSE Pi!Parent(L, J[k - 1])
  <2> TAKE k \in 1 .. n
  <2>1. k - 1 \in 0 .. n /\ k \in 0 .. n /\ k # 0
    BY <1>1
  <2>2. J[k] = IF k = 0 THEN s ELSE LET child == J[k - 1] IN IF child = None THEN None ELSE Pi!Parent(L, child)
    BY <1>8, <2>1, Zenon
  <2> QED BY <2>1, <2>2
<1> DEFINE T == {k \in Nat : k <= n => J[k] = f[k]}
<1>11. T = Nat
  <2>1. T \subseteq Nat /\ 0 \in T
    BY <1>5, <1>9
  <2>2. ASSUME NEW k \in T PROVE k + 1 \in T
    <3> SUFFICES ASSUME k + 1 <= n PROVE J[k + 1] = f[k + 1]
      OBVIOUS
    <3>1. k \in Nat /\ k + 1 \in 1 .. n /\ (k + 1) - 1 = k /\ J[k] = f[k]
      BY <1>1
    <3> QED BY <1>6, <1>10, <3>1
  <2> HIDE DEF T
  <2> QED BY <2>1, <2>2, AllNumbers
<1>12. \A k \in 0 .. n : J[k] = f[k] /\ J[k] \in A
  <2> TAKE k \in 0 .. n
  <2>1. k \in T /\ k <= n
    BY <1>1, <1>11
  <2> QED BY <1>5, <2>1
<1>13. J \in [0 .. n -> A]
  BY <1>9, <1>12
<1> QED BY <1>3, <1>9, <1>10, <1>13 DEF PiLine, n, A

LEMMA PiLineEnds ==
  ASSUME Pi!PiConstants, NEW L, NEW s \in PiSessions, NEW line, PiLine(L, s, line),
         NEW j \in 0 .. Cardinality(PiSessions), line[j] = None
  PROVE  \A k \in j .. Cardinality(PiSessions) : line[k] = None
<1> DEFINE n == Cardinality(PiSessions)
           T == {k \in Nat : j + k <= n => line[j + k] = None}
<1>1. n \in Nat /\ j \in Nat
  BY PiLibrary, FS_CardinalityType DEF Pi!PiConstants
<1>2. \A k \in 1 .. n : line[k] = IF line[k - 1] = None THEN None ELSE Pi!Parent(L, line[k - 1])
  BY DEF PiLine
<1> HIDE DEF n
<1>3. T = Nat
  <2>1. T \subseteq Nat /\ 0 \in T
    BY <1>1
  <2>2. ASSUME NEW k \in T PROVE k + 1 \in T
    <3> SUFFICES ASSUME j + (k + 1) <= n PROVE line[j + (k + 1)] = None
      BY <1>1
    <3>1. k \in Nat /\ j + (k + 1) \in 1 .. n /\ (j + (k + 1)) - 1 = j + k /\ line[j + k] = None
      BY <1>1
    <3> QED BY <1>2, <3>1
  <2> HIDE DEF T
  <2> QED BY <2>1, <2>2, AllNumbers
<1>4. ASSUME NEW k \in j .. n PROVE line[k] = None
  <2>1. k - j \in Nat /\ j + (k - j) = k /\ k <= n
    BY <1>1
  <2> QED BY <1>3, <2>1
<1> QED BY <1>4 DEF n

LEMMA PiLineTurns ==
  ASSUME Pi!PiConstants, NEW L, NEW s \in PiSessions, NEW line, PiLine(L, s, line),
         NEW i \in 0 .. Cardinality(PiSessions), NEW j \in 0 .. Cardinality(PiSessions), i < j, line[i] = line[j]
  PROVE  line[i + (Cardinality(PiSessions) - j)] = line[Cardinality(PiSessions)]
<1> DEFINE n == Cardinality(PiSessions)
           T == {m \in Nat : j + m <= n => line[i + m] = line[j + m]}
<1>1. n \in Nat /\ i \in Nat /\ j \in Nat
  BY PiLibrary, FS_CardinalityType DEF Pi!PiConstants
<1>2. \A l \in 1 .. n : line[l] = IF line[l - 1] = None THEN None ELSE Pi!Parent(L, line[l - 1])
  BY DEF PiLine
<1> HIDE DEF n
<1>3. T = Nat
  <2>1. T \subseteq Nat /\ 0 \in T
    BY <1>1
  <2>2. ASSUME NEW m \in T PROVE m + 1 \in T
    <3> SUFFICES ASSUME j + (m + 1) <= n PROVE line[i + (m + 1)] = line[j + (m + 1)]
      BY <1>1
    <3>1. /\ m \in Nat /\ j + (m + 1) \in 1 .. n /\ (j + (m + 1)) - 1 = j + m
          /\ i + (m + 1) \in 1 .. n /\ (i + (m + 1)) - 1 = i + m /\ line[i + m] = line[j + m]
      BY <1>1
    <3> DEFINE x == i + (m + 1)
               y == j + (m + 1)
    <3>2. line[x] = IF line[x - 1] = None THEN None ELSE Pi!Parent(L, line[x - 1])
      BY <1>2, <3>1
    <3>3. line[y] = IF line[y - 1] = None THEN None ELSE Pi!Parent(L, line[y - 1])
      BY <1>2, <3>1
    <3> QED BY <3>1, <3>2, <3>3
  <2> HIDE DEF T
  <2> QED BY <2>1, <2>2, AllNumbers
<1>4. n - j \in Nat /\ j + (n - j) = n /\ n <= n
  BY <1>1 DEF n
<1>5. n - j \in T
  BY <1>3, <1>4
<1> QED BY <1>4, <1>5 DEF n

(* The ancestors of a session are closed: who an ancestor names is one. *)
PiAncestors(L, s) == {Pi!Lineage(L, s)[k] : k \in 1 .. Cardinality(PiSessions)} \ {None}

LEMMA PiAncestorIs ==
  ASSUME Pi!PiConstants, NEW L, PiRead(L), NEW s \in PiSessions, NEW a
  PROVE  a \in PiAncestors(L, s) <=> a # None /\ \E k \in 1 .. Cardinality(PiSessions) : a = Pi!Lineage(L, s)[k]
<1> DEFINE line == Pi!Lineage(L, s)
<1> HIDE DEF line
<1>1. PiAncestors(L, s) = {line[k] : k \in 1 .. Cardinality(PiSessions)} \ {None}
  BY DEF PiAncestors, line
<1> QED BY <1>1 DEF line

LEMMA PiAncestorsParent ==
  ASSUME Pi!PiConstants, NEW L, PiRead(L), NEW s \in PiSessions, NEW a \in {s} \cup PiAncestors(L, s), Pi!Parent(L, a) # None
  PROVE  Pi!Parent(L, a) \in PiAncestors(L, s)
<1> DEFINE n == Cardinality(PiSessions)
           line == Pi!Lineage(L, s)
<1> HIDE DEF line
<1>0. PiLine(L, s, line)
  BY PiLineage DEF line
<1>1. n \in Nat /\ \A k \in 1 .. n : line[k] = IF line[k - 1] = None THEN None ELSE Pi!Parent(L, line[k - 1])
  BY PiLibrary, <1>0, FS_CardinalityType DEF Pi!PiConstants, PiLine
<1>2. a # None
  BY PiAncestorIs DEF Pi!PiConstants
<1>3. PICK k \in 0 .. n : a = line[k]
  <2>1. CASE a = s
    BY <1>0, <1>1, <2>1 DEF PiLine
  <2>2. CASE a # s
    BY <1>1, <2>2, PiAncestorIs DEF line
  <2> QED BY <2>1, <2>2
<1>4. ASSUME NEW i \in 0 .. n, i < n, a = line[i] PROVE Pi!Parent(L, a) \in PiAncestors(L, s)
  <2>1. i + 1 \in 1 .. n /\ (i + 1) - 1 = i
    BY <1>1, <1>4
  <2>2. line[i + 1] = Pi!Parent(L, a)
    BY <1>1, <1>2, <1>4, <2>1
  <2> QED BY <2>1, <2>2, PiAncestorIs DEF line
<1>5. CASE k < n
  BY <1>3, <1>4, <1>5
<1>6. CASE k = n
  <2>1. \A m \in 0 .. n : line[m] \in PiSessions
    <3> TAKE m \in 0 .. n
    <3>1. line[m] # None
      <4> SUFFICES ASSUME line[m] = None PROVE FALSE
        OBVIOUS
      <4>1. n \in m .. n
        BY <1>1
      <4>2. line[n] = None
        BY <1>0, <4>1, PiLineEnds
      <4> QED BY <1>2, <1>3, <1>6, <4>2
    <3> QED BY <1>0, <3>1 DEF PiLine
  <2>2. PICK i, j \in 0 .. n : i < j /\ line[i] = line[j]
    BY PiLibrary, <2>1, Revisits DEF Pi!PiConstants
  <2>4. line[i + (n - j)] = line[n]
    BY <1>0, <2>2, PiLineTurns, Zenon
  <2>5. i + (n - j) \in 0 .. n /\ i + (n - j) < n
    BY <1>1, <2>2
  <2> QED BY <1>3, <1>4, <1>6, <2>4, <2>5
<1> QED BY <1>1, <1>5, <1>6

LEMMA PiAncestorsOf ==
  ASSUME Pi!PiConstants, NEW L, PiRead(L), NEW s \in PiSessions, NEW a \in {s} \cup PiAncestors(L, s)
  PROVE  a \in PiSessions /\ PiAncestors(L, a) \subseteq PiAncestors(L, s)
<1> DEFINE n == Cardinality(PiSessions)
           line == Pi!Lineage(L, a)
           T == {k \in Nat : k <= n => line[k] \in {None, a} \cup PiAncestors(L, s)}
<1> HIDE DEF line
<1>0. a \in PiSessions
  <2>1. PiLine(L, s, Pi!Lineage(L, s))
    BY PiLineage
  <2> DEFINE line0 == Pi!Lineage(L, s)
  <2>2. line0 \in [0 .. Cardinality(PiSessions) -> PiSessions \cup {None}]
    BY <2>1 DEF PiLine
  <2>3. \A k \in 1 .. Cardinality(PiSessions) : k \in 0 .. Cardinality(PiSessions)
    BY FS_CardinalityType DEF Pi!PiConstants
  <2> HIDE DEF line0
  <2>4. a # s => a # None /\ \E k \in 1 .. Cardinality(PiSessions) : a = line0[k]
    BY PiAncestorIs DEF line0
  <2> QED BY <2>2, <2>3, <2>4
<1>1. n \in Nat /\ line[0] = a /\ \A k \in 1 .. n : line[k] = IF line[k - 1] = None THEN None ELSE Pi!Parent(L, line[k - 1])
  BY PiLibrary, <1>0, PiLineage, FS_CardinalityType DEF Pi!PiConstants, PiLine, line
<1>2. \A b \in {a} \cup PiAncestors(L, s) : Pi!Parent(L, b) # None => Pi!Parent(L, b) \in PiAncestors(L, s)
  BY PiAncestorsParent
<1> HIDE DEF n
<1>3. \A k \in 1 .. n : line[k - 1] \in {None, a} \cup PiAncestors(L, s) => line[k] \in {None} \cup PiAncestors(L, s)
  BY <1>1, <1>2
<1>4. T = Nat
  <2>1. T \subseteq Nat /\ 0 \in T
    BY <1>1
  <2>2. ASSUME NEW k \in T PROVE k + 1 \in T
    <3> SUFFICES ASSUME k + 1 <= n PROVE line[k + 1] \in {None, a} \cup PiAncestors(L, s)
      OBVIOUS
    <3>1. k \in Nat /\ k + 1 \in 1 .. n /\ (k + 1) - 1 = k /\ line[k] \in {None, a} \cup PiAncestors(L, s)
      BY <1>1
    <3> QED BY <1>3, <3>1
  <2> HIDE DEF T
  <2> QED BY <2>1, <2>2, AllNumbers
<1>5. \A k \in 1 .. n : line[k] \in {None} \cup PiAncestors(L, s)
  <2> TAKE k \in 1 .. n
  <2>1. k - 1 \in Nat /\ k - 1 <= n
    BY <1>1
  <2> QED BY <1>3, <1>4, <2>1
<1>6. \A b : b \in PiAncestors(L, a) => b # None /\ \E k \in 1 .. n : b = line[k]
  BY <1>0, PiAncestorIs DEF line, n
<1> QED BY <1>0, <1>5, <1>6

-----------------------------------------------------------------------------
(* The search for the original of an entry ends. *)
LEMMA PiStopsAt ==
  ASSUME Pi!PiConstants, NEW L, PiRead(L), NEW scope, NEW s \in PiSessions, NEW n,
         NEW line, line = Pi!Lineage(L, s), NEW k, k = Pi!StopsAt(L, scope, line, n)
  PROVE  k \in 1 .. Cardinality(PiSessions) /\ Pi!Stops(L, scope, line, n, k)
           /\ \A j \in 1 .. k - 1 : ~Pi!Stops(L, scope, line, n, j)
<1> DEFINE N == Cardinality(PiSessions)
           T == {i \in 1 .. N : Pi!Stops(L, scope, line, n, i)}
<1>0. N \in Nat /\ PiLine(L, s, line)
  BY PiLibrary, PiLineage, FS_CardinalityType DEF Pi!PiConstants
<1>1. T # {}
  <2>1. CASE \A i \in 0 .. N : line[i] \in PiSessions
    <3>1. PICK i, j \in 0 .. N : i < j /\ line[i] = line[j]
      BY PiLibrary, <2>1, Revisits DEF Pi!PiConstants
    <3>2. j \in 1 .. N /\ i \in 0 .. j - 1
      BY <1>0, <3>1
    <3>3. Pi!Met(line, j)
      BY <3>1, <3>2 DEF Pi!Met
    <3>4. Pi!Stops(L, scope, line, n, j)
      BY <3>3 DEF Pi!Stops
    <3> QED BY <3>2, <3>4
  <2>2. ASSUME NEW i \in 0 .. N, line[i] \notin PiSessions PROVE T # {}
    <3>1. line[i] = None /\ i # 0
      BY <1>0, <2>2 DEF PiLine
    <3>2. i \in 1 .. N /\ Pi!Stops(L, scope, line, n, i)
      BY <1>0, <3>1 DEF Pi!Stops
    <3> QED BY <3>2
  <2> QED BY <2>1, <2>2
<1>2. PICK i \in T : \A j \in T : i <= j
  <2>1. T \subseteq Nat
    BY <1>0
  <2> HIDE DEF T
  <2> QED BY <1>1, <2>1, LeastNumber
<1>3. \A j \in 1 .. i - 1 : ~Pi!Stops(L, scope, line, n, j)
  <2> TAKE j \in 1 .. i - 1
  <2>1. j \in 1 .. N /\ ~(i <= j)
    BY <1>0, <1>2
  <2> QED BY <1>2, <2>1
<1>4. i \in 1 .. N /\ Pi!Stops(L, scope, line, n, i)
  BY <1>2
<1>5. DOMAIN line \ {0} = 1 .. N
  BY <1>0 DEF PiLine
<1> DEFINE P(x) == Pi!Stops(L, scope, line, n, x) /\ \A j \in 1 .. x - 1 : ~Pi!Stops(L, scope, line, n, j)
<1>6. k = CHOOSE x \in 1 .. N : P(x)
  BY <1>5 DEF Pi!StopsAt
<1>7. \E x \in 1 .. N : P(x)
  BY <1>3, <1>4
<1> HIDE DEF P
<1>8. k \in 1 .. N /\ P(k)
  BY <1>6, <1>7
<1> QED BY <1>8 DEF P

(* One step of select: an observation stands for itself, or for what another
   stands for. *)
PiStop(L, scope, c) == Pi!StopsAt(L, scope, Pi!Lineage(L, c.session), c.native)
PiFound(L, scope, c) == Pi!Lineage(L, c.session)[PiStop(L, scope, c)]
PiEnds(L, scope, c) ==
  ~Pi!Disputed(L, c) /\ c = Pi!Named(L, c.session, c.native) /\ PiFound(L, scope, c) = None
PiGoesOn(L, scope, c) ==
  /\ ~Pi!Disputed(L, c)
  /\ c = Pi!Named(L, c.session, c.native) =>
       PiFound(L, scope, c) # None /\ Pi!CopiedFrom(L, scope, Pi!Lineage(L, c.session), PiStop(L, scope, c), c)
PiGoesTo(L, scope, c) ==
  IF c # Pi!Named(L, c.session, c.native) THEN Pi!Named(L, c.session, c.native) ELSE Pi!Named(L, PiFound(L, scope, c), c.native)

LEMMA PiCopied ==
  ASSUME Pi!PiConstants, NEW L, PiRead(L), NEW scope, NEW c \in Pi!Observations(L),
         PiGoesOn(L, scope, c), c = Pi!Named(L, c.session, c.native), NEW a, a = PiFound(L, scope, c)
  PROVE  /\ a \in PiAncestors(L, c.session) /\ a \in scope /\ a \in PiSessions
         /\ Pi!UsesOf(L, a, c.native) # {} /\ Pi!Same(Pi!Representative(L, a, c.native), c.use)
         /\ Pi!MatchingPath(L, a, c.session, c.native)
<1> DEFINE line == Pi!Lineage(L, c.session)
           k == PiStop(L, scope, c)
<1>0. c.session \in PiSessions
  BY PiObserved DEF PiRead
<1>1. k \in 1 .. Cardinality(PiSessions)
  BY <1>0, PiStopsAt DEF PiStop
<1>2. a = line[k] /\ a # None /\ Pi!CopiedFrom(L, scope, line, k, c)
  BY DEF PiGoesOn, PiFound
<1> HIDE DEF line, k
<1>3. /\ Pi!Candidates(L, scope, a, c.native) # {} /\ Pi!Same(Pi!Representative(L, a, c.native), c.use)
      /\ Pi!MatchingPath(L, a, c.session, c.native)
  BY <1>2 DEF Pi!CopiedFrom
<1>4. a \in PiAncestors(L, c.session)
  BY <1>0, <1>1, <1>2, PiAncestorIs DEF line
<1>5. a \in PiSessions
  BY <1>0, <1>4, PiAncestorsOf
<1> QED BY <1>3, <1>4, <1>5 DEF Pi!Candidates

LEMMA PiGoes ==
  ASSUME Pi!PiConstants, NEW L, PiRead(L), NEW scope, NEW c \in Pi!Observations(L),
         PiGoesOn(L, scope, c), NEW d, d = PiGoesTo(L, scope, c)
  PROVE  /\ d \in Pi!Observations(L) /\ d.native = c.native /\ Pi!Same(d.use, c.use)
         /\ d.session \in {c.session} \cup PiAncestors(L, c.session)
         /\ d.session = c.session \/ Pi!MatchingPath(L, d.session, c.session, c.native)
<1>0. /\ c.session \in PiSessions /\ c.native \in PiNatives /\ c.use \in Pi!UsesOf(L, c.session, c.native)
      /\ L.sources \subseteq PiFiles
  BY PiObserved DEF PiRead
<1>1. CASE c # Pi!Named(L, c.session, c.native)
  <2>1. d = Pi!Named(L, c.session, c.native)
    BY <1>1 DEF PiGoesTo
  <2>2. d \in Pi!Observations(L) /\ d.session = c.session /\ d.native = c.native /\ d.use = Pi!Representative(L, c.session, c.native)
    BY <1>0, <2>1, PiNamed
  <2>3. d.use \in Pi!UsesOf(L, c.session, c.native)
    BY <1>0, <2>2, PiRepresentative
  <2>4. Pi!Same(d.use, c.use)
    BY <1>0, <2>3 DEF PiGoesOn, Pi!Disputed, Pi!ConflictingEntry
  <2> QED BY <2>2, <2>4
<1>2. CASE c = Pi!Named(L, c.session, c.native)
  <2> DEFINE a == PiFound(L, scope, c)
  <2>1. d = Pi!Named(L, a, c.native)
    BY <1>2 DEF PiGoesTo
  <2>2. /\ a \in PiAncestors(L, c.session) /\ Pi!UsesOf(L, a, c.native) # {}
        /\ Pi!Same(Pi!Representative(L, a, c.native), c.use) /\ Pi!MatchingPath(L, a, c.session, c.native)
    BY <1>2, PiCopied
  <2> HIDE DEF a
  <2>3. d \in Pi!Observations(L) /\ d.session = a /\ d.native = c.native /\ d.use = Pi!Representative(L, a, c.native)
    BY <1>0, <2>1, <2>2, PiNamed
  <2> QED BY <2>2, <2>3
<1> QED BY <1>1, <1>2

PiSelection(L, scope, f) ==
  /\ \A k \in 0 .. Cardinality(PiSessions) + 1 : f[k] \in [Pi!Observations(L) -> Pi!Observations(L) \cup {None}]
  /\ \A c \in Pi!Observations(L) : f[0][c] = None
  /\ \A k \in 1 .. Cardinality(PiSessions) + 1, c \in Pi!Observations(L) :
       f[k][c] = IF PiEnds(L, scope, c) THEN c
                 ELSE IF PiGoesOn(L, scope, c) THEN f[k - 1][PiGoesTo(L, scope, c)] ELSE None
PiSelects(L, scope, k, c, g) ==
  LET representative == Pi!Named(L, c.session, c.native)
      line == Pi!Lineage(L, c.session)
      stop == Pi!StopsAt(L, scope, line, c.native)
  IN IF k = 0 \/ Pi!Disputed(L, c) THEN None
     ELSE IF c # representative THEN g[representative]
     ELSE IF line[stop] = None THEN c
     ELSE IF Pi!CopiedFrom(L, scope, line, stop, c)
          THEN g[Pi!Named(L, line[stop], c.native)]
     ELSE None

LEMMA PiSelectsStep ==
  ASSUME NEW L, NEW scope, NEW c, NEW g
  PROVE  /\ PiSelects(L, scope, 0, c, g) = None
         /\ \A k : k # 0 => PiSelects(L, scope, k, c, g) =
                              IF PiEnds(L, scope, c) THEN c
                              ELSE IF PiGoesOn(L, scope, c) THEN g[PiGoesTo(L, scope, c)] ELSE None
<1> DEFINE stop == Pi!StopsAt(L, scope, Pi!Lineage(L, c.session), c.native)
           a == Pi!Lineage(L, c.session)[stop]
           rep == Pi!Named(L, c.session, c.native)
           copied == Pi!CopiedFrom(L, scope, Pi!Lineage(L, c.session), stop, c)
           to == Pi!Named(L, a, c.native)
<1>1. \A k : PiSelects(L, scope, k, c, g) =
               IF k = 0 \/ Pi!Disputed(L, c) THEN None
               ELSE IF c # rep THEN g[rep] ELSE IF a = None THEN c ELSE IF copied THEN g[to] ELSE None
  BY DEF PiSelects
<1>2. /\ PiEnds(L, scope, c) <=> ~Pi!Disputed(L, c) /\ c = rep /\ a = None
      /\ PiGoesOn(L, scope, c) <=> ~Pi!Disputed(L, c) /\ (c = rep => a # None /\ copied)
      /\ PiGoesTo(L, scope, c) = IF c # rep THEN rep ELSE to
  BY DEF PiEnds, PiGoesOn, PiGoesTo, PiFound, PiStop
<1> HIDE DEF stop, a, rep, copied, to
<1> QED BY <1>1, <1>2

PiSelectionOf(L, scope, n, f) ==
  f = [k \in 0 .. n |-> [c \in Pi!Observations(L) |-> PiSelects(L, scope, k, c, f[k - 1])]]
LEMMA PiSelectionExists ==
  ASSUME Pi!PiConstants, NEW L, PiRead(L), NEW scope, NEW n \in Nat
  PROVE  \E f : PiSelectionOf(L, scope, n, f)
<1> DEFINE O == Pi!Observations(L)
           A == [O -> O \cup {None}]
           base == [c \in O |-> None]
           next(g) == [c \in O |-> IF PiEnds(L, scope, c) THEN c
                                   ELSE IF PiGoesOn(L, scope, c) THEN g[PiGoesTo(L, scope, c)] ELSE None]
           F == [g \in A |-> next(g)]
<1>1. base \in A
  OBVIOUS
<1>2. \A g \in A : next(g) \in A
  <2> TAKE g \in A
  <2>1. \A c \in O : PiGoesOn(L, scope, c) => PiGoesTo(L, scope, c) \in O
    BY PiGoes
  <2> QED BY <2>1
<1>3. F \in [A -> A]
  <2> HIDE DEF A, next
  <2> QED BY <1>2
<1>4. PICK f : InRounds(f, A, base, F, n)
  <2> HIDE DEF A, base, F
  <2> QED BY <1>1, <1>3, RoundsExist
<1> DEFINE body(k) == [c \in O |-> PiSelects(L, scope, k, c, f[k - 1])]
           h == [k \in 0 .. n |-> body(k)]
<1>5. \A k \in 0 .. n : f[k] = h[k]
  <2> TAKE k \in 0 .. n
  <2>0. h[k] = body(k)
    OBVIOUS
  <2>1. CASE k = 0
    <3>1. f[0] = base
      BY <1>4 DEF InRounds
    <3>2. body(0) = base
      BY PiSelectsStep
    <3> HIDE DEF body, base, h
    <3> QED BY <2>0, <2>1, <3>1, <3>2
  <2>2. CASE k # 0
    <3>1. k \in 1 .. n /\ k - 1 \in 0 .. n
      BY <2>2
    <3>2. f[k] = F[f[k - 1]] /\ f[k - 1] \in A
      BY <1>4, <3>1 DEF InRounds
    <3>3. F[f[k - 1]] = next(f[k - 1])
      <4> HIDE DEF next, A
      <4> QED BY <3>2
    <3>4. body(k) = next(f[k - 1])
      BY <2>2, PiSelectsStep
    <3> HIDE DEF body, next, h, F
    <3> QED BY <2>0, <3>2, <3>3, <3>4
  <2> QED BY <2>1, <2>2
<1>6. f = [k \in 0 .. n |-> f[k]]
  BY <1>4 DEF InRounds
<1>7. h = [k \in 0 .. n |-> h[k]]
  OBVIOUS
<1>8. f = h
  <2> HIDE DEF h
  <2> QED BY <1>5, <1>6, <1>7
<1>9. PiSelectionOf(L, scope, n, f)
  BY <1>8 DEF PiSelectionOf
<1> QED BY <1>9

LEMMA PiSelect ==
  ASSUME Pi!PiConstants, NEW L, PiRead(L), NEW scope
  PROVE  \E f : PiSelection(L, scope, f) /\ \A o : Pi!Select(L, scope, o) = f[Cardinality(PiSessions) + 1][o]
<1> DEFINE n == Cardinality(PiSessions) + 1
           O == Pi!Observations(L)
           A == [O -> O \cup {None}]
           J == CHOOSE f : f = [k \in 0 .. n |-> [c \in Pi!Observations(L) |-> PiSelects(L, scope, k, c, f[k - 1])]]
<1>0. n \in Nat
  BY PiLibrary, FS_CardinalityType DEF Pi!PiConstants
<1>1. \A o : Pi!Select(L, scope, o) = J[n][o]
  BY PiLibrary, Zenon DEF Pi!Select, PiSelects
<1>2. J = [k \in 0 .. n |-> [c \in Pi!Observations(L) |-> PiSelects(L, scope, k, c, J[k - 1])]]
  <2> HIDE DEF n
  <2>1. \E f : PiSelectionOf(L, scope, n, f)
    BY <1>0, PiSelectionExists
  <2> QED BY <2>1, Zenon DEF PiSelectionOf
<1> HIDE DEF J, n
<1>3. \A k \in 0 .. n : J[k] = [c \in O |-> PiSelects(L, scope, k, c, J[k - 1])]
  BY <1>2, Zenon DEF O
<1>4. ASSUME NEW k \in 0 .. n, NEW c \in O PROVE J[k][c] = PiSelects(L, scope, k, c, J[k - 1])
  BY <1>3
<1>5. \A c \in O : J[0][c] = None
  BY <1>0, <1>4, PiSelectsStep
<1>6. \A k \in 1 .. n, c \in O :
        J[k][c] = IF PiEnds(L, scope, c) THEN c
                  ELSE IF PiGoesOn(L, scope, c) THEN J[k - 1][PiGoesTo(L, scope, c)] ELSE None
  <2> TAKE k \in 1 .. n, c \in O
  <2>1. k \in 0 .. n /\ k # 0
    BY <1>0
  <2> DEFINE g == J[k - 1]
             v == J[k][c]
  <2>2. v = PiSelects(L, scope, k, c, g)
    BY <1>4, <2>1
  <2> HIDE DEF g, v
  <2>3. v = IF PiEnds(L, scope, c) THEN c ELSE IF PiGoesOn(L, scope, c) THEN g[PiGoesTo(L, scope, c)] ELSE None
    BY <2>1, <2>2, PiSelectsStep
  <2> QED BY <2>3 DEF g, v
<1> DEFINE T == {k \in Nat : k <= n => J[k] \in A}
<1>7. T = Nat
  <2>0. \A k \in 0 .. n : DOMAIN J[k] = O /\ J[k] = [c \in O |-> J[k][c]]
    BY <1>3
  <2>1. 0 \in T
    <3> DEFINE g == J[0]
    <3>1. g = [c \in O |-> g[c]] /\ \A c \in O : g[c] = None
      BY <1>0, <1>5, <2>0
    <3> HIDE DEF g
    <3>2. g \in A
      BY <3>1
    <3> QED BY <3>2 DEF g
  <2>2. ASSUME NEW k \in T PROVE k + 1 \in T
    <3> SUFFICES ASSUME k + 1 <= n PROVE J[k + 1] \in A
      OBVIOUS
    <3>1. k \in Nat /\ k + 1 \in 1 .. n /\ k + 1 \in 0 .. n /\ (k + 1) - 1 = k /\ J[k] \in A
      BY <1>0
    <3>2. \A c \in O : PiGoesOn(L, scope, c) => PiGoesTo(L, scope, c) \in O
      BY PiGoes
    <3>3. \A c \in O : J[k + 1][c] \in O \cup {None}
      <4> TAKE c \in O
      <4>1. J[k + 1][c] = IF PiEnds(L, scope, c) THEN c
                          ELSE IF PiGoesOn(L, scope, c) THEN J[k][PiGoesTo(L, scope, c)] ELSE None
        BY <1>6, <3>1
      <4> QED BY <3>1, <3>2, <4>1
    <3>4. J[k + 1] = [c \in O |-> J[k + 1][c]]
      BY <2>0, <3>1
    <3> DEFINE g == J[k + 1]
    <3> HIDE DEF g
    <3>5. g \in A
      BY <3>3, <3>4 DEF g
    <3> QED BY <3>5 DEF g
  <2>3. T \subseteq Nat
    OBVIOUS
  <2> HIDE DEF T
  <2> QED BY <2>1, <2>2, <2>3, AllNumbers
<1>8. \A k \in 0 .. n : J[k] \in A
  <2> TAKE k \in 0 .. n
  <2>1. k \in T /\ k <= n
    BY <1>0, <1>7
  <2> QED BY <2>1
<1>9. PiSelection(L, scope, J)
  BY <1>5, <1>6, <1>8 DEF PiSelection, n
<1> QED BY <1>1, <1>9 DEF n

-----------------------------------------------------------------------------
(* Histories. *)

PiPathIs(L, a, s, M) ==
  /\ M[0] = {None}
  /\ \A k \in 1 .. Cardinality(PiNatives) :
       M[k] = {m \in PiNatives \cup {None} :
                 m = None \/ (Pi!SameEntry(L, a, s, m) /\ Pi!EntryParent(L, s, m) \in M[k - 1])}

LEMMA PiPath ==
  ASSUME Pi!PiConstants, NEW L, NEW a, NEW s
  PROVE  \E M : PiPathIs(L, a, s, M) /\ \A n : Pi!MatchingPath(L, a, s, n) <=> n \in M[Cardinality(PiNatives)]
<1> DEFINE n == Cardinality(PiNatives)
           E == PiNatives \cup {None}
           A == SUBSET E
           next(X) == {m \in E : m = None \/ (Pi!SameEntry(L, a, s, m) /\ Pi!EntryParent(L, s, m) \in X)}
           F == [X \in A |-> next(X)]
           body(k, X) == {m \in E : \/ m = None
                                    \/ k > 0 /\ Pi!SameEntry(L, a, s, m) /\ Pi!EntryParent(L, s, m) \in X}
           J == CHOOSE f : f = [k \in 0 .. n |-> body(k, f[k - 1])]
<1>0. n \in Nat
  BY PiLibrary, FS_CardinalityType DEF Pi!PiConstants
<1>1. \A m : Pi!MatchingPath(L, a, s, m) <=> m \in J[n]
  BY PiLibrary, Zenon DEF Pi!MatchingPath
<1>2. (\A X : body(0, X) = {None}) /\ \A k \in 1 .. n : \A X : body(k, X) = next(X)
  BY <1>0
<1>3. F \in [A -> A] /\ {None} \in A
  <2>1. \A X \in A : next(X) \in A
    OBVIOUS
  <2> HIDE DEF next
  <2> QED BY <2>1
<1> HIDE DEF n
<1>4. PICK f : InRounds(f, A, {None}, F, n)
  <2> DEFINE b == {None}
  <2> HIDE DEF A, F, b
  <2>1. \E f : InRounds(f, A, b, F, n)
    BY <1>0, <1>3, RoundsExist DEF b
  <2> QED BY <2>1 DEF b
<1>5. f \in [0 .. n -> A] /\ f[0] = {None} /\ \A k \in 1 .. n : f[k] = F[f[k - 1]]
  BY <1>4, Zenon DEF InRounds
<1> DEFINE h == [k \in 0 .. n |-> body(k, f[k - 1])]
<1>6. \A k \in 0 .. n : f[k] = h[k]
  <2> TAKE k \in 0 .. n
  <2>0. h[k] = body(k, f[k - 1])
    OBVIOUS
  <2> HIDE DEF h
  <2>1. CASE k = 0
    <3> HIDE DEF body
    <3> QED BY <1>2, <1>5, <2>0, <2>1
  <2>2. CASE k # 0
    <3>1. k \in 1 .. n /\ k - 1 \in 0 .. n
      BY <1>0, <2>2
    <3> DEFINE X == f[k - 1]
    <3>2. X \in A /\ f[k] = F[X]
      BY <1>5, <3>1
    <3> HIDE DEF X, A, next
    <3>3. F[X] = next(X)
      BY <3>2
    <3> HIDE DEF body, F
    <3>4. body(k, X) = next(X)
      BY <1>2, <3>1
    <3> QED BY <2>0, <3>2, <3>3, <3>4 DEF X
  <2> QED BY <2>1, <2>2
<1>7. f = [k \in 0 .. n |-> f[k]]
  BY <1>5
<1>8. h = [k \in 0 .. n |-> h[k]]
  OBVIOUS
<1>9. f = h
  <2> HIDE DEF h
  <2> QED BY <1>6, <1>7, <1>8
<1>10. J = [k \in 0 .. n |-> body(k, J[k - 1])]
  <2> HIDE DEF body
  <2>1. \E g : g = [k \in 0 .. n |-> body(k, g[k - 1])]
    BY <1>9, Zenon
  <2> QED BY <2>1, Zenon
<1> HIDE DEF J
<1>11. \A k \in 0 .. n : J[k] = body(k, J[k - 1])
  <2> HIDE DEF body
  <2> QED BY <1>10, Zenon
<1>12. J[0] = {None} /\ \A k \in 1 .. n : J[k] = next(J[k - 1])
  <2>0. 0 \in 0 .. n /\ \A k \in 1 .. n : k \in 0 .. n
    BY <1>0
  <2> HIDE DEF body, next
  <2> QED BY <1>2, <1>11, <2>0, Zenon
<1>13. PiPathIs(L, a, s, J)
  BY <1>12, Zenon DEF PiPathIs, n
<1> QED BY <1>1, <1>13, Zenon DEF n

PiUpwards(L, s, n) ==
  LET above[k \in 0 .. Cardinality(PiNatives)] ==
        IF k = 0 THEN n
        ELSE LET m == above[k - 1]
             IN IF m = None \/ Pi!Entries(L, s, m) = {} THEN None ELSE Pi!EntryParent(L, s, m)
  IN above
PiUpIs(L, s, n, u) ==
  /\ u = [k \in 0 .. Cardinality(PiNatives) |-> u[k]]
  /\ u[0] = n
  /\ \A k \in 1 .. Cardinality(PiNatives) :
       u[k] = IF u[k - 1] = None \/ Pi!Entries(L, s, u[k - 1]) = {} THEN None ELSE Pi!EntryParent(L, s, u[k - 1])
  /\ \A k \in 0 .. Cardinality(PiNatives) : u[k] \in PiNatives \cup {None}

LEMMA PiUp ==
  ASSUME Pi!PiConstants, NEW L, L.sources \subseteq PiFiles, NEW s, NEW n \in PiNatives
  PROVE  PiUpIs(L, s, n, PiUpwards(L, s, n))
<1> DEFINE N == Cardinality(PiNatives)
           A == PiNatives \cup {None}
           next(m) == IF m = None \/ Pi!Entries(L, s, m) = {} THEN None ELSE Pi!EntryParent(L, s, m)
           F == [m \in A |-> next(m)]
           body(k, m) == IF k = 0 THEN n ELSE next(m)
           J == CHOOSE f : f = [k \in 0 .. N |-> IF k = 0 THEN n ELSE LET m == f[k - 1]
             IN IF m = None \/ Pi!Entries(L, s, m) = {} THEN None ELSE Pi!EntryParent(L, s, m)]
<1>0. N \in Nat
  BY PiLibrary, FS_CardinalityType DEF Pi!PiConstants
<1>1. PiUpwards(L, s, n) = J
  BY Zenon DEF PiUpwards
<1>2. \A m : next(m) \in A
  BY PiEntryParent
<1>3. F \in [A -> A] /\ n \in A
  BY <1>2
<1> HIDE DEF N
<1>4. PICK f : InRounds(f, A, n, F, N)
  <2> HIDE DEF A, F
  <2> QED BY <1>0, <1>3, RoundsExist
<1>5. f \in [0 .. N -> A] /\ f[0] = n /\ \A k \in 1 .. N : f[k] = F[f[k - 1]]
  BY <1>4, Zenon DEF InRounds
<1> DEFINE h == [k \in 0 .. N |-> body(k, f[k - 1])]
<1>6. \A k \in 0 .. N : f[k] = h[k]
  <2> TAKE k \in 0 .. N
  <2>0. h[k] = body(k, f[k - 1])
    OBVIOUS
  <2> HIDE DEF h, next
  <2>1. CASE k = 0
    BY <1>5, <2>0, <2>1
  <2>2. CASE k # 0
    <3>1. k \in 1 .. N /\ k - 1 \in 0 .. N
      BY <1>0, <2>2
    <3>2. f[k - 1] \in A /\ f[k] = F[f[k - 1]]
      BY <1>5, <3>1
    <3>3. F[f[k - 1]] = next(f[k - 1])
      BY <3>2
    <3> HIDE DEF F
    <3> QED BY <2>0, <2>2, <3>2, <3>3
  <2> QED BY <2>1, <2>2
<1>7. f = [k \in 0 .. N |-> f[k]]
  BY <1>5
<1>8. h = [k \in 0 .. N |-> h[k]]
  OBVIOUS
<1>9. f = h
  <2> HIDE DEF h
  <2> QED BY <1>6, <1>7, <1>8
<1>10. J = [k \in 0 .. N |-> body(k, J[k - 1])]
  BY <1>9, Zenon
<1> HIDE DEF J
<1>11. \A k \in 0 .. N : J[k] = body(k, J[k - 1])
  <2> HIDE DEF body
  <2> QED BY <1>10, Zenon
<1>12. J[0] = n /\ \A k \in 1 .. N : J[k] = next(J[k - 1])
  <2>0. 0 \in 0 .. N /\ \A k \in 1 .. N : k \in 0 .. N /\ k # 0
    BY <1>0
  <2> HIDE DEF next
  <2> QED BY <1>11, <2>0
<1>13. \A k \in 0 .. N : J[k] \in A
  <2> TAKE k \in 0 .. N
  <2>1. k = 0 \/ k \in 1 .. N
    BY <1>0
  <2> HIDE DEF next, A
  <2> QED BY <1>2, <1>3, <1>12, <2>1
<1>14. J = [k \in 0 .. N |-> J[k]]
  <2> HIDE DEF body
  <2> QED BY <1>10
<1> QED BY <1>1, <1>12, <1>13, <1>14, Zenon DEF PiUpIs, N

(* Two histories are the same entry by entry. *)
PiMatched(L, a, s, n) ==
  \A k \in 0 .. Cardinality(PiNatives) :
    /\ PiUpwards(L, a, n)[k] = PiUpwards(L, s, n)[k]
    /\ PiUpwards(L, s, n)[k] # None => Pi!SameEntry(L, a, s, PiUpwards(L, s, n)[k])

LEMMA PiPathMatches ==
  ASSUME Pi!PiConstants, NEW L, L.sources \subseteq PiFiles, NEW a, NEW s, NEW n \in PiNatives, Pi!MatchingPath(L, a, s, n)
  PROVE  PiMatched(L, a, s, n)
<1> DEFINE N == Cardinality(PiNatives)
           u == PiUpwards(L, s, n)
           v == PiUpwards(L, a, n)
<1>0. N \in Nat
  BY PiLibrary, FS_CardinalityType DEF Pi!PiConstants
<1> HIDE DEF u, v
<1>1. PiUpIs(L, s, n, u) /\ PiUpIs(L, a, n, v)
  BY PiUp DEF u, v
<1>2. PICK M : PiPathIs(L, a, s, M) /\ n \in M[N]
  BY PiPath
<1> HIDE DEF N
<1>3. /\ u[0] = n /\ v[0] = n
      /\ \A k \in 1 .. N : /\ u[k] = IF u[k - 1] = None \/ Pi!Entries(L, s, u[k - 1]) = {} THEN None ELSE Pi!EntryParent(L, s, u[k - 1])
                           /\ v[k] = IF v[k - 1] = None \/ Pi!Entries(L, a, v[k - 1]) = {} THEN None ELSE Pi!EntryParent(L, a, v[k - 1])
  BY <1>1 DEF PiUpIs, N
<1>4. /\ M[0] = {None}
      /\ \A k \in 1 .. N : \A m : m \in M[k] <=>
           m \in PiNatives \cup {None} /\ (m = None \/ (Pi!SameEntry(L, a, s, m) /\ Pi!EntryParent(L, s, m) \in M[k - 1]))
  BY <1>2 DEF PiPathIs, N
<1>5. \A k \in 0 .. N : None \in M[k]
  <2> TAKE k \in 0 .. N
  <2>1. k = 0 \/ k \in 1 .. N
    BY <1>0
  <2> QED BY <1>4, <2>1
<1> DEFINE T == {k \in Nat : k <= N => u[k] \in M[N - k] /\ v[k] = u[k]}
<1>6. T = Nat
  <2>0. T \subseteq Nat
    OBVIOUS
  <2>1. 0 \in T
    BY <1>0, <1>2, <1>3
  <2>2. ASSUME NEW k \in T PROVE k + 1 \in T
    <3> SUFFICES ASSUME k + 1 <= N PROVE u[k + 1] \in M[N - (k + 1)] /\ v[k + 1] = u[k + 1]
      OBVIOUS
    <3>1. /\ k \in Nat /\ k + 1 \in 1 .. N /\ (k + 1) - 1 = k /\ N - k \in 1 .. N /\ (N - k) - 1 = N - (k + 1)
          /\ N - (k + 1) \in 0 .. N /\ u[k] \in M[N - k] /\ v[k] = u[k]
      BY <1>0
    <3> DEFINE i == k + 1
               j == N - k
    <3>2. /\ u[i] = IF u[k] = None \/ Pi!Entries(L, s, u[k]) = {} THEN None ELSE Pi!EntryParent(L, s, u[k])
          /\ v[i] = IF u[k] = None \/ Pi!Entries(L, a, u[k]) = {} THEN None ELSE Pi!EntryParent(L, a, u[k])
      BY <1>3, <3>1
    <3>3. u[k] = None \/ (Pi!SameEntry(L, a, s, u[k]) /\ Pi!EntryParent(L, s, u[k]) \in M[j - 1])
      BY <1>4, <3>1
    <3>4. CASE u[k] = None
      BY <1>5, <3>1, <3>2, <3>4
    <3>5. CASE u[k] # None
      BY <3>1, <3>2, <3>3, <3>5 DEF Pi!SameEntry
    <3> QED BY <3>4, <3>5
  <2> HIDE DEF T
  <2> QED BY <2>0, <2>1, <2>2, AllNumbers
<1>7. ASSUME NEW k \in 0 .. N PROVE v[k] = u[k] /\ (u[k] # None => Pi!SameEntry(L, a, s, u[k]))
  <2>1. k \in Nat /\ k <= N /\ N - k \in 0 .. N /\ (N - k = 0 \/ N - k \in 1 .. N)
    BY <1>0
  <2>2. u[k] \in M[N - k] /\ v[k] = u[k]
    BY <1>6, <2>1
  <2>3. CASE N - k = 0
    BY <1>4, <2>2, <2>3
  <2>4. CASE N - k \in 1 .. N
    <3> DEFINE j == N - k
    <3> HIDE DEF j
    <3>1. j \in 1 .. N /\ u[k] \in M[j]
      BY <2>2, <2>4 DEF j
    <3> QED BY <1>4, <2>2, <3>1
  <2> QED BY <2>1, <2>3, <2>4
<1> QED BY <1>7 DEF PiMatched, N, u, v

LEMMA PiMatchedOn ==
  ASSUME NEW L, NEW a, NEW b, NEW s, NEW n, PiMatched(L, b, a, n), PiMatched(L, a, s, n)
  PROVE  PiMatched(L, b, s, n)
<1>1. \A m : Pi!SameEntry(L, b, a, m) /\ Pi!SameEntry(L, a, s, m) => Pi!SameEntry(L, b, s, m)
  BY DEF Pi!SameEntry, Pi!Same
<1> DEFINE u == PiUpwards(L, s, n)
           v == PiUpwards(L, a, n)
           w == PiUpwards(L, b, n)
<1>2. \A k \in 0 .. Cardinality(PiNatives) :
        /\ v[k] = u[k] /\ w[k] = v[k]
        /\ u[k] # None => Pi!SameEntry(L, a, s, u[k])
        /\ v[k] # None => Pi!SameEntry(L, b, a, v[k])
  BY DEF PiMatched
<1> HIDE DEF u, v, w
<1>3. \A k \in 0 .. Cardinality(PiNatives) : w[k] = u[k] /\ (u[k] # None => Pi!SameEntry(L, b, s, u[k]))
  BY <1>1, <1>2
<1> QED BY <1>3 DEF PiMatched, u, v, w

-----------------------------------------------------------------------------
(* What an observation stands for. *)
PiStandsFor(L, scope, c, r) ==
  /\ r \in Pi!Observations(L) /\ PiEnds(L, scope, r) /\ ~Pi!Disputed(L, c)
  /\ r.native = c.native /\ Pi!Same(r.use, c.use)
  /\ r.session \in {c.session} \cup PiAncestors(L, c.session)
  /\ r.session = c.session \/ PiMatched(L, r.session, c.session, c.native)

LEMMA PiStandsOn ==
  ASSUME Pi!PiConstants, NEW L, PiRead(L), NEW scope, NEW c \in Pi!Observations(L), PiGoesOn(L, scope, c),
         NEW d, d = PiGoesTo(L, scope, c), NEW r, PiStandsFor(L, scope, d, r)
  PROVE  PiStandsFor(L, scope, c, r)
<1>0. c.session \in PiSessions /\ c.native \in PiNatives /\ L.sources \subseteq PiFiles
  BY PiObserved DEF PiRead
<1>1. /\ d \in Pi!Observations(L) /\ d.native = c.native /\ Pi!Same(d.use, c.use)
      /\ d.session \in {c.session} \cup PiAncestors(L, c.session)
      /\ d.session = c.session \/ Pi!MatchingPath(L, d.session, c.session, c.native)
  BY PiGoes
<1>2. d.session \in PiSessions /\ PiAncestors(L, d.session) \subseteq PiAncestors(L, c.session)
  BY <1>0, <1>1, PiAncestorsOf
<1>3. r.session \in {c.session} \cup PiAncestors(L, c.session)
  BY <1>1, <1>2 DEF PiStandsFor
<1>4. r.native = c.native /\ Pi!Same(r.use, c.use) /\ ~Pi!Disputed(L, c)
  BY <1>1 DEF PiStandsFor, Pi!Same, PiGoesOn
<1>5. d.session = c.session \/ PiMatched(L, d.session, c.session, c.native)
  BY <1>0, <1>1, PiPathMatches
<1>6. r.session = d.session \/ PiMatched(L, r.session, d.session, c.native)
  BY <1>1 DEF PiStandsFor
<1>7. r.session = c.session \/ PiMatched(L, r.session, c.session, c.native)
  BY <1>5, <1>6, PiMatchedOn
<1> QED BY <1>3, <1>4, <1>7 DEF PiStandsFor

LEMMA PiStands ==
  ASSUME Pi!PiConstants, NEW L, PiRead(L), NEW scope, NEW o \in Pi!Observations(L), NEW r, r = Pi!Select(L, scope, o)
  PROVE  /\ r # None => PiStandsFor(L, scope, o, r)
         /\ PiEnds(L, scope, o) => r = o
<1> DEFINE n == Cardinality(PiSessions) + 1
           O == Pi!Observations(L)
<1>0. n \in Nat /\ n \in 1 .. n
  BY PiLibrary, FS_CardinalityType DEF Pi!PiConstants
<1>1. PICK f : PiSelection(L, scope, f) /\ r = f[n][o]
  BY PiSelect
<1> HIDE DEF n
<1>2. /\ \A c \in O : f[0][c] = None
      /\ \A k \in 1 .. n, c \in O :
           f[k][c] = IF PiEnds(L, scope, c) THEN c
                     ELSE IF PiGoesOn(L, scope, c) THEN f[k - 1][PiGoesTo(L, scope, c)] ELSE None
  BY <1>1 DEF PiSelection, n
<1>3. \A c \in O : PiEnds(L, scope, c) => PiStandsFor(L, scope, c, c)
  BY DEF PiStandsFor, PiEnds, Pi!Same
<1> DEFINE T == {k \in Nat : k <= n => \A c \in O : f[k][c] # None => PiStandsFor(L, scope, c, f[k][c])}
<1>4. T = Nat
  <2>1. T \subseteq Nat /\ 0 \in T
    BY <1>2
  <2>2. ASSUME NEW k \in T PROVE k + 1 \in T
    <3> SUFFICES ASSUME k + 1 <= n, NEW c \in O, f[k + 1][c] # None PROVE PiStandsFor(L, scope, c, f[k + 1][c])
      OBVIOUS
    <3>1. /\ k \in Nat /\ k + 1 \in 1 .. n /\ (k + 1) - 1 = k
          /\ \A e \in O : f[k][e] # None => PiStandsFor(L, scope, e, f[k][e])
      BY <1>0
    <3> DEFINE d == PiGoesTo(L, scope, c)
               x == f[k + 1][c]
    <3>2. x = IF PiEnds(L, scope, c) THEN c ELSE IF PiGoesOn(L, scope, c) THEN f[k][d] ELSE None
      BY <1>2, <3>1
    <3>3. CASE PiEnds(L, scope, c)
      BY <1>3, <3>2, <3>3
    <3>4. CASE ~PiEnds(L, scope, c) /\ PiGoesOn(L, scope, c)
      <4>1. d \in O
        BY <3>4, PiGoes
      <4>2. x = f[k][d] /\ x # None
        BY <3>2, <3>4
      <4> HIDE DEF x
      <4>3. PiStandsFor(L, scope, d, x)
        BY <3>1, <4>1, <4>2
      <4>4. PiStandsFor(L, scope, c, x)
        BY <3>4, <4>3, PiStandsOn
      <4> QED BY <4>4 DEF x
    <3> QED BY <3>2, <3>3, <3>4
  <2> HIDE DEF T
  <2> QED BY <2>1, <2>2, AllNumbers
<1>5. r # None => PiStandsFor(L, scope, o, r)
  BY <1>0, <1>1, <1>4
<1>6. PiEnds(L, scope, o) => r = o
  BY <1>0, <1>1, <1>2
<1> QED BY <1>5, <1>6

-----------------------------------------------------------------------------
(* The decisions on some sessions U depend on nothing but what is read of these,
   when the parents of U are in U. *)
PiAlike(L, K, S, T, U) ==
  /\ U \subseteq PiSessions
  /\ \A s \in U : \A n : Pi!Entries(L, s, n) = Pi!Entries(K, s, n)
  /\ \A s \in U : /\ Pi!Conflicting(L, s) <=> Pi!Conflicting(K, s)
                  /\ Pi!MissingParent(L, s) <=> Pi!MissingParent(K, s)
                  /\ Pi!Parent(L, s) = Pi!Parent(K, s) /\ Pi!Parent(L, s) \in U \cup {None}
                  /\ s \in S <=> s \in T

LEMMA PiAlikeEntries ==
  ASSUME NEW L, NEW K, NEW S, NEW T, NEW U, PiAlike(L, K, S, T, U), NEW s \in U
  PROVE  \A n : /\ Pi!UsesOf(L, s, n) = Pi!UsesOf(K, s, n) /\ Pi!EntryParent(L, s, n) = Pi!EntryParent(K, s, n)
                /\ Pi!ConflictingEntry(L, s, n) <=> Pi!ConflictingEntry(K, s, n)
                /\ Pi!Representative(L, s, n) = Pi!Representative(K, s, n) /\ Pi!Named(L, s, n) = Pi!Named(K, s, n)
                /\ Pi!Candidates(L, S, s, n) = Pi!Candidates(K, T, s, n)
<1> TAKE n
<1>1. Pi!Entries(L, s, n) = Pi!Entries(K, s, n) /\ (s \in S <=> s \in T)
  BY DEF PiAlike
<1>2. Pi!UsesOf(L, s, n) = Pi!UsesOf(K, s, n)
  BY <1>1 DEF Pi!UsesOf
<1>3. Pi!EntryParent(L, s, n) = Pi!EntryParent(K, s, n)
  BY <1>1, Zenon DEF Pi!EntryParent, Pi!ParentsOf
<1>4. Pi!Representative(L, s, n) = Pi!Representative(K, s, n)
  BY <1>2, Zenon DEF Pi!Representative
<1>5. Pi!ConflictingEntry(L, s, n) <=> Pi!ConflictingEntry(K, s, n)
  BY <1>2 DEF Pi!ConflictingEntry
<1>6. Pi!Named(L, s, n) = Pi!Named(K, s, n)
  BY <1>4 DEF Pi!Named
<1>7. Pi!Candidates(L, S, s, n) = Pi!Candidates(K, T, s, n)
  BY <1>1, <1>2 DEF Pi!Candidates
<1> QED BY <1>2, <1>3, <1>4, <1>5, <1>6, <1>7

LEMMA PiAlikeLines ==
  ASSUME Pi!PiConstants, NEW L, PiRead(L), NEW K, PiRead(K), NEW S, NEW T, NEW U, PiAlike(L, K, S, T, U), NEW s \in U
  PROVE  Pi!Lineage(L, s) = Pi!Lineage(K, s) /\ \A k \in 0 .. Cardinality(PiSessions) : Pi!Lineage(L, s)[k] \in U \cup {None}
<1> DEFINE n == Cardinality(PiSessions)
           u == Pi!Lineage(L, s)
           v == Pi!Lineage(K, s)
<1>0. n \in Nat /\ s \in PiSessions
  BY PiLibrary, FS_CardinalityType DEF Pi!PiConstants, PiAlike
<1>1. PiLine(L, s, u) /\ PiLine(K, s, v)
  BY <1>0, PiLineage
<1> HIDE DEF u, v, n
<1>2. /\ u \in [0 .. n -> PiSessions \cup {None}] /\ v \in [0 .. n -> PiSessions \cup {None}] /\ u[0] = s /\ v[0] = s
      /\ \A k \in 1 .. n : /\ u[k] = IF u[k - 1] = None THEN None ELSE Pi!Parent(L, u[k - 1])
                           /\ v[k] = IF v[k - 1] = None THEN None ELSE Pi!Parent(K, v[k - 1])
  BY <1>1 DEF PiLine, n
<1>3. \A p \in U : Pi!Parent(L, p) = Pi!Parent(K, p) /\ Pi!Parent(L, p) \in U \cup {None}
  BY DEF PiAlike
<1> DEFINE I == {k \in Nat : k <= n => u[k] = v[k] /\ u[k] \in U \cup {None}}
<1>4. I = Nat
  <2>1. I \subseteq Nat /\ 0 \in I
    BY <1>2
  <2>2. ASSUME NEW k \in I PROVE k + 1 \in I
    <3> SUFFICES ASSUME k + 1 <= n PROVE u[k + 1] = v[k + 1] /\ u[k + 1] \in U \cup {None}
      OBVIOUS
    <3>1. k \in Nat /\ k + 1 \in 1 .. n /\ (k + 1) - 1 = k /\ u[k] = v[k] /\ u[k] \in U \cup {None}
      BY <1>0
    <3> QED BY <1>2, <1>3, <3>1
  <2> HIDE DEF I
  <2> QED BY <2>1, <2>2, AllNumbers
<1>5. \A k \in 0 .. n : u[k] = v[k] /\ u[k] \in U \cup {None}
  <2> TAKE k \in 0 .. n
  <2>1. k \in I /\ k <= n
    BY <1>0, <1>4
  <2> QED BY <2>1
<1>6. u = [k \in 0 .. n |-> u[k]] /\ v = [k \in 0 .. n |-> v[k]]
  BY <1>2
<1>7. u = v
  BY <1>5, <1>6
<1> QED BY <1>5, <1>7 DEF u, v, n

LEMMA PiAlikeStops ==
  ASSUME Pi!PiConstants, NEW L, PiRead(L), NEW K, PiRead(K), NEW S, NEW T, NEW U, PiAlike(L, K, S, T, U), NEW s \in U, NEW n
  PROVE  Pi!StopsAt(L, S, Pi!Lineage(L, s), n) = Pi!StopsAt(K, T, Pi!Lineage(K, s), n)
<1> DEFINE N == Cardinality(PiSessions)
           line == Pi!Lineage(L, s)
           i == Pi!StopsAt(L, S, line, n)
           j == Pi!StopsAt(K, T, line, n)
<1>0. N \in Nat /\ s \in PiSessions
  BY PiLibrary, FS_CardinalityType DEF Pi!PiConstants, PiAlike
<1>1. Pi!Lineage(K, s) = line /\ \A k \in 0 .. N : line[k] \in U \cup {None}
  BY PiAlikeLines
<1>2. i \in 1 .. N /\ Pi!Stops(L, S, line, n, i) /\ \A k \in 1 .. i - 1 : ~Pi!Stops(L, S, line, n, k)
  BY <1>0, PiStopsAt
<1>3. j \in 1 .. N /\ Pi!Stops(K, T, line, n, j) /\ \A k \in 1 .. j - 1 : ~Pi!Stops(K, T, line, n, k)
  BY <1>0, <1>1, PiStopsAt
<1> HIDE DEF line, i, j
<1>4. ASSUME NEW k \in 1 .. N PROVE Pi!Stops(L, S, line, n, k) <=> Pi!Stops(K, T, line, n, k)
  <2>1. CASE line[k] = None
    BY <2>1 DEF Pi!Stops
  <2>2. CASE line[k] \in U
    <3>1. Pi!Candidates(L, S, line[k], n) = Pi!Candidates(K, T, line[k], n)
      BY <2>2, PiAlikeEntries
    <3>2. Pi!MissingParent(L, line[k]) <=> Pi!MissingParent(K, line[k])
      BY <2>2 DEF PiAlike
    <3> QED BY <3>1, <3>2 DEF Pi!Stops
  <2>3. k \in 0 .. N
    BY <1>0
  <2> QED BY <1>1, <2>1, <2>2, <2>3
<1>5. ~(i < j) /\ ~(j < i)
  <2>1. ASSUME i < j PROVE FALSE
    <3>1. i \in 1 .. j - 1
      BY <1>0, <1>2, <1>3, <2>1
    <3> QED BY <1>2, <1>3, <1>4, <3>1
  <2>2. ASSUME j < i PROVE FALSE
    <3>1. j \in 1 .. i - 1
      BY <1>0, <1>2, <1>3, <2>2
    <3> QED BY <1>2, <1>3, <1>4, <3>1
  <2> QED BY <2>1, <2>2
<1>6. i = j
  BY <1>0, <1>2, <1>3, <1>5
<1> QED BY <1>1, <1>6 DEF i, j, line

LEMMA PiAlikePaths ==
  ASSUME Pi!PiConstants, NEW L, NEW K, NEW S, NEW T, NEW U, PiAlike(L, K, S, T, U), NEW a \in U, NEW s \in U, NEW n
  PROVE  Pi!MatchingPath(L, a, s, n) <=> Pi!MatchingPath(K, a, s, n)
<1> DEFINE N == Cardinality(PiNatives)
<1>0. N \in Nat
  BY PiLibrary, FS_CardinalityType DEF Pi!PiConstants
<1>1. PICK M : PiPathIs(L, a, s, M) /\ (Pi!MatchingPath(L, a, s, n) <=> n \in M[N])
  BY PiPath
<1>2. PICK P : PiPathIs(K, a, s, P) /\ (Pi!MatchingPath(K, a, s, n) <=> n \in P[N])
  BY PiPath
<1> HIDE DEF N
<1>3. \A m : Pi!EntryParent(L, s, m) = Pi!EntryParent(K, s, m) /\ (Pi!SameEntry(L, a, s, m) <=> Pi!SameEntry(K, a, s, m))
  <2> TAKE m
  <2>1. /\ Pi!UsesOf(L, s, m) = Pi!UsesOf(K, s, m) /\ Pi!EntryParent(L, s, m) = Pi!EntryParent(K, s, m)
        /\ Pi!ConflictingEntry(L, s, m) <=> Pi!ConflictingEntry(K, s, m)
        /\ Pi!Representative(L, s, m) = Pi!Representative(K, s, m)
    BY PiAlikeEntries
  <2>2. /\ Pi!UsesOf(L, a, m) = Pi!UsesOf(K, a, m) /\ Pi!EntryParent(L, a, m) = Pi!EntryParent(K, a, m)
        /\ Pi!ConflictingEntry(L, a, m) <=> Pi!ConflictingEntry(K, a, m)
        /\ Pi!Representative(L, a, m) = Pi!Representative(K, a, m)
    BY PiAlikeEntries
  <2>3. Pi!Entries(L, s, m) = Pi!Entries(K, s, m) /\ Pi!Entries(L, a, m) = Pi!Entries(K, a, m)
    BY DEF PiAlike
  <2> QED BY <2>1, <2>2, <2>3 DEF Pi!SameEntry
<1> DEFINE I == {k \in Nat : k <= N => M[k] = P[k]}
<1>4. I = Nat
  <2>1. I \subseteq Nat /\ 0 \in I
    BY <1>1, <1>2 DEF PiPathIs
  <2>2. ASSUME NEW k \in I PROVE k + 1 \in I
    <3> SUFFICES ASSUME k + 1 <= N PROVE M[k + 1] = P[k + 1]
      OBVIOUS
    <3>1. k \in Nat /\ k + 1 \in 1 .. N /\ (k + 1) - 1 = k /\ M[k] = P[k]
      BY <1>0
    <3>2. /\ M[k + 1] = {m \in PiNatives \cup {None} : m = None \/ (Pi!SameEntry(L, a, s, m) /\ Pi!EntryParent(L, s, m) \in M[k])}
          /\ P[k + 1] = {m \in PiNatives \cup {None} : m = None \/ (Pi!SameEntry(K, a, s, m) /\ Pi!EntryParent(K, s, m) \in P[k])}
      BY <1>1, <1>2, <3>1 DEF PiPathIs, N
    <3> QED BY <1>3, <3>1, <3>2
  <2> HIDE DEF I
  <2> QED BY <2>1, <2>2, AllNumbers
<1>5. M[N] = P[N]
  BY <1>0, <1>4
<1> QED BY <1>1, <1>2, <1>5

LEMMA PiAlikeStep ==
  ASSUME Pi!PiConstants, NEW L, PiRead(L), NEW K, PiRead(K), NEW S, NEW T, NEW U, PiAlike(L, K, S, T, U),
         NEW c \in Pi!Observations(L), c.session \in U
  PROVE  /\ c \in Pi!Observations(K)
         /\ PiEnds(L, S, c) <=> PiEnds(K, T, c)
         /\ PiGoesOn(L, S, c) <=> PiGoesOn(K, T, c)
         /\ PiGoesOn(L, S, c) => /\ PiGoesTo(L, S, c) = PiGoesTo(K, T, c) /\ PiGoesTo(L, S, c).session \in U
                                 /\ PiGoesTo(L, S, c) \in Pi!Observations(L)
<1> DEFINE N == Cardinality(PiSessions)
           s == c.session
           n == c.native
           line == Pi!Lineage(L, s)
           k == PiStop(L, S, c)
           a == PiFound(L, S, c)
<1>0. s \in U /\ s \in PiSessions /\ n \in PiNatives /\ c.use \in Pi!UsesOf(L, s, n) /\ c = [session |-> s, native |-> n, use |-> c.use]
  BY PiObserved DEF PiRead
<1>1. /\ \A m : Pi!UsesOf(L, s, m) = Pi!UsesOf(K, s, m) /\ Pi!Named(L, s, m) = Pi!Named(K, s, m)
      /\ Pi!ConflictingEntry(L, s, n) <=> Pi!ConflictingEntry(K, s, n)
  BY <1>0, PiAlikeEntries
<1>2. c \in Pi!Observations(K)
  BY <1>0, <1>1, PiObservations
<1>3. Pi!Disputed(L, c) <=> Pi!Disputed(K, c)
  <2>1. (Pi!Conflicting(L, s) <=> Pi!Conflicting(K, s)) /\ (Pi!MissingParent(L, s) <=> Pi!MissingParent(K, s))
    BY DEF PiAlike
  <2> QED BY <1>1, <2>1 DEF Pi!Disputed
<1>4. Pi!Lineage(K, s) = line /\ \A i \in 0 .. N : line[i] \in U \cup {None}
  BY PiAlikeLines
<1>5. PiStop(K, T, c) = k
  BY PiAlikeStops DEF PiStop
<1>6. PiFound(K, T, c) = a
  BY <1>4, <1>5 DEF PiFound
<1>7. k \in 1 .. N /\ N \in Nat
  BY PiLibrary, <1>0, PiStopsAt, FS_CardinalityType DEF PiStop, Pi!PiConstants
<1>8. a = line[k] /\ a \in U \cup {None}
  <2>1. k \in 0 .. N
    BY <1>7
  <2> QED BY <1>4, <2>1 DEF PiFound
<1> HIDE DEF line, a, k, N
<1>9. a # None => (Pi!CopiedFrom(L, S, line, k, c) <=> Pi!CopiedFrom(K, T, line, k, c)) /\ Pi!Named(L, a, n) = Pi!Named(K, a, n)
  <2> HAVE a # None
  <2>1. a \in U
    BY <1>8
  <2>2. /\ Pi!Candidates(L, S, a, n) = Pi!Candidates(K, T, a, n) /\ Pi!Representative(L, a, n) = Pi!Representative(K, a, n)
        /\ Pi!Named(L, a, n) = Pi!Named(K, a, n)
    BY <2>1, PiAlikeEntries
  <2>3. Pi!MatchingPath(L, a, s, n) <=> Pi!MatchingPath(K, a, s, n)
    BY <1>0, <2>1, PiAlikePaths
  <2> QED BY <1>8, <2>2, <2>3 DEF Pi!CopiedFrom
<1>10. PiEnds(L, S, c) <=> PiEnds(K, T, c)
  BY <1>1, <1>3, <1>6 DEF PiEnds, a
<1>11. PiGoesOn(L, S, c) <=> PiGoesOn(K, T, c)
  <2>1. PiGoesOn(L, S, c) <=> ~Pi!Disputed(L, c) /\ (c = Pi!Named(L, s, n) => a # None /\ Pi!CopiedFrom(L, S, line, k, c))
    BY DEF PiGoesOn, a, line, k
  <2>2. PiGoesOn(K, T, c) <=> ~Pi!Disputed(K, c) /\ (c = Pi!Named(K, s, n) => a # None /\ Pi!CopiedFrom(K, T, line, k, c))
    BY <1>4, <1>5, <1>6 DEF PiGoesOn
  <2> QED BY <1>1, <1>3, <1>9, <2>1, <2>2
<1>12. ASSUME PiGoesOn(L, S, c)
       PROVE  /\ PiGoesTo(L, S, c) = PiGoesTo(K, T, c) /\ PiGoesTo(L, S, c).session \in U
              /\ PiGoesTo(L, S, c) \in Pi!Observations(L)
  <2> DEFINE d == PiGoesTo(L, S, c)
  <2>1. d \in Pi!Observations(L)
    BY <1>12, PiGoes
  <2>2. d = (IF c # Pi!Named(L, s, n) THEN Pi!Named(L, s, n) ELSE Pi!Named(L, a, n))
    BY DEF PiGoesTo, a
  <2>3. PiGoesTo(K, T, c) = (IF c # Pi!Named(K, s, n) THEN Pi!Named(K, s, n) ELSE Pi!Named(K, a, n))
    BY <1>6 DEF PiGoesTo
  <2>4. c = Pi!Named(L, s, n) => a # None
    BY <1>12 DEF PiGoesOn, a
  <2>5. d = PiGoesTo(K, T, c)
    BY <1>1, <1>9, <2>2, <2>3, <2>4
  <2>6. Pi!Named(L, s, n).session = s /\ Pi!Named(L, a, n).session = a
    BY DEF Pi!Named
  <2>7. d.session \in U
    BY <1>0, <1>8, <2>2, <2>4, <2>6
  <2> QED BY <2>1, <2>5, <2>7
<1> QED BY <1>2, <1>10, <1>11, <1>12

LEMMA PiAlikeSelect ==
  ASSUME Pi!PiConstants, NEW L, PiRead(L), NEW K, PiRead(K), NEW S, NEW T, NEW U, PiAlike(L, K, S, T, U),
         NEW o \in Pi!Observations(L), o.session \in U
  PROVE  o \in Pi!Observations(K) /\ Pi!Select(L, S, o) = Pi!Select(K, T, o)
<1> DEFINE n == Cardinality(PiSessions) + 1
           O == {c \in Pi!Observations(L) : c.session \in U}
<1>0. n \in Nat
  BY PiLibrary, FS_CardinalityType DEF Pi!PiConstants
<1>1. PICK f : PiSelection(L, S, f) /\ Pi!Select(L, S, o) = f[n][o]
  BY PiSelect
<1>2. PICK g : PiSelection(K, T, g) /\ Pi!Select(K, T, o) = g[n][o]
  BY PiSelect
<1>3. \A c \in O : /\ c \in Pi!Observations(K)
                   /\ PiEnds(L, S, c) <=> PiEnds(K, T, c)
                   /\ PiGoesOn(L, S, c) <=> PiGoesOn(K, T, c)
                   /\ PiGoesOn(L, S, c) => PiGoesTo(L, S, c) = PiGoesTo(K, T, c) /\ PiGoesTo(L, S, c) \in O
  <2> TAKE c \in O
  <2>1. c \in Pi!Observations(L) /\ c.session \in U
    OBVIOUS
  <2> QED BY <2>1, PiAlikeStep
<1> HIDE DEF n
<1>4. /\ \A c \in O : f[0][c] = None /\ g[0][c] = None
      /\ \A k \in 1 .. n, c \in O :
           /\ f[k][c] = IF PiEnds(L, S, c) THEN c
                        ELSE IF PiGoesOn(L, S, c) THEN f[k - 1][PiGoesTo(L, S, c)] ELSE None
           /\ g[k][c] = IF PiEnds(K, T, c) THEN c
                        ELSE IF PiGoesOn(K, T, c) THEN g[k - 1][PiGoesTo(K, T, c)] ELSE None
  <2>1. O \subseteq Pi!Observations(L) /\ O \subseteq Pi!Observations(K)
    BY <1>3
  <2> HIDE DEF O
  <2> QED BY <1>1, <1>2, <2>1 DEF PiSelection, n
<1>5. o \in O
  OBVIOUS
<1> HIDE DEF O
<1> DEFINE I == {k \in Nat : k <= n => \A c \in O : f[k][c] = g[k][c]}
<1>6. I = Nat
  <2>1. I \subseteq Nat /\ 0 \in I
    BY <1>4
  <2>2. ASSUME NEW k \in I PROVE k + 1 \in I
    <3> SUFFICES ASSUME k + 1 <= n, NEW c \in O PROVE f[k + 1][c] = g[k + 1][c]
      OBVIOUS
    <3>1. k \in Nat /\ k + 1 \in 1 .. n /\ (k + 1) - 1 = k /\ \A d \in O : f[k][d] = g[k][d]
      BY <1>0
    <3>2. /\ f[k + 1][c] = IF PiEnds(L, S, c) THEN c
                           ELSE IF PiGoesOn(L, S, c) THEN f[k][PiGoesTo(L, S, c)] ELSE None
          /\ g[k + 1][c] = IF PiEnds(K, T, c) THEN c
                           ELSE IF PiGoesOn(K, T, c) THEN g[k][PiGoesTo(K, T, c)] ELSE None
      BY <1>4, <3>1
    <3> QED BY <1>3, <3>1, <3>2
  <2> HIDE DEF I
  <2> QED BY <2>1, <2>2, AllNumbers
<1>7. f[n][o] = g[n][o]
  BY <1>0, <1>5, <1>6
<1> QED BY <1>1, <1>2, <1>3, <1>5, <1>7

-----------------------------------------------------------------------------
(* Whatever is connected to a changed file is decided again. *)
PiClosed(L, changed, R) ==
  /\ changed \subseteq R /\ R \subseteq PiSessions \cup PiLocators
  /\ \A g \in L.sources : g.locator \in R <=> g.session \in R
  /\ \A s \in Pi!KnownSessions(L) : L.header[s].parent # None => (s \in R <=> L.header[s].parent \in R)
  /\ Pi!Affected(L, changed) = R \cap Pi!KnownSessions(L)

LEMMA PiReaches ==
  ASSUME Pi!PiConstants, NEW L, PiRead(L), NEW changed, changed \subseteq PiLocators
  PROVE  \E R : PiClosed(L, changed, R)
<1> DEFINE C == PiSessions \cup PiLocators
           n == Cardinality(C)
           A == SUBSET C
           next(X) == X \cup Pi!Neighbours(L, X)
           F == [X \in A |-> next(X)]
           J == CHOOSE f : f = [k \in 0 .. n |->
                  IF k = 0 THEN changed ELSE LET near == f[k - 1] IN near \cup Pi!Neighbours(L, near)]
<1>0. IsFiniteSet(C) /\ n \in Nat
  <2>1. IsFiniteSet(C)
    BY PiLibrary, FS_Union DEF Pi!PiConstants
  <2> QED BY <2>1, FS_CardinalityType
<1>1. Pi!Affected(L, changed) = J[n] \cap Pi!KnownSessions(L)
  BY PiLibrary, Zenon DEF Pi!Affected
<1>2. \A X \in A : Pi!Neighbours(L, X) \subseteq C
  <2> TAKE X \in A
  <2>1. \A g \in L.sources : g.locator \in C /\ g.session \in C
    BY PiGenerations DEF PiRead
  <2>2. \A s \in Pi!KnownSessions(L) : s \in C /\ L.header[s].parent \in PiLocators \cup {None}
    BY DEF Pi!KnownSessions, PiRead, Pi!Headers
  <2> QED BY <2>1, <2>2 DEF Pi!Neighbours
<1>3. \A X \in A : next(X) \in A
  BY <1>2
<1>4. changed \in A
  OBVIOUS
<1> HIDE DEF n, C
<1>5. F \in [A -> A] /\ \A X \in A : F[X] = next(X)
  <2> HIDE DEF next, A
  <2> QED BY <1>3
<1>6. PICK f : InRounds(f, A, changed, F, n)
  <2> HIDE DEF A, F
  <2> QED BY <1>0, <1>4, <1>5, RoundsExist
<1>7. f \in [0 .. n -> A] /\ f[0] = changed /\ \A k \in 1 .. n : f[k] = F[f[k - 1]]
  BY <1>6, Zenon DEF InRounds
<1> HIDE DEF next, F, A
<1> DEFINE body(k, X) == IF k = 0 THEN changed ELSE next(X)
           h == [k \in 0 .. n |-> body(k, f[k - 1])]
<1>8. \A k \in 0 .. n : f[k] = h[k]
  <2> TAKE k \in 0 .. n
  <2>0. h[k] = body(k, f[k - 1])
    OBVIOUS
  <2> HIDE DEF h
  <2>1. CASE k = 0
    BY <1>7, <2>0, <2>1
  <2>2. CASE k # 0
    <3>1. k \in 1 .. n /\ k - 1 \in 0 .. n
      BY <1>0, <2>2
    <3>2. f[k - 1] \in A /\ f[k] = F[f[k - 1]]
      BY <1>7, <3>1
    <3> QED BY <1>5, <2>0, <2>2, <3>2
  <2> QED BY <2>1, <2>2
<1>9. f = [k \in 0 .. n |-> f[k]]
  BY <1>7
<1>10. h = [k \in 0 .. n |-> h[k]]
  OBVIOUS
<1>11. f = h
  <2> HIDE DEF h
  <2> QED BY <1>8, <1>9, <1>10
<1>12. J = [k \in 0 .. n |-> body(k, J[k - 1])]
  BY <1>11, Zenon DEF next
<1> HIDE DEF J
<1>13. \A k \in 0 .. n : J[k] = body(k, J[k - 1])
  <2> HIDE DEF body
  <2> QED BY <1>12, Zenon
<1>14. J[0] = changed /\ \A k \in 1 .. n : J[k] = next(J[k - 1])
  <2>1. 0 \in 0 .. n /\ \A k \in 1 .. n : k \in 0 .. n /\ k # 0
    BY <1>0
  <2> QED BY <1>13, <2>1
<1> DEFINE G == [X \in A |-> next(X)]
           T == {k \in Nat : k <= n => J[k] \in A}
<1>15. T = Nat
  <2>1. T \subseteq Nat /\ 0 \in T
    BY <1>4, <1>14
  <2>2. ASSUME NEW k \in T PROVE k + 1 \in T
    <3> SUFFICES ASSUME k + 1 <= n PROVE J[k + 1] \in A
      OBVIOUS
    <3>1. k \in Nat /\ k + 1 \in 1 .. n /\ (k + 1) - 1 = k /\ J[k] \in A
      BY <1>0
    <3> QED BY <1>3, <1>14, <3>1
  <2> HIDE DEF T
  <2> QED BY <2>1, <2>2, AllNumbers
<1>16. \A k \in 1 .. n : J[k] = G[J[k - 1]]
  <2> TAKE k \in 1 .. n
  <2>1. k - 1 \in T /\ k - 1 <= n
    BY <1>0, <1>15
  <2>2. J[k - 1] \in A
    BY <2>1
  <2> QED BY <1>14, <2>2
<1>17. \A X \in SUBSET C : X \subseteq G[X] /\ G[X] \subseteq C
  <2> TAKE X \in SUBSET C
  <2>1. G[X] = next(X) /\ next(X) \in A
    BY <1>3 DEF A
  <2> HIDE DEF G
  <2> QED BY <2>1 DEF next, A
<1> HIDE DEF G
<1>18. J[0] \subseteq J[n] /\ J[n] \subseteq C /\ G[J[n]] = J[n]
  <2>1. J[0] \subseteq C
    BY <1>4, <1>14 DEF A
  <2> QED BY <1>0, <1>16, <1>17, <2>1, GrowsInRounds DEF n
<1> DEFINE R == J[n]
<1>19. Pi!Neighbours(L, R) \subseteq R
  <2>1. R \in A
    BY <1>18 DEF A
  <2>2. G[R] = next(R)
    BY <2>1 DEF G
  <2> QED BY <1>18, <2>2 DEF next
<1>20. changed \subseteq R /\ R \subseteq C
  BY <1>14, <1>18
<1>21. Pi!Affected(L, changed) = R \cap Pi!KnownSessions(L)
  BY <1>1
<1> HIDE DEF R
<1>22. \A g \in L.sources : g.locator \in R <=> g.session \in R
  BY <1>19 DEF Pi!Neighbours
<1>23. \A s \in Pi!KnownSessions(L) : L.header[s].parent # None => (s \in R <=> L.header[s].parent \in R)
  <2> TAKE s \in Pi!KnownSessions(L)
  <2> HAVE L.header[s].parent # None
  <2>1. L.header[s].parent \in R => s \in R
    BY <1>19 DEF Pi!Neighbours
  <2>2. ASSUME s \in R PROVE L.header[s].parent \in R
    <3> DEFINE P == {L.header[p].parent : p \in Pi!KnownSessions(L) \cap R} \ {None}
    <3>1. P \subseteq R
      BY <1>19 DEF Pi!Neighbours
    <3>2. L.header[s].parent \in P
      BY <2>2
    <3> QED BY <3>1, <3>2
  <2> QED BY <2>1, <2>2
<1> QED BY <1>20, <1>21, <1>22, <1>23 DEF PiClosed, C

(* What an import inserts. *)
PiInserts(K, L, B) ==
  /\ L.sources = K.sources \cup B
  /\ L.header \in [PiSessions -> Pi!Headers \cup {None}]
  /\ \A s \in PiSessions :
       \/ L.header[s] = K.header[s] /\ (L.header[s] = None => \A g \in B : g.session # s)
       \/ K.header[s] = None /\ \E g \in B : g.session = s /\ L.header[s] = g.header
  /\ \A s : s \in L.conflicted <=> s \in K.conflicted \/ \E g \in B : g.session = s /\ g.header # L.header[s]
  /\ L \in [sources : SUBSET (K.sources \cup B), header : [PiSessions -> Pi!Headers \cup {None}], conflicted : SUBSET PiSessions]

LEMMA PiInserted ==
  ASSUME Pi!PiConstants, NEW K, PiRead(K), NEW m \in Nat, NEW b \in [1 .. m -> PiFiles], NEW L, L = Pi!Inserted(K, b)
  PROVE  PiInserts(K, L, {b[i] : i \in 1 .. m})
<1> DEFINE B == {b[i] : i \in 1 .. m}
           header == [s \in PiSessions |-> Pi!FirstHeader(K, b, s)]
           contra == {b[i].session : i \in {j \in DOMAIN b : b[j].header # header[b[j].session]}}
<1>0. /\ \A i \in 1 .. m : b[i] \in PiFiles /\ b[i].session \in PiSessions /\ b[i].header \in Pi!Headers
      /\ DOMAIN b = 1 .. m
  <2>1. B \subseteq PiFiles
    OBVIOUS
  <2> DEFINE M == [sources |-> B]
  <2>2. M.sources = B
    OBVIOUS
  <2> HIDE DEF M, B
  <2>3. \A g \in B : g.session \in PiSessions /\ g.header \in Pi!Headers
    BY <2>1, <2>2, PiGenerations
  <2> QED BY <2>3 DEF B
<1>1. L.sources = K.sources \cup B /\ L.header = header /\ L.conflicted = K.conflicted \cup contra
  BY <1>0 DEF Pi!Inserted
<1>2. ASSUME NEW s \in PiSessions
      PROVE  /\ header[s] \in Pi!Headers \cup {None}
             /\ \/ header[s] = K.header[s] /\ (header[s] = None => \A g \in B : g.session # s)
                \/ K.header[s] = None /\ \E g \in B : g.session = s /\ header[s] = g.header
  <2>0. header[s] = Pi!FirstHeader(K, b, s) /\ K.header[s] \in Pi!Headers \cup {None}
    BY DEF PiRead
  <2> HIDE DEF header
  <2>1. CASE K.header[s] # None \/ \A i \in DOMAIN b : b[i].session # s
    <3>1. header[s] = K.header[s]
      BY <2>0, <2>1 DEF Pi!FirstHeader
    <3> QED BY <1>0, <2>0, <2>1, <3>1
  <2>2. CASE ~(K.header[s] # None \/ \A i \in DOMAIN b : b[i].session # s)
    <3> DEFINE P(i) == b[i].session = s /\ \A j \in 1 .. i - 1 : b[j].session # s
               T == {i \in 1 .. m : b[i].session = s}
    <3>1. T \subseteq Nat /\ T # {}
      BY <1>0, <2>2
    <3>2. PICK i \in T : \A j \in T : i <= j
      <4> HIDE DEF T
      <4> QED BY <3>1, LeastNumber
    <3>3. i \in DOMAIN b /\ P(i)
      <4>1. \A j \in 1 .. i - 1 : j \in 1 .. m /\ ~(i <= j)
        BY <3>2
      <4> QED BY <1>0, <3>2, <4>1
    <3>4. header[s] = b[CHOOSE x \in DOMAIN b : P(x)].header
      BY <2>0, <2>2 DEF Pi!FirstHeader
    <3> DEFINE k == CHOOSE x \in DOMAIN b : P(x)
    <3>5. k \in DOMAIN b /\ P(k)
      <4> HIDE DEF P
      <4> QED BY <3>3
    <3> HIDE DEF k
    <3>6. b[k] \in B /\ b[k].session = s /\ b[k].header \in Pi!Headers
      BY <1>0, <3>5
    <3>7. header[s] = b[k].header
      BY <3>4 DEF k
    <3> QED BY <2>2, <3>6, <3>7
  <2> QED BY <2>1, <2>2
<1>3. header \in [PiSessions -> Pi!Headers \cup {None}]
  BY <1>2
<1>4. \A s : s \in contra <=> \E g \in B : g.session = s /\ g.header # header[s]
  <2> HIDE DEF header
  <2> QED BY <1>0
<1>5. contra \subseteq PiSessions
  <2> HIDE DEF header
  <2> QED BY <1>0
<1>6. L = [sources |-> L.sources, header |-> L.header, conflicted |-> L.conflicted]
  BY DEF Pi!Inserted
<1> HIDE DEF header, contra, B
<1>7. L.conflicted \subseteq PiSessions
  BY <1>1, <1>5 DEF PiRead, Pi!KnownSessions
<1>8. L \in [sources : SUBSET (K.sources \cup B), header : [PiSessions -> Pi!Headers \cup {None}], conflicted : SUBSET PiSessions]
  BY <1>1, <1>3, <1>6, <1>7
<1> QED BY <1>1, <1>2, <1>3, <1>4, <1>8 DEF PiInserts, B

LEMMA PiInsertedRead ==
  ASSUME Pi!PiConstants, NEW K, PiRead(K), NEW B, B \subseteq PiFiles, NEW L, PiInserts(K, L, B)
  PROVE  PiRead(L)
<1>0. L.sources \subseteq PiFiles /\ L.sources = K.sources \cup B
  BY DEF PiRead, PiInserts
<1>1. \A g \in L.sources : g.session \in PiSessions /\ g.header \in Pi!Headers /\ g.header # None
  BY <1>0, PiGenerations DEF Pi!PiConstants
<1>2. \A s \in PiSessions : K.header[s] # None => L.header[s] = K.header[s]
  BY DEF PiInserts
<1>3. PiHeaders(L)
  <2>1. ASSUME NEW s \in PiSessions, NEW g \in L.sources, g.session = s PROVE L.header[s] # None
    <3>1. CASE g \in K.sources
      BY <1>2, <2>1, <3>1 DEF PiRead, PiHeaders
    <3>2. CASE g \in B
      BY <1>1, <1>0, <2>1, <3>2 DEF PiInserts
    <3> QED BY <1>0, <3>1, <3>2
  <2>2. ASSUME NEW s \in PiSessions, L.header[s] # None PROVE \E g \in L.sources : g.session = s
    <3>1. CASE K.header[s] # None
      BY <1>0, <3>1 DEF PiRead, PiHeaders
    <3>2. CASE K.header[s] = None
      BY <1>0, <2>2, <3>2 DEF PiInserts
    <3> QED BY <3>1, <3>2
  <2> QED BY <2>1, <2>2 DEF PiHeaders
<1>4. PiHeaded(L)
  <2> SUFFICES ASSUME NEW g \in L.sources PROVE g.session \in L.conflicted \/ g.header = L.header[g.session]
    BY DEF PiHeaded
  <2>1. CASE g \in K.sources
    <3>1. g.session \in K.conflicted \/ g.header = K.header[g.session]
      BY <2>1 DEF PiRead, PiHeaded
    <3> QED BY <1>1, <1>2, <3>1 DEF PiInserts
  <2>2. CASE g \in B
    BY <2>2 DEF PiInserts
  <2> QED BY <1>0, <2>1, <2>2
<1>5. L.conflicted \subseteq Pi!KnownSessions(L)
  <2> SUFFICES ASSUME NEW s \in L.conflicted PROVE s \in PiSessions /\ L.header[s] # None
    BY DEF Pi!KnownSessions
  <2>1. CASE s \in K.conflicted
    BY <1>2, <2>1 DEF PiRead, Pi!KnownSessions
  <2>2. CASE s \notin K.conflicted
    <3>1. PICK g \in B : g.session = s
      BY <2>2 DEF PiInserts
    <3> QED BY <1>0, <1>1, <1>3, <3>1 DEF PiHeaders
  <2> QED BY <2>1, <2>2
<1> QED BY <1>0, <1>3, <1>4, <1>5 DEF PiRead, PiInserts

LEMMA PiReached ==
  ASSUME Pi!PiConstants, NEW L, PiRead(L), NEW changed, NEW R, PiClosed(L, changed, R), NEW U, U = Pi!Affected(L, changed)
  PROVE  PiAlike(L, L, U, Pi!KnownSessions(L), U)
<1>1. U = R \cap Pi!KnownSessions(L) /\ U \subseteq PiSessions
  BY DEF PiClosed, Pi!KnownSessions
<1>2. ASSUME NEW s \in U, Pi!Parent(L, s) # None PROVE Pi!Parent(L, s) \in U
  <2>1. /\ Pi!Parent(L, s) \in Pi!KnownSessions(L) /\ s \in Pi!KnownSessions(L) /\ L.header[s].parent # None
        /\ \E g \in L.sources : g.locator = L.header[s].parent /\ g.session = Pi!Parent(L, s)
    BY <1>1, <1>2, PiParent
  <2> QED BY <1>1, <2>1 DEF PiClosed
<1> QED BY <1>1, <1>2 DEF PiAlike

LEMMA PiUntouched ==
  ASSUME Pi!PiConstants, NEW K, PiRead(K), NEW B, B \subseteq PiFiles, NEW L, PiInserts(K, L, B), PiRead(L),
         NEW changed, \A g \in B : g.locator \in changed, NEW R, PiClosed(L, changed, R),
         NEW U, U = Pi!KnownSessions(L) \ R
  PROVE  PiAlike(L, K, Pi!KnownSessions(L), Pi!KnownSessions(K), U)
<1>0. U \subseteq PiSessions /\ L.sources = K.sources \cup B
  BY DEF Pi!KnownSessions, PiInserts
<1>1. \A g \in B : g.locator \in R /\ g.session \in R
  BY <1>0 DEF PiClosed
<1>2. ASSUME NEW s \in U
      PROVE  /\ Pi!GenerationsOf(L, s) = Pi!GenerationsOf(K, s) /\ L.header[s] = K.header[s] /\ L.header[s] # None
             /\ s \in L.conflicted <=> s \in K.conflicted
  <2>1. \A g \in B : g.session # s
    BY <1>1
  <2> QED BY <1>0, <2>1 DEF Pi!GenerationsOf, PiInserts, Pi!KnownSessions
<1>3. \A s \in U : \A n : Pi!Entries(L, s, n) = Pi!Entries(K, s, n)
  BY <1>2, Zenon DEF Pi!Entries
<1>4. \A s \in U : Pi!Conflicting(L, s) <=> Pi!Conflicting(K, s)
  <2> TAKE s \in U
  <2>1. \A n : Pi!ParentsOf(L, s, n) = Pi!ParentsOf(K, s, n)
    BY <1>3, Zenon DEF Pi!ParentsOf
  <2> QED BY <1>2, <2>1 DEF Pi!Conflicting
<1>5. ASSUME NEW s \in U
      PROVE  /\ Pi!MissingParent(L, s) <=> Pi!MissingParent(K, s)
             /\ Pi!Parent(L, s) = Pi!Parent(K, s) /\ Pi!Parent(L, s) \in U \cup {None}
  <2> DEFINE l == L.header[s].parent
  <2>1. K.header[s].parent = l /\ L.header[s] # None /\ K.header[s] # None
    BY <1>2
  <2>2. s \in Pi!KnownSessions(L) /\ s \notin R
    OBVIOUS
  <2>3. l # None => Pi!SessionsAt(L, l) = Pi!SessionsAt(K, l)
    <3> HAVE l # None
    <3>1. l \notin R
      BY <2>2 DEF PiClosed
    <3>2. {h \in L.sources : h.locator = l} = {h \in K.sources : h.locator = l}
      BY <1>0, <1>1, <3>1
    <3> HIDE DEF l
    <3> QED BY <3>2 DEF Pi!SessionsAt
  <2>4. Pi!Locates(L, l) <=> Pi!Locates(K, l)
    BY <2>3 DEF Pi!Locates
  <2>5. Pi!MissingParent(L, s) <=> Pi!MissingParent(K, s)
    BY <2>1, <2>4 DEF Pi!MissingParent
  <2>6. Pi!Parent(L, s) = IF Pi!Locates(L, l) THEN CHOOSE p \in Pi!SessionsAt(L, l) : TRUE ELSE None
    BY <2>1 DEF Pi!Parent
  <2>7. Pi!Parent(K, s) = IF Pi!Locates(K, l) THEN CHOOSE p \in Pi!SessionsAt(K, l) : TRUE ELSE None
    BY <2>1 DEF Pi!Parent
  <2>8. Pi!Parent(L, s) = Pi!Parent(K, s)
    <3>1. CASE ~Pi!Locates(L, l)
      BY <2>4, <2>6, <2>7, <3>1
    <3>2. CASE Pi!Locates(L, l)
      <4>1. Pi!SessionsAt(L, l) = Pi!SessionsAt(K, l)
        BY <2>3, <3>2 DEF Pi!Locates
      <4> DEFINE X == Pi!SessionsAt(L, l)
                 Y == Pi!SessionsAt(K, l)
      <4>2. Pi!Parent(L, s) = (CHOOSE p \in X : TRUE) /\ Pi!Parent(K, s) = (CHOOSE p \in Y : TRUE)
        BY <2>4, <2>6, <2>7, <3>2
      <4>3. X = Y
        BY <4>1
      <4> HIDE DEF X, Y
      <4> QED BY <4>2, <4>3
    <3> QED BY <3>1, <3>2
  <2>9. ASSUME Pi!Parent(L, s) # None PROVE Pi!Parent(L, s) \in U
    <3>1. /\ Pi!Parent(L, s) \in Pi!KnownSessions(L) /\ L.header[s].parent # None
          /\ \E g \in L.sources : g.locator = L.header[s].parent /\ g.session = Pi!Parent(L, s)
      BY <1>0, <2>9, PiParent
    <3> QED BY <2>2, <3>1 DEF PiClosed
  <2> QED BY <2>5, <2>8, <2>9
<1>6. \A s \in U : s \in Pi!KnownSessions(L) <=> s \in Pi!KnownSessions(K)
  BY <1>0, <1>2 DEF Pi!KnownSessions
<1> QED BY <1>0, <1>3, <1>4, <1>5, <1>6 DEF PiAlike

-----------------------------------------------------------------------------
(* What every import keeps: the tables are read, and what is observed is decided
   as if all of it were decided at once. *)
PiDecides(L, d) ==
  /\ d = [o \in Pi!Observations(L) |-> d[o]]
  /\ \A o \in Pi!Observations(L) : d[o] = Pi!Select(L, Pi!KnownSessions(L), o)
PiInv == ledger \in Pi!Tables /\ PiRead(ledger) /\ PiDecides(ledger, decision)

LEMMA PiKnownObserved ==
  ASSUME Pi!PiConstants, NEW L, PiRead(L), NEW o \in Pi!Observations(L)
  PROVE  o.session \in Pi!KnownSessions(L)
<1>1. o.session \in PiSessions /\ o.use \in Pi!UsesOf(L, o.session, o.native) /\ L.sources \subseteq PiFiles
  BY PiObserved DEF PiRead
<1>2. PICK e : e \in Pi!Entries(L, o.session, o.native)
  BY <1>1, PiUsesOf
<1>3. \E g \in L.sources : g.session = o.session
  BY <1>1, <1>2, PiEntriesOf DEF Pi!GenerationsOf
<1> QED BY <1>1, <1>3 DEF PiRead, PiHeaders, Pi!KnownSessions

LEMMA PiInit ==
  ASSUME Pi!PiConstants, Pi!Init
  PROVE  PiInv
<1>1. ledger.sources = {} /\ ledger.conflicted = {} /\ ledger.header = [s \in PiSessions |-> None]
  BY DEF Pi!Init
<1>2. ledger \in Pi!Tables
  BY DEF Pi!Init, Pi!Tables
<1>3. PiRead(ledger)
  BY <1>1 DEF PiRead, PiHeaders, PiHeaded
<1>4. \A o : o \notin Pi!Observations(ledger)
  <2> TAKE o
  <2> SUFFICES ASSUME o \in Pi!Observations(ledger) PROVE FALSE
    OBVIOUS
  <2>1. o.session \in Pi!KnownSessions(ledger)
    BY <1>3, PiKnownObserved
  <2> QED BY <1>1, <2>1 DEF Pi!KnownSessions
<1>5. Pi!Observations(ledger) = {}
  BY <1>4
<1>6. PiDecides(ledger, decision)
  BY <1>5 DEF PiDecides, Pi!Init
<1> QED BY <1>2, <1>3, <1>6 DEF PiInv

PiDecidedAgain(K, L, scope, d, e) ==
  e = [o \in Pi!Observations(L) |-> IF o.session \in scope THEN Pi!Select(L, scope, o) ELSE d[o]]
LEMMA PiDecidedAsAll ==
  ASSUME Pi!PiConstants, NEW K, PiRead(K), NEW B, B \subseteq PiFiles, NEW L, PiInserts(K, L, B), PiRead(L),
         NEW changed, changed \subseteq PiLocators, \A g \in B : g.locator \in changed,
         NEW d, PiDecides(K, d), NEW e, PiDecidedAgain(K, L, Pi!Affected(L, changed), d, e)
  PROVE  PiDecides(L, e)
<1>1. PICK R : PiClosed(L, changed, R)
  BY PiReaches
<1> DEFINE scope == Pi!Affected(L, changed)
           U == Pi!KnownSessions(L) \ R
<1>2. scope = R \cap Pi!KnownSessions(L)
  BY <1>1 DEF PiClosed
<1> HIDE DEF scope
<1>3. e = [o \in Pi!Observations(L) |-> IF o.session \in scope THEN Pi!Select(L, scope, o) ELSE d[o]]
  BY DEF PiDecidedAgain, scope
<1>4. ASSUME NEW o \in Pi!Observations(L), o.session \in scope PROVE Pi!Select(L, scope, o) = Pi!Select(L, Pi!KnownSessions(L), o)
  <2>1. PiAlike(L, L, scope, Pi!KnownSessions(L), scope)
    BY <1>1, PiReached DEF scope
  <2> QED BY <1>4, <2>1, PiAlikeSelect
<1>5. ASSUME NEW o \in Pi!Observations(L), o.session \notin scope PROVE d[o] = Pi!Select(L, Pi!KnownSessions(L), o)
  <2>1. PiAlike(L, K, Pi!KnownSessions(L), Pi!KnownSessions(K), U)
    BY <1>1, PiUntouched
  <2>2. o.session \in U
    BY <1>2, <1>5, PiKnownObserved
  <2> HIDE DEF U
  <2>3. o \in Pi!Observations(K) /\ Pi!Select(L, Pi!KnownSessions(L), o) = Pi!Select(K, Pi!KnownSessions(K), o)
    BY <2>1, <2>2, PiAlikeSelect
  <2> QED BY <2>3 DEF PiDecides
<1>6. \A o \in Pi!Observations(L) : e[o] = Pi!Select(L, Pi!KnownSessions(L), o)
  <2> TAKE o \in Pi!Observations(L)
  <2>1. e[o] = IF o.session \in scope THEN Pi!Select(L, scope, o) ELSE d[o]
    BY <1>3
  <2> QED BY <1>4, <1>5, <2>1
<1>7. e = [o \in Pi!Observations(L) |-> e[o]]
  BY <1>3
<1> QED BY <1>6, <1>7 DEF PiDecides

LEMMA PiStep ==
  ASSUME Pi!PiConstants, PiInv, [Pi!Next]_Pi!vars
  PROVE  PiInv'
<1>1. CASE UNCHANGED Pi!vars
  BY <1>1 DEF Pi!vars, PiInv
<1>2. ASSUME NEW b \in Pi!Batches, Pi!Import(b) PROVE PiInv'
  <2> DEFINE L == ledger'
             B == {b[i] : i \in DOMAIN b}
             changed == {b[i].locator : i \in DOMAIN b}
  <2>1. PICK m \in 1 .. MaxBatch : b \in [1 .. m -> PiFiles \ ledger.sources]
    BY DEF Pi!Batches
  <2>2. b \in [1 .. m -> PiFiles] /\ m \in Nat /\ DOMAIN b = 1 .. m
    BY <2>1 DEF Pi!PiConstants
  <2>3. /\ L = Pi!Inserted(ledger, b)
        /\ decision' = [o \in Pi!Observations(L) |->
                          IF o.session \in Pi!Affected(L, changed) THEN Pi!Select(L, Pi!Affected(L, changed), o) ELSE decision[o]]
    BY <1>2, Zenon DEF Pi!Import
  <2>4. PiRead(ledger) /\ PiDecides(ledger, decision)
    BY DEF PiInv
  <2>5. B \subseteq PiFiles /\ \A g \in B : g.locator \in changed /\ g.locator \in PiLocators
    <3>1. B \subseteq PiFiles
      BY <2>2
    <3> DEFINE M == [sources |-> B]
    <3>2. M.sources = B
      OBVIOUS
    <3>3. \A g \in B : g.locator \in changed
      OBVIOUS
    <3> HIDE DEF M, B, changed
    <3> QED BY <3>1, <3>2, <3>3, PiGenerations
  <2>6. changed \subseteq PiLocators
    BY <2>5
  <2>7. PiInserts(ledger, L, B)
    BY <2>2, <2>3, <2>4, PiInserted
  <2> HIDE DEF L, B, changed
  <2>8. PiRead(L)
    BY <2>4, <2>5, <2>7, PiInsertedRead
  <2>9. PiDecidedAgain(ledger, L, Pi!Affected(L, changed), decision, decision')
    BY <2>3, Zenon DEF PiDecidedAgain
  <2>10. PiDecides(L, decision')
    BY <2>4, <2>5, <2>6, <2>7, <2>8, <2>9, PiDecidedAsAll
  <2>11. L \in Pi!Tables
    <3>1. SUBSET (ledger.sources \cup B) \subseteq SUBSET PiFiles
      BY <2>4, <2>5 DEF PiRead
    <3> QED BY <2>7, <3>1 DEF PiInserts, Pi!Tables
  <2> QED BY <2>8, <2>10, <2>11 DEF PiInv, L
<1> QED BY <1>1, <1>2 DEF Pi!Next

LEMMA PiAlways ==
  ASSUME Pi!PiConstants
  PROVE  Pi!Spec => []PiInv
<1>1. Pi!Init => PiInv
  BY PiInit
<1>2. PiInv /\ [Pi!Next]_Pi!vars => PiInv'
  BY PiStep
<1> QED BY <1>1, <1>2, PTL DEF Pi!Spec

-----------------------------------------------------------------------------
(* What the invariant says of the decisions. *)
LEMMA PiDecisions ==
  ASSUME Pi!PiConstants, PiInv
  PROVE  /\ DOMAIN decision = Pi!Observations(ledger)
         /\ \A o \in DOMAIN decision :
              /\ decision[o] # None => PiStandsFor(ledger, Pi!KnownSessions(ledger), o, decision[o])
              /\ PiEnds(ledger, Pi!KnownSessions(ledger), o) => decision[o] = o
              /\ o # None /\ o.session \in PiSessions /\ o.native \in PiNatives
<1> DEFINE K == Pi!KnownSessions(ledger)
<1>1. DOMAIN decision = Pi!Observations(ledger)
  BY DEF PiInv, PiDecides
<1>2. ASSUME NEW o \in Pi!Observations(ledger)
      PROVE  /\ decision[o] # None => PiStandsFor(ledger, K, o, decision[o])
             /\ PiEnds(ledger, K, o) => decision[o] = o
             /\ o # None /\ o.session \in PiSessions /\ o.native \in PiNatives
  <2> DEFINE r == decision[o]
  <2>1. r = Pi!Select(ledger, K, o)
    BY DEF PiInv, PiDecides
  <2> HIDE DEF K, r
  <2>2. (r # None => PiStandsFor(ledger, K, o, r)) /\ (PiEnds(ledger, K, o) => r = o)
    BY <2>1, PiStands DEF PiInv
  <2>3. o # None /\ o.session \in PiSessions /\ o.native \in PiNatives
    BY PiObserved DEF PiInv, PiRead
  <2> QED BY <2>2, <2>3 DEF r
<1> QED BY <1>1, <1>2

LEMMA PiTypes ==
  ASSUME Pi!PiConstants, PiInv
  PROVE  Pi!TypeOK
<1>1. ledger \in Pi!Tables /\ ledger.conflicted \subseteq Pi!KnownSessions(ledger)
  BY DEF PiInv, PiRead
<1>2. \A o \in DOMAIN decision : decision[o] \in DOMAIN decision \cup {None}
  BY PiDecisions DEF PiStandsFor
<1>3. DOMAIN decision = Pi!Observations(ledger)
  BY PiDecisions
<1> QED BY <1>1, <1>2, <1>3 DEF Pi!TypeOK

LEMMA PiIncremental ==
  ASSUME Pi!PiConstants, PiInv
  PROVE  Pi!Incremental
<1> QED BY PiDecisions DEF PiInv, PiDecides, Pi!Incremental

LEMMA PiCountedOnce ==
  ASSUME Pi!PiConstants, PiInv
  PROVE  Pi!CountedOnce
<1> DEFINE K == Pi!KnownSessions(ledger)
           N == Cardinality(PiSessions)
<1>0. N \in Nat /\ PiRead(ledger) /\ DOMAIN decision = Pi!Observations(ledger)
  BY PiLibrary, FS_CardinalityType, PiDecisions DEF Pi!PiConstants, PiInv
<1>1. ASSUME NEW o \in Pi!Counted
      PROVE  /\ o \in Pi!Observations(ledger) /\ PiEnds(ledger, K, o) /\ o.session \in PiSessions /\ o.session # None
             /\ o.session \in K /\ Pi!UsesOf(ledger, o.session, o.native) # {}
  <2>1. o \in Pi!Observations(ledger) /\ decision[o] = o
    BY <1>0 DEF Pi!Counted
  <2>2. PiEnds(ledger, K, o)
    BY <2>1, PiDecisions DEF PiStandsFor
  <2>3. o.use \in Pi!UsesOf(ledger, o.session, o.native) /\ o.session \in PiSessions
    BY <1>0, <2>1, PiObserved DEF PiRead
  <2>4. o.session \in K
    BY <1>0, <2>1, PiKnownObserved
  <2> QED BY <2>1, <2>2, <2>3, <2>4 DEF Pi!PiConstants
<1> SUFFICES ASSUME NEW o \in Pi!Counted, NEW p \in Pi!Counted, o # p, o.native = p.native
             PROVE  o.session # p.session /\ o.session \notin Pi!Ancestors(p.session)
  BY DEF Pi!CountedOnce
<1>2. o.session # p.session
  BY <1>1 DEF PiEnds
<1> DEFINE line == Pi!Lineage(ledger, p.session)
           stop == PiStop(ledger, K, p)
<1>3. /\ stop \in 1 .. N /\ line[stop] = None
      /\ \A j \in 1 .. stop - 1 : ~Pi!Stops(ledger, K, line, p.native, j)
      /\ PiLine(ledger, p.session, line)
  <2>1. p.session \in PiSessions /\ PiEnds(ledger, K, p)
    BY <1>1
  <2> HIDE DEF K
  <2>2. line[stop] = None
    BY <2>1 DEF PiEnds, PiFound
  <2>3. PiLine(ledger, p.session, line)
    BY <1>0, <2>1, PiLineage
  <2>4. stop \in 1 .. N /\ \A j \in 1 .. stop - 1 : ~Pi!Stops(ledger, K, line, p.native, j)
    <3> DEFINE s == p.session
               n == p.native
    <3>1. stop = Pi!StopsAt(ledger, K, line, n) /\ line = Pi!Lineage(ledger, s) /\ s \in PiSessions
      BY <2>1 DEF PiStop
    <3> HIDE DEF stop, line, s, n
    <3>2. stop \in 1 .. N /\ \A j \in 1 .. stop - 1 : ~Pi!Stops(ledger, K, line, n, j)
      BY <1>0, <3>1, PiStopsAt
    <3> QED BY <3>2 DEF n
  <2> QED BY <2>2, <2>3, <2>4
<1> HIDE DEF line, stop
<1>4. o.session \in Pi!Ancestors(p.session) => \E k \in 1 .. N : o.session = line[k]
  <2> HAVE o.session \in Pi!Ancestors(p.session)
  <2>1. Pi!Ancestors(p.session) = {line[k] : k \in 1 .. N} \ {None}
    BY PiLibrary DEF Pi!Ancestors, line
  <2> QED BY <2>1
<1>5. ASSUME NEW k \in 1 .. N, o.session = line[k] PROVE FALSE
  <2>1. line[k] # None
    BY <1>1, <1>5
  <2>2. ~(stop <= k)
    <3> SUFFICES ASSUME stop <= k PROVE FALSE
      OBVIOUS
    <3>1. stop \in 0 .. N /\ k \in stop .. N /\ p.session \in PiSessions
      BY <1>0, <1>1, <1>3
    <3> QED BY <1>3, <2>1, <3>1, PiLineEnds
  <2>3. k \in 1 .. stop - 1
    BY <1>0, <1>3, <2>2
  <2>4. Pi!Candidates(ledger, K, line[k], p.native) = {}
    BY <1>3, <2>3 DEF Pi!Stops
  <2> QED BY <1>1, <1>5, <2>4 DEF Pi!Candidates
<1> QED BY <1>2, <1>4, <1>5

LEMMA PiNothingLost ==
  ASSUME Pi!PiConstants, PiInv
  PROVE  Pi!NothingLost
<1> SUFFICES ASSUME NEW o \in DOMAIN decision \ Pi!Counted, decision[o] # None
             PROVE  /\ decision[o] \in Pi!Counted /\ decision[o].native = o.native /\ Pi!Same(decision[o].use, o.use)
                    /\ decision[o].session \in {o.session} \cup Pi!Ancestors(o.session)
  BY DEF Pi!NothingLost
<1> DEFINE r == decision[o]
<1>1. PiStandsFor(ledger, Pi!KnownSessions(ledger), o, r)
  BY PiDecisions
<1> HIDE DEF r
<1>2. r \in DOMAIN decision /\ PiEnds(ledger, Pi!KnownSessions(ledger), r)
  BY <1>1, PiDecisions DEF PiStandsFor
<1>3. r \in Pi!Counted
  BY <1>2, PiDecisions DEF Pi!Counted
<1>4. Pi!Ancestors(o.session) = PiAncestors(ledger, o.session)
  BY PiLibrary, Zenon DEF Pi!Ancestors, PiAncestors
<1> QED BY <1>1, <1>3, <1>4 DEF PiStandsFor, r

(* An entry of a session that is not in conflict has one parent, and its uses
   are the same. *)
LEMMA PiOneParent ==
  ASSUME Pi!PiConstants, NEW L, L.sources \subseteq PiFiles, NEW s, ~Pi!Conflicting(L, s), NEW n \in PiNatives
  PROVE  \A p, q \in Pi!ParentsOf(L, s, n) : p = q
<1> DEFINE P == Pi!ParentsOf(L, s, n)
<1>1. IsFiniteSet(P) /\ Cardinality(P) \in Nat /\ ~(Cardinality(P) > 1)
  <2>1. P \subseteq PiNatives \cup {None}
    BY PiUsesOf
  <2>2. IsFiniteSet(PiNatives \cup {None})
    BY PiLibrary, FS_AddElement DEF Pi!PiConstants
  <2>3. IsFiniteSet(P)
    BY <2>1, <2>2, FS_Subset
  <2> QED BY PiLibrary, <2>3, FS_CardinalityType DEF Pi!Conflicting
<1> HIDE DEF P
<1> SUFFICES ASSUME NEW p \in P, NEW q \in P, p # q PROVE FALSE
  BY DEF P
<1>2. IsFiniteSet(P \ {p}) /\ Cardinality(P \ {p}) = Cardinality(P) - 1
  BY <1>1, FS_RemoveElement
<1>3. P \ {p} # {}
  OBVIOUS
<1>4. Cardinality(P \ {p}) # 0 /\ Cardinality(P \ {p}) \in Nat
  BY <1>2, <1>3, FS_EmptySet, FS_CardinalityType
<1> QED BY <1>1, <1>2, <1>4

PiToldBy(L, s, n, x) ==
  /\ Pi!UsesOf(L, s, n) # {}
  /\ x = <<Pi!EntryParent(L, s, n), <<Pi!Representative(L, s, n).value, Pi!Representative(L, s, n).kind>> >>
LEMMA PiRecorded ==
  ASSUME Pi!PiConstants, NEW s, ledger.sources \subseteq PiFiles, ~Pi!Conflicting(ledger, s), NEW n \in PiNatives,
         ~Pi!ConflictingEntry(ledger, s, n), Pi!Entries(ledger, s, n) # {},
         NEW x, x # <<Pi!EntryParent(ledger, s, n), None>>
  PROVE  x \in Pi!Recorded(s, n) <=> PiToldBy(ledger, s, n, x)
<1> DEFINE E == Pi!Entries(ledger, s, n)
           U == Pi!UsesOf(ledger, s, n)
           p == Pi!EntryParent(ledger, s, n)
           u == Pi!Representative(ledger, s, n)
           told(e) == <<e.parent, IF e.use = None THEN None ELSE <<e.use.value, e.use.kind>> >>
<1>1. \A e \in E : e.parent = p
  <2>1. p \in Pi!ParentsOf(ledger, s, n) /\ \A e \in E : e.parent \in Pi!ParentsOf(ledger, s, n)
    BY PiEntryParent DEF Pi!ParentsOf
  <2> QED BY <2>1, PiOneParent
<1>2. \A v : v \in U <=> v # None /\ \E e \in E : e.use = v
  BY DEF Pi!UsesOf
<1>3. U # {} => u \in U
  BY PiRepresentative
<1>4. \A v \in U : u \in U => v.value = u.value /\ v.kind = u.kind
  BY DEF Pi!ConflictingEntry, Pi!Same
<1>5. \A y : y \in Pi!Recorded(s, n) <=> \E e \in E : y = told(e)
  BY DEF Pi!Recorded
<1>6. PiToldBy(ledger, s, n, x) <=> U # {} /\ x = <<p, <<u.value, u.kind>> >>
  BY DEF PiToldBy
<1> HIDE DEF E, U, p, u
<1>7. ASSUME NEW e \in E, x = told(e) PROVE U # {} /\ x = <<p, <<u.value, u.kind>> >>
  <2>1. e.use # None
    BY <1>1, <1>7 DEF p
  <2>2. e.use \in U
    BY <1>2, <2>1
  <2>3. e.use.value = u.value /\ e.use.kind = u.kind
    BY <1>3, <1>4, <2>2
  <2>4. x = <<e.parent, <<e.use.value, e.use.kind>> >>
    BY <1>7, <2>1
  <2> QED BY <1>1, <2>2, <2>3, <2>4
<1>8. ASSUME U # {}, x = <<p, <<u.value, u.kind>> >> PROVE \E e \in E : x = told(e)
  <2>1. PICK e \in E : e.use = u /\ u # None
    BY <1>2, <1>3, <1>8
  <2>2. told(e) = <<e.parent, <<e.use.value, e.use.kind>> >>
    BY <2>1
  <2>3. x = told(e)
    BY <1>1, <1>8, <2>1, <2>2
  <2> QED BY <2>3
<1> HIDE DEF told
<1> QED BY <1>5, <1>6, <1>7, <1>8

LEMMA PiCopiesProven ==
  ASSUME Pi!PiConstants, PiInv
  PROVE  Pi!CopiesProven
<1> SUFFICES ASSUME NEW o \in DOMAIN decision \ Pi!Counted, decision[o] # None, decision[o].session # o.session
             PROVE  /\ Pi!Upwards(o.session, o.native) = Pi!Upwards(decision[o].session, decision[o].native)
                    /\ \A k \in 0 .. Cardinality(PiNatives) :
                         LET n == Pi!Upwards(o.session, o.native)[k]
                         IN n # None => Pi!Recorded(o.session, n) \ {<<Pi!EntryParent(ledger, o.session, n), None>>}
                                        = Pi!Recorded(decision[o].session, n)
                                            \ {<<Pi!EntryParent(ledger, decision[o].session, n), None>>}
  BY PiLibrary DEF Pi!CopiesProven
<1> DEFINE c == decision[o]
           s == o.session
           a == c.session
           m == o.native
<1>0. PiRead(ledger) /\ ledger.sources \subseteq PiFiles /\ m \in PiNatives
  BY PiDecisions DEF PiInv, PiRead
<1>1. PiStandsFor(ledger, Pi!KnownSessions(ledger), o, c)
  BY PiDecisions
<1> HIDE DEF c
<1>2. c.native = m /\ PiMatched(ledger, a, s, m) /\ ~Pi!Conflicting(ledger, s) /\ ~Pi!Conflicting(ledger, a)
  BY <1>1 DEF PiStandsFor, PiEnds, Pi!Disputed, c
<1>3. \A x, y : Pi!Upwards(x, y) = PiUpwards(ledger, x, y)
  BY PiLibrary, Zenon DEF Pi!Upwards, PiUpwards
<1> DEFINE u == PiUpwards(ledger, s, m)
           v == PiUpwards(ledger, a, m)
<1> HIDE DEF a, s, m
<1>4. PiUpIs(ledger, s, m, u) /\ PiUpIs(ledger, a, m, v)
  BY <1>0, PiUp
<1>5. \A k \in 0 .. Cardinality(PiNatives) : v[k] = u[k] /\ (u[k] # None => Pi!SameEntry(ledger, a, s, u[k]))
  BY <1>2 DEF PiMatched
<1> HIDE DEF u, v
<1>6. u = v
  <2>1. u = [k \in 0 .. Cardinality(PiNatives) |-> u[k]] /\ v = [k \in 0 .. Cardinality(PiNatives) |-> v[k]]
    BY <1>4 DEF PiUpIs
  <2> QED BY <1>5, <2>1
<1>7. ASSUME NEW k \in 0 .. Cardinality(PiNatives), NEW n, n = u[k], n # None
      PROVE  Pi!Recorded(s, n) \ {<<Pi!EntryParent(ledger, s, n), None>>} = Pi!Recorded(a, n) \ {<<Pi!EntryParent(ledger, a, n), None>>}
  <2>1. Pi!SameEntry(ledger, a, s, n) /\ n \in PiNatives
    BY <1>4, <1>5, <1>7 DEF PiUpIs
  <2>2. /\ Pi!Entries(ledger, a, n) # {} /\ Pi!Entries(ledger, s, n) # {}
        /\ Pi!EntryParent(ledger, a, n) = Pi!EntryParent(ledger, s, n)
        /\ ~Pi!ConflictingEntry(ledger, a, n) /\ ~Pi!ConflictingEntry(ledger, s, n)
        /\ Pi!UsesOf(ledger, a, n) = {} <=> Pi!UsesOf(ledger, s, n) = {}
        /\ Pi!UsesOf(ledger, a, n) # {} => Pi!Same(Pi!Representative(ledger, a, n), Pi!Representative(ledger, s, n))
    BY <2>1 DEF Pi!SameEntry
  <2> DEFINE none == <<Pi!EntryParent(ledger, s, n), None>>
  <2>3. <<Pi!EntryParent(ledger, a, n), None>> = none
    BY <2>2
  <2>4. ASSUME NEW x, x # none PROVE x \in Pi!Recorded(s, n) <=> x \in Pi!Recorded(a, n)
    <3>1. x \in Pi!Recorded(s, n) <=> PiToldBy(ledger, s, n, x)
      BY <1>0, <1>2, <2>1, <2>2, <2>4, PiRecorded
    <3>2. x \in Pi!Recorded(a, n) <=> PiToldBy(ledger, a, n, x)
      <4> HIDE DEF none
      <4> QED BY <1>0, <1>2, <2>1, <2>2, <2>3, <2>4, PiRecorded
    <3>3. PiToldBy(ledger, s, n, x) <=> PiToldBy(ledger, a, n, x)
      BY <2>2 DEF PiToldBy, Pi!Same
    <3> QED BY <3>1, <3>2, <3>3
  <2> HIDE DEF none
  <2>5. Pi!Recorded(s, n) \ {none} = Pi!Recorded(a, n) \ {none}
    BY <2>4
  <2> QED BY <2>3, <2>5 DEF none
<1> QED BY <1>2, <1>3, <1>6, <1>7 DEF u, v, a, s, m, c

LEMMA PiUndisputed ==
  ASSUME Pi!PiConstants, PiInv
  PROVE  Pi!UndisputedOnly
<1>0. PiRead(ledger) /\ ledger.sources \subseteq PiFiles
  BY DEF PiInv, PiRead
<1>1. ASSUME NEW o, o.session \in PiSessions, ~Pi!Disputed(ledger, o) PROVE ~Pi!Contradicted(o)
  <2> DEFINE s == o.session
  <2>1. ~Pi!Conflicting(ledger, s) /\ ~Pi!ConflictingEntry(ledger, s, o.native)
    BY <1>1 DEF Pi!Disputed
  <2>2. \A g \in Pi!GenerationsOf(ledger, s) : ~g.damaged /\ g.header = ledger.header[s]
    BY <1>0, <2>1 DEF Pi!Conflicting, Pi!GenerationsOf, PiRead, PiHeaded
  <2>3. ASSUME NEW g \in Pi!GenerationsOf(ledger, s), NEW h \in Pi!GenerationsOf(ledger, s),
               NEW n \in DOMAIN g.entries \cap DOMAIN h.entries
        PROVE  g.entries[n].parent = h.entries[n].parent
    <3>1. n \in PiNatives
      BY <1>0, PiGenerations DEF Pi!GenerationsOf
    <3>2. g.entries[n] \in Pi!Entries(ledger, s, n) /\ h.entries[n] \in Pi!Entries(ledger, s, n)
      BY DEF Pi!Entries
    <3>3. g.entries[n].parent \in Pi!ParentsOf(ledger, s, n) /\ h.entries[n].parent \in Pi!ParentsOf(ledger, s, n)
      BY <3>2 DEF Pi!ParentsOf
    <3> QED BY <1>0, <2>1, <3>1, <3>3, PiOneParent
  <2> QED BY <2>1, <2>2, <2>3 DEF Pi!Contradicted
<1> SUFFICES ASSUME NEW o \in DOMAIN decision, decision[o] # None PROVE ~Pi!Contradicted(o) /\ ~Pi!Contradicted(decision[o])
  BY DEF Pi!UndisputedOnly
<1> DEFINE r == decision[o]
<1>2. PiStandsFor(ledger, Pi!KnownSessions(ledger), o, r) /\ o.session \in PiSessions /\ DOMAIN decision = Pi!Observations(ledger)
  BY PiDecisions
<1> HIDE DEF r
<1>3. r.session \in PiSessions /\ ~Pi!Disputed(ledger, r) /\ ~Pi!Disputed(ledger, o)
  BY <1>2, PiDecisions DEF PiStandsFor, PiEnds
<1> QED BY <1>1, <1>2, <1>3 DEF r

LEMMA PiSafe ==
  ASSUME Pi!PiConstants, PiInv
  PROVE  Pi!TypeOK /\ Pi!Incremental /\ Pi!CountedOnce /\ Pi!NothingLost /\ Pi!CopiesProven /\ Pi!UndisputedOnly
<1> QED BY PiTypes, PiIncremental, PiCountedOnce, PiNothingLost, PiCopiesProven, PiUndisputed

(***************************************************************************)
(* Codex: counts repeated in resumed threads, calls in two dialects.       *)
(***************************************************************************)
(* The library as the module of the harness sees it. *)
LEMMA CodexLibrary ==
  /\ \A S : Codex!Cardinality(S) = Cardinality(S)
  /\ \A S : Codex!IsFiniteSet(S) <=> IsFiniteSet(S)
<1>1. \A S : Codex!IsFiniteSet(S) <=> IsFiniteSet(S)
  BY DEF Codex!IsFiniteSet, IsFiniteSet
<1>2. \A S : Codex!Cardinality(S) = Cardinality(S)
  BY DEF Codex!Cardinality, Cardinality
<1> QED BY <1>1, <1>2

(* What a row says of itself, in either dialect. *)
CodexCount(r) == /\ r.kind = "legacy" /\ r.response = None /\ r.entry = <<"legacy", r.owner, r.total, r.last>>
                 /\ r.usable => r.mirror = None /\ r.total # None /\ r.last # None
CodexAnswer(r) == /\ r.kind = "response" /\ r.mirror = None /\ (r.usable => r.response # None)
                  /\ r.entry = IF r.response # None THEN <<"response", r.response>>
                               ELSE <<"unkeyed", r.owner, r.turn, r.total, r.last>>
CodexRow(r) == r.at \in Nat \cup {None} /\ (CodexCount(r) \/ CodexAnswer(r))

(* The reader's states, line by line. *)
CodexIsReading(f, file, n) ==
  f = [k \in 0..n |-> IF k = 0 THEN Codex!Start(file) ELSE Codex!OnLine(file, f[k - 1], k, file.lines[k])]
LEMMA CodexReadingExists ==
  ASSUME NEW file, NEW n \in Nat
  PROVE  \E f : CodexIsReading(f, file, n)
<1> DEFINE Start == Codex!Start(file)
           Step(x, k) == Codex!OnLine(file, x, k, file.lines[k])
           Reading(f, m) == f = [k \in 0..m |-> IF k = 0 THEN Start ELSE Step(f[k - 1], k)]
           Has(m) == \E f : Reading(f, m)
           T == {m \in Nat : Has(m)}
<1> HIDE DEF Start, Step
<1>1. 0 \in T
  <2>1. Reading([k \in 0..0 |-> Start], 0)
    OBVIOUS
  <2> QED BY <2>1
<1>2. \A m \in T : m + 1 \in T
  <2> TAKE m \in T
  <2>1. PICK f : Reading(f, m)
    OBVIOUS
  <2> DEFINE g == [k \in 0..m + 1 |-> IF k = m + 1 THEN Step(f[m], m + 1) ELSE f[k]]
             h == [k \in 0..m + 1 |-> IF k = 0 THEN Start ELSE Step(g[k - 1], k)]
  <2>2. \A k \in 0..m + 1 : g[k] = IF k = 0 THEN Start ELSE Step(g[k - 1], k)
    <3> TAKE k \in 0..m + 1
    <3>1. CASE k = m + 1
      BY <3>1
    <3>2. CASE k \in 0..m
      <4>1. f[k] = IF k = 0 THEN Start ELSE Step(f[k - 1], k)
        BY <2>1, <3>2
      <4>2. g[k] = f[k] /\ (k # 0 => g[k - 1] = f[k - 1])
        BY <3>2
      <4> HIDE DEF g
      <4> QED BY <4>1, <4>2
    <3> QED BY <3>1, <3>2
  <2>3. g = h
    <3>1. \A k \in 0..m + 1 : g[k] = h[k]
      <4>1. \A k \in 0..m + 1 : h[k] = IF k = 0 THEN Start ELSE Step(g[k - 1], k)
        BY Zenon
      <4> HIDE DEF g, h
      <4> QED BY <2>2, <4>1
    <3> DEFINE D == 0..m + 1
    <3>2. g = [k \in D |-> g[k]]
      OBVIOUS
    <3>02. h = [k \in D |-> h[k]]
      <4> HIDE DEF g
      <4> QED OBVIOUS
    <3>3. \A k \in D : g[k] = h[k]
      BY <3>1
    <3> HIDE DEF g, h, D
    <3>4. [k \in D |-> g[k]] = [k \in D |-> h[k]]
      BY <3>3
    <3> QED BY <3>2, <3>02, <3>4, Zenon
  <2>4. Reading(g, m + 1)
    <3>1. g = h
      BY <2>3
    <3> HIDE DEF g
    <3> QED BY <3>1
  <2> HIDE DEF Reading, g
  <2>5. Has(m + 1)
    BY <2>4
  <2> QED BY <2>5
<1>3. n \in T
  <2> HIDE DEF Has
  <2>1. T = Nat
    <3>1. T \subseteq Nat
      OBVIOUS
    <3> HIDE DEF T
    <3> QED BY <1>1, <1>2, <3>1, AllNumbers
  <2> QED BY <2>1
<1>4. PICK f : Reading(f, n)
  BY <1>3
<1>5. CodexIsReading(f, file, n)
  BY <1>4, Zenon DEF CodexIsReading, Start, Step
<1> QED BY <1>5

(* Whatever the lines, the reader's rows are rows. *)
CodexFields == {"turn", "model", "byTurn", "byThread", "previous", "seen", "adjacent", "rows"}
CodexColumns == {"kind", "line", "at", "entry", "owner", "turn", "response", "mirror", "total", "last", "model", "usable"}
CodexRowsOf(rows) == \E S : rows \in Seq(S) /\ \A r \in S : CodexRow(r) /\ DOMAIN r = CodexColumns
CodexReading(st) == DOMAIN st = CodexFields /\ CodexRowsOf(st.rows)

LEMMA CodexAppended ==
  ASSUME NEW rows, CodexRowsOf(rows), NEW r, CodexRow(r), DOMAIN r = CodexColumns
  PROVE  CodexRowsOf(Append(rows, r))
<1>1. PICK S : rows \in Seq(S) /\ \A q \in S : CodexRow(q) /\ DOMAIN q = CodexColumns
  BY DEF CodexRowsOf
<1> DEFINE U == S \cup {r}
<1>2. Append(rows, r) \in Seq(U)
  <2>1. rows \in Seq(U)
    BY <1>1
  <2> QED BY <2>1
<1>3. \A q \in U : CodexRow(q) /\ DOMAIN q = CodexColumns
  BY <1>1
<1> HIDE DEF U
<1> QED BY <1>2, <1>3 DEF CodexRowsOf

LEMMA CodexStarts ==
  ASSUME NEW file
  PROVE  CodexReading(Codex!Start(file))
<1>1. DOMAIN Codex!Start(file) = CodexFields
  BY DEF Codex!Start, CodexFields
<1>2. Codex!Start(file).rows = <<>>
  BY DEF Codex!Start
<1>3. CodexRowsOf(<<>>)
  <2> DEFINE S == {r \in {None} : CodexRow(r) /\ DOMAIN r = CodexColumns}
  <2>1. <<>> \in Seq(S) /\ \A r \in S : CodexRow(r) /\ DOMAIN r = CodexColumns
    OBVIOUS
  <2> HIDE DEF S
  <2> QED BY <2>1, Zenon DEF CodexRowsOf
<1> QED BY <1>1, <1>2, <1>3 DEF CodexReading

LEMMA CodexOtherLines ==
  ASSUME NEW file, NEW st, CodexReading(st), NEW e
  PROVE  CodexReading(Codex!OnTurn(file, st, e)) /\ CodexReading(Codex!OnSettings(file, st, e))
<1>1. DOMAIN st = CodexFields
  BY DEF CodexReading
<1>2. DOMAIN Codex!OnTurn(file, st, e) = CodexFields /\ Codex!OnTurn(file, st, e).rows = st.rows
  <2>1. PICK a, b, c, d : Codex!OnTurn(file, st, e) = [st EXCEPT !.turn = a, !.model = b, !.byTurn = c, !.byThread = d]
    BY Zenon DEF Codex!OnTurn
  <2> DEFINE x == [st EXCEPT !.turn = a, !.model = b, !.byTurn = c, !.byThread = d]
  <2>2. DOMAIN x = CodexFields /\ x.rows = st.rows
    BY <1>1 DEF CodexFields
  <2> QED BY <2>1, <2>2, Zenon
<1>3. DOMAIN Codex!OnSettings(file, st, e) = CodexFields /\ Codex!OnSettings(file, st, e).rows = st.rows
  <2>1. PICK a, b, c : Codex!OnSettings(file, st, e) = [st EXCEPT !.byThread = a, !.model = b, !.byTurn = c]
    BY Zenon DEF Codex!OnSettings
  <2> DEFINE x == [st EXCEPT !.byThread = a, !.model = b, !.byTurn = c]
  <2>2. DOMAIN x = CodexFields /\ x.rows = st.rows
    BY <1>1 DEF CodexFields
  <2> QED BY <2>1, <2>2, Zenon
<1> QED BY <1>2, <1>3 DEF CodexReading

LEMMA CodexOnResponse ==
  ASSUME NEW file, NEW st, CodexReading(st), NEW line, NEW e, e.at \in Nat \cup {None}
  PROVE  CodexReading(Codex!OnResponse(file, st, line, e))
<1> DEFINE thread == IF e.thread = None THEN file.thread ELSE e.thread
           entry == IF e.response # None THEN <<"response", e.response>> ELSE <<"unkeyed", thread, e.turn, e.total, e.last>>
           model == Codex!ResponseModel(st, thread, e.turn)
           usable == e.response # None /\ e.last # None
           row == [kind |-> "response", line |-> line, at |-> e.at, entry |-> entry,
                   owner |-> thread, turn |-> e.turn, response |-> e.response, mirror |-> None,
                   total |-> e.total, last |-> e.last, model |-> model, usable |-> usable]
           adjacent == IF e.response = None THEN None
                       ELSE [response |-> e.response, turn |-> e.turn, last |-> e.last]
<1>1. Codex!OnResponse(file, st, line, e) = [st EXCEPT !.adjacent = adjacent, !.rows = Append(@, row)]
  BY Zenon DEF Codex!OnResponse
<1>2. CodexRow(row) /\ DOMAIN row = CodexColumns
  <2>1. DOMAIN row = CodexColumns
    BY DEF CodexColumns
  <2>2. usable => e.response # None
    OBVIOUS
  <2>3. entry = IF e.response # None THEN <<"response", e.response>> ELSE <<"unkeyed", thread, e.turn, e.total, e.last>>
    OBVIOUS
  <2> HIDE DEF entry, model, usable, thread
  <2>4. /\ row.at = e.at /\ row.kind = "response" /\ row.mirror = None /\ row.response = e.response /\ row.entry = entry
        /\ row.owner = thread /\ row.turn = e.turn /\ row.total = e.total /\ row.last = e.last /\ row.usable = usable
    OBVIOUS
  <2> HIDE DEF row
  <2>5. CodexAnswer(row)
    BY <2>2, <2>3, <2>4 DEF CodexAnswer
  <2> QED BY <2>1, <2>4, <2>5 DEF CodexRow
<1> HIDE DEF row, adjacent
<1>3. DOMAIN st = CodexFields /\ CodexRowsOf(st.rows)
  BY DEF CodexReading
<1> DEFINE x == [st EXCEPT !.adjacent = adjacent, !.rows = Append(@, row)]
<1>4. DOMAIN x = CodexFields /\ x.rows = Append(st.rows, row)
  BY <1>3 DEF CodexFields
<1> HIDE DEF x
<1>5. CodexReading(x)
  BY <1>2, <1>3, <1>4, CodexAppended DEF CodexReading
<1> QED BY <1>1, <1>5 DEF x

LEMMA CodexOnCount ==
  ASSUME NEW file, NEW st, CodexReading(st), NEW line, NEW e, e.at \in Nat \cup {None}
  PROVE  CodexReading(Codex!OnCount(file, st, line, e))
<1>3. DOMAIN st = CodexFields /\ CodexRowsOf(st.rows)
  BY DEF CodexReading
<1> DEFINE mirrors == Codex!Mirrors(st, e)
           advances == Codex!Advances(st.previous, e.total, e.last)
           mirror == IF mirrors THEN st.adjacent.response ELSE None
           usable == ~mirrors /\ advances
           row == [kind |-> "legacy", line |-> line, at |-> e.at,
                   entry |-> <<"legacy", file.thread, e.total, e.last>>,
                   owner |-> file.thread, turn |-> st.turn, response |-> None,
                   mirror |-> mirror, total |-> e.total, last |-> e.last, model |-> st.model, usable |-> usable]
           x == [st EXCEPT !.seen = @ \cup {<<e.total, e.last>>}, !.previous = e.total,
                           !.adjacent = None, !.rows = Append(@, row)]
<1>1. \/ Codex!OnCount(file, st, line, e) = [st EXCEPT !.previous = e.total]
      \/ Codex!OnCount(file, st, line, e) = st
      \/ Codex!OnCount(file, st, line, e) = x
  BY Zenon DEF Codex!OnCount
<1>2. CodexRow(row) /\ DOMAIN row = CodexColumns
  <2>1. DOMAIN row = CodexColumns
    BY DEF CodexColumns
  <2>2. usable => mirror = None /\ e.total # None /\ e.last # None
    BY DEF Codex!Advances
  <2> HIDE DEF mirror, usable
  <2>4. /\ row.at = e.at /\ row.kind = "legacy" /\ row.mirror = mirror /\ row.response = None
        /\ row.owner = file.thread /\ row.total = e.total /\ row.last = e.last /\ row.usable = usable
        /\ row.entry = <<"legacy", file.thread, e.total, e.last>>
    OBVIOUS
  <2> HIDE DEF row
  <2>5. CodexCount(row)
    BY <2>2, <2>4 DEF CodexCount
  <2> QED BY <2>1, <2>4, <2>5 DEF CodexRow
<1> HIDE DEF row
<1>4. DOMAIN x = CodexFields /\ x.rows = Append(st.rows, row)
  <2> DEFINE seen == st.seen \cup {<<e.total, e.last>>}
             rows == Append(st.rows, row)
  <2>1. x = [st EXCEPT !.seen = seen, !.previous = e.total, !.adjacent = None, !.rows = rows]
    BY Zenon
  <2> HIDE DEF seen, rows, x
  <2>2. DOMAIN x = CodexFields /\ x.rows = rows
    BY <1>3, <2>1 DEF CodexFields
  <2> QED BY <2>2 DEF rows
<1> HIDE DEF x
<1>5. CodexReading(x)
  BY <1>2, <1>3, <1>4, CodexAppended DEF CodexReading
<1> DEFINE y == [st EXCEPT !.previous = e.total]
<1>6. DOMAIN y = CodexFields /\ y.rows = st.rows
  BY <1>3 DEF CodexFields
<1> HIDE DEF y
<1>7. CodexReading(y)
  BY <1>3, <1>6 DEF CodexReading
<1> QED BY <1>1, <1>5, <1>7 DEF y

CodexLinesDated(file) == \A n \in 1..Len(file.lines) :
  file.lines[n].type \in {"response", "count"} => file.lines[n].at \in Nat \cup {None}
LEMMA CodexReads ==
  ASSUME NEW file, Len(file.lines) \in Nat, CodexLinesDated(file)
  PROVE  \E m \in Nat : DOMAIN Codex!ReadRows(file) = 1..m /\ \A i \in 1..m : CodexRow(Codex!ReadRows(file)[i])
<1> DEFINE n == Len(file.lines)
           J == CHOOSE f : f = [k \in 0..n |-> IF k = 0 THEN Codex!Start(file) ELSE Codex!OnLine(file, f[k - 1], k, file.lines[k])]
           end == J[n]
<1>1. Codex!ReadRows(file) = [i \in DOMAIN end.rows |-> Codex!Completed(end, end.rows[i])]
  BY Zenon DEF Codex!ReadRows
<1>2. J = [k \in 0..n |-> IF k = 0 THEN Codex!Start(file) ELSE Codex!OnLine(file, J[k - 1], k, file.lines[k])]
  <2>1. \E f : CodexIsReading(f, file, n)
    BY CodexReadingExists
  <2> QED BY <2>1, Zenon DEF CodexIsReading
<1> HIDE DEF J
<1> DEFINE T == {k \in Nat : k <= n => CodexReading(J[k])}
<1>3. 0 \in T
  <2>1. J[0] = Codex!Start(file)
    BY <1>2
  <2> QED BY <2>1, CodexStarts
<1>4. \A k \in T : k + 1 \in T
  <2> TAKE k \in T
  <2>1. SUFFICES ASSUME k + 1 <= n PROVE CodexReading(J[k + 1])
    OBVIOUS
  <2> DEFINE e == file.lines[k + 1]
             st == J[k]
  <2>2. k + 1 \in 1..n /\ (k + 1) - 1 = k /\ k <= n /\ CodexReading(st)
    BY <2>1
  <2>3. J[k + 1] = Codex!OnLine(file, st, k + 1, e)
    BY <1>2, <2>2
  <2>4. e.type \in {"response", "count"} => e.at \in Nat \cup {None}
    BY <2>2 DEF CodexLinesDated
  <2> HIDE DEF e, st, n
  <2>5. \/ J[k + 1] = st
        \/ J[k + 1] = Codex!OnTurn(file, st, e) \/ J[k + 1] = Codex!OnSettings(file, st, e)
        \/ e.type = "response" /\ J[k + 1] = Codex!OnResponse(file, st, k + 1, e)
        \/ e.type = "count" /\ J[k + 1] = Codex!OnCount(file, st, k + 1, e)
    BY <2>3, Zenon DEF Codex!OnLine
  <2> DEFINE l == k + 1
  <2> HIDE DEF l
  <2>6. e.type = "response" => CodexReading(Codex!OnResponse(file, st, k + 1, e))
    BY <2>2, <2>4, CodexOnResponse
  <2>7. e.type = "count" => CodexReading(Codex!OnCount(file, st, k + 1, e))
    BY <2>2, <2>4, CodexOnCount
  <2> QED BY <2>2, <2>5, <2>6, <2>7, CodexOtherLines
<1>5. CodexReading(end)
  <2>1. T = Nat
    <3>1. T \subseteq Nat
      OBVIOUS
    <3> HIDE DEF T
    <3> QED BY <1>3, <1>4, <3>1, AllNumbers
  <2> QED BY <2>1
<1> HIDE DEF end
<1>6. PICK S : end.rows \in Seq(S) /\ \A r \in S : CodexRow(r) /\ DOMAIN r = CodexColumns
  BY <1>5 DEF CodexReading, CodexRowsOf
<1> DEFINE m == Len(end.rows)
<1>7. m \in Nat /\ DOMAIN end.rows = 1..m /\ \A i \in 1..m : CodexRow(end.rows[i]) /\ DOMAIN end.rows[i] = CodexColumns
  BY <1>6
<1> HIDE DEF m
<1>8. \A i \in 1..m : CodexRow(Codex!Completed(end, end.rows[i]))
  <2> TAKE i \in 1..m
  <2> DEFINE r == end.rows[i]
  <2>1. CodexRow(r) /\ DOMAIN r = CodexColumns
    BY <1>7
  <2> HIDE DEF r
  <2> DEFINE name == Codex!ModelName(end.byTurn[r.turn])
             model == [r.model EXCEPT !.name = name]
             x == [r EXCEPT !.model = model]
  <2>2. Codex!Completed(end, r) = r \/ Codex!Completed(end, r) = [r EXCEPT !.model.name = name]
    BY Zenon DEF Codex!Completed
  <2> HIDE DEF name
  <2>3. [r EXCEPT !.model.name = name] = x
    BY Zenon
  <2> HIDE DEF model
  <2>4. /\ x.at = r.at /\ x.kind = r.kind /\ x.response = r.response /\ x.entry = r.entry /\ x.owner = r.owner
        /\ x.turn = r.turn /\ x.total = r.total /\ x.last = r.last /\ x.usable = r.usable /\ x.mirror = r.mirror
    BY <2>1 DEF CodexColumns
  <2> HIDE DEF x
  <2>5. CodexRow(x)
    <3>1. CodexCount(r) => CodexCount(x)
      BY <2>4 DEF CodexCount
    <3>2. CodexAnswer(r) => CodexAnswer(x)
      BY <2>4 DEF CodexAnswer
    <3> QED BY <2>1, <2>4, <3>1, <3>2 DEF CodexRow
  <2> QED BY <2>1, <2>2, <2>3, <2>5 DEF r
<1>9. DOMAIN Codex!ReadRows(file) = 1..m /\ \A i \in 1..m : CodexRow(Codex!ReadRows(file)[i])
  BY <1>1, <1>7, <1>8
<1> QED BY <1>7, <1>9

LEMMA CodexRowSays ==
  ASSUME NEW r, CodexRow(r)
  PROVE  /\ r.at \in Nat \cup {None} /\ r.kind \in {"legacy", "response"}
         /\ r.kind = "legacy" => /\ r.response = None /\ r.entry = <<"legacy", r.owner, r.total, r.last>>
                                 /\ r.usable => r.mirror = None /\ r.total # None /\ r.last # None
         /\ r.kind = "response" => /\ r.mirror = None /\ (r.usable => r.response # None)
                                   /\ r.entry = IF r.response # None THEN <<"response", r.response>>
                                                ELSE <<"unkeyed", r.owner, r.turn, r.total, r.last>>
<1>1. r.at \in Nat \cup {None} /\ (CodexCount(r) \/ CodexAnswer(r))
  BY DEF CodexRow
<1>2. CodexCount(r) => r.kind = "legacy"
  BY DEF CodexCount
<1>3. CodexAnswer(r) => r.kind = "response"
  BY DEF CodexAnswer
<1>4. r.kind \in {"legacy", "response"}
  BY <1>1, <1>2, <1>3
<1>5. ASSUME r.kind = "legacy"
      PROVE  /\ r.response = None /\ r.entry = <<"legacy", r.owner, r.total, r.last>>
             /\ r.usable => r.mirror = None /\ r.total # None /\ r.last # None
  <2>1. ~CodexAnswer(r)
    BY <1>3, <1>5
  <2> QED BY <1>1, <2>1, Zenon DEF CodexCount
<1>6. ASSUME r.kind = "response"
      PROVE  /\ r.mirror = None /\ (r.usable => r.response # None)
             /\ r.entry = IF r.response # None THEN <<"response", r.response>>
                          ELSE <<"unkeyed", r.owner, r.turn, r.total, r.last>>
  <2>1. ~CodexCount(r)
    BY <1>2, <1>6
  <2> QED BY <1>1, <2>1, Zenon DEF CodexAnswer
<1> QED BY <1>1, <1>4, <1>5, <1>6

(* What was read: rows in a sequence, and None is none of them. *)
CodexGeneration(g) == \E m \in Nat : DOMAIN g.rows = 1..m /\ \A i \in 1..m : CodexRow(g.rows[i])
CodexRead(L) == IsFiniteSet(L) /\ (\A g \in L : CodexGeneration(g)) /\ None \notin Codex!Rows(L) \cup Codex!Observations(L)

LEMMA CodexRowsOfAll ==
  ASSUME NEW L
  PROVE  /\ \A r : r \in Codex!Rows(L) <=> \E g \in L : \E i \in DOMAIN g.rows : r = g.rows[i]
         /\ \A o : o \in Codex!Observations(L) <=> \E r \in Codex!Rows(L) : o = Codex!Observation(r)
         /\ \A o, r : r \in Codex!Evidence(L, o) <=> r \in Codex!Rows(L) /\ Codex!Observation(r) = o
<1> DEFINE R(g) == {g.rows[i] : i \in DOMAIN g.rows}
<1>1. \A g, r : r \in R(g) <=> \E i \in DOMAIN g.rows : r = g.rows[i]
  BY Zenon
<1>2. Codex!Rows(L) = UNION {R(g) : g \in L}
  BY Zenon DEF Codex!Rows
<1> HIDE DEF R
<1>3. \A r : r \in UNION {R(g) : g \in L} <=> \E g \in L : r \in R(g)
  OBVIOUS
<1>4. \A r : r \in Codex!Rows(L) <=> \E g \in L : \E i \in DOMAIN g.rows : r = g.rows[i]
  BY <1>1, <1>2, <1>3
<1>5. \A o : o \in Codex!Observations(L) <=> \E r \in Codex!Rows(L) : o = Codex!Observation(r)
  BY Zenon DEF Codex!Observations
<1>6. \A o, r : r \in Codex!Evidence(L, o) <=> r \in Codex!Rows(L) /\ Codex!Observation(r) = o
  BY Zenon DEF Codex!Evidence
<1> QED BY <1>4, <1>5, <1>6

LEMMA CodexObserves ==
  ASSUME NEW r
  PROVE  LET o == Codex!Observation(r) IN
         o.owner = r.owner /\ o.entry = r.entry /\ o.at = r.at /\ o.model = r.model /\ o.last = r.last
  BY DEF Codex!Observation

LEMMA CodexRowsAreRows ==
  ASSUME NEW L, CodexRead(L)
  PROVE  \A r \in Codex!Rows(L) : CodexRow(r) /\ r # None
<1> TAKE r \in Codex!Rows(L)
<1>1. PICK g \in L : \E i \in DOMAIN g.rows : r = g.rows[i]
  BY CodexRowsOfAll
<1>2. PICK i \in DOMAIN g.rows : r = g.rows[i]
  BY <1>1
<1>3. CodexRow(r)
  BY <1>2 DEF CodexRead, CodexGeneration
<1> QED BY <1>3 DEF CodexRead

LEMMA CodexFinite ==
  ASSUME NEW L, CodexRead(L)
  PROVE  IsFiniteSet(Codex!Rows(L)) /\ IsFiniteSet(Codex!Observations(L))
<1> DEFINE R(g) == {g.rows[i] : i \in DOMAIN g.rows}
           f == [g \in L |-> R(g)]
<1>1. \A g \in L : IsFiniteSet(R(g))
  <2> TAKE g \in L
  <2>1. PICK m \in Nat : DOMAIN g.rows = 1..m
    BY DEF CodexRead, CodexGeneration
  <2>2. IsFiniteSet(DOMAIN g.rows)
    BY <2>1, FS_Interval
  <2> DEFINE D == DOMAIN g.rows
             h == g.rows
  <2>3. R(g) = {h[x] : x \in D}
    OBVIOUS
  <2> HIDE DEF D, h
  <2>4. IsFiniteSet({h[x] : x \in D})
    BY <2>2, FiniteImage DEF D
  <2> QED BY <2>3, <2>4
<1>2. Codex!Rows(L) = UNION {R(g) : g \in L}
  BY Zenon DEF Codex!Rows
<1> HIDE DEF R
<1>3. \A g \in L : f[g] = R(g)
  OBVIOUS
<1>4. {R(g) : g \in L} = {f[g] : g \in L}
  BY <1>3
<1> HIDE DEF f
<1>5. IsFiniteSet(UNION {f[g] : g \in L})
  <2>1. \A g \in L : IsFiniteSet(f[g])
    BY <1>1, <1>3
  <2> QED BY <2>1, FiniteUnion DEF CodexRead
<1>6. IsFiniteSet(Codex!Rows(L))
  BY <1>2, <1>4, <1>5
<1> DEFINE Q == Codex!Rows(L)
           o == [r \in Q |-> Codex!Observation(r)]
<1>7. Codex!Observations(L) = {o[r] : r \in Q}
  BY Zenon DEF Codex!Observations
<1> HIDE DEF o, Q
<1>8. IsFiniteSet({o[r] : r \in Q})
  BY <1>6, FiniteImage DEF Q
<1> QED BY <1>6, <1>7, <1>8

(* Part of what was read was read. *)
LEMMA CodexReadPart ==
  ASSUME NEW L, CodexRead(L), NEW G, G \subseteq L
  PROVE  CodexRead(G) /\ Codex!Rows(G) \subseteq Codex!Rows(L) /\ Codex!Observations(G) \subseteq Codex!Observations(L)
<1>1. IsFiniteSet(G)
  BY FS_Subset DEF CodexRead
<1>2. Codex!Rows(G) \subseteq Codex!Rows(L)
  BY CodexRowsOfAll
<1>3. Codex!Observations(G) \subseteq Codex!Observations(L)
  BY <1>2, CodexRowsOfAll
<1>4. \A g \in G : CodexGeneration(g)
  BY DEF CodexRead
<1> QED BY <1>1, <1>2, <1>3, <1>4 DEF CodexRead

(* The candidate of an observation is one of its rows that says most. *)
LEMMA CodexCandidate ==
  ASSUME NEW L, NEW o \in Codex!Observations(L)
  PROVE  /\ Codex!Candidate(L, o) \in Codex!Rows(L) /\ Codex!Observation(Codex!Candidate(L, o)) = o
         /\ \A q \in Codex!Evidence(L, o) : Codex!Says(q) <= Codex!Says(Codex!Candidate(L, o))
<1> DEFINE E == Codex!Evidence(L, o)
           f == [r \in E |-> Codex!Says(r)]
           T == {n \in 0..3 : \E r \in E : f[r] = n}
<1>1. \A r \in E : f[r] \in 0..3 /\ f[r] = Codex!Says(r)
  BY DEF Codex!Says
<1>2. E # {}
  BY CodexRowsOfAll
<1> HIDE DEF E, f
<1>3. T # {} /\ T \subseteq Nat
  BY <1>1, <1>2
<1>4. IsFiniteSet(T)
  <2>1. T \subseteq 0..3
    OBVIOUS
  <2>2. IsFiniteSet(0..3)
    <3>1. 0 \in Int /\ 3 \in Int
      OBVIOUS
    <3> HIDE DEF T
    <3> QED BY <3>1, FS_Interval
  <2> HIDE DEF T
  <2> QED BY <2>1, <2>2, FS_Subset
<1>5. PICK n \in T : \A k \in T : k <= n
  <2> HIDE DEF T
  <2> QED BY <1>3, <1>4, GreatestNumber
<1>6. PICK r \in E : f[r] = n
  BY <1>5
<1>7. \A q \in E : f[q] <= f[r]
  BY <1>1, <1>5, <1>6
<1>8. \E x \in E : \A q \in E : Codex!Says(q) <= Codex!Says(x)
  BY <1>1, <1>6, <1>7
<1>9. Codex!Candidate(L, o) = CHOOSE x \in E : \A q \in E : Codex!Says(q) <= Codex!Says(x)
  BY Zenon DEF Codex!Candidate, E
<1>10. Codex!Candidate(L, o) \in E /\ \A q \in E : Codex!Says(q) <= Codex!Says(Codex!Candidate(L, o))
  BY <1>8, <1>9
<1> QED BY <1>10, CodexRowsOfAll DEF E

LEMMA CodexCandidates ==
  ASSUME NEW L, CodexRead(L), NEW S
  PROVE  /\ \A c : c \in Codex!Candidates(L, S) <=>
                   c \in Codex!Rows(L) /\ c.owner \in S /\ c = Codex!Candidate(L, Codex!Observation(c))
         /\ \A o \in Codex!Observations(L) : o.owner \in S => Codex!Candidate(L, o) \in Codex!Candidates(L, S)
         /\ \A c, d \in Codex!Candidates(L, S) : Codex!Observation(c) = Codex!Observation(d) => c = d
         /\ \A c \in Codex!Candidates(L, S) : CodexRow(c) /\ c # None /\ Codex!Observation(c) \in Codex!Observations(L)
         /\ IsFiniteSet(Codex!Candidates(L, S))
<1>1. \A c : c \in Codex!Candidates(L, S) <=> \E o \in Codex!Observations(L) : o.owner \in S /\ c = Codex!Candidate(L, o)
  BY Zenon DEF Codex!Candidates
<1>2. \A c : c \in Codex!Candidates(L, S) <=>
             c \in Codex!Rows(L) /\ c.owner \in S /\ c = Codex!Candidate(L, Codex!Observation(c))
  <2> TAKE c
  <2>1. ASSUME NEW o \in Codex!Observations(L), o.owner \in S, c = Codex!Candidate(L, o)
        PROVE  c \in Codex!Rows(L) /\ c.owner \in S /\ c = Codex!Candidate(L, Codex!Observation(c))
    BY <2>1, CodexCandidate, CodexObserves
  <2>2. ASSUME c \in Codex!Rows(L), c.owner \in S, c = Codex!Candidate(L, Codex!Observation(c))
        PROVE  c \in Codex!Candidates(L, S)
    BY <1>1, <2>2, CodexRowsOfAll, CodexObserves
  <2> QED BY <1>1, <2>1, <2>2
<1>3. \A c \in Codex!Candidates(L, S) : CodexRow(c) /\ c # None /\ Codex!Observation(c) \in Codex!Observations(L)
  BY <1>2, CodexRowsAreRows, CodexRowsOfAll
<1>4. IsFiniteSet(Codex!Candidates(L, S))
  <2>1. Codex!Candidates(L, S) \subseteq Codex!Rows(L)
    BY <1>2
  <2> QED BY <2>1, CodexFinite, FS_Subset
<1> QED BY <1>1, <1>2, <1>3, <1>4

(* Of candidates there is an earliest. *)
LEMMA CodexCanonical ==
  ASSUME NEW C, IsFiniteSet(C), C # {}, \A c \in C : c.at \in Nat \cup {None}
  PROVE  Codex!Canonical(C) \in C
<1> DEFINE T == {n \in Nat : \E c \in C : c.at # None /\ c.at = n}
<1>1. \E c \in C : \A d \in C : Codex!Before(c, d)
  <2>1. CASE T = {}
    <3>1. \A c \in C : c.at = None
      BY <2>1
    <3> QED BY <3>1 DEF Codex!Before
  <2>2. CASE T # {}
    <3>1. PICK n \in T : \A m \in T : n <= m
      <4>1. T \subseteq Nat
        OBVIOUS
      <4> HIDE DEF T
      <4> QED BY <2>2, <4>1, LeastNumber
    <3>2. PICK c \in C : c.at # None /\ c.at = n
      BY <3>1
    <3>3. \A d \in C : Codex!Before(c, d)
      BY <3>1, <3>2 DEF Codex!Before
    <3> QED BY <3>3
  <2> QED BY <2>1, <2>2
<1> QED BY <1>1, Zenon DEF Codex!Canonical

(* A thread's parent is one that a header names. *)
LEMMA CodexParent ==
  ASSUME NEW L, NEW t, Codex!Parent(L, t) # None
  PROVE  Codex!Parent(L, t) \in Codex!Parents(L, t) /\ \E g \in L : g.thread = t /\ g.parent = Codex!Parent(L, t)
<1>1. Cardinality(Codex!Parents(L, t)) = 1 /\ Codex!Parent(L, t) = CHOOSE p \in Codex!Parents(L, t) : TRUE
  BY CodexLibrary DEF Codex!Parent
<1>2. Codex!Parents(L, t) # {}
  BY <1>1, FS_EmptySet
<1>3. Codex!Parent(L, t) \in Codex!Parents(L, t)
  BY <1>1, <1>2
<1> QED BY <1>3 DEF Codex!Parents

(* The line of a thread, from parent to parent. *)
CodexLine(L, t, line) ==
  /\ DOMAIN line = 0..MaxRead + 1 /\ line = [k \in 0..MaxRead + 1 |-> line[k]] /\ line[0] = t
  /\ \A k \in 1..MaxRead + 1 : /\ k \in 0..MaxRead + 1 /\ k - 1 \in 0..MaxRead + 1
                               /\ line[k] = IF line[k - 1] = None THEN None ELSE Codex!Parent(L, line[k - 1])
LEMMA CodexLineage ==
  ASSUME MaxRead \in Nat, NEW L, NEW t
  PROVE  CodexLine(L, t, Codex!Lineage(L, t))
<1> DEFINE n == MaxRead + 1
           A == {t, None} \cup {g.parent : g \in L}
           F == [x \in A |-> IF x = None THEN None ELSE Codex!Parent(L, x)]
           J == CHOOSE f : f = [k \in 0..n |-> IF k = 0 THEN t ELSE IF f[k - 1] = None THEN None ELSE Codex!Parent(L, f[k - 1])]
<1>1. n \in Nat
  OBVIOUS
<1>2. F \in [A -> A] /\ t \in A
  <2>1. \A x \in A : Codex!Parent(L, x) \in A
    <3> TAKE x \in A
    <3>1. CASE Codex!Parent(L, x) # None
      BY <3>1, CodexParent
    <3> QED BY <3>1
  <2> QED BY <2>1
<1>3. Codex!Lineage(L, t) = J
  BY Zenon DEF Codex!Lineage
<1> HIDE DEF n, A, F
<1>4. PICK f : InRounds(f, A, t, F, n)
  BY <1>1, <1>2, RoundsExist
<1>5. f \in [0..n -> A] /\ f[0] = t /\ \A k \in 1..n : f[k] = F[f[k - 1]]
  BY <1>4 DEF InRounds
<1>6. \A k \in 1..n : k - 1 \in 0..n /\ f[k] = IF f[k - 1] = None THEN None ELSE Codex!Parent(L, f[k - 1])
  <2> TAKE k \in 1..n
  <2>1. k - 1 \in 0..n
    BY <1>1
  <2>2. f[k - 1] \in A
    BY <1>5, <2>1
  <2> QED BY <1>5, <2>1, <2>2 DEF F
<1>7. f = [k \in 0..n |-> IF k = 0 THEN t ELSE IF f[k - 1] = None THEN None ELSE Codex!Parent(L, f[k - 1])]
  <2> DEFINE g == [k \in 0..n |-> IF k = 0 THEN t ELSE IF f[k - 1] = None THEN None ELSE Codex!Parent(L, f[k - 1])]
  <2>1. \A k \in 0..n : f[k] = g[k]
    <3> TAKE k \in 0..n
    <3>1. CASE k = 0
      BY <1>5, <3>1
    <3>2. CASE k # 0
      <4>1. k \in 1..n
        BY <1>1, <3>2
      <4> QED BY <1>6, <3>2, <4>1
    <3> QED BY <3>1, <3>2
  <2>2. f = [k \in 0..n |-> f[k]] /\ g = [k \in 0..n |-> g[k]]
    BY <1>5
  <2> HIDE DEF g
  <2>3. f = g
    BY <2>1, <2>2
  <2> QED BY <2>3 DEF g
<1>8. J = [k \in 0..n |-> IF k = 0 THEN t ELSE IF J[k - 1] = None THEN None ELSE Codex!Parent(L, J[k - 1])]
  BY <1>7, Zenon
<1> HIDE DEF J
<1>9. J[0] = t /\ DOMAIN J = 0..n
  BY <1>1, <1>8
<1>10. J = [k \in 0..n |-> J[k]]
  BY <1>8
<1>11. \A k \in 1..n : k - 1 \in 0..n /\ k \in 0..n /\ J[k] = IF J[k - 1] = None THEN None ELSE Codex!Parent(L, J[k - 1])
  <2> TAKE k \in 1..n
  <2>1. k - 1 \in 0..n /\ k \in 0..n /\ k # 0
    BY <1>1
  <2>2. J[k] = IF k = 0 THEN t ELSE IF J[k - 1] = None THEN None ELSE Codex!Parent(L, J[k - 1])
    BY <1>8, <2>1, Zenon
  <2> QED BY <2>1, <2>2
<1> QED BY <1>3, <1>9, <1>10, <1>11 DEF CodexLine, n

(* Lines that name the same parents are the same, and stay where parents do. *)
LEMMA CodexLinesSame ==
  ASSUME MaxRead \in Nat, NEW L, NEW M, NEW X, NEW t \in X,
         \A x \in X : Codex!Parent(L, x) = Codex!Parent(M, x) /\ Codex!Parent(M, x) \in X \cup {None}
  PROVE  /\ Codex!Lineage(L, t) = Codex!Lineage(M, t)
         /\ \A k \in DOMAIN Codex!Lineage(M, t) : Codex!Lineage(M, t)[k] \in X \cup {None}
<1> DEFINE l == Codex!Lineage(L, t)
           m == Codex!Lineage(M, t)
           n == MaxRead + 1
<1>1. CodexLine(L, t, l) /\ CodexLine(M, t, m)
  BY CodexLineage
<1> HIDE DEF l, m, n
<1>2. n \in Nat /\ DOMAIN l = 0..n /\ DOMAIN m = 0..n /\ l = [k \in 0..n |-> l[k]] /\ m = [k \in 0..n |-> m[k]] /\ l[0] = t /\ m[0] = t
  BY <1>1 DEF CodexLine, n
<1>3. \A k \in 1..n : /\ l[k] = IF l[k - 1] = None THEN None ELSE Codex!Parent(L, l[k - 1])
                      /\ m[k] = IF m[k - 1] = None THEN None ELSE Codex!Parent(M, m[k - 1])
  BY <1>1 DEF CodexLine, n
<1> DEFINE T == {k \in Nat : k <= n => l[k] = m[k] /\ m[k] \in X \cup {None}}
<1>4. T = Nat
  <2>1. T \subseteq Nat /\ 0 \in T
    BY <1>2
  <2>2. ASSUME NEW k \in T PROVE k + 1 \in T
    <3> SUFFICES ASSUME k + 1 <= n PROVE l[k + 1] = m[k + 1] /\ m[k + 1] \in X \cup {None}
      OBVIOUS
    <3>1. k \in Nat /\ k + 1 \in 1..n /\ (k + 1) - 1 = k /\ l[k] = m[k] /\ m[k] \in X \cup {None}
      BY <1>2
    <3>2. /\ l[k + 1] = IF l[k] = None THEN None ELSE Codex!Parent(L, l[k])
          /\ m[k + 1] = IF m[k] = None THEN None ELSE Codex!Parent(M, m[k])
      BY <1>3, <3>1
    <3> QED BY <3>1, <3>2
  <2> HIDE DEF T
  <2> QED BY <2>1, <2>2, AllNumbers
<1>5. \A k \in 0..n : l[k] = m[k] /\ m[k] \in X \cup {None}
  <2> TAKE k \in 0..n
  <2>1. k \in Nat /\ k <= n
    BY <1>2
  <2>2. k \in T
    BY <1>4, <2>1
  <2> QED BY <2>1, <2>2
<1> QED BY <1>2, <1>5 DEF l, m

(* The threads and the responses that a generation speaks of; what was read,
   in two parts that speak of none in common. *)
CodexThreads(g) == {g.thread} \cup ({g.parent} \ {None}) \cup {g.rows[i].owner : i \in DOMAIN g.rows}
CodexNames(g) == ({g.rows[i].response : i \in DOMAIN g.rows} \cup {g.rows[i].mirror : i \in DOMAIN g.rows}) \ {None}
CodexApart(G, H) == \A g \in G, h \in H : CodexThreads(g) \cap CodexThreads(h) = {} /\ CodexNames(g) \cap CodexNames(h) = {}
CodexSplit(L, G, H) == CodexRead(L) /\ L = G \cup H /\ CodexApart(G, H)
CodexSeen(G) == UNION {CodexThreads(g) : g \in G}
CodexTold(G) == UNION {CodexNames(g) : g \in G}

LEMMA CodexSpeaks ==
  ASSUME NEW G
  PROVE  /\ \A g \in G : g.thread \in CodexSeen(G) /\ (g.parent # None => g.parent \in CodexSeen(G))
         /\ \A r \in Codex!Rows(G) : /\ r.owner \in CodexSeen(G)
                                     /\ r.response # None => r.response \in CodexTold(G)
                                     /\ r.mirror # None => r.mirror \in CodexTold(G)
         /\ \A t : t \in Codex!KnownThreads(G) <=> (\E g \in G : t = g.thread) \/ \E r \in Codex!Rows(G) : t = r.owner
         /\ Codex!KnownThreads(G) \subseteq CodexSeen(G)
<1>1. \A g \in G : CodexThreads(g) \subseteq CodexSeen(G) /\ CodexNames(g) \subseteq CodexTold(G)
  BY DEF CodexSeen, CodexTold
<1>2. \A g \in G : g.thread \in CodexSeen(G) /\ (g.parent # None => g.parent \in CodexSeen(G))
  BY <1>1 DEF CodexThreads
<1>3. ASSUME NEW r \in Codex!Rows(G)
      PROVE  /\ r.owner \in CodexSeen(G)
             /\ r.response # None => r.response \in CodexTold(G)
             /\ r.mirror # None => r.mirror \in CodexTold(G)
  <2>1. PICK g \in G : \E i \in DOMAIN g.rows : r = g.rows[i]
    BY CodexRowsOfAll
  <2>2. PICK i \in DOMAIN g.rows : r = g.rows[i]
    BY <2>1
  <2>3. r.owner \in CodexThreads(g)
    BY <2>2 DEF CodexThreads
  <2>4. r.response \in {g.rows[j].response : j \in DOMAIN g.rows} /\ r.mirror \in {g.rows[j].mirror : j \in DOMAIN g.rows}
    BY <2>2
  <2>5. (r.response # None => r.response \in CodexNames(g)) /\ (r.mirror # None => r.mirror \in CodexNames(g))
    BY <2>4 DEF CodexNames
  <2> QED BY <1>1, <2>3, <2>5
<1>4. \A t : t \in Codex!KnownThreads(G) <=> (\E g \in G : t = g.thread) \/ \E r \in Codex!Rows(G) : t = r.owner
  BY Zenon DEF Codex!KnownThreads
<1>5. Codex!KnownThreads(G) \subseteq CodexSeen(G)
  BY <1>2, <1>3, <1>4
<1> QED BY <1>2, <1>3, <1>4, <1>5

LEMMA CodexSplits ==
  ASSUME NEW L, NEW G, NEW H, CodexSplit(L, G, H)
  PROVE  /\ CodexSplit(L, H, G) /\ CodexRead(G) /\ CodexRead(H)
         /\ CodexSeen(G) \cap CodexSeen(H) = {} /\ CodexTold(G) \cap CodexTold(H) = {}
<1>1. L = H \cup G /\ CodexApart(H, G)
  BY DEF CodexSplit, CodexApart
<1>2. CodexRead(G) /\ CodexRead(H)
  BY CodexReadPart DEF CodexSplit
<1>3. \A t : t \in CodexSeen(G) /\ t \in CodexSeen(H) => FALSE
  BY DEF CodexSplit, CodexApart, CodexSeen
<1>4. \A t : t \in CodexTold(G) /\ t \in CodexTold(H) => FALSE
  BY DEF CodexSplit, CodexApart, CodexTold
<1> QED BY <1>1, <1>2, <1>3, <1>4 DEF CodexSplit

(* Whose rows a part holds. *)
LEMMA CodexSplitRows ==
  ASSUME NEW L, NEW G, NEW H, CodexSplit(L, G, H)
  PROVE  /\ Codex!Rows(L) = Codex!Rows(G) \cup Codex!Rows(H)
         /\ Codex!Observations(L) = Codex!Observations(G) \cup Codex!Observations(H)
         /\ Codex!KnownThreads(L) = Codex!KnownThreads(G) \cup Codex!KnownThreads(H)
         /\ \A r \in Codex!Rows(L) : r.owner \in CodexSeen(G) => r \in Codex!Rows(G)
         /\ \A r \in Codex!Rows(L) : (r.response # None /\ r.response \in CodexTold(G)) => r \in Codex!Rows(G)
         /\ \A o \in Codex!Observations(L) : o.owner \in CodexSeen(G) <=> o \in Codex!Observations(G)
         /\ \A o \in Codex!Observations(G) : o.owner \in Codex!KnownThreads(G)
         /\ \A t \in Codex!KnownThreads(L) : t \in CodexSeen(G) <=> t \in Codex!KnownThreads(G)
<1>1. L = G \cup H /\ CodexSeen(G) \cap CodexSeen(H) = {} /\ CodexTold(G) \cap CodexTold(H) = {}
  BY CodexSplits DEF CodexSplit
<1>2. Codex!Rows(L) = Codex!Rows(G) \cup Codex!Rows(H)
  BY <1>1, CodexRowsOfAll
<1>3. Codex!Observations(L) = Codex!Observations(G) \cup Codex!Observations(H)
  BY <1>2, CodexRowsOfAll
<1>4. Codex!KnownThreads(L) = Codex!KnownThreads(G) \cup Codex!KnownThreads(H)
  <2>1. \A t : t \in Codex!KnownThreads(L) <=> (\E g \in L : t = g.thread) \/ \E r \in Codex!Rows(L) : t = r.owner
    BY CodexSpeaks
  <2>2. \A t : t \in Codex!KnownThreads(G) <=> (\E g \in G : t = g.thread) \/ \E r \in Codex!Rows(G) : t = r.owner
    BY CodexSpeaks
  <2>3. \A t : t \in Codex!KnownThreads(H) <=> (\E g \in H : t = g.thread) \/ \E r \in Codex!Rows(H) : t = r.owner
    BY CodexSpeaks
  <2> QED BY <1>1, <1>2, <2>1, <2>2, <2>3
<1>5. \A r \in Codex!Rows(L) : r.owner \in CodexSeen(G) => r \in Codex!Rows(G)
  BY <1>1, <1>2, CodexSpeaks
<1>6. \A r \in Codex!Rows(L) : (r.response # None /\ r.response \in CodexTold(G)) => r \in Codex!Rows(G)
  BY <1>1, <1>2, CodexSpeaks
<1>7. \A o \in Codex!Observations(G) : o.owner \in Codex!KnownThreads(G)
  BY CodexRowsOfAll, CodexObserves, CodexSpeaks
<1>8. \A o \in Codex!Observations(H) : o.owner \in CodexSeen(H)
  BY CodexRowsOfAll, CodexObserves, CodexSpeaks
<1>9. \A o \in Codex!Observations(L) : o.owner \in CodexSeen(G) <=> o \in Codex!Observations(G)
  BY <1>1, <1>3, <1>7, <1>8, CodexSpeaks
<1>10. \A t \in Codex!KnownThreads(L) : t \in CodexSeen(G) <=> t \in Codex!KnownThreads(G)
  BY <1>1, <1>4, CodexSpeaks
<1> QED BY <1>2, <1>3, <1>4, <1>5, <1>6, <1>7, <1>9, <1>10

(* What a part says of its threads is all that is said of them. *)
LEMMA CodexSplitThreads ==
  ASSUME NEW L, NEW G, NEW H, CodexSplit(L, G, H), NEW t \in CodexSeen(G)
  PROVE  /\ Codex!Parents(L, t) = Codex!Parents(G, t) /\ Codex!Parent(L, t) = Codex!Parent(G, t)
         /\ Codex!Parent(G, t) \in CodexSeen(G) \cup {None}
         /\ Codex!Conflicting(L, t) <=> Codex!Conflicting(G, t)
         /\ Codex!MissingParent(L, t) <=> Codex!MissingParent(G, t)
<1>1. L = G \cup H /\ CodexSeen(G) \cap CodexSeen(H) = {}
  BY CodexSplits DEF CodexSplit
<1>2. \A g : (g \in L /\ g.thread = t) <=> (g \in G /\ g.thread = t)
  BY <1>1, CodexSpeaks
<1>3. Codex!Parents(L, t) = Codex!Parents(G, t)
  <2>1. {h \in L : h.thread = t} = {h \in G : h.thread = t}
    BY <1>2
  <2> QED BY <2>1, Zenon DEF Codex!Parents
<1>4. Codex!Parent(L, t) = Codex!Parent(G, t)
  BY <1>3 DEF Codex!Parent
<1>5. Codex!Parent(G, t) \in CodexSeen(G) \cup {None}
  BY CodexParent, CodexSpeaks
<1>6. Codex!Conflicting(L, t) <=> Codex!Conflicting(G, t)
  <2>1. (\E g, h \in L : g.thread = t /\ h.thread = t /\ g.cwd # h.cwd) <=> (\E g, h \in G : g.thread = t /\ h.thread = t /\ g.cwd # h.cwd)
    BY <1>2
  <2> QED BY <1>3, <2>1, Zenon DEF Codex!Conflicting
<1>7. Codex!MissingParent(L, t) <=> Codex!MissingParent(G, t)
  <2>1. Codex!KnownThreads(L) = Codex!KnownThreads(G) \cup Codex!KnownThreads(H)
    BY CodexSplitRows
  <2>2. Codex!Parent(G, t) # None => (Codex!Parent(G, t) \in Codex!KnownThreads(L) <=> Codex!Parent(G, t) \in Codex!KnownThreads(G))
    BY <1>1, <1>5, <2>1, CodexSpeaks
  <2> QED BY <1>4, <2>2, Zenon DEF Codex!MissingParent
<1> QED BY <1>3, <1>4, <1>5, <1>6, <1>7

LEMMA CodexSplitLines ==
  ASSUME MaxRead \in Nat, NEW L, NEW G, NEW H, CodexSplit(L, G, H), NEW t \in CodexSeen(G)
  PROVE  /\ Codex!Lineage(L, t) = Codex!Lineage(G, t)
         /\ \A k \in DOMAIN Codex!Lineage(G, t) : Codex!Lineage(G, t)[k] \in CodexSeen(G) \cup {None}
         /\ Codex!Ancestors(L, t) = Codex!Ancestors(G, t) /\ Codex!Ancestors(G, t) \subseteq CodexSeen(G)
         /\ Codex!Circular(L, t) <=> Codex!Circular(G, t)
<1> DEFINE X == CodexSeen(G)
<1>1. \A x \in X : Codex!Parent(L, x) = Codex!Parent(G, x) /\ Codex!Parent(G, x) \in X \cup {None}
  BY CodexSplitThreads
<1>2. t \in X
  OBVIOUS
<1> HIDE DEF X
<1>3. /\ Codex!Lineage(L, t) = Codex!Lineage(G, t)
      /\ \A k \in DOMAIN Codex!Lineage(G, t) : Codex!Lineage(G, t)[k] \in X \cup {None}
  BY <1>1, <1>2, CodexLinesSame
<1>4. Codex!Ancestors(L, t) = Codex!Ancestors(G, t)
  BY <1>3, Zenon DEF Codex!Ancestors
<1>5. Codex!Ancestors(G, t) \subseteq X
  BY <1>3 DEF Codex!Ancestors
<1>6. Codex!Circular(L, t) <=> Codex!Circular(G, t)
  BY <1>3, Zenon DEF Codex!Circular
<1> QED BY <1>3, <1>4, <1>5, <1>6 DEF X

(* The candidates of a part, among those of all that was read. *)
LEMMA CodexSplitCandidates ==
  ASSUME NEW L, NEW G, NEW H, CodexSplit(L, G, H), NEW S, Codex!KnownThreads(G) \subseteq S,
         NEW C, C = Codex!Candidates(L, S), NEW D, D = Codex!Candidates(G, Codex!KnownThreads(G))
  PROVE  /\ \A o \in Codex!Observations(G) : Codex!Candidate(L, o) = Codex!Candidate(G, o)
         /\ D \subseteq C /\ \A d \in D : d \in Codex!Rows(G) /\ d.owner \in CodexSeen(G)
         /\ \A c \in C : c.owner \in CodexSeen(G) => c \in D
         /\ \A c \in C : c.response # None /\ c.response \in CodexTold(G) => c \in D
<1>0. CodexRead(L) /\ CodexRead(G)
  BY CodexSplits DEF CodexSplit
<1>1. \A o \in Codex!Observations(G) : Codex!Candidate(L, o) = Codex!Candidate(G, o)
  <2> TAKE o \in Codex!Observations(G)
  <2>1. o.owner \in CodexSeen(G)
    BY CodexSplitRows, CodexSpeaks
  <2>2. \A r : r \in Codex!Evidence(L, o) <=> r \in Codex!Evidence(G, o)
    <3> TAKE r
    <3>1. r \in Codex!Rows(L) /\ Codex!Observation(r) = o => r \in Codex!Rows(G)
      BY <2>1, CodexSplitRows, CodexObserves
    <3>2. r \in Codex!Rows(G) => r \in Codex!Rows(L)
      BY CodexSplitRows
    <3> QED BY <3>1, <3>2, CodexRowsOfAll
  <2>3. Codex!Evidence(L, o) = Codex!Evidence(G, o)
    BY <2>2
  <2> QED BY <2>3, Zenon DEF Codex!Candidate
<1>2. \A d : d \in D <=> d \in Codex!Rows(G) /\ d = Codex!Candidate(G, Codex!Observation(d))
  BY <1>0, CodexCandidates, CodexSpeaks
<1>3. \A c : c \in C <=> c \in Codex!Rows(L) /\ c.owner \in S /\ c = Codex!Candidate(L, Codex!Observation(c))
  BY <1>0, CodexCandidates
<1>4. \A r \in Codex!Rows(G) : Codex!Observation(r) \in Codex!Observations(G) /\ r \in Codex!Rows(L) /\ r.owner \in S /\ r.owner \in CodexSeen(G)
  BY CodexRowsOfAll, CodexSplitRows, CodexSpeaks
<1>5. \A c \in C : c \in Codex!Rows(G) => c \in D
  BY <1>1, <1>2, <1>3, <1>4
<1>6. D \subseteq C
  BY <1>1, <1>2, <1>3, <1>4
<1> QED BY <1>1, <1>2, <1>3, <1>4, <1>5, <1>6, CodexSplitRows

LEMMA CodexSplitGroups ==
  ASSUME NEW L, NEW G, NEW H, CodexSplit(L, G, H), NEW S, Codex!KnownThreads(G) \subseteq S,
         NEW C, C = Codex!Candidates(L, S), NEW D, D = Codex!Candidates(G, Codex!KnownThreads(G))
  PROVE  /\ \A id \in CodexTold(G) : Codex!OfResponse(C, id) = Codex!OfResponse(D, id)
         /\ \A t \in CodexSeen(G) : \A total : Codex!OfCount(C, t, total) = Codex!OfCount(D, t, total)
         /\ \A t \in CodexSeen(G) : \A c : Codex!Matches(C, t, c) = Codex!Matches(D, t, c)
         /\ \A d \in D : Codex!ModernTwins(C, d) = Codex!ModernTwins(D, d)
<1>1. /\ D \subseteq C /\ \A d \in D : d.owner \in CodexSeen(G)
      /\ \A c \in C : c.owner \in CodexSeen(G) => c \in D
      /\ \A c \in C : c.response # None /\ c.response \in CodexTold(G) => c \in D
  BY CodexSplitCandidates
<1>2. \A id \in CodexTold(G) : Codex!OfResponse(C, id) = Codex!OfResponse(D, id)
  BY <1>1 DEF Codex!OfResponse
<1>3. \A t \in CodexSeen(G) : \A total : Codex!OfCount(C, t, total) = Codex!OfCount(D, t, total)
  BY <1>1 DEF Codex!OfCount
<1>4. \A t \in CodexSeen(G) : \A c : Codex!Matches(C, t, c) = Codex!Matches(D, t, c)
  BY <1>3, Zenon DEF Codex!Matches
<1>5. \A d \in D : Codex!ModernTwins(C, d) = Codex!ModernTwins(D, d)
  BY <1>1 DEF Codex!ModernTwins
<1> QED BY <1>2, <1>3, <1>4, <1>5

LEMMA CodexSplitInherits ==
  ASSUME MaxRead \in Nat,
         NEW L, NEW G, NEW H, CodexSplit(L, G, H), NEW S, Codex!KnownThreads(G) \subseteq S,
         NEW C, C = Codex!Candidates(L, S), NEW D, D = Codex!Candidates(G, Codex!KnownThreads(G))
  PROVE  /\ \A r \in Codex!Rows(G) : Codex!Inherits(L, C, r) <=> Codex!Inherits(G, D, r)
         /\ \A o \in Codex!Observations(G) : Codex!Replayed(L, C, o) <=> Codex!Replayed(G, D, o)
<1>1. /\ D \subseteq C /\ \A d \in D : d.owner \in CodexSeen(G)
      /\ \A c \in C : c.owner \in CodexSeen(G) => c \in D
  BY CodexSplitCandidates
<1>2. \A t \in CodexSeen(G) : Codex!AncestorCounts(L, C, t) = Codex!AncestorCounts(G, D, t)
  <2> TAKE t \in CodexSeen(G)
  <2>1. Codex!Ancestors(L, t) = Codex!Ancestors(G, t) /\ Codex!Ancestors(G, t) \subseteq CodexSeen(G)
    BY CodexSplitLines
  <2>2. {d \in C : d.kind = "legacy" /\ d.total # None /\ d.owner \in Codex!Ancestors(L, t)}
        = {d \in D : d.kind = "legacy" /\ d.total # None /\ d.owner \in Codex!Ancestors(G, t)}
    BY <1>1, <2>1
  <2> QED BY <2>2, Zenon DEF Codex!AncestorCounts
<1>3. \A r \in Codex!Rows(G) : Codex!Inherits(L, C, r) <=> Codex!Inherits(G, D, r)
  <2> TAKE r \in Codex!Rows(G)
  <2>1. Codex!AncestorCounts(L, C, r.owner) = Codex!AncestorCounts(G, D, r.owner)
    BY <1>2, CodexSpeaks
  <2> QED BY <2>1, Zenon DEF Codex!Inherits
<1>4. \A g \in G : \A i \in DOMAIN g.rows : Codex!InheritedTo(L, C, g, i) <=> Codex!InheritedTo(G, D, g, i)
  <2> TAKE g \in G
  <2> TAKE i \in DOMAIN g.rows
  <2>1. PICK m \in Nat : DOMAIN g.rows = 1..m
    BY DEF CodexSplit, CodexRead, CodexGeneration
  <2>2. \A j \in 1..i : j \in DOMAIN g.rows
    BY <2>1
  <2>3. \A j \in 1..i : Codex!Inherits(L, C, g.rows[j]) <=> Codex!Inherits(G, D, g.rows[j])
    BY <1>3, <2>2, CodexRowsOfAll
  <2> QED BY <2>3, Zenon DEF Codex!InheritedTo
<1>5. ASSUME NEW o \in Codex!Observations(G)
      PROVE  Codex!Replayed(L, C, o) <=> Codex!Replayed(G, D, o)
  <2>1. L = G \cup H /\ CodexSeen(G) \cap CodexSeen(H) = {}
    BY CodexSplits DEF CodexSplit
  <2>2. o.owner \in CodexSeen(G)
    BY CodexSplitRows, CodexSpeaks
  <2>3. \A g \in H : \A i \in DOMAIN g.rows : Codex!Observation(g.rows[i]) # o
    <3> TAKE g \in H
    <3> TAKE i \in DOMAIN g.rows
    <3>1. g.rows[i].owner \in CodexSeen(H)
      BY CodexRowsOfAll, CodexSpeaks
    <3> QED BY <2>1, <2>2, <3>1, CodexObserves
  <2> DEFINE OfL(g, i) == Codex!Observation(g.rows[i]) = o => Codex!InheritedTo(L, C, g, i)
             OfG(g, i) == Codex!Observation(g.rows[i]) = o => Codex!InheritedTo(G, D, g, i)
  <2>4. \A g \in G : \A i \in DOMAIN g.rows : OfL(g, i) <=> OfG(g, i)
    BY <1>4
  <2>5. \A g \in H : \A i \in DOMAIN g.rows : OfL(g, i)
    BY <2>3
  <2>6. Codex!Replayed(L, C, o) <=> \A g \in L : \A i \in DOMAIN g.rows : OfL(g, i)
    BY Zenon DEF Codex!Replayed
  <2>7. Codex!Replayed(G, D, o) <=> \A g \in G : \A i \in DOMAIN g.rows : OfG(g, i)
    BY Zenon DEF Codex!Replayed
  <2> HIDE DEF OfL, OfG
  <2> QED BY <2>1, <2>4, <2>5, <2>6, <2>7
<1> QED BY <1>3, <1>5

(* The nearest of the ancestors. *)
LEMMA CodexNearest ==
  ASSUME MaxRead \in Nat, NEW L, NEW C, NEW c, Codex!MatchingAncestors(L, C, c) # {}
  PROVE  LET K == Codex!MatchingAncestors(L, C, c) IN
         /\ K \subseteq 1..MaxRead + 1 /\ Codex!Nearest(K) \in K
         /\ Codex!Replayed(L, C, Codex!Observation(c))
         /\ \A k \in K : /\ Codex!Lineage(L, c.owner)[k] \in Codex!Ancestors(L, c.owner)
                         /\ Codex!Matches(C, Codex!Lineage(L, c.owner)[k], c) # {}
<1> DEFINE K == Codex!MatchingAncestors(L, C, c)
           line == Codex!Lineage(L, c.owner)
<1>1. DOMAIN line = 0..MaxRead + 1
  BY CodexLineage DEF CodexLine
<1>2. /\ Codex!Replayed(L, C, Codex!Observation(c))
      /\ K = {k \in DOMAIN line \ {0} : /\ line[k] \in Codex!Ancestors(L, c.owner) /\ Codex!Searched(L, c.owner, k)
                                        /\ Codex!Matches(C, line[k], c) # {}}
  BY DEF Codex!MatchingAncestors
<1> HIDE DEF K, line
<1>3. K \subseteq 1..MaxRead + 1 /\ \A k \in K : line[k] \in Codex!Ancestors(L, c.owner) /\ Codex!Matches(C, line[k], c) # {}
  BY <1>1, <1>2
<1>4. PICK k \in K : \A j \in K : k <= j
  <2>1. K # {} /\ K \subseteq Nat
    BY <1>3 DEF K
  <2> QED BY <2>1, LeastNumber
<1>5. Codex!Nearest(K) \in K
  BY <1>4, Zenon DEF Codex!Nearest
<1> QED BY <1>2, <1>3, <1>5 DEF K, line

(* A part decides about its rows as all that was read does. *)
LEMMA CodexSplitSearch ==
  ASSUME MaxRead \in Nat,
         NEW L, NEW G, NEW H, CodexSplit(L, G, H), NEW S, Codex!KnownThreads(G) \subseteq S,
         NEW C, C = Codex!Candidates(L, S), NEW D, D = Codex!Candidates(G, Codex!KnownThreads(G)), NEW c \in D
  PROVE  /\ Codex!MatchingAncestors(L, C, c) = Codex!MatchingAncestors(G, D, c)
         /\ \A k \in Codex!MatchingAncestors(G, D, c) : Codex!Lineage(G, c.owner)[k] \in CodexSeen(G)
         /\ Codex!SearchFails(L, c.owner) <=> Codex!SearchFails(G, c.owner)
<1> DEFINE t == c.owner
           line == Codex!Lineage(G, t)
<1>1. t \in CodexSeen(G) /\ Codex!Observation(c) \in Codex!Observations(G)
  BY CodexSplitCandidates, CodexRowsOfAll
<1>2. Codex!Replayed(L, C, Codex!Observation(c)) <=> Codex!Replayed(G, D, Codex!Observation(c))
  BY <1>1, CodexSplitInherits
<1> HIDE DEF t
<1>3. /\ Codex!Lineage(L, t) = line /\ \A k \in DOMAIN line : line[k] \in CodexSeen(G) \cup {None}
      /\ Codex!Ancestors(L, t) = Codex!Ancestors(G, t) /\ Codex!Ancestors(G, t) \subseteq CodexSeen(G)
      /\ Codex!Circular(L, t) <=> Codex!Circular(G, t)
  BY <1>1, CodexSplitLines
<1>4. DOMAIN line = 0..MaxRead + 1
  BY CodexLineage DEF CodexLine
<1>5. \A k \in DOMAIN line : Codex!Searched(L, t, k) <=> Codex!Searched(G, t, k)
  <2> TAKE k \in DOMAIN line
  <2> HIDE DEF line
  <2>1. \A j \in 0..k - 1 : j \in DOMAIN line
    BY <1>4
  <2>2. \A j \in 0..k - 1 : line[j] # None => (Codex!MissingParent(L, line[j]) <=> Codex!MissingParent(G, line[j]))
    BY <1>3, <2>1, CodexSplitThreads
  <2>3. Codex!Searched(L, t, k) <=> \A j \in 0..k - 1 : line[j] # None /\ ~Codex!MissingParent(L, line[j]) /\ line[j] \notin {line[i] : i \in 0..j - 1}
    BY <1>3, Zenon DEF Codex!Searched
  <2>4. Codex!Searched(G, t, k) <=> \A j \in 0..k - 1 : line[j] # None /\ ~Codex!MissingParent(G, line[j]) /\ line[j] \notin {line[i] : i \in 0..j - 1}
    BY Zenon DEF Codex!Searched, line
  <2>5. \A j \in 0..k - 1 : (line[j] # None /\ ~Codex!MissingParent(L, line[j]) /\ line[j] \notin {line[i] : i \in 0..j - 1})
                      <=> (line[j] # None /\ ~Codex!MissingParent(G, line[j]) /\ line[j] \notin {line[i] : i \in 0..j - 1})
    BY <2>2, Zenon
  <2> QED BY <2>3, <2>4, <2>5, Zenon
<1>6. Codex!MatchingAncestors(L, C, c) = Codex!MatchingAncestors(G, D, c)
  <2> DEFINE K(M, B) == {k \in DOMAIN line \ {0} : /\ line[k] \in Codex!Ancestors(M, t) /\ Codex!Searched(M, t, k)
                                                  /\ Codex!Matches(B, line[k], c) # {}}
  <2>1. Codex!MatchingAncestors(L, C, c) = IF ~Codex!Replayed(L, C, Codex!Observation(c)) THEN {} ELSE K(L, C)
    BY <1>3, Zenon DEF Codex!MatchingAncestors, t
  <2>2. Codex!MatchingAncestors(G, D, c) = IF ~Codex!Replayed(G, D, Codex!Observation(c)) THEN {} ELSE K(G, D)
    BY Zenon DEF Codex!MatchingAncestors, t, line
  <2>3. K(L, C) = K(G, D)
    <3>1. \A s \in CodexSeen(G) : Codex!Matches(C, s, c) = Codex!Matches(D, s, c)
      BY CodexSplitGroups
    <3> HIDE DEF line
    <3>2. \A k \in DOMAIN line \ {0} :
            (line[k] \in Codex!Ancestors(L, t) /\ Codex!Searched(L, t, k) /\ Codex!Matches(C, line[k], c) # {})
            <=> (line[k] \in Codex!Ancestors(G, t) /\ Codex!Searched(G, t, k) /\ Codex!Matches(D, line[k], c) # {})
      BY <1>3, <1>5, <3>1
    <3> QED BY <3>2
  <2> HIDE DEF K
  <2> QED BY <1>2, <2>1, <2>2, <2>3
<1>7. \A k \in Codex!MatchingAncestors(G, D, c) : line[k] \in CodexSeen(G)
  <2>1. \A k \in Codex!MatchingAncestors(G, D, c) : line[k] \in Codex!Ancestors(G, t)
    BY DEF Codex!MatchingAncestors, t
  <2> HIDE DEF line
  <2> QED BY <1>3, <2>1
<1>8. Codex!SearchFails(L, t) <=> Codex!SearchFails(G, t)
  <2>1. \A a \in {t} \cup Codex!Ancestors(G, t) : Codex!MissingParent(L, a) <=> Codex!MissingParent(G, a)
    BY <1>1, <1>3, CodexSplitThreads
  <2> QED BY <1>3, <2>1, Zenon DEF Codex!SearchFails
<1> QED BY <1>6, <1>7, <1>8 DEF t, line

LEMMA CodexSplitFavour ==
  ASSUME MaxRead \in Nat,
         NEW L, NEW G, NEW H, CodexSplit(L, G, H), NEW S, Codex!KnownThreads(G) \subseteq S,
         NEW C, C = Codex!Candidates(L, S), NEW D, D = Codex!Candidates(G, Codex!KnownThreads(G)), NEW c \in D
  PROVE  Codex!InFavourOf(L, C, c) = Codex!InFavourOf(G, D, c)
<1>1. c.owner \in CodexSeen(G) /\ c \in Codex!Rows(G)
  BY CodexSplitCandidates
<1>2. CodexRow(c)
  BY <1>1, CodexSplits, CodexRowsAreRows
<1>3. Codex!Conflicting(L, c.owner) <=> Codex!Conflicting(G, c.owner)
  BY <1>1, CodexSplitThreads
<1>4. c.mirror # None => Codex!OfResponse(C, c.mirror) = Codex!OfResponse(D, c.mirror)
  BY <1>1, CodexSpeaks, CodexSplitGroups
<1>5. Codex!ModernTwins(C, c) = Codex!ModernTwins(D, c)
  BY CodexSplitGroups
<1>6. c.usable /\ c.kind = "response" => Codex!OfResponse(C, c.response) = Codex!OfResponse(D, c.response)
  <2>1. c.usable /\ c.kind = "response" => c.response # None
    BY <1>2, CodexRowSays, Zenon
  <2> QED BY <1>1, <2>1, CodexSpeaks, CodexSplitGroups
<1>7. Codex!OfCount(C, c.owner, c.total) = Codex!OfCount(D, c.owner, c.total)
  BY <1>1, CodexSplitGroups
<1>8. /\ Codex!MatchingAncestors(L, C, c) = Codex!MatchingAncestors(G, D, c)
      /\ \A k \in Codex!MatchingAncestors(G, D, c) : Codex!Lineage(G, c.owner)[k] \in CodexSeen(G)
      /\ Codex!SearchFails(L, c.owner) <=> Codex!SearchFails(G, c.owner)
  BY CodexSplitSearch
<1>9. ASSUME Codex!MatchingAncestors(G, D, c) # {}
      PROVE  LET k == Codex!Nearest(Codex!MatchingAncestors(G, D, c)) IN
             Codex!Matches(C, Codex!Lineage(L, c.owner)[k], c) = Codex!Matches(D, Codex!Lineage(G, c.owner)[k], c)
  <2> DEFINE K == Codex!MatchingAncestors(G, D, c)
             k == Codex!Nearest(K)
  <2>1. k \in K
    BY <1>9, CodexNearest
  <2>2. Codex!Lineage(G, c.owner)[k] \in CodexSeen(G) /\ Codex!Lineage(L, c.owner) = Codex!Lineage(G, c.owner)
    BY <1>1, <1>8, <2>1, CodexSplitLines
  <2> HIDE DEF k
  <2> QED BY <2>2, CodexSplitGroups DEF k
<1> DEFINE group == IF c.kind = "response" THEN Codex!OfResponse(D, c.response) ELSE Codex!OfCount(D, c.owner, c.total)
           there == IF c.kind = "response" THEN Codex!OfResponse(C, c.response) ELSE Codex!OfCount(C, c.owner, c.total)
<1>10. c.usable => there = group
  BY <1>6, <1>7
<1> DEFINE ancestors == Codex!MatchingAncestors(G, D, c)
           originals == Codex!Matches(D, Codex!Lineage(G, c.owner)[Codex!Nearest(ancestors)], c)
           counted == IF ancestors # {} THEN IF Codex!Agree(originals \cup {c}) THEN Codex!Canonical(originals) ELSE None
                      ELSE IF Codex!SearchFails(G, c.owner) THEN None ELSE c
           others == Codex!Matches(C, Codex!Lineage(L, c.owner)[Codex!Nearest(Codex!MatchingAncestors(L, C, c))], c)
           standing == IF Codex!MatchingAncestors(L, C, c) # {} THEN IF Codex!Agree(others \cup {c}) THEN Codex!Canonical(others) ELSE None
                       ELSE IF Codex!SearchFails(L, c.owner) THEN None ELSE c
<1>11. standing = counted
  BY <1>8, <1>9, Zenon
<1> HIDE DEF group, there, counted, standing
<1> DEFINE Favour(conflicting, mirrored, twins, g, a) ==
             IF conflicting THEN None
             ELSE IF c.mirror # None THEN IF mirrored # {} /\ Codex!Agree(mirrored \cup {c}) THEN Codex!Canonical(mirrored) ELSE None
             ELSE IF twins # {}
               THEN IF Codex!Cardinality({d.response : d \in twins}) = 1 /\ Codex!Agree(twins \cup {c}) THEN Codex!Canonical(twins) ELSE None
             ELSE IF ~c.usable \/ ~Codex!Agree(g) \/ Codex!Cardinality({d.owner : d \in g}) # 1 THEN None
             ELSE IF Codex!Canonical(g) # c THEN Codex!Canonical(g)
             ELSE IF c.kind = "response" THEN c ELSE a
           twins == IF c.kind = "legacy" /\ c.last # None THEN Codex!ModernTwins(D, c) ELSE {}
<1>12. Codex!InFavourOf(G, D, c) = Favour(Codex!Conflicting(G, c.owner), Codex!OfResponse(D, c.mirror), twins, group, counted)
  BY Zenon DEF Codex!InFavourOf, group, counted
<1>13. Codex!InFavourOf(L, C, c) = Favour(Codex!Conflicting(L, c.owner), Codex!OfResponse(C, c.mirror), twins, there, standing)
  BY <1>5, Zenon DEF Codex!InFavourOf, there, standing
<1>14. Favour(Codex!Conflicting(L, c.owner), Codex!OfResponse(C, c.mirror), twins, there, standing)
       = Favour(Codex!Conflicting(G, c.owner), Codex!OfResponse(D, c.mirror), twins, group, counted)
  BY <1>3, <1>4, <1>10, <1>11, Zenon
<1> QED BY <1>12, <1>13, <1>14

(* For what a candidate stands back, and why. *)
CodexGroup(C, c) == IF c.kind = "response" THEN Codex!OfResponse(C, c.response) ELSE Codex!OfCount(C, c.owner, c.total)
CodexSettled(C, c) == /\ c.usable /\ c.mirror = None /\ (c.kind = "legacy" => Codex!ModernTwins(C, c) = {})
                      /\ Codex!Agree(CodexGroup(C, c)) /\ Cardinality({d.owner : d \in CodexGroup(C, c)}) = 1
CodexToResponse(C, c, e) == c.kind = "legacy" /\ c.mirror # None /\ e \in Codex!OfResponse(C, c.mirror)
CodexToTwin(C, c, e) == c.kind = "legacy" /\ c.mirror = None /\ e \in Codex!ModernTwins(C, c)
CodexToFirst(C, c, e) == CodexSettled(C, c) /\ e \in CodexGroup(C, c) /\ e = Codex!Canonical(CodexGroup(C, c))
CodexToAncestor(L, C, c, e) ==
  /\ CodexSettled(C, c) /\ c = Codex!Canonical(CodexGroup(C, c)) /\ c.kind = "legacy"
  /\ Codex!Replayed(L, C, Codex!Observation(c)) /\ \E a \in Codex!Ancestors(L, c.owner) : e \in Codex!Matches(C, a, c)
CodexGoes(L, C, c, e) ==
  /\ e \in C /\ Codex!Value(e) = Codex!Value(c) /\ ~Codex!Conflicting(L, c.owner)
  /\ CodexToResponse(C, c, e) \/ CodexToTwin(C, c, e) \/ CodexToFirst(C, c, e) \/ CodexToAncestor(L, C, c, e)

LEMMA CodexFirst ==
  ASSUME NEW C, IsFiniteSet(C), \A c \in C : CodexRow(c), NEW E, E \subseteq C, E # {}
  PROVE  Codex!Canonical(E) \in E
<1>1. IsFiniteSet(E)
  BY FS_Subset
<1>2. \A c \in E : c.at \in Nat \cup {None}
  BY DEF CodexRow
<1> QED BY <1>1, <1>2, CodexCanonical

LEMMA CodexInGroup ==
  ASSUME NEW C, NEW c \in C, CodexRow(c), c.usable
  PROVE  /\ c \in CodexGroup(C, c)
         /\ c.kind = "response" => c.response # None
         /\ c.kind = "legacy" => c.response = None /\ c.total # None /\ c.last # None
<1>1. /\ c.kind \in {"legacy", "response"} /\ (c.kind = "response" => c.response # None)
      /\ c.kind = "legacy" => c.response = None /\ c.total # None /\ c.last # None
  BY CodexRowSays, Zenon
<1>2. c.kind = "response" => c \in Codex!OfResponse(C, c.response)
  BY <1>1 DEF Codex!OfResponse
<1>3. c.kind = "legacy" => c \in Codex!OfCount(C, c.owner, c.total)
  BY <1>1 DEF Codex!OfCount
<1> QED BY <1>1, <1>2, <1>3 DEF CodexGroup

LEMMA CodexFavours ==
  ASSUME MaxRead \in Nat, NEW L, CodexRead(L), NEW S, NEW C, C = Codex!Candidates(L, S), NEW c \in C,
         NEW e, e = Codex!InFavourOf(L, C, c), e # None
  PROVE  CodexGoes(L, C, c, e)
<1> DEFINE group == CodexGroup(C, c)
           mirrored == Codex!OfResponse(C, c.mirror)
           twins == IF c.kind = "legacy" /\ c.last # None THEN Codex!ModernTwins(C, c) ELSE {}
           ancestors == Codex!MatchingAncestors(L, C, c)
           originals == Codex!Matches(C, Codex!Lineage(L, c.owner)[Codex!Nearest(ancestors)], c)
           counted == IF ancestors # {} THEN IF Codex!Agree(originals \cup {c}) THEN Codex!Canonical(originals) ELSE None
                      ELSE IF Codex!SearchFails(L, c.owner) THEN None ELSE c
<1>1. e = IF Codex!Conflicting(L, c.owner) THEN None
          ELSE IF c.mirror # None THEN IF mirrored # {} /\ Codex!Agree(mirrored \cup {c}) THEN Codex!Canonical(mirrored) ELSE None
          ELSE IF twins # {}
            THEN IF Codex!Cardinality({d.response : d \in twins}) = 1 /\ Codex!Agree(twins \cup {c}) THEN Codex!Canonical(twins) ELSE None
          ELSE IF ~c.usable \/ ~Codex!Agree(group) \/ Codex!Cardinality({d.owner : d \in group}) # 1 THEN None
          ELSE IF Codex!Canonical(group) # c THEN Codex!Canonical(group)
          ELSE IF c.kind = "response" THEN c ELSE counted
  BY Zenon DEF Codex!InFavourOf, CodexGroup
<1>2. CodexRow(c) /\ IsFiniteSet(C) /\ \A d \in C : CodexRow(d)
  BY CodexCandidates
<1>3. c.kind \in {"legacy", "response"} /\ (c.kind = "response" => c.mirror = None)
  BY <1>2, CodexRowSays
<1>4. mirrored \subseteq C /\ group \subseteq C /\ twins \subseteq C /\ \A t, d : Codex!Matches(C, t, d) \subseteq C
  BY DEF Codex!OfResponse, CodexGroup, Codex!OfCount, Codex!ModernTwins, Codex!Matches
<1>5. \A E : E \subseteq C /\ E # {} => Codex!Canonical(E) \in E
  BY <1>2, CodexFirst
<1>6. \A E : Codex!Agree(E \cup {c}) => \A d \in E : Codex!Value(d) = Codex!Value(c)
  BY DEF Codex!Agree
<1>7. twins = {} /\ c.kind = "legacy" => Codex!ModernTwins(C, c) = {}
  BY DEF Codex!ModernTwins
<1>8. ~Codex!Conflicting(L, c.owner)
  BY <1>1
<1>9. CASE c.mirror # None
  <2>1. mirrored # {} /\ Codex!Agree(mirrored \cup {c}) /\ e = Codex!Canonical(mirrored)
    BY <1>1, <1>8, <1>9
  <2>2. e \in mirrored /\ Codex!Value(e) = Codex!Value(c)
    BY <1>4, <1>5, <1>6, <2>1
  <2>3. CodexToResponse(C, c, e)
    BY <1>3, <1>9, <2>2 DEF CodexToResponse
  <2> QED BY <1>4, <1>8, <2>2, <2>3 DEF CodexGoes
<1>10. CASE c.mirror = None /\ twins # {}
  <2>1. Codex!Agree(twins \cup {c}) /\ e = Codex!Canonical(twins)
    BY <1>1, <1>8, <1>10
  <2>2. e \in twins /\ Codex!Value(e) = Codex!Value(c)
    BY <1>4, <1>5, <1>6, <1>10, <2>1
  <2>3. CodexToTwin(C, c, e)
    BY <1>10, <2>2 DEF CodexToTwin
  <2> QED BY <1>4, <1>8, <2>2, <2>3 DEF CodexGoes
<1>11. CASE c.mirror = None /\ twins = {}
  <2> HIDE DEF twins, mirrored, counted
  <2>0. ~(~c.usable \/ ~Codex!Agree(group) \/ Codex!Cardinality({d.owner : d \in group}) # 1)
    BY <1>1, <1>8, <1>11
  <2>1. c.usable /\ Codex!Agree(group) /\ Cardinality({d.owner : d \in group}) = 1
    BY <2>0, CodexLibrary, Zenon
  <2>2. /\ e = IF Codex!Canonical(group) # c THEN Codex!Canonical(group) ELSE IF c.kind = "response" THEN c ELSE counted
        /\ c \in group /\ Codex!Canonical(group) \in group
    <3>1. c \in group
      BY <1>2, <2>1, CodexInGroup
    <3>2. group # {}
      BY <3>1
    <3>3. Codex!Canonical(group) \in group
      <4> HIDE DEF group
      <4> QED BY <1>4, <1>5, <3>2
    <3>4. e = IF Codex!Canonical(group) # c THEN Codex!Canonical(group) ELSE IF c.kind = "response" THEN c ELSE counted
      BY <1>1, <1>8, <1>11, <2>0, Zenon
    <3> QED BY <3>1, <3>3, <3>4
  <2>3. CodexSettled(C, c)
    BY <1>7, <1>11, <2>1, Zenon DEF CodexSettled
  <2>4. \A d \in group : Codex!Value(d) = Codex!Value(c)
    BY <2>1, <2>2 DEF Codex!Agree
  <2> HIDE DEF group
  <2>5. CASE e = Codex!Canonical(group)
    <3>1. CodexToFirst(C, c, e)
      BY <2>2, <2>3, <2>5 DEF CodexToFirst, group
    <3> QED BY <1>4, <1>8, <2>2, <2>4, <2>5, <3>1 DEF CodexGoes
  <2>6. CASE e # Codex!Canonical(group)
    <3>1. Codex!Canonical(group) = c /\ c.kind = "legacy" /\ e = counted
      BY <1>3, <2>2, <2>6
    <3>2. ancestors # {} /\ Codex!Agree(originals \cup {c}) /\ e = Codex!Canonical(originals)
      BY <2>6, <3>1 DEF counted
    <3> DEFINE a == Codex!Lineage(L, c.owner)[Codex!Nearest(ancestors)]
    <3>3. /\ a \in Codex!Ancestors(L, c.owner) /\ Codex!Replayed(L, C, Codex!Observation(c)) /\ originals # {}
      BY <3>2, CodexNearest
    <3>4. originals = Codex!Matches(C, a, c)
      OBVIOUS
    <3> HIDE DEF a, originals, ancestors
    <3>5. e \in originals /\ Codex!Value(e) = Codex!Value(c) /\ e \in C
      BY <1>4, <1>5, <1>6, <3>2, <3>3, <3>4
    <3>6. CodexToAncestor(L, C, c, e)
      BY <2>3, <3>1, <3>3, <3>4, <3>5 DEF CodexToAncestor, group
    <3> QED BY <1>8, <3>5, <3>6 DEF CodexGoes
  <2> QED BY <2>5, <2>6
<1> QED BY <1>9, <1>10, <1>11

(* From favour to favour, in at most n steps, to one that stands for itself. *)
CodexIsChase(s, C, f, n) ==
  s = [k \in 0..n |-> [c \in C |-> IF k = 0 \/ f[c] = None THEN None ELSE IF f[c] = c THEN c ELSE s[k - 1][f[c]]]]
CodexChased(C, f, n) ==
  LET select[k \in 0..n] == [c \in C |-> IF k = 0 \/ f[c] = None THEN None ELSE IF f[c] = c THEN c ELSE select[k - 1][f[c]]]
  IN select[n]

LEMMA CodexChaseExists ==
  ASSUME NEW C, NEW f, NEW n \in Nat
  PROVE  \E s : CodexIsChase(s, C, f, n)
<1> DEFINE Start == [c \in C |-> None]
           Step(x) == [c \in C |-> IF f[c] = None THEN None ELSE IF f[c] = c THEN c ELSE x[f[c]]]
           Chase(s, m) == s = [k \in 0..m |-> IF k = 0 THEN Start ELSE Step(s[k - 1])]
           Has(m) == \E s : Chase(s, m)
           T == {m \in Nat : Has(m)}
<1> HIDE DEF Start, Step
<1>1. 0 \in T
  <2>1. Chase([k \in 0..0 |-> Start], 0)
    OBVIOUS
  <2> QED BY <2>1
<1>2. \A m \in T : m + 1 \in T
  <2> TAKE m \in T
  <2>1. PICK s : Chase(s, m)
    OBVIOUS
  <2> DEFINE g == [k \in 0..m + 1 |-> IF k = m + 1 THEN Step(s[m]) ELSE s[k]]
             h == [k \in 0..m + 1 |-> IF k = 0 THEN Start ELSE Step(g[k - 1])]
  <2>2. \A k \in 0..m + 1 : g[k] = IF k = 0 THEN Start ELSE Step(g[k - 1])
    <3> TAKE k \in 0..m + 1
    <3>1. CASE k = m + 1
      BY <3>1
    <3>2. CASE k \in 0..m
      <4>1. s[k] = IF k = 0 THEN Start ELSE Step(s[k - 1])
        BY <2>1, <3>2
      <4>2. g[k] = s[k] /\ (k # 0 => g[k - 1] = s[k - 1])
        BY <3>2
      <4> HIDE DEF g
      <4> QED BY <4>1, <4>2
    <3> QED BY <3>1, <3>2
  <2>3. g = h
    <3>1. \A k \in 0..m + 1 : g[k] = h[k]
      <4>1. \A k \in 0..m + 1 : h[k] = IF k = 0 THEN Start ELSE Step(g[k - 1])
        BY Zenon
      <4> HIDE DEF g, h
      <4> QED BY <2>2, <4>1
    <3> DEFINE D == 0..m + 1
    <3>2. g = [k \in D |-> g[k]]
      OBVIOUS
    <3>02. h = [k \in D |-> h[k]]
      <4> HIDE DEF g
      <4> QED OBVIOUS
    <3>3. \A k \in D : g[k] = h[k]
      BY <3>1
    <3> HIDE DEF g, h, D
    <3>4. [k \in D |-> g[k]] = [k \in D |-> h[k]]
      BY <3>3
    <3> QED BY <3>2, <3>02, <3>4, Zenon
  <2>4. Chase(g, m + 1)
    <3>1. g = h
      BY <2>3
    <3> HIDE DEF g
    <3> QED BY <3>1
  <2> HIDE DEF Chase, g
  <2>5. Has(m + 1)
    BY <2>4
  <2> QED BY <2>5
<1>3. n \in T
  <2> HIDE DEF Has
  <2>1. T = Nat
    <3>1. T \subseteq Nat
      OBVIOUS
    <3> HIDE DEF T
    <3> QED BY <1>1, <1>2, <3>1, AllNumbers
  <2> QED BY <2>1
<1>4. PICK s : Chase(s, n)
  BY <1>3
<1> DEFINE g == [k \in 0..n |-> [c \in C |-> IF k = 0 \/ f[c] = None THEN None ELSE IF f[c] = c THEN c ELSE s[k - 1][f[c]]]]
           h == [k \in 0..n |-> IF k = 0 THEN Start ELSE Step(s[k - 1])]
<1>5. g = h
  <2>1. \A k \in 0..n : g[k] = h[k]
    <3> TAKE k \in 0..n
    <3>1. CASE k = 0
      BY <3>1 DEF Start
    <3>2. CASE k # 0
      BY <3>2 DEF Step
    <3> QED BY <3>1, <3>2
  <2> DEFINE D == 0..n
  <2>2. g = [k \in D |-> g[k]]
    OBVIOUS
  <2>3. h = [k \in D |-> h[k]]
    OBVIOUS
  <2>4. \A k \in D : g[k] = h[k]
    BY <2>1
  <2> HIDE DEF g, h, D
  <2>5. [k \in D |-> g[k]] = [k \in D |-> h[k]]
    BY <2>4
  <2> QED BY <2>2, <2>3, <2>5, Zenon
<1>6. s = g
  <2>1. s = h
    BY <1>4
  <2> HIDE DEF g, h
  <2> QED BY <1>5, <2>1
<1>7. CodexIsChase(s, C, f, n)
  BY <1>6, Zenon DEF CodexIsChase
<1> QED BY <1>7

CodexSteps(s, C, f, n) ==
  /\ CodexChased(C, f, n) = s[n] /\ \A c \in C : s[0][c] = None
  /\ \A k \in 1..n : \A c \in C : s[k][c] = IF f[c] = None THEN None ELSE IF f[c] = c THEN c ELSE s[k - 1][f[c]]
  /\ \A k \in 0..n : DOMAIN s[k] = C
LEMMA CodexChase ==
  ASSUME NEW C, NEW f, NEW n \in Nat
  PROVE  \E s : CodexSteps(s, C, f, n)
<1> DEFINE J == CHOOSE s : s = [k \in 0..n |-> [c \in C |-> IF k = 0 \/ f[c] = None THEN None ELSE IF f[c] = c THEN c ELSE s[k - 1][f[c]]]]
<1>1. CodexChased(C, f, n) = J[n]
  BY Zenon DEF CodexChased
<1>2. J = [k \in 0..n |-> [c \in C |-> IF k = 0 \/ f[c] = None THEN None ELSE IF f[c] = c THEN c ELSE J[k - 1][f[c]]]]
  <2>1. \E s : CodexIsChase(s, C, f, n)
    BY CodexChaseExists
  <2> QED BY <2>1, Zenon DEF CodexIsChase
<1> HIDE DEF J
<1>3. \A k \in 0..n : J[k] = [c \in C |-> IF k = 0 \/ f[c] = None THEN None ELSE IF f[c] = c THEN c ELSE J[k - 1][f[c]]]
  BY <1>2, Zenon
<1>4. \A k \in 0..n : DOMAIN J[k] = C
  BY <1>3
<1>5. \A c \in C : J[0][c] = None
  <2>1. J[0] = [c \in C |-> IF 0 = 0 \/ f[c] = None THEN None ELSE IF f[c] = c THEN c ELSE J[0 - 1][f[c]]]
    BY <1>3
  <2> QED BY <2>1, Zenon
<1>6. ASSUME NEW k \in 1..n, NEW c \in C
      PROVE  J[k][c] = IF f[c] = None THEN None ELSE IF f[c] = c THEN c ELSE J[k - 1][f[c]]
  <2>1. k \in 0..n /\ k # 0
    OBVIOUS
  <2>2. J[k][c] = IF k = 0 \/ f[c] = None THEN None ELSE IF f[c] = c THEN c ELSE J[k - 1][f[c]]
    <3>1. J[k] = [x \in C |-> IF k = 0 \/ f[x] = None THEN None ELSE IF f[x] = x THEN x ELSE J[k - 1][f[x]]]
      BY <1>3, <2>1
    <3> QED BY <3>1, Zenon
  <2> QED BY <2>1, <2>2
<1> QED BY <1>1, <1>4, <1>5, <1>6 DEF CodexSteps

(* The steps are the same among fewer, and more of them add nothing. *)
LEMMA CodexChaseSame ==
  ASSUME NEW C, IsFiniteSet(C), NEW D, D \subseteq C, None \notin C, NEW f, NEW h,
         \A c \in D : f[c] = h[c] /\ f[c] \in D \cup {None}
  PROVE  \A c \in D : CodexChased(C, f, Cardinality(C))[c] = CodexChased(D, h, Cardinality(D))[c]
<1> DEFINE n == Cardinality(C)
           m == Cardinality(D)
<1>1. n \in Nat /\ m \in Nat /\ m <= n /\ IsFiniteSet(D)
  BY FS_Subset, FS_CardinalityType
<1> HIDE DEF n, m
<1>2. PICK s : CodexSteps(s, C, f, n)
  BY <1>1, CodexChase
<1>3. PICK t : CodexSteps(t, D, h, m)
  BY <1>1, CodexChase
<1>4. /\ \A c \in D : s[0][c] = None /\ t[0][c] = None
      /\ \A k \in 1..n : \A c \in D : s[k][c] = IF f[c] = None THEN None ELSE IF f[c] = c THEN c ELSE s[k - 1][f[c]]
      /\ \A k \in 1..m : \A c \in D : t[k][c] = IF f[c] = None THEN None ELSE IF f[c] = c THEN c ELSE t[k - 1][f[c]]
  BY <1>2, <1>3 DEF CodexSteps
<1>5. CodexChased(C, f, n) = s[n] /\ CodexChased(D, h, m) = t[m]
  BY <1>2, <1>3 DEF CodexSteps
<1> DEFINE Alike(k) == \A c \in D : s[k][c] = t[k][c]
           T1 == {k \in Nat : k <= m => Alike(k)}
<1>6. T1 = Nat
  <2>1. 0 \in T1
    BY <1>4
  <2>2. ASSUME NEW k \in T1 PROVE k + 1 \in T1
    <3> SUFFICES ASSUME k + 1 <= m PROVE Alike(k + 1)
      OBVIOUS
    <3>1. k \in Nat /\ k + 1 \in 1..m /\ k + 1 \in 1..n /\ (k + 1) - 1 = k /\ Alike(k)
      BY <1>1
    <3>2. \A c \in D : f[c] \in D \cup {None}
      OBVIOUS
    <3> QED BY <1>4, <3>1, <3>2
  <2>3. T1 \subseteq Nat
    OBVIOUS
  <2> HIDE DEF T1
  <2> QED BY <2>1, <2>2, <2>3, AllNumbers
<1> DEFINE Kept(k) == \A c \in D : s[k][c] # None => s[k + 1][c] = s[k][c]
           T2 == {k \in Nat : k < n => Kept(k)}
<1>7. T2 = Nat
  <2>1. 0 \in T2
    BY <1>4
  <2>2. ASSUME NEW k \in T2 PROVE k + 1 \in T2
    <3> SUFFICES ASSUME k + 1 < n PROVE Kept(k + 1)
      OBVIOUS
    <3> DEFINE j == k + 1
    <3>1. k \in Nat /\ j \in 1..n /\ j + 1 \in 1..n /\ j - 1 = k /\ (j + 1) - 1 = j /\ Kept(k)
      BY <1>1
    <3>2. \A c \in D : s[j][c] = IF f[c] = None THEN None ELSE IF f[c] = c THEN c ELSE s[k][f[c]]
      BY <1>4, <3>1
    <3>3. \A c \in D : s[j + 1][c] = IF f[c] = None THEN None ELSE IF f[c] = c THEN c ELSE s[j][f[c]]
      BY <1>4, <3>1
    <3>4. \A c \in D : s[k][c] # None => s[j][c] = s[k][c]
      BY <3>1
    <3> HIDE DEF j
    <3>5. \A c \in D : s[j][c] # None => s[j + 1][c] = s[j][c]
      BY <3>2, <3>3, <3>4
    <3> QED BY <3>5 DEF j
  <2>3. T2 \subseteq Nat
    OBVIOUS
  <2> HIDE DEF T2
  <2> QED BY <2>1, <2>2, <2>3, AllNumbers
<1>8. \A k \in 0..n : k + 1 \in 0..n => Kept(k)
  <2> TAKE k \in 0..n
  <2>1. k \in T2
    BY <1>7
  <2> HIDE DEF Kept
  <2> QED BY <1>1, <2>1
<1> DEFINE P(k) == {c \in D : s[k][c] # None}
           Then(X) == {c \in D : f[c] # None /\ (f[c] = c \/ f[c] \in X)}
           G == [X \in SUBSET D |-> X \cup Then(X)]
           p == [k \in 0..m |-> P(k)]
<1>9. \A k \in 0..n : k + 1 \in 0..n => P(k + 1) = Then(P(k)) /\ P(k) \subseteq P(k + 1)
  <2> TAKE k \in 0..n
  <2> HAVE k + 1 \in 0..n
  <2>1. k + 1 \in 1..n /\ (k + 1) - 1 = k
    BY <1>1
  <2>2. \A c \in D : s[k + 1][c] = IF f[c] = None THEN None ELSE IF f[c] = c THEN c ELSE s[k][f[c]]
    BY <1>4, <2>1
  <2>3. \A c \in D : s[k][c] # None => s[k + 1][c] = s[k][c]
    BY <1>8
  <2>4. \A c \in D : c # None /\ f[c] \in D \cup {None}
    OBVIOUS
  <2>5. P(k) \subseteq P(k + 1)
    BY <2>3
  <2>6. \A c \in D : s[k + 1][c] # None <=> f[c] # None /\ (f[c] = c \/ f[c] \in P(k))
    BY <2>2, <2>4
  <2> QED BY <2>5, <2>6
<1>10. Then(P(m)) \subseteq P(m)
  <2>1. \A X \in SUBSET D : G[X] = X \cup Then(X)
    BY Zenon
  <2>2. \A X \in SUBSET D : X \subseteq G[X] /\ G[X] \subseteq D
    BY <2>1
  <2>3. \A k \in 0..m : p[k] = P(k) /\ P(k) \in SUBSET D
    OBVIOUS
  <2>4. \A k \in 1..m : p[k] = G[p[k - 1]]
    <3> TAKE k \in 1..m
    <3>1. k - 1 \in 0..n /\ (k - 1) + 1 = k /\ k \in 0..n /\ k - 1 \in 0..m /\ k \in 0..m
      BY <1>1
    <3>2. P(k) = Then(P(k - 1)) /\ P(k - 1) \subseteq P(k)
      <4> HIDE DEF P, Then
      <4> QED BY <1>9, <3>1
    <3> HIDE DEF G, P, Then, p
    <3>3. G[P(k - 1)] = P(k - 1) \cup Then(P(k - 1))
      BY <2>1, <2>3, <3>1
    <3> QED BY <2>3, <3>1, <3>2, <3>3
  <2>5. p[0] \subseteq D /\ m \in 0..m
    BY <1>1
  <2> HIDE DEF G, p
  <2>6. G[p[m]] = p[m]
    BY <1>1, <2>2, <2>4, <2>5, GrowsInRounds DEF m
  <2> HIDE DEF P, Then
  <2> QED BY <2>1, <2>3, <2>5, <2>6
<1> DEFINE Done(k) == \A c \in D : s[m + k][c] = s[m][c]
           T3 == {k \in Nat : m + k <= n => Done(k)}
<1>11. T3 = Nat
  <2>1. 0 \in T3
    BY <1>1
  <2>2. ASSUME NEW k \in T3 PROVE k + 1 \in T3
    <3> SUFFICES ASSUME m + (k + 1) <= n PROVE Done(k + 1)
      OBVIOUS
    <3> DEFINE j == m + k
    <3>1. k \in Nat /\ j \in 0..n /\ j + 1 \in 0..n /\ m + (k + 1) = j + 1 /\ Done(k)
      BY <1>1
    <3>2. P(j + 1) = Then(P(j)) /\ \A c \in D : s[j][c] # None => s[j + 1][c] = s[j][c]
      BY <1>8, <1>9, <3>1
    <3>3. \A c \in D : s[j][c] = s[m][c]
      BY <3>1
    <3> HIDE DEF j
    <3>4. P(j) = P(m)
      BY <3>3
    <3>5. \A c \in D : s[j + 1][c] = s[m][c]
      <4> TAKE c \in D
      <4>1. CASE s[m][c] # None
        BY <3>2, <3>3, <4>1
      <4>2. CASE s[m][c] = None
        <5>1. c \notin P(m)
          BY <4>2
        <5>2. c \notin P(j + 1)
          <6> HIDE DEF P, Then
          <6> QED BY <1>10, <3>2, <3>4, <5>1
        <5> QED BY <4>2, <5>2
      <4> QED BY <4>1, <4>2
    <3> QED BY <3>1, <3>5
  <2>3. T3 \subseteq Nat
    OBVIOUS
  <2> HIDE DEF T3
  <2> QED BY <2>1, <2>2, <2>3, AllNumbers
<1>12. \A c \in D : s[n][c] = s[m][c] /\ s[m][c] = t[m][c]
  <2>1. n - m \in Nat /\ m + (n - m) = n
    BY <1>1
  <2>2. n - m \in T3 /\ m \in T1
    BY <1>1, <1>6, <1>11, <2>1
  <2>3. Done(n - m) /\ Alike(m)
    <3> HIDE DEF Done, Alike
    <3> QED BY <1>1, <2>1, <2>2
  <2> QED BY <2>1, <2>3
<1> QED BY <1>5, <1>12 DEF n, m

-----------------------------------------------------------------------------
(* A decision is where the chase of the observation's candidate ends. *)
CodexFavour(L, C) == [c \in C |-> Codex!InFavourOf(L, C, c)]
CodexEnds(L, C, c) == CodexChased(C, CodexFavour(L, C), Cardinality(C))[c]
CodexAnswers(L, S, F) ==
  LET C == Codex!Candidates(L, S) IN
  /\ \A o : o \in DOMAIN F <=> o \in Codex!Observations(L) /\ o.owner \in S
  /\ \A o \in DOMAIN F : LET e == CodexEnds(L, C, Codex!Candidate(L, o)) IN
       F[o] = IF e = None THEN None ELSE Codex!Observation(e)
  /\ F = [o \in DOMAIN F |-> F[o]]

LEMMA CodexDecides ==
  ASSUME NEW L, CodexRead(L), NEW S
  PROVE  CodexAnswers(L, S, Codex!Decide(L, S))
<1> DEFINE C == Codex!Candidates(L, S)
           D == {Codex!Observation(c) : c \in C}
           Last(o) == CodexChased(C, CodexFavour(L, C), Cardinality(C))[CHOOSE d \in C : Codex!Observation(d) = o]
           F == [o \in D |-> IF Last(o) = None THEN None ELSE Codex!Observation(Last(o))]
<1>1. Codex!Decide(L, S) = F
  <2> DEFINE At(n, o) == CodexChased(C, CodexFavour(L, C), n)[CHOOSE d \in C : Codex!Observation(d) = o]
             Decided(n) == [o \in D |-> IF At(n, o) = None THEN None ELSE Codex!Observation(At(n, o))]
  <2>1. Codex!Decide(L, S) = Decided(Codex!Cardinality(C))
    BY Zenon DEF Codex!Decide, CodexChased, CodexFavour
  <2>2. Codex!Cardinality(C) = Cardinality(C)
    BY CodexLibrary
  <2> QED BY <2>1, <2>2, Zenon
<1>2. /\ \A c : c \in C <=> c \in Codex!Rows(L) /\ c.owner \in S /\ c = Codex!Candidate(L, Codex!Observation(c))
      /\ \A o \in Codex!Observations(L) : o.owner \in S => Codex!Candidate(L, o) \in C
      /\ \A c, d \in C : Codex!Observation(c) = Codex!Observation(d) => c = d
      /\ \A c \in C : Codex!Observation(c) \in Codex!Observations(L)
  BY CodexCandidates
<1>3. \A c \in C : Codex!Observation(c).owner = c.owner
  BY CodexObserves
<1>4. \A o \in Codex!Observations(L) : Codex!Observation(Codex!Candidate(L, o)) = o
  BY CodexCandidate
<1>5. \A o : o \in D <=> \E c \in C : o = Codex!Observation(c)
  BY Zenon
<1>6. \A o : o \in D <=> o \in Codex!Observations(L) /\ o.owner \in S
  <2> HIDE DEF C, D
  <2>1. ASSUME NEW o \in D PROVE o \in Codex!Observations(L) /\ o.owner \in S
    <3>1. PICK c \in C : o = Codex!Observation(c)
      BY <1>5
    <3>2. c.owner \in S
      BY <1>2
    <3> QED BY <1>2, <1>3, <3>1, <3>2
  <2>2. ASSUME NEW o \in Codex!Observations(L), o.owner \in S PROVE o \in D
    BY <1>2, <1>4, <1>5, <2>2
  <2> QED BY <2>1, <2>2
<1>7. \A o \in D : (CHOOSE d \in C : Codex!Observation(d) = o) = Codex!Candidate(L, o)
  <2> TAKE o \in D
  <2>1. o \in Codex!Observations(L) /\ o.owner \in S
    BY <1>6
  <2>2. Codex!Candidate(L, o) \in C /\ Codex!Observation(Codex!Candidate(L, o)) = o
    BY <1>2, <1>4, <2>1
  <2> HIDE DEF C, D
  <2> QED BY <1>2, <2>2
<1>8. DOMAIN F = D /\ \A o \in D : F[o] = LET e == CodexEnds(L, C, Codex!Candidate(L, o)) IN
                                          IF e = None THEN None ELSE Codex!Observation(e)
  <2> HIDE DEF C, D
  <2>1. \A o \in D : F[o] = IF Last(o) = None THEN None ELSE Codex!Observation(Last(o))
    BY Zenon
  <2>2. \A o \in D : Last(o) = CodexEnds(L, C, Codex!Candidate(L, o))
    BY <1>7, Zenon DEF CodexEnds
  <2>3. DOMAIN F = D
    BY Zenon
  <2> HIDE DEF F, Last
  <2> QED BY <2>1, <2>2, <2>3
<1>9. F = [o \in DOMAIN F |-> F[o]]
  <2> HIDE DEF D, Last
  <2> QED OBVIOUS
<1> HIDE DEF C, D, F, Last
<1>10. CodexAnswers(L, S, F)
  BY <1>6, <1>8, <1>9, Zenon DEF CodexAnswers, C
<1> QED BY <1>1, <1>10

(* Functions that answer the same are the same. *)
LEMMA CodexSameAnswers ==
  ASSUME NEW F, NEW G, F = [o \in DOMAIN F |-> F[o]], G = [o \in DOMAIN G |-> G[o]],
         \A o : o \in DOMAIN F <=> o \in DOMAIN G, \A o \in DOMAIN F : F[o] = G[o]
  PROVE  F = G
<1>1. DOMAIN F = DOMAIN G
  OBVIOUS
<1> DEFINE D == DOMAIN F
<1>2. [o \in D |-> F[o]] = [o \in D |-> G[o]]
  OBVIOUS
<1> QED BY <1>1, <1>2

(* What holds along every step of the chase holds of its end; and where it ends
   nothing is left to chase. *)
LEMMA CodexEndsWell ==
  ASSUME NEW C, IsFiniteSet(C), None \notin C, NEW f, \A c \in C : f[c] \in C \cup {None},
         NEW R, \A c \in C : f[c] = c => <<c, c>> \in R,
         \A c, d \in C : f[c] \in C /\ f[c] # c /\ <<f[c], d>> \in R /\ f[d] = d => <<c, d>> \in R,
         NEW c \in C, NEW e, e = CodexChased(C, f, Cardinality(C))[c]
  PROVE  /\ e # None => e \in C /\ f[e] = e /\ <<c, e>> \in R
         /\ f[c] = None => e = None
         /\ e = c => f[c] = c
<1> DEFINE n == Cardinality(C)
<1>1. n \in Nat
  BY FS_CardinalityType
<1> HIDE DEF n
<1>2. PICK s : CodexSteps(s, C, f, n)
  BY <1>1, CodexChase
<1>3. /\ \A x \in C : s[0][x] = None
      /\ \A k \in 1..n : \A x \in C : s[k][x] = IF f[x] = None THEN None ELSE IF f[x] = x THEN x ELSE s[k - 1][f[x]]
      /\ CodexChased(C, f, n) = s[n]
  BY <1>2 DEF CodexSteps
<1> DEFINE Well(k) == \A x \in C : s[k][x] # None => s[k][x] \in C /\ f[s[k][x]] = s[k][x] /\ <<x, s[k][x]>> \in R
           T == {k \in Nat : k <= n => Well(k)}
<1>4. T = Nat
  <2>1. 0 \in T
    BY <1>3
  <2>2. ASSUME NEW k \in T PROVE k + 1 \in T
    <3> SUFFICES ASSUME k + 1 <= n PROVE Well(k + 1)
      OBVIOUS
    <3>1. k \in Nat /\ k + 1 \in 1..n /\ (k + 1) - 1 = k /\ Well(k)
      BY <1>1
    <3>2. \A x \in C : s[k + 1][x] = IF f[x] = None THEN None ELSE IF f[x] = x THEN x ELSE s[k][f[x]]
      BY <1>3, <3>1
    <3> SUFFICES ASSUME NEW x \in C, s[k + 1][x] # None
                 PROVE  s[k + 1][x] \in C /\ f[s[k + 1][x]] = s[k + 1][x] /\ <<x, s[k + 1][x]>> \in R
      OBVIOUS
    <3> DEFINE y == s[k + 1][x]  z == f[x]
    <3>3. y # None /\ z \in C /\ (z = x => y = x) /\ (z # x => y = s[k][z])
      BY <3>2
    <3>4. z # x => y \in C /\ f[y] = y /\ <<z, y>> \in R
      <4> HIDE DEF y, z
      <4> QED BY <3>1, <3>3
    <3>5. z = x => <<x, x>> \in R /\ f[x] = x
      OBVIOUS
    <3>6. z # x => <<x, y>> \in R
      <4>1. \A d \in C : z \in C /\ z # x /\ <<z, d>> \in R /\ f[d] = d => <<x, d>> \in R
        OBVIOUS
      <4> HIDE DEF y, z
      <4> QED BY <3>3, <3>4, <4>1
    <3>7. y \in C /\ f[y] = y /\ <<x, y>> \in R
      <4> HIDE DEF y, z
      <4> QED BY <3>3, <3>4, <3>5, <3>6
    <3> QED BY <3>7
  <2>3. T \subseteq Nat
    OBVIOUS
  <2> HIDE DEF T
  <2> QED BY <2>1, <2>2, <2>3, AllNumbers
<1>5. Well(n)
  <2> HIDE DEF Well
  <2>1. n \in T
    BY <1>1, <1>4
  <2> QED BY <1>1, <2>1
<1>6. e = s[n][c]
  BY <1>3 DEF n
<1>7. f[c] = None => e = None
  <2>1. n = 0 \/ n \in 1..n
    BY <1>1
  <2> QED BY <1>3, <1>6, <2>1
<1> QED BY <1>5, <1>6, <1>7

(* Files that share nothing with others are decided alone. *)
LEMMA CodexSplitDecides ==
  ASSUME MaxRead \in Nat,
         NEW L, NEW G, NEW H, CodexSplit(L, G, H), NEW S, Codex!KnownThreads(G) \subseteq S,
         NEW F, F = Codex!Decide(L, S), NEW E, E = Codex!Decide(G, Codex!KnownThreads(G))
  PROVE  \A o \in Codex!Observations(G) : o \in DOMAIN F /\ o \in DOMAIN E /\ F[o] = E[o]
<1> DEFINE C == Codex!Candidates(L, S)
           D == Codex!Candidates(G, Codex!KnownThreads(G))
           f == CodexFavour(L, C)
           h == CodexFavour(G, D)
<1>1. CodexRead(L) /\ CodexRead(G)
  BY CodexSplits DEF CodexSplit
<1>2. IsFiniteSet(C) /\ None \notin C
  BY <1>1, CodexCandidates
<1>3. /\ \A o \in Codex!Observations(G) : Codex!Candidate(L, o) = Codex!Candidate(G, o)
      /\ D \subseteq C
  BY CodexSplitCandidates
<1>4. \A c \in D : f[c] = h[c]
  <2> TAKE c \in D
  <2>1. Codex!InFavourOf(L, C, c) = Codex!InFavourOf(G, D, c)
    BY CodexSplitFavour
  <2>2. c \in C
    BY <1>3
  <2> HIDE DEF C, D
  <2> QED BY <2>1, <2>2, Zenon DEF CodexFavour
<1>5. \A c \in D : h[c] \in D \cup {None}
  <2> TAKE c \in D
  <2> DEFINE e == Codex!InFavourOf(G, D, c)
  <2>1. e # None => CodexGoes(G, D, c, e)
    <3> HIDE DEF e
    <3> SUFFICES ASSUME e # None PROVE CodexGoes(G, D, c, e)
      OBVIOUS
    <3> QED BY <1>1, CodexFavours DEF e
  <2>2. h[c] = e
    <3> HIDE DEF D
    <3> QED BY Zenon DEF CodexFavour
  <2> HIDE DEF e, h, D
  <2> QED BY <2>1, <2>2 DEF CodexGoes
<1>6. \A c \in D : CodexEnds(L, C, c) = CodexEnds(G, D, c)
  <2> HIDE DEF C, D, f, h
  <2>1. \A c \in D : CodexChased(C, f, Cardinality(C))[c] = CodexChased(D, h, Cardinality(D))[c]
    BY <1>2, <1>3, <1>4, <1>5, CodexChaseSame
  <2> QED BY <2>1, Zenon DEF CodexEnds, f, h
<1>7. CodexAnswers(L, S, F) /\ CodexAnswers(G, Codex!KnownThreads(G), E)
  BY <1>1, CodexDecides
<1>8. \A o \in Codex!Observations(G) : /\ o \in Codex!Observations(L) /\ o.owner \in Codex!KnownThreads(G) /\ o.owner \in S
                                       /\ Codex!Candidate(G, o) \in D
  <2> TAKE o \in Codex!Observations(G)
  <2>1. o \in Codex!Observations(L) /\ o.owner \in Codex!KnownThreads(G)
    BY CodexSplitRows
  <2>2. Codex!Candidate(G, o) \in D
    BY <1>1, <2>1, CodexCandidates
  <2> QED BY <2>1, <2>2
<1> HIDE DEF f, h
<1> TAKE o \in Codex!Observations(G)
<1>9. o \in DOMAIN F /\ o \in DOMAIN E
  BY <1>7, <1>8, Zenon DEF CodexAnswers
<1> DEFINE c == Codex!Candidate(G, o)
<1>10. F[o] = IF CodexEnds(L, C, c) = None THEN None ELSE Codex!Observation(CodexEnds(L, C, c))
  BY <1>3, <1>7, <1>9, Zenon DEF CodexAnswers
<1>11. E[o] = IF CodexEnds(G, D, c) = None THEN None ELSE Codex!Observation(CodexEnds(G, D, c))
  BY <1>7, <1>9, Zenon DEF CodexAnswers
<1>12. CodexEnds(L, C, c) = CodexEnds(G, D, c)
  BY <1>6, <1>8
<1> HIDE DEF c, C, D
<1> QED BY <1>9, <1>10, <1>11, <1>12

LEMMA CodexDisputed ==
  ASSUME NEW L, NEW S
  PROVE  \A o : o \in Codex!Disputes(L, S) <=>
           \E q, p \in Codex!Rows(L) : /\ o = Codex!Observation(q) /\ q.owner \in S /\ p.owner \in S
                                       /\ q.kind = "response" /\ q.response # None
                                       /\ p.kind = "response" /\ p.response = q.response /\ p.model # q.model
<1> DEFINE rows == {r \in Codex!Rows(L) : r.owner \in S /\ r.kind = "response" /\ r.response # None}
           odd == {q \in rows : \E p \in rows : p.response = q.response /\ p.model # q.model}
<1>1. Codex!Disputes(L, S) = {Codex!Observation(r) : r \in odd}
  BY Zenon DEF Codex!Disputes
<1>2. \A r : r \in rows <=> r \in Codex!Rows(L) /\ r.owner \in S /\ r.kind = "response" /\ r.response # None
  OBVIOUS
<1>3. \A q : q \in odd <=> q \in rows /\ \E p \in rows : p.response = q.response /\ p.model # q.model
  <2> HIDE DEF rows
  <2> QED OBVIOUS
<1> HIDE DEF rows, odd
<1>4. \A o : o \in Codex!Disputes(L, S) <=> \E r \in odd : o = Codex!Observation(r)
  BY <1>1, Zenon
<1> TAKE o
<1>5. ASSUME o \in Codex!Disputes(L, S)
      PROVE  \E q, p \in Codex!Rows(L) : /\ o = Codex!Observation(q) /\ q.owner \in S /\ p.owner \in S
                                       /\ q.kind = "response" /\ q.response # None
                                       /\ p.kind = "response" /\ p.response = q.response /\ p.model # q.model
  <2>1. PICK q \in odd : o = Codex!Observation(q)
    BY <1>4, <1>5
  <2>2. PICK p \in rows : p.response = q.response /\ p.model # q.model
    BY <1>3, <2>1
  <2> QED BY <1>2, <1>3, <2>1, <2>2
<1>6. ASSUME NEW q \in Codex!Rows(L), NEW p \in Codex!Rows(L),
             o = Codex!Observation(q), q.owner \in S, p.owner \in S, q.kind = "response", q.response # None,
             p.kind = "response", p.response = q.response, p.model # q.model
      PROVE  o \in Codex!Disputes(L, S)
  <2>1. q \in rows /\ p \in rows
    BY <1>2, <1>6
  <2>2. q \in odd
    BY <1>3, <1>6, <2>1
  <2> QED BY <1>4, <1>6, <2>2
<1> QED BY <1>5, <1>6

LEMMA CodexSplitDisputes ==
  ASSUME NEW L, NEW G, NEW H, CodexSplit(L, G, H), NEW S, Codex!KnownThreads(G) \subseteq S
  PROVE  /\ \A o \in Codex!Observations(G) : o \in Codex!Disputes(L, S) <=> o \in Codex!Disputes(G, Codex!KnownThreads(G))
         /\ \A o \in Codex!Disputes(L, S) : o \in Codex!Observations(L) /\ o.owner \in S
<1>1. /\ Codex!Rows(G) \subseteq Codex!Rows(L) /\ CodexRead(L)
      /\ \A r \in Codex!Rows(L) : r.owner \in CodexSeen(G) => r \in Codex!Rows(G)
      /\ \A r \in Codex!Rows(L) : (r.response # None /\ r.response \in CodexTold(G)) => r \in Codex!Rows(G)
      /\ \A o \in Codex!Observations(G) : o.owner \in Codex!KnownThreads(G)
  <2>1. Codex!Rows(L) = Codex!Rows(G) \cup Codex!Rows(H)
    BY CodexSplitRows
  <2>2. \A r \in Codex!Rows(L) : r.owner \in CodexSeen(G) => r \in Codex!Rows(G)
    BY CodexSplitRows
  <2>3. \A r \in Codex!Rows(L) : (r.response # None /\ r.response \in CodexTold(G)) => r \in Codex!Rows(G)
    BY CodexSplitRows
  <2>4. \A o \in Codex!Observations(G) : o.owner \in Codex!KnownThreads(G)
    BY CodexSplitRows
  <2>5. CodexRead(L)
    BY DEF CodexSplit
  <2> QED BY <2>1, <2>2, <2>3, <2>4, <2>5
<1>2. /\ \A r \in Codex!Rows(G) : r.owner \in CodexSeen(G) /\ (r.response # None => r.response \in CodexTold(G))
      /\ \A r \in Codex!Rows(G) : r.owner \in Codex!KnownThreads(G)
      /\ Codex!KnownThreads(G) \subseteq CodexSeen(G)
  BY CodexSpeaks
<1>3. \A r : Codex!Observation(r).owner = r.owner
  BY CodexObserves
<1>4. ASSUME NEW o \in Codex!Observations(G), o \in Codex!Disputes(L, S) PROVE o \in Codex!Disputes(G, Codex!KnownThreads(G))
  <2>1. PICK q, p \in Codex!Rows(L) : /\ o = Codex!Observation(q) /\ q.owner \in S /\ p.owner \in S
                                       /\ q.kind = "response" /\ q.response # None
                                       /\ p.kind = "response" /\ p.response = q.response /\ p.model # q.model
    BY <1>4, CodexDisputed
  <2>2. q.owner \in CodexSeen(G)
    BY <1>1, <1>2, <1>3, <2>1
  <2>3. q \in Codex!Rows(G)
    BY <1>1, <2>2
  <2>4. p \in Codex!Rows(G)
    BY <1>1, <1>2, <2>1, <2>3
  <2>5. q.owner \in Codex!KnownThreads(G) /\ p.owner \in Codex!KnownThreads(G)
    BY <1>2, <2>3, <2>4
  <2> QED BY <2>1, <2>3, <2>4, <2>5, CodexDisputed
<1>5. ASSUME NEW o \in Codex!Observations(G), o \in Codex!Disputes(G, Codex!KnownThreads(G)) PROVE o \in Codex!Disputes(L, S)
  <2> DEFINE A == Codex!KnownThreads(G)
  <2>1. PICK q, p \in Codex!Rows(G) : /\ o = Codex!Observation(q) /\ q.owner \in A /\ p.owner \in A
                                       /\ q.kind = "response" /\ q.response # None
                                       /\ p.kind = "response" /\ p.response = q.response /\ p.model # q.model
    <3> HIDE DEF A
    <3> QED BY <1>5, CodexDisputed DEF A
  <2>2. q \in Codex!Rows(L) /\ p \in Codex!Rows(L) /\ q.owner \in S /\ p.owner \in S
    BY <1>1, <2>1
  <2> QED BY <2>1, <2>2, CodexDisputed
<1>6. ASSUME NEW o \in Codex!Disputes(L, S) PROVE o \in Codex!Observations(L) /\ o.owner \in S
  <2>1. PICK q \in Codex!Rows(L) : o = Codex!Observation(q) /\ q.owner \in S
    BY CodexDisputed
  <2> QED BY <1>3, <2>1, CodexRowsOfAll
<1> QED BY <1>4, <1>5, <1>6

-----------------------------------------------------------------------------
(* What an import affects: the files linked to the changed ones, which share
   nothing with the others. *)
LEMMA CodexLinks ==
  ASSUME NEW L
  PROVE  /\ \A g \in L : {<<"locator", g.locator>>, Codex!Thread(g.thread)} \in Codex!Links(L)
         /\ \A g \in L : g.parent # None => {Codex!Thread(g.thread), Codex!Thread(g.parent)} \in Codex!Links(L)
         /\ \A g \in L : \A i \in DOMAIN g.rows : {<<"locator", g.locator>>, Codex!Thread(g.rows[i].owner)} \in Codex!Links(L)
         /\ \A r \in Codex!Rows(L) : r.response # None => {Codex!Thread(r.owner), <<"response", r.response>>} \in Codex!Links(L)
         /\ \A r \in Codex!Rows(L) : r.mirror # None => {Codex!Thread(r.owner), <<"response", r.mirror>>} \in Codex!Links(L)
<1> DEFINE A == {{<<"locator", g.locator>>, Codex!Thread(g.thread)} : g \in L}
           B == {{Codex!Thread(g.thread), Codex!Thread(g.parent)} : g \in {h \in L : h.parent # None}}
           Owners(g) == {{<<"locator", g.locator>>, Codex!Thread(g.rows[i].owner)} : i \in DOMAIN g.rows}
           U == UNION {Owners(g) : g \in L}
           R == {{Codex!Thread(r.owner), <<"response", r.response>>} : r \in {q \in Codex!Rows(L) : q.response # None}}
           M == {{Codex!Thread(r.owner), <<"response", r.mirror>>} : r \in {q \in Codex!Rows(L) : q.mirror # None}}
<1>1. Codex!Links(L) = A \cup B \cup U \cup R \cup M
  BY Zenon DEF Codex!Links
<1>2. \A g \in L : {<<"locator", g.locator>>, Codex!Thread(g.thread)} \in A
  BY Zenon
<1>3. \A g \in L : g.parent # None => {Codex!Thread(g.thread), Codex!Thread(g.parent)} \in B
  BY Zenon
<1>4. \A g \in L : \A i \in DOMAIN g.rows : {<<"locator", g.locator>>, Codex!Thread(g.rows[i].owner)} \in U
  <2>1. \A g \in L : \A i \in DOMAIN g.rows : {<<"locator", g.locator>>, Codex!Thread(g.rows[i].owner)} \in Owners(g)
    BY Zenon
  <2>2. \A g \in L : Owners(g) \subseteq U
    <3> HIDE DEF Owners
    <3> QED BY Zenon
  <2> HIDE DEF Owners, U
  <2> QED BY <2>1, <2>2, Zenon
<1>5. \A r \in Codex!Rows(L) : r.response # None => {Codex!Thread(r.owner), <<"response", r.response>>} \in R
  BY Zenon
<1>6. \A r \in Codex!Rows(L) : r.mirror # None => {Codex!Thread(r.owner), <<"response", r.mirror>>} \in M
  BY Zenon
<1>7. A \subseteq Codex!Links(L) /\ B \subseteq Codex!Links(L) /\ U \subseteq Codex!Links(L)
      /\ R \subseteq Codex!Links(L) /\ M \subseteq Codex!Links(L)
  <2> HIDE DEF A, B, U, R, M
  <2> QED BY <1>1
<1> HIDE DEF A, B, U, R, M
<1>8. \A g \in L : {<<"locator", g.locator>>, Codex!Thread(g.thread)} \in Codex!Links(L)
  BY <1>2, <1>7, Zenon
<1>9. \A g \in L : g.parent # None => {Codex!Thread(g.thread), Codex!Thread(g.parent)} \in Codex!Links(L)
  BY <1>3, <1>7, Zenon
<1>10. \A g \in L : \A i \in DOMAIN g.rows : {<<"locator", g.locator>>, Codex!Thread(g.rows[i].owner)} \in Codex!Links(L)
  BY <1>4, <1>7, Zenon
<1>11. \A r \in Codex!Rows(L) : r.response # None => {Codex!Thread(r.owner), <<"response", r.response>>} \in Codex!Links(L)
  BY <1>5, <1>7, Zenon
<1>12. \A r \in Codex!Rows(L) : r.mirror # None => {Codex!Thread(r.owner), <<"response", r.mirror>>} \in Codex!Links(L)
  BY <1>6, <1>7, Zenon
<1> QED BY <1>8, <1>9, <1>10, <1>11, <1>12, Zenon

LEMMA CodexLinksFinite ==
  ASSUME NEW L, CodexRead(L)
  PROVE  IsFiniteSet(Codex!Links(L))
<1> DEFINE A == {{<<"locator", g.locator>>, Codex!Thread(g.thread)} : g \in L}
           P == {h \in L : h.parent # None}
           B == {{Codex!Thread(g.thread), Codex!Thread(g.parent)} : g \in P}
           Owners(g) == {{<<"locator", g.locator>>, Codex!Thread(g.rows[i].owner)} : i \in DOMAIN g.rows}
           U == UNION {Owners(g) : g \in L}
           X == {q \in Codex!Rows(L) : q.response # None}
           R == {{Codex!Thread(r.owner), <<"response", r.response>>} : r \in X}
           Y == {q \in Codex!Rows(L) : q.mirror # None}
           M == {{Codex!Thread(r.owner), <<"response", r.mirror>>} : r \in Y}
<1>1. Codex!Links(L) = A \cup B \cup U \cup R \cup M
  BY Zenon DEF Codex!Links
<1>2. IsFiniteSet(L) /\ IsFiniteSet(Codex!Rows(L))
  BY CodexFinite DEF CodexRead
<1>3. IsFiniteSet(P) /\ IsFiniteSet(X) /\ IsFiniteSet(Y)
  <2>1. P \subseteq L /\ X \subseteq Codex!Rows(L) /\ Y \subseteq Codex!Rows(L)
    OBVIOUS
  <2> HIDE DEF P, X, Y
  <2> QED BY <1>2, <2>1, FS_Subset
<1>4. IsFiniteSet(A)
  <2> DEFINE f == [g \in L |-> {<<"locator", g.locator>>, Codex!Thread(g.thread)}]
  <2>1. IsFiniteSet({f[g] : g \in L})
    <3> HIDE DEF f
    <3> QED BY <1>2, FiniteImage
  <2>2. A = {f[g] : g \in L}
    OBVIOUS
  <2> HIDE DEF A, f
  <2> QED BY <2>1, <2>2
<1>5. IsFiniteSet(B)
  <2> HIDE DEF P
  <2> DEFINE f == [g \in P |-> {Codex!Thread(g.thread), Codex!Thread(g.parent)}]
  <2>1. IsFiniteSet({f[g] : g \in P})
    <3> HIDE DEF f
    <3> QED BY <1>3, FiniteImage
  <2>2. B = {f[g] : g \in P}
    OBVIOUS
  <2> HIDE DEF B, f
  <2> QED BY <2>1, <2>2
<1>6. IsFiniteSet(U)
  <2> DEFINE f == [g \in L |-> Owners(g)]
  <2>1. \A g \in L : IsFiniteSet(f[g])
    <3> TAKE g \in L
    <3> DEFINE I == DOMAIN g.rows
               h == [i \in I |-> {<<"locator", g.locator>>, Codex!Thread(g.rows[i].owner)}]
    <3>1. IsFiniteSet(I)
      <4>1. PICK m \in Nat : I = 1..m
        BY DEF CodexRead, CodexGeneration
      <4> HIDE DEF I
      <4>2. 1 \in Int /\ m \in Int
        BY <4>1
      <4>3. IsFiniteSet(1..m)
        BY <4>2, FS_Interval
      <4> QED BY <4>1, <4>3
    <3>2. IsFiniteSet({h[i] : i \in I})
      <4> HIDE DEF h, I
      <4> QED BY <3>1, FiniteImage
    <3>3. Owners(g) = {h[i] : i \in I}
      <4> HIDE DEF I
      <4> QED BY DEF I
    <3>4. f[g] = Owners(g)
      <4> HIDE DEF Owners, I
      <4> QED OBVIOUS
    <3> HIDE DEF f, Owners, h, I
    <3> QED BY <3>2, <3>3, <3>4
  <2>2. U = UNION {f[g] : g \in L}
    <3> HIDE DEF Owners
    <3>1. {Owners(g) : g \in L} = {f[g] : g \in L}
      OBVIOUS
    <3> QED BY <3>1, Zenon
  <2> HIDE DEF f, U
  <2> QED BY <1>2, <2>1, <2>2, FiniteUnion
<1>7. IsFiniteSet(R)
  <2> HIDE DEF X
  <2> DEFINE f == [r \in X |-> {Codex!Thread(r.owner), <<"response", r.response>>}]
  <2>1. IsFiniteSet({f[g] : g \in X})
    <3> HIDE DEF f
    <3> QED BY <1>3, FiniteImage
  <2>2. R = {f[g] : g \in X}
    OBVIOUS
  <2> HIDE DEF R, f
  <2> QED BY <2>1, <2>2
<1>8. IsFiniteSet(M)
  <2> HIDE DEF Y
  <2> DEFINE f == [r \in Y |-> {Codex!Thread(r.owner), <<"response", r.mirror>>}]
  <2>1. IsFiniteSet({f[g] : g \in Y})
    <3> HIDE DEF f
    <3> QED BY <1>3, FiniteImage
  <2>2. M = {f[g] : g \in Y}
    OBVIOUS
  <2> HIDE DEF M, f
  <2> QED BY <2>1, <2>2
<1> HIDE DEF A, B, U, R, M
<1>9. IsFiniteSet(A \cup B)
  BY <1>4, <1>5, FS_Union
<1>10. IsFiniteSet((A \cup B) \cup U)
  BY <1>9, <1>6, FS_Union
<1>11. IsFiniteSet(((A \cup B) \cup U) \cup R)
  BY <1>10, <1>7, FS_Union
<1>12. IsFiniteSet((((A \cup B) \cup U) \cup R) \cup M)
  BY <1>11, <1>8, FS_Union
<1> QED BY <1>1, <1>12

CodexReached(L, b, S) == \E G \in SUBSET L : b \subseteq G /\ CodexSplit(L, G, L \ G) /\ S = Codex!KnownThreads(G)
LEMMA CodexAffected ==
  ASSUME NEW L, CodexRead(L), NEW b, b \subseteq L, NEW places, places = {g.locator : g \in b},
         NEW S, S = Codex!Affected(L, places)
  PROVE  CodexReached(L, b, S)
<1> DEFINE base == {<<"locator", l>> : l \in places}
           near == Codex!Closure(Codex!Links(L), base)
           G == {g \in L : <<"locator", g.locator>> \in near}
<1>1. S = {t \in Codex!KnownThreads(L) : Codex!Thread(t) \in near}
  BY Zenon DEF Codex!Affected
<1>2. base \subseteq near /\ \A l \in Codex!Links(L) : l \cap near # {} => l \subseteq near
  <2> DEFINE links == Codex!Links(L)
  <2>1. IsFiniteSet(links)
    BY CodexLinksFinite
  <2>2. near = Reach(links, base, Codex!Cardinality(links))
    BY Zenon DEF Codex!Closure, Reach
  <2>3. Codex!Cardinality(links) = Cardinality(links)
    BY CodexLibrary
  <2> HIDE DEF links, near, base
  <2>4. near = Reach(links, base, Cardinality(links))
    BY <2>2, <2>3, Zenon
  <2>5. base \subseteq near /\ \A l \in links : l \cap near # {} => l \subseteq near
    BY <2>1, <2>4, ReachIsWhole
  <2> QED BY <2>5 DEF links
<1>3. \A g \in b : <<"locator", g.locator>> \in base
  BY Zenon
<1>4. \A g : g \in G <=> g \in L /\ <<"locator", g.locator>> \in near
  <2> HIDE DEF near
  <2> QED OBVIOUS
<1> HIDE DEF near, base, G
<1>5. \A x, y : {x, y} \in Codex!Links(L) => (x \in near <=> y \in near)
  BY <1>2
<1>12. \A g \in L : \A i \in DOMAIN g.rows : g \in G <=> Codex!Thread(g.rows[i].owner) \in near
  <2>1. \A g \in L : \A i \in DOMAIN g.rows : {<<"locator", g.locator>>, Codex!Thread(g.rows[i].owner)} \in Codex!Links(L)
    BY CodexLinks, Zenon
  <2>2. ASSUME NEW g \in L, NEW i \in DOMAIN g.rows PROVE g \in G <=> Codex!Thread(g.rows[i].owner) \in near
    <3> DEFINE x == <<"locator", g.locator>>  y == Codex!Thread(g.rows[i].owner)
    <3>1. {x, y} \in Codex!Links(L)
      BY <2>1
    <3>2. g \in G <=> x \in near
      BY <1>4
    <3> HIDE DEF x
    <3> QED BY <1>5, <3>1, <3>2
  <2> QED BY <2>2
<1>6. \A g \in L : \A t \in CodexThreads(g) : g \in G <=> Codex!Thread(t) \in near
  <2> TAKE g \in L
  <2>1. g \in G <=> Codex!Thread(g.thread) \in near
    BY <1>4, <1>5, CodexLinks
  <2>2. g.parent # None => (g \in G <=> Codex!Thread(g.parent) \in near)
    BY <1>5, <2>1, CodexLinks
  <2>3. \A i \in DOMAIN g.rows : g \in G <=> Codex!Thread(g.rows[i].owner) \in near
    BY <1>12
  <2>4. \A t \in CodexThreads(g) : t = g.thread \/ (t = g.parent /\ t # None) \/ \E i \in DOMAIN g.rows : t = g.rows[i].owner
    BY Zenon DEF CodexThreads
  <2> QED BY <2>1, <2>2, <2>3, <2>4, Zenon
<1>7. \A g \in L : \A x \in CodexNames(g) : g \in G <=> <<"response", x>> \in near
  <2> TAKE g \in L
  <2>1. ASSUME NEW i \in DOMAIN g.rows
        PROVE  /\ g.rows[i].response # None => (g \in G <=> <<"response", g.rows[i].response>> \in near)
               /\ g.rows[i].mirror # None => (g \in G <=> <<"response", g.rows[i].mirror>> \in near)
    <3> DEFINE r == g.rows[i]
    <3>1. r \in Codex!Rows(L)
      BY CodexRowsOfAll
    <3>2. g \in G <=> Codex!Thread(r.owner) \in near
      BY <1>12
    <3> HIDE DEF r
    <3>3. r.response # None => {Codex!Thread(r.owner), <<"response", r.response>>} \in Codex!Links(L)
      BY <3>1, CodexLinks
    <3>4. r.mirror # None => {Codex!Thread(r.owner), <<"response", r.mirror>>} \in Codex!Links(L)
      BY <3>1, CodexLinks
    <3>5. r.response # None => (g \in G <=> <<"response", r.response>> \in near)
      BY <1>5, <3>2, <3>3, Zenon
    <3>6. r.mirror # None => (g \in G <=> <<"response", r.mirror>> \in near)
      BY <1>5, <3>2, <3>4, Zenon
    <3> QED BY <3>5, <3>6 DEF r
  <2>2. \A x \in CodexNames(g) : x # None /\ \E i \in DOMAIN g.rows : x = g.rows[i].response \/ x = g.rows[i].mirror
    BY Zenon DEF CodexNames
  <2> QED BY <2>1, <2>2, Zenon
<1>8. CodexApart(G, L \ G)
  <2> SUFFICES ASSUME NEW g \in G, NEW h \in L \ G
               PROVE  CodexThreads(g) \cap CodexThreads(h) = {} /\ CodexNames(g) \cap CodexNames(h) = {}
    BY DEF CodexApart
  <2>1. g \in L /\ h \in L /\ h \notin G
    BY <1>4
  <2>2. \A t : ~(t \in CodexThreads(g) /\ t \in CodexThreads(h))
    BY <1>6, <2>1, Zenon
  <2>3. \A t : ~(t \in CodexNames(g) /\ t \in CodexNames(h))
    BY <1>7, <2>1, Zenon
  <2> QED BY <2>2, <2>3
<1>9. G \subseteq L /\ b \subseteq G /\ L = G \cup (L \ G)
  BY <1>2, <1>3, <1>4
<1>10. CodexSplit(L, G, L \ G)
  BY <1>8, <1>9, Zenon DEF CodexSplit
<1>11. S = Codex!KnownThreads(G)
  <2>1. ASSUME NEW M
        PROVE \A t : t \in Codex!KnownThreads(M) <=> (\E g \in M : t = g.thread) \/ \E r \in Codex!Rows(M) : t = r.owner
    BY CodexSpeaks
  <2>2. ASSUME NEW t \in S PROVE t \in Codex!KnownThreads(G)
    <3>1. t \in Codex!KnownThreads(L) /\ Codex!Thread(t) \in near
      BY <1>1
    <3>2. CASE \E g \in L : t = g.thread
      <4>1. PICK g \in L : t = g.thread
        BY <3>2
      <4>2. t \in CodexThreads(g)
        BY <4>1 DEF CodexThreads
      <4>3. g \in G
        BY <1>6, <3>1, <4>2
      <4> QED BY <2>1, <4>1, <4>3
    <3>3. CASE \E r \in Codex!Rows(L) : t = r.owner
      <4>1. PICK r \in Codex!Rows(L) : t = r.owner
        BY <3>3
      <4>2. PICK g \in L : \E i \in DOMAIN g.rows : r = g.rows[i]
        BY CodexRowsOfAll
      <4>3. t \in CodexThreads(g)
        BY <4>1, <4>2 DEF CodexThreads
      <4>4. g \in G
        BY <1>6, <3>1, <4>3
      <4>5. r \in Codex!Rows(G)
        BY <4>2, <4>4, CodexRowsOfAll
      <4> QED BY <2>1, <4>1, <4>5
    <3> QED BY <2>1, <3>1, <3>2, <3>3
  <2>3. ASSUME NEW t \in Codex!KnownThreads(G) PROVE t \in S
    <3>1. \E g \in G : t \in CodexThreads(g)
      <4>1. CASE \E g \in G : t = g.thread
        BY <4>1 DEF CodexThreads
      <4>2. CASE \E r \in Codex!Rows(G) : t = r.owner
        <5>1. PICK r \in Codex!Rows(G) : t = r.owner
          BY <4>2
        <5>2. PICK g \in G : \E i \in DOMAIN g.rows : r = g.rows[i]
          BY CodexRowsOfAll
        <5> QED BY <5>1, <5>2 DEF CodexThreads
      <4> QED BY <2>1, <4>1, <4>2
    <3>2. Codex!Thread(t) \in near
      BY <1>6, <1>9, <3>1
    <3>3. t \in Codex!KnownThreads(L)
      <4>1. Codex!Rows(G) \subseteq Codex!Rows(L)
        BY <1>9, CodexReadPart
      <4> QED BY <1>9, <2>1, <4>1
    <3> QED BY <1>1, <3>2, <3>3
  <2> QED BY <2>2, <2>3
<1>13. G \in SUBSET L
  BY <1>9
<1> QED BY <1>9, <1>10, <1>11, <1>13, Zenon DEF CodexReached

-----------------------------------------------------------------------------
(* Deciding again what an import affects is deciding everything again. *)
CodexDecidedAgain(L, S, d, e) ==
  e = [o \in Codex!Observations(L) |-> IF o.owner \in S THEN Codex!Decide(L, S)[o] ELSE d[o]]
CodexDisputedAgain(L, S, m, n) == n = {o \in m : o.owner \notin S} \cup Codex!Disputes(L, S)

LEMMA CodexOwners ==
  ASSUME NEW L
  PROVE  \A o \in Codex!Observations(L) : o.owner \in Codex!KnownThreads(L)
<1> TAKE o \in Codex!Observations(L)
<1>1. PICK r \in Codex!Rows(L) : o = Codex!Observation(r)
  BY CodexRowsOfAll
<1>2. o.owner = r.owner
  BY <1>1, CodexObserves
<1> QED BY <1>2, CodexSpeaks

LEMMA CodexImported ==
  ASSUME MaxRead \in Nat, NEW K, NEW L, CodexRead(L), NEW b, L = K \cup b,
         NEW places, places = {g.locator : g \in b}, NEW S, S = Codex!Affected(L, places),
         NEW d, d = Codex!Decide(K, Codex!KnownThreads(K)), NEW e, CodexDecidedAgain(L, S, d, e),
         NEW m, m = Codex!Disputes(K, Codex!KnownThreads(K)), NEW n, CodexDisputedAgain(L, S, m, n)
  PROVE  e = Codex!Decide(L, Codex!KnownThreads(L)) /\ n = Codex!Disputes(L, Codex!KnownThreads(L))
<1>1. PICK G \in SUBSET L : b \subseteq G /\ CodexSplit(L, G, L \ G) /\ S = Codex!KnownThreads(G)
  <2>1. b \subseteq L
    OBVIOUS
  <2>2. CodexReached(L, b, S)
    BY <2>1, CodexAffected
  <2> QED BY <2>2, Zenon DEF CodexReached
<1> DEFINE H == L \ G
           P == K \cap G
<1>2. K = P \cup H /\ K \subseteq L
  BY <1>1
<1>3. CodexSplit(L, G, H) /\ CodexSplit(L, H, G)
  BY <1>1, CodexSplits
<1>4. CodexSplit(K, P, H)
  <2>1. CodexRead(K)
    BY <1>2, CodexReadPart
  <2>2. CodexApart(P, H)
    BY <1>3 DEF CodexSplit, CodexApart
  <2> HIDE DEF P, H
  <2> QED BY <1>2, <2>1, <2>2 DEF CodexSplit
<1>5. CodexSplit(K, H, P)
  <2> HIDE DEF P, H
  <2> QED BY <1>4, CodexSplits
<1> DEFINE all == Codex!KnownThreads(L)
           A == Codex!Decide(L, all)
           F == Codex!Decide(L, S)
<1> HIDE DEF P, H
<1>6. Codex!Observations(L) = Codex!Observations(G) \cup Codex!Observations(H)
  BY <1>3, CodexSplitRows
<1>7. S \subseteq all /\ Codex!KnownThreads(H) \subseteq all /\ Codex!KnownThreads(H) \subseteq Codex!KnownThreads(K)
  <2>1. all = Codex!KnownThreads(G) \cup Codex!KnownThreads(H)
    BY <1>3, CodexSplitRows
  <2>2. Codex!KnownThreads(K) = Codex!KnownThreads(H) \cup Codex!KnownThreads(P)
    BY <1>5, CodexSplitRows
  <2> QED BY <1>1, <2>1, <2>2
<1>8. \A o \in Codex!Observations(G) : o \in DOMAIN A /\ F[o] = A[o] /\ o.owner \in S
  <2> DEFINE E == Codex!Decide(G, Codex!KnownThreads(G))
  <2>1. \A o \in Codex!Observations(G) : o \in DOMAIN F /\ o \in DOMAIN E /\ F[o] = E[o]
    BY <1>1, <1>3, CodexSplitDecides
  <2>2. \A o \in Codex!Observations(G) : o \in DOMAIN A /\ o \in DOMAIN E /\ A[o] = E[o]
    <3>1. Codex!KnownThreads(G) \subseteq all
      BY <1>1, <1>7
    <3> HIDE DEF all
    <3> QED BY <1>3, <3>1, CodexSplitDecides
  <2>3. \A o \in Codex!Observations(G) : o.owner \in S
    BY <1>1, CodexOwners
  <2> HIDE DEF A, F, E
  <2> QED BY <2>1, <2>2, <2>3
<1>9. \A o \in Codex!Observations(H) : o \in DOMAIN A /\ d[o] = A[o] /\ o.owner \notin S
  <2> DEFINE E == Codex!Decide(H, Codex!KnownThreads(H))
             B == Codex!KnownThreads(K)
  <2>1. \A o \in Codex!Observations(H) : o \in DOMAIN d /\ o \in DOMAIN E /\ d[o] = E[o]
    <3>1. Codex!KnownThreads(H) \subseteq B /\ d = Codex!Decide(K, B)
      BY <1>7
    <3> HIDE DEF B
    <3> QED BY <1>5, <3>1, CodexSplitDecides
  <2>2. \A o \in Codex!Observations(H) : o \in DOMAIN A /\ o \in DOMAIN E /\ A[o] = E[o]
    <3> HIDE DEF all
    <3> QED BY <1>3, <1>7, CodexSplitDecides
  <2>3. \A o \in Codex!Observations(H) : o.owner \notin S
    <3> TAKE o \in Codex!Observations(H)
    <3>1. o.owner \in CodexSeen(H)
      BY CodexOwners, CodexSpeaks
    <3>2. CodexSeen(G) \cap CodexSeen(H) = {}
      BY <1>3, CodexSplits
    <3>3. S \subseteq CodexSeen(G)
      BY <1>1, CodexSpeaks
    <3> QED BY <3>1, <3>2, <3>3
  <2> HIDE DEF A, F, E
  <2> QED BY <2>1, <2>2, <2>3
<1>10. A = [o \in DOMAIN A |-> A[o]] /\ \A o : o \in DOMAIN A <=> o \in Codex!Observations(L)
  <2>1. CodexAnswers(L, all, A)
    <3> HIDE DEF all
    <3> QED BY CodexDecides DEF A
  <2>2. A = [o \in DOMAIN A |-> A[o]]
    BY <2>1, Zenon DEF CodexAnswers
  <2>3. \A o : o \in DOMAIN A <=> o \in Codex!Observations(L) /\ o.owner \in all
    BY <2>1, Zenon DEF CodexAnswers
  <2>4. \A o \in Codex!Observations(L) : o.owner \in all
    BY CodexOwners
  <2> HIDE DEF A, all
  <2> QED BY <2>2, <2>3, <2>4
<1>11. e = A
  <2>1. e = [o \in Codex!Observations(L) |-> IF o.owner \in S THEN F[o] ELSE d[o]]
    BY Zenon DEF CodexDecidedAgain
  <2> HIDE DEF A, F
  <2>2. DOMAIN e = Codex!Observations(L) /\ e = [o \in DOMAIN e |-> e[o]]
    <3> DEFINE D == Codex!Observations(L)
               Value(o) == IF o.owner \in S THEN F[o] ELSE d[o]
    <3>1. e = [o \in D |-> Value(o)]
      BY <2>1
    <3> HIDE DEF D, Value
    <3>2. DOMAIN e = D /\ e = [o \in DOMAIN e |-> e[o]]
      BY <3>1
    <3> QED BY <3>2 DEF D
  <2>3. \A o \in DOMAIN e : e[o] = A[o]
    BY <1>6, <1>8, <1>9, <2>1, <2>2
  <2>4. \A o : o \in DOMAIN e <=> o \in DOMAIN A
    BY <1>10, <2>2
  <2> QED BY <1>10, <2>2, <2>3, <2>4, CodexSameAnswers
<1>12. n = Codex!Disputes(L, all)
  <2>0. n = {o \in m : o.owner \notin S} \cup Codex!Disputes(L, S)
    BY Zenon DEF CodexDisputedAgain
  <2> HIDE DEF all
  <2>1. /\ \A o \in Codex!Observations(G) : o \in Codex!Disputes(L, S) <=> o \in Codex!Disputes(G, Codex!KnownThreads(G))
        /\ \A o \in Codex!Disputes(L, S) : o \in Codex!Observations(L) /\ o.owner \in S
    BY <1>1, <1>3, CodexSplitDisputes
  <2>2. /\ \A o \in Codex!Observations(G) : o \in Codex!Disputes(L, all) <=> o \in Codex!Disputes(G, Codex!KnownThreads(G))
        /\ \A o \in Codex!Disputes(L, all) : o \in Codex!Observations(L) /\ o.owner \in all
    BY <1>1, <1>3, <1>7, CodexSplitDisputes
  <2>3. \A o \in Codex!Observations(H) : o \in Codex!Disputes(L, all) <=> o \in Codex!Disputes(H, Codex!KnownThreads(H))
    BY <1>3, <1>7, CodexSplitDisputes
  <2>4. /\ \A o \in Codex!Observations(H) : o \in m <=> o \in Codex!Disputes(H, Codex!KnownThreads(H))
        /\ \A o \in m : o \in Codex!Observations(K)
    BY <1>5, <1>7, CodexSplitDisputes
  <2>5. \A o \in Codex!Observations(K) : o \in Codex!Observations(L)
    BY <1>2, CodexReadPart
  <2>6. \A o : o \in n <=> o \in Codex!Disputes(L, all)
    <3> TAKE o
    <3>1. CASE o \in Codex!Observations(G)
      BY <1>8, <2>0, <2>1, <2>2, <3>1
    <3>2. CASE o \in Codex!Observations(H)
      BY <1>9, <2>0, <2>1, <2>3, <2>4, <3>2
    <3>3. CASE o \notin Codex!Observations(L)
      BY <2>0, <2>1, <2>2, <2>4, <2>5, <3>3
    <3> QED BY <1>6, <3>1, <3>2, <3>3
  <2> QED BY <2>6
<1> QED BY <1>11, <1>12

-----------------------------------------------------------------------------
(* The invariant: everything read is a reading of a file, and the decisions are
   those of deciding everything anew. *)
CodexAllRead == {Codex!Generation(f) : f \in CodexFiles}
CodexInv == /\ read \subseteq CodexAllRead /\ Cardinality(read) <= MaxRead
            /\ Codex!Incremental

LEMMA CodexGenerations ==
  ASSUME Codex!CodexConstants
  PROVE  CodexRead(CodexAllRead) /\ MaxRead \in Nat
<1>1. /\ IsFiniteSet(CodexFiles) /\ MaxRead \in Nat
      /\ \A f \in CodexFiles : Len(f.lines) \in Nat /\ CodexLinesDated(f)
      /\ None \notin Codex!Rows(CodexAllRead) \cup Codex!Observations(CodexAllRead)
  <2>1. IsFiniteSet(CodexFiles) /\ MaxRead \in Nat
    BY CodexLibrary DEF Codex!CodexConstants
  <2>2. \A f \in CodexFiles : Len(f.lines) \in Nat /\ CodexLinesDated(f)
    BY Zenon DEF Codex!CodexConstants, CodexLinesDated
  <2>3. None \notin Codex!Rows(CodexAllRead) \cup Codex!Observations(CodexAllRead)
    BY Zenon DEF Codex!CodexConstants, CodexAllRead
  <2> QED BY <2>1, <2>2, <2>3
<1>2. IsFiniteSet(CodexAllRead)
  <2> DEFINE h == [f \in CodexFiles |-> Codex!Generation(f)]
  <2>1. IsFiniteSet({h[f] : f \in CodexFiles})
    <3> HIDE DEF h
    <3> QED BY <1>1, FiniteImage
  <2>2. CodexAllRead = {h[f] : f \in CodexFiles}
    BY DEF CodexAllRead
  <2> HIDE DEF h
  <2> QED BY <2>1, <2>2
<1>3. \A g \in CodexAllRead : CodexGeneration(g)
  <2> TAKE g \in CodexAllRead
  <2>1. PICK f \in CodexFiles : g = Codex!Generation(f)
    BY DEF CodexAllRead
  <2>2. g.rows = Codex!ReadRows(f)
    BY <2>1 DEF Codex!Generation
  <2>3. \E m \in Nat : DOMAIN Codex!ReadRows(f) = 1..m /\ \A i \in 1..m : CodexRow(Codex!ReadRows(f)[i])
    BY <1>1, CodexReads
  <2> QED BY <2>2, <2>3 DEF CodexGeneration
<1> QED BY <1>1, <1>2, <1>3 DEF CodexRead

LEMMA CodexInit ==
  ASSUME Codex!CodexConstants, Codex!LedgerInit
  PROVE  CodexInv
<1>1. read = {} /\ decision = [o \in {} |-> None] /\ modelDisputes = {} /\ MaxRead \in Nat
  BY DEF Codex!LedgerInit, Codex!CodexConstants
<1>2. CodexRead(read)
  BY <1>1, CodexGenerations, CodexReadPart
<1>3. \A r : r \notin Codex!Rows(read)
  BY <1>1, CodexRowsOfAll
<1>4. \A o : o \notin Codex!Observations(read)
  BY <1>3, CodexRowsOfAll
<1> DEFINE all == Codex!KnownThreads(read)
           F == Codex!Decide(read, all)
<1>5. decision = F
  <2>1. CodexAnswers(read, all, F)
    BY <1>2, CodexDecides
  <2>2. \A o : o \notin DOMAIN F
    BY <1>4, <2>1, Zenon DEF CodexAnswers
  <2>3. F = [o \in DOMAIN F |-> F[o]]
    BY <2>1, Zenon DEF CodexAnswers
  <2> HIDE DEF F
  <2>4. DOMAIN F = {}
    BY <2>2
  <2> DEFINE D == DOMAIN F
  <2>5. D = {} /\ F = [o \in D |-> F[o]]
    BY <2>3, <2>4
  <2>6. decision = [o \in D |-> None]
    BY <1>1, <2>4
  <2> HIDE DEF D
  <2> QED BY <2>5, <2>6
<1>6. modelDisputes = Codex!Disputes(read, all)
  BY <1>1, <1>3, CodexDisputed
<1>7. Cardinality(read) <= MaxRead
  BY <1>1, FS_EmptySet
<1> QED BY <1>1, <1>5, <1>6, <1>7, Zenon DEF CodexInv, Codex!Incremental

LEMMA CodexStep ==
  ASSUME Codex!CodexConstants, CodexInv, [Codex!Next]_Codex!ledgerVars
  PROVE  CodexInv'
<1>1. CASE UNCHANGED Codex!ledgerVars
  BY <1>1 DEF Codex!ledgerVars, CodexInv, Codex!Incremental
<1>2. ASSUME NEW b \in Codex!Batches({Codex!Generation(f) : f \in CodexFiles} \ read), Codex!Import(b) PROVE CodexInv'
  <2> DEFINE L == read \cup b
             places == {g.locator : g \in b}
             S == Codex!Affected(L, places)
  <2>1. /\ Cardinality(L) <= MaxRead /\ read' = L
        /\ decision' = [o \in Codex!Observations(L) |-> IF o.owner \in S THEN Codex!Decide(L, S)[o] ELSE decision[o]]
        /\ modelDisputes' = {o \in modelDisputes : o.owner \notin S} \cup Codex!Disputes(L, S)
    BY <1>2, CodexLibrary, Zenon DEF Codex!Import
  <2>2. b \subseteq CodexAllRead
    BY DEF Codex!Batches, CodexAllRead
  <2>3. L \subseteq CodexAllRead
    BY <2>2 DEF CodexInv
  <2>4. CodexRead(L) /\ MaxRead \in Nat
    BY <2>3, CodexGenerations, CodexReadPart
  <2>5. decision = Codex!Decide(read, Codex!KnownThreads(read)) /\ modelDisputes = Codex!Disputes(read, Codex!KnownThreads(read))
    BY DEF CodexInv, Codex!Incremental
  <2>6. CodexDecidedAgain(L, S, decision, decision') /\ CodexDisputedAgain(L, S, modelDisputes, modelDisputes')
    BY <2>1, Zenon DEF CodexDecidedAgain, CodexDisputedAgain
  <2>7. L = read \cup b /\ places = {g.locator : g \in b} /\ S = Codex!Affected(L, places)
    OBVIOUS
  <2> HIDE DEF L, S, places
  <2>8. decision' = Codex!Decide(L, Codex!KnownThreads(L)) /\ modelDisputes' = Codex!Disputes(L, Codex!KnownThreads(L))
    BY <2>4, <2>5, <2>6, <2>7, CodexImported
  <2>9. Codex!Incremental'
    BY <2>1, <2>8 DEF Codex!Incremental
  <2> QED BY <2>1, <2>3, <2>9 DEF CodexInv
<1> QED BY <1>1, <1>2 DEF Codex!Next

LEMMA CodexAlways ==
  ASSUME Codex!CodexConstants
  PROVE  Codex!Spec => []CodexInv
<1>1. Codex!LedgerInit => CodexInv
  BY CodexInit
<1>2. CodexInv /\ [Codex!Next]_Codex!ledgerVars => CodexInv'
  BY CodexStep
<1> QED BY <1>1, <1>2, PTL DEF Codex!Spec

-----------------------------------------------------------------------------
(* A line of ancestors that comes back to a thread goes on in the circle; a line
   longer than the files that name a parent comes back.  So the ancestors of an
   ancestor are ancestors, or the thread itself. *)
LEMMA CodexLineEnds ==
  ASSUME MaxRead \in Nat, NEW L, NEW t, NEW line, CodexLine(L, t, line), NEW j \in 0..MaxRead + 1, line[j] = None
  PROVE  \A k \in j..MaxRead + 1 : line[k] = None
<1> DEFINE n == MaxRead + 1
           T == {k \in Nat : j + k <= n => line[j + k] = None}
<1>1. n \in Nat /\ j \in Nat /\ j <= n
  OBVIOUS
<1>2. \A k \in 1..n : line[k] = IF line[k - 1] = None THEN None ELSE Codex!Parent(L, line[k - 1])
  BY DEF CodexLine
<1> HIDE DEF n
<1>3. T = Nat
  <2>1. T \subseteq Nat /\ 0 \in T
    BY <1>1
  <2>2. ASSUME NEW k \in T PROVE k + 1 \in T
    <3> SUFFICES ASSUME j + (k + 1) <= n PROVE line[j + (k + 1)] = None
      BY <1>1
    <3>1. k \in Nat /\ j + (k + 1) \in 1..n /\ (j + (k + 1)) - 1 = j + k /\ line[j + k] = None
      BY <1>1
    <3> QED BY <1>2, <3>1
  <2> HIDE DEF T
  <2> QED BY <2>1, <2>2, AllNumbers
<1>4. ASSUME NEW k \in j..n PROVE line[k] = None
  <2>1. k - j \in Nat /\ j + (k - j) = k /\ k <= n
    BY <1>1
  <2> QED BY <1>3, <2>1
<1> QED BY <1>4 DEF n

LEMMA CodexLineTurns ==
  ASSUME MaxRead \in Nat, NEW L, NEW t, NEW line, CodexLine(L, t, line),
         NEW i \in 0..MaxRead + 1, NEW j \in 0..MaxRead + 1, i < j, line[i] = line[j]
  PROVE  line[i + ((MaxRead + 1) - j)] = line[MaxRead + 1]
<1> DEFINE n == MaxRead + 1
           T == {m \in Nat : j + m <= n => line[i + m] = line[j + m]}
<1>1. n \in Nat /\ i \in Nat /\ j \in Nat /\ j <= n
  OBVIOUS
<1>2. \A l \in 1..n : line[l] = IF line[l - 1] = None THEN None ELSE Codex!Parent(L, line[l - 1])
  BY DEF CodexLine
<1> HIDE DEF n
<1>3. T = Nat
  <2>1. T \subseteq Nat /\ 0 \in T
    BY <1>1
  <2>2. ASSUME NEW m \in T PROVE m + 1 \in T
    <3> SUFFICES ASSUME j + (m + 1) <= n PROVE line[i + (m + 1)] = line[j + (m + 1)]
      BY <1>1
    <3>1. /\ m \in Nat /\ j + (m + 1) \in 1..n /\ (j + (m + 1)) - 1 = j + m
          /\ i + (m + 1) \in 1..n /\ (i + (m + 1)) - 1 = i + m /\ line[i + m] = line[j + m]
      BY <1>1
    <3> DEFINE x == i + (m + 1)
               y == j + (m + 1)
    <3>2. line[x] = IF line[x - 1] = None THEN None ELSE Codex!Parent(L, line[x - 1])
      BY <1>2, <3>1
    <3>3. line[y] = IF line[y - 1] = None THEN None ELSE Codex!Parent(L, line[y - 1])
      BY <1>2, <3>1
    <3> QED BY <3>1, <3>2, <3>3
  <2> HIDE DEF T
  <2> QED BY <2>1, <2>2, AllNumbers
<1>4. n - j \in Nat /\ j + (n - j) = n /\ n <= n
  BY <1>1
<1>5. n - j \in T
  BY <1>3, <1>4
<1> QED BY <1>4, <1>5 DEF n

CodexNamesParent(L) == {g.thread : g \in L}
LEMMA CodexAncestorIs ==
  ASSUME MaxRead \in Nat, NEW L, NEW t, NEW a
  PROVE  a \in Codex!Ancestors(L, t) <=> a # None /\ a # t /\ \E k \in 1..MaxRead + 1 : a = Codex!Lineage(L, t)[k]
<1> DEFINE line == Codex!Lineage(L, t)
           D == DOMAIN line \ {0}
<1>1. CodexLine(L, t, line)
  BY CodexLineage
<1>2. Codex!Ancestors(L, t) = {line[k] : k \in D} \ {None, t}
  BY Zenon DEF Codex!Ancestors
<1> HIDE DEF line
<1>3. D = 1..MaxRead + 1
  BY <1>1 DEF CodexLine
<1> HIDE DEF D
<1> QED BY <1>2, <1>3 DEF line

LEMMA CodexAncestorsParent ==
  ASSUME MaxRead \in Nat, NEW L, IsFiniteSet(L), Cardinality(L) <= MaxRead, NEW t, t # None,
         NEW a \in {t} \cup Codex!Ancestors(L, t), Codex!Parent(L, a) # None
  PROVE  Codex!Parent(L, a) \in {t} \cup Codex!Ancestors(L, t)
<1> DEFINE n == MaxRead + 1
           line == Codex!Lineage(L, t)
           T == CodexNamesParent(L)
<1>0. CodexLine(L, t, line)
  BY CodexLineage
<1> HIDE DEF line, T
<1>1. n \in Nat /\ line[0] = t /\ \A k \in 1..n : line[k] = IF line[k - 1] = None THEN None ELSE Codex!Parent(L, line[k - 1])
  <2>1. n \in Nat
    OBVIOUS
  <2>2. line[0] = t /\ \A k \in 1..n : line[k] = IF line[k - 1] = None THEN None ELSE Codex!Parent(L, line[k - 1])
    BY <1>0, Zenon DEF CodexLine
  <2> QED BY <2>1, <2>2
<1> HIDE DEF n
<1>2. a # None
  BY CodexAncestorIs
<1>3. PICK k \in 0..n : a = line[k]
  <2>1. CASE a = t
    BY <1>1, <2>1
  <2>2. CASE a # t
    <3>1. a \in Codex!Ancestors(L, t)
      BY <2>2
    <3>2. \E k \in 1..n : a = line[k]
      BY <3>1, CodexAncestorIs DEF line, n
    <3> QED BY <1>1, <3>2
  <2> QED BY <2>1, <2>2
<1>4. ASSUME NEW i \in 0..n, i < n, a = line[i] PROVE Codex!Parent(L, a) \in {t} \cup Codex!Ancestors(L, t)
  <2>1. i + 1 \in 1..n /\ (i + 1) - 1 = i
    BY <1>1, <1>4
  <2>2. line[i + 1] = Codex!Parent(L, a)
    BY <1>1, <1>2, <1>4, <2>1
  <2>3. \E m \in 1..n : Codex!Parent(L, a) = line[m]
    BY <2>1, <2>2
  <2> QED BY <2>3, CodexAncestorIs DEF line, n
<1>5. CASE k < n
  BY <1>3, <1>4, <1>5
<1>6. CASE k = n
  <2>1. \A m \in 0..n : line[m] # None
    <3> TAKE m \in 0..n
    <3> SUFFICES ASSUME line[m] = None PROVE FALSE
      OBVIOUS
    <3>1. n \in m..n
      BY <1>1
    <3>2. line[n] = None
      BY <1>0, <3>1, CodexLineEnds DEF n
    <3> QED BY <1>2, <1>3, <1>6, <3>2
  <2>2. \A m \in 0..n : m < n => line[m] \in T
    <3> TAKE m \in 0..n
    <3> HAVE m < n
    <3>1. m + 1 \in 1..n /\ (m + 1) - 1 = m /\ m + 1 \in 0..n
      BY <1>1
    <3>2. line[m + 1] = Codex!Parent(L, line[m]) /\ line[m + 1] # None
      BY <1>1, <2>1, <3>1
    <3>3. \E g \in L : g.thread = line[m]
      BY <3>2, CodexParent
    <3> QED BY <3>3, Zenon DEF T, CodexNamesParent
  <2>3. IsFiniteSet(T) /\ Cardinality(T) <= MaxRead
    <3> DEFINE f == [g \in L |-> g.thread]
    <3>1. IsFiniteSet({f[g] : g \in L}) /\ Cardinality({f[g] : g \in L}) <= Cardinality(L)
      <4> HIDE DEF f
      <4> QED BY FiniteImage
    <3>2. T = {f[g] : g \in L}
      BY DEF T, CodexNamesParent
    <3> HIDE DEF f
    <3>3. IsFiniteSet(T) /\ Cardinality(T) <= Cardinality(L)
      BY <3>1, <3>2
    <3>4. Cardinality(T) \in Nat /\ Cardinality(L) \in Nat
      BY <3>3, FS_CardinalityType
    <3> QED BY <3>3, <3>4
  <2>4. Cardinality(T) \in Nat /\ Cardinality(T) < n
    <3>1. Cardinality(T) \in Nat
      BY <2>3, FS_CardinalityType
    <3> QED BY <2>3, <3>1 DEF n
  <2>5. \A m \in 0..Cardinality(T) : line[m] \in T
    BY <1>1, <2>2, <2>4
  <2>6. PICK i, j \in 0..Cardinality(T) : i < j /\ line[i] = line[j]
    BY <2>3, <2>5, Revisits
  <2>7. i \in 0..n /\ j \in 0..n
    BY <1>1, <2>4
  <2>8. line[i + (n - j)] = line[n]
    BY <1>0, <2>6, <2>7, CodexLineTurns, Zenon DEF n
  <2>9. i + (n - j) \in 0..n /\ i + (n - j) < n
    BY <1>1, <2>6, <2>7
  <2> QED BY <1>3, <1>4, <1>6, <2>8, <2>9
<1> QED BY <1>1, <1>5, <1>6

LEMMA CodexAncestorsOf ==
  ASSUME MaxRead \in Nat, NEW L, IsFiniteSet(L), Cardinality(L) <= MaxRead, NEW t, NEW a \in Codex!Ancestors(L, t)
  PROVE  {a} \cup Codex!Ancestors(L, a) \subseteq {t} \cup Codex!Ancestors(L, t)
<1> DEFINE n == MaxRead + 1
           line == Codex!Lineage(L, a)
           X == {t} \cup Codex!Ancestors(L, t)
           T == {k \in Nat : k <= n => line[k] \in {None} \cup X}
<1> HIDE DEF line
<1>0. t # None
  <2> SUFFICES ASSUME t = None PROVE FALSE
    OBVIOUS
  <2> DEFINE upper == Codex!Lineage(L, t)
  <2>1. CodexLine(L, t, upper)
    BY CodexLineage
  <2>2. PICK k \in 1..n : a # None /\ a = upper[k]
    BY CodexAncestorIs
  <2>3. upper[0] = None /\ 0 \in 0..n /\ k \in 0..n
    BY <2>1 DEF CodexLine
  <2> HIDE DEF upper
  <2>4. \A m \in 0..n : upper[m] = None
    BY <2>1, <2>3, CodexLineEnds
  <2> QED BY <2>2, <2>3, <2>4
<1>1. CodexLine(L, a, line) /\ n \in Nat
  BY CodexLineage DEF line
<1>2. \A b \in X : Codex!Parent(L, b) # None => Codex!Parent(L, b) \in X
  BY <1>0, CodexAncestorsParent
<1> HIDE DEF X, n
<1>3. line[0] = a /\ \A k \in 1..n : line[k] = IF line[k - 1] = None THEN None ELSE Codex!Parent(L, line[k - 1])
  BY <1>1 DEF CodexLine, n
<1>4. T = Nat
  <2>1. T \subseteq Nat /\ 0 \in T
    BY <1>3 DEF X
  <2>2. ASSUME NEW k \in T PROVE k + 1 \in T
    <3> SUFFICES ASSUME k + 1 <= n PROVE line[k + 1] \in {None} \cup X
      OBVIOUS
    <3>1. k \in Nat /\ k + 1 \in 1..n /\ (k + 1) - 1 = k /\ line[k] \in {None} \cup X
      BY <1>1
    <3> QED BY <1>2, <1>3, <3>1
  <2> HIDE DEF T
  <2> QED BY <2>1, <2>2, AllNumbers
<1>5. \A k \in 1..n : line[k] \in {None} \cup X
  <2> TAKE k \in 1..n
  <2>1. k \in Nat /\ k <= n
    BY <1>1
  <2>2. k \in T
    BY <1>4, <2>1
  <2> QED BY <2>1, <2>2
<1>6. \A b : b \in Codex!Ancestors(L, a) => b # None /\ \E k \in 1..n : b = line[k]
  BY CodexAncestorIs DEF line, n
<1> QED BY <1>5, <1>6 DEF X

-----------------------------------------------------------------------------
(* What the decisions stand for: the observation of a candidate that stands for
   itself, reached from favour to favour. *)
LEMMA CodexEndsAtOnce ==
  ASSUME NEW C, IsFiniteSet(C), NEW c \in C, c # None, NEW f, f[c] = c
  PROVE  CodexChased(C, f, Cardinality(C))[c] = c
<1> DEFINE n == Cardinality(C)
<1>1. n \in Nat /\ n # 0
  BY FS_CardinalityType, FS_EmptySet
<1> HIDE DEF n
<1>2. PICK s : CodexSteps(s, C, f, n)
  BY <1>1, CodexChase
<1>3. n \in 1..n
  BY <1>1
<1> QED BY <1>2, <1>3 DEF CodexSteps, n

CodexStands(L, C, o, e) == e \in C /\ Codex!InFavourOf(L, C, e) = e /\ o = Codex!Observation(e)

LEMMA CodexDecisions ==
  ASSUME MaxRead \in Nat, NEW L, CodexRead(L), NEW S, S = Codex!KnownThreads(L),
         NEW C, C = Codex!Candidates(L, S), NEW F, F = Codex!Decide(L, S)
  PROVE  /\ DOMAIN F = Codex!Observations(L)
         /\ \A o \in Codex!Observations(L) : Codex!Candidate(L, o) \in C /\ Codex!Observation(Codex!Candidate(L, o)) = o
         /\ \A o \in Codex!Observations(L) : F[o] # None =>
              LET e == CodexEnds(L, C, Codex!Candidate(L, o)) IN
              e # None /\ CodexStands(L, C, F[o], e) /\ F[o] \in Codex!Observations(L) /\ F[F[o]] = F[o]
         /\ \A o \in Codex!Observations(L) : F[o] = o =>
              Codex!InFavourOf(L, C, Codex!Candidate(L, o)) = Codex!Candidate(L, o)
<1> DEFINE f == CodexFavour(L, C)
<1>1. CodexAnswers(L, S, F)
  BY CodexDecides
<1>2. \A o \in Codex!Observations(L) : o.owner \in S
  BY CodexOwners
<1>3. /\ \A o \in Codex!Observations(L) : o.owner \in S => Codex!Candidate(L, o) \in C
      /\ \A c \in C : c = Codex!Candidate(L, Codex!Observation(c))
      /\ \A c \in C : CodexRow(c) /\ c # None /\ Codex!Observation(c) \in Codex!Observations(L)
      /\ IsFiniteSet(C)
  BY CodexCandidates
<1>4. \A o \in Codex!Observations(L) : Codex!Candidate(L, o) \in C /\ Codex!Observation(Codex!Candidate(L, o)) = o
  BY <1>2, <1>3, CodexCandidate
<1>5. \A c \in C : f[c] = Codex!InFavourOf(L, C, c)
  BY Zenon DEF CodexFavour
<1>6. \A c \in C : f[c] \in C \cup {None}
  <2> TAKE c \in C
  <2> DEFINE e == Codex!InFavourOf(L, C, c)
  <2>1. e # None => CodexGoes(L, C, c, e)
    <3> SUFFICES ASSUME e # None PROVE CodexGoes(L, C, c, e)
      OBVIOUS
    <3>1. e = Codex!InFavourOf(L, C, c)
      OBVIOUS
    <3> HIDE DEF e
    <3> QED BY <3>1, CodexFavours
  <2>2. f[c] = e
    BY <1>5
  <2> HIDE DEF e, f
  <2> QED BY <2>1, <2>2 DEF CodexGoes
<1>7. \A c \in C : LET e == CodexEnds(L, C, c) IN e # None => e \in C /\ f[e] = e
  <2> TAKE c \in C
  <2> DEFINE R == {<<x, y>> : x \in C, y \in C}
             e == CodexChased(C, f, Cardinality(C))[c]
  <2>1. \A x, y \in C : <<x, y>> \in R
    OBVIOUS
  <2>2. e = CodexEnds(L, C, c)
    BY Zenon DEF CodexEnds
  <2>3. e = CodexChased(C, f, Cardinality(C))[c] /\ None \notin C
    BY <1>3
  <2> HIDE DEF R, e, f
  <2>4. \A x \in C : f[x] = x => <<x, x>> \in R
    BY <2>1
  <2>5. \A x, d \in C : f[x] \in C /\ f[x] # x /\ <<f[x], d>> \in R /\ f[d] = d => <<x, d>> \in R
    BY <2>1
  <2>6. e # None => e \in C /\ f[e] = e /\ <<c, e>> \in R
    BY <1>3, <1>6, <2>3, <2>4, <2>5, CodexEndsWell
  <2> QED BY <2>2, <2>6
<1>8. \A c \in C : f[c] = c => CodexEnds(L, C, c) = c
  <2> TAKE c \in C
  <2> HAVE f[c] = c
  <2>1. CodexChased(C, f, Cardinality(C))[c] = c
    <3> HIDE DEF f
    <3> QED BY <1>3, CodexEndsAtOnce
  <2> QED BY <2>1, Zenon DEF CodexEnds
<1> HIDE DEF f
<1>9. \A o : o \in DOMAIN F <=> o \in Codex!Observations(L)
  BY <1>1, <1>2, Zenon DEF CodexAnswers
<1>10. \A o \in Codex!Observations(L) : LET e == CodexEnds(L, C, Codex!Candidate(L, o)) IN
          F[o] = IF e = None THEN None ELSE Codex!Observation(e)
  BY <1>1, <1>9, Zenon DEF CodexAnswers
<1>11. ASSUME NEW o \in Codex!Observations(L), F[o] # None
       PROVE  LET e == CodexEnds(L, C, Codex!Candidate(L, o)) IN
              e # None /\ CodexStands(L, C, F[o], e) /\ F[o] \in Codex!Observations(L) /\ F[F[o]] = F[o]
  <2> DEFINE c == Codex!Candidate(L, o)
             e == CodexEnds(L, C, c)
  <2>1. c \in C
    BY <1>4
  <2>2. F[o] = IF e = None THEN None ELSE Codex!Observation(e)
    BY <1>10, Zenon
  <2>3. e # None => e \in C /\ f[e] = e
    BY <1>7, <2>1
  <2> HIDE DEF e, c
  <2>4. e # None /\ e \in C /\ f[e] = e /\ F[o] = Codex!Observation(e)
    BY <1>11, <2>2, <2>3
  <2>5. F[o] \in Codex!Observations(L)
    BY <1>3, <2>4
  <2>6. Codex!Candidate(L, F[o]) = e /\ CodexEnds(L, C, e) = e
    BY <1>3, <1>8, <2>4
  <2>7. F[F[o]] = F[o]
    BY <1>10, <2>4, <2>5, <2>6, Zenon
  <2>8. CodexStands(L, C, F[o], e)
    BY <1>5, <2>4 DEF CodexStands
  <2> QED BY <2>4, <2>5, <2>7, <2>8 DEF c, e
<1>12. ASSUME NEW o \in Codex!Observations(L), F[o] = o
       PROVE  Codex!InFavourOf(L, C, Codex!Candidate(L, o)) = Codex!Candidate(L, o)
  <2> DEFINE c == Codex!Candidate(L, o)
             e == CodexEnds(L, C, c)
  <2>1. o # None
    BY DEF CodexRead
  <2>2. e # None /\ CodexStands(L, C, F[o], e)
    BY <1>11, <1>12, <2>1
  <2> HIDE DEF e
  <2>3. e \in C /\ o = Codex!Observation(e)
    BY <1>12, <2>2 DEF CodexStands
  <2>4. e = c
    BY <1>3, <2>3
  <2> QED BY <2>2, <2>4 DEF CodexStands
<1>13. DOMAIN F = Codex!Observations(L)
  BY <1>9
<1> QED BY <1>4, <1>11, <1>12, <1>13

(* What holds from favour to favour holds of an observation's candidate and the
   one it stands for. *)
LEMMA CodexAlong ==
  ASSUME MaxRead \in Nat, NEW L, CodexRead(L), NEW S, S = Codex!KnownThreads(L),
         NEW C, C = Codex!Candidates(L, S),
         NEW R, \A c \in C : <<c, c>> \in R,
         \A c, d, e \in C : CodexGoes(L, C, c, d) /\ <<d, e>> \in R => <<c, e>> \in R,
         NEW c \in C, CodexEnds(L, C, c) # None
  PROVE  <<c, CodexEnds(L, C, c)>> \in R
<1> DEFINE f == CodexFavour(L, C)
           e == CodexEnds(L, C, c)
<1>1. IsFiniteSet(C) /\ None \notin C
  BY CodexCandidates
<1>2. \A x \in C : f[x] # None => CodexGoes(L, C, x, f[x])
  <2> TAKE x \in C
  <2> HAVE f[x] # None
  <2> DEFINE y == Codex!InFavourOf(L, C, x)
  <2>1. f[x] = y
    BY Zenon DEF CodexFavour
  <2>2. y = Codex!InFavourOf(L, C, x) /\ y # None
    BY <2>1
  <2> HIDE DEF y
  <2>3. CodexGoes(L, C, x, y)
    BY <2>2, CodexFavours
  <2> QED BY <2>1, <2>3
<1>3. e = CodexChased(C, f, Cardinality(C))[c]
  BY Zenon DEF CodexEnds
<1> HIDE DEF f, e
<1>4. \A x \in C : f[x] \in C \cup {None}
  BY <1>2 DEF CodexGoes
<1>5. \A x \in C : f[x] = x => <<x, x>> \in R
  OBVIOUS
<1>6. \A x, d \in C : f[x] \in C /\ f[x] # x /\ <<f[x], d>> \in R /\ f[d] = d => <<x, d>> \in R
  <2> TAKE x, d \in C
  <2> HAVE f[x] \in C /\ f[x] # x /\ <<f[x], d>> \in R /\ f[d] = d
  <2> DEFINE y == f[x]
  <2>1. y # None /\ y \in C /\ <<y, d>> \in R /\ CodexGoes(L, C, x, y)
    BY <1>1, <1>2
  <2> HIDE DEF y
  <2> QED BY <2>1
<1>7. e # None => e \in C /\ f[e] = e /\ <<c, e>> \in R
  BY <1>1, <1>3, <1>4, <1>5, <1>6, CodexEndsWell
<1> QED BY <1>7 DEF e

LEMMA CodexHeld ==
  ASSUME Codex!CodexConstants, CodexInv
  PROVE  /\ CodexRead(read) /\ MaxRead \in Nat /\ Cardinality(read) <= MaxRead /\ IsFiniteSet(read)
         /\ decision = Codex!Decide(read, Codex!KnownThreads(read))
         /\ modelDisputes = Codex!Disputes(read, Codex!KnownThreads(read))
<1>1. read \subseteq CodexAllRead /\ Cardinality(read) <= MaxRead
  BY DEF CodexInv
<1>2. CodexRead(read) /\ MaxRead \in Nat
  BY <1>1, CodexGenerations, CodexReadPart
<1>3. decision = Codex!Decide(read, Codex!KnownThreads(read)) /\ modelDisputes = Codex!Disputes(read, Codex!KnownThreads(read))
  BY DEF CodexInv, Codex!Incremental
<1> QED BY <1>1, <1>2, <1>3 DEF CodexRead

LEMMA CodexTypes ==
  ASSUME Codex!CodexConstants, CodexInv
  PROVE  Codex!TypeOK
<1> DEFINE S == Codex!KnownThreads(read)
<1>1. /\ CodexRead(read) /\ MaxRead \in Nat /\ Cardinality(read) <= MaxRead
      /\ decision = Codex!Decide(read, S) /\ modelDisputes = Codex!Disputes(read, S)
  BY CodexHeld
<1>2. \A g \in read : DOMAIN g = {"locator", "thread", "parent", "cwd", "rows"}
  <2> TAKE g \in read
  <2>1. \E f \in CodexFiles : g = Codex!Generation(f)
    BY DEF CodexInv, CodexAllRead
  <2> QED BY <2>1 DEF Codex!Generation
<1> HIDE DEF S
<1>3. DOMAIN decision = Codex!Observations(read)
  BY <1>1, CodexDecisions DEF S
<1>4. \A o \in DOMAIN decision : decision[o] \in DOMAIN decision \cup {None}
  <2> TAKE o \in DOMAIN decision
  <2> SUFFICES ASSUME decision[o] # None PROVE decision[o] \in DOMAIN decision
    OBVIOUS
  <2> QED BY <1>1, <1>3, CodexDecisions DEF S
<1>5. modelDisputes \subseteq Codex!Observations(read)
  <2> SUFFICES ASSUME NEW o \in modelDisputes PROVE o \in Codex!Observations(read)
    OBVIOUS
  <2>1. PICK q \in Codex!Rows(read) : o = Codex!Observation(q)
    BY <1>1, CodexDisputed
  <2> QED BY <2>1, CodexRowsOfAll
<1>6. Codex!Cardinality(read) <= MaxRead
  BY <1>1, CodexLibrary
<1> QED BY <1>2, <1>3, <1>4, <1>5, <1>6 DEF Codex!TypeOK

LEMMA CodexNothingLost ==
  ASSUME Codex!CodexConstants, CodexInv
  PROVE  Codex!NothingLost
<1> DEFINE S == Codex!KnownThreads(read)
           C == Codex!Candidates(read, S)
           R == {w \in C \X C : Codex!Value(w[1]) = Codex!Value(w[2])}
<1>1. CodexRead(read) /\ MaxRead \in Nat /\ decision = Codex!Decide(read, S)
  BY CodexHeld
<1>2. \A x, y : <<x, y>> \in R <=> x \in C /\ y \in C /\ Codex!Value(x) = Codex!Value(y)
  <2> HIDE DEF C
  <2> QED OBVIOUS
<1> SUFFICES ASSUME NEW o \in DOMAIN decision \ Codex!Counted, decision[o] # None
             PROVE  decision[o] \in Codex!Counted /\ Codex!Count(decision[o].last, Measure) = Codex!Count(o.last, Measure)
  BY DEF Codex!NothingLost
<1> DEFINE c == Codex!Candidate(read, o)
           e == CodexEnds(read, C, c)
<1>3. /\ DOMAIN decision = Codex!Observations(read) /\ o \in Codex!Observations(read)
      /\ c \in C /\ Codex!Observation(c) = o
      /\ e # None /\ CodexStands(read, C, decision[o], e) /\ decision[o] \in Codex!Observations(read)
      /\ decision[decision[o]] = decision[o]
  <2> HIDE DEF S
  <2>1. DOMAIN decision = Codex!Observations(read)
    BY <1>1, CodexDecisions DEF S
  <2> QED BY <1>1, <2>1, CodexDecisions DEF S
<1>4. decision[o] \in Codex!Counted
  BY <1>3 DEF Codex!Counted
<1> HIDE DEF R
<1>5. <<c, e>> \in R
  <2>1. \A x \in C : <<x, x>> \in R
    BY <1>2
  <2>2. \A x, y, z \in C : CodexGoes(read, C, x, y) /\ <<y, z>> \in R => <<x, z>> \in R
    BY <1>2, Zenon DEF CodexGoes
  <2>3. C = Codex!Candidates(read, S) /\ S = Codex!KnownThreads(read)
    OBVIOUS
  <2> HIDE DEF C, S, c
  <2> QED BY <1>1, <1>3, <2>1, <2>2, <2>3, CodexAlong DEF e
<1>6. Codex!Value(c) = Codex!Value(e)
  BY <1>2, <1>5
<1>7. decision[o].last = e.last /\ o.last = c.last
  BY <1>3, CodexObserves DEF CodexStands
<1> HIDE DEF c, e
<1> QED BY <1>4, <1>6, <1>7 DEF Codex!Value

-----------------------------------------------------------------------------
(* What counts: the first of its group, undisputed, and found in one dialect. *)
LEMMA CodexOnlyOne ==
  ASSUME NEW W, IsFiniteSet(W), Cardinality(W) = 1, NEW x \in W, NEW y \in W
  PROVE  x = y
<1>1. IsFiniteSet(W \ {x}) /\ Cardinality(W \ {x}) = 0
  BY FS_RemoveElement
<1>2. W \ {x} = {}
  BY <1>1, FS_EmptySet
<1> QED BY <1>2

LEMMA CodexGroupOwners ==
  ASSUME NEW C, IsFiniteSet(C), NEW c, CodexSettled(C, c), NEW d \in CodexGroup(C, c), NEW e \in CodexGroup(C, c)
  PROVE  d.owner = e.owner
<1> DEFINE E == CodexGroup(C, c)
           W == {x.owner : x \in E}
           f == [x \in E |-> x.owner]
<1>1. Cardinality(W) = 1
  BY DEF CodexSettled
<1>2. E \subseteq C
  BY DEF CodexGroup, Codex!OfResponse, Codex!OfCount
<1>3. d \in E /\ e \in E
  OBVIOUS
<1> HIDE DEF E
<1>4. IsFiniteSet(E)
  BY <1>2, FS_Subset
<1>5. W = {f[x] : x \in E}
  OBVIOUS
<1>6. d.owner \in W /\ e.owner \in W
  BY <1>3
<1> HIDE DEF f, W
<1>7. IsFiniteSet(W)
  BY <1>4, <1>5, FiniteImage
<1> QED BY <1>1, <1>6, <1>7, CodexOnlyOne

LEMMA CodexEntries ==
  ASSUME NEW r, CodexRow(r), NEW q, CodexRow(q), Codex!Observation(r) = Codex!Observation(q)
  PROVE  /\ r.owner = q.owner /\ r.last = q.last /\ r.kind = q.kind /\ r.response = q.response
         /\ r.kind = "legacy" => r.total = q.total
<1>1. r.owner = q.owner /\ r.last = q.last /\ r.entry = q.entry
  <2> DEFINE o == Codex!Observation(r)
  <2>1. o.owner = r.owner /\ o.last = r.last /\ o.entry = r.entry
    BY CodexObserves
  <2>2. o.owner = q.owner /\ o.last = q.last /\ o.entry = q.entry
    BY CodexObserves
  <2> HIDE DEF o
  <2> QED BY <2>1, <2>2
<1>2. ASSUME NEW x, CodexRow(x)
      PROVE  /\ x.kind = "legacy" => x.entry[1] = "legacy" /\ x.entry[3] = x.total /\ x.response = None
             /\ x.kind = "response" /\ x.response # None => x.entry[1] = "response" /\ x.entry[2] = x.response
             /\ x.kind = "response" /\ x.response = None => x.entry[1] = "unkeyed"
             /\ x.kind \in {"legacy", "response"}
  <2>1. /\ x.kind \in {"legacy", "response"}
        /\ x.kind = "legacy" => x.response = None /\ x.entry = <<"legacy", x.owner, x.total, x.last>>
        /\ x.kind = "response" => x.entry = IF x.response # None THEN <<"response", x.response>>
                                            ELSE <<"unkeyed", x.owner, x.turn, x.total, x.last>>
    BY <1>2, CodexRowSays, Zenon
  <2>2. x.kind = "legacy" => x.entry[1] = "legacy" /\ x.entry[3] = x.total /\ x.response = None
    BY <2>1
  <2>3. x.kind = "response" /\ x.response # None => x.entry[1] = "response" /\ x.entry[2] = x.response
    BY <2>1
  <2>4. x.kind = "response" /\ x.response = None => x.entry[1] = "unkeyed"
    BY <2>1
  <2> QED BY <2>1, <2>2, <2>3, <2>4
<1>3. /\ r.kind = "legacy" => r.entry[1] = "legacy" /\ r.entry[3] = r.total /\ r.response = None
      /\ r.kind = "response" /\ r.response # None => r.entry[1] = "response" /\ r.entry[2] = r.response
      /\ r.kind = "response" /\ r.response = None => r.entry[1] = "unkeyed"
      /\ r.kind \in {"legacy", "response"}
  BY <1>2
<1>4. /\ q.kind = "legacy" => q.entry[1] = "legacy" /\ q.entry[3] = q.total /\ q.response = None
      /\ q.kind = "response" /\ q.response # None => q.entry[1] = "response" /\ q.entry[2] = q.response
      /\ q.kind = "response" /\ q.response = None => q.entry[1] = "unkeyed"
      /\ q.kind \in {"legacy", "response"}
  BY <1>2
<1>5. r.entry[1] = q.entry[1] /\ r.entry[2] = q.entry[2] /\ r.entry[3] = q.entry[3]
  BY <1>1
<1>6. r.kind = q.kind /\ r.response = q.response
  BY <1>3, <1>4, <1>5
<1>7. r.kind = "legacy" => r.total = q.total
  BY <1>3, <1>4, <1>5, <1>6
<1> QED BY <1>1, <1>6, <1>7

LEMMA CodexSaysMirrored ==
  ASSUME NEW L, CodexRead(L), NEW o \in Codex!Observations(L), NEW r \in Codex!Evidence(L, o), r.mirror # None
  PROVE  Codex!Candidate(L, o).mirror # None
<1> DEFINE c == Codex!Candidate(L, o)
<1>1. Codex!Says(r) <= Codex!Says(c)
  BY CodexCandidate
<1> HIDE DEF c
<1> SUFFICES ASSUME c.mirror = None PROVE FALSE
  BY DEF c
<1>2. Codex!Says(c) \in {0, 1}
  <2> DEFINE u == IF c.usable THEN 1 ELSE 0
  <2>1. u \in {0, 1}
    BY Zenon
  <2>2. Codex!Says(c) = 0 + u
    BY Zenon DEF Codex!Says
  <2> HIDE DEF u
  <2> QED BY <2>1, <2>2
<1>3. Codex!Says(r) \in {2, 3}
  <2> DEFINE u == IF r.usable THEN 1 ELSE 0
  <2>1. u \in {0, 1}
    BY Zenon
  <2>2. Codex!Says(r) = 2 + u
    BY Zenon DEF Codex!Says
  <2> HIDE DEF u
  <2> QED BY <2>1, <2>2
<1> QED BY <1>1, <1>2, <1>3

CodexCounts(C, c) == CodexSettled(C, c) /\ c = Codex!Canonical(CodexGroup(C, c)) /\ c \in CodexGroup(C, c)
LEMMA CodexCounted ==
  ASSUME Codex!CodexConstants, CodexInv, NEW o \in Codex!Counted,
         NEW S, S = Codex!KnownThreads(read), NEW C, C = Codex!Candidates(read, S),
         NEW c, c = Codex!Candidate(read, o)
  PROVE  /\ o \in Codex!Observations(read) /\ c \in C /\ Codex!Observation(c) = o /\ CodexRow(c)
         /\ ~Codex!Conflicting(read, c.owner) /\ CodexCounts(C, c)
<1>1. CodexRead(read) /\ MaxRead \in Nat /\ decision = Codex!Decide(read, S)
  BY CodexHeld
<1>2. o \in DOMAIN decision /\ decision[o] = o
  BY DEF Codex!Counted
<1>3. o \in Codex!Observations(read) /\ c \in C /\ Codex!Observation(c) = o /\ c = Codex!InFavourOf(read, C, c)
  <2>1. DOMAIN decision = Codex!Observations(read)
    BY <1>1, CodexDecisions
  <2> QED BY <1>1, <1>2, <2>1, CodexDecisions
<1>4. CodexRow(c) /\ c # None
  BY <1>1, <1>3, CodexCandidates
<1>5. CodexGoes(read, C, c, c)
  BY <1>1, <1>3, <1>4, CodexFavours
<1>6. ~CodexToResponse(C, c, c) /\ ~CodexToTwin(C, c, c)
  BY DEF CodexToResponse, CodexToTwin, Codex!OfResponse, Codex!ModernTwins
<1>7. ~CodexToAncestor(read, C, c, c)
  <2> SUFFICES ASSUME NEW a \in Codex!Ancestors(read, c.owner), c \in Codex!Matches(C, a, c) PROVE FALSE
    BY DEF CodexToAncestor
  <2>1. c.owner = a
    BY DEF Codex!Matches, Codex!OfCount
  <2>2. a # c.owner
    BY <1>1, CodexAncestorIs
  <2> QED BY <2>1, <2>2
<1>8. CodexToFirst(C, c, c) /\ ~Codex!Conflicting(read, c.owner)
  BY <1>5, <1>6, <1>7, Zenon DEF CodexGoes
<1> QED BY <1>3, <1>4, <1>8 DEF CodexToFirst, CodexCounts

LEMMA CodexUndisputed ==
  ASSUME Codex!CodexConstants, CodexInv
  PROVE  Codex!UndisputedOnly
<1> DEFINE S == Codex!KnownThreads(read)
           C == Codex!Candidates(read, S)
<1>1. CodexRead(read) /\ MaxRead \in Nat
  BY CodexHeld
<1> SUFFICES ASSUME NEW o \in Codex!Counted
             PROVE  /\ \A g, h \in read : g.thread = o.owner /\ h.thread = o.owner =>
                                            g.cwd = h.cwd /\ (g.parent = h.parent \/ None \in {g.parent, h.parent})
                    /\ \A r \in Codex!RowsOf(o), q \in Codex!Rows(read) :
                         r.response # None /\ q.response = r.response => q.owner = r.owner /\ Codex!Value(q) = Codex!Value(r)
  BY Zenon DEF Codex!UndisputedOnly
<1> DEFINE c == Codex!Candidate(read, o)
<1>2. /\ o \in Codex!Observations(read) /\ c \in C /\ Codex!Observation(c) = o /\ CodexRow(c)
      /\ ~Codex!Conflicting(read, c.owner) /\ CodexCounts(C, c)
  <2>1. C = Codex!Candidates(read, S) /\ S = Codex!KnownThreads(read) /\ c = Codex!Candidate(read, o)
    OBVIOUS
  <2> HIDE DEF C, S, c
  <2> QED BY <2>1, CodexCounted
<1>3. c.owner = o.owner /\ c.last = o.last
  BY <1>2, CodexObserves
<1> HIDE DEF c
<1>4. ASSUME NEW g \in read, NEW h \in read, g.thread = o.owner, h.thread = o.owner
      PROVE  g.cwd = h.cwd /\ (g.parent = h.parent \/ None \in {g.parent, h.parent})
  <2>1. ~(Codex!Cardinality(Codex!Parents(read, o.owner)) > 1) /\ g.cwd = h.cwd
    BY <1>2, <1>3, <1>4, Zenon DEF Codex!Conflicting
  <2> SUFFICES ASSUME g.parent # h.parent, g.parent # None, h.parent # None PROVE FALSE
    BY <2>1
  <2> DEFINE P == Codex!Parents(read, o.owner)
             Q == {x \in read : x.thread = o.owner}
             f == [x \in Q |-> x.parent]
  <2>2. P = {f[x] : x \in Q} \ {None}
    BY DEF Codex!Parents
  <2>3. IsFiniteSet(P)
    <3>1. IsFiniteSet(Q)
      <4>1. Q \subseteq read
        OBVIOUS
      <4> HIDE DEF Q
      <4> QED BY <1>1, <4>1, FS_Subset DEF CodexRead
    <3> HIDE DEF P, Q, f
    <3>2. IsFiniteSet({f[x] : x \in Q})
      BY <3>1, FiniteImage
    <3>3. P \subseteq {f[x] : x \in Q}
      BY <2>2
    <3> QED BY <3>2, <3>3, FS_Subset
  <2>4. g.parent \in P /\ h.parent \in P
    BY <1>4 DEF Codex!Parents
  <2> HIDE DEF P
  <2>5. Cardinality(P) <= 1
    <3>1. ~(Cardinality(P) > 1)
      BY <2>1, CodexLibrary DEF P
    <3>2. Cardinality(P) \in Nat
      BY <2>3, FS_CardinalityType
    <3> QED BY <3>1, <3>2
  <2>6. Cardinality({g.parent, h.parent}) = 2
    <3>1. IsFiniteSet({h.parent}) /\ Cardinality({h.parent}) = 1
      BY FS_Singleton
    <3>2. Cardinality({h.parent} \cup {g.parent}) = 2
      BY <3>1, FS_AddElement
    <3>3. {h.parent} \cup {g.parent} = {g.parent, h.parent}
      OBVIOUS
    <3> QED BY <3>2, <3>3
  <2>7. Cardinality({g.parent, h.parent}) <= Cardinality(P)
    <3>1. {g.parent, h.parent} \subseteq P
      BY <2>4
    <3> QED BY <2>3, <3>1, FS_Subset
  <2>8. Cardinality(P) \in Nat
    BY <2>3, FS_CardinalityType
  <2> QED BY <2>5, <2>6, <2>7, <2>8
<1>5. ASSUME NEW r \in Codex!RowsOf(o), NEW q \in Codex!Rows(read), r.response # None, q.response = r.response
      PROVE  q.owner = r.owner /\ Codex!Value(q) = Codex!Value(r)
  <2> DEFINE d == Codex!Candidate(read, Codex!Observation(q))
  <2>1. r \in Codex!Rows(read) /\ Codex!Observation(r) = o
    BY CodexRowsOfAll DEF Codex!RowsOf
  <2>2. CodexRow(r) /\ CodexRow(q)
    BY <1>1, <2>1, CodexRowsAreRows
  <2>3. Codex!Observation(q) \in Codex!Observations(read)
    BY CodexRowsOfAll
  <2>4. d \in C /\ Codex!Observation(d) = Codex!Observation(q)
    <3>1. Codex!Observation(q).owner \in S
      BY <2>3, CodexOwners
    <3> QED BY <1>1, <2>3, <3>1, CodexCandidate, CodexCandidates
  <2> HIDE DEF d
  <2>5. CodexRow(d)
    BY <1>1, <2>4, CodexCandidates
  <2>6. /\ c.owner = r.owner /\ c.last = r.last /\ c.kind = r.kind /\ c.response = r.response
        /\ d.owner = q.owner /\ d.last = q.last /\ d.kind = q.kind /\ d.response = q.response
    BY <1>2, <2>1, <2>2, <2>4, <2>5, CodexEntries
  <2>7. c.kind = "response" /\ d.kind = "response"
    <3>1. (r.kind = "legacy" => r.response = None) /\ r.kind \in {"legacy", "response"}
      BY <2>2, CodexRowSays, Zenon
    <3>2. (q.kind = "legacy" => q.response = None) /\ q.kind \in {"legacy", "response"}
      BY <2>2, CodexRowSays, Zenon
    <3> QED BY <1>5, <2>6, <3>1, <3>2
  <2> HIDE DEF C
  <2>8. d \in CodexGroup(C, c) /\ c \in CodexGroup(C, c)
    BY <1>2, <1>5, <2>4, <2>6, <2>7 DEF CodexGroup, Codex!OfResponse
  <2>9. Codex!Agree(CodexGroup(C, c)) /\ Cardinality({x.owner : x \in CodexGroup(C, c)}) = 1
    BY <1>2 DEF CodexCounts, CodexSettled
  <2>10. Codex!Value(d) = Codex!Value(c)
    BY <2>8, <2>9 DEF Codex!Agree
  <2>11. d.owner = c.owner
    <3>1. IsFiniteSet(C)
      BY <1>1, CodexCandidates DEF C
    <3>2. CodexSettled(C, c)
      BY <1>2 DEF CodexCounts
    <3> QED BY <2>8, <3>1, <3>2, CodexGroupOwners
  <2> QED BY <2>6, <2>10, <2>11 DEF Codex!Value
<1> QED BY <1>4, <1>5

LEMMA CodexCountedOnce ==
  ASSUME Codex!CodexConstants, CodexInv
  PROVE  Codex!CountedOnce
<1> DEFINE S == Codex!KnownThreads(read)
           C == Codex!Candidates(read, S)
<1>1. CodexRead(read) /\ MaxRead \in Nat
  BY CodexHeld
<1> SUFFICES ASSUME NEW o \in Codex!Counted, NEW p \in Codex!Counted, o # p,
                    NEW r \in Codex!RowsOf(o), NEW q \in Codex!RowsOf(p)
             PROVE  /\ r.response # None => r.response \notin {q.response, q.mirror}
                    /\ r.kind = "legacy" /\ r.owner = q.owner /\ (\A x \in Codex!RowsOf(p) : x.total = r.total) =>
                         q.kind = "response" /\ q.last # r.last
  BY Zenon DEF Codex!CountedOnce
<1> DEFINE c == Codex!Candidate(read, o)
           d == Codex!Candidate(read, p)
<1>2. /\ o \in Codex!Observations(read) /\ c \in C /\ Codex!Observation(c) = o /\ CodexRow(c) /\ CodexCounts(C, c)
      /\ p \in Codex!Observations(read) /\ d \in C /\ Codex!Observation(d) = p /\ CodexRow(d) /\ CodexCounts(C, d)
  <2>1. C = Codex!Candidates(read, S) /\ S = Codex!KnownThreads(read) /\ c = Codex!Candidate(read, o) /\ d = Codex!Candidate(read, p)
    OBVIOUS
  <2> HIDE DEF C, S, c, d
  <2> QED BY <2>1, CodexCounted
<1>3. r \in Codex!Rows(read) /\ Codex!Observation(r) = o /\ q \in Codex!Rows(read) /\ Codex!Observation(q) = p
  BY CodexRowsOfAll DEF Codex!RowsOf
<1>4. r \in Codex!Evidence(read, o) /\ q \in Codex!Evidence(read, p)
  BY DEF Codex!RowsOf
<1>5. d \in Codex!RowsOf(p)
  BY <1>2, CodexCandidate, CodexRowsOfAll DEF Codex!RowsOf
<1>6. q.mirror # None => d.mirror # None
  BY <1>1, <1>2, <1>4, CodexSaysMirrored
<1> HIDE DEF c, d, C
<1>7. c # d
  BY <1>2
<1>8. CodexRow(r) /\ CodexRow(q)
  BY <1>1, <1>3, CodexRowsAreRows
<1>9. /\ c.owner = r.owner /\ c.last = r.last /\ c.kind = r.kind /\ c.response = r.response
      /\ c.kind = "legacy" => c.total = r.total
  BY <1>2, <1>3, <1>8, CodexEntries
<1>10. /\ d.owner = q.owner /\ d.last = q.last /\ d.kind = q.kind /\ d.response = q.response
       /\ d.kind = "legacy" => d.total = q.total
  BY <1>2, <1>3, <1>8, CodexEntries
<1>11. /\ c.kind \in {"legacy", "response"} /\ d.kind \in {"legacy", "response"}
       /\ c.kind = "legacy" => c.response = None /\ (c.usable => c.total # None /\ c.last # None)
       /\ d.kind = "legacy" => d.response = None
       /\ d.kind = "response" => (d.usable => d.response # None)
  <2>1. c.kind \in {"legacy", "response"} /\ d.kind \in {"legacy", "response"}
    BY <1>2, CodexRowSays, Zenon
  <2>2. c.kind = "legacy" => c.response = None /\ (c.usable => c.total # None /\ c.last # None)
    BY <1>2, CodexRowSays, Zenon
  <2>3. d.kind = "legacy" => d.response = None
    BY <1>2, CodexRowSays, Zenon
  <2>4. d.kind = "response" => (d.usable => d.response # None)
    BY <1>2, CodexRowSays, Zenon
  <2> QED BY <2>1, <2>2, <2>3, <2>4
<1>12. c.usable /\ d.usable /\ c.mirror = None /\ d.mirror = None /\ (c.kind = "legacy" => Codex!ModernTwins(C, c) = {})
  BY <1>2, Zenon DEF CodexCounts, CodexSettled
<1>13. c = Codex!Canonical(CodexGroup(C, c)) /\ d = Codex!Canonical(CodexGroup(C, d))
  BY <1>2 DEF CodexCounts
<1>14. ASSUME r.response # None PROVE r.response \notin {q.response, q.mirror}
  <2>1. r.response # q.response
    <3> SUFFICES ASSUME r.response = q.response PROVE FALSE
      OBVIOUS
    <3>1. c.kind = "response" /\ d.kind = "response" /\ c.response = d.response
      BY <1>9, <1>10, <1>11, <1>14
    <3>2. CodexGroup(C, c) = CodexGroup(C, d)
      BY <3>1 DEF CodexGroup
    <3> QED BY <1>7, <1>13, <3>2
  <2>2. r.response # q.mirror
    BY <1>6, <1>12, <1>14
  <2> QED BY <2>1, <2>2
<1>15. ASSUME r.kind = "legacy", r.owner = q.owner, \A x \in Codex!RowsOf(p) : x.total = r.total
       PROVE  q.kind = "response" /\ q.last # r.last
  <2>1. c.kind = "legacy" /\ c.total = r.total /\ d.total = r.total /\ c.owner = d.owner
    BY <1>5, <1>9, <1>10, <1>15
  <2>2. c.total # None /\ c.last # None
    BY <1>11, <1>12, <2>1, Zenon
  <2>3. d.kind # "legacy"
    <3> SUFFICES ASSUME d.kind = "legacy" PROVE FALSE
      OBVIOUS
    <3>1. CodexGroup(C, c) = CodexGroup(C, d)
      BY <2>1 DEF CodexGroup
    <3> QED BY <1>7, <1>13, <3>1
  <2>4. d.kind = "response" /\ d.response # None
    BY <1>11, <1>12, <2>3, Zenon
  <2>5. q.last # r.last
    <3> SUFFICES ASSUME q.last = r.last PROVE FALSE
      OBVIOUS
    <3>1. d \in C /\ d.last = c.last
      BY <1>2, <1>9, <1>10
    <3>2. d \in Codex!ModernTwins(C, c)
      BY <2>1, <2>2, <2>4, <3>1 DEF Codex!ModernTwins
    <3> QED BY <1>12, <2>1, <3>2
  <2> QED BY <1>10, <2>4, <2>5
<1> QED BY <1>14, <1>15

-----------------------------------------------------------------------------
(* What is taken for another thread's. *)
CodexBeside(L, t, total) == {q \in Codex!Rows(L) : q.owner = t /\ q.mirror # None /\ q.total = total}
CodexInherited(L, q) ==
  /\ q.kind = "legacy"
  /\ \E p \in Codex!Rows(L) : /\ p.kind = "legacy" /\ p.owner \in Codex!Ancestors(L, q.owner)
                              /\ p.total = q.total /\ p.last = q.last
CodexCopied(L, t, total) ==
  \E p \in Codex!Rows(L) : /\ p.owner = t /\ p.total = total
                           /\ \A g \in L : \A i \in DOMAIN g.rows : Codex!Observation(g.rows[i]) = Codex!Observation(p) =>
                                \A j \in 1..i : CodexInherited(L, g.rows[j])
CodexRelated(L, c, e) ==
  \/ e.owner \in Codex!Ancestors(L, c.owner)
  \/ \E t \in {c.owner} \cup Codex!Ancestors(L, c.owner) : \E q \in CodexBeside(L, t, c.total) : q.mirror = e.response
CodexTaken(L, c, e) ==
  /\ c.kind = "response" => e.owner = c.owner /\ e.kind = "response" /\ e.response = c.response
  /\ c.kind = "legacy" => \/ e.owner = c.owner
                          \/ /\ CodexRelated(L, c, e)
                             /\ CodexBeside(L, c.owner, c.total) # {} \/ CodexCopied(L, c.owner, c.total)

LEMMA CodexReplays ==
  ASSUME NEW L, CodexRead(L), NEW S, NEW C, C = Codex!Candidates(L, S), NEW c \in C,
         Codex!Replayed(L, C, Codex!Observation(c))
  PROVE  CodexCopied(L, c.owner, c.total)
<1>1. C \subseteq Codex!Rows(L)
  BY CodexCandidates
<1>2. ASSUME NEW r, Codex!Inherits(L, C, r) PROVE CodexInherited(L, r)
  <2> DEFINE A == {d \in C : d.kind = "legacy" /\ d.total # None /\ d.owner \in Codex!Ancestors(L, r.owner)}
             Pair(d) == <<d.total, d.last>>
  <2>1. r.kind = "legacy" /\ Pair(r) \in {Pair(d) : d \in A}
    BY <1>2, Zenon DEF Codex!Inherits, Codex!AncestorCounts
  <2>2. \A d \in A : d \in C /\ d.kind = "legacy" /\ d.owner \in Codex!Ancestors(L, r.owner)
    OBVIOUS
  <2>3. PICK d \in A : Pair(r) = Pair(d)
    <3> HIDE DEF A, Pair
    <3> QED BY <2>1
  <2>4. r.total = d.total /\ r.last = d.last
    BY <2>3
  <2>5. d \in Codex!Rows(L) /\ d.kind = "legacy" /\ d.owner \in Codex!Ancestors(L, r.owner)
    BY <1>1, <2>2
  <2> HIDE DEF A, Pair
  <2> QED BY <2>1, <2>4, <2>5 DEF CodexInherited
<1>3. \A g \in L : \A i \in DOMAIN g.rows : Codex!Observation(g.rows[i]) = Codex!Observation(c) =>
        \A j \in 1..i : Codex!Inherits(L, C, g.rows[j])
  BY Zenon DEF Codex!Replayed, Codex!InheritedTo
<1>4. \A g \in L : \A i \in DOMAIN g.rows : Codex!Observation(g.rows[i]) = Codex!Observation(c) =>
        \A j \in 1..i : CodexInherited(L, g.rows[j])
  BY <1>2, <1>3, Zenon
<1>5. c \in Codex!Rows(L)
  BY <1>1
<1> QED BY <1>4, <1>5, Zenon DEF CodexCopied

LEMMA CodexTakenOn ==
  ASSUME MaxRead \in Nat, NEW L, CodexRead(L), Cardinality(L) <= MaxRead, NEW S, NEW C, C = Codex!Candidates(L, S),
         NEW c \in C, NEW d \in C, NEW e \in C, CodexGoes(L, C, c, d), CodexTaken(L, d, e)
  PROVE  CodexTaken(L, c, e)
<1>0. IsFiniteSet(L)
  BY DEF CodexRead
<1>1. c \in Codex!Rows(L) /\ CodexRow(c) /\ CodexRow(d) /\ IsFiniteSet(C)
  BY CodexCandidates
<1>2. /\ c.kind \in {"legacy", "response"} /\ d.kind \in {"legacy", "response"}
      /\ c.kind = "response" => c.mirror = None
  <2>1. c.kind \in {"legacy", "response"} /\ (c.kind = "response" => c.mirror = None)
    BY <1>1, CodexRowSays, Zenon
  <2>2. d.kind \in {"legacy", "response"}
    BY <1>1, CodexRowSays, Zenon
  <2> QED BY <2>1, <2>2
<1>3. CASE CodexToResponse(C, c, d)
  <2>1. c.kind = "legacy" /\ c.mirror # None /\ d.kind = "response" /\ d.response = c.mirror
    BY <1>3 DEF CodexToResponse, Codex!OfResponse
  <2>2. e.response = c.mirror
    BY <2>1 DEF CodexTaken
  <2>3. c \in CodexBeside(L, c.owner, c.total)
    BY <1>1, <2>1 DEF CodexBeside
  <2>4. CodexRelated(L, c, e)
    BY <2>2, <2>3 DEF CodexRelated
  <2> QED BY <2>1, <2>3, <2>4 DEF CodexTaken
<1>4. CASE CodexToTwin(C, c, d)
  <2>1. c.kind = "legacy" /\ d.kind = "response" /\ d.owner = c.owner
    BY <1>4 DEF CodexToTwin, Codex!ModernTwins
  <2> QED BY <2>1 DEF CodexTaken
<1>5. CASE CodexToFirst(C, c, d)
  <2>1. d \in CodexGroup(C, c) /\ CodexSettled(C, c) /\ c.usable
    BY <1>5, Zenon DEF CodexToFirst, CodexSettled
  <2>2. d.owner = c.owner
    <3>1. c \in CodexGroup(C, c)
      BY <1>1, <2>1, CodexInGroup
    <3> QED BY <1>1, <2>1, <3>1, CodexGroupOwners
  <2>3. CASE c.kind = "response"
    <3>1. d.kind = "response" /\ d.response = c.response
      BY <2>1, <2>3 DEF CodexGroup, Codex!OfResponse
    <3> QED BY <2>2, <2>3, <3>1 DEF CodexTaken
  <2>4. CASE c.kind = "legacy"
    <3>1. d.total = c.total
      BY <2>1, <2>4 DEF CodexGroup, Codex!OfCount
    <3>2. CASE d.kind = "response"
      BY <2>2, <2>4, <3>2 DEF CodexTaken
    <3>3. CASE d.kind = "legacy"
      <4>1. CodexRelated(L, d, e) <=> CodexRelated(L, c, e)
        BY <2>2, <3>1 DEF CodexRelated
      <4> QED BY <2>2, <2>4, <3>1, <3>3, <4>1 DEF CodexTaken
    <3> QED BY <1>2, <3>2, <3>3
  <2> QED BY <1>2, <2>3, <2>4
<1>6. CASE CodexToAncestor(L, C, c, d)
  <2>1. c.kind = "legacy" /\ Codex!Replayed(L, C, Codex!Observation(c))
    BY <1>6 DEF CodexToAncestor
  <2>2. PICK a \in Codex!Ancestors(L, c.owner) : d \in Codex!Matches(C, a, c)
    BY <1>6 DEF CodexToAncestor
  <2>3. d.owner = a /\ d.total = c.total
    BY <2>2 DEF Codex!Matches, Codex!OfCount
  <2>4. CodexCopied(L, c.owner, c.total)
    BY <2>1, CodexReplays
  <2>5. {a} \cup Codex!Ancestors(L, a) \subseteq {c.owner} \cup Codex!Ancestors(L, c.owner)
    BY <1>0, CodexAncestorsOf
  <2>6. e.owner = c.owner \/ CodexRelated(L, c, e)
    <3>1. CASE e.owner = d.owner
      BY <2>3, <3>1 DEF CodexRelated
    <3>2. CASE CodexRelated(L, d, e)
      <4>1. CASE e.owner \in Codex!Ancestors(L, a)
        <5>1. e.owner = c.owner \/ e.owner \in Codex!Ancestors(L, c.owner)
          BY <2>5, <4>1
        <5> QED BY <5>1 DEF CodexRelated
      <4>2. CASE \E t \in {a} \cup Codex!Ancestors(L, a) : \E q \in CodexBeside(L, t, c.total) : q.mirror = e.response
        <5>1. \E t \in {c.owner} \cup Codex!Ancestors(L, c.owner) : \E q \in CodexBeside(L, t, c.total) : q.mirror = e.response
          BY <2>5, <4>2
        <5> QED BY <5>1 DEF CodexRelated
      <4> QED BY <2>3, <3>2, <4>1, <4>2 DEF CodexRelated
    <3> QED BY <1>2, <3>1, <3>2 DEF CodexTaken
  <2> QED BY <2>1, <2>4, <2>6 DEF CodexTaken
<1> QED BY <1>3, <1>4, <1>5, <1>6 DEF CodexGoes

LEMMA CodexInheritedOnly ==
  ASSUME Codex!CodexConstants, CodexInv
  PROVE  Codex!CopiesAreInherited
<1> DEFINE S == Codex!KnownThreads(read)
           C == Codex!Candidates(read, S)
           R == {w \in C \X C : CodexTaken(read, w[1], w[2])}
<1>1. CodexRead(read) /\ MaxRead \in Nat /\ decision = Codex!Decide(read, S) /\ Cardinality(read) <= MaxRead
  BY CodexHeld
<1>2. \A x, y : <<x, y>> \in R <=> x \in C /\ y \in C /\ CodexTaken(read, x, y)
  <2> HIDE DEF C
  <2> QED OBVIOUS
<1> DEFINE above(o) == Codex!Ancestors(read, o.owner)
           Goal(o, r) ==
             /\ \/ decision[o].owner \in above(o)
                \/ \E t \in {o.owner} \cup above(o) : \E q \in CodexBeside(read, t, r.total), a \in Codex!RowsOf(decision[o]) : q.mirror = a.response
             /\ CodexBeside(read, o.owner, r.total) # {} \/ CodexCopied(read, o.owner, r.total)
<1>3. ASSUME NEW o \in DOMAIN decision \ Codex!Counted, decision[o] # None, decision[o].owner # o.owner,
             NEW r \in Codex!RowsOf(o)
      PROVE  Goal(o, r)
  <2> DEFINE c == Codex!Candidate(read, o)
             e == CodexEnds(read, C, c)
             p == decision[o]
  <2>1. /\ DOMAIN decision = Codex!Observations(read) /\ o \in Codex!Observations(read)
        /\ c \in C /\ Codex!Observation(c) = o
        /\ e # None /\ CodexStands(read, C, p, e) /\ p \in Codex!Observations(read)
    <3> HIDE DEF S
    <3>1. DOMAIN decision = Codex!Observations(read)
      BY <1>1, CodexDecisions DEF S
    <3> QED BY <1>1, <1>3, <3>1, CodexDecisions DEF S
  <2> HIDE DEF R
  <2>2. <<c, e>> \in R
    <3>1. \A x \in C : <<x, x>> \in R
      <4> TAKE x \in C
      <4>1. CodexTaken(read, x, x)
        BY DEF CodexTaken
      <4> QED BY <1>2, <4>1
    <3>2. C = Codex!Candidates(read, S) /\ S = Codex!KnownThreads(read)
      OBVIOUS
    <3> HIDE DEF C, S, c
    <3>3. \A x, y, z \in C : CodexGoes(read, C, x, y) /\ <<y, z>> \in R => <<x, z>> \in R
      <4> TAKE x, y, z \in C
      <4> HAVE CodexGoes(read, C, x, y) /\ <<y, z>> \in R
      <4>1. CodexTaken(read, y, z)
        BY <1>2
      <4>2. CodexTaken(read, x, z)
        BY <1>1, <3>2, <4>1, CodexTakenOn
      <4> QED BY <1>2, <4>2
    <3> QED BY <1>1, <2>1, <3>1, <3>2, <3>3, CodexAlong DEF e
  <2>3. CodexTaken(read, c, e)
    BY <1>2, <2>2
  <2>4. e \in C /\ p = Codex!Observation(e)
    BY <2>1 DEF CodexStands
  <2>5. p.owner = e.owner /\ o.owner = c.owner
    BY <2>1, <2>4, CodexObserves
  <2>6. c \in Codex!Rows(read) /\ CodexRow(c) /\ e \in Codex!Rows(read)
    BY <1>1, <2>1, <2>4, CodexCandidates
  <2>7. e \in Codex!RowsOf(p)
    BY <2>4, <2>6, CodexRowsOfAll DEF Codex!RowsOf
  <2> HIDE DEF c, e, C, p
  <2>8. c.kind \in {"legacy", "response"}
    BY <2>6, CodexRowSays, Zenon
  <2>9. e.owner # c.owner
    BY <1>3, <2>5 DEF p
  <2>10. c.kind = "legacy" /\ CodexRelated(read, c, e) /\ (CodexBeside(read, c.owner, c.total) # {} \/ CodexCopied(read, c.owner, c.total))
    BY <2>3, <2>8, <2>9 DEF CodexTaken
  <2>11. c.total = r.total
    <3>1. r \in Codex!Rows(read) /\ Codex!Observation(r) = o
      BY CodexRowsOfAll DEF Codex!RowsOf
    <3>2. CodexRow(r)
      BY <1>1, <3>1, CodexRowsAreRows
    <3> QED BY <2>1, <2>6, <2>10, <3>1, <3>2, CodexEntries
  <2>12. \/ p.owner \in above(o)
         \/ \E t \in {o.owner} \cup above(o) : \E q \in CodexBeside(read, t, r.total), a \in Codex!RowsOf(p) : q.mirror = a.response
    BY <2>5, <2>7, <2>10, <2>11 DEF CodexRelated
  <2> QED BY <2>5, <2>10, <2>11, <2>12 DEF p
<1> HIDE DEF C, S, R
<1>4. \A o \in DOMAIN decision \ Codex!Counted : decision[o] # None /\ decision[o].owner # o.owner =>
        \A r \in Codex!RowsOf(o) : Goal(o, r)
  BY <1>3
<1> QED BY <1>4, Zenon DEF Codex!CopiesAreInherited, CodexBeside, CodexCopied, CodexInherited

LEMMA CodexSafe ==
  ASSUME Codex!CodexConstants, CodexInv
  PROVE  /\ Codex!TypeOK /\ Codex!Incremental /\ Codex!CountedOnce /\ Codex!NothingLost
         /\ Codex!UndisputedOnly /\ Codex!CopiesAreInherited
<1>1. Codex!Incremental
  BY DEF CodexInv
<1> QED BY <1>1, CodexTypes, CodexCountedOnce, CodexNothingLost, CodexUndisputed, CodexInheritedOnly
=============================================================================
